------------------------------ MODULE MC_Gossip ------------------------------
(* Model values for Gossip: the receiver 1 and two peers.                  *)
EXTENDS Gossip

MCOrigins == {2, 3}

\* No merge_vv calls.
MCNoRemoteVVs == {}

(* Remote vectors a neighbour may send: one with entries for both peers,  *)
(* one with an entry for the receiver itself.  Each is behind, equal to or *)
(* ahead of the local view depending on what has been accepted.           *)
MCRemoteVVs == { << <<2, 2>>, <<3, 1>> >>, << <<3, 2>>, <<1, 1>> >> }
=============================================================================
