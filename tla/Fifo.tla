-------------------------------- MODULE Fifo --------------------------------
(***************************************************************************)
(* What a queue of this repository promises its users, whatever its        *)
(* implementation: items come out in the order they went in, each once,    *)
(* and a clear discards exactly what had not come out yet.                 *)
(*                                                                         *)
(* q is the queue's content; in and out are the histories of what was     *)
(* put in and taken out since the last clear, so that a step which loses  *)
(* or invents an item is not mistaken for a clear.  Both the SPSC ring     *)
(* buffer (Spsc) and the PosixHal mailbox (PosixHal) are shown to          *)
(* implement this specification.                                           *)
(***************************************************************************)
EXTENDS Sequences

CONSTANT Msgs   \* what can be queued

VARIABLES q, in, out

fifoVars == <<q, in, out>>

Init == q = <<>> /\ in = <<>> /\ out = <<>>

\* An item is appended.
Enq(m) ==
  /\ q' = Append(q, m) /\ in' = Append(in, m)
  /\ UNCHANGED out

\* The oldest item is taken out.
Deq ==
  /\ q # <<>>
  /\ q' = Tail(q) /\ out' = Append(out, Head(q))
  /\ UNCHANGED in

\* Everything still queued is discarded.
Clear ==
  /\ q' = <<>> /\ in' = out
  /\ UNCHANGED out

Next == (\E m \in Msgs : Enq(m)) \/ Deq \/ Clear

Spec == Init /\ [][Next]_fifoVars

(* The queue holds what went in and has not come out, in order.           *)
Conserved == in = out \o q
=============================================================================
