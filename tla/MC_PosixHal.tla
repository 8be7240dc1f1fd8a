---------------------------- MODULE MC_PosixHal ----------------------------
(* Model-checking instance of PosixHal: two threads, one other module, so *)
(* that every destination kind (own id, broadcast, another module) and    *)
(* every two-thread interleaving of send, recv, the callback calls and    *)
(* the mock clock occur.                                                   *)
EXTENDS PosixHal

MCThreads == {1, 2}
MCOthers == {2}
=============================================================================
