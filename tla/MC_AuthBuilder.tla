--------------------------- MODULE MC_AuthBuilder ---------------------------
(* Model-checking instance of AuthBuilder: the raw key of the unit tests  *)
(* (0x42 x 16), a key whose every word has its top bit set (so times_two  *)
(* carries between all words and reduces by 0x87), and the all-ones key.  *)
EXTENDS AuthBuilder

MCRawKeys ==
  { [i \in 1..16 |-> 66],
    [i \in 1..16 |-> IF i % 4 = 0 THEN 128 ELSE 0],
    [i \in 1..16 |-> 255] }
=============================================================================
