------------------------------ MODULE MCMirror ------------------------------
(* Small values for the structured constants of Mirror: 1 is a.txt, 2 is    *)
(* a.vayutmp, 3 is a.zip, 4 is receipts.json, 5 is receipts.vayutmp; c3 is  *)
(* longer than the other contents, which may change places.                 *)
EXTENDS Mirror, TLC

CONSTANTS c1, c2, c3

MCTempOf == [n \in InFolder |-> IF n < 4 THEN 2 ELSE 5]

MCSize == [c \in Contents |-> IF c = c3 THEN 2 ELSE 1]

SameSize == Permutations({c1, c2})
=============================================================================
