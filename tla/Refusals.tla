------------------------------ MODULE Refusals ------------------------------
(***************************************************************************)
(* A name, a secret or a path that a constructor looks at is represented by *)
(* its flaws: what of it would be refused.  What the source tells is the    *)
(* first of them, in the order it asks.                                     *)
(***************************************************************************)
EXTENDS Sequences, FiniteSetsExt

Sound == "none"

FirstFlaw(order, flaws) ==
    LET found == {i \in DOMAIN order : order[i] \in flaws}
    IN  IF found = {} THEN Sound ELSE order[Min(found)]
=============================================================================
