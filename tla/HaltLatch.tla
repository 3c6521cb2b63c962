----------------------------- MODULE HaltLatch -----------------------------
(***************************************************************************)
(* What the halt record of core/src/halt.rs and cli/src/halted.rs is for: a *)
(* device that has recorded a halt starts serving again only after a person *)
(* has looked at the phone and found it flat.  Nothing about processes,     *)
(* files or power cuts.                                                     *)
(***************************************************************************)
VARIABLES
    halted,     \* a halt is on record
    inspected,  \* no halt was recorded since a person last found the phone flat
    serving     \* a process that serves is running

vars == <<halted, inspected, serving>>

Init == halted = FALSE /\ inspected = TRUE /\ serving = FALSE

(* Record a halt, whatever is running. *)
Latch == halted' = TRUE /\ inspected' = FALSE /\ UNCHANGED serving

(* A person found the phone flat: the only way back. *)
Clear == halted' = FALSE /\ inspected' = TRUE /\ UNCHANGED serving

Start == ~halted /\ serving' = TRUE /\ UNCHANGED <<halted, inspected>>

(* Stop for any reason. *)
Stop == serving' = FALSE /\ UNCHANGED <<halted, inspected>>

(* Lose power, which may bring a halt onto the record and never takes one   *)
(* off it.                                                                  *)
Lose == serving' = FALSE /\ halted' = TRUE /\ inspected' = FALSE

Next == Latch \/ Clear \/ Start \/ Stop \/ Lose

Spec == Init /\ [][Next]_vars
=============================================================================
