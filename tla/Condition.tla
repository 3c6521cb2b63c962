------------------------------ MODULE Condition ------------------------------
(***************************************************************************)
(* What the device is told to be like: the governor's level                 *)
(* (core/src/governor.rs), the outage ladder's rung (core/src/shed.rs), and *)
(* what the two together permit of a read (core/src/site.rs, Availability)  *)
(* and of a write (core/src/vault.rs, Admission).                           *)
(***************************************************************************)
EXTENDS Naturals

(* Every level, ordered by severity. *)
Normal  == 0
Derated == 1
Protect == 2
Halt    == 3
Levels  == Normal..Halt

MaxLevel(a, b) == IF a > b THEN a ELSE b

(* Every rung of the ladder, in the order it is walked. *)
Serving      == 0
Announced    == 1
Shedding     == 2
Quiesced     == 3
ShuttingDown == 4
Stages       == Serving..ShuttingDown

(* Whether the governor permits traffic. *)
MayServe(level) == level <= Derated

(* Whether stored files are read out. *)
ServesReaders(level, stage) ==
    /\ MayServe(level)
    /\ stage \in {Serving, Announced}

(* Whether files are taken or removed: a write asks for more than a read.   *)
TakesFiles(level, stage) ==
    /\ level = Normal
    /\ stage = Serving
=============================================================================
