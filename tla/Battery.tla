------------------------------ MODULE Battery ------------------------------
(***************************************************************************)
(* core/src/battery.rs: the units a cell is read in, and one reading of it. *)
(*                                                                         *)
(* A reading keeps the nodes something decides on: temperature in tenths of *)
(* a degree, charge, current, and the two capacities health is the ratio    *)
(* of.  Voltage, cycle count and the vendor's own opinion are carried by    *)
(* the code for the log only.                                               *)
(***************************************************************************)
EXTENDS Integers

CONSTANTS
    IntMax,     \* the largest value of the width capacities are parsed in (i64)
    NoReading   \* what a cell reads as when a node is missing or not a number

ASSUME IntMaxAssumption == IntMax \in Nat

(* What StateOfHealth::Unknown is here: no percentage. *)
Unknown == -1

Percent == 0..100

Reading == [temp : Int, capacity : Percent, current : Int, full : Int, design : Int]

(* Percent::clamped *)
Clamped(v) == IF v < 0 THEN 0 ELSE IF v > 100 THEN 100 ELSE v

(* Integer division of the source rounds toward zero, TLA+'s rounds down. *)
ToCelsius(deci) == IF deci >= 0 THEN deci \div 10 ELSE -((-deci) \div 10)

(* A capacity nobody could have, or one whose percentage does not fit the   *)
(* width, is no measurement at all.                                         *)
StateOfHealth(r) ==
    IF \/ r.design <= 0
       \/ r.full < 0
       \/ r.full * 100 > IntMax
    THEN Unknown
    ELSE Clamped((r.full * 100) \div r.design)

IsCharging(r) == r.current > 0
=============================================================================
