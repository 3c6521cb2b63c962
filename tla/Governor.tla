------------------------------ MODULE Governor ------------------------------
(***************************************************************************)
(* core/src/governor.rs: the battery safety governor, and                   *)
(* core/src/sampler.rs: how soon the cell is looked at again.               *)
(*                                                                         *)
(* A governor is a value, as in the source: Supervisor keeps one across     *)
(* ticks, while a request and an inspection each build one and drop it.     *)
(* Reasons and the evidence strings of transitions are left out; a          *)
(* transition is a change of the level.                                     *)
(***************************************************************************)
EXTENDS Battery, Condition

CONSTANTS
    WarnTemp, CriticalTemp, HardStopTemp,   \* whole degrees, ascending
    DegradedHealth, RetireHealth,           \* percent, descending
    Ceiling,                                \* the charge ceiling asked for
    FailureMax                              \* where the blind counter saturates (u32::MAX)

MaxHardStop    == 60
BlindTolerance == 3

(* What Thresholds::new accepts. *)
ASSUME ThresholdsAssumption ==
    /\ {WarnTemp, CriticalTemp, HardStopTemp} \subseteq Int
    /\ WarnTemp < CriticalTemp
    /\ CriticalTemp < HardStopTemp
    /\ HardStopTemp <= MaxHardStop
    /\ DegradedHealth \in Percent
    /\ RetireHealth \in Percent
    /\ RetireHealth < DegradedHealth

ASSUME CeilingAssumption == Ceiling \in Percent

ASSUME FailureMaxAssumption == FailureMax \in Nat /\ FailureMax >= BlindTolerance

Governors == [level : Levels, failures : 0..FailureMax]

NewGovernor == [level |-> Normal, failures |-> 0]

(* Mutant of Escalate: forgets that a level only rises. *)
EscalateSets(g, to) == [g EXCEPT !.level = to]

(* Raises the level, never lowers it. *)
Escalate(g, to) == IF to > g.level THEN [g EXCEPT !.level = to] ELSE g

(* The level one reading calls for: the most severe threshold it crosses.   *)
(* Health counts only where it was measured.                                *)
LevelFor(r) ==
    LET temp == ToCelsius(r.temp)
        soh  == StateOfHealth(r)
    IN  IF temp >= HardStopTemp
          THEN Halt
        ELSE IF temp >= CriticalTemp \/ (soh # Unknown /\ soh < RetireHealth)
          THEN Protect
        ELSE IF temp >= WarnTemp \/ (soh # Unknown /\ soh < DegradedHealth)
          THEN Derated
        ELSE Normal

(* A reading that arrived is the only thing that clears the blind counter. *)
Observe(g, r) == Escalate([g EXCEPT !.failures = 0], LevelFor(r))

(* Mutants of ObserveUnreadable: counts in vain, counts nothing, counts on. *)
ObserveUnreadableCounts(g) ==
    [g EXCEPT !.failures = IF @ < FailureMax THEN @ + 1 ELSE FailureMax]

ObserveUnreadableIgnored(g) == g

ObserveUnreadableUnbounded(g) == [g EXCEPT !.failures = @ + 1]

(* The counter saturates, and escalates once it reaches the tolerance. *)
ObserveUnreadable(g) ==
    LET n == IF g.failures < FailureMax THEN g.failures + 1 ELSE FailureMax
        h == [g EXCEPT !.failures = n]
    IN  IF n < BlindTolerance THEN h ELSE Escalate(h, Derated)

(* What came of writing the ceiling and reading it back: the write was      *)
(* accepted or not, and the node then read as a percentage or not at all.   *)
NoReadback == -1

CeilingHeld(applied, got) ==
    /\ applied
    /\ got # NoReadback
    /\ got <= Ceiling

(* Mutant of Enforce: a ceiling that was not held goes a level too far. *)
EnforceProtects(g, applied, got) ==
    IF CeilingHeld(applied, got) THEN g ELSE Escalate(g, Protect)

(* A ceiling that was refused, cannot be read back, or reads back too high. *)
Enforce(g, applied, got) ==
    IF CeilingHeld(applied, got) THEN g ELSE Escalate(g, Derated)

(* device::observe, for one request: a governor of its own for this one     *)
(* reading, and a cell that cannot be read is one to protect.               *)
ObservedLevel(c) ==
    IF c = NoReading THEN Protect ELSE Observe(NewGovernor, c).level

(* What a person's look at the phone makes of a governor: only a cell that  *)
(* lies flat comes back.                                                    *)
AfterInspection(g, liesFlat) ==
    [g EXCEPT !.level = IF liesFlat THEN Normal ELSE Halt]

-----------------------------------------------------------------------------
(* The sampler. *)

Steady == "steady"
Alert  == "alert"

AlertMargin == 5
AlertFrom   == WarnTemp - AlertMargin   \* the lowest rung is WarnTemp

CadenceFor(r) ==
    IF IsCharging(r) \/ ToCelsius(r.temp) >= AlertFrom THEN Alert ELSE Steady

CadenceWhenUnreadable == Alert
=============================================================================
