----------------------------- MODULE Supervisor -----------------------------
(***************************************************************************)
(* core/src/runtime.rs: the supervisor.  One tick reads the cell, enforces  *)
(* the charge ceiling, considers the thresholds, advances the outage ladder *)
(* and decides how soon to look again.                                      *)
(*                                                                         *)
(* The device around it moves on its own: the cell's nodes change, mains    *)
(* comes and goes, and time passes on battery by any amount between two     *)
(* ticks, because a tick may be late.                                       *)
(***************************************************************************)
EXTENDS Governor, ShedLadder

CONSTANTS
    Readings,       \* what the cell's nodes can read as
    Readbacks,      \* what the ceiling node can read back as
    MaxElapsed      \* bound: where time on battery stops being counted

ASSUME ReadingsAssumption ==
    /\ Readings \subseteq Reading
    /\ NoReading \notin Readings
    /\ Readbacks \subseteq Percent \cup {NoReadback}

ASSUME MaxElapsedAssumption == MaxElapsed \in Nat /\ MaxElapsed >= QuiesceAfter

VARIABLES
    cell,           \* what the nodes read as now: a reading, or NoReading
    outage,         \* Power: on mains, or the time since mains was lost
    hasCeiling,     \* whether the device exposes a charge ceiling at all
    gov,            \* the governor
    shed,           \* the outage ladder
    cadence,        \* how soon the supervisor looks again
    seen            \* history: what the readings so far have shown

device     == <<cell, outage>>
supervisor == <<gov, shed, cadence>>
vars       == <<cell, outage, hasCeiling, gov, shed, cadence, seen>>

OnMains == -1

(* What the history variable remembers: the worst level a reading has       *)
(* called for, how many ticks in a row could not read the cell, how many    *)
(* readings the governor was handed and did not weigh, whether the ceiling  *)
(* ever failed its check, and whether the cell was ever lost for as long as *)
(* the tolerance.                                                           *)
NothingSeen ==
    [worst |-> Normal, blindRun |-> 0, unweighed |-> 0, ceilingFault |-> FALSE,
     blinded |-> FALSE]

Init ==
    /\ cell \in Readings \cup {NoReading}
    /\ outage = OnMains
    /\ hasCeiling \in BOOLEAN
    /\ gov = NewGovernor
    /\ \E hasCell \in BOOLEAN : shed = NewShed(hasCell)
    /\ cadence = Alert      \* the first tick does not wait
    /\ seen = NothingSeen

(* advance_shed *)
AdvanceShed(charge) ==
    IF outage = OnMains THEN ShedRestored(shed) ELSE ShedOnTick(shed, outage, charge)

(* The ceiling first; the thresholds only where enforcing it changed        *)
(* nothing, because the two are joined by or_else.                          *)
Enforced(applied, got) == IF hasCeiling THEN Enforce(gov, applied, got) ELSE gov

(* Mutants of Governed: a node with a ceiling, or with one that is not      *)
(* held, never looks at the thresholds.                                     *)
GovernedByCeilingOnly(r, applied, got) ==
    IF hasCeiling THEN Enforced(applied, got) ELSE Observe(gov, r)

GovernedWhileHeld(r, applied, got) ==
    IF hasCeiling /\ ~CeilingHeld(applied, got) THEN Enforced(applied, got)
    ELSE Observe(gov, r)

Governed(r, applied, got) ==
    LET enforced == Enforced(applied, got)
    IN  IF enforced.level # gov.level THEN enforced ELSE Observe(enforced, r)

TickReadable(applied, got) ==
    /\ cell # NoReading
    /\ gov' = Governed(cell, applied, got)
    /\ cadence' = CadenceFor(cell)
    /\ shed' = AdvanceShed(cell.capacity)
    /\ seen' = [seen EXCEPT
                  !.worst        = MaxLevel(@, LevelFor(cell)),
                  !.blindRun     = 0,
                  !.unweighed    = IF Enforced(applied, got).level # gov.level
                                     THEN @ + 1 ELSE @,
                  !.ceilingFault = @ \/ (hasCeiling /\ ~CeilingHeld(applied, got))]
    /\ UNCHANGED <<device, hasCeiling>>

(* The path that cannot read the cell is a tick like any other. *)
TickUnreadable ==
    /\ cell = NoReading
    /\ gov' = ObserveUnreadable(gov)
    /\ cadence' = CadenceWhenUnreadable
    /\ shed' = AdvanceShed(NoCharge)
    /\ LET run == IF seen.blindRun < FailureMax THEN seen.blindRun + 1 ELSE FailureMax
       IN  seen' = [seen EXCEPT !.blindRun = run,
                                !.blinded  = @ \/ run >= BlindTolerance]
    /\ UNCHANGED <<device, hasCeiling>>

Tick ==
    \/ \E applied \in BOOLEAN, got \in Readbacks : TickReadable(applied, got)
    \/ TickUnreadable

-----------------------------------------------------------------------------
(* The device. *)

CellChanges ==
    /\ cell' \in (Readings \cup {NoReading}) \ {cell}
    /\ UNCHANGED <<outage, hasCeiling, supervisor, seen>>

MainsLost ==
    /\ outage = OnMains
    /\ outage' = 0
    /\ UNCHANGED <<cell, hasCeiling, supervisor, seen>>

MainsReturns ==
    /\ outage # OnMains
    /\ outage' = OnMains
    /\ UNCHANGED <<cell, hasCeiling, supervisor, seen>>

TimePasses ==
    /\ outage # OnMains
    /\ outage < MaxElapsed
    /\ outage' = outage + 1
    /\ UNCHANGED <<cell, hasCeiling, supervisor, seen>>

Next ==
    \/ Tick
    \/ CellChanges
    \/ MainsLost
    \/ MainsReturns
    \/ TimePasses

Spec == Init /\ [][Next]_vars

(* The loop ticks again after every wait, and the clock does not stop. *)
FairSpec == Spec /\ WF_vars(Tick) /\ WF_vars(TimePasses)

-----------------------------------------------------------------------------
(* Invariants. *)

SeenType ==
    [worst : Levels, blindRun : 0..FailureMax, unweighed : Nat,
     ceilingFault : BOOLEAN, blinded : BOOLEAN]

TypeOK ==
    /\ cell \in Readings \cup {NoReading}
    /\ outage \in 0..MaxElapsed \cup {OnMains}
    /\ hasCeiling \in BOOLEAN
    /\ gov \in Governors
    /\ shed \in [stage : Stages, hasCell : BOOLEAN, history : Seq(ShedRungs)]
    /\ cadence \in {Steady, Alert}
    /\ seen \in SeenType

(* While nothing has gone wrong, the blind counter is exactly the run of    *)
(* ticks that could not read the cell: a reading in between starts it       *)
(* again, and no tick is counted twice.  (observe, observe_unreadable; an   *)
(* enforcement that derates skips the reset, which is why only Normal.)     *)
BlindCounterExact == gov.level = Normal => gov.failures = seen.blindRun

(* A cell that was lost for the whole tolerance leaves a mark that a later  *)
(* good reading does not take back.  (observe_unreadable, escalate)         *)
BlindnessDerates == seen.blinded => gov.level >= Derated

(* Whatever the mechanism does, at most one reading of a supervisor's life  *)
(* goes unweighed, and until that one every reading counted in full.        *)
(* (tick: enforce before observe, joined by or_else)                        *)
AtMostOneReadingUnweighed ==
    /\ seen.unweighed <= 1
    /\ seen.unweighed = 0 => gov.level >= seen.worst

(* Every level is earned: protection and halt only by a reading that called *)
(* for them, derating by such a reading, a ceiling that was not held, or a  *)
(* cell that could not be read for the whole tolerance.                     *)
EscalationEarned ==
    /\ gov.level > Derated => seen.worst >= gov.level
    /\ gov.level = Derated => seen.worst >= Derated \/ seen.ceilingFault \/ seen.blinded

(* The obligations handed back since the node last stood at Serving are the *)
(* rungs from the top to the current one, each exactly once and in order:   *)
(* nothing shuts down without having flushed.  (walk_to, restored)          *)
LadderInOrder ==
    /\ Len(shed.history) = shed.stage
    /\ \A i \in 1..Len(shed.history) : shed.history[i].stage = i

(* The clock alone never shuts the node down, and what does shut it down    *)
(* takes it all the way.  (on_tick, stage_for_elapsed)                      *)
ShutdownIsAboutCharge ==
    \A i \in 1..Len(shed.history) :
        /\ shed.history[i].stage = ShuttingDown => shed.history[i].reason # "elapsed"
        /\ shed.history[i].reason # "elapsed" => shed.stage = ShuttingDown

(* When the sampler is content to wait, the cell can warm by the whole      *)
(* margin before the next look and still be under the lowest threshold.     *)
(* (cadence_for, alert_from; truncation of the reading included)            *)
SteadyLeavesMargin ==
    \A r \in Readings, rise \in 0..(AlertMargin * 10) :
        CadenceFor(r) = Steady => ToCelsius(r.temp + rise) < WarnTemp

-----------------------------------------------------------------------------
(* What a step may never do. *)

(* Escalation only: no tick, whatever it reads, lowers the level.           *)
LevelNeverFalls == [][gov'.level >= gov.level]_vars

(* The ladder goes down only on battery, and back up only from Announced,   *)
(* where nothing has been torn down, on mains.                              *)
LadderMoves ==
    [][ /\ shed'.stage > shed.stage => outage # OnMains
        /\ shed'.stage < shed.stage =>
              shed.stage = Announced /\ shed'.stage = Serving /\ outage = OnMains
      ]_vars

-----------------------------------------------------------------------------
(* What eventually happens. *)

Hot == {r \in Readings : LevelFor(r) = Halt}

(* A cell that stays past the hard stop is halted, even though one reading  *)
(* of it may go unweighed.                                                  *)
HotCellHalts == <>[](cell \in Hot) => <>(gov.level = Halt)

(* A cell that stays unreadable is derated. *)
LostCellDerates == <>[](cell = NoReading) => <>(gov.level >= Derated)

(* An outage that lasts quiesces the node, or shuts it down, however full   *)
(* the cell.                                                                *)
LongOutageQuiesces == <>[](outage # OnMains) => <>(shed.stage >= Quiesced)

=============================================================================
