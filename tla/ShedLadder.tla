----------------------------- MODULE ShedLadder -----------------------------
(***************************************************************************)
(* core/src/shed.rs: the power-loss ladder of a node that rides an outage   *)
(* on its own cell.  Elapsed time is an argument, as in the source.         *)
(*                                                                         *)
(* A ladder is a value [stage, hasCell, history].  Each entry of history is *)
(* one rung and why it was entered; the code's history is never trimmed,    *)
(* this one starts again when mains returns and service resumes, so that it *)
(* stays as long as the ladder.                                             *)
(***************************************************************************)
EXTENDS Condition, Sequences

CONSTANTS
    ShedAfter, QuiesceAfter,    \* time on battery each rung is due at
    Reserve                     \* the charge the node shuts down holding

MinReserve == 10

(* What ShedPlan::new accepts. *)
ASSUME ShedPlanAssumption ==
    /\ ShedAfter \in Nat
    /\ QuiesceAfter \in Nat
    /\ ShedAfter < QuiesceAfter
    /\ Reserve \in MinReserve..100

ShedReasons == {"elapsed", "reserve", "unmeasurable", "no_ups"}
ShedRungs   == [stage : Announced..ShuttingDown, reason : ShedReasons]

(* The charge of a cell that did not answer: not a percentage. *)
NoCharge == 101

NewShed(hasCell) == [stage |-> Serving, hasCell |-> hasCell, history |-> << >>]

(* Mutants of StageForElapsed: time shuts the node down, or never quiesces. *)
StageForElapsedStops(elapsed) ==
    IF elapsed >= QuiesceAfter THEN ShuttingDown
    ELSE IF elapsed >= ShedAfter THEN Shedding
    ELSE Announced

StageForElapsedSheds(elapsed) == IF elapsed >= ShedAfter THEN Shedding ELSE Announced

(* Time alone never reaches the last rung. *)
StageForElapsed(elapsed) ==
    IF elapsed >= QuiesceAfter THEN Quiesced
    ELSE IF elapsed >= ShedAfter THEN Shedding
    ELSE Announced

(* The rung an observation calls for, and why.  Charge is asked before the  *)
(* clock; a cell that cannot be read counts as an empty one.                *)
ShedTarget(hasCell, elapsed, charge) ==
    IF ~hasCell
      THEN [stage |-> ShuttingDown, reason |-> "no_ups"]
    ELSE IF charge = NoCharge
      THEN [stage |-> ShuttingDown, reason |-> "unmeasurable"]
    ELSE IF charge <= Reserve
      THEN [stage |-> ShuttingDown, reason |-> "reserve"]
    ELSE [stage |-> StageForElapsed(elapsed), reason |-> "elapsed"]

(* Mutant of RungsBetween: jumps to the target. *)
RungsOnlyLast(stage, target) == IF target.stage > stage THEN <<target>> ELSE << >>

(* Every rung between two stages, in order; none when the target is not     *)
(* further down.                                                            *)
RungsBetween(stage, target) ==
    [i \in 1..(IF target.stage > stage THEN target.stage - stage ELSE 0) |->
        [stage |-> stage + i, reason |-> target.reason]]

(* What Shed::on_tick returns. *)
Rungs(s, elapsed, charge) ==
    RungsBetween(s.stage, ShedTarget(s.hasCell, elapsed, charge))

(* What Shed::on_tick leaves behind. *)
ShedOnTick(s, elapsed, charge) ==
    LET rungs == Rungs(s, elapsed, charge)
    IN  [s EXCEPT !.stage   = IF rungs = << >> THEN @ ELSE rungs[Len(rungs)].stage,
                  !.history = @ \o rungs]

(* Mutant of ShedRestored: resumes from wherever it stands. *)
ShedRestoredAlways(s) == [s EXCEPT !.stage = Serving, !.history = << >>]

(* Mains came back.  Only a node that has torn nothing down resumes. *)
ShedRestored(s) ==
    IF s.stage = Announced THEN [s EXCEPT !.stage = Serving, !.history = << >>] ELSE s
=============================================================================
