-------------------------- MODULE SupervisorProofs --------------------------
(***************************************************************************)
(* What Supervisor guarantees for every set of thresholds, every plan, and  *)
(* every behaviour of the device around it.                                 *)
(***************************************************************************)
EXTENDS Supervisor, SequenceTheorems, TLAPS

-----------------------------------------------------------------------------
(* The governor's operations. *)

(* A reading calls for one of the four levels.  (observe) *)
LEMMA LevelForType == ASSUME NEW r PROVE LevelFor(r) \in Levels
BY DEF LevelFor, Levels, Normal, Derated, Protect, Halt

(* escalate: the level afterwards is the worse of the two; the counter is   *)
(* untouched.                                                               *)
LEMMA EscalateFacts ==
    ASSUME NEW g \in Governors, NEW to \in Levels
    PROVE  /\ Escalate(g, to) \in Governors
           /\ Escalate(g, to).level = MaxLevel(g.level, to)
           /\ Escalate(g, to).failures = g.failures
BY DEF Escalate, Governors, MaxLevel, Levels, Normal, Halt

(* observe: the worse of the level and what the reading calls for, and a    *)
(* counter that starts again.                                               *)
LEMMA ObserveFacts ==
    ASSUME NEW g \in Governors, NEW r
    PROVE  /\ Observe(g, r) \in Governors
           /\ Observe(g, r).level = MaxLevel(g.level, LevelFor(r))
           /\ Observe(g, r).failures = 0
<1> DEFINE h == [g EXCEPT !.failures = 0]
<1>1. h \in Governors /\ h.level = g.level /\ h.failures = 0
  BY FailureMaxAssumption DEF Governors
<1>2. LevelFor(r) \in Levels
  BY LevelForType
<1> HIDE DEF h
<1>3. /\ Escalate(h, LevelFor(r)) \in Governors
      /\ Escalate(h, LevelFor(r)).level = MaxLevel(g.level, LevelFor(r))
      /\ Escalate(h, LevelFor(r)).failures = 0
  BY <1>1, <1>2, EscalateFacts
<1> QED
  BY <1>3 DEF Observe, h

(* observe_unreadable: one more failure up to the width of the counter, and *)
(* at least Derated from the tolerance on.                                  *)
LEMMA ObserveUnreadableFacts ==
    ASSUME NEW g \in Governors
    PROVE  LET n == IF g.failures < FailureMax THEN g.failures + 1 ELSE FailureMax
           IN  /\ ObserveUnreadable(g) \in Governors
               /\ ObserveUnreadable(g).failures = n
               /\ ObserveUnreadable(g).level =
                     IF n < BlindTolerance THEN g.level ELSE MaxLevel(g.level, Derated)
<1> DEFINE n == IF g.failures < FailureMax THEN g.failures + 1 ELSE FailureMax
           h == [g EXCEPT !.failures = n]
<1>1. n \in 0..FailureMax
  BY FailureMaxAssumption DEF Governors
<1>2. h \in Governors /\ h.level = g.level /\ h.failures = n
  BY <1>1 DEF Governors
<1>3. Derated \in Levels
  BY DEF Levels, Normal, Derated, Halt
<1> HIDE DEF h
<1>4. /\ Escalate(h, Derated) \in Governors
      /\ Escalate(h, Derated).level = MaxLevel(g.level, Derated)
      /\ Escalate(h, Derated).failures = n
  BY <1>2, <1>3, EscalateFacts
<1> HIDE DEF n
<1>5. ObserveUnreadable(g) = IF n < BlindTolerance THEN h ELSE Escalate(h, Derated)
  BY DEF ObserveUnreadable, h, n
<1>6. /\ ObserveUnreadable(g) \in Governors
      /\ ObserveUnreadable(g).failures = n
      /\ ObserveUnreadable(g).level =
            IF n < BlindTolerance THEN g.level ELSE MaxLevel(g.level, Derated)
  BY <1>2, <1>4, <1>5
<1> QED
  BY <1>6 DEF n

(* enforce: a ceiling that is not held derates, and nothing else changes.   *)
LEMMA EnforceFacts ==
    ASSUME NEW g \in Governors, NEW applied, NEW got
    PROVE  /\ Enforce(g, applied, got) \in Governors
           /\ Enforce(g, applied, got).level =
                 IF CeilingHeld(applied, got) THEN g.level ELSE MaxLevel(g.level, Derated)
           /\ Enforce(g, applied, got).failures = g.failures
<1>1. Derated \in Levels
  BY DEF Levels, Normal, Derated, Halt
<1> QED
  BY <1>1, EscalateFacts DEF Enforce

(* One readable pass, enforcement and thresholds together: either enforcing *)
(* took a Normal governor to Derated and the reading was not weighed, or    *)
(* enforcing changed nothing and it was.  (tick)                            *)
LEMMA GovernedFacts ==
    ASSUME NEW r, NEW applied, NEW got, gov \in Governors, hasCeiling \in BOOLEAN
    PROVE  /\ Governed(r, applied, got) \in Governors
           /\ \/ /\ Enforced(applied, got).level # gov.level
                 /\ gov.level = Normal
                 /\ hasCeiling /\ ~CeilingHeld(applied, got)
                 /\ Governed(r, applied, got).level = Derated
              \/ /\ Enforced(applied, got).level = gov.level
                 /\ Governed(r, applied, got).level = MaxLevel(gov.level, LevelFor(r))
                 /\ Governed(r, applied, got).failures = 0
<1> DEFINE e == Enforced(applied, got)
<1>1. /\ e \in Governors
      /\ e.level = IF ~hasCeiling \/ CeilingHeld(applied, got)
                     THEN gov.level ELSE MaxLevel(gov.level, Derated)
  BY EnforceFacts DEF Enforced
<1>2. /\ Observe(e, r) \in Governors
      /\ Observe(e, r).level = MaxLevel(e.level, LevelFor(r))
      /\ Observe(e, r).failures = 0
  BY <1>1, ObserveFacts
<1>3. Governed(r, applied, got) = IF e.level # gov.level THEN e ELSE Observe(e, r)
  BY DEF Governed
<1> HIDE DEF e
<1>4. CASE e.level # gov.level
  <2>1. /\ hasCeiling /\ ~CeilingHeld(applied, got)
        /\ e.level = MaxLevel(gov.level, Derated)
    BY <1>1, <1>4
  <2>2. gov.level = Normal /\ e.level = Derated
    BY <2>1, <1>4 DEF MaxLevel, Governors, Levels, Normal, Derated, Halt
  <2> QED
    BY <1>1, <1>3, <1>4, <2>1, <2>2 DEF e
<1>5. CASE e.level = gov.level
  BY <1>2, <1>3, <1>5 DEF e
<1> QED
  BY <1>4, <1>5

-----------------------------------------------------------------------------
(* The ladder's operations. *)

Sheds == [stage : Stages, hasCell : BOOLEAN, history : Seq(ShedRungs)]

(* What the ladder has handed back since Serving is the rungs down to the   *)
(* current one, in order; and a reason other than the clock goes all the    *)
(* way down.                                                                *)
LadderSound(s) ==
    /\ Len(s.history) = s.stage
    /\ \A i \in 1..Len(s.history) :
          /\ s.history[i].stage = i
          /\ s.history[i].stage = ShuttingDown => s.history[i].reason # "elapsed"
          /\ s.history[i].reason # "elapsed" => s.stage = ShuttingDown

(* The clock calls for a rung between Announced and Quiesced, anything else *)
(* for ShuttingDown.  (on_tick, stage_for_elapsed)                          *)
LEMMA ShedTargetFacts ==
    ASSUME NEW hasCell, NEW elapsed, NEW charge
    PROVE  LET t == ShedTarget(hasCell, elapsed, charge)
           IN  /\ t \in ShedRungs
               /\ t.stage = ShuttingDown <=> t.reason # "elapsed"
BY DEF ShedTarget, StageForElapsed, ShedRungs, ShedReasons, Announced, Shedding,
       Quiesced, ShuttingDown

(* walk_to: the rungs below the stage down to the target, each once.        *)
LEMMA RungsBetweenFacts ==
    ASSUME NEW stage \in Stages, NEW t \in ShedRungs
    PROVE  LET rungs == RungsBetween(stage, t)
           IN  /\ rungs \in Seq(ShedRungs)
               /\ Len(rungs) = IF t.stage > stage THEN t.stage - stage ELSE 0
               /\ \A i \in 1..Len(rungs) :
                     rungs[i].stage = stage + i /\ rungs[i].reason = t.reason
<1> DEFINE n == IF t.stage > stage THEN t.stage - stage ELSE 0
           rungs == [i \in 1..n |-> [stage |-> stage + i, reason |-> t.reason]]
<1>1. n \in Nat
  BY DEF ShedRungs, Stages, Serving, Announced, ShuttingDown
<1>2. \A i \in 1..n : [stage |-> stage + i, reason |-> t.reason] \in ShedRungs
  BY DEF ShedRungs, Stages, Serving, Announced, ShuttingDown
<1> HIDE DEF n
<1>3. rungs \in Seq(ShedRungs) /\ Len(rungs) = n
  BY <1>1, <1>2
<1>4. \A i \in 1..n : rungs[i].stage = stage + i /\ rungs[i].reason = t.reason
  OBVIOUS
<1>5. RungsBetween(stage, t) = rungs
  BY DEF RungsBetween, n
<1> HIDE DEF rungs
<1> QED
  BY <1>3, <1>4, <1>5 DEF n

(* on_tick: the ladder stays sound, and never moves up.                     *)
LEMMA ShedOnTickFacts ==
    ASSUME NEW s \in Sheds, NEW elapsed, NEW charge
    PROVE  LET after == ShedOnTick(s, elapsed, charge)
           IN  /\ after \in Sheds
               /\ after.stage >= s.stage
               /\ LadderSound(s) => LadderSound(after)
<1> DEFINE t     == ShedTarget(s.hasCell, elapsed, charge)
           rungs == RungsBetween(s.stage, t)
           after == ShedOnTick(s, elapsed, charge)
<1>1. t \in ShedRungs /\ (t.stage = ShuttingDown <=> t.reason # "elapsed")
  BY ShedTargetFacts
<1>2. s.stage \in Stages /\ s.history \in Seq(ShedRungs) /\ s.hasCell \in BOOLEAN
  BY DEF Sheds
<1> HIDE DEF t
<1>3. /\ rungs \in Seq(ShedRungs)
      /\ Len(rungs) = IF t.stage > s.stage THEN t.stage - s.stage ELSE 0
      /\ \A i \in 1..Len(rungs) :
            rungs[i].stage = s.stage + i /\ rungs[i].reason = t.reason
  BY <1>1, <1>2, RungsBetweenFacts
<1>4. after = [s EXCEPT !.stage   = IF rungs = << >> THEN s.stage
                                    ELSE rungs[Len(rungs)].stage,
                        !.history = s.history \o rungs]
  BY DEF ShedOnTick, Rungs, t
<1> HIDE DEF rungs
<1>5. /\ after.stage = IF rungs = << >> THEN s.stage ELSE rungs[Len(rungs)].stage
      /\ after.history = s.history \o rungs
      /\ after.hasCell = s.hasCell
      /\ after = [stage |-> after.stage, hasCell |-> after.hasCell,
                  history |-> after.history]
  BY <1>4 DEF Sheds
<1> HIDE DEF after
<1>6. after.stage = IF t.stage > s.stage THEN t.stage ELSE s.stage
  BY <1>1, <1>2, <1>3, <1>5
     DEF ShedRungs, Stages, Serving, Announced, ShuttingDown
<1>7. after \in Sheds
  <2>1. after.stage \in Stages
    BY <1>1, <1>2, <1>6 DEF ShedRungs, Stages, Serving, Announced, ShuttingDown
  <2>2. after.history \in Seq(ShedRungs)
    BY <1>2, <1>3, <1>5
  <2> QED
    BY <1>2, <1>5, <2>1, <2>2 DEF Sheds
<1>8. after.stage >= s.stage
  BY <1>1, <1>2, <1>6 DEF ShedRungs, Stages, Serving, Announced, ShuttingDown
<1>9. ASSUME LadderSound(s) PROVE LadderSound(after)
  <2>1. Len(s.history) = s.stage
    BY <1>9 DEF LadderSound
  <2>2. Len(after.history) = s.stage + Len(rungs)
    <3>1. Len(s.history \o rungs) = Len(s.history) + Len(rungs)
      BY <1>2, <1>3, ConcatProperties
    <3> QED
      BY <1>5, <2>1, <3>1
  <2>3. Len(after.history) = after.stage
    BY <1>1, <1>2, <1>3, <1>6, <2>2
       DEF ShedRungs, Stages, Serving, Announced, ShuttingDown
  <2>4. ASSUME NEW i \in 1..Len(after.history)
        PROVE  /\ after.history[i].stage = i
               /\ after.history[i].stage = ShuttingDown => after.history[i].reason # "elapsed"
               /\ after.history[i].reason # "elapsed" => after.stage = ShuttingDown
    <3>1. CASE i <= s.stage
      <4>1. i \in 1..Len(s.history) /\ after.history[i] = s.history[i]
        BY <1>2, <1>3, <1>5, <2>1, <2>2, <3>1 DEF Stages, Serving, ShuttingDown
      <4>2. /\ s.history[i].stage = i
            /\ s.history[i].stage = ShuttingDown => s.history[i].reason # "elapsed"
            /\ s.history[i].reason # "elapsed" => s.stage = ShuttingDown
        BY <1>9, <4>1 DEF LadderSound
      <4>3. s.stage = ShuttingDown => after.stage = ShuttingDown
        BY <1>1, <1>6 DEF ShedRungs, Announced, ShuttingDown
      <4> QED
        BY <4>1, <4>2, <4>3
    <3>2. CASE i > s.stage
      <4>1. /\ i - s.stage \in 1..Len(rungs)
            /\ after.history[i] = rungs[i - s.stage]
        BY <1>2, <1>3, <1>5, <2>1, <2>2, <3>2 DEF Stages, Serving, ShuttingDown
      <4>2. rungs[i - s.stage].stage = i /\ rungs[i - s.stage].reason = t.reason
        BY <1>2, <1>3, <4>1 DEF Stages, Serving, ShuttingDown
      <4>3. t.stage > s.stage /\ after.stage = t.stage
        BY <1>2, <1>3, <1>6, <4>1 DEF Stages, Serving, ShuttingDown
      <4>4. i = ShuttingDown => t.stage = ShuttingDown
        BY <1>1, <1>2, <1>3, <4>1, <4>3
           DEF ShedRungs, Stages, Serving, Announced, ShuttingDown
      <4> QED
        BY <1>1, <4>1, <4>2, <4>3, <4>4
    <3> QED
      BY <1>2, <3>1, <3>2, <2>2, <1>3 DEF Stages, Serving, ShuttingDown
  <2> QED
    BY <2>3, <2>4 DEF LadderSound
<1> QED
  BY <1>7, <1>8, <1>9 DEF after

(* restored: only a ladder at Announced moves, and it forgets what it       *)
(* handed back.                                                             *)
LEMMA ShedRestoredFacts ==
    ASSUME NEW s \in Sheds
    PROVE  /\ ShedRestored(s) \in Sheds
           /\ ShedRestored(s).stage < s.stage =>
                 s.stage = Announced /\ ShedRestored(s).stage = Serving
           /\ ShedRestored(s).stage <= s.stage
           /\ LadderSound(s) => LadderSound(ShedRestored(s))
<1>1. CASE s.stage = Announced
  <2> DEFINE after == ShedRestored(s)
  <2>1. /\ after.stage = Serving /\ after.history = << >> /\ after.hasCell = s.hasCell
        /\ after = [stage |-> Serving, hasCell |-> s.hasCell, history |-> << >>]
    BY <1>1 DEF ShedRestored, Sheds
  <2>2. after \in Sheds
    BY <2>1 DEF Sheds, Stages, Serving, ShuttingDown
  <2>3. LadderSound(after)
    BY <2>1 DEF LadderSound, Serving
  <2> QED
    BY <1>1, <2>1, <2>2, <2>3 DEF Serving, Announced
<1>2. CASE s.stage # Announced
  BY <1>2 DEF ShedRestored, Sheds, Stages, Serving, ShuttingDown
<1> QED
  BY <1>1, <1>2

-----------------------------------------------------------------------------
(* The inductive invariant.  None of the four facts about the governor      *)
(* carries over a tick alone: that at most one reading goes unweighed rests *)
(* on the unweighed one having left Normal behind.                          *)

UnweighedDerates == seen.unweighed > 0 => gov.level >= Derated

GovernorInv ==
    /\ BlindCounterExact
    /\ BlindnessDerates
    /\ AtMostOneReadingUnweighed
    /\ UnweighedDerates
    /\ EscalationEarned

SupervisorInv ==
    /\ TypeOK
    /\ GovernorInv
    /\ LadderSound(shed)

(* A supervisor that has seen nothing is sound. *)
LEMMA InitInv == Init => SupervisorInv
<1> SUFFICES ASSUME Init PROVE SupervisorInv
  OBVIOUS
<1>1. gov \in Governors /\ gov.level = Normal /\ gov.failures = 0
  BY FailureMaxAssumption
     DEF Init, NewGovernor, Governors, Levels, Normal, Halt
<1>2. seen \in SeenType /\ seen = NothingSeen
  BY FailureMaxAssumption DEF Init, NothingSeen, SeenType, Levels, Normal, Halt
<1>3. shed \in Sheds /\ LadderSound(shed)
  BY DEF Init, NewShed, Sheds, LadderSound, Stages, Serving, ShuttingDown
<1>4. TypeOK
  BY <1>1, <1>2, <1>3 DEF Init, TypeOK, Sheds, OnMains, Steady, Alert
<1>5. GovernorInv
  BY <1>1, <1>2
     DEF GovernorInv, BlindCounterExact, BlindnessDerates, AtMostOneReadingUnweighed,
         UnweighedDerates, EscalationEarned, NothingSeen, Normal, Derated
<1> QED
  BY <1>3, <1>4, <1>5 DEF SupervisorInv

(* Whatever the tick read, the ladder stays sound. *)
LEMMA AdvanceShedFacts ==
    ASSUME SupervisorInv, NEW charge, shed' = AdvanceShed(charge)
    PROVE  /\ shed' \in Sheds
           /\ LadderSound(shed')
           /\ shed'.stage > shed.stage => outage # OnMains
           /\ shed'.stage < shed.stage =>
                 shed.stage = Announced /\ shed'.stage = Serving /\ outage = OnMains
<1>1. shed \in Sheds /\ LadderSound(shed)
  BY DEF SupervisorInv, TypeOK, Sheds
<1>2. CASE outage = OnMains
  <2>1. shed' = ShedRestored(shed)
    BY <1>2 DEF AdvanceShed
  <2>2. shed'.stage <= shed.stage /\ shed' \in Sheds
    BY <1>1, <2>1, ShedRestoredFacts
  <2>3. ~(shed'.stage > shed.stage)
    BY <1>1, <2>2 DEF Sheds, Stages, Serving, ShuttingDown
  <2> QED
    BY <1>1, <1>2, <2>1, <2>3, ShedRestoredFacts
<1>3. CASE outage # OnMains
  <2>1. shed' = ShedOnTick(shed, outage, charge)
    BY <1>3 DEF AdvanceShed
  <2>2. shed'.stage >= shed.stage /\ shed' \in Sheds /\ LadderSound(shed')
    BY <1>1, <2>1, ShedOnTickFacts
  <2>3. ~(shed'.stage < shed.stage)
    BY <1>1, <2>2 DEF Sheds, Stages, Serving, ShuttingDown
  <2> QED
    BY <1>3, <2>2, <2>3
<1> QED
  BY <1>2, <1>3

(* A tick that could read the cell keeps the invariant and lowers no        *)
(* level.                                                                   *)
LEMMA ReadableTickInv ==
    ASSUME SupervisorInv, NEW applied \in BOOLEAN, NEW got \in Readbacks,
           TickReadable(applied, got)
    PROVE  SupervisorInv' /\ gov'.level >= gov.level
<1> USE DEF SupervisorInv
<1>1. gov \in Governors /\ hasCeiling \in BOOLEAN /\ seen \in SeenType
  BY DEF TypeOK
<1>2. /\ gov' \in Governors
      /\ \/ /\ Enforced(applied, got).level # gov.level
            /\ gov.level = Normal
            /\ hasCeiling /\ ~CeilingHeld(applied, got)
            /\ gov'.level = Derated
         \/ /\ Enforced(applied, got).level = gov.level
            /\ gov'.level = MaxLevel(gov.level, LevelFor(cell))
            /\ gov'.failures = 0
  BY <1>1, GovernedFacts DEF TickReadable
<1>3. LevelFor(cell) \in Levels
  BY LevelForType
<1> DEFINE fault == hasCeiling /\ ~CeilingHeld(applied, got)
<1>4. /\ seen'.worst = MaxLevel(seen.worst, LevelFor(cell))
      /\ seen'.blindRun = 0
      /\ seen'.unweighed = IF Enforced(applied, got).level # gov.level
                             THEN seen.unweighed + 1 ELSE seen.unweighed
      /\ seen'.ceilingFault = (seen.ceilingFault \/ fault)
      /\ seen'.blinded = seen.blinded
      /\ seen' = [worst |-> seen'.worst, blindRun |-> seen'.blindRun,
                  unweighed |-> seen'.unweighed, ceilingFault |-> seen'.ceilingFault,
                  blinded |-> seen'.blinded]
  BY <1>1 DEF TickReadable, SeenType
<1>5. seen' \in SeenType
  <2>1. seen'.worst \in Levels
    BY <1>1, <1>3, <1>4 DEF MaxLevel, SeenType
  <2>2. seen'.ceilingFault \in BOOLEAN /\ seen'.blinded \in BOOLEAN
    BY <1>1, <1>4 DEF SeenType
  <2>3. seen'.blindRun \in 0..FailureMax /\ seen'.unweighed \in Nat
    BY <1>1, <1>4, FailureMaxAssumption DEF SeenType
  <2> QED
    BY <1>4, <2>1, <2>2, <2>3 DEF SeenType
<1>6. shed' \in Sheds /\ LadderSound(shed')
  BY AdvanceShedFacts DEF TickReadable
<1>7. TypeOK'
  BY <1>2, <1>5, <1>6
     DEF TypeOK, TickReadable, device, Sheds, CadenceFor
<1> USE <1>1, <1>2, <1>3, <1>4
<1>8. gov'.level >= gov.level
  BY DEF MaxLevel, Governors, Levels, Normal, Derated, Halt
<1>9. GovernorInv'
  <2> USE DEF GovernorInv, MaxLevel, Governors, SeenType, Levels, Normal, Derated, Halt
  <2>1. BlindCounterExact'
    BY DEF BlindCounterExact
  <2>2. BlindnessDerates'
    BY <1>8 DEF BlindnessDerates
  <2>3. AtMostOneReadingUnweighed' /\ UnweighedDerates'
    BY <1>8 DEF AtMostOneReadingUnweighed, UnweighedDerates
  <2>4. EscalationEarned'
    BY DEF EscalationEarned
  <2> QED
    BY <2>1, <2>2, <2>3, <2>4
<1> QED
  BY <1>6, <1>7, <1>8, <1>9

(* So does a tick that could not. *)
LEMMA UnreadableTickInv ==
    ASSUME SupervisorInv, TickUnreadable
    PROVE  SupervisorInv' /\ gov'.level >= gov.level
<1> USE DEF SupervisorInv
<1> DEFINE n == IF gov.failures < FailureMax THEN gov.failures + 1 ELSE FailureMax
           run == IF seen.blindRun < FailureMax THEN seen.blindRun + 1 ELSE FailureMax
<1>1. gov \in Governors /\ seen \in SeenType
  BY DEF TypeOK
<1>2. /\ gov' \in Governors
      /\ gov'.failures = n
      /\ gov'.level = IF n < BlindTolerance THEN gov.level ELSE MaxLevel(gov.level, Derated)
  BY <1>1, ObserveUnreadableFacts DEF TickUnreadable
<1>3. /\ seen'.worst = seen.worst
      /\ seen'.blindRun = run
      /\ seen'.unweighed = seen.unweighed
      /\ seen'.ceilingFault = seen.ceilingFault
      /\ seen'.blinded = (seen.blinded \/ run >= BlindTolerance)
      /\ seen' = [worst |-> seen'.worst, blindRun |-> seen'.blindRun,
                  unweighed |-> seen'.unweighed, ceilingFault |-> seen'.ceilingFault,
                  blinded |-> seen'.blinded]
  BY <1>1 DEF TickUnreadable, SeenType
<1>4. seen' \in SeenType
  <2>1. run \in 0..FailureMax
    BY <1>1, FailureMaxAssumption DEF SeenType
  <2> HIDE DEF run
  <2>2. seen'.ceilingFault \in BOOLEAN /\ seen'.blinded \in BOOLEAN
    BY <1>1, <1>3 DEF SeenType
  <2> QED
    BY <1>1, <1>3, <2>1, <2>2 DEF SeenType
<1>5. shed' \in Sheds /\ LadderSound(shed')
  BY AdvanceShedFacts DEF TickUnreadable
<1>6. TypeOK'
  BY <1>2, <1>4, <1>5
     DEF TypeOK, TickUnreadable, device, Sheds, CadenceWhenUnreadable
<1> USE <1>1, <1>2, <1>3
<1>7. gov'.level >= gov.level
  BY DEF MaxLevel, Governors, Levels, Normal, Derated, Halt
<1>8. GovernorInv'
  <2> USE DEF GovernorInv, MaxLevel, Governors, SeenType, Levels, Normal, Derated, Halt
  <2>1. gov.level = Normal => run = n
    BY DEF BlindCounterExact
  <2>2. gov'.level = Normal => gov.level = Normal
    OBVIOUS
  <2>3. gov.level = Normal /\ run >= BlindTolerance => gov'.level = Derated
    BY <2>1 DEF BlindTolerance
  <2> HIDE DEF n, run
  <2>4. BlindCounterExact'
    BY <2>1, <2>2 DEF BlindCounterExact
  <2>5. BlindnessDerates'
    BY <1>7, <2>3 DEF BlindnessDerates
  <2>6. AtMostOneReadingUnweighed' /\ UnweighedDerates'
    BY <1>7 DEF AtMostOneReadingUnweighed, UnweighedDerates
  <2>7. EscalationEarned'
    <3>1. CASE gov.level = Normal /\ n >= BlindTolerance
      <4>1. run >= BlindTolerance /\ gov'.level = Derated
        BY <2>1, <3>1 DEF BlindTolerance
      <4>2. seen'.blinded
        BY <1>3, <4>1
      <4> QED
        BY <4>1, <4>2 DEF EscalationEarned
    <3>2. CASE gov'.level = gov.level
      BY <3>2 DEF EscalationEarned
    <3> QED
      BY <3>1, <3>2 DEF BlindTolerance
  <2> QED
    BY <2>4, <2>5, <2>6, <2>7
<1> QED
  BY <1>5, <1>6, <1>7, <1>8

(* What the device does on its own touches nothing the invariant is about. *)
LEMMA NextInv == SupervisorInv /\ [Next]_vars => SupervisorInv'
<1> SUFFICES ASSUME SupervisorInv, [Next]_vars PROVE SupervisorInv'
  OBVIOUS
<1> USE DEF SupervisorInv
<1>1. ASSUME NEW applied \in BOOLEAN, NEW got \in Readbacks, TickReadable(applied, got)
      PROVE  SupervisorInv'
  BY <1>1, ReadableTickInv
<1>2. CASE TickUnreadable
  BY <1>2, UnreadableTickInv
<1>3. CASE CellChanges \/ MainsLost \/ MainsReturns \/ TimePasses
  <2>1. UNCHANGED <<gov, shed, seen, hasCeiling, cadence>>
    BY <1>3 DEF CellChanges, MainsLost, MainsReturns, TimePasses, supervisor
  <2>2. cell' \in Readings \cup {NoReading} /\ outage' \in 0..MaxElapsed \cup {OnMains}
    BY <1>3, MaxElapsedAssumption
       DEF CellChanges, MainsLost, MainsReturns, TimePasses, TypeOK, OnMains
  <2>3. TypeOK'
    BY <2>1, <2>2 DEF TypeOK
  <2> QED
    BY <2>1, <2>3
       DEF GovernorInv, BlindCounterExact, BlindnessDerates, AtMostOneReadingUnweighed,
           UnweighedDerates, EscalationEarned, LadderSound
<1>4. CASE UNCHANGED vars
  BY <1>4
     DEF vars, TypeOK, GovernorInv, BlindCounterExact, BlindnessDerates,
         AtMostOneReadingUnweighed, UnweighedDerates, EscalationEarned, LadderSound
<1> QED
  BY <1>1, <1>2, <1>3, <1>4 DEF Next, Tick

(* The invariant holds in every state of every behaviour. *)
LEMMA SpecInv == Spec => []SupervisorInv
<1> QED
  BY InitInv, NextInv, PTL DEF Spec

-----------------------------------------------------------------------------
(* The theorems. *)

(* Every variable keeps its type.  (Supervisor::tick) *)
THEOREM TypeCorrect == Spec => []TypeOK
<1>1. SupervisorInv => TypeOK
  BY DEF SupervisorInv
<1> QED
  BY <1>1, SpecInv, PTL

(* The blind counter counts exactly the ticks that could not read the cell, *)
(* while nothing has gone wrong, and losing the cell for the whole          *)
(* tolerance always leaves its mark.  (observe, observe_unreadable)         *)
THEOREM BlindnessCounted == Spec => [](BlindCounterExact /\ BlindnessDerates)
<1>1. SupervisorInv => BlindCounterExact /\ BlindnessDerates
  BY DEF SupervisorInv, GovernorInv
<1> QED
  BY <1>1, SpecInv, PTL

(* However the mechanism behaves, at most one reading of the supervisor's   *)
(* life is not weighed against the thresholds.  (tick, enforce)             *)
THEOREM ReadingsWeighed == Spec => []AtMostOneReadingUnweighed
<1>1. SupervisorInv => AtMostOneReadingUnweighed
  BY DEF SupervisorInv, GovernorInv
<1> QED
  BY <1>1, SpecInv, PTL

(* No level is reached without what it stands for having been seen.         *)
(* (observe, enforce, observe_unreadable)                                   *)
THEOREM LevelsEarned == Spec => []EscalationEarned
<1>1. SupervisorInv => EscalationEarned
  BY DEF SupervisorInv, GovernorInv
<1> QED
  BY <1>1, SpecInv, PTL

(* No outage, however late its ticks, hands back a rung twice, out of order *)
(* or not at all.  (Shed::on_tick, walk_to, restored)                       *)
THEOREM LadderDischarged == Spec => []LadderInOrder
<1>1. SupervisorInv => LadderInOrder
  BY DEF SupervisorInv, LadderSound, LadderInOrder
<1> QED
  BY <1>1, SpecInv, PTL

(* Only the cell's charge shuts the node down.  (Shed::on_tick)             *)
THEOREM ChargeAloneShutsDown == Spec => []ShutdownIsAboutCharge
<1>1. SupervisorInv => ShutdownIsAboutCharge
  BY DEF SupervisorInv, LadderSound, ShutdownIsAboutCharge
<1> QED
  BY <1>1, SpecInv, PTL

(* No step lowers the level: there is no way down but a new process after a *)
(* person has looked.  (escalate)                                           *)
THEOREM LevelOnlyRises == Spec => LevelNeverFalls
<1>1. SupervisorInv /\ [Next]_vars => [gov'.level >= gov.level]_vars
  <2> SUFFICES ASSUME SupervisorInv, Next PROVE gov'.level >= gov.level
    BY DEF vars
  <2>1. ASSUME NEW applied \in BOOLEAN, NEW got \in Readbacks, TickReadable(applied, got)
        PROVE  gov'.level >= gov.level
    BY <2>1, ReadableTickInv
  <2>2. CASE TickUnreadable
    BY <2>2, UnreadableTickInv
  <2>3. CASE CellChanges \/ MainsLost \/ MainsReturns \/ TimePasses
    BY <2>3
       DEF CellChanges, MainsLost, MainsReturns, TimePasses, supervisor,
           SupervisorInv, TypeOK, Governors, Levels, Normal, Halt
  <2> QED
    BY <2>1, <2>2, <2>3 DEF Next, Tick
<1> QED
  BY <1>1, SpecInv, PTL DEF Spec, LevelNeverFalls

(* The ladder goes down only in an outage, and up only from Announced when  *)
(* mains is back.  (on_tick, restored)                                      *)
THEOREM LadderOnlyResumesFromAnnounced == Spec => LadderMoves
<1> DEFINE A ==
      /\ shed'.stage > shed.stage => outage # OnMains
      /\ shed'.stage < shed.stage =>
            shed.stage = Announced /\ shed'.stage = Serving /\ outage = OnMains
<1>1. SupervisorInv /\ [Next]_vars => [A]_vars
  <2> SUFFICES ASSUME SupervisorInv, Next PROVE A
    BY DEF vars
  <2>1. ASSUME NEW applied \in BOOLEAN, NEW got \in Readbacks, TickReadable(applied, got)
        PROVE  A
    BY <2>1, AdvanceShedFacts DEF TickReadable
  <2>2. CASE TickUnreadable
    BY <2>2, AdvanceShedFacts DEF TickUnreadable
  <2>3. CASE CellChanges \/ MainsLost \/ MainsReturns \/ TimePasses
    <3>1. shed.stage \in Stages
      BY DEF SupervisorInv, TypeOK
    <3>2. shed' = shed
      BY <2>3 DEF CellChanges, MainsLost, MainsReturns, TimePasses, supervisor
    <3> QED
      BY <3>1, <3>2 DEF Stages, Serving, ShuttingDown
  <2> QED
    BY <2>1, <2>2, <2>3 DEF Next, Tick
<1> QED
  BY <1>1, SpecInv, PTL DEF Spec, LadderMoves

(* Truncation toward zero never hides as much as the margin.  (to_celsius)  *)
LEMMA TruncationLeavesMargin ==
    ASSUME NEW t \in Int, NEW w \in Int, NEW rise \in 0..50,
           ToCelsius(t) < w - 5
    PROVE  ToCelsius(t + rise) < w
BY DEF ToCelsius

(* For every temperature and every threshold set, not only the ones a       *)
(* device reports: a steady cadence leaves the whole margin.  (cadence_for) *)
THEOREM SteadyMargin == SteadyLeavesMargin
<1> SUFFICES ASSUME NEW r \in Readings, NEW rise \in 0..(AlertMargin * 10),
                    CadenceFor(r) = Steady
             PROVE  ToCelsius(r.temp + rise) < WarnTemp
  BY DEF SteadyLeavesMargin
<1>1. r.temp \in Int /\ WarnTemp \in Int /\ rise \in 0..50
  <2>1. r \in Reading
    BY ReadingsAssumption
  <2>2. WarnTemp \in Int
    BY ThresholdsAssumption
  <2> QED
    BY <2>1, <2>2 DEF Reading, AlertMargin
<1>2. ~(ToCelsius(r.temp) >= WarnTemp - 5)
  BY DEF CadenceFor, Steady, Alert, AlertFrom, AlertMargin
<1>3. ToCelsius(r.temp) \in Int
  BY <1>1 DEF ToCelsius
<1>4. ToCelsius(r.temp) < WarnTemp - 5
  BY <1>1, <1>2, <1>3
<1> DEFINE t == r.temp
<1>5. t \in Int /\ WarnTemp \in Int /\ rise \in 0..50 /\ ToCelsius(t) < WarnTemp - 5
  BY <1>1, <1>4
<1> HIDE DEF t
<1>6. ToCelsius(t + rise) < WarnTemp
  BY <1>5, TruncationLeavesMargin
<1> QED
  BY <1>6 DEF t
=============================================================================
