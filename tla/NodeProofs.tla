----------------------------- MODULE NodeProofs -----------------------------
(***************************************************************************)
(* What a phone running `vayucell all` guarantees, for every number of      *)
(* workers, power cuts and disk errors: its supervisor keeps everything     *)
(* SupervisorProofs shows across restarts, and the halt record implements   *)
(* the latch.                                                               *)
(***************************************************************************)
EXTENDS Node, SupervisorProofs

(* The record is written out before it is named, and what record() has      *)
(* acknowledged is on the medium.                                           *)
RecordInv ==
    /\ {record, medium} \subseteq {Absent, Whole}
    /\ step = "rename" => partial = Whole
    /\ past.recorded => Recorded

(* A request remembers a level the governor has not fallen below since.     *)
RequestSound(r) ==
    /\ r.at # "idle" => r.begun <= gov.level
    /\ r.served => r.at = "answered" /\ MayServe(r.begun)

RequestType ==
    [at : {"idle", "observed", "answered"}, fresh : Levels, begun : Levels, served : BOOLEAN]

RequestInv ==
    /\ request \in [Workers -> RequestType]
    /\ \A w \in Workers : RequestSound(request[w])

PastType ==
    [recorded : BOOLEAN, halted : BOOLEAN]

ProcessInv ==
    /\ up \in BOOLEAN
    /\ step \in Steps
    /\ partial \in {Absent, Unflushed, Whole}
    /\ powerCuts \in 0..MaxPowerCuts
    /\ diskErrors \in 0..MaxDiskErrors
    /\ past \in PastType

NodeInv ==
    /\ SupervisorInv
    /\ RequestInv
    /\ ProcessInv
    /\ RecordInv

-----------------------------------------------------------------------------
(* The supervisor's part. *)

(* A process that starts is a supervisor that has seen nothing, whatever    *)
(* the one before it had come to.                                           *)
LEMMA StartInv == SupervisorInv /\ Start => SupervisorInv'
<1> SUFFICES ASSUME SupervisorInv, Start PROVE SupervisorInv'
  OBVIOUS
<1>1. gov' \in Governors /\ gov'.level = Normal /\ gov'.failures = 0
  BY FailureMaxAssumption DEF Start, NewGovernor, Governors, Levels, Normal, Halt
<1>2. seen' \in SeenType /\ seen' = NothingSeen
  BY FailureMaxAssumption DEF Start, NothingSeen, SeenType, Levels, Normal, Halt
<1>3. shed' \in Sheds /\ LadderSound(shed')
  BY DEF Start, NewShed, Sheds, LadderSound, Stages, Serving, ShuttingDown
<1>4. TypeOK'
  BY <1>1, <1>2, <1>3, NodeAssumption
     DEF Start, SupervisorInv, TypeOK, Sheds, OnMains, Steady, Alert
<1>5. GovernorInv'
  BY <1>1, <1>2
     DEF GovernorInv, BlindCounterExact, BlindnessDerates, AtMostOneReadingUnweighed,
         UnweighedDerates, EscalationEarned, NothingSeen, Normal, Derated
<1>6. LadderSound(shed)'
  BY <1>3 DEF LadderSound
<1> QED
  BY <1>4, <1>5, <1>6 DEF SupervisorInv

(* Every other step of the phone is one of the supervisor's, or none. *)
LEMMA NodeStepsSupervise == NodeNext => Start \/ [Next]_vars
<1> SUFFICES ASSUME NodeNext PROVE Start \/ [Next]_vars
  OBVIOUS
<1>1. CASE SuperviseTick
  BY <1>1 DEF SuperviseTick, Next
<1>2. CASE NodeCellChanges \/ NodeTimePasses
  BY <1>2 DEF NodeCellChanges, NodeTimePasses, Next
<1>3. CASE RecordFails \/ RecordWrite \/ RecordFlush \/ RecordRename \/ RecordFlushDir \/ Exit
  BY <1>3 DEF RecordFails, RecordWrite, RecordFlush, RecordRename, RecordFlushDir,
              RecordStep, Exit
<1>4. CASE \E w \in Workers : RequestObserves(w) \/ RequestAnswers(w) \/ RequestEnds(w)
  BY <1>4 DEF RequestObserves, RequestAnswers, RequestEnds
<1>5. CASE (\E liesFlat \in BOOLEAN : Inspect(liesFlat)) \/ PowerCut
  BY <1>5 DEF Inspect, PowerCut
<1> QED
  BY <1>1, <1>2, <1>3, <1>4, <1>5 DEF NodeNext, Supervise

(* The supervisor stays sound whatever the phone around it does. *)
LEMMA NodeSupervisorInv == SupervisorInv /\ [NodeNext]_nodeVars => SupervisorInv'
<1> SUFFICES ASSUME SupervisorInv, [NodeNext]_nodeVars PROVE SupervisorInv'
  OBVIOUS
<1>1. Start \/ [Next]_vars
  BY NodeStepsSupervise DEF nodeVars
<1> QED
  BY <1>1, StartInv, NextInv

(* The level falls only when a new process starts. *)
LEMMA NodeLevelRises ==
    ASSUME SupervisorInv, [NodeNext]_nodeVars, ~Start
    PROVE  gov'.level >= gov.level /\ gov.level \in Levels /\ gov'.level \in Levels
<1>1. [Next]_vars
  BY NodeStepsSupervise DEF nodeVars
<1>2. gov.level \in Levels /\ gov'.level \in Levels
  BY <1>1, NextInv DEF SupervisorInv, TypeOK, Governors
<1>3. CASE Next
  <2>1. ASSUME NEW applied \in BOOLEAN, NEW got \in Readbacks, TickReadable(applied, got)
        PROVE  gov'.level >= gov.level
    BY <2>1, ReadableTickInv
  <2>2. CASE TickUnreadable
    BY <1>2, <2>2, UnreadableTickInv
  <2>3. CASE CellChanges \/ MainsLost \/ MainsReturns \/ TimePasses
    BY <1>2, <2>3
       DEF CellChanges, MainsLost, MainsReturns, TimePasses, supervisor,
           Levels, Normal, Halt
  <2> QED
    BY <1>2, <1>3, <2>1, <2>2, <2>3 DEF Next, Tick
<1>4. CASE UNCHANGED vars
  BY <1>2, <1>4 DEF vars, Levels, Normal, Halt
<1> QED
  BY <1>1, <1>2, <1>3, <1>4

-----------------------------------------------------------------------------
(* The requests. *)

(* A worker that waits for a request remembers none. *)
LEMMA IdleSound == Idle \in RequestType /\ Idle.at = "idle" /\ Idle.served = FALSE
BY DEF Idle, RequestType, Levels, Normal, Halt

(* A request's own reading is one of the four levels.  (observe) *)
LEMMA ObservedLevelType == ASSUME NEW c PROVE ObservedLevel(c) \in Levels
<1>1. NewGovernor \in Governors
  BY FailureMaxAssumption DEF NewGovernor, Governors, Levels, Normal, Halt
<1>2. Observe(NewGovernor, c).level \in Levels
  BY <1>1, ObserveFacts DEF Governors
<1> QED
  BY <1>2 DEF ObservedLevel, Levels, Normal, Protect, Halt

(* A step that changes no request and starts no process keeps them sound. *)
LEMMA RequestsKept ==
    ASSUME SupervisorInv, RequestInv, [NodeNext]_nodeVars, ~Start, request' = request
    PROVE  RequestInv'
<1>1. gov'.level >= gov.level /\ gov.level \in Levels /\ gov'.level \in Levels
  BY NodeLevelRises
<1>2. ASSUME NEW w \in Workers PROVE RequestSound(request[w])'
  <2>1. RequestSound(request[w]) /\ request[w] \in RequestType
    BY DEF RequestInv
  <2>2. request[w].begun \in Levels
    BY <2>1 DEF RequestType
  <2> QED
    BY <1>1, <2>1, <2>2 DEF RequestSound, Levels, Normal, Halt
<1> QED
  BY <1>2 DEF RequestInv

(* Nor does a step of one worker that leaves its own request sound. *)
LEMMA OneRequestMoves ==
    ASSUME RequestInv, NEW w \in Workers, NEW r \in RequestType,
           request' = [request EXCEPT ![w] = r], gov' = gov,
           RequestSound(r)
    PROVE  RequestInv'
<1>1. request' \in [Workers -> RequestType]
  BY DEF RequestInv
<1>2. ASSUME NEW v \in Workers PROVE RequestSound(request[v])'
  <2>1. request'[v] = IF v = w THEN r ELSE request[v]
    BY DEF RequestInv
  <2>2. RequestSound(request[v])
    BY DEF RequestInv
  <2> QED
    BY <2>1, <2>2 DEF RequestSound
<1> QED
  BY <1>1, <1>2 DEF RequestInv

(* A process that starts or ends leaves no request behind. *)
LEMMA AllIdleSound ==
    ASSUME request' = [w \in Workers |-> Idle] PROVE RequestInv'
BY IdleSound DEF RequestInv, RequestSound

(* A worker takes its reading, answers with the worse of the two levels,    *)
(* and is done.                                                             *)
LEMMA RequestStepInv ==
    ASSUME SupervisorInv, RequestInv, NEW w \in Workers,
           RequestObserves(w) \/ RequestAnswers(w) \/ RequestEnds(w)
    PROVE  RequestInv'
<1>1. request[w] \in RequestType /\ RequestSound(request[w])
  BY DEF RequestInv
<1>2. gov.level \in Levels
  BY DEF SupervisorInv, TypeOK, Governors
<1>3. CASE RequestObserves(w)
  <2> DEFINE r == [at |-> "observed", fresh |-> ObservedLevel(cell),
                   begun |-> gov.level, served |-> FALSE]
  <2>1. r \in RequestType
    BY <1>2, ObservedLevelType DEF RequestType
  <2>2. request' = [request EXCEPT ![w] = r] /\ gov' = gov
    BY <1>3 DEF RequestObserves, vars
  <2>3. RequestSound(r)
    BY <1>2 DEF RequestSound, Levels, Normal, Halt
  <2> QED
    BY <2>1, <2>2, <2>3, OneRequestMoves
<1>4. CASE RequestAnswers(w)
  <2> DEFINE serves == ServesReaders(MaxLevel(request[w].fresh, gov.level), shed.stage)
             r == [request[w] EXCEPT !.at = "answered", !.served = serves]
  <2>1. serves \in BOOLEAN
    BY DEF ServesReaders, MayServe
  <2>2. request[w].at = "observed" /\ request[w].begun <= gov.level
    BY <1>1, <1>4 DEF RequestAnswers, RequestSound
  <2>3. serves => MayServe(request[w].begun)
    BY <1>1, <1>2, <2>2
       DEF ServesReaders, MayServe, MaxLevel, RequestType, Levels, Normal, Derated, Halt
  <2>4. request' = [request EXCEPT ![w] = r] /\ gov' = gov
    BY <1>4 DEF RequestAnswers, vars
  <2> HIDE DEF serves
  <2>5. /\ r \in RequestType
        /\ r.at = "answered" /\ r.begun = request[w].begun /\ r.served = serves
    BY <1>1, <2>1 DEF RequestType
  <2> HIDE DEF r
  <2>6. RequestSound(r)
    BY <2>2, <2>3, <2>5 DEF RequestSound
  <2> QED
    BY <2>4, <2>5, <2>6, OneRequestMoves
<1>5. CASE RequestEnds(w)
  <2>1. request' = [request EXCEPT ![w] = Idle] /\ gov' = gov
    BY <1>5 DEF RequestEnds, vars
  <2> QED
    BY <2>1, IdleSound, OneRequestMoves DEF RequestSound
<1> QED
  BY <1>3, <1>4, <1>5

(* Every step keeps every request sound: the level falls only where a new   *)
(* process starts, and no request of the old one is left.                   *)
LEMMA NodeRequestInv ==
    SupervisorInv /\ RequestInv /\ [NodeNext]_nodeVars => RequestInv'
<1> SUFFICES ASSUME SupervisorInv, RequestInv, [NodeNext]_nodeVars PROVE RequestInv'
  OBVIOUS
<1>1. CASE Start \/ Exit \/ PowerCut
  BY <1>1, AllIdleSound DEF Start, Exit, PowerCut
<1>2. ASSUME NEW w \in Workers, RequestObserves(w) \/ RequestAnswers(w) \/ RequestEnds(w)
      PROVE  RequestInv'
  BY <1>2, RequestStepInv
<1>3. CASE ~Start /\ request' = request
  BY <1>3, RequestsKept
<1>4. \/ Start \/ Exit \/ PowerCut
      \/ \E w \in Workers : RequestObserves(w) \/ RequestAnswers(w) \/ RequestEnds(w)
      \/ request' = request
  BY DEF NodeNext, Supervise, SuperviseTick, RecordFails, RecordWrite, RecordFlush,
         RecordRename, RecordFlushDir, RecordStep, Inspect, NodeCellChanges,
         NodeTimePasses, nodeVars
<1> QED
  BY <1>1, <1>2, <1>3, <1>4

-----------------------------------------------------------------------------
(* The process and its record. *)

(* An inspection either forgets that a halt was recorded, together with the *)
(* record, or leaves both alone.                                            *)
LEMMA InspectPast ==
    ASSUME past \in PastType, \E liesFlat \in BOOLEAN : Inspect(liesFlat)
    PROVE  /\ past' \in PastType
           /\ past'.recorded => past.recorded /\ record' = record
<1>1. PICK liesFlat \in BOOLEAN : Inspect(liesFlat)
  OBVIOUS
<1>2. CASE past' = NothingHappened
  BY <1>2 DEF PastType, NothingHappened
<1>3. CASE UNCHANGED <<record, past>>
  BY <1>3
<1> QED
  BY <1>1, <1>2, <1>3 DEF Inspect

(* The process, its file and the bounds keep their types. *)
LEMMA NodeProcessInv ==
    ProcessInv /\ [NodeNext]_nodeVars => ProcessInv'
<1> SUFFICES ASSUME ProcessInv, [NodeNext]_nodeVars PROVE ProcessInv'
  OBVIOUS
<1> USE DEF ProcessInv, Steps, PastType, process, disk, faults
<1>1. CASE Start
  BY <1>1 DEF Start
<1>2. CASE SuperviseTick
  BY <1>2 DEF SuperviseTick
<1>3. CASE RecordFails
  BY <1>3, NodeAssumption DEF RecordFails
<1>4. CASE RecordWrite \/ RecordFlush \/ RecordRename
  BY <1>4 DEF RecordWrite, RecordFlush, RecordRename, RecordStep, Absent, Unflushed, Whole
<1>5. CASE RecordFlushDir
  BY <1>5 DEF RecordFlushDir, RecordStep
<1>6. CASE Exit
  BY <1>6 DEF Exit
<1>7. CASE \E w \in Workers : RequestObserves(w) \/ RequestAnswers(w) \/ RequestEnds(w)
  BY <1>7 DEF RequestObserves, RequestAnswers, RequestEnds
<1>8. CASE \E liesFlat \in BOOLEAN : Inspect(liesFlat)
  <2>1. past' \in PastType
    BY <1>8, InspectPast
  <2>2. UNCHANGED <<up, step, partial, powerCuts, diskErrors>>
    BY <1>8 DEF Inspect
  <2> QED
    BY <2>1, <2>2
<1>9. CASE NodeCellChanges \/ NodeTimePasses
  BY <1>9 DEF NodeCellChanges, NodeTimePasses
<1>10. CASE PowerCut
  <2>1. powerCuts' \in 0..MaxPowerCuts
    BY <1>10, NodeAssumption DEF PowerCut
  <2>2. up' = FALSE /\ step' = "tick" /\ partial' = Absent
    BY <1>10 DEF PowerCut
  <2>3. UNCHANGED <<diskErrors, past>>
    BY <1>10 DEF PowerCut
  <2> QED
    BY <2>1, <2>2, <2>3
<1>11. CASE UNCHANGED nodeVars
  BY <1>11 DEF nodeVars
<1> QED
  BY <1>1, <1>2, <1>3, <1>4, <1>5, <1>6, <1>7, <1>8, <1>9, <1>10, <1>11
     DEF NodeNext, Supervise

(* Only a flushed file is renamed, and only an inspection takes the record  *)
(* away once record() has acknowledged it.                                  *)
LEMMA NodeRecordInv ==
    ProcessInv /\ RecordInv /\ [NodeNext]_nodeVars => RecordInv'
<1> SUFFICES ASSUME ProcessInv, RecordInv, [NodeNext]_nodeVars PROVE RecordInv'
  OBVIOUS
<1> USE DEF RecordInv, Recorded, process, disk, Absent, Whole, Unflushed
<1>1. CASE Start \/ RecordFails \/ Exit
  BY <1>1 DEF Start, RecordFails, Exit, process
<1>2. CASE SuperviseTick
  <2>1. past'.recorded = past.recorded
    BY <1>2 DEF SuperviseTick, ProcessInv, PastType
  <2>2. step' # "rename"
    BY <1>2 DEF SuperviseTick
  <2> QED
    BY <1>2, <2>1, <2>2 DEF SuperviseTick
<1>3. CASE RecordWrite \/ RecordFlush
  BY <1>3 DEF RecordWrite, RecordFlush, RecordStep
<1>4. CASE RecordRename
  BY <1>4 DEF RecordRename, RecordStep
<1>5. CASE RecordFlushDir
  <2>1. past'.recorded = (record # Absent)
    BY <1>5 DEF RecordFlushDir, ProcessInv, PastType
  <2> QED
    BY <1>5, <2>1 DEF RecordFlushDir, RecordStep
<1>6. CASE \E w \in Workers : RequestObserves(w) \/ RequestAnswers(w) \/ RequestEnds(w)
  BY <1>6 DEF RequestObserves, RequestAnswers, RequestEnds
<1>7. CASE \E liesFlat \in BOOLEAN : Inspect(liesFlat)
  <2>1. past'.recorded => past.recorded /\ record' = record
    BY <1>7, InspectPast DEF ProcessInv
  <2>2. record' \in {Absent, record}
    BY <1>7 DEF Inspect
  <2> QED
    BY <1>7, <2>1, <2>2 DEF Inspect
<1>8. CASE NodeCellChanges \/ NodeTimePasses
  BY <1>8 DEF NodeCellChanges, NodeTimePasses
<1>9. CASE PowerCut
  BY <1>9 DEF PowerCut, AfterCut
<1>10. CASE UNCHANGED nodeVars
  BY <1>10 DEF nodeVars
<1> QED
  BY <1>1, <1>2, <1>3, <1>4, <1>5, <1>6, <1>7, <1>8, <1>9, <1>10
     DEF NodeNext, Supervise

-----------------------------------------------------------------------------
(* The inductive invariant. *)

(* A phone that never ran has nothing on record. *)
LEMMA NodeInitInv == NodeInit => NodeInv
<1> SUFFICES ASSUME NodeInit PROVE NodeInv
  OBVIOUS
<1>1. SupervisorInv
  <2>1. Init
    BY DEF NodeInit, Init
  <2> QED
    BY <2>1, InitInv
<1>2. RequestInv
  BY IdleSound DEF NodeInit, RequestInv, RequestSound
<1>3. ProcessInv
  <2>1. powerCuts \in 0..MaxPowerCuts /\ diskErrors \in 0..MaxDiskErrors
    BY NodeAssumption DEF NodeInit
  <2>2. past \in PastType
    BY DEF NodeInit, PastType, NothingHappened
  <2> QED
    BY <2>1, <2>2 DEF NodeInit, ProcessInv, Steps
<1>4. RecordInv
  BY DEF NodeInit, RecordInv, NothingHappened
<1> QED
  BY <1>1, <1>2, <1>3, <1>4 DEF NodeInv

(* Each part of the invariant is kept by the lemma of its own. *)
LEMMA NodeNextInv == NodeInv /\ [NodeNext]_nodeVars => NodeInv'
BY NodeSupervisorInv, NodeRequestInv, NodeProcessInv, NodeRecordInv DEF NodeInv

(* The invariant holds in every state of every behaviour. *)
LEMMA NodeSpecInv == NodeSpec => []NodeInv
BY NodeInitInv, NodeNextInv, PTL DEF NodeSpec

-----------------------------------------------------------------------------
(* The theorems. *)

(* Every variable of the phone keeps its type.  (all, supervise) *)
THEOREM NodeTypeCorrect == NodeSpec => []NodeTypeOK
<1>1. NodeInv => NodeTypeOK
  <2> SUFFICES ASSUME NodeInv PROVE NodeTypeOK
    OBVIOUS
  <2>1. TypeOK
    BY DEF NodeInv, SupervisorInv
  <2>2. {record, medium} \subseteq {Absent, Unflushed, Whole, Torn}
    BY DEF NodeInv, RecordInv
  <2>3. request \in [Workers -> [at : {"idle", "observed", "answered"}, fresh : Levels,
                                 begun : Levels, served : BOOLEAN]]
    BY DEF NodeInv, RequestInv, RequestType
  <2> QED
    BY <2>1, <2>2, <2>3 DEF NodeTypeOK, NodeInv, ProcessInv, PastType
<1> QED
  BY <1>1, NodeSpecInv, PTL

(* However the power fails, the halt record never comes back torn.          *)
(* (record: the bytes are flushed before they get their name)               *)
THEOREM RecordIsWhole == NodeSpec => []RecordNeverTorn
<1>1. NodeInv => RecordNeverTorn
  BY DEF NodeInv, RecordInv, RecordNeverTorn, Absent, Whole, Torn
<1> QED
  BY <1>1, NodeSpecInv, PTL

(* A reading that recovers never undoes what the governor latched, for any  *)
(* number of requests in flight.  (Governed::context, MayServe)             *)
THEOREM LatchedRefusals == NodeSpec => []LatchedGovernorRefuses
<1>1. NodeInv => LatchedGovernorRefuses
  BY DEF NodeInv, RequestInv, RequestSound, LatchedGovernorRefuses
<1> QED
  BY <1>1, NodeSpecInv, PTL

(* What the supervisor guarantees, it guarantees in every process of the    *)
(* phone's life: a restart neither keeps nor loses half of its state.       *)
(* (all: a supervisor of its own for every process)                         *)
THEOREM SupervisorSurvivesRestarts ==
    NodeSpec => [](BlindnessDerates /\ AtMostOneReadingUnweighed /\ EscalationEarned
                   /\ LadderInOrder /\ ShutdownIsAboutCharge)
<1>1. NodeInv => /\ BlindnessDerates /\ AtMostOneReadingUnweighed /\ EscalationEarned
                 /\ LadderInOrder /\ ShutdownIsAboutCharge
  BY DEF NodeInv, SupervisorInv, GovernorInv, LadderSound, LadderInOrder,
         ShutdownIsAboutCharge
<1> QED
  BY <1>1, NodeSpecInv, PTL

(* A halt that record() has acknowledged keeps every process from starting  *)
(* until a person has found the phone flat, whatever the power does.        *)
(* (record, clear, refuse_if_halted)                                        *)
THEOREM RecordedHaltsStand == NodeSpec => RecordedHaltStands
<1>1. NodeInv /\ [NodeNext]_nodeVars => [~up /\ up' => ~past.recorded]_nodeVars
  <2> SUFFICES ASSUME NodeInv, NodeNext, ~up, up' PROVE ~past.recorded
    OBVIOUS
  <2>1. Start
    BY DEF NodeNext, Supervise, SuperviseTick, RecordFails, RecordWrite, RecordFlush,
           RecordRename, RecordFlushDir, RecordStep, Exit, RequestObserves,
           RequestAnswers, RequestEnds, Inspect, NodeCellChanges, NodeTimePasses,
           PowerCut, process
  <2> QED
    BY <2>1 DEF Start, NodeInv, RecordInv, Recorded
<1> QED
  BY <1>1, NodeSpecInv, PTL DEF NodeSpec, RecordedHaltStands

-----------------------------------------------------------------------------
(* The phone implements the latch. *)

(* The latch starts open. *)
LEMMA NodeInitLatches == NodeInit => Latch!Init
BY DEF NodeInit, Latch!Init, Recorded, NothingHappened

(* What the latch sees of a step that touches neither the record nor the    *)
(* memory of it.                                                            *)
LEMMA QuietSteps ==
    ASSUME UNCHANGED <<record, medium>>, past'.recorded = past.recorded,
           up' = up \/ up' = FALSE
    PROVE  [Latch!Next]_(Latch!vars)
BY DEF Latch!Next, Latch!Stop, Latch!vars, Recorded

(* Every step of the phone is a step of the latch, or one it cannot see. *)
LEMMA NodeStepLatches ==
    NodeInv /\ [NodeNext]_nodeVars => [Latch!Next]_(Latch!vars)
<1> SUFFICES ASSUME NodeInv, [NodeNext]_nodeVars PROVE [Latch!Next]_(Latch!vars)
  OBVIOUS
<1>0. /\ RecordInv /\ past \in PastType
  BY DEF NodeInv, ProcessInv
<1> USE DEF process, disk
<1>1. CASE Start
  BY <1>1 DEF Start, Latch!Next, Latch!Start, Latch!vars, Recorded
<1>2. CASE SuperviseTick
  <2>1. past'.recorded = past.recorded
    BY <1>0, <1>2 DEF SuperviseTick, PastType
  <2> QED
    BY <1>2, <2>1, QuietSteps DEF SuperviseTick
<1>3. CASE RecordFails \/ RecordWrite \/ RecordFlush \/ Exit
  BY <1>3, QuietSteps DEF RecordFails, RecordWrite, RecordFlush, RecordStep, Exit
<1>4. CASE RecordRename
  BY <1>0, <1>4
     DEF RecordRename, RecordStep, RecordInv, Recorded, Latch!Next, Latch!Latch,
         Latch!vars, Absent, Whole
<1>5. CASE RecordFlushDir
  <2>1. past'.recorded = (record # Absent)
    BY <1>0, <1>5 DEF RecordFlushDir, PastType
  <2> QED
    BY <1>0, <1>5, <2>1
       DEF RecordFlushDir, RecordStep, RecordInv, Recorded, Latch!Next, Latch!Latch,
           Latch!vars, Absent, Whole
<1>6. CASE \E w \in Workers : RequestObserves(w) \/ RequestAnswers(w) \/ RequestEnds(w)
  BY <1>6, QuietSteps DEF RequestObserves, RequestAnswers, RequestEnds
<1>7. CASE \E liesFlat \in BOOLEAN : Inspect(liesFlat)
  <2>1. CASE record' = record /\ past'.recorded = past.recorded
    BY <1>7, <2>1, QuietSteps DEF Inspect
  <2>2. CASE record' = Absent /\ past'.recorded = FALSE
    BY <1>7, <2>2 DEF Inspect, Recorded, Latch!Next, Latch!Clear, Latch!vars
  <2>3. \/ record' = record /\ past'.recorded = past.recorded
        \/ record' = Absent /\ past'.recorded = FALSE
    <3>1. PICK liesFlat \in BOOLEAN : Inspect(liesFlat)
      BY <1>7
    <3>2. CASE past' = NothingHappened
      BY <3>1, <3>2 DEF Inspect, NothingHappened, Normal, Halt
    <3>3. CASE UNCHANGED <<record, past>>
      BY <3>3
    <3> QED
      BY <3>1, <3>2, <3>3 DEF Inspect
  <2> QED
    BY <2>1, <2>2, <2>3
<1>8. CASE NodeCellChanges \/ NodeTimePasses
  BY <1>8, QuietSteps DEF NodeCellChanges, NodeTimePasses
<1>9. CASE PowerCut
  <2>1. PICK survives \in {record, medium} : record' = survives /\ medium' = survives
    BY <1>0, <1>9 DEF PowerCut, AfterCut, RecordInv, Absent, Whole, Unflushed
  <2>2. up' = FALSE /\ past' = past
    BY <1>9 DEF PowerCut
  <2> QED
    BY <1>0, <2>1, <2>2
       DEF RecordInv, Recorded, Latch!Next, Latch!Stop, Latch!Lose, Latch!vars
<1>10. CASE UNCHANGED nodeVars
  BY <1>10, QuietSteps DEF nodeVars
<1> QED
  BY <1>1, <1>2, <1>3, <1>4, <1>5, <1>6, <1>7, <1>8, <1>9, <1>10
     DEF NodeNext, Supervise

(* Processes, renames, flushes and power cuts, refined to three Booleans:   *)
(* a halt on record leaves it only by a person's inspection.                *)
THEOREM NodeImplementsLatch == NodeSpec => LatchSpec
BY NodeInitLatches, NodeStepLatches, NodeSpecInv, PTL
   DEF NodeSpec, LatchSpec, Latch!Spec
=============================================================================
