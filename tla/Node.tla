-------------------------------- MODULE Node --------------------------------
(***************************************************************************)
(* One phone running `vayucell all` (cli/src/main.rs): the process and its  *)
(* supervisor thread, the threads that answer requests from the governor    *)
(* both share (cli/src/cell.rs, Governed), and the halt record that has to  *)
(* outlive the process (cli/src/halted.rs), with the person who inspects    *)
(* the phone and the power cuts in between.                                 *)
(*                                                                         *)
(* The record's directory is a volatile view and what the medium holds.  A  *)
(* rename may reach the medium before its directory is flushed, or not;     *)
(* bytes that were never flushed may come back torn.                        *)
(***************************************************************************)
EXTENDS Supervisor

CONSTANTS
    Workers,        \* threads answering requests
    Outages,        \* what --assume-outage may be given: OnMains, or a time
    MaxPowerCuts,   \* bound: how often the power fails
    MaxDiskErrors   \* bound: how often a file operation fails

ASSUME NodeAssumption ==
    /\ Outages \subseteq 0..MaxElapsed \cup {OnMains}
    /\ MaxPowerCuts \in Nat
    /\ MaxDiskErrors \in Nat

VARIABLES
    up,             \* whether the process runs
    step,           \* where its supervisor thread stands
    partial,        \* the bytes of <record>.partial: none, written, or flushed
    record,         \* the record as the file system shows it
    medium,         \* the record as the medium would show it after a power cut
    request,        \* what each worker knows
    powerCuts, diskErrors,
    past            \* history: what happened since a person last found the phone flat

process  == <<up, step, partial>>
disk     == <<record, medium>>
faults   == <<powerCuts, diskErrors>>
nodeVars == <<vars, process, disk, request, faults, past>>

(* A record is absent, all there, written but not flushed, or torn. *)
Absent == "absent"
Whole  == "whole"
Unflushed == "unflushed"
Torn   == "torn"

Steps == {"tick", "write", "flush", "rename", "flush_dir", "stopping"}

Idle == [at |-> "idle", fresh |-> Normal, begun |-> Normal, served |-> FALSE]

(* record() returned Ok; the governor reached Halt. *)
NothingHappened == [recorded |-> FALSE, halted |-> FALSE]

NodeInit ==
    /\ cell \in Readings \cup {NoReading}
    /\ outage = OnMains
    /\ hasCeiling \in BOOLEAN
    /\ gov = NewGovernor
    /\ shed = NewShed(TRUE)
    /\ cadence = Alert
    /\ seen = NothingSeen
    /\ up = FALSE
    /\ step = "tick"
    /\ partial = Absent
    /\ record = Absent
    /\ medium = Absent
    /\ request = [w \in Workers |-> Idle]
    /\ powerCuts = 0
    /\ diskErrors = 0
    /\ past = NothingHappened

-----------------------------------------------------------------------------
(* Starting.  refuse_if_halted reads the record once, before anything else; *)
(* only a record that is not there lets the device start.                   *)

Start ==
    /\ ~up
    /\ record = Absent
    /\ up' = TRUE
    /\ step' = "tick"
    /\ gov' = NewGovernor
    /\ shed' = NewShed(TRUE)
    /\ cadence' = Alert
    /\ outage' \in Outages
    /\ seen' = NothingSeen
    /\ request' = [w \in Workers |-> Idle]
    /\ UNCHANGED <<cell, hasCeiling, partial, disk, faults, past>>

-----------------------------------------------------------------------------
(* The supervisor thread. *)

(* outage_shutdown: this tick entered the last rung. *)
EnteredShutdown == shed.stage # ShuttingDown /\ shed'.stage = ShuttingDown

(* The thread's pass: tick under the lock, then stop for an outage, which   *)
(* is asked first and records nothing, or record a halt, or wait.           *)
SuperviseTick ==
    /\ up
    /\ step = "tick"
    /\ Tick
    /\ step' = IF EnteredShutdown THEN "stopping"
               ELSE IF gov'.level = Halt THEN "write"
               ELSE "tick"
    /\ past' = [past EXCEPT !.halted = @ \/ gov'.level = Halt]
    /\ UNCHANGED <<up, partial, disk, request, faults>>

(* halted::record, one step per call that may fail or be cut short.  Any    *)
(* failure is printed, and the process stops as it would have anyway.       *)
RecordFails ==
    /\ up
    /\ step \in {"write", "flush", "rename", "flush_dir"}
    /\ diskErrors < MaxDiskErrors
    /\ diskErrors' = diskErrors + 1
    /\ step' = "stopping"
    /\ UNCHANGED <<vars, up, partial, disk, request, powerCuts, past>>

RecordStep(at, next) ==
    /\ up
    /\ step = at
    /\ step' = next
    /\ UNCHANGED <<vars, up, request, faults>>

RecordWrite ==
    /\ RecordStep("write", "flush")
    /\ partial' = Unflushed
    /\ UNCHANGED <<disk, past>>

(* Mutant of RecordFlush: the bytes are renamed unflushed. *)
RecordFlushSkipped ==
    /\ RecordStep("flush", "rename")
    /\ UNCHANGED <<partial, disk, past>>

RecordFlush ==
    /\ RecordStep("flush", "rename")
    /\ partial' = Whole
    /\ UNCHANGED <<disk, past>>

RecordRename ==
    /\ RecordStep("rename", "flush_dir")
    /\ record' = partial
    /\ partial' = Absent
    /\ UNCHANGED <<medium, past>>

(* Mutant of RecordFlushDir: Ok before the directory is flushed. *)
RecordFlushDirSkipped ==
    /\ RecordStep("flush_dir", "stopping")
    /\ past' = [past EXCEPT !.recorded = record # Absent]
    /\ UNCHANGED <<partial, disk>>

(* Only now does record() return Ok. *)
RecordFlushDir ==
    /\ RecordStep("flush_dir", "stopping")
    /\ medium' = record
    /\ past' = [past EXCEPT !.recorded = record # Absent]
    /\ UNCHANGED <<partial, record>>

(* Mutant of Exit: a process that could not record its halt goes on. *)
ExitOnceRecorded ==
    /\ up
    /\ step = "stopping"
    /\ record # Absent
    /\ up' = FALSE
    /\ request' = [w \in Workers |-> Idle]
    /\ UNCHANGED <<vars, step, partial, disk, faults, past>>

(* process::exit, with every worker in the middle of whatever it was doing. *)
Exit ==
    /\ up
    /\ step = "stopping"
    /\ up' = FALSE
    /\ request' = [w \in Workers |-> Idle]
    /\ UNCHANGED <<vars, step, partial, disk, faults, past>>

-----------------------------------------------------------------------------
(* The workers: a reading taken outside the lock, then the governor's level *)
(* and the ladder's rung under it, and the worse of the two levels counts.  *)

RequestObserves(w) ==
    /\ up
    /\ request[w].at = "idle"
    /\ request' = [request EXCEPT ![w] =
                     [at |-> "observed", fresh |-> ObservedLevel(cell),
                      begun |-> gov.level, served |-> FALSE]]
    /\ UNCHANGED <<vars, process, disk, faults, past>>

(* Mutant of RequestAnswers: the request's own reading is enough. *)
RequestAnswersFresh(w) ==
    /\ up
    /\ request[w].at = "observed"
    /\ request' = [request EXCEPT ![w].at = "answered",
                                  ![w].served = ServesReaders(request[w].fresh, shed.stage)]
    /\ UNCHANGED <<vars, process, disk, faults, past>>

RequestAnswers(w) ==
    /\ up
    /\ request[w].at = "observed"
    /\ request' = [request EXCEPT ![w] =
                     [@ EXCEPT
                        !.at = "answered",
                        !.served = ServesReaders(MaxLevel(request[w].fresh, gov.level), shed.stage)]]
    /\ UNCHANGED <<vars, process, disk, faults, past>>

RequestEnds(w) ==
    /\ up
    /\ request[w].at = "answered"
    /\ request' = [request EXCEPT ![w] = Idle]
    /\ UNCHANGED <<vars, process, disk, faults, past>>

-----------------------------------------------------------------------------
(* The person, in a process of their own: `vayucell inspect`. *)

(* Mutant of Inspect: any look at the phone clears the record. *)
InspectClearsAnyway(liesFlat) ==
    /\ record' = Absent
    /\ past' = IF liesFlat THEN NothingHappened ELSE past
    /\ UNCHANGED <<vars, process, medium, request, faults>>

(* What they saw goes to a new governor.  A phone that comes back clears    *)
(* the record, without flushing its directory (halted::clear); one that     *)
(* does not leaves the record as it is, there or not.                       *)
Inspect(liesFlat) ==
    /\ \/ /\ AfterInspection(NewGovernor, liesFlat).level = Normal
          /\ record' = Absent
          /\ past' = NothingHappened
       \/ /\ AfterInspection(NewGovernor, liesFlat).level = Halt
          /\ UNCHANGED <<record, past>>
    /\ UNCHANGED <<vars, process, medium, request, faults>>

-----------------------------------------------------------------------------
(* The world. *)

NodeCellChanges ==
    /\ CellChanges
    /\ UNCHANGED <<process, disk, request, faults, past>>

NodeTimePasses ==
    /\ up
    /\ TimePasses
    /\ UNCHANGED <<process, disk, request, faults, past>>

(* What a name may hold after a power cut: bytes never flushed may be torn. *)
AfterCut(content) == IF content = Unflushed THEN {Whole, Torn} ELSE {content}

PowerCut ==
    /\ powerCuts < MaxPowerCuts
    /\ powerCuts' = powerCuts + 1
    /\ up' = FALSE
    /\ step' = "tick"
    /\ partial' = Absent
    /\ \E survives \in AfterCut(record) \cup AfterCut(medium) :
          record' = survives /\ medium' = survives
    /\ request' = [w \in Workers |-> Idle]
    /\ UNCHANGED <<vars, diskErrors, past>>

Supervise ==
    \/ SuperviseTick
    \/ RecordFails
    \/ RecordWrite
    \/ RecordFlush
    \/ RecordRename
    \/ RecordFlushDir
    \/ Exit

NodeNext ==
    \/ Start
    \/ Supervise
    \/ \E w \in Workers : RequestObserves(w) \/ RequestAnswers(w) \/ RequestEnds(w)
    \/ \E liesFlat \in BOOLEAN : Inspect(liesFlat)
    \/ NodeCellChanges
    \/ NodeTimePasses
    \/ PowerCut

NodeSpec == NodeInit /\ [][NodeNext]_nodeVars

(* The supervisor thread keeps running; nothing else is promised to. *)
FairNodeSpec == NodeSpec /\ WF_nodeVars(Supervise)

-----------------------------------------------------------------------------
(* Properties. *)

NodeTypeOK ==
    /\ TypeOK
    /\ up \in BOOLEAN
    /\ step \in Steps
    /\ partial \in {Absent, Unflushed, Whole}
    /\ {record, medium} \subseteq {Absent, Unflushed, Whole, Torn}
    /\ request \in [Workers -> [at : {"idle", "observed", "answered"}, fresh : Levels,
                                begun : Levels, served : BOOLEAN]]
    /\ powerCuts \in 0..MaxPowerCuts
    /\ diskErrors \in 0..MaxDiskErrors
    /\ past \in [recorded : BOOLEAN, halted : BOOLEAN]

(* A halt record never comes back torn, whenever the power fails: what a    *)
(* person reads there says what the device saw.  (record: flush, then       *)
(* rename)                                                                  *)
RecordNeverTorn == record # Torn /\ medium # Torn

(* A request that began once the governor had left the levels that may      *)
(* serve is refused, however cool the cell is by the time it is answered.   *)
(* (Governed::context)                                                      *)
LatchedGovernorRefuses ==
    \A w \in Workers : request[w].served => MayServe(request[w].begun)

(* Once record() has returned Ok, no process starts until a person has      *)
(* found the phone flat, power cuts included.  (record, refuse_if_halted)   *)
RecordedHaltStands ==
    [][~up /\ up' => ~past.recorded]_nodeVars

(* The halt is on record where the file system and the medium agree on it.  *)
Recorded == record # Absent /\ medium # Absent

Latch == INSTANCE HaltLatch
           WITH halted <- Recorded, inspected <- ~past.recorded /\ ~Recorded, serving <- up

(* The process, its files and its power cuts implement the abstract latch:  *)
(* a halt on record leaves it only by a person's inspection.  (record,      *)
(* clear, refuse_if_halted)                                                 *)
LatchSpec == Latch!Spec

(* A governor at Halt takes the process down, whether or not the record     *)
(* could be written.  (supervise)                                           *)
HaltStopsTheProcess == gov.level = Halt /\ up ~> ~up

-----------------------------------------------------------------------------
(* A claim of the source that does not hold: no restart clears a halt.      *)
NoRestartClears == [][~up /\ up' => ~past.halted]_nodeVars
=============================================================================
