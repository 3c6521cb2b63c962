------------------------------ MODULE Machine ------------------------------
(***************************************************************************)
(* The machine a command runs on, as core/src/host.rs hands it over (files, *)
(* environment, effective user), and the nodes core/src/sysfs.rs reads of   *)
(* the cell and of its charge control.                                      *)
(*                                                                         *)
(* A machine is [files, env, uid].  A file that is not in DOMAIN files does *)
(* not exist.  Of a text only the words some caller looks for are kept.     *)
(***************************************************************************)
EXTENDS Battery, Sequences, SequencesExt, FiniteSetsExt

Locked       == [is |-> "locked"]                    \* there, and does not read
Text(words)  == [is |-> "text", words |-> words]
Number(n)    == [is |-> "number", n |-> n]
Fields(f)    == [is |-> "fields", fields |-> f]      \* a text read field by field
Directory    == [is |-> "directory"]
Missing      == [is |-> "missing"]

(* Host::read, exists, is_file and env of RealHost. *)
FileAt(m, path)  == IF path \in DOMAIN m.files THEN m.files[path] ELSE Missing
Exists(m, path)  == path \in DOMAIN m.files
IsFile(m, path)  == FileAt(m, path).is \in {"locked", "text", "number", "fields"}
Readable(m, path)== FileAt(m, path).is \in {"text", "number", "fields"}
SaysAny(m, path, words) ==
    FileAt(m, path).is = "text" /\ FileAt(m, path).words \cap words # {}
EnvOf(m, key)    == IF key \in DOMAIN m.env THEN {m.env[key]} ELSE {}

NotRoot == -1               \* u32::MAX: nobody's user

(* parse_euid: a status file that does not say is never root. *)
EffectiveUser(m) ==
    LET status == FileAt(m, "/proc/self/status")
    IN  IF status.is = "number" THEN status.n ELSE NotRoot

-----------------------------------------------------------------------------
(* The cell. *)

Supply == "/sys/class/power_supply/battery"
NodeOf(dir, node) == dir \o "/" \o node

Nodes == <<"capacity", "voltage_now", "current_now", "temp", "cycle_count",
           "charge_full", "charge_full_design", "health">>

(* The nodes a reading cannot do without, in the order they are asked. *)
Needed == SubSeq(Nodes, 1, 7)

TempMax == 2147483647       \* a temperature is parsed as i64 and kept as i32

(* read_i64, and what a temperature asks on top of it. *)
ReadInteger(m, dir, node) ==
    LET f == FileAt(m, NodeOf(dir, node))
    IN  CASE f.is \notin {"text", "number"} -> [why |-> "missing"]
          [] f.is = "text" -> [why |-> "unparseable"]
          [] f.is = "number" /\ node = "temp" /\ (f.n > TempMax \/ f.n < -TempMax - 1) ->
                [why |-> "unparseable"]
          [] OTHER -> [why |-> "none", n |-> f.n]

(* The first node that fails a reading, or none. *)
ReadErrors(m, dir) ==
    LET failing == {i \in DOMAIN Needed : ReadInteger(m, dir, Needed[i]).why # "none"}
    IN  IF failing = {} THEN {}
        ELSE {[node |-> Needed[Min(failing)],
               why  |-> ReadInteger(m, dir, Needed[Min(failing)]).why]}

(* Mutant of ReadBattery: a node that is not there reads as nought. *)
ReadBatteryDefaults(m, dir) ==
    LET at(node) == IF ReadInteger(m, dir, node).why = "none"
                    THEN ReadInteger(m, dir, node).n ELSE 0
    IN  [temp |-> at("temp"), capacity |-> Clamped(at("capacity")),
         current |-> at("current_now"), full |-> at("charge_full"),
         design |-> at("charge_full_design")]

(* read_battery: all of it or nothing. *)
ReadBattery(m, dir) ==
    LET at(node) == ReadInteger(m, dir, node).n
    IN  IF ReadErrors(m, dir) # {} THEN NoReading
        ELSE [temp |-> at("temp"), capacity |-> Clamped(at("capacity")),
              current |-> at("current_now"), full |-> at("charge_full"),
              design |-> at("charge_full_design")]

-----------------------------------------------------------------------------
(* The charge control. *)

Kinds == {"end_threshold", "current_limit", "input_suspend", "voltage_max"}

ControlNode(kind) ==
    CASE kind = "end_threshold" -> "charge_control_end_threshold"
      [] kind = "current_limit" -> "constant_charge_current_max"
      [] kind = "input_suspend" -> "input_suspend"
      [] kind = "voltage_max"   -> "voltage_max"

IsCeiling(kind) == kind = "end_threshold"

ProbeOrder == <<"end_threshold", "voltage_max", "current_limit", "input_suspend">>

NoMechanism == "none"

(* detect_mechanism: the first control that is there, in the order probed. *)
DetectMechanism(m, dir) ==
    LET there == {i \in DOMAIN ProbeOrder : Exists(m, NodeOf(dir, ControlNode(ProbeOrder[i])))}
    IN  IF there = {} THEN NoMechanism ELSE ProbeOrder[Min(there)]

(* SysfsCeiling::new: only a control that reads back as a percentage. *)
CeilingFor(m, dir) ==
    LET kind == DetectMechanism(m, dir)
    IN  IF kind # NoMechanism /\ IsCeiling(kind) THEN {kind} ELSE {}

(* Writing a node, as the kernel may take it: refused, kept, or reverted. *)
Writes(m, dir, kind, value) ==
    LET path == NodeOf(dir, ControlNode(kind))
    IN  IF FileAt(m, path).is # "number" THEN {m}
        ELSE {m, [m EXCEPT !.files[path] = Number(value)]}

(* SysfsCeiling::verify: what is read back, clamped, or nothing. *)
ReadBack(m, dir, kind) ==
    LET f == FileAt(m, NodeOf(dir, ControlNode(kind)))
    IN  IF f.is = "number" THEN {Clamped(f.n)} ELSE {}
=============================================================================
