------------------------------ MODULE Catalogue ------------------------------
(***************************************************************************)
(* What a device can be offered: how hot it may work (core/src/thermal.rs), *)
(* which capabilities its tier allows (core/src/capability.rs), what was    *)
(* measured of it (cli/src/profile.rs, cli/src/statvfs.rs), and which       *)
(* services fit (core/src/catalogue.rs, cli/src/picker.rs).                 *)
(*                                                                         *)
(* An Option of the source is a set: {} was never measured, {0} is nought.  *)
(***************************************************************************)
EXTENDS Panel

(* ThermalClass, lightest first, and its order. *)
ThermalClasses == <<"idle", "light", "sustained", "heavy">>
Rank(class)    == CHOOSE i \in DOMAIN ThermalClasses : ThermalClasses[i] = class
WorseThan(a, b)== Rank(a) > Rank(b)

(* ThermalHistory: the hottest seen, if anything was, and how often. *)
NoHistory == [worst |-> {}, observed |-> 0]
ObserveCelsius(h, temp) ==
    [worst |-> {Max(h.worst \cup {temp})}, observed |-> h.observed + 1]

(* ThermalHistory::class: the governor's ladder read as a ceiling. *)
ClassOf(h) ==
    {CASE worst >= HardStopTemp -> "idle"
       [] worst >= CriticalTemp /\ worst < HardStopTemp -> "light"
       [] worst >= WarnTemp /\ worst < CriticalTemp -> "sustained"
       [] OTHER -> "heavy" : worst \in h.worst}

-----------------------------------------------------------------------------
(* Capabilities. *)

TierRank(tier)    == CASE tier = "T0" -> 0 [] tier = "T1" -> 1 [] tier = "T2" -> 2 [] tier = "T3" -> 3
AtLeast(tier, min)== TierRank(tier) >= TierRank(min)

(* An undetected tier satisfies nothing. *)
TierSatisfies(detected, floor) == \E t \in detected : AtLeast(t, floor)

Classes      == {"safety", "serving", "storage", "network", "observe"}
Dispositions == {"degrade", "refuse"}
Results      == {"present", "absent", "unverified"}
Observations == [result : Results, evidence : STRING]

(* A capability, by what its registration looks at; a blank id is "". *)
Capabilities(ids) ==
    [id : ids, floor : Tiers, class : Classes, applies : BOOLEAN,
     onAbsent : Dispositions, rationale : BOOLEAN]

Invalids == {"no id", "no rationale", "no apply", "safety degrades", "duplicate"}

(* Capability::check: everything wrong with it. *)
CheckCapability(c) ==
    {e \in Invalids :
        \/ e = "no id" /\ c.id = ""
        \/ e = "no rationale" /\ ~c.rationale
        \/ e = "no apply" /\ ~c.applies /\ c.class # "observe"
        \/ e = "safety degrades" /\ c.class = "safety" /\ c.onAbsent = "degrade"}

(* Registry::register, of what somebody registers one after another: one    *)
(* with something wrong with it is refused, and one whose id is held.       *)
Accepted(asked, i) ==
    /\ CheckCapability(asked[i]) = {}
    /\ \A j \in 1..i - 1 : CheckCapability(asked[j]) = {} => asked[j].id # asked[i].id

Registered(asked) == {asked[i] : i \in {i \in DOMAIN asked : Accepted(asked, i)}}

ValidateRegistry(registry) ==
    {[id |-> c.id, wrong |-> CheckCapability(c)] : c \in {c \in registry : CheckCapability(c) # {}}}

AvailableAt(registry, detected) == {c.id : c \in {c \in registry : TierSatisfies(detected, c.floor)}}

-----------------------------------------------------------------------------
(* The catalogue. *)

Envelope(memory, storage, thermal) == [memory |-> memory, storage |-> storage, thermal |-> thermal]
Entry(id, floor, envelope)         == [id |-> id, floor |-> floor, envelope |-> envelope]

Entries ==
    <<Entry("vayu.panel",     "T0", Envelope(64, 32, "idle")),
      Entry("vayu.press",     "T1", Envelope(512, 2048, "light")),
      Entry("vayu.cloud",     "T1", Envelope(512, 8192, "light")),
      Entry("vayu.backup",    "T1", Envelope(256, 8192, "idle")),
      Entry("vayu.household", "T1", Envelope(256, 4096, "sustained")),
      Entry("vayu.inference", "T1", Envelope(4096, 8192, "heavy"))>>

Budget(tier, memory, storage, thermal) ==
    [tier |-> tier, memory |-> memory, storage |-> storage, thermal |-> thermal]

MeasuredBudget(tier, memory, storage, thermal) ==
    Budget(tier, {memory}, {storage}, {thermal})

(* The first of the requirements, in order, that was measured and fails. *)
Requirements == <<"memory", "storage", "thermal">>

Short(envelope, budget, need) ==
    \E have \in budget[need] :
        IF need = "thermal" THEN WorseThan(envelope.thermal, have) ELSE have < envelope[need]

Shortfalls(envelope, budget) == {i \in DOMAIN Requirements : Short(envelope, budget, Requirements[i])}
Shortfall(envelope, budget)  == Requirements[Min(Shortfalls(envelope, budget))]

(* Budget::unmeasured, and how it is told. *)
Unmeasured(budget) == {need \in {"memory", "storage", "thermal"} : budget[need] = {}}

(* Why an entry is greyed. *)
TooSmall(need)            == [is |-> "too small", need |-> need]
TierUnknown(floor)        == [is |-> "tier unknown", floor |-> floor]
ResourcesUnknown(missing) == [is |-> "resources unknown", missing |-> missing]

(* Mutant of Judge: what was never measured did not fail, so it fits. *)
JudgeHopefully(entry, budget) ==
    CASE budget.tier = {} -> {TierUnknown(entry.floor)}
      [] budget.tier # {} /\ ~TierSatisfies(budget.tier, entry.floor) -> {TooSmall("tier")}
      [] OTHER -> IF Shortfalls(entry.envelope, budget) # {}
                  THEN {TooSmall(Shortfall(entry.envelope, budget))} ELSE {}

(* Entry::judge: the reasons not to offer it, none or one. *)
Judge(entry, budget) ==
    CASE budget.tier = {} -> {TierUnknown(entry.floor)}
      [] budget.tier # {} /\ ~TierSatisfies(budget.tier, entry.floor) -> {TooSmall("tier")}
      [] OTHER -> IF Shortfalls(entry.envelope, budget) # {}
                  THEN {TooSmall(Shortfall(entry.envelope, budget))}
                  ELSE IF Unmeasured(budget) # {} THEN {ResourcesUnknown(Unmeasured(budget))} ELSE {}

(* select_from: every entry in one list or the other, in catalogue order. *)
Selection(entries, budget) ==
    [fitting |-> SelectSeq(entries, LAMBDA e : Judge(e, budget) = {}),
     greyed  |-> SelectSeq(entries, LAMBDA e : Judge(e, budget) # {})]

ReasonFor(selection, id, budget) ==
    UNION {Judge(e, budget) : e \in {e \in ToSet(selection.greyed) : e.id = id}}

-----------------------------------------------------------------------------
(* What was measured of this device. *)

MemInfo == "/proc/meminfo"

(* memory_mb: the first line that names the total, if it is a number. *)
MemoryMb(m) == IF FileAt(m, MemInfo).is = "number" THEN {FileAt(m, MemInfo).n \div 1024} ELSE {}

(* free_space_mb: the call may refuse, the fragment may be nothing, and the *)
(* product may not fit; none of the three is a full disk.  fs is {} where   *)
(* the platform will not say; a fragment is in kibibytes.                   *)
FreeSpaceMb(fs) ==
    {(v.available * v.fragment) \div 1024 :
        v \in {v \in fs : v.fragment # 0 /\ v.available * v.fragment <= IntMax}}

CellTemp(m, dir) ==
    LET r == ReadBattery(m, dir) IN IF r = NoReading THEN {} ELSE {ToCelsius(r.temp)}

(* thermal_class: one reading of the cell is the whole history. *)
ThermalClassOf(m, dir) == UNION {ClassOf(ObserveCelsius(NoHistory, t)) : t \in CellTemp(m, dir)}

(* profile::budget *)
BudgetOf(m, dir, fs) ==
    Budget(TierOf(Detect(m).verdict), MemoryMb(m), FreeSpaceMb(fs), ThermalClassOf(m, dir))

(* profile::run: the four figures, the cell's temperature, and how many of  *)
(* the four were measured.                                                  *)
ProfileReport(m, dir, fs) ==
    LET budget == BudgetOf(m, dir, fs)
    IN  [figures |-> budget, cell |-> CellTemp(m, dir),
         measured |-> Cardinality({f \in DOMAIN budget : budget[f] # {}}), exit |-> ExitProtected]

(* picker::render: what is said of each entry. *)
Told(entry, budget) ==
    LET reasons == Judge(entry, budget)
    IN  CASE reasons = {} -> "offered"
          [] \E r \in reasons : r.is = "too small" -> "does not fit"
          [] OTHER -> "cannot be told"

(* picker::run *)
CatalogueReport(m, dir, fs) ==
    LET budget == BudgetOf(m, dir, fs)
    IN  [device |-> budget, offered |-> Len(Selection(Entries, budget).fitting),
         rows |-> [i \in DOMAIN Entries |-> [wants |-> Entries[i], is |-> Told(Entries[i], budget)]],
         exit |-> ExitProtected]
=============================================================================
