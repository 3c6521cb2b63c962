------------------------------- MODULE Panel -------------------------------
(***************************************************************************)
(* The safety panel (core/src/panel.rs), how a device assembles one         *)
(* (cli/src/report.rs) and the report it is the end of (cli/src/survey.rs). *)
(* A finding is a label and what it is because of; of the report each       *)
(* section is kept by what it tells.                                        *)
(***************************************************************************)
EXTENDS Tier, Storage, Governor, Guest

Verified(because)   == [label |-> "VERIFIED", because |-> because]
Failed(because)     == [label |-> "FAILED", because |-> because]
Unverified(because) == [label |-> "UNVERIFIED", because |-> because]
Row(subject, finding) == [subject |-> subject, finding |-> finding]

Protected     == 0
NotVerified   == 1
Unsafe        == 2
Overall       == Protected..Unsafe

(* under_a_host *)
UnderAHost(verdict) == verdict = Established("T2")

TierRow(verdict) ==
    IF verdict.is = "established" THEN Verified(verdict.tier) ELSE Unverified(verdict.is)

(* mechanism_row: what a guest sees is not the cell's. *)
MechanismRow(guest, mechanism) ==
    IF guest THEN Unverified("the host's to hold")
    ELSE IF mechanism = NoMechanism THEN Failed("no charge control")
    ELSE Verified(mechanism)

(* Mutant of GovernorRow: only a halt is told. *)
GovernorRowHalts(guest, level) ==
    IF guest THEN Unverified("no reading of the phone's cell")
    ELSE IF level # Halt THEN Verified("no threshold crossed") ELSE Failed(level)

(* governor_row *)
GovernorRow(guest, level) ==
    IF guest THEN Unverified("no reading of the phone's cell")
    ELSE IF level = Normal THEN Verified("no threshold crossed") ELSE Failed(level)

(* reserve_row: backed or not, and whether a guest is asking. *)
ReserveRow(guest, backed) ==
    IF backed THEN Verified("a cell carries this node")
    ELSE IF guest THEN Unverified("the host's cell") ELSE Failed("unreadable cell")

(* Panel::build *)
BuildPanel(verdict, level, mechanism, ceiling, backed) ==
    LET guest == UnderAHost(verdict)
    IN  <<Row("device tier", TierRow(verdict)),
          Row("charge mechanism", MechanismRow(guest, mechanism)),
          Row("charge ceiling", ceiling),
          Row("battery governor", GovernorRow(guest, level)),
          Row("outage reserve", ReserveRow(guest, backed))>>

Weight(finding) ==
    CASE finding.label = "VERIFIED" -> Protected
      [] finding.label = "UNVERIFIED" -> NotVerified
      [] finding.label = "FAILED" -> Unsafe

(* Panel::overall: the worst row. *)
OverallOf(rows) == Max({Weight(rows[i].finding) : i \in DOMAIN rows})

(* exit_code *)
ExitProtected  == 0
ExitUnverified == 1
ExitUnsafe     == 2
ExitUsage      == 64
ExitCode(overall) ==
    CASE overall = Protected -> ExitProtected
      [] overall = NotVerified -> ExitUnverified
      [] overall = Unsafe -> ExitUnsafe

-----------------------------------------------------------------------------
(* Assembling one. *)

(* hosted_ceiling: what the host says of its ceiling, and what was wrong    *)
(* with its statement or with the record.  No statement is not a fault here.*)
HostedCeiling(g) ==
    [standing |-> StandingOf(g.ledger, "ceiling"),
     host |-> IF g.hostFault = "absent" THEN NoFault ELSE g.hostFault,
     record |-> g.recordFault]

(* The ceiling's row is never more than a claim: nothing was written here.  *)
CeilingRow(m, dir, hosted, g) ==
    LET mechanism == DetectMechanism(m, dir)
    IN  CASE hosted -> Unverified(HostedCeiling(g))
          [] ~hosted /\ ReadBattery(m, dir) = NoReading -> Unverified("unreadable cell")
          [] OTHER -> Unverified(IF mechanism # NoMechanism /\ IsCeiling(mechanism)
                                 THEN "present, not written" ELSE "nothing to read back")

(* report::assemble *)
Assemble(m, dir, level, g) ==
    LET verdict == Detect(m).verdict
        hosted  == UnderAHost(verdict)
    IN  BuildPanel(verdict, level, DetectMechanism(m, dir), CeilingRow(m, dir, hosted, g),
                   ~hosted /\ ReadBattery(m, dir) # NoReading)

(* Standing::floor: a recorded halt, or a record that cannot be read, is a  *)
(* halt whatever the cell reads.                                            *)
FloorOf(standing) == IF standing = "clear" THEN Normal ELSE Halt

(* Mutant of ObservedPanel: the cell is asked, the record is not. *)
ObservedPanelCellOnly(m, dir, standing, g) ==
    Assemble(m, dir, ObservedLevel(ReadBattery(m, dir)), g)

(* report::observed *)
ObservedPanel(m, dir, standing, g) ==
    Assemble(m, dir, MaxLevel(ObservedLevel(ReadBattery(m, dir)), FloorOf(standing)), g)

-----------------------------------------------------------------------------
(* The report. *)

Roles == {"edge", "store", "compute", "witness"}

(* Role::serves_traffic: a witness votes and does nothing else. *)
RoleServes(role) == role # "witness"

(* What the report says the operator chose. *)
ChosenLines(m, dir, quoted, role) ==
    {w \in {"supply dir", "replica evidence", "fleet role", "assertion"} :
        \/ w = "supply dir" /\ dir # Supply
        \/ w = "replica evidence" /\ quoted
        \/ w = "fleet role" /\ role # {}
        \/ w = "assertion" /\ EnvOf(m, AssertionEnv) # {}}

SupplyLines(m, dir) == [i \in DOMAIN Nodes |-> Readable(m, NodeOf(dir, Nodes[i]))]

LimitingLines(m, dir) ==
    [k \in Kinds |-> [present |-> Readable(m, NodeOf(dir, ControlNode(k))),
                      ceiling |-> IsCeiling(k)]]

GuestLines(g) ==
    [boot |-> g.ledger.observed,
     standings |-> [c \in Mediated |-> StandingOf(g.ledger, c)],
     host |-> g.hostFault, record |-> g.recordFault]

(* survey::report *)
SurveyReport(m, dir, standing, now, claimed, quoted, role, g) ==
    LET found == Detect(m)
        panel == ObservedPanel(m, dir, standing, g)
    IN  [yours    |-> ChosenLines(m, dir, quoted, role),
         tier     |-> found.verdict,
         findings |-> found.findings,
         supply   |-> SupplyLines(m, dir),
         limiting |-> LimitingLines(m, dir),
         mechanism|-> DetectMechanism(m, dir),
         storage  |-> StorageSection(m, now, claimed, quoted),
         fleet    |-> {[role |-> r, serves |-> RoleServes(r)] : r \in role},
         guest    |-> IF UnderAHost(found.verdict) THEN {GuestLines(g)} ELSE {},
         panel    |-> panel,
         exit     |-> ExitCode(OverallOf(panel))]
=============================================================================
