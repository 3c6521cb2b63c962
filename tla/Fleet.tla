-------------------------------- MODULE Fleet --------------------------------
(***************************************************************************)
(* core/src/fleet.rs: whether a fleet's write may be accepted, the rolling  *)
(* upgrade of its nodes, and the verdicts its cells send one another.       *)
(*                                                                         *)
(* An upgrade plan is a sequence of what became of each node, in the plan's *)
(* order; the clock the caller hands it may go back.                        *)
(***************************************************************************)
EXTENDS Naturals, Sequences, FiniteSets

CONSTANTS
    UpgradeBudget,  \* UPGRADE_BUDGET_SECS
    NodeCount,      \* the nodes of the plan
    Members,        \* the voting members of the fleet
    MaxClock        \* bound: the clock's last reading

ASSUME FleetAssumption ==
    /\ UpgradeBudget \in Nat
    /\ NodeCount \in Nat
    /\ IsFiniteSet(Members)
    /\ MaxClock \in Nat

QuorumNeeded(members) == members \div 2 + 1

(* Mutant of CanAccept: half is enough. *)
CanAcceptHalf(total, live, willing) == 2 * live >= total

(* can_accept: a majority, or an exact half and a witness to break the tie. *)
CanAccept(total, live, willing) ==
    \/ live >= QuorumNeeded(total)
    \/ /\ live * 2 = total
       /\ live + (IF willing < 1 THEN willing ELSE 1) >= QuorumNeeded(total)

-----------------------------------------------------------------------------
(* Rolling upgrades. *)

Pending         == [is |-> "pending"]
Done            == [is |-> "done"]
InFlight(since) == [is |-> "in flight", since |-> since]
Drained(at)     == [is |-> "drained", at |-> at]

NewPlan(n) == [i \in 1..n |-> Pending]

Which(nodes, is)   == {i \in DOMAIN nodes : nodes[i].is = is}
First(nodes, is)   == {i \in Which(nodes, is) : \A j \in Which(nodes, is) : i <= j}
AnyInFlight(nodes) == Which(nodes, "in flight") # {}

(* saturating_sub: a clock that went back has waited no time at all. *)
Waited(time, since) == IF time >= since THEN time - since ELSE 0

DrainOverdue(nodes, time) ==
    [i \in DOMAIN nodes |->
        IF nodes[i].is = "in flight" /\ Waited(time, nodes[i].since) > UpgradeBudget
        THEN Drained(time) ELSE nodes[i]]

Starting(nodes, time) ==
    [i \in DOMAIN nodes |-> IF i \in First(nodes, "pending") THEN InFlight(time) ELSE nodes[i]]

(* Mutant of Advance: the next is started whoever is away. *)
AdvanceEager(nodes, time) == Starting(DrainOverdue(nodes, time), time)

(* UpgradePlan::advance: the overdue are drained, then the first that waits *)
(* is started, if nobody is away.                                           *)
Advance(nodes, time) ==
    LET settled == DrainOverdue(nodes, time)
    IN  IF AnyInFlight(settled) THEN settled ELSE Starting(settled, time)

(* UpgradePlan::record_returned: the first in flight is done; nobody is     *)
(* asked which node it was that came back.                                  *)
RecordReturned(nodes) ==
    [i \in DOMAIN nodes |-> IF i \in First(nodes, "in flight") THEN Done ELSE nodes[i]]

-----------------------------------------------------------------------------
(* A fleet at work: a plan that is advanced and told of returns, whoever it *)
(* was that returned, and a network that parts its members in two.          *)

VARIABLES
    plan,           \* what became of each node
    clock,          \* the caller's clock
    side,           \* where each member can be reached from, if at all
    witness         \* where the witness can be

fleetVars == <<plan, clock, side, witness>>

Sides == {"left", "right"}

FleetInit ==
    /\ plan = NewPlan(NodeCount)
    /\ clock = 0
    /\ side = [m \in Members |-> "left"]
    /\ witness = "left"

Advances ==
    /\ plan' = Advance(plan, clock)
    /\ UNCHANGED <<clock, side, witness>>

Returns ==
    /\ plan' = RecordReturned(plan)
    /\ UNCHANGED <<clock, side, witness>>

ClockMoves ==
    /\ clock' \in 0..MaxClock
    /\ UNCHANGED <<plan, side, witness>>

MemberMoves ==
    /\ \E m \in Members, s \in Sides \cup {"down"} : side' = [side EXCEPT ![m] = s]
    /\ UNCHANGED <<plan, clock, witness>>

WitnessMoves ==
    /\ witness' \in Sides \cup {"down"}
    /\ UNCHANGED <<plan, clock, side>>

FleetNext == Advances \/ Returns \/ ClockMoves \/ MemberMoves \/ WitnessMoves

FleetSpec == FleetInit /\ [][FleetNext]_fleetVars

Live(s)    == {m \in Members : side[m] = s}
Accepts(s) == CanAccept(Cardinality(Members), Cardinality(Live(s)), IF witness = s THEN 1 ELSE 0)

(* Nodes leave the rotation one by one, in the plan's order: all before one *)
(* that was ever started are done or drained, so that one bad image takes   *)
(* one node away, whatever the clock does and whoever returns.              *)
(* (UpgradePlan::advance, record_returned)                                  *)
OneAwayAtATime ==
    \A j \in DOMAIN plan : \A i \in 1..(j - 1) :
        plan[j].is # "pending" => plan[i].is \in {"done", "drained"}

(* However a network parts a fleet that has one witness, both parts do not  *)
(* accept writes.  (can_accept, quorum_needed)                              *)
NoSplitBrain == ~(Accepts("left") /\ Accepts("right"))

-----------------------------------------------------------------------------
(* Verdicts.  The tag of a payload under a key is that pair: it cannot be   *)
(* made without the key, and another payload has another.                   *)

Bar == "|"

Tag(key, payload) == <<key, payload>>

Payload(subject, verdict, issued) == subject \o <<Bar>> \o verdict \o <<Bar, issued>>

(* SealedVerdict::seal; a subject and a verdict are sequences, for either   *)
(* may hold the bar that parts them.                                        *)
Seal(subject, verdict, issued, key) ==
    [subject |-> subject, verdict |-> verdict, issued |-> issued,
     tag |-> Tag(key, Payload(subject, verdict, issued))]

VerifySealed(v, key) == v.tag = Tag(key, Payload(v.subject, v.verdict, v.issued))
=============================================================================
