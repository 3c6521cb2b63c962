-------------------------------- MODULE Guest --------------------------------
(***************************************************************************)
(* What a tier-2 guest holds about the Android host that owns it            *)
(* (core/src/guest.rs): the statement of the host, parsed; the ledger of    *)
(* what it said and in which of its boots; and the record a ledger is       *)
(* written as.  No state of its own: the commands that use it are in Device.*)
(*                                                                         *)
(* A boot counter that is no counter, zero included, is 0.  A percentage is *)
(* "holding": which one decides nothing.                                    *)
(***************************************************************************)
EXTENDS Naturals, Sequences, SequencesExt, FiniteSetsExt

NoBoot == 0

(* The controls the host owns, and what it can say about each. *)
Mediated == {"ceiling", "doze", "ingress"}

ClaimWords ==
    [ceiling |-> {"holding", "nothing"},
     doze    |-> {"exempt", "applies"},
     ingress |-> {"published", "withheld"}]

NoFault == "none"
Faults  == {"absent", "malformed", "contradictory", "replayed"}

Nowhere == [c \in {} |-> NoBoot]            \* no claim, no fact

-----------------------------------------------------------------------------
(* The host's statement: parts of a key and a value, in the order given.    *)

Keyed(parts, keys) == {i \in DOMAIN parts : parts[i].key \in keys}

SaidBefore(parts, i) == \E j \in Keyed(parts, {parts[i].key}) : j < i

(* push_claim, and the boot: a second statement about one thing is none. *)
PartFault(parts, i) ==
    LET part == parts[i]
    IN  IF part.key = "blank" THEN NoFault
        ELSE IF ~ \/ part.key = "epoch"
                  \/ part.key \in Mediated /\ part.word \in ClaimWords[part.key]
             THEN "malformed"
        ELSE IF SaidBefore(parts, i) THEN "contradictory"
        ELSE IF part.key = "epoch" /\ part.counter = NoBoot THEN "malformed"
        ELSE NoFault

(* Attestation::parse: the first part that is refused refuses it all, and a *)
(* statement of no boot is refused at the end.                              *)
ParseAttestation(parts) ==
    LET wrong  == {i \in DOMAIN parts : PartFault(parts, i) # NoFault}
        boots  == Keyed(parts, {"epoch"})
        stated == Keyed(parts, Mediated)
    IN  [epoch  |-> IF boots = {} THEN NoBoot ELSE parts[Min(boots)].counter,
         claims |-> [c \in {parts[i].key : i \in stated} |->
                        parts[CHOOSE i \in stated : parts[i].key = c].word],
         fault  |-> IF wrong # {} THEN PartFault(parts, Min(wrong))
                    ELSE IF boots = {} THEN "malformed" ELSE NoFault]

-----------------------------------------------------------------------------
(* The ledger: the boot last observed, and the facts with their boots.      *)

EmptyLedger == [observed |-> NoBoot, facts |-> Nowhere]

(* Ledger::observe: a later boot moves the ledger on, an earlier one never. *)
ObserveBoot(ledger, epoch) ==
    IF epoch > ledger.observed THEN [ledger EXCEPT !.observed = epoch] ELSE ledger

(* What is said now replaces what was said about the same control, and      *)
(* nothing else.                                                            *)
Restated(ledger, said) ==
    [observed |-> said.epoch,
     facts    |-> [c \in DOMAIN said.claims \cup DOMAIN ledger.facts |->
                      IF c \in DOMAIN said.claims
                        THEN [claim |-> said.claims[c], epoch |-> said.epoch]
                        ELSE ledger.facts[c]]]

(* Mutant of Establish: a statement from an earlier boot is believed. *)
EstablishAnyBoot(ledger, said) == Restated(ledger, said)

(* Ledger::establish: a statement of an earlier boot is refused. *)
Establish(ledger, said) ==
    IF ledger.observed # NoBoot /\ said.epoch < ledger.observed THEN ledger
    ELSE Restated(ledger, said)

EstablishFault(ledger, said) ==
    IF ledger.observed # NoBoot /\ said.epoch < ledger.observed THEN "replayed" ELSE NoFault

UnknownClaim == [label |-> "UNKNOWN"]

(* Mutant of StandingOf: a claim is carried into the next boot. *)
StandingForever(ledger, control) ==
    IF control \notin DOMAIN ledger.facts THEN UnknownClaim
    ELSE LET fact == ledger.facts[control] IN
         [label |-> "ATTESTED", claim |-> fact.claim, epoch |-> fact.epoch]

(* Ledger::standing: a fact of an earlier boot than the one observed is void*)
StandingOf(ledger, control) ==
    IF control \notin DOMAIN ledger.facts THEN UnknownClaim
    ELSE LET fact == ledger.facts[control] IN
         [label |-> IF ledger.observed # NoBoot /\ fact.epoch < ledger.observed
                    THEN "VOID" ELSE "ATTESTED",
          claim |-> fact.claim, epoch |-> fact.epoch]

-----------------------------------------------------------------------------
(* The record: a header and lines of words. *)

ObservedLine(epoch) == [word |-> "observed", counter |-> epoch, extra |-> FALSE]
FactLine(c, fact) ==
    [word |-> "fact", counter |-> fact.epoch, control |-> c, claim |-> fact.claim]

(* Ledger::render *)
Render(ledger) ==
    <<[word |-> "header"], ObservedLine(ledger.observed)>>
        \o [i \in 1..Cardinality(DOMAIN ledger.facts) |->
              LET c == SetToSeq(DOMAIN ledger.facts)[i] IN FactLine(c, ledger.facts[c])]

Worded(lines, word) == {i \in DOMAIN lines : lines[i].word = word}

(* Ledger::parse, of what the lines say. *)
RecordedLedger(lines) ==
    LET boots == Worded(lines, "observed")
        facts == Worded(lines, "fact")
    IN  [observed |-> IF boots = {} THEN NoBoot ELSE lines[CHOOSE i \in boots : TRUE].counter,
         facts    |-> [c \in {lines[i].control : i \in facts} |->
                          LET i == CHOOSE i \in facts : lines[i].control = c
                          IN  [claim |-> lines[i].claim, epoch |-> lines[i].counter]]]

(* Ledger::parse, of whether it says anything: the header, lines this build *)
(* knows, one boot, one fact about a control, and none of a boot later than *)
(* the one observed.                                                        *)
IsRecord(lines) ==
    /\ lines # << >>
    /\ lines[1].word = "header"
    /\ \A i \in 2..Len(lines) :
          \/ lines[i].word = "blank"
          \/ lines[i].word = "observed" /\ ~lines[i].extra
          \/ /\ lines[i].word = "fact"
             /\ lines[i].counter # NoBoot
             /\ lines[i].claim \in ClaimWords[lines[i].control]
    /\ \A i, j \in Worded(lines, "observed") : i = j
    /\ \A i, j \in Worded(lines, "fact") : lines[i].control = lines[j].control => i = j
    /\ LET ledger == RecordedLedger(lines)
       IN  ledger.observed # NoBoot =>
               \A c \in DOMAIN ledger.facts : ledger.facts[c].epoch <= ledger.observed

-----------------------------------------------------------------------------
(* What a command makes of the record and of the statement it was given.    *)

AbsentRecord == <<[word |-> "absent"]>>
LockedRecord == <<[word |-> "locked"]>>     \* there, and does not open
NoStatement  == <<[key |-> "absent"]>>

(* guest::read, and the first half of Guest::reconcile: a record that is    *)
(* not there is an empty ledger, one that cannot be read is an empty ledger *)
(* and a fault.                                                             *)
LedgerOf(record) ==
    IF record \notin {AbsentRecord, LockedRecord} /\ IsRecord(record)
      THEN RecordedLedger(record) ELSE EmptyLedger

RecordFault(record) ==
    CASE record = AbsentRecord -> NoFault
      [] record = LockedRecord -> "malformed"
      [] OTHER -> IF IsRecord(record) THEN NoFault ELSE "malformed"

(* Guest::reconcile *)
Reconcile(record, env) ==
    LET held == LedgerOf(record)
        said == ParseAttestation(env)
        seen == ObserveBoot(held, said.epoch)
    IN [ledger |-> IF env = NoStatement \/ said.fault # NoFault THEN held
                   ELSE Establish(seen, said),
        hostFault |-> IF env = NoStatement THEN "absent"
                      ELSE IF said.fault # NoFault THEN said.fault
                      ELSE EstablishFault(seen, said),
        recordFault |-> RecordFault(record)]
=============================================================================
