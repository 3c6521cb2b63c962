------------------------------- MODULE Ingress -------------------------------
(***************************************************************************)
(* core/src/ingress.rs, core/src/onion.rs and cli/src/relay.rs: the ways a  *)
(* cell is reached from outside, what each one costs, what the governor     *)
(* leaves running of them, and how long a round trip stands for.            *)
(***************************************************************************)
EXTENDS Condition, Refusals, SequencesExt, TLC

Modes        == {"onion", "relay", "direct", "local only"}
Dependencies == {"none", "commons", "supplier", "carrier"}
Heats        == {"low", "moderate", "high"}
Compromises  == {"recoverable", "permanent", "not applicable"}

Profiles == [dependency : Dependencies, browsers : BOOLEAN, thermal : Heats,
             roams : BOOLEAN, compromise : Compromises, costs : BOOLEAN]

(* Mode::profile; what somebody in the middle sees is told and not decided on *)
Profile(mode) ==
    CASE mode = "onion" ->
            [dependency |-> "commons", browsers |-> FALSE, thermal |-> "high",
             roams |-> TRUE, compromise |-> "permanent", costs |-> FALSE]
      [] mode = "relay" ->
            [dependency |-> "supplier", browsers |-> TRUE, thermal |-> "low",
             roams |-> TRUE, compromise |-> "recoverable", costs |-> TRUE]
      [] mode = "direct" ->
            [dependency |-> "carrier", browsers |-> TRUE, thermal |-> "low",
             roams |-> FALSE, compromise |-> "recoverable", costs |-> FALSE]
      [] mode = "local only" ->
            [dependency |-> "none", browsers |-> TRUE, thermal |-> "low",
             roams |-> TRUE, compromise |-> "not applicable", costs |-> FALSE]

WhoCanEvictYou(dependency) ==
    CASE dependency = "none" -> "nobody"
      [] dependency = "commons" -> "no single party"
      [] dependency = "supplier" -> "the provider"
      [] dependency = "carrier" -> "your ISP"

Publishes(mode) == mode # "local only"

(* disclosures: what is said when a mode is chosen. *)
Disclosures(mode, holdsCeiling) ==
    LET p == Profile(mode)
    IN  {d \in {"heat", "heat unmitigated", "tor clients only", "theft is permanent",
                "can be ended", "costs money"} :
            \/ d = "heat" /\ p.thermal = "high"
            \/ d = "heat unmitigated" /\ p.thermal = "high" /\ ~holdsCeiling
            \/ d = "tor clients only" /\ ~p.browsers
            \/ d = "theft is permanent" /\ p.compromise = "permanent"
            \/ d = "can be ended" /\ p.dependency = "supplier"
            \/ d = "costs money" /\ p.costs}

(* shed_for: what is left running at a level. *)
ShedFor(l, modes) ==
    {mode \in modes :
        CASE l = Normal -> TRUE
          [] l = Derated -> Profile(mode).thermal # "high"
          [] OTHER -> ~Publishes(mode)}

-----------------------------------------------------------------------------
(* Reachability, in seconds of this cell's clock. *)

FreshFor == 15 * 60

Reached(when)    == [is |-> "verified", at |-> when]
NotReached(why)  == [is |-> "unverified", why |-> why]
Reachabilities(times) ==
    {Reached(t) : t \in times} \cup {[is |-> "failed"], NotReached("never observed")}

IsVerified(r, now) == r.is = "verified" /\ r.at <= now /\ now - r.at < FreshFor

(* as_of: a claim that has aged, or comes from ahead of the clock, is none. *)
AsOf(r, now) ==
    IF r.is # "verified" \/ IsVerified(r, now) THEN r
    ELSE NotReached(IF r.at <= now THEN "aged" ELSE "ahead of the clock")

DueIn(r, now) == IF IsVerified(r, now) THEN {FreshFor - (now - r.at)} ELSE {}

TellReachability(r, now) == [says |-> AsOf(r, now).is, stands |-> DueIn(r, now)]

-----------------------------------------------------------------------------
(* The onion's files, and the names that are asked for. *)

HostFlaws == <<"empty", "too long", "hyphen at an end", "dot at an end", "character">>

(* relay::validate_host *)
ValidateHost(flaws) == FirstFlaw(HostFlaws, flaws)

(* relay::startup_lines *)
RelayLines(host, site, vault) ==
    [said |-> Disclosures("relay", FALSE), host |-> host, forwards |-> <<site, vault>>,
     standing |-> NotReached("never observed")]

HostnameFlaws == <<"length", "alphabet", "last letter">>

(* Hostname::parse *)
ParseHostname(flaws) == FirstFlaw(HostnameFlaws, flaws)

(* read_hostname: no file is a daemon that has not published yet. *)
ReadHostname(there, readable, flaws) ==
    CASE ~there -> "not yet"
      [] there /\ ~readable -> "unreadable"
      [] OTHER -> IF ParseHostname(flaws) = Sound THEN "published" ELSE "malformed"

(* build_plan: the site on 80, the vault on 8080, the panel nowhere. *)
Mapping(virtual, target) == [virtual |-> virtual, target |-> target]

BuildPlan(site, vault) == {Mapping(80, p) : p \in site} \cup {Mapping(8080, p) : p \in vault}

(* Plan::torrc: the service, its ports and the two settings beside them. *)
Torrc(dir, mappings) ==
    [socks |-> 0, service |-> dir, ports |-> mappings, introDefence |-> TRUE]

CustodyLines == <<"held by the daemon", "backing it up is being it",
                  "rotating breaks every link", "no revocation">>

(* find_daemon: the first entry of the path that holds a file of that name. *)
FindDaemon(path, files) ==
    LET found == {i \in DOMAIN path : path[i] \in files}
    IN  IF found = {} THEN {} ELSE {path[Min(found)]}

(* prepare: the directory, private, then the configuration; any may fail. *)
Prepare(fails) ==
    LET failed == FirstFlaw(<<"create", "make private", "write">>, fails)
    IN  [ok |-> failed = Sound, wrote |-> failed = Sound]
=============================================================================
