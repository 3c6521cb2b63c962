----------------------------- MODULE MCCommands -----------------------------
(***************************************************************************)
(* Four parts of a cell that share no state, one at a time: the store of    *)
(* credentials and the commands that change it; connections to its          *)
(* surfaces; the commands that look at the device, and the guest record;    *)
(* and a fleet.  `part` says which one moves.                               *)
(***************************************************************************)
EXTENDS Enrolment, Answers, Device, Fleet

VARIABLE part

Parts == {"credentials", "answers", "device", "fleet"}

MCInit ==
    /\ part \in Parts
    /\ EnrolInit /\ AnswersInit /\ DeviceInit /\ FleetInit
    /\ part # "credentials" => directory.store # NoFile
    /\ part # "answers" => here = Elsewhere
    /\ part # "device" => haltRecord = "clear"

MCNext ==
    /\ UNCHANGED part
    /\ \/ part = "credentials" /\ EnrolNext /\ UNCHANGED <<answerVars, deviceVars, fleetVars>>
       \/ part = "answers" /\ AnswersNext /\ UNCHANGED <<enrolVars, deviceVars, fleetVars>>
       \/ part = "device" /\ DeviceNext /\ UNCHANGED <<enrolVars, answerVars, fleetVars>>
       \/ part = "fleet" /\ FleetNext /\ UNCHANGED <<enrolVars, answerVars, deviceVars>>

MCSpec == MCInit /\ [][MCNext]_<<part, enrolVars, answerVars, deviceVars, fleetVars>>

Interchangeable == Permutations(Sessions) \cup Permutations(Devices)

(* The properties of Device, where the device is what moves: elsewhere they *)
(* are what they were at the start.                                         *)
DeviceClaimsStand == part = "device" => ClaimsAreOfTheLatestBoot
DeviceWordStands  == part = "device" => GoodWordIsEarned
DeviceStartStands == part = "device" => StartsAreAnnounced

-----------------------------------------------------------------------------
(* Machines: a phone, and what may be wrong with it. *)

MCPhone ==
    [files |->
        (NodeOf(Supply, "temp") :> Number(250))
        @@ (NodeOf(Supply, "charge_full") :> Number(3600))
        @@ (NodeOf(Supply, "charge_full_design") :> Number(4000))
        @@ [f \in {NodeOf(Supply, Nodes[i]) : i \in DOMAIN Nodes} |-> Number(50)]
        @@ (NodeOf(Supply, "charge_control_end_threshold") :> Number(60))
        @@ ("/system/build.prop" :> Text({}))
        @@ ("/www" :> Directory) @@ ("/vault" :> Directory)
        @@ ("/proc/self/status" :> Number(0))
        @@ (MemInfo :> Number(1024 * 4096))
        @@ (OsRelease :> Text({"6.6"}))
        @@ (NodeOf(TreeRoots[1], CompatibleProperty) :> Text({"qcom,"}))
        @@ (NodeOf(TreeRoots[2], ChargeVoltage) :> Number(4400)),
     env |-> [v \in {} |-> ""], uid |-> 0]

With(m, path, file)  == [m EXCEPT !.files = (path :> file) @@ @]
Without(m, paths)    == [m EXCEPT !.files = [f \in DOMAIN m.files \ paths |-> m.files[f]]]
Heated(m, deci)      == With(m, NodeOf(Supply, "temp"), Number(deci))
Charged(m, mv)       == With(m, NodeOf(TreeRoots[2], ChargeVoltage), Number(mv))

MCMachines ==
    { MCPhone,
      Charged(Heated(MCPhone, 449), 4426),
      Charged(Heated(MCPhone, 450), 4374),
      Heated(MCPhone, 600),
      Without(MCPhone, {NodeOf(Supply, "temp")}),
      [With(MCPhone, "/sys/hypervisor/type", Text({"kvm"}))
          EXCEPT !.env = (AssertionEnv :> "android-guest")],
      Without(With(MCPhone, OsRelease, Locked),
              {NodeOf(Supply, "charge_control_end_threshold"), MemInfo, "/system/build.prop",
               NodeOf(TreeRoots[1], CompatibleProperty)}) }

Word(text) == [text |-> text, dashed |-> FALSE, number |-> NoNumber, flaws |-> {}]

MCCommandLines == {<<Word("run")>>, <<Word("run"), Word("status")>>}

MCManifest ==
    <<Header, Line("name", <<"phone">>), Line("version", <<"1">>), Line("kernel", <<"6.6">>),
      Line("compatible", <<"qcom,">>), Line("max-charge-mv", <<4400>>)>>

MCManifests ==
    { MCManifest,
      [MCManifest EXCEPT ![4] = Line("kernel", <<"6.7">>)],
      SubSeq(MCManifest, 1, 5),
      Append(MCManifest, Line("max-charge-mv", <<4426>>)),
      <<Header, BlankLine>> \o MCManifest,
      << >> }

(* Half a fragment too few and just enough for 8 GiB, none, and too many. *)
MCFileSystems ==
    { {}, {[available |-> 2097152, fragment |-> 4]}, {[available |-> 2097151, fragment |-> 4]},
      {[available |-> 1, fragment |-> 0]}, {[available |-> 1048576, fragment |-> 32]} }

MCSetup(store, daemons, fails) ==
    [store |-> store, path |-> <<"/bin/tor", "/usr/bin/tor">>, daemons |-> daemons, fails |-> fails]

MCSetups ==
    { MCSetup(Empty, {"/usr/bin/tor"}, {}),
      MCSetup(Empty, {}, {}),
      MCSetup(Empty, {"/bin/tor", "/usr/bin/tor"}, {"make private"}),
      MCSetup([Empty EXCEPT !.why = "duplicate"], {"/bin/tor"}, {}) }

(* A folder to publish, one to store in, or both; some of them not there. *)
MCInvocations ==
    {asked \in [port : {NoNumber, 0, 8080, 65533, 65534}, site : {{}, {"/www"}, {"/elsewhere"}},
                vault : {{}, {"/vault"}}, onion : {{}, {"/onion"}}, relay : {{}, {"relay.example"}}] :
        asked.site \cup asked.vault # {}}

MCCapability(id, floor, class, onAbsent) ==
    [id |-> id, floor |-> floor, class |-> class, onAbsent |-> onAbsent,
     applies |-> FALSE, rationale |-> TRUE]

MCRegistrations ==
    LET some == {MCCapability(id, floor, class, onAbsent) :
                    id \in {"", "cell"}, floor \in {"T0", "T2"},
                    class \in {"safety", "observe"}, onAbsent \in Dispositions}
    IN  {<< >>} \cup {<<c>> : c \in some} \cup {<<c, d>> : c \in some, d \in some}
            \cup {<<c, [d EXCEPT !.id = "radio", !.applies = TRUE]>> : c \in some, d \in some}

-----------------------------------------------------------------------------
(* Connections. *)

Root == Segment("empty", "", "", {})
Plainly(name) == Segment("plain", name, "txt", {})

MCSite(pages) ==
    [files |-> [f \in pages |-> Text({})] @@ ("/www" :> Directory), env |-> << >>, uid |-> 0]

MCWorld(level, stage, quota, stored, pages) ==
    [level |-> level, stage |-> stage, quota |-> quota, stored |-> stored,
     entries |-> <<[device |-> "d", secret |-> "s"]>>, machine |-> MCSite(pages), site |-> "/www"]

MCElsewhere == MCWorld(Normal, Serving, {Quota(0, 2)}, {}, {})

(* Every condition of the device, and every fill of a vault that takes files*)
MCWorlds ==
    LET full == {"/www/index.html", "/www/mail", "/www/d/x"}
    IN  {MCWorld(level, stage, {Quota(0, 2)}, stored, full) :
            level \in {Normal, Derated, Protect}, stage \in {Serving, Announced, Quiesced},
            stored \in {{}, {"mail"}}}
        \cup {MCWorld(Normal, Serving, quota, stored, full) :
                 quota \in {{}, {Quota(2, 2)}}, stored \in {{}, {"mail"}}}
        \cup {MCElsewhere}

RequestLine(verb, path) ==
    [long |-> FALSE, parted |-> TRUE, verb |-> verb, slash |-> TRUE, odd |-> FALSE, path |-> path]

MCRequestLines ==
    {RequestLine(verb, <<Plainly("mail")>>) : verb \in Methods}
    \cup {RequestLine(verb, <<Root>>) : verb \in {"GET", "PUT", "BREW"}}
    \cup {RequestLine("GET", path) : path \in
            {<<Plainly("d")>>, <<Segment("hidden", ".git", "", {})>>, <<Segment("up", "..", "", {})>>,
             <<Root, Segment("plain", "mail ", "", {"trailing space or dot"})>>}}
    \cup {[RequestLine("GET", <<Root>>) EXCEPT !.long = TRUE]}

Bearer(secret) == [is |-> "authorization", bearer |-> secret]
BodyOf(n)      == [is |-> "content-length", n |-> n]
Stream(headers, sent) == [headers |-> headers, fails |-> FALSE, sent |-> sent]

MCStreams ==
    { Stream(<< >>, 0),
      Stream(<<Bearer({"s"}), [is |-> "other"]>>, 0),
      Stream(<<Bearer({"t"}), BodyOf(1)>>, 1),
      Stream(<<Bearer({"s"}), BodyOf(1)>>, 1),
      Stream(<<Bearer({"s"}), Bearer({}), BodyOf(3)>>, 3),
      Stream(<<Bearer({"s"}), BodyOf(2)>>, 1),
      Stream(<<BodyOf(NotANumber)>>, 0),
      Stream(<<[is |-> "no colon"]>>, 0) }

MCStorageOutcomes == {"done", "conflict", "failed"}
=============================================================================
