-------------------------------- MODULE Args --------------------------------
(***************************************************************************)
(* cli/src/args.rs: what a command line asks for, or why it is refused, and *)
(* the one question cli/src/main.rs asks of every command before it starts. *)
(*                                                                         *)
(* A word is [text, dashed, number, flaws]: what it says, whether it begins *)
(* with two hyphens, the number it parses as (NoNumber if none), and what a *)
(* host name of it would be refused for.                                    *)
(***************************************************************************)
EXTENDS Ingress

NoNumber == -1

Commands == {"status", "run", "serve", "site", "vault", "all", "inspect", "report", "image",
             "catalogue", "profile", "enrol", "devices", "revoke", "help", "version"}

(* Words that name a command by another name. *)
Aliases == [enroll |-> "enrol"] @@ ("--help" :> "help") @@ ("-h" :> "help")
              @@ ("--version" :> "version") @@ ("-V" :> "version")

CommandNamed(text) == IF text \in DOMAIN Aliases THEN Aliases[text] ELSE text

(* Command::serves_traffic: the commands a halt refuses. *)
ServesTraffic(command) == command \in {"site", "vault", "all", "run"}

ValueOptions ==
    {"--supply-dir", "--bind", "--dir", "--site-dir", "--vault-dir", "--onion-dir",
     "--replica-evidence", "--relay-via", "--fleet-role", "--store", "--halt-record",
     "--guest-record", "--manifest", "--device", "--quota", "--ceiling", "--ticks",
     "--assume-outage"}

(* Where a value that was not given comes from; a home directory is found.  *)
DefaultStore == "~/.vayucell/devices"
Defaults == ("--supply-dir" :> "/sys/class/power_supply/battery") @@ ("--ceiling" :> "60")
               @@ ("--bind" :> "127.0.0.1:8080") @@ ("--store" :> DefaultStore)
               @@ ("--quota" :> "1073741824") @@ ("--halt-record" :> "~/.vayucell/halt")
               @@ ("--guest-record" :> "~/.vayucell/guest")

FleetRoles == {"edge", "store", "compute", "witness"}

(* What each option asks of its value. *)
ValueRefused(option, word) ==
    \/ option = "--relay-via" /\ ValidateHost(word.flaws) # Sound
    \/ option = "--fleet-role" /\ word.text \notin FleetRoles
    \/ option \in {"--quota", "--ticks", "--assume-outage"} /\ word.number = NoNumber
    \/ option = "--ceiling" /\ word.number \notin 0..100

Sights == ("--lies-flat" :> "lies flat") @@ ("--deformed" :> "deformed")

NotAwaited == ""

Nothing == [command |-> {}, given |-> [o \in {} |-> ""], seen |-> {},
            awaits |-> NotAwaited, error |-> "none"]

Refused(acc, error) == [acc EXCEPT !.error = error]

(* set_command: never the last of two. *)
SetCommand(acc, command) ==
    IF acc.command # {} THEN Refused(acc, "two commands") ELSE [acc EXCEPT !.command = {command}]

(* set_inspection: never the last of two that differ. *)
SetInspection(acc, sight) ==
    IF acc.seen \ {sight} # {} THEN Refused(acc, "opposite sights") ELSE [acc EXCEPT !.seen = {sight}]

(* value_after: a value is the next word, and never an option. *)
TakeValue(acc, word) ==
    IF word.dashed THEN Refused(acc, "no value")
    ELSE IF ValueRefused(acc.awaits, word) THEN Refused(acc, "bad value")
    ELSE [acc EXCEPT !.given = (acc.awaits :> word.text) @@ @, !.awaits = NotAwaited]

TakeWord(acc, word) ==
    CASE acc.error # "none" -> acc
      [] acc.error = "none" /\ acc.awaits # NotAwaited -> TakeValue(acc, word)
      [] OTHER ->
            IF CommandNamed(word.text) \in Commands THEN SetCommand(acc, CommandNamed(word.text))
            ELSE IF word.text \in DOMAIN Sights THEN SetInspection(acc, Sights[word.text])
            ELSE IF word.text \in ValueOptions THEN [acc EXCEPT !.awaits = word.text]
            ELSE Refused(acc, "unrecognised")

ReadWords(argv) ==
    LET read == FoldLeft(TakeWord, Nothing, argv)
    IN  IF read.error = "none" /\ read.awaits # NotAwaited THEN Refused(read, "no value")
        ELSE IF read.error = "none" /\ read.command = {} THEN Refused(read, "no command")
        ELSE read

(* The directories: --dir stands for whichever was not named on its own. *)
DirFor(given, own) ==
    IF own \in DOMAIN given THEN {given[own]}
    ELSE IF "--dir" \in DOMAIN given THEN {given["--dir"]} ELSE {}

(* Which commands take an option, where not every command does. *)
TakenBy ==
    ("--onion-dir" :> {"all"}) @@ ("--relay-via" :> {"all"}) @@ ("--manifest" :> {"image"})
        @@ ("--replica-evidence" :> {"vault", "all", "report", "status"})
        @@ ("--fleet-role" :> {"report", "status", "all"})
        @@ ("--guest-record" :> {"report", "status", "serve", "all", "run"})

Misused(read) == {o \in DOMAIN read.given \cap DOMAIN TakenBy : read.command \cap TakenBy[o] = {}}

(* What a command cannot do without. *)
Unsaid(read) ==
    LET given == DOMAIN read.given
        does(c) == c \in read.command
    IN  {w \in {"dir", "device", "sight", "manifest"} :
            \/ w = "dir" /\ does("vault") /\ DirFor(read.given, "--vault-dir") = {}
            \/ w = "dir" /\ does("site") /\ DirFor(read.given, "--site-dir") = {}
            \/ w = "dir" /\ does("all") /\ DirFor(read.given, "--site-dir") = {}
                                        /\ DirFor(read.given, "--vault-dir") = {}
            \/ w = "device" /\ (does("enrol") \/ does("revoke")) /\ "--device" \notin given
            \/ w = "sight" /\ does("inspect") /\ read.seen = {}
            \/ w = "manifest" /\ does("image") /\ "--manifest" \notin given}

(* parse: the words, and then what the whole of them comes to.  Which of    *)
(* several misuses is told first is left out: any of them refuses.          *)
ParseArgs(argv) ==
    LET read == ReadWords(argv)
    IN  IF read.error # "none" THEN read
        ELSE IF Unsaid(read) # {} \/ Misused(read) # {} THEN Refused(read, "misused")
        ELSE read

Args(argv) ==
    LET read == ParseArgs(argv)
    IN  [command |-> read.command, options |-> read.given @@ Defaults, seen |-> read.seen,
         siteDir |-> DirFor(read.given, "--site-dir"),
         vaultDir |-> DirFor(read.given, "--vault-dir"), error |-> read.error]

PortMax == 65535

(* Mutant of AdjacentPorts: room for two is taken for room for three. *)
AdjacentPortsWrap(bind) ==
    IF bind = NoNumber \/ bind = 0 \/ bind + 1 > PortMax THEN {} ELSE bind..(bind + 2)

(* adjacent_ports: three from a numeric address, counted and never wrapped. *)
AdjacentPorts(bind) ==
    IF bind = NoNumber \/ bind = 0 \/ bind + 2 > PortMax THEN {} ELSE bind..(bind + 2)

-----------------------------------------------------------------------------
(* main: a command line that is refused does nothing, and a command that    *)
(* would serve is refused while the halt stands, before it binds or writes. *)

StartsWith(a, mayServe) ==
    {c \in a.command : a.error = "none" /\ (ServesTraffic(c) => mayServe)}
=============================================================================
