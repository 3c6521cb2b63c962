------------------------------- MODULE Device -------------------------------
(***************************************************************************)
(* The commands of cli/src/main.rs that look at the device they run on, and *)
(* the record `run` keeps of the host a guest lives under (cli/src/guest.rs)*)
(* through the reboots of that host, which end everything as a power cut    *)
(* does.                                                                    *)
(*                                                                         *)
(* A machine is read anew by every command and at every tick, and so is any *)
(* of Machines each time.  What the halt record goes through is in Node, the*)
(* supervisor's history in Supervisor, what serves in Vault and Surfaces.   *)
(* There is one supervisor at a time.                                       *)
(***************************************************************************)
EXTENDS Image, Catalogue, Startup

CONSTANTS
    Machines,       \* what a command may find when it looks
    CommandLines,   \* what is typed to start a supervisor
    Manifests,      \* the manifests `image` is given
    FileSystems,    \* what the platform says of the space that is free
    Setups,         \* what a device has beside its files when `all` starts
    Invocations,    \* what `all` is asked for
    Registrations,  \* capabilities, as somebody registers them one by one
    MaxBoots        \* bound: boots of the host

ASSUME MaxBootsAssumption == MaxBoots \in Nat

(* A port is a u16, and an address need not have a number. *)
ASSUME InvocationsAssumption ==
    \A asked \in Invocations : asked.port \in {NoNumber} \cup 0..PortMax

(* A node that is a number is parsed as an i64, the fields of statvfs are   *)
(* unsigned, and somebody registers capabilities.                           *)
ASSUME MachinesAssumption ==
    \A m \in Machines : \A f \in DOMAIN m.files : m.files[f].is = "number" => m.files[f].n \in Int

ASSUME FileSystemsAssumption ==
    \A fs \in FileSystems : \A v \in fs : v.available \in Nat /\ v.fragment \in Nat

ASSUME RegistrationsAssumption == Registrations \subseteq Seq(Capabilities(STRING))

VARIABLES
    boot,           \* the boot the host is in
    haltRecord,     \* the halt record, as a command that starts now reads it
    guestRecord,    \* the guest record, likewise
    onMedium,       \* the guest records that a cut may leave
    run,            \* the supervisor: where it is, and what it holds
    known           \* history: the latest boot a write that succeeded recorded

deviceVars == <<boot, haltRecord, guestRecord, onMedium, run, known>>

NotRunning == [at |-> "off"]

DeviceInit ==
    /\ boot = 1
    /\ haltRecord \in {"clear", "unreadable"}
    /\ guestRecord = AbsentRecord
    /\ onMedium = {AbsentRecord}
    /\ run = NotRunning
    /\ known = NoBoot

(* What a process may have been told by the host, this boot's or, out of a  *)
(* shell's profile, an earlier one's.                                       *)
SaidIn(b) == {<<[key |-> "epoch", counter |-> b]>>,
             <<[key |-> "epoch", counter |-> b], [key |-> "ceiling", word |-> "holding"]>>}
Garbled  == <<[key |-> "doze", word |-> "exempt"]>>         \* of no boot
Statements == {NoStatement, Garbled} \cup UNION {SaidIn(b) : b \in 1..boot}

(* guest_view *)
GuestView(env) == Reconcile(guestRecord, env)

-----------------------------------------------------------------------------
(* The commands that look and tell. *)

(* status *)
StatusPanel(m, env) == ObservedPanel(m, Supply, haltRecord, GuestView(env))
StatusExit(m, env)  == ExitCode(OverallOf(StatusPanel(m, env)))

(* report *)
ReportOf(m, env, claimed, role) ==
    SurveyReport(m, Supply, haltRecord, Now(0, {}), claimed, FALSE, role, GuestView(env))

-----------------------------------------------------------------------------
(* run. *)

MayStart == haltRecord = "clear"

(* guest::write begins: `recorded` is what is to be written, whether or not *)
(* that succeeds.                                                           *)
WritesRecord(view, env) ==
    [at |-> "writes", env |-> env, recorded |-> Render(view.ledger)]

(* To the first write of the record. *)
RunStarts(env) ==
    /\ run.at = "off"
    /\ \E argv \in CommandLines : "run" \in StartsWith(Args(argv), MayStart)
    /\ run' = WritesRecord(GuestView(env), env)
    /\ UNCHANGED <<boot, haltRecord, guestRecord, onMedium, known>>

(* A tick: a halt is recorded and ends it; otherwise the host and the record*)
(* are read again, and what changed is written.                             *)
RunLooks(m) ==
    /\ run.at = "looks"
    /\ IF ObservedLevel(ReadBattery(m, Supply)) = Halt
         THEN /\ haltRecord' = "halted"
              /\ run' = NotRunning
         ELSE /\ UNCHANGED haltRecord
              /\ run' = IF Render(GuestView(run.env).ledger) # run.recorded
                        THEN WritesRecord(GuestView(run.env), run.env) ELSE run
    /\ UNCHANGED <<boot, guestRecord, onMedium, known>>

RunGoes(to) == run' = [run EXCEPT !.at = to]

(* The temporary, which nobody but its writer reads, is written and flushed *)
(* before it takes the record's name.                                       *)
RunRenames ==
    /\ run.at = "writes"
    /\ guestRecord' = run.recorded
    /\ onMedium' = onMedium \cup {run.recorded}
    /\ RunGoes("flushes directory")
    /\ UNCHANGED <<boot, haltRecord, known>>

Recorded == known' = LedgerOf(guestRecord).observed

(* Mutant of RunFlushesDirectory: the directory is left to itself. *)
RunFlushesNothing ==
    /\ run.at = "flushes directory"
    /\ Recorded
    /\ RunGoes("looks")
    /\ UNCHANGED <<boot, haltRecord, guestRecord, onMedium>>

RunFlushesDirectory ==
    /\ run.at = "flushes directory"
    /\ onMedium' = {guestRecord}
    /\ Recorded
    /\ RunGoes("looks")
    /\ UNCHANGED <<boot, haltRecord, guestRecord>>

(* A write that fails is told, and the supervisor goes on. *)
RunFails ==
    /\ run.at \in {"writes", "flushes directory"}
    /\ RunGoes("looks")
    /\ UNCHANGED <<boot, haltRecord, guestRecord, onMedium, known>>

(* Its ticks are over, the outage ends it, or somebody does. *)
RunEnds ==
    /\ run.at # "off"
    /\ run' = NotRunning
    /\ UNCHANGED <<boot, haltRecord, guestRecord, onMedium, known>>

-----------------------------------------------------------------------------
(* The world. *)

HostReboots ==
    /\ boot < MaxBoots
    /\ boot' = boot + 1
    /\ guestRecord' \in onMedium
    /\ onMedium' = {guestRecord'}
    /\ run' = NotRunning
    /\ UNCHANGED <<haltRecord, known>>

(* Somebody spoils the guest record: what it knew is lost. *)
RecordSpoils ==
    /\ guestRecord' \in {LockedRecord, <<[word |-> "nonsense"]>>}
    /\ onMedium' = {guestRecord'}
    /\ known' = NoBoot
    /\ UNCHANGED <<boot, haltRecord, run>>

(* inspect, and a halt of `all` (Node). *)
StandingChanges ==
    /\ haltRecord' \in {"clear", "halted"}
    /\ UNCHANGED <<boot, guestRecord, onMedium, run, known>>

DeviceNext ==
    \/ \E env \in Statements : RunStarts(env)
    \/ \E m \in Machines : RunLooks(m)
    \/ RunRenames
    \/ RunFlushesDirectory
    \/ RunFails
    \/ RunEnds
    \/ HostReboots
    \/ RecordSpoils
    \/ StandingChanges

DeviceSpec == DeviceInit /\ [][DeviceNext]_deviceVars

-----------------------------------------------------------------------------
(* Properties. *)

Guests == {m \in Machines : UnderAHost(Detect(m).verdict)}

(* Once `run` has recorded a boot of the host, a guest's report, whatever   *)
(* it was started with, tells nothing as attested that the host said in an  *)
(* earlier one: not after a reboot, not after a write that failed or was    *)
(* cut.  (Guest::reconcile, Ledger::standing, guest::write, survey::report) *)
ClaimsAreOfTheLatestBoot ==
    known # NoBoot => \A m \in Guests, env \in Statements :
        \A lines \in ReportOf(m, env, Unconfigured, {}).guest : \A c \in Mediated :
            LET told == lines.standings[c]
            IN  told.label = "ATTESTED" => told.epoch >= known

(* What `status` makes of a device that is its own host: anything short of  *)
(* unsafe, only if no halt stands on record, every node the cell must have  *)
(* reads as a number, the cell is below the first threshold, and there is a *)
(* charge control.                                                          *)
PanelIsEarned(m, exit) ==
    \/ /\ haltRecord = "clear"
       /\ \A i \in DOMAIN Needed : FileAt(m, NodeOf(Supply, Needed[i])).is = "number"
       /\ FileAt(m, NodeOf(Supply, "temp")).n < 10 * WarnTemp
       /\ \E k \in Kinds : Exists(m, NodeOf(Supply, ControlNode(k)))
    \/ exit = ExitUnsafe

TempBelow ==
    [idle |-> {}, light |-> {HardStopTemp}, sustained |-> {CriticalTemp}, heavy |-> {WarnTemp}]

(* What `catalogue` offers was measured, all of it, and fits. *)
OfferIsEarned ==
    \A m \in Machines, fs \in FileSystems :
        LET rows == CatalogueReport(m, Supply, fs).rows
        IN  \A i \in {i \in DOMAIN rows : rows[i].is = "offered"} :
                LET wants == rows[i].wants.envelope
                    cell  == FileAt(m, NodeOf(Supply, "temp"))
                IN  /\ FileAt(m, MemInfo).is = "number" /\ FileAt(m, MemInfo).n >= 1024 * wants.memory
                    /\ \E v \in fs : v.available * v.fragment >= 1024 * wants.storage
                    /\ cell.is = "number" /\ \A t \in TempBelow[wants.thermal] : cell.n < 10 * t
                    /\ Detect(m).verdict.is = "established"

(* What `image` calls verified was read, all of it, and is what the manifest*)
(* declares; and a manifest that is written out reads back as it was.       *)
MatchIsEarned ==
    \A m \in Machines, manifest \in Manifests :
        LET read  == ParseManifest(manifest)
            said  == read.said
            of(p) == {FileAt(m, NodeOf(TreeRoots[i], p)) : i \in DOMAIN TreeRoots}
        IN  /\ read.error = NoError => ParseManifest(RenderManifest(said)) = read
            /\ ImageReport(m, manifest).exit = ExitProtected =>
                /\ SaysAny(m, OsRelease, {said.kernel})
                /\ \E f \in of(CompatibleProperty) : f.is = "text" /\ said.compatible \in f.words
                /\ \E f \in of(ChargeVoltage) :
                      f.is = "number" /\ Apart(f.n, said["max-charge-mv"]) <= ToleranceMv

(* Whatever is registered, in any order: what the registry then holds has   *)
(* one meaning, nothing about safety in it gives way quietly, and a higher  *)
(* tier is offered no less.                                                 *)
RegistryIsSound ==
    \A asked \in Registrations :
        LET held == Registered(asked)
        IN  /\ \A c, d \in held : c.id = d.id => c = d
            /\ \A c \in held : c.class = "safety" => c.onAbsent = "refuse"
            /\ ValidateRegistry(held) = {}
            /\ \A t, u \in Tiers : AtLeast(u, t) =>
                  AvailableAt(held, {t}) \subseteq AvailableAt(held, {u})

(* No command says better of a device than what it read of it: not status,  *)
(* which a halt on record overrules whatever the cell reads by then; not the*)
(* catalogue, not the image.  (report::observed, exit_code, Entry::judge,   *)
(* image::run)                                                              *)
GoodWordIsEarned ==
    /\ OfferIsEarned
    /\ MatchIsEarned
    /\ RegistryIsSound
    /\ \A m \in Machines \ Guests : PanelIsEarned(m, StatusExit(m, NoStatement))

(* `all` announces what it starts (StartIsAnnounced), on whatever device it *)
(* is started and whatever it is asked for.                                 *)
StartsAreAnnounced ==
    \A m \in Machines, setup \in Setups, asked \in Invocations :
        StartIsAnnounced([machine |-> m, store |-> setup.store, path |-> setup.path,
                          daemons |-> setup.daemons, fails |-> setup.fails], asked)
=============================================================================
