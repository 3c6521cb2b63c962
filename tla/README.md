# VayuCell in TLA+

VayuCell turns a phone into a small server and puts a battery safety governor in charge of it. This
directory holds TLA+ models of the parts of it that run concurrently, persist something or have to
survive a power cut, the TLC configurations that check them, and TLAPS proofs of what matters most of each.

Every definition is translated from the Rust source. `PROJECT.json` names, for each definition, the
lines it stands for.

## The system

| Component | State it keeps | Operations | Talks to |
|---|---|---|---|
| **Governor** (`core/src/governor.rs`, `battery.rs`, `sampler.rs`) | a level (Normal < Derated < Protect < Halt), a count of consecutive unreadable ticks | `observe`, `observe_unreadable`, `enforce`, `after_inspection`, `may_serve`, `cadence_for` | called by the supervisor on every tick; built afresh for one request and for one inspection |
| **Outage ladder** (`core/src/shed.rs`) | a rung (Serving, Announced, Shed, Quiesced, ShuttingDown), a history of rungs | `on_tick`, `restored` | called by the supervisor |
| **Supervisor** (`core/src/runtime.rs`) | one governor, one ladder | `tick` | reads the cell and the ceiling node; `cli/src/main.rs` loops over it |
| **Node process** (`cli/src/main.rs`, `cell.rs`) | the supervisor behind a mutex (`Governed`), a scope of threads | `all`, `run`, `inspect`, `refuse_if_halted` | the surfaces' workers ask `Governed::context` |
| **Halt record** (`core/src/halt.rs`, `cli/src/halted.rs`) | one file | `read`, `record`, `clear` | written when the supervisor stops at Halt, read at every start, cleared by a person |
| **Vault** (`core/src/vault.rs`, `serve.rs`, `cli/src/listen.rs`) | a flat directory | PUT, GET, DELETE, listing | eight workers per surface, unsynchronised |
| **Surfaces** (`cli/src/listen.rs`, `main.rs`) | a listener and eight workers each | bind, accept, answer, time out | joined by one scope together with the supervisor |
| **Onion loop** (`cli/src/onion.rs`) | `LIVE`, `SHUTTING_DOWN`, and five local variables | `supervise`, `start`, `stop`, `begin_shutdown` | a tor daemon, which is another process; the thread that exits |
| **Credentials** (`core/src/auth.rs`, `cli/src/enrol.rs`) | one file | `enrol`, `revoke`, `load`, `verify` | processes of the operator, and every start of a vault |
| **Requests** (`core/src/serve.rs`, `site.rs`, `csp.rs`, `headers.rs`) | none | the head and body read, the route of each surface, the response | the vault's directory, the published one, `Governed::context` |
| **Guest record** (`core/src/guest.rs`, `cli/src/guest.rs`) | one file | `reconcile`, `write` | the Android host that owns the guest, by its statements and its reboots |
| **Companion** (`sync/`) | a folder, a receipt file | plan, push, replicate, drill | the vault's HTTP surface |
| **Replica evidence, durability** (`core/src/replica.rs`, `durability.rs`) | none | parse, upsert, judge a dated claim | the companion and the vault's start |
| **Reports** (`panel`, `survey`, `report`, `tier`, `wear`, `storage`, `image`, `catalogue`, `thermal`, `capability`, `profile`, `statvfs`, `picker`) | none | `status`, `report`, `image`, `catalogue` | the machine: sysfs, `/proc`, the halt record, the guest record |
| **Command line and start** (`cli/src/args.rs`, `main.rs`, `ingress.rs`, `relay.rs`) | none | parse, refuse, announce, plan an onion | everything above |
| **Fleet** (`core/src/fleet.rs`) | an upgrade plan | `advance`, `record_returned`, `can_accept`, seal and verify | nothing in the program calls it yet |

What makes them hard:

- **Order inside a tick.** Enforcing the ceiling and weighing a reading are joined by `or_else`; an outage
  and a halt of the same tick take different exits.
- **Crashes.** The halt record, the vault, the credential store and the guest record are files written in
  several calls; power may fail between any two, and any may return an error.
- **Threads.** A request reads the cell, then the governor; two workers write one directory with no lock;
  the onion loop and the exiting thread share `LIVE`.
- **Time.** Ticks may be late, the onion loop backs off, silent connections stall workers, a fleet's clock may go back.
- **Refusals in a fixed order.** Who asks, the state of the cell, a name, the room left and the storage are asked
  one after another, and each answer tells something; the reports ask the same machine along different paths.

What each must satisfy is the list of properties below; what each is exposed to is `hazards` in
`PROJECT.json`, line by line.

## The modules

```
Condition            levels, rungs, what they permit of a read and of a write
  Battery            one reading of the cell
  Governor           Battery + Condition: escalation, the ceiling's check, the cadence
  ShedLadder         Condition: the outage ladder
    Supervisor       Governor + ShedLadder: the tick, and the device around it
      SupervisorProofs
      Node           Supervisor + process, workers, halt record, person, power cuts
        HaltLatch    (abstract) what the halt record is for
        NodeProofs
  Vault              Condition + workers, directory, objects, power cuts
    AtomicStore      (abstract) whole files under names
    VaultProofs
Surfaces             listeners, their pools, the scope
  SurfacesProofs
Mirror               the companion's commands, the folder, the vault they see, the receipt
  MirrorProofs

Refusals             the first flaw of a name, a secret or a path
  Credentials        the store of credentials, parsed; whom a secret authenticates
    Enrolment        enrol and revoke as processes over that store, kills, power cuts
      EnrolmentProofs
  Ingress            Condition + Refusals: ways in, the onion's plan and daemon, the relay
    Onion            the loop, LIVE, the exiting thread, the daemons
      OnionProofs
    Args             a command line and what it asks for
Machine              Battery + files, environment, user; the nodes read of the cell
  Site               what a path of the published directory names
    Http             Site + Credentials + Policy: a connection, from its line to its answer
      Answers        connections to the three surfaces, one after another
  Tier, Storage      which kind of device this is; what it tells of its storage
Policy               content security policies and the headers beside them
Guest                the host's statements, the ledger, the record of it
Panel                Tier + Storage + Governor + Guest: the rows, the exit code, the report
  Catalogue          thermal class, registry, what is measured, what is offered
  Image              a manifest and what of it this machine bears out
Startup              Args + Site + Credentials: what `all` refuses, announces and serves
  Device             Image + Catalogue + Startup: the commands that look, and `run`'s guest record
Fleet                quorum, rolling upgrades, sealed verdicts
CommandsProofs       theorems of Answers, Device and Fleet
```

`MCSupervisor`, `MCNode`, `MCVault` and `MCMirror` give the structured constants (readings, clients) small values.
`MCServices` puts `Onion` beside `Surfaces`, and `MCCommands` puts `Enrolment`, `Answers`, `Device` and `Fleet`
beside each other. Those parts share no state, so nothing is gained by interleaving them: the variable `half` or
`part` says, once per behaviour, which one moves.
Each operator introduced as a *mutant* is a plausible bug in the definition that follows it. Nothing uses
it in the models; substituting it for that definition must make a named property fail, which is how we
know that the property depends on the code (`mutants` in `PROJECT.json`).

**Governor, ShedLadder: values.** In the source a `Governor` is a struct with methods; here it is a record and the
methods are functions from record to record, so that `Supervisor` can keep one while a request (`ObservedLevel`)
and an inspection (`AfterInspection`) use one and drop it. Temperatures are tenths of a degree, truncated toward
zero as Rust's division does. Health is unknown when a capacity is nonsense or its percentage would overflow `i64`
(`IntMax` stands for the width).

**Supervisor: `runtime.rs`.** `TickReadable` and `TickUnreadable` are the two arms of `tick`, each with
everything the arm does: governor, cadence, ladder. `Governed` keeps the `or_else`. The rest of `Next` is
the device: nodes change, mains comes and goes, any amount of time passes between two ticks. `seen` is a
history variable: what the readings so far have shown.

**Node: `main.rs`, `cell.rs`, `halted.rs`.** `step` says where the supervisor thread stands. `halted::record`
is one action per call that can fail or be cut short (write, flush, rename, flush of the directory). The
record has a volatile view (`record`) and one on the medium (`medium`); a power cut leaves either, and
bytes never flushed may come back torn. A request is two steps, as in `Governed::context`: a reading
outside the lock (`RequestObserves`), then level and rung under it (`RequestAnswers`). `Inspect` is the
separate process of `vayucell inspect`. As in `all`, an outage is assumed from the start or never.

**Vault: `listen.rs`, `vault.rs`, `serve.rs`.** A worker is idle, reading, or at one of the calls of
`write_durably`. A file is an *object* a name refers to, because that is what makes sharing a temporary
matter: opening truncates the object for everyone, renaming goes by name. `medium` holds, per name, every
state of its two entries since the last flush of the directory; a power cut picks one per name and may
empty unflushed objects.

**Onion: `onion.rs`.** What its plan, its daemon's address and shedding are comes from `Ingress`. `at` is the
program counter of `supervise`: `CheckShutdown`, `NoticeExit`, then `TooHot`, or `Decide` with `Spawn`/`SpawnFails` and
`Store`, or with `Watch` and one of `Publish`, `NotPublished`, `Rest`; then `Sleep`. What `begin_shutdown` may come
between is separate. So `Spawn` and `Store` are; and so are the two halves of `stop`, which holds the lock of `LIVE`
only to take what is there (`LoopTakes`, `StopDaemon`, both `Take`) and kills it afterwards (`Leave`, `Shed`, `Abandon`,
`KillDaemon`, all `Kill`). `taken` is what each thread has in hand between the two. `level` changes freely, which
includes everything `Governed::context` can say. Time is in polls.

**Surfaces: `main.rs`, `listen.rs`.** Listener threads bind or do not; a worker takes the oldest connection;
a silent one stalls it for the read timeout. There is no action by which the process notices a stopped
listener, because the code has none that is reachable (see *Disagreements*).

**Mirror: `sync/`, `replica.rs`.** `run` is the command that is running: its listing, its walk and what it has
still to do, in the order of names. Every request is a step, and so is every operation on a mirrored file, between which
devices change the vault and the person changes the folder; `RunStops` may come at any of them. The evidence
alone is read, changed and moved into place in one step (`WritesReceipt`). The
vault is the store of whole files that `AtomicStore` describes, with a listing that is taken at once. Names carry
their temporary (`TempOf`), because the temporary of one file may be the name of another. The evidence
file is a file like any other, in the folder or not; `Recovery` and `Backup` are what the cell makes of it.
`had` (what the vault held since the listing), `edited` and `completed` are history variables.

**Enrolment: `enrol.rs`, `auth.rs`.** The store is a sequence of pieces (a name, the gap, a secret, the end of the
line), because `enrol` writes each with a call of its own and flushes none. `revoke` is truncate, rewrite, flush,
rename, flush of the directory, which `RevokeNamesNoDirectory` leaves out as the code does for a store named without
one. A command may be killed at any of them; a power cut leaves any directory since its
last flush, and of each file a beginning that holds at least what was flushed, half a secret included. `Loaded` is
what a server that starts then reads: the operators of `Credentials`, which parse pieces as `parse_store` parses
lines.

**Answers: `serve.rs`, `site.rs`, `csp.rs`, `headers.rs`, `handle` of `listen.rs`.** `Http` is a function from a
request line, a stream of headers and body, a surface and the state of the cell to what is sent and what is stored;
it keeps the order of every refusal. `Answers` makes connections one after another; what its property compares is
the same connection to another cell (`Elsewhere`). The file operations under a PUT are one step here and many in
`Vault`.

**Device: the rest of `main.rs`, `report.rs`, `survey.rs`, `panel.rs`, `guest.rs`, `image.rs`, `catalogue.rs`, and
what they use.** A machine is its files, its environment and its user; the commands that look are operators on a
machine, and `status`, `report`, `image` and `catalogue` read the same one along different paths. The state is what
lasts: the halt record, the guest record with what of it is on the medium, and how often the host has booted.
`RunStarts`, `RunLooks`, `RunRenames`, `RunFlushesDirectory` are `run` inside a guest; a reboot of the host ends it
anywhere. `Startup` has the start of `all`, from its command line (`Args`) to what it announces (`RefusalOf`,
`Served`, `PortsOf`, `OnionPlans`, joined by `StartAll`).

**Fleet: `fleet.rs`.** A library that no command calls yet: its caller here is any (`Advances`, `Returns` of no node in
particular, a clock that goes anywhere). A verdict's tag is modelled as the pair of key and payload.

## What the runs show

| Run | Asks | Properties | Distinct states |
|---|---|---|---|
| `Supervisor` | what the governor and the ladder may and must do, for every order of readings, ceilings and outages | `BlindnessDerates`, `AtMostOneReadingUnweighed`, `EscalationEarned`, `LadderInOrder`, `ShutdownIsAboutCharge`, `LevelNeverFalls`, `LadderMoves`; liveness `HotCellHalts`, `LostCellDerates`, `LongOutageQuiesces` | 104 thousand |
| `Node` | what survives crashes, disk errors and requests in flight | `NodeTypeOK`, `RecordNeverTorn`, `LatchedGovernorRefuses`, `RecordedHaltStands`, refinement `LatchSpec`, liveness `HaltStopsTheProcess` | 658 thousand |
| `Vault` | what two workers, power cuts, an exit and a failing call do to the vault | `ReadersSeeWholeFiles`, `OvershootBounded`, `PromisedFilesSurvive`, refinement `StoreSpec` | 880 thousand |
| `Services` | whether a daemon is ever lost, punished without cause, left running hot, or given up; whether silence can take a whole pool, and whether who asks is answered | `NoDaemonLost`, `NothingLeftOnceReturned`, `DelaysAreEarned`, `SilenceLeavesAWorker`; liveness `HotCellSheds`, `OnionNeverGivesUp`, `AsksAreAnswered` | 467 thousand |
| `Mirror` | what the companion may claim and delete | `NothingHalfMirrored`, `ReplicationsAreEarned`, `DrillsAreEarned`, `PostureIsEarned`, `PrunesComeLast` | 870 thousand |
| `Commands` | whom a server recognises after commands that overlap, are killed or cut; what a stranger learns; what a device says of itself and of its host; how `all` starts; how a fleet upgrades and parts | `OnlyWholeCredentials`, `RevokedStaysOut`, `StrangersLearnNothing`, `DeviceClaimsStand`, `DeviceWordStands`, `DeviceStartStands`, `OneAwayAtATime`, `NoSplitBrain` | 349 thousand |

Only `Node` checks a type invariant; those of the other parts that change state are proved.
Six runs are expected to fail and are described under *Disagreements*.

**Bounds.**

- Readings (`MCReadings`): one for each thing a reading can say, on both sides of each threshold, of the sampler's
  margin, of the reserve and of the width of capacities, since the governor's behaviour depends on nothing else.
  `FailureMax = 3` is the tolerance, after which counting changes nothing. `ShedAfter = 1`, `QuiesceAfter = 2`,
  `MaxElapsed = 2` put every time between and at the rungs; a late tick jumps over one.
- Vault: files of one and two chunks, so that a write has a middle, a quota of three chunks, so that one large and
  one small file fit and two large do not; two workers, because every hazard of the vault is between two; five
  objects (two names, two entries each, one still open), of which none is ever wanting. Two kinds of behaviour are
  followed (`MCTroubles`): both workers writing, with one power cut and nothing else that fails; and one worker
  writing while the other reads, with up to three troubles out of two power cuts, an exit and a failing call. What
  an object holds that nothing refers to is left out of the comparison of states (`MCView`).
- Onion: a publish timeout longer than the stable period; three daemons, so that one can be left behind while another
  is taken out to be killed and a third starts; one that dies by itself; two lives of the process.
- Surfaces: the pool needs one worker more than the silent connections of `ReadTimeout + 1` seconds, here 3 for 2;
  the source has 8 workers and a timeout of 5 seconds (`listen.rs:52`), so that of one silent connection a second
  at most 6 stall. `PoolAssumption` is that condition; `Surfaces_stopped` has one worker and nobody who is silent.
- Mirror: two files that share a temporary, which is a name itself; two contents of one size, so that size and time
  may deceive, and a longer one; two seconds, and a figure that stands for less than one; three commands and two
  changes by others, which is what it takes for a copy to be replaced in the second it was made in, and for a left
  temporary to be pushed, replicated and drilled. Symmetry exchanges the two contents of one size.
- Credentials: two devices and two secrets, so that one can be revoked while or after the other is enrolled; two
  commands at a time, one kill or one revocation that flushes no directory (`MaxUnflushed`), and one power cut; four
  files (the store, the temporary, one open without a name, one that only the medium remembers), of which none is
  ever wanting.
- Machines: a phone below the first threshold, on both sides of it, past the last, without a thermometer, as a
  guest, and with what must be read missing or locked; manifests that agree, disagree, lack a line or name one
  twice; file systems half a fragment short of 8 GiB and just enough; ports at 65533 and 65534, where three no
  longer fit. Three boots, so that a claim can be two boots old.
- Requests: every method on a name, paths that are hidden, go up, or end in what a name may not; worlds of every
  level and every rung that differ in what they permit, with room, without and full.
- Fleet: three nodes, so that two can be out of order; four members, so that there are equal halves; a clock of
  three seconds that may go back. In `Commands`, symmetry exchanges the devices and the commands.

Unbounded numbers of power cuts, disk errors and crashes are bounded by the constants `Max...`, each in a guard.

**Fairness.** `Supervisor`: the loop ticks again after every wait, and the clock does not stop. `Node`: the
supervisor's thread keeps running (it holds no lock across a wait and waits for nobody); nothing is promised for
workers, people or devices. `Services`: both threads of the onion keep running; no daemon need publish, and none
need die; the surfaces' threads are scheduled and time passes; nobody need connect (in each behaviour, of the half
that moves). All of it is weak fairness; the other runs have no liveness and assume none. Deadlock is checked for
`Supervisor` and `Node`; the other systems may really stop: a process that has ended, a vault whose every request
is refused (a refusal changes nothing and is no step), a companion or a command nobody starts again.

**A property that needs its condition.** `OvershootBounded` speaks of runs before a power cut, because a power cut
can bring deleted files back. `NeverGivesUp` (`OnionNeverGivesUp` where the onion is what moves) speaks of
behaviours without daemons that die by themselves, because of the disagreement below. `StoreSpec` is checked with
one writer per name, likewise. `HotCellHalts` and its two neighbours speak of a condition that lasts.
`RevokedStaysOut` speaks of revocations during which no other command was at work on the store, because of the
sixth disagreement, and of those made before any two revocations overlapped. It survives power cuts only where the
directory of the store was flushed, by that revocation or a later one (`gone`); where the path is a name alone none
flushes it, and what such a revocation took out is spoken of until the next power cut (`out`). `OnlyWholeCredentials`
says less once two revocations have overlapped (below, of the credentials). `NothingLeftOnceReturned` speaks of the
time before the process exits: nobody waits for the loop, so an exit may leave what it has in hand (below).
`DeviceClaimsStand` speaks of what `run` has recorded: a host that reboots and says nothing is not known to have. `NoSplitBrain` is about one witness: with one on each side both halves accept.

## What is proved

For all values of the constants that satisfy the assumptions of the modules: `ThresholdsAssumption`, which is what
`Thresholds::new` accepts, `ShedPlanAssumption`, what `ShedPlan::new` accepts, `CeilingAssumption`,
`FailureMaxAssumption`, `ReadingsAssumption`, `MaxElapsedAssumption`, `NodeAssumption`, `VaultAssumption` (finitely
many workers and payloads, none of them empty), `OnionAssumption`, `PoolAssumption` (a pool larger than the silent
connections of `ReadTimeout + 1` seconds), `NoFileIsNone`, `WorldsAssumption` (the cells that are compared have the
same devices enrolled), `FleetAssumption`, `EnrolmentAssumption` (there is room for the
store), `InvocationsAssumption` (a port is a u16, or there is none), `MachinesAssumption` (a node that is a number is
an integer), `FileSystemsAssumption` (fragments and what is free are counted), `RegistrationsAssumption` (what is
registered is a sequence of capabilities).

- `SupervisorProofs`: `TypeCorrect`, `BlindnessCounted`, `ReadingsWeighed`, `LevelsEarned`, `LadderDischarged`,
  `ChargeAloneShutsDown`, `LevelOnlyRises`, `LadderOnlyResumesFromAnnounced`, and `SteadyMargin`, a fact about two
  pure functions.
- `NodeProofs`: `NodeTypeCorrect`, `RecordIsWhole`, `LatchedRefusals`, `RecordedHaltsStand`,
  `SupervisorSurvivesRestarts`, and `NodeImplementsLatch`: the node refines `HaltLatch`.
- `VaultProofs`, where no two workers' clients write to one name (`OneWriterPerName`): `VaultTypes`,
  `ReadersSeeWhole`, `PromisesSurvive`, `OvershootIsBounded`, and `VaultIsAStore`: the vault refines `AtomicStore`.
- `OnionProofs`: `OnionTypes`, `NoDaemonIsLost`, `NothingIsLeft`, `DelaysStayEarned`.
- `SurfacesProofs`: `SurfacesTypes`, `SilenceNeverFillsAPool`.
- `MirrorProofs`, where the evidence has no name of a temporary (`EvidenceHasAName`): `MirrorTypes`,
  `NothingIsHalfMirrored`, `ReplicationsEarned`, `DrillsEarned`, `PruningComesLast`; and, where the evidence is not
  in the mirrored folder (`EvidenceElsewhere`), `PostureEarned`.
- `EnrolmentProofs`: `CredentialsInvariant`, `CredentialsAreWhole`, `TheRevokedStayOut`.
- `CommandsProofs`, of the answers: `StrangersLearn`; `AnswersWellDue` (whatever is answered 200 by the site or the
  vault is due: to somebody enrolled, of a path with no refused segment, by a cell that serves readers or takes
  files); `StoresAreEarned` (what is stored changes only by the one name asked for, for somebody enrolled, into room
  there is) and `PutsStand` (a put that is answered 200 is stored).
- `CommandsProofs`, of the device: `DeviceInvariant`, `ClaimsOfTheLatestBoot`; `StartsStand`; `GoodWordStands` (nothing
  good is said by `status`, `catalogue` and `image`, nor means anything else in a registry, than what was read); and
  `StatusIsNoPromise` (`status` exits as protected for no device, and for a guest always as not verified).
- `CommandsProofs`, of the fleet: `UpgradesRoll`, `OnePartAccepts`, and `VerdictsKeepTheirDate`, a fact about two pure
  operators.

No run checks four of these, to keep `Commands` within minutes: `AnswersWellDue`, `StoresAreEarned`, `PutsStand` and
`StatusIsNoPromise`. Before they were proved TLC found them to hold of the answers and the device of that run, and the
first or the second violated where `AdmissionOf` forgets the room, `ForRemoval` the cell, or `RouteSite` to ask
whether the cell serves.

The three hypotheses are there because the statements are false without them, and a run shows each: two writers of
one name leave half a file (`Vault_half`), and evidence inside the mirror is pruned (`Mirror_receipt_inside`) or
brought back old by a push and a replication. A receipt named as a temporary would be written over by the copy it is
the temporary of.

*The argument for the supervisor.* None of the invariants is inductive alone. `BlindCounterExact` says what
the counter is at Normal, but to know that three losses derate one has to know the counter was right
before; and an enforcement that derates skips `observe` and leaves the counter as it was, which is
harmless only because the level has left Normal. `SupervisorInv` joins them with the types and a bound
of the counter. Lemmas about `Escalate`, `Observe`, `ObserveUnreadable`, `Enforce` and `Governed` say what
each does to level and counter; lemmas about `RungsBetween` and `ShedOnTick` say that the rungs handed back
extend the history by exactly those passed. The step then has one case per action, and one per arm of `tick`.

*The argument for the node.* A node's step is a supervisor's step, a stutter of it, or a start, which puts
the supervisor back into an initial state; so what is invariant of a supervisor is invariant of a node
(`NodeSupervisorInv`). Requests keep `begun <= gov.level`, which needs `LevelNeverFalls` and that requests
die with the process. The record keeps: while `step` is `rename` the partial is whole; a record is never
unflushed; what is recorded is on the medium. From these every action maps to `Latch`, `Clear`, `Start`,
`Stop` or `Lose` of `HaltLatch`, or to a stutter.

*The argument for the vault.* That readers see whole files is not inductive: a file under a name is whole because it
was renamed whole, and stays so because nobody else writes to its object. `VaultInv` says at each stage of
`write_durably` what the writer's temporary holds (`WritersKnowTheirFile`), that what a power cut may find under a
name is whole, flushed and nobody's temporary (`FilesAreWhole`), and that no two names share an object
(`NamesShareNothing`): here one writer per name is needed. The refinement maps a file to the payload its object
holds; a rename is `Put`, a flush of the directory `Settle`, and every other call a stutter. The bound of the quota
counts chunks: those stored, and those that the writers let in have yet to write (`Pending`). A writer let in at most
fills the limit as it saw it; after that, storing a chunk takes it from one count into the other, so the sum never
exceeds the limit and one largest file for each worker but one (`RoomKept`), and the bound is reached.

*The argument for the onion.* `DaemonInHand` follows a daemon from `start` through `LIVE` to the thread that kills it:
it is spawned while none is live and is in hand until it is stored; each thread has a daemon taken out of `LIVE` only
between its two halves of `stop`; and the loop returns, or goes to kill what it took, with `LIVE` empty, so that the
only daemons this process does not know of are the orphans of one that is gone. `NoDaemonLost` counts all four places,
and what is left of them when the loop has returned is the one of `begin_shutdown` (`NothingIsLeft`).
`ClockOfTheStreak` is what `DelaysAreEarned` needs: the streak is timed while a daemon has published and nothing is
waited for, but for one last pass which the stopping thread may have overtaken.

*The argument for the pools.* Silence is counted by the second it came in: workers that began to wait in one second of
the past are at most `SilentRate`, and those of this second, waiting in the backlog or for their timeout, no more
than came (`Counted`). Over `ReadTimeout + 1` seconds that is less than a pool (`LevelsBound`, a pigeonhole).

*The argument for the companion.* Each claim needs what its command has been through so far: `ReplicateKeeps`,
`DrillCompares` and `PushSends` say it of the names that are done, and `HadIsCurrent` and `CopiesAreTheVaults` tie a
copy, at each step from download to rename, to what the vault held since the listing. Half a file is only ever under
a temporary's name (`HalfIsTemporary`). `PostureIsEarned` adds that the receipt holds nothing but claims that were
completed, which a folder that others change can only promise of a file outside it.

*The argument for the credentials.* It is about texts. `Orderly` says of every piece what may lie before it in its line:
a secret follows the gap after a name that ends with its device's own, a name comes first, a comment is ended. Every
call keeps the texts it writes so: appending the next piece of a line, writing over another's file, cutting a text
anywhere, and `Kept`, which takes whole lines out; and of an orderly text `parse_store` accepts nothing but whole
credentials (`CredentialIsWhole`). The rest of `CredentialsInv` says what a command knows of its file between two calls. An
enrolment writes at the end of a line it has begun, in a file that is not the temporary (`EnrolmentKnows`); the
temporary is the store of no directory that a power cut may leave (`TemporariesAreApart`); the comment a store
begins with was flushed, so that no cut leaves a `#` before a name (`CommentsAreFlushed`); a revocation that nobody
overlaps finds in its temporary what it put there (`RevocationKnows`). What was revoked is then in no file, and in
nothing a revocation is about to write (`GoneIsNowhere`). That is too much to ask of what was taken out while the
directory was not flushed: the medium may still hold it. It is in no file that a command or a start can come by until
the power is cut (`OutIsOutOfReach`): not under either name, not open to a command, and not what an enrolment is
writing; and no step but a power cut brings back a file that nobody can reach. Two revocations that overlapped write over one another's
temporary, and most of this holds no longer: hence `overlapped` in both properties. TLC checked `CredentialsInv` at
the bounds of `Commands`, in 274 thousand states of the enrolment alone.

*The argument for the answers.* Nothing about a stranger's answer needs induction but that the cell keeps its devices.
The rest is the order of refusals: `route_vault` asks who is there before it looks at anything a stranger could learn
of, so that two cells with the same devices give one answer (`StrangersAlike`); and of the answers of a site, all that
are 404 are made of the request alone (`VisitorsAlike`).
What is due of an answer comes from two case distinctions. `VaultRoutes` says that the vault either answers and leaves
what is stored alone, or puts or removes a file for somebody enrolled; `PutsAreEarned` and `RemovalsAreEarned` take
those apart along `AdmissionOf`. A request that is refused before it is routed is never answered 200, which needs
that each reason `parse_request_line` and `parse_headers` can give has its status (`RefusalStatuses`).

*The argument for the guest record.* The lemma under it is `RecordReadsBack`: what `render` writes of a ledger,
`parse` reads as that ledger, for every ledger, and a statement that is accepted leaves one (`AcceptedIsWellSaid`,
`EstablishedIsALedger`). The invariant is that every record a boot may find, and the one being written, is a ledger
that knows of the latest boot on record; `standing` then voids whatever is older.

*The argument for the start.* No step is involved: `all` goes ahead only if no refusal was found (`SoundHasNoFlaw`), so
that there is room for three ports; the surfaces take them in order, the plan maps two of those, and what an onion is
disclosed with follows from its profile (`OnionIsDisclosed`, `CeilingIsThere`).

*The argument for the good word.* No step is involved either, but every operator of four reports. A registry keeps
of one name what was registered first, by position (`AcceptedOnce`, `AcceptedIsRight`), so that a tier never satisfies
a floor above it (`HigherReaches`). The panel's headline is its worst row (`OverallIsTheWorst`), and each row weighs
what was found (`StatusRows`): a cell that is not unsafe was read node by node (`CellsAreRead`), is below the first
threshold in tenths as well as in degrees (`CelsiusBelow`), and has a control. `status` knows no ceiling that was
written, so it never calls anything protected (`StatusIsNoPromise`). What the catalogue offers fits the memory, the
storage and the thermal class of what was read (`OffersFit`, `ClassesAreEarned`). A manifest reads back as it was
rendered (`ManifestReadsBack`): a line says what its key's line says and no other line does (`ParsedSays`,
`KeyPlaces`); and an image is verified only when each of its checks matched what is in the tree (`VerifiedMatched`,
`KernelMatched`, `DeviceTreeMatched`, `ChargeVoltageMatched`).

*The argument for the fleet.* `OneAwayAtATime` is not inductive without the type of the plan; with it, `Advance`
starts a node only when the first one that is neither done nor drained is pending, so that all before it are out of
the way, and whatever a return or the clock does to the node in flight leaves those alone. `OnePartAccepts` is
arithmetic over two disjoint sets: both parts accept only if both hold a majority, or one a majority and the other
half, or both a half and both the witness, and there are not that many members nor witnesses (`TwoHalves`).

Only model-checked:

- all liveness, which is out of this prover's reach, like anything about ENABLED;
- what `Args` makes of a command line, word by word, and which file a path is resolved to: both are folds, and what a
  fold computes for every input takes an induction no backend here can do. `StartsStand` and `AnswersWellDue` say
  nothing of them: the first is about what was asked, the second about whether a path is refused.

## Disagreements

Found while modelling; each of these has a run that shows it.

1. `Node_no_restart`. A tick that reaches Halt and also enters ShuttingDown stops as an outage (`main.rs:827`),
   writes no record, and the next start needs no inspection; `halt.rs:5-6` and the printed message say that no
   restart clears a halt.
2. `Vault_half`. Two PUTs of one name share `.name.partial`, and a reader can find half a file under the real name,
   which `vault.rs:308-309` excludes.
3. `Onion_restart`. A daemon that died stays in `LIVE` and is not started again, which `onion.rs:217-219` promises.
4. `Surfaces_stopped`. A listener that stopped is never reported, because the scope waits for threads that do not
   return; `main.rs:669-672` and `745` say it is.
5. `Mirror_receipt_inside`. Where `README.md:613-614` puts the evidence file, inside the mirror, `replicate
   --prune` deletes it like any file the vault does not list; the drill's claim is gone, and if the command then
   stops, so are all. `README.md:620-621` says that a run that dies leaves yesterday's receipt standing.
6. `Revoke_loses`. `revoke` renames over the store a file made of what it read earlier (`enrol.rs:157`); a device
   enrolled in between is out again, and one whose line was half written leaves a store that is refused whole.
   `README.md:634-635` and `docs/INSTALL.md:296` say that every other device goes on working.

Seen, and stated here without a run of their own:

- `runtime_test.rs:56` has every tick weigh its reading; `or_else` skips one. `AtMostOneReadingUnweighed` bounds
  it.
- `inspect` of a phone that does not lie flat writes no record where there is none (`main.rs:411-423`): the phone
  may start again.
- A record that was cleared may come back after a power cut (`halted.rs:106-112` does not flush the directory).
  `HaltLatch` allows it (`Lose`).
- A directory flush that fails after the rename is answered "nothing was stored under that name"
  (`listen.rs:454-460`), and the file is stored.
- Workers that are admitted at once overshoot the quota of `args.rs:337`. `OvershootBounded` says by how much.
- A temporary left by a failed write counts against the quota and has no name a client could delete.
- A process that exits between the spawn of a daemon and its storing, or after its loop has taken one out of `LIVE`
  and before it has killed it, leaves it running: `begin_shutdown` finds `LIVE` empty and waits for nobody.
  `onion.rs:55-60`, `onion.rs:216-218`, `main.rs:833-835` and `README.md:375-377` say that no daemon outlives the cell.
  `NoDaemonLost` and `NothingLeftOnceReturned` say what does hold.
- The address file outlives its daemon, and a new daemon is announced by an old address (`onion.rs:15-17`).
- `main.rs:673-675` has the supervisor's thread spawned first so that trouble is known before anything binds;
  nothing makes it tick first.
- The mirror never sets a copy's modification time (`mirror.rs:182-206`), so that "files already present at the
  right size and mtime are left untouched" (`mirror.rs:70`) is a coincidence: every cycle downloads every file
  again, or believes a copy that is not the vault's. `ReplicationsAreEarned` has that excuse and no other but the
  next.
- A vault file whose name is the temporary of another (`a.vayutmp` beside `a.zip`) is lost from the mirror, and
  claimed.
- A killed replication leaves a temporary that the next walk lists. The next `replicate --prune` moves it away with
  a download and then stops, because it cannot prune it; the one after that completes.
- An evidence file that cannot be read is overwritten (`sync/src/main.rs:122`), which `main.rs:117-120` excludes.
- `drill` compares bytes; the "size disagreement, count disagreement" with the listing of `mirror.rs:150` are not
  looked for.

Of the credentials:

- `revoke` of a store whose path is a name alone (`--store devices`) flushes no directory (`enrol.rs:179-185`) and says
  that the device is revoked; a power cut may bring its secret back. `enrol.rs:144-146` lists the flush of the
  directory without that condition.
- Two `revoke`s that overlap share a temporary and undo one another: a revoked device may be back. One may also
  write over the other's file after it took the store's name (`enrol.rs:190-200`): if a killed enrolment had left a
  line without its newline there and the next enrolment was appended, a line may remain whose name is the tail of
  the first and the name of the second, and a server takes the second's secret for that device. It takes three
  enrolments; with the two of the run the name is always the device's alone. A revocation of the second then leaves
  that line, whose name is not the device's, and with it the secret.
- `enrol` writes its line in four pieces and flushes none (`enrol.rs:126-129`): a kill or a power cut may leave a
  line that no start accepts. One that lacks only its newline is accepted, until the next enrolment is appended to
  it.
- Two enrolments of one name that overlap leave the name twice, and the store is refused whole.
- A device whose name begins with `#` is enrolled, told so, and a comment ever after.

Of requests:

- A connection that ends at the end of a header line counts as one whose head was ended (`listen.rs:651`). A PUT
  cut there, before its `Content-Length`, stores an empty file.
- The site serves a file to any method; a HEAD that is refused before routing gets a body; a request line longer
  than the limit is read on as if its rest were headers.

Of the reports and the start:

- `status` accepts `--fleet-role` and `--replica-evidence` and uses neither. The row of the ceiling is never
  verified, so that `status` never exits with 0. With a halt on record, a guest's governor row is only unverified.
- A guest record that cannot be read, or says nothing sensible, is overwritten by `run`. One whose write failed
  counts as written until something changes (`main.rs:996`). A host that reboots and says nothing leaves its old
  claim attested.
- The probe for mobile hardware stops at the first root it cannot read, where `image` tries both: two reports of
  one machine differ.
- `all` tells a relay to forward to the vault's port where no vault is served, and writes a torrc where no daemon
  is found.

Of the fleet:

- `can_accept(0, 0, 1)` is true, though the comment says that no members never reach a quorum. With two witnesses,
  one on each side, both halves accept.
- A return that comes late marks whichever node is in flight then as done.
- A sealed payload joins subject and verdict with a bar that either may hold (`fleet.rs:367-381`): two records may
  share one tag. `VerdictsKeepTheirDate` says what a tag does bind.

## What is not modelled, and why

- Text: rendering of reports, JSON, HTML and torrc; wording and logging. Of what is parsed, a model keeps the words
  or flaws that decide; bytes, escapes and lengths of names are the flaws `Refusals` lists.
- Symbolic links, ownership and SELinux: what only an operator makes. Permission bits are kept where `load` asks
  for them.
- The companion's `plan` and the commands `devices` and `profile` print and change nothing.
- `Cell` (`cell.rs`), the ladder that the commands serving a single surface keep for themselves and walk when a
  request asks.
- Two enrolments at once: their four pieces interleave into texts whose reading depends on lengths the model does
  not keep.
- Two companions at once, and power cuts of the companion's own machine: the cell's promises rest on neither.
- `run` twice at once, which would share the temporary of the guest record.
- A client that sends a byte now and then holds a worker longer than the read timeout; `Surfaces` has only the
  silent ones.
- The registry of capabilities, the ageing of reachability, some policies and headers, and sealed verdicts have no
  caller in the program; they are operators here, and only the first and the last have a property or a theorem.
- Build, gates, fuzz targets: not part of the running system.

## Plan

Done: the tick, the node and the halt record; the vault and its abstraction; the services of `all`; the companion;
the credentials; requests; the reports, the guest record and the start; the fleet; and the proofs above.

Next, in this order:

1. Runs of their own for the answers and the device, so that `AnswersAreDue`, `StoresForTheEnrolled` and `PutsAreKept`
   are checked beside their proofs.
2. `Cell`, with the site and the vault that ask it.
3. Two companions at once in `Mirror`, power cuts of its machine, and a listing that is read entry by entry.
