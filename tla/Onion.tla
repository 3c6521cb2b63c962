-------------------------------- MODULE Onion --------------------------------
(***************************************************************************)
(* cli/src/onion.rs: the thread that keeps the system's tor daemon up while *)
(* the governor permits it, beside the thread that stops the process        *)
(* (begin_shutdown, from cli/src/main.rs), with the daemon, which is a      *)
(* process of its own and outlives this one unless somebody kills it.       *)
(*                                                                         *)
(* Time is counted in polls: the loop sleeps for one between two passes.    *)
(* What is printed is left out, but for the address: published is the       *)
(* moment the address is announced.                                         *)
(***************************************************************************)
EXTENDS Ingress

CONSTANTS
    PublishTimeout, \* polls a daemon has to publish an address
    StableAfter,    \* polls after which a crash streak stops counting
    DaemonCount,    \* bound: daemons, running or remembered, at a time
    MaxCrashes,     \* bound: how often a daemon dies by itself
    MaxFailedSpawns,\* bound: how often one cannot be started
    MaxStarts       \* bound: how often the process starts

ASSUME OnionAssumption ==
    /\ {PublishTimeout, StableAfter, DaemonCount} \subseteq Nat \ {0}
    /\ {MaxCrashes, MaxFailedSpawns, MaxStarts} \subseteq Nat

VARIABLES
    level,          \* what Governed::context says
    running,        \* the daemons that run, whoever started them
    hostname,       \* whether the address file is there: it outlives a daemon
    stopper,        \* where the thread that stops the process stands
    shuttingDown,   \* SHUTTING_DOWN
    live,           \* LIVE: the daemon supervised, dead or not
    taken,          \* the daemon each thread has out of LIVE, and is to kill
    at,             \* where supervise's loop stands
    child,          \* the daemon just spawned and not stored yet
    failures, retry, age, stable, published,    \* the loop's own variables
    past            \* history: which daemons were left behind, and counts of what is bounded

statics == <<shuttingDown, live, taken>>
book    == <<failures, retry, age, stable, published>>
world   == <<level, running, hostname>>
onionVars == <<world, stopper, statics, at, child, book, past>>

NoDaemon == 0
Daemons  == 1..DaemonCount

(* An Option<Instant> as polls: how many are left, or how many have passed. *)
Unset == -1

(* should_run: nothing is decided here that shed_for has not. *)
ShouldRun(l) == ShedFor(l, {"onion"}) # {}

(* The doubling stops at the fourth attempt, so counting does too. *)
MaxFailures == 4

NextWait(n) == 2 ^ (IF n <= 1 THEN 1 ELSE IF n >= MaxFailures THEN MaxFailures ELSE n)

OneMore(n) == IF n < MaxFailures THEN n + 1 ELSE n

Alive(d) == d \in running

NothingTaken == [loop |-> NoDaemon, stopper |-> NoDaemon]

Held == {live, taken.loop, taken.stopper}

(* How a process finds itself: it has no daemon of its own yet. *)
Began ==
    /\ stopper' = "watching"
    /\ shuttingDown' = FALSE
    /\ live' = NoDaemon
    /\ taken' = NothingTaken
    /\ at' = "check"
    /\ child' = NoDaemon
    /\ failures' = 0
    /\ retry' = Unset
    /\ age' = Unset
    /\ stable' = Unset
    /\ published' = FALSE

OnionInit ==
    /\ level \in Levels
    /\ running = {}
    /\ hostname \in BOOLEAN     \* the directory of an earlier life, or a new one
    /\ stopper = "watching"
    /\ shuttingDown = FALSE
    /\ live = NoDaemon
    /\ taken = NothingTaken
    /\ at = "check"
    /\ child = NoDaemon
    /\ failures = 0
    /\ retry = Unset
    /\ age = Unset
    /\ stable = Unset
    /\ published = FALSE
    /\ past = [orphans |-> {}, starts |-> 1, crashes |-> 0, failedSpawns |-> 0]

-----------------------------------------------------------------------------
(* The loop. *)

(* stop has two halves, whoever calls it.  It takes what LIVE holds, with   *)
(* the lock held for that alone; and only then it kills that and waits.     *)
Take(thread) ==
    /\ taken' = [taken EXCEPT ![thread] = live]
    /\ live' = NoDaemon

Kill(thread) ==
    /\ running' = running \ {taken[thread]}
    /\ taken' = [taken EXCEPT ![thread] = NoDaemon]

(* Where the loop calls stop, and where it stands with what it took. *)
Stopping == [leaves |-> "leaving", sheds |-> "shedding", abandons |-> "abandoning"]

LoopTakes ==
    /\ at \in DOMAIN Stopping
    /\ Take("loop")
    /\ at' = Stopping[at]
    /\ UNCHANGED <<world, stopper, shuttingDown, child, book, past>>

(* Mutant of CheckShutdown: leaves the daemon to the stopping thread. *)
CheckShutdownReturns ==
    /\ at = "check"
    /\ at' = IF shuttingDown THEN "returned" ELSE "notice"
    /\ UNCHANGED <<world, stopper, statics, child, book, past>>

CheckShutdown ==
    /\ at = "check"
    /\ at' = IF shuttingDown THEN "leaves" ELSE "notice"
    /\ UNCHANGED <<world, stopper, statics, child, book, past>>

Leave ==
    /\ at = "leaving"
    /\ Kill("loop")
    /\ at' = "returned"
    /\ UNCHANGED <<level, hostname, stopper, shuttingDown, live, child, book, past>>

(* try_wait answers for a dead child on every pass, and LIVE keeps it.      *)
NoticeExit ==
    /\ at = "notice"
    /\ at' = "decide"
    /\ IF live # NoDaemon /\ ~Alive(live)
         THEN /\ failures' = OneMore(failures)
              /\ retry' = NextWait(failures')
              /\ age' = Unset
              /\ stable' = Unset
              /\ published' = FALSE
         ELSE UNCHANGED book
    /\ UNCHANGED <<world, stopper, statics, child, past>>

(* Mutant of TooHot: only a daemon that has published goes. *)
TooHotOncePublished ==
    /\ at = "decide"
    /\ ~ShouldRun(level)
    /\ at' = IF live # NoDaemon /\ published THEN "sheds" ELSE "sleep"
    /\ UNCHANGED <<world, stopper, statics, child, book, past>>

(* The level has risen: the daemon goes.  begin_shutdown may be the first   *)
(* to take it, after this look.                                             *)
TooHot ==
    /\ at = "decide"
    /\ ~ShouldRun(level)
    /\ at' = IF live # NoDaemon THEN "sheds" ELSE "sleep"
    /\ UNCHANGED <<world, stopper, statics, child, book, past>>

(* Mutant of Shed: the delay survives its failures. *)
ShedKeepsDelay ==
    /\ at = "shedding"
    /\ Kill("loop")
    /\ failures' = 0
    /\ at' = "sleep"
    /\ UNCHANGED <<level, hostname, stopper, shuttingDown, live, child,
                   retry, age, stable, published, past>>

(* Being shed is no failure of the daemon's. *)
Shed ==
    /\ at = "shedding"
    /\ Kill("loop")
    /\ failures' = 0
    /\ retry' = Unset
    /\ age' = Unset
    /\ stable' = Unset
    /\ published' = FALSE
    /\ at' = "sleep"
    /\ UNCHANGED <<level, hostname, stopper, shuttingDown, live, child, past>>

(* Mutants of Decide: starts a daemon beside another; gives up on starting  *)
(* one that failed.                                                         *)
DecideAnyway ==
    /\ at = "decide"
    /\ ShouldRun(level)
    /\ at' = IF retry <= 0 THEN "spawn" ELSE "watch"
    /\ UNCHANGED <<world, stopper, statics, child, book, past>>

DecideOnce ==
    /\ at = "decide"
    /\ ShouldRun(level)
    /\ at' = IF live = NoDaemon /\ retry = Unset THEN "spawn" ELSE "watch"
    /\ UNCHANGED <<world, stopper, statics, child, book, past>>

(* The loop may run a daemon, and starts one where LIVE is empty and no     *)
(* delay is left.                                                           *)
Decide ==
    /\ at = "decide"
    /\ ShouldRun(level)
    /\ at' = IF live = NoDaemon /\ retry <= 0 THEN "spawn" ELSE "watch"
    /\ UNCHANGED <<world, stopper, statics, child, book, past>>

(* LIVE is read again for the next branch. *)
Watch ==
    /\ at = "watch"
    /\ at' = IF live # NoDaemon /\ ~published THEN "await" ELSE "rest"
    /\ UNCHANGED <<world, stopper, statics, child, book, past>>

Spawn ==
    /\ at = "spawn"
    /\ Daemons \ (running \cup Held) # {}
    /\ child' = Min(Daemons \ (running \cup Held))
    /\ running' = running \cup {child'}
    /\ past' = [past EXCEPT !.orphans = @ \ {child'}]
    /\ at' = "store"
    /\ UNCHANGED <<level, hostname, stopper, statics, book>>

SpawnFails ==
    /\ at = "spawn"
    /\ past.failedSpawns < MaxFailedSpawns
    /\ past' = [past EXCEPT !.failedSpawns = @ + 1]
    /\ failures' = OneMore(failures)
    /\ retry' = NextWait(failures')
    /\ at' = "sleep"
    /\ UNCHANGED <<world, stopper, statics, child, age, stable, published>>

(* Only now does begin_shutdown see the daemon. *)
Store ==
    /\ at = "store"
    /\ live' = child
    /\ child' = NoDaemon
    /\ age' = 0
    /\ published' = FALSE
    /\ at' = "sleep"
    /\ UNCHANGED <<world, stopper, shuttingDown, taken, failures, retry, stable, past>>

(* The address file, whoever wrote it and whenever; the daemon writes no    *)
(* other thing there, and this process may read it.                         *)
Address == ReadHostname(hostname, TRUE, {})

Publish ==
    /\ at = "await"
    /\ Address = "published"
    /\ published' = TRUE
    /\ stable' = 0
    /\ failures' = 0
    /\ retry' = Unset
    /\ at' = "sleep"
    /\ UNCHANGED <<world, stopper, statics, child, age, past>>

(* No address: wait on, or give this daemon up.  A daemon whose start was   *)
(* forgotten began just now.                                                *)
NotPublished ==
    /\ at = "await"
    /\ Address # "published"
    /\ at' = IF age >= PublishTimeout THEN "abandons" ELSE "sleep"
    /\ UNCHANGED <<world, stopper, statics, child, book, past>>

Abandon ==
    /\ at = "abandoning"
    /\ Kill("loop")
    /\ failures' = OneMore(failures)
    /\ retry' = NextWait(failures')
    /\ age' = Unset
    /\ at' = "sleep"
    /\ UNCHANGED <<level, hostname, stopper, shuttingDown, live, child, stable, published, past>>

Rest ==
    /\ at = "rest"
    /\ failures' = IF stable >= StableAfter THEN 0 ELSE failures
    /\ at' = "sleep"
    /\ UNCHANGED <<world, stopper, statics, child, retry, age, stable, published, past>>

(* A poll passes on every clock that runs. *)
Older(a, limit) == IF a = Unset \/ a = limit THEN a ELSE a + 1

Sleep ==
    /\ at = "sleep"
    /\ retry' = IF retry > 0 THEN retry - 1 ELSE retry
    /\ age' = Older(age, PublishTimeout)
    /\ stable' = Older(stable, StableAfter)
    /\ at' = "check"
    /\ UNCHANGED <<world, stopper, statics, child, failures, published, past>>

Supervise ==
    \/ CheckShutdown
    \/ LoopTakes
    \/ Leave
    \/ NoticeExit
    \/ TooHot
    \/ Shed
    \/ Decide
    \/ Watch
    \/ Spawn
    \/ SpawnFails
    \/ Store
    \/ Publish
    \/ NotPublished
    \/ Abandon
    \/ Rest
    \/ Sleep

-----------------------------------------------------------------------------
(* The thread that stops the process: a halt, or the last rung of an outage.*)

BeginShutdown ==
    /\ stopper = "watching"
    /\ shuttingDown' = TRUE
    /\ stopper' = "flagged"
    /\ UNCHANGED <<world, live, taken, at, child, book, past>>

(* Mutant of StopDaemon: forgets that a daemon taken out is not dead yet. *)
StopDaemonForgets ==
    /\ stopper = "flagged"
    /\ live' = NoDaemon
    /\ stopper' = "killing"
    /\ UNCHANGED <<world, shuttingDown, taken, at, child, book, past>>

StopDaemon ==
    /\ stopper = "flagged"
    /\ Take("stopper")
    /\ stopper' = "killing"
    /\ UNCHANGED <<world, shuttingDown, at, child, book, past>>

KillDaemon ==
    /\ stopper = "killing"
    /\ Kill("stopper")
    /\ stopper' = "exiting"
    /\ UNCHANGED <<level, hostname, shuttingDown, live, at, child, book, past>>

Stops == StopDaemon \/ KillDaemon

(* process::exit takes the loop with it, wherever it is, and no child: what *)
(* the loop was about to store, or to kill, is left to nobody.              *)
Exit ==
    /\ stopper = "exiting"
    /\ stopper' = "gone"
    /\ at' = "returned"
    /\ past' = [past EXCEPT !.orphans = running]
    /\ UNCHANGED <<world, statics, child, book>>

StartAgain ==
    /\ stopper = "gone"
    /\ past.starts < MaxStarts
    /\ past' = [past EXCEPT !.starts = @ + 1]
    /\ Began
    /\ UNCHANGED world

-----------------------------------------------------------------------------
(* The world: the governor's level, and the daemons. *)

LevelChanges ==
    /\ level' \in Levels \ {level}
    /\ UNCHANGED <<running, hostname, stopper, statics, at, child, book, past>>

(* Whichever daemon it is, the address in the file is the site's. *)
DaemonPublishes ==
    /\ running # {}
    /\ hostname' = TRUE
    /\ UNCHANGED <<level, running, stopper, statics, at, child, book, past>>

DaemonDies(d) ==
    /\ Alive(d)
    /\ past.crashes < MaxCrashes
    /\ running' = running \ {d}
    /\ past' = [past EXCEPT !.crashes = @ + 1]
    /\ UNCHANGED <<level, hostname, stopper, statics, at, child, book>>

OnionNext ==
    \/ Supervise
    \/ BeginShutdown
    \/ Stops
    \/ Exit
    \/ StartAgain
    \/ LevelChanges
    \/ DaemonPublishes
    \/ \E d \in Daemons : DaemonDies(d)

OnionSpec == OnionInit /\ [][OnionNext]_onionVars

(* Both threads keep running; nothing makes a daemon publish, or the level  *)
(* change.                                                                  *)
OnionFairSpec ==
    /\ OnionSpec
    /\ WF_onionVars(Supervise)
    /\ WF_onionVars(Stops)
    /\ WF_onionVars(Exit)

-----------------------------------------------------------------------------
(* Properties. *)

(* However shutting down, shedding and giving up on a daemon interleave     *)
(* with starting one, every daemon that this process started and that still *)
(* runs is in LIVE, or in the hand of the one thread that is about to store *)
(* it there or to kill it: none is lost while the process lives.            *)
(* (start, stop, supervise)                                                 *)
NoDaemonLost ==
    stopper # "gone" => running \ past.orphans \subseteq Held \cup {child}

(* When both threads are through, nothing of this process runs any more: a  *)
(* daemon spawned while begin_shutdown was already looking into an empty    *)
(* LIVE is stopped by the loop itself, and until the process exits only     *)
(* begin_shutdown still has one to kill.  (supervise: stop on the way out;  *)
(* begin_shutdown.)  This is all that the code gives: nobody waits for the  *)
(* loop, and a daemon it was about to store, or had taken and was about to  *)
(* kill, outlives a process that exits before.                              *)
NothingLeftOnceReturned ==
    at = "returned" /\ stopper # "gone" => running \ past.orphans \subseteq {taken.stopper}

(* No delay without a failure that still counts, and none longer than that  *)
(* failure earned: neither shedding nor a night gone by leaves a punishment *)
(* behind.  (supervise: retry_at beside failures)                           *)
DelaysAreEarned ==
    retry # Unset => failures > 0 /\ retry <= NextWait(failures)

(* A daemon is started only where the level read on that pass permits, and  *)
(* so one that runs while the cell stays hot is stopped.  (should_run)      *)
HotCellSheds ==
    <>[](~ShouldRun(level)) => <>[](running \subseteq past.orphans)

(* Backing off never becomes giving up: where no daemon dies by itself and  *)
(* the cell stays well, one runs again and again, however often starting it *)
(* failed or it was given up.  (next_wait, PUBLISH_TIMEOUT)                 *)
NeverGivesUp ==
    <>[](ShouldRun(level) /\ stopper = "watching" /\ past.crashes = 0)
        => []<>(live # NoDaemon /\ Alive(live))

-----------------------------------------------------------------------------
(* A claim of the source that does not hold: a daemon that dies is started  *)
(* again, once the cell stays well.                                         *)
RestartedWhenItDies ==
    <>[](ShouldRun(level) /\ stopper = "watching") => []<>(live # NoDaemon /\ Alive(live))
=============================================================================
