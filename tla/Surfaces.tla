------------------------------ MODULE Surfaces ------------------------------
(***************************************************************************)
(* The surfaces of `vayucell all`: its scope of threads (cli/src/main.rs)   *)
(* and the pool of workers behind each listener (cli/src/listen.rs).        *)
(*                                                                         *)
(* A connection either asks for something, and whoever opened it waits for  *)
(* the answer and for the next second before asking again, or says nothing  *)
(* until the read timeout ends it.  Time is counted in seconds: everything  *)
(* but a stall is done with in less than one.                               *)
(***************************************************************************)
EXTENDS Naturals, Sequences, FiniteSets

CONSTANTS
    Listeners,      \* the surfaces asked for: panel, site, vault
    Workers,        \* the threads that accept from one listener
    ReadTimeout,    \* seconds a worker waits for a byte
    SilentRate,     \* silent connections opened to one surface in a second
    Backlog         \* bound: connections waiting to be accepted

ASSUME SurfacesAssumption ==
    {ReadTimeout, SilentRate, Backlog} \subseteq Nat

(* WORKERS beside READ_TIMEOUT: a pool is larger than what can be stalled   *)
(* at a time, one second's silent connections for every second of the wait. *)
ASSUME PoolAssumption ==
    /\ IsFiniteSet(Workers)
    /\ Cardinality(Workers) > SilentRate * (ReadTimeout + 1)

VARIABLES
    up,         \* whether the process runs
    ticked,     \* whether the supervisor thread has made its first pass
    listener,   \* where each listener's thread stands
    backlog,    \* per surface: connections not accepted yet, oldest first
    worker,     \* per surface and worker: what it is doing
    opened      \* per surface: what was opened in this second

surfaceVars == <<up, ticked, listener, backlog, worker, opened>>

(* A worker is free, at work on a request, or stalled for some seconds yet. *)
Free       == [at |-> "free", left |-> 0]
Asked      == [at |-> "asked", left |-> 0]
Stall(sec) == [at |-> "stalled", left |-> sec]

Nothing == [silent |-> 0, asked |-> FALSE]

SurfacesInit ==
    /\ up = TRUE
    /\ ticked = FALSE
    /\ listener = [s \in Listeners |-> "starting"]
    /\ backlog = [s \in Listeners |-> << >>]
    /\ worker = [s \in Listeners |-> [w \in Workers |-> Free]]
    /\ opened = [s \in Listeners |-> Nothing]

-----------------------------------------------------------------------------
(* The supervisor's thread, spawned first and scheduled like any other. *)

FirstTick ==
    /\ up
    /\ ~ticked
    /\ ticked' = TRUE
    /\ UNCHANGED <<up, listener, backlog, worker, opened>>

(* A halt or the outage's last rung, at the end of a pass.  Nothing else    *)
(* ends the process: the scope waits for every thread of it, this one       *)
(* included, before anything that a join collected is looked at.            *)
SupervisorExits ==
    /\ up
    /\ ticked
    /\ up' = FALSE
    /\ UNCHANGED <<ticked, listener, backlog, worker, opened>>

-----------------------------------------------------------------------------
(* A listener's thread. *)

Binds(s) ==
    /\ up
    /\ listener[s] = "starting"
    /\ listener' = [listener EXCEPT ![s] = "serving"]
    /\ UNCHANGED <<up, ticked, backlog, worker, opened>>

(* The address is taken: the thread ends, and its result waits to be joined.*)
BindFails(s) ==
    /\ up
    /\ listener[s] = "starting"
    /\ listener' = [listener EXCEPT ![s] = "stopped"]
    /\ UNCHANGED <<up, ticked, backlog, worker, opened>>

(* accept_serially: any free worker takes the oldest connection. *)
Accepts(s, w) ==
    /\ up
    /\ worker[s][w] = Free
    /\ backlog[s] # << >>
    /\ worker' = [worker EXCEPT ![s][w] = IF Head(backlog[s]) = "ask" THEN Asked
                                            ELSE Stall(ReadTimeout)]
    /\ backlog' = [backlog EXCEPT ![s] = Tail(@)]
    /\ UNCHANGED <<up, ticked, listener, opened>>

(* Mutant of Answers: an answered connection keeps its worker. *)
AnswersAndStays(s, w) ==
    /\ up
    /\ worker[s][w] = Asked
    /\ UNCHANGED surfaceVars

Answers(s, w) ==
    /\ up
    /\ worker[s][w] = Asked
    /\ worker' = [worker EXCEPT ![s][w] = Free]
    /\ UNCHANGED <<up, ticked, listener, backlog, opened>>

(* Mutant of TimesOut: the worker waits for the same connection again. *)
TimesOutAndStays(s, w) ==
    /\ up
    /\ worker[s][w] = Stall(0)
    /\ worker' = [worker EXCEPT ![s][w] = Stall(ReadTimeout)]
    /\ UNCHANGED <<up, ticked, listener, backlog, opened>>

(* The read timeout, and the worker accepts again. *)
TimesOut(s, w) ==
    /\ up
    /\ worker[s][w] = Stall(0)
    /\ worker' = [worker EXCEPT ![s][w] = Free]
    /\ UNCHANGED <<up, ticked, listener, backlog, opened>>

-----------------------------------------------------------------------------
(* Whoever connects, and time. *)

AskWaits(s) ==
    \/ \E i \in 1..Len(backlog[s]) : backlog[s][i] = "ask"
    \/ \E w \in Workers : worker[s][w] = Asked

Asks(s) ==
    /\ up
    /\ listener[s] = "serving"
    /\ ~AskWaits(s)
    /\ ~opened[s].asked
    /\ Len(backlog[s]) < Backlog
    /\ backlog' = [backlog EXCEPT ![s] = Append(@, "ask")]
    /\ opened' = [opened EXCEPT ![s].asked = TRUE]
    /\ UNCHANGED <<up, ticked, listener, worker>>

SaysNothing(s) ==
    /\ up
    /\ listener[s] = "serving"
    /\ opened[s].silent < SilentRate
    /\ Len(backlog[s]) < Backlog
    /\ backlog' = [backlog EXCEPT ![s] = Append(@, "silent")]
    /\ opened' = [opened EXCEPT ![s].silent = @ + 1]
    /\ UNCHANGED <<up, ticked, listener, worker>>

(* What a second is long enough for has been done. *)
SecondPasses ==
    /\ up
    /\ \A s \in Listeners, w \in Workers :
          /\ worker[s][w] \notin {Asked, Stall(0)}
          /\ worker[s][w] = Free => backlog[s] = << >>
    /\ worker' = [s \in Listeners |-> [w \in Workers |->
                    IF worker[s][w] = Free THEN Free
                    ELSE Stall(worker[s][w].left - 1)]]
    /\ opened' = [s \in Listeners |-> Nothing]
    /\ UNCHANGED <<up, ticked, listener, backlog>>

SurfacesNext ==
    \/ FirstTick
    \/ SupervisorExits
    \/ \E s \in Listeners :
          \/ Binds(s)
          \/ BindFails(s)
          \/ Asks(s)
          \/ SaysNothing(s)
          \/ \E w \in Workers : Accepts(s, w) \/ Answers(s, w) \/ TimesOut(s, w)
    \/ SecondPasses

SurfacesSpec == SurfacesInit /\ [][SurfacesNext]_surfaceVars

(* Threads are scheduled and time passes; nobody need connect, and the      *)
(* governor need never stop the process.                                    *)
SurfacesFairSpec ==
    /\ SurfacesSpec
    /\ WF_surfaceVars(FirstTick)
    /\ WF_surfaceVars(SecondPasses)
    /\ \A s \in Listeners :
          /\ WF_surfaceVars(Binds(s) \/ BindFails(s))
          /\ \A w \in Workers : WF_surfaceVars(Accepts(s, w) \/ Answers(s, w) \/ TimesOut(s, w))

-----------------------------------------------------------------------------
(* Properties. *)

(* While silent connections are opened no faster than the pool is sized     *)
(* for, they never hold all of it: whatever second they came in, and even   *)
(* before the first of them times out, some worker is not stalled.          *)
(* (WORKERS beside READ_TIMEOUT)                                            *)
SilenceLeavesAWorker ==
    \A s \in Listeners : \E w \in Workers : worker[s][w] \in {Free, Asked}

(* Whoever asks is answered, on any surface and however many stalls are     *)
(* ahead of them, unless the process stops.  (accept_loop, handle)          *)
AsksAreAnswered ==
    \A s \in Listeners : AskWaits(s) ~> ~AskWaits(s) \/ ~up

-----------------------------------------------------------------------------
(* A claim of the source that does not hold: a listener that stopped ends   *)
(* the process, which then says so.                                         *)
StoppedListenerIsReported ==
    \A s \in Listeners : listener[s] = "stopped" ~> ~up
=============================================================================
