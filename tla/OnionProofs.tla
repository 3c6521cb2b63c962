----------------------------- MODULE OnionProofs -----------------------------
(***************************************************************************)
(* Theorems of Onion, for every timeout, every number of daemons and of     *)
(* restarts: no daemon of this process is lost while it lives, none is left *)
(* by a loop that has returned but the one begin_shutdown is killing, and   *)
(* every delay was earned.                                                  *)
(***************************************************************************)
EXTENDS Onion, WellFoundedInduction, TLAPS

Emptying == {"leaving", "shedding", "abandoning"}
Places   == {"check", "leaves", "notice", "decide", "sheds", "spawn", "store", "watch", "await",
             "abandons", "rest", "sleep", "returned"} \cup Emptying
Stoppers == {"watching", "flagged", "killing", "exiting", "gone"}

FlagsOK ==
    /\ hostname \in BOOLEAN
    /\ shuttingDown \in BOOLEAN
    /\ published \in BOOLEAN

Takings   == [loop : Daemons \cup {NoDaemon}, stopper : Daemons \cup {NoDaemon}]
Histories == [orphans : SUBSET Daemons, starts : Int, crashes : Int, failedSpawns : Int]

PlacesOK ==
    /\ level \in Levels
    /\ running \subseteq Daemons
    /\ stopper \in Stoppers
    /\ at \in Places
    /\ live \in Daemons \cup {NoDaemon}
    /\ taken \in Takings
    /\ child \in Daemons \cup {NoDaemon}
    /\ failures \in 0..MaxFailures
    /\ retry \in Int
    /\ age \in Int
    /\ stable \in Int
    /\ past \in Histories

OnionTypeOK == FlagsOK /\ PlacesOK

(* Where a daemon may be: one is spawned while none is live, it is in hand  *)
(* until it is stored; a thread has one out of LIVE only until it kills it; *)
(* the loop returns once it has emptied LIVE, unless the process exits; and *)
(* a process that is gone has only orphans.                                 *)
DaemonInHand ==
    /\ stopper = "gone" => at = "returned" /\ running \subseteq past.orphans
    /\ child # NoDaemon => at = "store" \/ stopper = "gone"
    /\ taken.loop # NoDaemon => at \in Emptying \/ stopper = "gone"
    /\ taken.stopper # NoDaemon => stopper = "killing"
    /\ at \in {"spawn", "store"} => live = NoDaemon
    /\ at \in {"leaving", "returned"} => live = NoDaemon \/ stopper = "gone"

(* What is left of a pass that began before the process was stopping. *)
LastPass == shuttingDown /\ at \in {"sleep", "check", "leaves", "leaving", "returned"}

(* The streak's clock runs only while a daemon has published and nothing is *)
(* waited for; a pass that the stopping thread overtook may leave it        *)
(* running, and is the last.                                                *)
ClockOfTheStreak ==
    /\ stopper # "watching" => shuttingDown
    /\ at \in {"leaves", "leaving"} => shuttingDown
    /\ stable # Unset /\ ~published => LastPass
    /\ stable # Unset /\ retry # Unset => LastPass
    /\ stable # Unset /\ live = NoDaemon => shuttingDown \/ at = "shedding"
    /\ at \in {"await", "abandons", "abandoning"} => ~published
    /\ at = "await" /\ live = NoDaemon => shuttingDown

OnionInv ==
    /\ OnionTypeOK
    /\ DaemonInHand
    /\ NoDaemonLost
    /\ ClockOfTheStreak
    /\ DelaysAreEarned

-----------------------------------------------------------------------------
(* The least of some numbers is one of them. *)
LEMMA MinIsMember ==
    ASSUME NEW S \in SUBSET Nat, S # {}
    PROVE  Min(S) \in S
<1> DEFINE R == {ss \in Nat \X Nat : ss[1] < ss[2]}
<1>1. IsWellFoundedOn(R, Nat)
  BY NatLessThanWellFounded DEF OpToRel
<1> HIDE DEF R
<1>2. PICK x \in S : \A y \in S : ~(<<y, x>> \in R)
  BY <1>1, WFMin
<1>3. \A y \in S : x <= y
  <2> SUFFICES ASSUME NEW y \in S PROVE x <= y
    OBVIOUS
  <2>1. ~(y < x)
    BY <1>2 DEF R
  <2> QED BY <2>1
<1> QED BY <1>3 DEF Min

(* A failure counts, and it earns a delay that is a number. *)
LEMMA FailuresCount ==
    /\ \A n \in 0..MaxFailures : OneMore(n) \in 1..MaxFailures
    /\ \A n \in 0..MaxFailures : NextWait(n) \in Int
  BY DEF OneMore, NextWait, MaxFailures

(* There is nothing of this process to be found at first. *)
LEMMA OnionStarts ==
    ASSUME OnionInit
    PROVE  OnionInv
<1> USE DEF OnionInit, Unset, NoDaemon, NothingTaken
<1>1. FlagsOK BY Zenon DEF FlagsOK
<1>6. PlacesOK BY DEF PlacesOK, Places, Stoppers, Takings, Histories, MaxFailures
<1>2. DaemonInHand BY DEF DaemonInHand
<1>3. NoDaemonLost BY DEF NoDaemonLost
<1>4. ClockOfTheStreak BY DEF ClockOfTheStreak
<1>5. DelaysAreEarned BY DEF DelaysAreEarned
<1> QED BY <1>1, <1>2, <1>3, <1>4, <1>5, <1>6 DEF OnionInv, OnionTypeOK

(* What is true or false stays so, whatever a step does. *)
LEMMA FlagsKept ==
    ASSUME FlagsOK, [OnionNext]_onionVars
    PROVE  FlagsOK'
<1> USE DEF FlagsOK, statics, book, world
<1>1. CASE CheckShutdown
  BY Zenon, <1>1 DEF CheckShutdown
<1>2. CASE LoopTakes
  BY Zenon, <1>2 DEF LoopTakes, Take, Stopping
<1>3. CASE Leave
  BY Zenon, <1>3 DEF Leave, Kill
<1>4. CASE NoticeExit
  BY Zenon, <1>4 DEF NoticeExit
<1>5. CASE TooHot
  BY Zenon, <1>5 DEF TooHot
<1>6. CASE Shed
  BY Zenon, <1>6 DEF Shed, Kill
<1>7. CASE Decide
  BY Zenon, <1>7 DEF Decide
<1>8. CASE Watch
  BY Zenon, <1>8 DEF Watch
<1>9. CASE Spawn
  BY Zenon, <1>9 DEF Spawn
<1>10. CASE SpawnFails
  BY Zenon, <1>10 DEF SpawnFails
<1>11. CASE Store
  BY Zenon, <1>11 DEF Store
<1>12. CASE Publish
  BY Zenon, <1>12 DEF Publish
<1>13. CASE NotPublished
  BY Zenon, <1>13 DEF NotPublished
<1>14. CASE Abandon
  BY Zenon, <1>14 DEF Abandon, Kill
<1>15. CASE Rest
  BY Zenon, <1>15 DEF Rest
<1>16. CASE Sleep
  BY Zenon, <1>16 DEF Sleep, Older
<1>17. CASE BeginShutdown
  BY Zenon, <1>17 DEF BeginShutdown
<1>18. CASE StopDaemon
  BY Zenon, <1>18 DEF StopDaemon, Take
<1>19. CASE KillDaemon
  BY Zenon, <1>19 DEF KillDaemon, Kill
<1>20. CASE Exit
  BY Zenon, <1>20 DEF Exit
<1>21. CASE StartAgain
  BY Zenon, <1>21 DEF StartAgain, Began
<1>22. CASE LevelChanges
  BY Zenon, <1>22 DEF LevelChanges
<1>23. CASE DaemonPublishes
  BY Zenon, <1>23 DEF DaemonPublishes
<1>24. ASSUME NEW d \in Daemons, DaemonDies(d) PROVE FlagsOK'
  BY Zenon, <1>24 DEF DaemonDies
<1>25. CASE UNCHANGED onionVars
  BY <1>25 DEF onionVars
<1> QED
  BY <1>1, <1>2, <1>3, <1>4, <1>5, <1>6, <1>7, <1>8, <1>9, <1>10, <1>11, <1>12, <1>13,
     <1>14, <1>15, <1>16, <1>17, <1>18, <1>19, <1>20, <1>21, <1>22, <1>23, <1>24, <1>25
     DEF OnionNext, Supervise, Stops

(* Every step leaves the loop, its clocks and the daemons what they are.     *)
LEMMA PlacesKept ==
    ASSUME OnionAssumption, PlacesOK, [OnionNext]_onionVars
    PROVE  PlacesOK'
<1> USE FailuresCount DEF PlacesOK, OnionAssumption, Places, Emptying, Stoppers, Takings, Unset,
        NoDaemon, Daemons, statics, book, world, Alive, MaxFailures
<1>1. CASE CheckShutdown
  BY <1>1 DEF CheckShutdown
<1>2. CASE LoopTakes
  <2>1. at' \in Emptying
    BY <1>2 DEF LoopTakes, Stopping, Emptying
  <2>2. live' \in Daemons \cup {NoDaemon} /\ taken' \in Takings
    BY <1>2 DEF LoopTakes, Take
  <2> HIDE DEF Daemons, Emptying
  <2> QED BY <1>2, <2>1, <2>2 DEF LoopTakes
<1>3. CASE Leave
  <2>1. running' \subseteq Daemons /\ taken' \in Takings
    BY <1>3 DEF Leave, Kill
  <2> HIDE DEF Daemons
  <2> QED BY <1>3, <2>1 DEF Leave
<1>4. CASE NoticeExit
  <2>1. /\ failures' \in 0..MaxFailures
        /\ retry' \in Int
        /\ age' \in Int
        /\ stable' \in Int
    BY <1>4 DEF NoticeExit
  <2> HIDE DEF Daemons, Unset, MaxFailures
  <2> QED BY <1>4, <2>1 DEF NoticeExit
<1>5. CASE TooHot
  BY <1>5 DEF TooHot
<1>6. CASE Shed
  <2>1. running' \subseteq Daemons /\ taken' \in Takings
    BY <1>6 DEF Shed, Kill
  <2>2. failures' \in 0..MaxFailures /\ retry' \in Int /\ age' \in Int /\ stable' \in Int
    BY <1>6 DEF Shed
  <2> HIDE DEF Daemons, Unset, MaxFailures
  <2> QED BY <1>6, <2>1, <2>2 DEF Shed
<1>7. CASE Decide
  BY <1>7 DEF Decide
<1>8. CASE Watch
  BY <1>8 DEF Watch
<1>9. CASE Spawn
  <2>1. Daemons \ (running \cup Held) \in SUBSET Nat
    OBVIOUS
  <2>2. child' \in Daemons
    BY <1>9, <2>1, MinIsMember DEF Spawn
  <2>3. past' \in Histories
    BY <1>9, <2>2 DEF Spawn, Histories
  <2> HIDE DEF Daemons
  <2> QED BY <1>9, <2>2, <2>3 DEF Spawn
<1>10. CASE SpawnFails
  <2>1. failures' \in 0..MaxFailures /\ retry' \in Int
    BY <1>10 DEF SpawnFails
  <2>2. past' \in Histories
    BY <1>10 DEF SpawnFails, Histories
  <2> QED BY <1>10, <2>1, <2>2 DEF SpawnFails
<1>11. CASE Store
  BY <1>11 DEF Store
<1>12. CASE Publish
  BY <1>12 DEF Publish
<1>13. CASE NotPublished
  BY <1>13 DEF NotPublished
<1>14. CASE Abandon
  <2>1. running' \subseteq Daemons /\ taken' \in Takings
    BY <1>14 DEF Abandon, Kill
  <2>2. failures' \in 0..MaxFailures /\ retry' \in Int /\ age' \in Int
    BY <1>14 DEF Abandon
  <2> HIDE DEF Daemons, Unset, MaxFailures
  <2> QED BY <1>14, <2>1, <2>2 DEF Abandon
<1>15. CASE Rest
  BY <1>15 DEF Rest
<1>16. CASE Sleep
  BY <1>16 DEF Sleep, Older
<1>17. CASE BeginShutdown
  BY <1>17 DEF BeginShutdown
<1>18. CASE StopDaemon
  <2>1. live' \in Daemons \cup {NoDaemon} /\ taken' \in Takings
    BY <1>18 DEF StopDaemon, Take
  <2> HIDE DEF Daemons
  <2> QED BY <1>18, <2>1 DEF StopDaemon
<1>19. CASE KillDaemon
  <2>1. running' \subseteq Daemons /\ taken' \in Takings
    BY <1>19 DEF KillDaemon, Kill
  <2> HIDE DEF Daemons
  <2> QED BY <1>19, <2>1 DEF KillDaemon
<1>20. CASE Exit
  BY <1>20 DEF Exit, Histories
<1>21. CASE StartAgain
  BY <1>21 DEF StartAgain, Began, NothingTaken, Histories
<1>22. CASE LevelChanges
  BY <1>22 DEF LevelChanges
<1>23. CASE DaemonPublishes
  BY <1>23 DEF DaemonPublishes
<1>24. ASSUME NEW d \in Daemons, DaemonDies(d) PROVE PlacesOK'
  BY <1>24 DEF DaemonDies, Histories
<1>25. CASE UNCHANGED onionVars
  BY <1>25 DEF onionVars
<1> QED
  BY <1>1, <1>2, <1>3, <1>4, <1>5, <1>6, <1>7, <1>8, <1>9, <1>10, <1>11, <1>12, <1>13,
     <1>14, <1>15, <1>16, <1>17, <1>18, <1>19, <1>20, <1>21, <1>22, <1>23, <1>24, <1>25
     DEF OnionNext, Supervise, Stops

(* No step loses a daemon.  A spawn finds LIVE empty, since the loop alone    *)
(* fills it; and whoever takes a daemon out has killed the one before.        *)
LEMMA DaemonsKept ==
    ASSUME OnionAssumption, PlacesOK, DaemonInHand, NoDaemonLost, [OnionNext]_onionVars
    PROVE  (DaemonInHand /\ NoDaemonLost)'
<1> USE DEF OnionAssumption, PlacesOK, DaemonInHand, NoDaemonLost, Held, Takings, Emptying, Daemons,
        NoDaemon, statics, book, world, Alive
<1>1. CASE CheckShutdown
  BY <1>1 DEF CheckShutdown
<1>2. CASE LoopTakes
  BY <1>2 DEF LoopTakes, Take, Stopping
<1>3. CASE Leave
  BY <1>3 DEF Leave, Kill
<1>4. CASE NoticeExit
  BY <1>4 DEF NoticeExit
<1>5. CASE TooHot
  BY <1>5 DEF TooHot
<1>6. CASE Shed
  BY <1>6 DEF Shed, Kill
<1>7. CASE Decide
  BY <1>7 DEF Decide
<1>8. CASE Watch
  BY <1>8 DEF Watch
<1>9. CASE Spawn
  BY <1>9 DEF Spawn, Histories
<1>10. CASE SpawnFails
  BY <1>10 DEF SpawnFails
<1>11. CASE Store
  BY <1>11 DEF Store
<1>12. CASE Publish
  BY <1>12 DEF Publish
<1>13. CASE NotPublished
  BY <1>13 DEF NotPublished
<1>14. CASE Abandon
  BY <1>14 DEF Abandon, Kill
<1>15. CASE Rest
  BY <1>15 DEF Rest
<1>16. CASE Sleep
  BY <1>16 DEF Sleep, Older
<1>17. CASE BeginShutdown
  BY <1>17 DEF BeginShutdown
<1>18. CASE StopDaemon
  BY <1>18 DEF StopDaemon, Take
<1>19. CASE KillDaemon
  BY <1>19 DEF KillDaemon, Kill
<1>20. CASE Exit
  BY <1>20 DEF Exit, Histories
<1>21. CASE StartAgain
  BY <1>21 DEF StartAgain, Began, NothingTaken
<1>22. CASE LevelChanges
  BY <1>22 DEF LevelChanges
<1>23. CASE DaemonPublishes
  BY <1>23 DEF DaemonPublishes
<1>24. ASSUME NEW d \in Daemons, DaemonDies(d) PROVE (DaemonInHand /\ NoDaemonLost)'
  BY <1>24 DEF DaemonDies
<1>25. CASE UNCHANGED onionVars
  BY <1>25 DEF onionVars
<1> QED
  BY <1>1, <1>2, <1>3, <1>4, <1>5, <1>6, <1>7, <1>8, <1>9, <1>10, <1>11, <1>12, <1>13,
     <1>14, <1>15, <1>16, <1>17, <1>18, <1>19, <1>20, <1>21, <1>22, <1>23, <1>24, <1>25
     DEF OnionNext, Supervise, Stops

(* No step leaves a delay without its failure: resting clears the streak     *)
(* only where its clock runs, and there no delay does, unless the thread that *)
(* stops the process came between, and then the loop never rests again.      *)
LEMMA DelaysKept ==
    ASSUME OnionAssumption, PlacesOK, DaemonInHand, ClockOfTheStreak, DelaysAreEarned, [OnionNext]_onionVars
    PROVE  (ClockOfTheStreak /\ DelaysAreEarned)'
<1> USE FailuresCount DEF PlacesOK, DaemonInHand, ClockOfTheStreak, LastPass, DelaysAreEarned, Unset,
        NoDaemon, statics, book, world
<1>1. CASE CheckShutdown
  BY <1>1 DEF CheckShutdown
<1>2. CASE LoopTakes
  BY <1>2 DEF LoopTakes, Take, Stopping
<1>3. CASE Leave
  BY <1>3 DEF Leave, Kill
<1>4. CASE NoticeExit
  BY <1>4 DEF NoticeExit
<1>5. CASE TooHot
  BY <1>5 DEF TooHot
<1>6. CASE Shed
  BY <1>6 DEF Shed, Kill
<1>7. CASE Decide
  BY <1>7 DEF Decide
<1>8. CASE Watch
  BY <1>8 DEF Watch
<1>9. CASE Spawn
  BY <1>9 DEF Spawn
<1>10. CASE SpawnFails
  BY <1>10 DEF SpawnFails
<1>11. CASE Store
  BY <1>11 DEF Store
<1>12. CASE Publish
  BY <1>12 DEF Publish
<1>13. CASE NotPublished
  BY <1>13 DEF NotPublished
<1>14. CASE Abandon
  BY <1>14 DEF Abandon, Kill
<1>15. CASE Rest
  BY <1>15 DEF Rest
<1>16. CASE Sleep
  BY <1>16 DEF Sleep, Older
<1>17. CASE BeginShutdown
  BY <1>17 DEF BeginShutdown
<1>18. CASE StopDaemon
  BY <1>18 DEF StopDaemon, Take
<1>19. CASE KillDaemon
  BY <1>19 DEF KillDaemon, Kill
<1>20. CASE Exit
  BY <1>20 DEF Exit
<1>21. CASE StartAgain
  BY <1>21 DEF StartAgain, Began
<1>22. CASE LevelChanges
  BY <1>22 DEF LevelChanges
<1>23. CASE DaemonPublishes
  BY <1>23 DEF DaemonPublishes
<1>24. ASSUME NEW d \in Daemons, DaemonDies(d) PROVE (ClockOfTheStreak /\ DelaysAreEarned)'
  BY <1>24 DEF DaemonDies
<1>25. CASE UNCHANGED onionVars
  BY <1>25 DEF onionVars
<1> QED
  BY <1>1, <1>2, <1>3, <1>4, <1>5, <1>6, <1>7, <1>8, <1>9, <1>10, <1>11, <1>12, <1>13,
     <1>14, <1>15, <1>16, <1>17, <1>18, <1>19, <1>20, <1>21, <1>22, <1>23, <1>24, <1>25
     DEF OnionNext, Supervise, Stops

-----------------------------------------------------------------------------
(* The invariant of supervise's loop beside begin_shutdown and the daemons. *)
THEOREM OnionInvariant ==
    OnionSpec => []OnionInv
<1>1. OnionInit => OnionInv BY OnionStarts
<1>2. OnionInv /\ [OnionNext]_onionVars => OnionInv'
  <2> SUFFICES ASSUME OnionInv, [OnionNext]_onionVars PROVE OnionInv'
    OBVIOUS
  <2>1. FlagsOK' BY FlagsKept DEF OnionInv, OnionTypeOK
  <2>2. PlacesOK' BY PlacesKept, OnionAssumption DEF OnionInv, OnionTypeOK
  <2>3. (DaemonInHand /\ NoDaemonLost)'
    BY DaemonsKept, OnionAssumption DEF OnionInv, OnionTypeOK
  <2>4. (ClockOfTheStreak /\ DelaysAreEarned)'
    BY DelaysKept, OnionAssumption DEF OnionInv, OnionTypeOK
  <2> QED BY <2>1, <2>2, <2>3, <2>4 DEF OnionInv, OnionTypeOK
<1> QED BY <1>1, <1>2, PTL DEF OnionSpec

(* Every variable of the loop stays what its type in the code is. *)
THEOREM OnionTypes == OnionSpec => []OnionTypeOK
<1>1. OnionInv => OnionTypeOK BY DEF OnionInv
<1> QED BY <1>1, OnionInvariant, PTL

(* A daemon that this process started and that runs is in LIVE, or one      *)
(* thread is about to store it there or to kill it, however stopping,       *)
(* shedding and giving up fall between (start, stop).                       *)
THEOREM NoDaemonIsLost == OnionSpec => []NoDaemonLost
<1>1. OnionInv => NoDaemonLost BY DEF OnionInv
<1> QED BY <1>1, OnionInvariant, PTL

(* A loop that has returned left no daemon running but the one that         *)
(* begin_shutdown took and is about to kill.                                *)
THEOREM NothingIsLeft == OnionSpec => []NothingLeftOnceReturned
<1>1. OnionInv => NothingLeftOnceReturned
  BY OnionAssumption DEF OnionInv, OnionTypeOK, PlacesOK, DaemonInHand, NoDaemonLost,
     NothingLeftOnceReturned, Held, Takings, Emptying, Daemons, NoDaemon
<1> QED BY <1>1, OnionInvariant, PTL

(* No delay without a failure that still counts (retry_at, next_wait).      *)
THEOREM DelaysStayEarned == OnionSpec => []DelaysAreEarned
<1>1. OnionInv => DelaysAreEarned BY DEF OnionInv
<1> QED BY <1>1, OnionInvariant, PTL
=============================================================================
