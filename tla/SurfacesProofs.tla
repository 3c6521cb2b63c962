--------------------------- MODULE SurfacesProofs ---------------------------
(***************************************************************************)
(* Theorems of Surfaces, for every set of listeners, every backlog and      *)
(* every pool that is larger than what can be stalled at a time: silence    *)
(* never holds all of it.                                                   *)
(***************************************************************************)
EXTENDS Surfaces, FunctionTheorems, FiniteSetTheorems, TLAPS

Stalled(s, k) == {w \in Workers : worker[s][w] = Stall(k)}

(* The places in a backlog that hold a connection which says nothing. *)
Quiet(queue) == {i \in 1..Len(queue) : queue[i] = "silent"}

SurfacesTypeOK ==
    /\ up \in BOOLEAN
    /\ ticked \in BOOLEAN
    /\ listener \in [Listeners -> {"starting", "serving", "stopped"}]
    /\ backlog \in [Listeners -> Seq({"ask", "silent"})]
    /\ worker \in [Listeners -> [Workers -> {Free, Asked} \cup {Stall(k) : k \in 0..ReadTimeout}]]
    /\ opened \in [Listeners -> [silent : 0..SilentRate, asked : BOOLEAN]]

(* Workers that began to wait in one second of the past are as many as that *)
(* second's silent connections at most; this second's wait for a worker, or *)
(* have one.                                                                *)
Counted(s) ==
    /\ \A k \in 0..ReadTimeout : k < ReadTimeout => Cardinality(Stalled(s, k)) <= SilentRate
    /\ Cardinality(Stalled(s, ReadTimeout)) + Cardinality(Quiet(backlog[s])) <= opened[s].silent

SilenceIsCounted == \A s \in Listeners : Counted(s)

SurfacesInv == SurfacesTypeOK /\ SilenceIsCounted

-----------------------------------------------------------------------------
(* A finite set whose members fall on m + 1 levels, n of them on each at    *)
(* most, has (m + 1) * n members at most.                                   *)
LEMMA LevelsBound ==
    ASSUME NEW S, IsFiniteSet(S), NEW m \in Nat, NEW n \in Nat, NEW level \in [S -> 0..m],
           \A k \in 0..m : Cardinality({x \in S : level[x] = k}) <= n
    PROVE  Cardinality(S) <= n * (m + 1)
<1> DEFINE On(k) == {x \in S : level[x] = k}
           Number(k) == CHOOSE f : f \in Injection(On(k), 1..n)
           place == [x \in S |-> <<level[x], Number(level[x])[x]>>]
<1>1. ASSUME NEW k \in 0..m
      PROVE  Number(k) \in Injection(On(k), 1..n)
  <2>1. On(k) \in SUBSET S OBVIOUS
  <2>2. IsFiniteSet(On(k))
    <3> HIDE DEF On
    <3> QED BY <2>1, FS_Subset
  <2> DEFINE c == Cardinality(On(k))
  <2>3. c \in Nat /\ ExistsBijection(1..c, On(k)) BY <2>2, FS_CardinalityType
  <2>4. PICK b : b \in Bijection(1..c, On(k)) BY <2>3 DEF ExistsBijection
  <2>5. Inverse(b, 1..c, On(k)) \in Bijection(On(k), 1..c) BY <2>4, Fun_BijInverse
  <2>6. c <= n OBVIOUS
  <2>7. 1..c \subseteq 1..n
    <3> HIDE DEF c
    <3> QED BY <2>3, <2>6
  <2>8. Inverse(b, 1..c, On(k)) \in Injection(On(k), 1..n)
    BY <2>5, <2>7 DEF Bijection, Injection
  <2> QED BY <2>8
<1> HIDE DEF Number
<1>2. ASSUME NEW x \in S
      PROVE  /\ level[x] \in 0..m
             /\ x \in On(level[x])
             /\ Number(level[x])[x] \in 1..n
  BY <1>1 DEF Injection
<1>3. place \in [S -> (0..m) \X (1..n)]
  BY <1>2
<1>4. ASSUME NEW x \in S, NEW y \in S, place[x] = place[y]
      PROVE  x = y
  <2>1. level[x] = level[y] /\ Number(level[x])[x] = Number(level[x])[y]
    BY <1>4
  <2>2. x \in On(level[x]) /\ y \in On(level[x])
    BY <2>1
  <2> QED BY <1>1, <1>2, <2>1, <2>2 DEF Injection, IsInjective
<1>5. place \in Injection(S, (0..m) \X (1..n))
  BY <1>3, <1>4 DEF Injection, IsInjective
<1>6. IsFiniteSet(0..m) /\ Cardinality(0..m) = m + 1
  <2>1. 0 \in Int /\ m \in Int /\ ~(0 > m) /\ m - 0 + 1 = m + 1 OBVIOUS
  <2> QED BY <2>1, FS_Interval
<1>7. IsFiniteSet(1..n) /\ Cardinality(1..n) = n
  <2>1. 1 \in Int /\ n \in Int /\ (1 > n => n = 0) /\ n - 1 + 1 = n OBVIOUS
  <2> QED BY <2>1, FS_Interval
<1> DEFINE pairs == (0..m) \X (1..n)
<1>8. /\ IsFiniteSet(pairs)
      /\ Cardinality(pairs) = Cardinality(0..m) * Cardinality(1..n)
  BY <1>6, <1>7, FS_Product
<1>9. Cardinality(S) <= Cardinality(pairs)
  BY <1>5, <1>8, FS_Injection
<1>10. Cardinality(pairs) = (m + 1) * n
  BY <1>6, <1>7, <1>8
<1>11. (m + 1) * n = n * (m + 1)
  OBVIOUS
<1> QED BY <1>9, <1>10, <1>11

(* The silent connections in a queue are finitely many. *)
LEMMA QuietIsFinite ==
    ASSUME NEW queue \in Seq({"ask", "silent"})
    PROVE  IsFiniteSet(Quiet(queue)) /\ Cardinality(Quiet(queue)) \in Nat
<1>1. IsFiniteSet(1..Len(queue))
  <2>1. 1 \in Int /\ Len(queue) \in Int OBVIOUS
  <2> QED BY <2>1, FS_Interval
<1>2. Quiet(queue) \in SUBSET (1..Len(queue)) BY DEF Quiet
<1> QED BY <1>1, <1>2, FS_Subset, FS_CardinalityType

(* A connection joins at the end of its queue. *)
LEMMA QuietJoins ==
    ASSUME NEW queue \in Seq({"ask", "silent"}), NEW c \in {"ask", "silent"}
    PROVE  Cardinality(Quiet(Append(queue, c)))
             = Cardinality(Quiet(queue)) + (IF c = "silent" THEN 1 ELSE 0)
<1>1. Len(queue) + 1 \notin Quiet(queue) BY DEF Quiet
<1>2. Quiet(Append(queue, c))
        = IF c = "silent" THEN Quiet(queue) \cup {Len(queue) + 1} ELSE Quiet(queue)
  BY DEF Quiet
<1>3. Cardinality(Quiet(queue) \cup {Len(queue) + 1}) = Cardinality(Quiet(queue)) + 1
  BY <1>1, QuietIsFinite, FS_AddElement
<1>4. Cardinality(Quiet(queue)) \in Nat BY QuietIsFinite
<1> QED BY <1>2, <1>3, <1>4

(* The oldest leaves it, and the others move up. *)
LEMMA QuietLeaves ==
    ASSUME NEW queue \in Seq({"ask", "silent"}), queue # << >>
    PROVE  Cardinality(Quiet(Tail(queue)))
             = Cardinality(Quiet(queue)) - (IF Head(queue) = "silent" THEN 1 ELSE 0)
<1> DEFINE rest == Quiet(queue) \ {1}
           up1  == [i \in Quiet(Tail(queue)) |-> i + 1]
<1>1. /\ Tail(queue) \in Seq({"ask", "silent"})
      /\ Len(Tail(queue)) = Len(queue) - 1
      /\ \A i \in 1..Len(Tail(queue)) : Tail(queue)[i] = queue[i + 1]
  OBVIOUS
<1>2. Len(queue) \in Nat \ {0} OBVIOUS
<1>3. up1 \in Injection(Quiet(Tail(queue)), rest)
  <2>1. \A i \in Quiet(Tail(queue)) : i \in Nat /\ i + 1 \in rest
    BY <1>1, <1>2 DEF Quiet
  <2> QED BY <2>1 DEF Injection, IsInjective
<1>4. up1 \in Surjection(Quiet(Tail(queue)), rest)
  <2>1. ASSUME NEW j \in rest
        PROVE  j - 1 \in Quiet(Tail(queue)) /\ up1[j - 1] = j
    BY <1>1, <1>2 DEF Quiet
  <2>2. up1 \in [Quiet(Tail(queue)) -> rest]
    BY <1>3 DEF Injection
  <2> HIDE DEF up1, rest
  <2>3. \A j \in rest : \E i \in Quiet(Tail(queue)) : up1[i] = j
    BY <2>1
  <2> QED BY <2>2, <2>3 DEF Surjection
<1>5. ExistsBijection(Quiet(Tail(queue)), rest)
  BY <1>3, <1>4 DEF Bijection, ExistsBijection
<1>6. Cardinality(rest) = Cardinality(Quiet(Tail(queue)))
  <2>1. IsFiniteSet(Quiet(Tail(queue))) BY <1>1, QuietIsFinite
  <2> HIDE DEF rest
  <2> QED BY <1>5, <2>1, FS_Bijection
<1>7. 1 \in Quiet(queue) <=> Head(queue) = "silent"
  BY <1>2 DEF Quiet
<1>8. Cardinality(rest) = Cardinality(Quiet(queue)) - (IF Head(queue) = "silent" THEN 1 ELSE 0)
  <2>1. Cardinality(rest) = IF 1 \in Quiet(queue) THEN Cardinality(Quiet(queue)) - 1
                            ELSE Cardinality(Quiet(queue))
    BY QuietIsFinite, FS_RemoveElement
  <2>2. Cardinality(Quiet(queue)) \in Nat BY QuietIsFinite
  <2> HIDE DEF rest
  <2> QED BY <1>7, <2>1, <2>2
<1> QED BY <1>6, <1>8

-----------------------------------------------------------------------------
(* Silence that is counted cannot hold a pool that outnumbers it. *)
LEMMA CountedSilenceLeavesAWorker ==
    ASSUME SurfacesInv
    PROVE  SilenceLeavesAWorker
<1> SUFFICES ASSUME NEW s \in Listeners, \A w \in Workers : worker[s][w] \notin {Free, Asked}
             PROVE  FALSE
  BY DEF SilenceLeavesAWorker
<1> DEFINE level == [w \in Workers |-> worker[s][w].left]
<1>1. ASSUME NEW w \in Workers
      PROVE  /\ worker[s][w].left \in 0..ReadTimeout
             /\ \A k : worker[s][w] = Stall(k) <=> worker[s][w].left = k
  <2>1. PICK k \in 0..ReadTimeout : worker[s][w] = Stall(k)
    BY DEF SurfacesInv, SurfacesTypeOK
  <2>2. \A j : Stall(j).left = j BY DEF Stall
  <2> QED BY <2>1, <2>2
<1>2. level \in [Workers -> 0..ReadTimeout]
  BY <1>1
<1>3. ASSUME NEW k \in 0..ReadTimeout
      PROVE  Cardinality({w \in Workers : level[w] = k}) <= SilentRate
  <2>1. {w \in Workers : level[w] = k} = Stalled(s, k)
    BY <1>1 DEF Stalled
  <2>2. Cardinality(Quiet(backlog[s])) \in Nat
    BY QuietIsFinite DEF SurfacesInv, SurfacesTypeOK
  <2>3. Cardinality(Stalled(s, k)) \in Nat
    <3>1. Stalled(s, k) \in SUBSET Workers BY DEF Stalled
    <3> QED BY <3>1, PoolAssumption, FS_Subset, FS_CardinalityType
  <2>4. opened[s].silent \in 0..SilentRate
    BY DEF SurfacesInv, SurfacesTypeOK
  <2>5. Cardinality(Stalled(s, k)) <= SilentRate
    BY <2>2, <2>3, <2>4, SurfacesAssumption DEF SurfacesInv, SilenceIsCounted, Counted
  <2> QED BY <2>1, <2>5
<1>4. Cardinality(Workers) <= SilentRate * (ReadTimeout + 1)
  <2> HIDE DEF level
  <2> QED BY <1>2, <1>3, LevelsBound, PoolAssumption, SurfacesAssumption
<1>5. Cardinality(Workers) \in Nat
  BY PoolAssumption, FS_CardinalityType
<1>6. SilentRate * (ReadTimeout + 1) \in Nat
  BY SurfacesAssumption
<1> QED BY <1>4, <1>5, <1>6, PoolAssumption

(* So are the workers of a surface with so long left to wait. *)
LEMMA StalledIsFinite ==
    ASSUME NEW s, NEW k
    PROVE  IsFiniteSet(Stalled(s, k)) /\ Cardinality(Stalled(s, k)) \in Nat
<1>1. Stalled(s, k) \in SUBSET Workers BY DEF Stalled
<1> QED BY <1>1, PoolAssumption, FS_Subset, FS_CardinalityType

(* A free worker, one that answers and one that waits so long are told      *)
(* apart.                                                                   *)
LEMMA WorkerStates ==
    /\ Free # Asked
    /\ \A k : Stall(k) \notin {Free, Asked} /\ Stall(k).left = k
    /\ \A j, k : Stall(j) = Stall(k) => j = k
  BY DEF Free, Asked, Stall

(* Every step keeps the types of the accept queue, the workers and the      *)
(* clock.                                                                   *)
LEMMA SurfacesTypesKept ==
    ASSUME SurfacesTypeOK, [SurfacesNext]_surfaceVars
    PROVE  SurfacesTypeOK'
<1> USE SurfacesAssumption DEF SurfacesTypeOK
<1>1. CASE FirstTick BY <1>1 DEF FirstTick
<1>2. CASE SupervisorExits BY <1>2 DEF SupervisorExits
<1>3. ASSUME NEW s \in Listeners, Binds(s) PROVE SurfacesTypeOK'
  BY <1>3 DEF Binds
<1>4. ASSUME NEW s \in Listeners, BindFails(s) PROVE SurfacesTypeOK'
  BY <1>4 DEF BindFails
<1>5. ASSUME NEW s \in Listeners, Asks(s) PROVE SurfacesTypeOK'
  <2>1. backlog' \in [Listeners -> Seq({"ask", "silent"})]
    BY <1>5 DEF Asks
  <2>2. opened' \in [Listeners -> [silent : 0..SilentRate, asked : BOOLEAN]]
    BY <1>5 DEF Asks
  <2> QED BY <1>5, <2>1, <2>2 DEF Asks
<1>6. ASSUME NEW s \in Listeners, SaysNothing(s) PROVE SurfacesTypeOK'
  <2>1. backlog' \in [Listeners -> Seq({"ask", "silent"})]
    BY <1>6 DEF SaysNothing
  <2>2. opened' \in [Listeners -> [silent : 0..SilentRate, asked : BOOLEAN]]
    <3>1. opened[s].silent + 1 \in 0..SilentRate
      BY <1>6 DEF SaysNothing
    <3>2. [opened[s] EXCEPT !.silent = @ + 1] \in [silent : 0..SilentRate, asked : BOOLEAN]
      BY <3>1
    <3> QED BY <1>6, <3>2 DEF SaysNothing
  <2> QED BY <1>6, <2>1, <2>2 DEF SaysNothing
<1>7. ASSUME NEW s \in Listeners, NEW w \in Workers, Accepts(s, w) PROVE SurfacesTypeOK'
  <2>1. backlog' \in [Listeners -> Seq({"ask", "silent"})]
    BY <1>7 DEF Accepts
  <2>2. ReadTimeout \in 0..ReadTimeout OBVIOUS
  <2>3. worker' \in [Listeners -> [Workers -> {Free, Asked} \cup {Stall(k) : k \in 0..ReadTimeout}]]
    BY <1>7, <2>2 DEF Accepts
  <2> QED BY <1>7, <2>1, <2>3 DEF Accepts
<1>8. ASSUME NEW s \in Listeners, NEW w \in Workers, Answers(s, w) PROVE SurfacesTypeOK'
  BY <1>8 DEF Answers
<1>9. ASSUME NEW s \in Listeners, NEW w \in Workers, TimesOut(s, w) PROVE SurfacesTypeOK'
  BY <1>9 DEF TimesOut
<1>10. CASE SecondPasses
  <2>1. ASSUME NEW s \in Listeners, NEW w \in Workers
        PROVE  worker'[s][w] \in {Free, Asked} \cup {Stall(k) : k \in 0..ReadTimeout}
    <3>1. CASE worker[s][w] = Free BY <1>10, <3>1 DEF SecondPasses
    <3>2. CASE worker[s][w] # Free
      <4>1. PICK k \in 0..ReadTimeout : worker[s][w] = Stall(k)
        BY <1>10, <3>2 DEF SecondPasses
      <4>2. k # 0 /\ k - 1 \in 0..ReadTimeout
        BY <1>10, <4>1 DEF SecondPasses
      <4>3. worker'[s][w] = Stall(k - 1)
        BY <1>10, <3>2, <4>1, WorkerStates DEF SecondPasses
      <4> QED BY <4>2, <4>3
    <3> QED BY <3>1, <3>2
  <2>2. worker' \in [Listeners -> [Workers -> {Free, Asked} \cup {Stall(k) : k \in 0..ReadTimeout}]]
    <3> DEFINE After(s, w) == IF worker[s][w] = Free THEN Free ELSE Stall(worker[s][w].left - 1)
    <3>1. worker' = [s \in Listeners |-> [w \in Workers |-> After(s, w)]]
      BY <1>10 DEF SecondPasses
    <3>2. \A s \in Listeners, w \in Workers : worker'[s][w] = After(s, w)
      BY <3>1
    <3> HIDE DEF After
    <3> QED BY <2>1, <3>1, <3>2
  <2>3. opened' \in [Listeners -> [silent : 0..SilentRate, asked : BOOLEAN]]
    BY <1>10 DEF SecondPasses, Nothing
  <2> QED BY <1>10, <2>2, <2>3 DEF SecondPasses
<1>11. CASE UNCHANGED surfaceVars BY <1>11 DEF surfaceVars
<1> QED
  BY <1>1, <1>2, <1>3, <1>4, <1>5, <1>6, <1>7, <1>8, <1>9, <1>10, <1>11 DEF SurfacesNext

(* What leaves a surface's queue, its workers and its count alone. *)
LEMMA CountedUntouched ==
    ASSUME NEW s \in Listeners, Counted(s),
           worker'[s] = worker[s], backlog'[s] = backlog[s], opened'[s] = opened[s]
    PROVE  Counted(s)'
  BY DEF Counted, Stalled

(* A worker that is freed is stalled no longer. *)
LEMMA CountedOnceFreed ==
    ASSUME SurfacesTypeOK, NEW s \in Listeners, Counted(s), NEW w \in Workers,
           worker' = [worker EXCEPT ![s][w] = Free], UNCHANGED <<backlog, opened>>
    PROVE  Counted(s)'
<1>1. ASSUME NEW k
      PROVE  /\ Cardinality(Stalled(s, k)') <= Cardinality(Stalled(s, k))
             /\ Cardinality(Stalled(s, k)') \in Nat
  <2>1. Stalled(s, k)' \in SUBSET Stalled(s, k)
    BY WorkerStates DEF Stalled, SurfacesTypeOK
  <2> QED BY <2>1, StalledIsFinite, FS_Subset, FS_CardinalityType
<1>2. /\ Cardinality(Quiet(backlog[s])) \in Nat
      /\ \A k : Cardinality(Stalled(s, k)) \in Nat
      /\ opened[s].silent \in 0..SilentRate
  BY QuietIsFinite, StalledIsFinite DEF SurfacesTypeOK
<1> QED BY <1>1, <1>2, SurfacesAssumption DEF Counted

(* Every step keeps the count of silent connections of every surface. *)
LEMMA CountedKept ==
    ASSUME SurfacesInv, [SurfacesNext]_surfaceVars
    PROVE  SilenceIsCounted'
<1> SUFFICES ASSUME NEW t \in Listeners PROVE Counted(t)'
  BY DEF SilenceIsCounted
<1>0. Counted(t) BY DEF SurfacesInv, SilenceIsCounted
<1> USE DEF SurfacesInv, SurfacesTypeOK
<1>n. /\ Cardinality(Quiet(backlog[t])) \in Nat
      /\ \A k : Cardinality(Stalled(t, k)) \in Nat
      /\ opened[t].silent \in Nat
  BY QuietIsFinite, StalledIsFinite, SurfacesAssumption
<1>1. CASE FirstTick BY <1>0, <1>1, CountedUntouched DEF FirstTick
<1>2. CASE SupervisorExits BY <1>0, <1>2, CountedUntouched DEF SupervisorExits
<1>3. ASSUME NEW s \in Listeners, Binds(s) PROVE Counted(t)'
  BY <1>0, <1>3, CountedUntouched DEF Binds
<1>4. ASSUME NEW s \in Listeners, BindFails(s) PROVE Counted(t)'
  BY <1>0, <1>4, CountedUntouched DEF BindFails
<1>5. ASSUME NEW s \in Listeners, Asks(s) PROVE Counted(t)'
  <2>1. CASE t # s BY <1>0, <1>5, <2>1, CountedUntouched DEF Asks
  <2>2. CASE t = s
    <3>1. /\ backlog'[t] = Append(backlog[t], "ask")
          /\ opened'[t].silent = opened[t].silent
      BY <1>5, <2>2 DEF Asks
    <3>2. Cardinality(Quiet(backlog'[t])) = Cardinality(Quiet(backlog[t]))
      BY <1>n, <3>1, QuietJoins
    <3>3. \A k : Stalled(t, k)' = Stalled(t, k)
      BY <1>5 DEF Asks, Stalled
    <3> QED BY <1>0, <3>1, <3>2, <3>3 DEF Counted
  <2> QED BY <2>1, <2>2
<1>6. ASSUME NEW s \in Listeners, SaysNothing(s) PROVE Counted(t)'
  <2>1. CASE t # s BY <1>0, <1>6, <2>1, CountedUntouched DEF SaysNothing
  <2>2. CASE t = s
    <3>1. /\ backlog'[t] = Append(backlog[t], "silent")
          /\ opened'[t].silent = opened[t].silent + 1
      BY <1>6, <2>2 DEF SaysNothing
    <3>2. Cardinality(Quiet(backlog'[t])) = Cardinality(Quiet(backlog[t])) + 1
      BY <3>1, QuietJoins
    <3>3. \A k : Stalled(t, k)' = Stalled(t, k)
      BY <1>6 DEF SaysNothing, Stalled
    <3> QED BY <1>0, <1>n, <3>1, <3>2, <3>3 DEF Counted
  <2> QED BY <2>1, <2>2
<1>7. ASSUME NEW s \in Listeners, NEW w \in Workers, Accepts(s, w) PROVE Counted(t)'
  <2>1. CASE t # s BY <1>0, <1>7, <2>1, CountedUntouched DEF Accepts
  <2>2. CASE t = s
    <3>1. /\ backlog[t] # << >>
          /\ backlog'[t] = Tail(backlog[t])
          /\ opened'[t] = opened[t]
          /\ worker[t][w] = Free
          /\ worker'[t] = [worker[t] EXCEPT ![w] = IF Head(backlog[t]) = "ask" THEN Asked
                                                   ELSE Stall(ReadTimeout)]
      BY <1>7, <2>2 DEF Accepts
    <3>2. Head(backlog[t]) \in {"ask", "silent"}
      BY <3>1
    <3>3. Cardinality(Quiet(backlog'[t]))
            = Cardinality(Quiet(backlog[t])) - (IF Head(backlog[t]) = "silent" THEN 1 ELSE 0)
      BY <3>1, QuietLeaves
    <3>4. \A k \in 0..ReadTimeout : k < ReadTimeout => Stalled(t, k)' = Stalled(t, k)
      BY <3>1, WorkerStates, SurfacesAssumption DEF Stalled
    <3>5. w \notin Stalled(t, ReadTimeout)
      BY <3>1, WorkerStates DEF Stalled
    <3>6. Stalled(t, ReadTimeout)'
            = IF Head(backlog[t]) = "silent" THEN Stalled(t, ReadTimeout) \cup {w}
              ELSE Stalled(t, ReadTimeout)
      BY <3>1, <3>2, WorkerStates DEF Stalled
    <3>7. Cardinality(Stalled(t, ReadTimeout) \cup {w}) = Cardinality(Stalled(t, ReadTimeout)) + 1
      BY <3>5, StalledIsFinite, FS_AddElement
    <3>8. Cardinality(Stalled(t, ReadTimeout)') + Cardinality(Quiet(backlog'[t]))
            = Cardinality(Stalled(t, ReadTimeout)) + Cardinality(Quiet(backlog[t]))
      BY <1>n, <3>2, <3>3, <3>6, <3>7
    <3> QED BY <1>0, <3>1, <3>4, <3>8 DEF Counted
  <2> QED BY <2>1, <2>2
<1>8. ASSUME NEW s \in Listeners, NEW w \in Workers, Answers(s, w) PROVE Counted(t)'
  <2>1. CASE t # s BY <1>0, <1>8, <2>1, CountedUntouched DEF Answers
  <2>2. CASE t = s BY <1>0, <1>8, <2>2, CountedOnceFreed DEF Answers
  <2> QED BY <2>1, <2>2
<1>9. ASSUME NEW s \in Listeners, NEW w \in Workers, TimesOut(s, w) PROVE Counted(t)'
  <2>1. CASE t # s BY <1>0, <1>9, <2>1, CountedUntouched DEF TimesOut
  <2>2. CASE t = s BY <1>0, <1>9, <2>2, CountedOnceFreed DEF TimesOut
  <2> QED BY <2>1, <2>2
<1>10. CASE SecondPasses
  <2>1. PICK w \in Workers : worker[t][w] \in {Free, Asked}
    BY CountedSilenceLeavesAWorker DEF SilenceLeavesAWorker
  <2>2. worker[t][w] = Free /\ backlog[t] = << >>
    BY <1>10, <2>1 DEF SecondPasses
  <2>3. Quiet(backlog'[t]) = {}
    BY <1>10, <2>2 DEF SecondPasses, Quiet
  <2>4. \A v \in Workers : worker'[t][v] = IF worker[t][v] = Free THEN Free
                                           ELSE Stall(worker[t][v].left - 1)
    BY <1>10 DEF SecondPasses
  <2>5. ASSUME NEW v \in Workers, worker[t][v] # Free
        PROVE  \E k \in 1..ReadTimeout : worker[t][v] = Stall(k) /\ worker'[t][v] = Stall(k - 1)
    <3>1. PICK k \in 0..ReadTimeout : worker[t][v] = Stall(k)
      BY <1>10, <2>5 DEF SecondPasses
    <3>2. k \in 1..ReadTimeout
      BY <1>10, <3>1, SurfacesAssumption DEF SecondPasses
    <3>3. worker'[t][v] = Stall(k - 1)
      BY <2>4, <2>5, <3>1, WorkerStates
    <3> QED BY <3>1, <3>2, <3>3
  <2>6. ASSUME NEW k \in 0..ReadTimeout
        PROVE  Stalled(t, k)' = IF k < ReadTimeout THEN Stalled(t, k + 1) ELSE {}
    <3>1. ASSUME NEW v \in Workers
          PROVE  worker'[t][v] = Stall(k) <=> k < ReadTimeout /\ worker[t][v] = Stall(k + 1)
      <4>1. CASE worker[t][v] = Free
        BY <2>4, <4>1, WorkerStates
      <4>2. CASE worker[t][v] # Free
        <5>1. PICK j \in 1..ReadTimeout : worker[t][v] = Stall(j) /\ worker'[t][v] = Stall(j - 1)
          BY <2>5, <4>2
        <5>2. worker'[t][v] = Stall(k) <=> j - 1 = k
          BY <5>1, WorkerStates
        <5>3. worker[t][v] = Stall(k + 1) <=> j = k + 1
          BY <5>1, WorkerStates
        <5> QED BY <5>2, <5>3, SurfacesAssumption
      <4> QED BY <4>1, <4>2
    <3> QED BY <3>1 DEF Stalled
  <2>7. ASSUME NEW k \in 0..ReadTimeout, k < ReadTimeout
        PROVE  Cardinality(Stalled(t, k)') <= SilentRate
    <3>1. Stalled(t, k)' = Stalled(t, k + 1) BY <2>6, <2>7
    <3>2. CASE k + 1 < ReadTimeout
      <4>1. k + 1 \in 0..ReadTimeout BY <3>2, SurfacesAssumption
      <4> QED BY <1>0, <3>1, <3>2, <4>1 DEF Counted
    <3>3. CASE k + 1 = ReadTimeout
      <4>1. Cardinality(Stalled(t, ReadTimeout)) <= opened[t].silent
        BY <1>0, <1>n DEF Counted
      <4>2. opened[t].silent \in 0..SilentRate
        OBVIOUS
      <4> QED BY <1>n, <3>1, <3>3, <4>1, <4>2, SurfacesAssumption
    <3> QED BY <2>7, <3>2, <3>3, SurfacesAssumption
  <2>8. ReadTimeout \in 0..ReadTimeout /\ ~(ReadTimeout < ReadTimeout)
    BY SurfacesAssumption
  <2>9. Stalled(t, ReadTimeout)' = {} BY <2>6, <2>8
  <2>10. opened'[t].silent = 0 BY <1>10 DEF SecondPasses, Nothing
  <2>11. Cardinality(Stalled(t, ReadTimeout)') + Cardinality(Quiet(backlog'[t])) = 0
    BY <2>3, <2>9, FS_EmptySet
  <2> QED BY <2>7, <2>10, <2>11 DEF Counted
<1>11. CASE UNCHANGED surfaceVars BY <1>0, <1>11, CountedUntouched DEF surfaceVars
<1> QED
  BY <1>1, <1>2, <1>3, <1>4, <1>5, <1>6, <1>7, <1>8, <1>9, <1>10, <1>11 DEF SurfacesNext

-----------------------------------------------------------------------------
(* The invariant of the pools and of what is opened to them. *)
THEOREM SurfacesInvariant ==
    SurfacesSpec => []SurfacesInv
<1>1. SurfacesInit => SurfacesInv
  <2> SUFFICES ASSUME SurfacesInit PROVE SurfacesInv
    OBVIOUS
  <2>1. SurfacesTypeOK
    <3>1. up \in BOOLEAN /\ ticked \in BOOLEAN
      BY Zenon DEF SurfacesInit
    <3>2. listener \in [Listeners -> {"starting", "serving", "stopped"}]
      BY DEF SurfacesInit
    <3>3. backlog \in [Listeners -> Seq({"ask", "silent"})]
      BY DEF SurfacesInit
    <3>4. worker \in [Listeners -> [Workers -> {Free, Asked} \cup {Stall(k) : k \in 0..ReadTimeout}]]
      BY DEF SurfacesInit
    <3>5. Nothing \in [silent : 0..SilentRate, asked : BOOLEAN]
      BY SurfacesAssumption DEF Nothing
    <3>6. opened \in [Listeners -> [silent : 0..SilentRate, asked : BOOLEAN]]
      BY <3>5 DEF SurfacesInit
    <3> QED BY <3>1, <3>2, <3>3, <3>4, <3>6 DEF SurfacesTypeOK
  <2>2. ASSUME NEW s \in Listeners
        PROVE  Counted(s)
    <3>1. Quiet(backlog[s]) = {} BY DEF SurfacesInit, Quiet
    <3>2. \A k : Stalled(s, k) = {} BY WorkerStates DEF SurfacesInit, Stalled
    <3>3. opened[s].silent = 0 BY DEF SurfacesInit, Nothing
    <3> QED BY <3>1, <3>2, <3>3, FS_EmptySet, SurfacesAssumption DEF Counted
  <2> QED BY <2>1, <2>2 DEF SurfacesInv, SilenceIsCounted
<1>2. SurfacesInv /\ [SurfacesNext]_surfaceVars => SurfacesInv'
  BY SurfacesTypesKept, CountedKept DEF SurfacesInv
<1> QED BY <1>1, <1>2, PTL DEF SurfacesSpec

(* Every variable of the surfaces stays what its type in the code is. *)
THEOREM SurfacesTypes == SurfacesSpec => []SurfacesTypeOK
<1>1. SurfacesInv => SurfacesTypeOK BY DEF SurfacesInv
<1> QED BY <1>1, SurfacesInvariant, PTL

(* Connections that say nothing never hold a whole pool, in whatever second *)
(* they came (WORKERS beside READ_TIMEOUT, accept_serially).                *)
THEOREM SilenceNeverFillsAPool == SurfacesSpec => []SilenceLeavesAWorker
<1>1. SurfacesInv => SilenceLeavesAWorker BY CountedSilenceLeavesAWorker
<1> QED BY <1>1, SurfacesInvariant, PTL
=============================================================================
