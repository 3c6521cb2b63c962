----------------------------- MODULE VaultProofs -----------------------------
(***************************************************************************)
(* Theorems of Vault, for every set of workers, names and payloads, however *)
(* often the power fails, the process stops and a call fails: where no two  *)
(* workers' clients write to one name, it is the store of whole files that  *)
(* AtomicStore describes, and what a client was told stays true.            *)
(***************************************************************************)
EXTENDS Vault, FiniteSetTheorems, TLAPS

(* No name is written to through two workers at a time.  Where one is, the  *)
(* two share a temporary, and half a file is to be found (NeverHalfAFile).  *)
OneWriterPerName == \A v, w \in Workers : v # w => Writes[v] \cap Writes[w] = {}

Entries == [file : Objects \cup {None}, partial : Objects \cup {None}]

Writing == {"write", "flush", "rename"}

JobRecords ==
    [at : {"idle", "open", "write", "flush", "rename", "flush_dir", "failed", "read"},
     name : Names \cup {None}, payload : Payloads \cup {None},
     object : Objects \cup {None}, written : Nat]

VaultTypeOK ==
    /\ slot \in [Names -> Entries]
    /\ medium \in [Names -> SUBSET Entries]
    /\ DOMAIN bytes = Objects
    /\ flushed \in [Objects -> BOOLEAN]
    /\ job \in [Workers -> JobRecords]
    /\ DOMAIN promised = Names

(* What a job knows at each of its stages. *)
JobsKnowTheirWork ==
    \A w \in Workers :
        /\ job[w].at \in Writing \cup {"open", "flush_dir"} =>
             job[w].name \in Names /\ job[w].name \in Writes[w] /\ job[w].payload \in Payloads
        /\ job[w].at \in Writing \cup {"read"} => job[w].object \in Objects
        /\ job[w].at = "open" => job[w].written = 0

(* What a name holds now is among what it may hold after a power cut, and   *)
(* every file it may hold is whole, is on the medium, and is no temporary.  *)
FilesAreWhole ==
    \A n \in Names :
        /\ slot[n] \in medium[n]
        /\ \A s \in medium[n] : s.file # None =>
              /\ flushed[s.file]
              /\ IsWhole(bytes[s.file])
              /\ s.file # s.partial
              /\ s.file # slot[n].partial

Holds(s) == {s.file, s.partial} \ {None}

NamesShareNothing ==
    \A m, n \in Names : m # n =>
        \A s \in medium[m], t \in medium[n] : Holds(s) \cap Holds(t) = {}

(* A writer writes to the temporary of its name, as many chunks as it has   *)
(* written, and flushed before it is renamed.                               *)
WritersKnowTheirFile ==
    \A w \in Workers :
        LET j == job[w]
        IN  /\ j.at \in Writing =>
                 /\ slot[j.name].partial = j.object
                 /\ bytes[j.object] = [i \in 1..j.written |-> j.payload]
                 /\ IF j.at = "write" THEN j.written < Size[j.payload]
                                      ELSE j.written = Size[j.payload]
            /\ j.at = "rename" => flushed[j.object]
            /\ j.at = "flush_dir" =>
                 /\ slot[j.name].file # None
                 /\ bytes[slot[j.name].file] = Whole(j.payload)

(* Nobody writes to what a reader has open. *)
ReadersAreAlone ==
    \A w \in Workers : job[w].at = "read" =>
        /\ IsWhole(bytes[job[w].object])
        /\ \A n \in Names : slot[n].partial # job[w].object

VaultInv ==
    /\ VaultTypeOK
    /\ JobsKnowTheirWork
    /\ FilesAreWhole
    /\ NamesShareNothing
    /\ WritersKnowTheirFile
    /\ ReadersAreAlone
    /\ PromisedFilesSurvive

-----------------------------------------------------------------------------
(* The least of some numbers is one of them. *)
LEMMA MinIsMember ==
    ASSUME NEW S \in SUBSET Nat, S # {}
    PROVE  Min(S) \in S
<1> DEFINE R == {ss \in Nat \X Nat : ss[1] < ss[2]}
<1>1. IsWellFoundedOn(R, Nat)
  BY NatLessThanWellFounded DEF OpToRel
<1> HIDE DEF R
<1>2. PICK x \in S : \A y \in S : ~(<<y, x>> \in R)
  BY <1>1, WFMin
<1>3. \A y \in S : x <= y
  <2> SUFFICES ASSUME NEW y \in S PROVE x <= y
    OBVIOUS
  <2>1. ~(y < x)
    BY <1>2 DEF R
  <2> QED BY <2>1
<1> QED BY <1>3 DEF Min

(* An object that may be made is one that nothing refers to. *)
LEMMA FreshIsFree ==
    ASSUME Fresh # {}
    PROVE  Min(Fresh) \in Objects /\ Min(Fresh) # None /\ Min(Fresh) \notin Referenced
<1>1. Fresh \in SUBSET Nat
  BY VaultAssumption DEF Fresh, Objects
<1>2. Min(Fresh) \in Fresh
  BY <1>1, MinIsMember
<1> QED BY <1>2, VaultAssumption DEF Fresh, Objects, None

(* A first write goes to the first chunk, and the next one after what was   *)
(* written.                                                                 *)
LEMMA WrittenInOrder ==
    ASSUME NEW k \in Nat, NEW p
    PROVE  WrittenAt([i \in 1..k |-> p], k + 1, p) = [i \in 1..(k + 1) |-> p]
<1> DEFINE content == [i \in 1..k |-> p]
<1>1. Len(content) = k OBVIOUS
<1>2. (IF k + 1 > Len(content) THEN k + 1 ELSE Len(content)) = k + 1
  BY <1>1
<1>3. WrittenAt(content, k + 1, p)
        = [j \in 1..(k + 1) |-> IF j = k + 1 THEN p ELSE IF j <= k THEN content[j] ELSE Hole]
  BY <1>1, <1>2 DEF WrittenAt
<1>4. \A j \in 1..(k + 1) :
        (IF j = k + 1 THEN p ELSE IF j <= k THEN content[j] ELSE Hole) = p
  OBVIOUS
<1> QED BY <1>3, <1>4

(* What nothing refers to is in no entry of a name and with no worker. *)
LEMMA Unreferenced ==
    ASSUME NEW o, o \notin Referenced
    PROVE  /\ \A m \in Names : \A s \in medium[m] : s.file # o /\ s.partial # o
           /\ \A w \in Workers : job[w].object # o
<1>1. ASSUME NEW m \in Names, NEW s \in medium[m]
      PROVE  s.file # o /\ s.partial # o
  <2>1. {s.file, s.partial} \in {{t.file, t.partial} : t \in medium[m]}
    BY Zenon
  <2>2. {s.file, s.partial} \subseteq UNION {{t.file, t.partial} : t \in medium[m]}
    BY <2>1
  <2>3. UNION {{t.file, t.partial} : t \in medium[m]}
          \subseteq UNION {UNION {{t.file, t.partial} : t \in medium[n]} : n \in Names}
    OBVIOUS
  <2>4. {s.file, s.partial} \subseteq Referenced
    BY Zenon, <2>2, <2>3 DEF Referenced, Linked
  <2> QED BY <2>4
<1>2. ASSUME NEW w \in Workers
      PROVE  job[w].object # o
  <2>1. job[w].object \in {job[v].object : v \in Workers}
    BY Zenon
  <2>2. {job[v].object : v \in Workers} \subseteq Referenced
    BY Zenon DEF Referenced
  <2> QED BY <2>1, <2>2
<1> QED BY <1>1, <1>2

(* The temporary that is opened: nobody reads it, no file of any name is    *)
(* it, no other name holds it and no other worker writes to it.             *)
TheTemporary(n) == IF slot[n].partial # None THEN slot[n].partial ELSE Min(Fresh)

(* The temporary a write opens is apart from all the rest. *)
LEMMA TemporariesAreApart ==
    ASSUME VaultInv, NEW n \in Names, slot[n].partial = None => Fresh # {}
    PROVE  LET o == TheTemporary(n)
           IN  /\ o \in Objects
               /\ o # None
               /\ \A m \in Names : \A s \in medium[m] : s.file # o
               /\ \A m \in Names : \A s \in medium[m] : m # n => o \notin Holds(s)
               /\ \A w \in Workers : job[w].at = "read" => job[w].object # o
<1> DEFINE o == TheTemporary(n)
<1> USE DEF VaultInv, VaultTypeOK
<1>1. CASE slot[n].partial # None
  <2>1. o \in Objects /\ slot[n] \in medium[n] /\ o \in Holds(slot[n])
    BY <1>1 DEF TheTemporary, FilesAreWhole, Holds, Entries
  <2>2. ASSUME NEW m \in Names, NEW s \in medium[m], m # n
        PROVE  o \notin Holds(s)
    BY <2>1, <2>2 DEF NamesShareNothing
  <2>3. ASSUME NEW m \in Names, NEW s \in medium[m]
        PROVE  s.file # o
    <3>1. CASE m = n BY <1>1, <3>1 DEF TheTemporary, FilesAreWhole
    <3>2. CASE m # n BY <1>1, <2>2, <3>2 DEF TheTemporary, Holds
    <3> QED BY <3>1, <3>2
  <2> QED BY <1>1, <2>1, <2>2, <2>3 DEF TheTemporary, ReadersAreAlone
<1>2. CASE slot[n].partial = None
  <2>1. o \in Objects /\ o # None /\ o \notin Referenced
    BY <1>2, FreshIsFree DEF TheTemporary
  <2>2. /\ \A m \in Names : \A s \in medium[m] : s.file # o /\ s.partial # o
        /\ \A w \in Workers : job[w].object # o
    BY <2>1, Unreferenced
  <2> QED BY <2>1, <2>2 DEF Holds
<1> QED BY <1>1, <1>2

(* What a writer writes to is no file of any name, nobody reads it, and no  *)
(* other worker writes to it.                                               *)
LEMMA WritersAreApart ==
    ASSUME VaultInv, OneWriterPerName, NEW w \in Workers, job[w].at \in Writing
    PROVE  /\ job[w].name \in Names
           /\ job[w].object \in Objects
           /\ job[w].object # None
           /\ \A m \in Names : \A s \in medium[m] : s.file # job[w].object
           /\ \A v \in Workers : job[v].at = "read" => job[v].object # job[w].object
           /\ \A v \in Workers : v # w /\ job[v].at \in Writing => job[v].object # job[w].object
<1> DEFINE n == job[w].name
           o == job[w].object
<1>1. /\ n \in Names /\ n \in Writes[w]
      /\ o \in Objects
      /\ slot[n].partial = o
      /\ slot[n] \in medium[n]
  BY DEF VaultInv, JobsKnowTheirWork, WritersKnowTheirFile, FilesAreWhole
<1>2. o # None
  BY <1>1 DEF Objects, None
<1>3. o \in Holds(slot[n])
  BY <1>1, <1>2 DEF Holds
<1>4. ASSUME NEW m \in Names, NEW s \in medium[m]
      PROVE  s.file # o
  <2>1. CASE m = n BY <1>1, <1>2, <2>1 DEF VaultInv, FilesAreWhole
  <2>2. CASE m # n
    BY <1>1, <1>2, <1>3, <2>2 DEF VaultInv, NamesShareNothing, Holds
  <2> QED BY <2>1, <2>2
<1>5. ASSUME NEW v \in Workers, v # w, job[v].at \in Writing
      PROVE  job[v].object # o
  <2>1. /\ job[v].name \in Names /\ job[v].name \in Writes[v]
        /\ slot[job[v].name].partial = job[v].object
        /\ slot[job[v].name] \in medium[job[v].name]
    BY <1>5 DEF VaultInv, JobsKnowTheirWork, WritersKnowTheirFile, FilesAreWhole
  <2>2. job[v].name # n
    BY <1>1, <1>5, <2>1 DEF OneWriterPerName
  <2> QED BY <1>1, <1>2, <1>3, <2>1, <2>2 DEF VaultInv, NamesShareNothing, Holds
<1>6. ASSUME NEW v \in Workers, job[v].at = "read"
      PROVE  job[v].object # o
  BY <1>1, <1>6 DEF VaultInv, ReadersAreAlone
<1> QED BY <1>1, <1>2, <1>4, <1>5, <1>6

(* No other worker is anywhere in a write of a name that this one writes.   *)
LEMMA OthersWriteElsewhere ==
    ASSUME VaultInv, OneWriterPerName, NEW w \in Workers, NEW n \in Writes[w],
           NEW v \in Workers, v # w, job[v].at \in Writing \cup {"open", "flush_dir"}
    PROVE  job[v].name # n /\ job[v].name \in Names
  BY DEF VaultInv, JobsKnowTheirWork, OneWriterPerName

-----------------------------------------------------------------------------
(* The steps of a request that leave the store alone. *)

(* A step that only moves a worker on keeps the invariant, if what the job is now fits. *)
LEMMA JobStepKeepsInv ==
    ASSUME VaultInv, UNCHANGED <<store, promised>>, NEW w \in Workers,
           NEW j \in JobRecords, j.at \in {"idle", "open", "failed", "read"},
           job' = [job EXCEPT ![w] = j],
           j.at = "open" => j.name \in Names /\ j.name \in Writes[w] /\ j.payload \in Payloads
                            /\ j.written = 0,
           j.at = "read" => j.name \in Names /\ slot[j.name].file = j.object /\ j.object # None
    PROVE  VaultInv'
<1> USE DEF store
<1>1. VaultTypeOK'
  BY DEF VaultInv, VaultTypeOK
<1>2. \A v \in Workers : job'[v] = IF v = w THEN j ELSE job[v]
  BY DEF VaultInv, VaultTypeOK
<1>3. JobsKnowTheirWork'
  BY <1>2 DEF VaultInv, JobsKnowTheirWork, JobRecords, Writing
<1>4. FilesAreWhole' /\ NamesShareNothing' /\ PromisedFilesSurvive'
  BY DEF VaultInv, FilesAreWhole, NamesShareNothing, PromisedFilesSurvive, IsWhole
<1>5. WritersKnowTheirFile'
  BY <1>2 DEF VaultInv, WritersKnowTheirFile, Writing
<1>6. ReadersAreAlone'
  <2> SUFFICES ASSUME NEW v \in Workers, job'[v].at = "read"
               PROVE  /\ IsWhole(bytes[job'[v].object])
                      /\ \A n \in Names : slot[n].partial # job'[v].object
    BY DEF ReadersAreAlone, IsWhole
  <2>1. CASE v # w BY <1>2, <2>1 DEF VaultInv, ReadersAreAlone
  <2>2. CASE v = w
    <3>1. /\ j.name \in Names /\ slot[j.name] \in medium[j.name]
          /\ slot[j.name].file = j.object /\ j.object # None
      BY <1>2, <2>2 DEF VaultInv, FilesAreWhole
    <3>2. IsWhole(bytes[j.object]) /\ slot[j.name].partial # j.object
      BY <3>1 DEF VaultInv, FilesAreWhole
    <3>3. ASSUME NEW n \in Names, n # j.name
          PROVE  slot[n].partial # j.object
      <4>1. slot[n] \in medium[n] BY DEF VaultInv, FilesAreWhole
      <4>2. Holds(slot[j.name]) \cap Holds(slot[n]) = {}
        BY <3>1, <3>3, <4>1 DEF VaultInv, NamesShareNothing
      <4>3. j.object \in Holds(slot[j.name])
        BY <3>1 DEF Holds
      <4> QED BY <3>1, <4>2, <4>3 DEF Holds
    <3> QED BY <1>2, <2>2, <3>2, <3>3
  <2> QED BY <2>1, <2>2
<1> QED BY <1>1, <1>3, <1>4, <1>5, <1>6 DEF VaultInv

(* A worker with no request is a job too. *)
LEMMA IdleIsAJob == Idle \in JobRecords /\ Idle.at = "idle"
  BY DEF Idle, JobRecords, None

(* A request that is let in, to store or to read, opens a job and stores    *)
(* nothing.                                                                 *)
LEMMA RequestKeepsInv ==
    ASSUME VaultInv, NEW w \in Workers, NEW n \in Names, NEW level, NEW stage,
           \/ \E p \in Payloads : PutAdmitted(w, n, p, level, stage)
           \/ ReadOpens(w, n, level, stage)
    PROVE  VaultInv'
<1>1. ASSUME NEW p \in Payloads, PutAdmitted(w, n, p, level, stage) PROVE VaultInv'
  <2> DEFINE j == [Idle EXCEPT !.at = "open", !.name = n, !.payload = p]
  <2>1. j \in [at : {"open"}, name : {n}, payload : {p}, object : {None}, written : {0}]
    BY Zenon DEF Idle
  <2>2. n \in Writes[w] /\ job' = [job EXCEPT ![w] = j]
    BY <1>1 DEF PutAdmitted
  <2>3. UNCHANGED <<store, promised>>
    BY <1>1 DEF PutAdmitted
  <2> HIDE DEF j
  <2>4. /\ j \in JobRecords
        /\ j.at = "open" /\ j.name = n /\ j.payload = p /\ j.written = 0
    BY <2>1 DEF JobRecords
  <2> QED BY <2>2, <2>3, <2>4, JobStepKeepsInv
<1>2. CASE ReadOpens(w, n, level, stage)
  <2>1. slot[n].file \in Objects \cup {None}
    BY DEF VaultInv, VaultTypeOK, Entries
  <2> DEFINE j == [Idle EXCEPT !.at = "read", !.name = n, !.object = slot[n].file]
  <2>2. j \in [at : {"read"}, name : {n}, payload : {None}, object : {slot[n].file}, written : {0}]
    BY Zenon DEF Idle
  <2>3. slot[n].file # None /\ job' = [job EXCEPT ![w] = j]
    BY <1>2 DEF ReadOpens
  <2>4. UNCHANGED <<store, promised>>
    BY <1>2 DEF ReadOpens
  <2> HIDE DEF j
  <2>5. /\ j \in JobRecords
        /\ j.at = "read" /\ j.name = n /\ j.object = slot[n].file
    BY <2>1, <2>2 DEF JobRecords
  <2> QED BY <2>3, <2>4, <2>5, JobStepKeepsInv
<1> QED BY <1>1, <1>2

(* A read that ends leaves the vault as it is. *)
LEMMA ReadEndsKeepsInv ==
    ASSUME VaultInv, NEW w \in Workers, ReadEnds(w)
    PROVE  VaultInv'
  BY IdleIsAJob, JobStepKeepsInv DEF ReadEnds, store

(* So does the answer to a write that failed. *)
LEMMA FailureAnsweredKeepsInv ==
    ASSUME VaultInv, NEW w \in Workers, FailureAnswered(w)
    PROVE  VaultInv'
  BY IdleIsAJob, JobStepKeepsInv DEF FailureAnswered, store

-----------------------------------------------------------------------------
(* The steps of a write. *)

(* Opening the temporary: an object nobody refers to, or the one that was left. *)
LEMMA OpenTemporaryKeepsInv ==
    ASSUME VaultInv, OneWriterPerName, NEW w \in Workers, OpenTemporary(w)
    PROVE  VaultInv'
<1> DEFINE n == job[w].name
           o == TheTemporary(n)
           opened == [slot[n] EXCEPT !.partial = o]
<1>1. /\ n \in Names /\ n \in Writes[w] /\ job[w].payload \in Payloads
      /\ job[w].written = 0
  BY DEF VaultInv, JobsKnowTheirWork, OpenTemporary
<1>2. /\ slot[n].partial = None => Fresh # {}
      /\ slot' = [slot EXCEPT ![n] = opened]
      /\ medium' = [medium EXCEPT ![n] = @ \cup {opened}]
      /\ bytes' = [bytes EXCEPT ![o] = << >>]
      /\ flushed' = [flushed EXCEPT ![o] = FALSE]
      /\ job' = [job EXCEPT ![w].at = "write", ![w].object = o]
      /\ promised' = promised
  BY DEF OpenTemporary, TheTemporary, Enters
<1>3. /\ o \in Objects
      /\ o # None
      /\ \A m \in Names : \A s \in medium[m] : s.file # o
      /\ \A m \in Names : \A s \in medium[m] : m # n => o \notin Holds(s)
      /\ \A v \in Workers : job[v].at = "read" => job[v].object # o
  BY <1>1, <1>2, TemporariesAreApart
<1> HIDE DEF o
<1>4. opened \in Entries /\ opened.file = slot[n].file /\ opened.partial = o
  BY <1>1, <1>3 DEF VaultInv, VaultTypeOK, Entries
<1>5. /\ job'[w] \in JobRecords
      /\ job'[w].at = "write"
      /\ job'[w].name = n
      /\ job'[w].payload = job[w].payload
      /\ job'[w].object = o
      /\ job'[w].written = 0
      /\ \A v \in Workers \ {w} : job'[v] = job[v]
  BY <1>1, <1>2, <1>3 DEF VaultInv, VaultTypeOK, JobRecords
<1>6. /\ slot'[n] = opened
      /\ \A m \in Names \ {n} : slot'[m] = slot[m]
      /\ medium'[n] = medium[n] \cup {opened}
      /\ \A m \in Names \ {n} : medium'[m] = medium[m]
      /\ bytes'[o] = << >>
      /\ \A x \in Objects \ {o} : bytes'[x] = bytes[x] /\ flushed'[x] = flushed[x]
  BY <1>1, <1>2, <1>3 DEF VaultInv, VaultTypeOK
<1> HIDE DEF opened
<1>7. slot[n] \in medium[n] /\ \A m \in Names : \A s \in medium[m] : s \in Entries
  BY <1>1 DEF VaultInv, FilesAreWhole, VaultTypeOK
<1>8. VaultTypeOK'
  <2>1. job' \in [Workers -> JobRecords]
    BY <1>2, <1>5 DEF VaultInv, VaultTypeOK
  <2>2. slot' \in [Names -> Entries] /\ medium' \in [Names -> SUBSET Entries]
    BY <1>1, <1>2, <1>4 DEF VaultInv, VaultTypeOK
  <2> QED BY <1>2, <2>1, <2>2 DEF VaultInv, VaultTypeOK
<1>9. JobsKnowTheirWork'
  BY <1>1, <1>3, <1>5 DEF VaultInv, JobsKnowTheirWork, Writing
<1>10. FilesAreWhole'
  <2> SUFFICES ASSUME NEW m \in Names
               PROVE  /\ slot'[m] \in medium'[m]
                      /\ \A s \in medium'[m] : s.file # None =>
                            /\ flushed'[s.file]
                            /\ IsWhole(bytes'[s.file])
                            /\ s.file # s.partial
                            /\ s.file # slot'[m].partial
    BY DEF FilesAreWhole, IsWhole
  <2>1. slot'[m] \in medium'[m]
    BY <1>6 DEF VaultInv, FilesAreWhole
  <2>2. ASSUME NEW s \in medium[m], s.file # None
        PROVE  /\ s.file # o /\ s.file \in Objects
               /\ flushed'[s.file] /\ IsWhole(bytes'[s.file])
               /\ s.file # s.partial /\ s.file # slot'[m].partial
    <3>1. s.file # o /\ s.file \in Objects
      BY <1>3, <1>7, <2>2 DEF Entries
    <3>2. s.file # slot'[m].partial
      BY <1>4, <1>6, <2>2, <3>1 DEF VaultInv, FilesAreWhole
    <3> QED BY <1>6, <2>2, <3>1, <3>2 DEF VaultInv, FilesAreWhole
  <2>3. ASSUME m = n, opened.file # None
        PROVE  /\ flushed'[opened.file] /\ IsWhole(bytes'[opened.file])
               /\ opened.file # opened.partial /\ opened.file # slot'[n].partial
    BY <1>4, <1>6, <1>7, <2>2, <2>3
  <2> QED BY <1>6, <2>1, <2>2, <2>3
<1>11. NamesShareNothing'
  <2>1. Holds(opened) \subseteq Holds(slot[n]) \cup {o}
    BY <1>4 DEF Holds
  <2>2. ASSUME NEW m \in Names, m # n, NEW s \in medium[m]
        PROVE  Holds(s) \cap Holds(opened) = {}
    BY <1>1, <1>3, <1>7, <2>1, <2>2 DEF VaultInv, NamesShareNothing
  <2> QED BY <1>6, <2>2 DEF VaultInv, NamesShareNothing
<1>12. WritersKnowTheirFile'
  <2> SUFFICES ASSUME NEW v \in Workers
               PROVE  LET j == job'[v]
                      IN  /\ j.at \in Writing =>
                               /\ slot'[j.name].partial = j.object
                               /\ bytes'[j.object] = [i \in 1..j.written |-> j.payload]
                               /\ IF j.at = "write" THEN j.written < Size[j.payload]
                                                    ELSE j.written = Size[j.payload]
                          /\ j.at = "rename" => flushed'[j.object]
                          /\ j.at = "flush_dir" =>
                               /\ slot'[j.name].file # None
                               /\ bytes'[slot'[j.name].file] = Whole(j.payload)
    BY DEF WritersKnowTheirFile, Whole
  <2>1. CASE v = w
    <3>1. << >> = [i \in 1..0 |-> job[w].payload] OBVIOUS
    <3>2. 0 < Size[job[w].payload] BY <1>1, VaultAssumption
    <3> QED BY <1>4, <1>5, <1>6, <2>1, <3>1, <3>2
  <2>2. CASE v # w /\ job[v].at \in Writing
    <3>1. job[v].name # n /\ job[v].name \in Names
      BY <1>1, <2>2, OthersWriteElsewhere
    <3>2. job[v].object \in Objects /\ job[v].object # o
      <4>1. slot[job[v].name].partial = job[v].object /\ slot[job[v].name] \in medium[job[v].name]
        BY <2>2, <3>1 DEF VaultInv, WritersKnowTheirFile, FilesAreWhole
      <4>2. o \notin Holds(slot[job[v].name]) BY <1>3, <3>1, <4>1
      <4> QED BY <1>3, <2>2, <4>1, <4>2 DEF VaultInv, JobsKnowTheirWork, Holds
    <3> QED BY <1>5, <1>6, <2>2, <3>1, <3>2 DEF VaultInv, WritersKnowTheirFile, Writing
  <2>3. CASE v # w /\ job[v].at = "flush_dir"
    <3>1. job[v].name # n /\ job[v].name \in Names
      BY <1>1, <2>3, OthersWriteElsewhere
    <3>2. slot[job[v].name] \in medium[job[v].name] /\ slot[job[v].name].file # None
      BY <2>3, <3>1 DEF VaultInv, WritersKnowTheirFile, FilesAreWhole
    <3>3. slot[job[v].name].file \in Objects \ {o}
      BY <1>3, <1>7, <3>1, <3>2 DEF Entries
    <3> QED BY <1>5, <1>6, <2>3, <3>1, <3>2, <3>3 DEF VaultInv, WritersKnowTheirFile, Writing
  <2> QED BY <1>5, <2>1, <2>2, <2>3 DEF Writing
<1>13. ReadersAreAlone'
  <2> SUFFICES ASSUME NEW v \in Workers, job'[v].at = "read"
               PROVE  /\ IsWhole(bytes'[job'[v].object])
                      /\ \A m \in Names : slot'[m].partial # job'[v].object
    BY DEF ReadersAreAlone, IsWhole
  <2>1. v # w /\ job'[v] = job[v] BY <1>5
  <2>2. job[v].object \in Objects \ {o}
    BY <1>3, <2>1 DEF VaultInv, JobsKnowTheirWork
  <2> QED BY <1>4, <1>6, <2>1, <2>2 DEF VaultInv, ReadersAreAlone
<1>14. PromisedFilesSurvive'
  <2> SUFFICES ASSUME NEW m \in Names, promised[m] # None, NEW s \in medium'[m]
               PROVE  s.file # None /\ flushed'[s.file] /\ bytes'[s.file] = Whole(promised[m])
    BY <1>2 DEF PromisedFilesSurvive, Whole
  <2>1. PICK t \in medium[m] : t.file = s.file
    BY <1>4, <1>6, <1>7
  <2>2. t.file # None /\ flushed[t.file] /\ bytes[t.file] = Whole(promised[m])
    BY <2>1 DEF VaultInv, PromisedFilesSurvive
  <2>3. t.file \in Objects \ {o}
    BY <1>3, <1>7, <2>2 DEF Entries
  <2> QED BY <1>6, <2>1, <2>2, <2>3
<1> QED BY <1>8, <1>9, <1>10, <1>11, <1>12, <1>13, <1>14 DEF VaultInv

(* What a step that writes to one writer's object, and to the entries of no *)
(* name, leaves true of everybody else.                                     *)
LEMMA BytesStepKeepsRest ==
    ASSUME VaultInv, OneWriterPerName, NEW w \in Workers, job[w].at \in Writing,
           UNCHANGED <<slot, medium, promised>>,
           DOMAIN bytes' = Objects, flushed' \in [Objects -> BOOLEAN],
           \A x \in Objects \ {job[w].object} : bytes'[x] = bytes[x] /\ flushed'[x] = flushed[x],
           job' \in [Workers -> JobRecords],
           job'[w].at \in Writing,
           job'[w].name = job[w].name,
           job'[w].payload = job[w].payload,
           job'[w].object = job[w].object,
           \A v \in Workers \ {w} : job'[v] = job[v],
           bytes'[job[w].object] = [i \in 1..job'[w].written |-> job[w].payload],
           IF job'[w].at = "write" THEN job'[w].written < Size[job[w].payload]
                                   ELSE job'[w].written = Size[job[w].payload],
           job'[w].at = "rename" => flushed'[job[w].object]
    PROVE  VaultInv'
<1> DEFINE o == job[w].object
<1>1. /\ o \in Objects
      /\ o # None
      /\ \A m \in Names : \A s \in medium[m] : s.file # o
      /\ \A v \in Workers : job[v].at = "read" => job[v].object # o
      /\ \A v \in Workers : v # w /\ job[v].at \in Writing => job[v].object # o
  BY WritersAreApart
<1>2. \A m \in Names : slot[m] \in medium[m] /\ \A s \in medium[m] : s \in Entries
  BY DEF VaultInv, FilesAreWhole, VaultTypeOK
<1>3. \A m \in Names : \A s \in medium[m] : s.file # None =>
         s.file \in Objects \ {o}
  BY <1>1, <1>2 DEF Entries
<1>4. VaultTypeOK'
  BY DEF VaultInv, VaultTypeOK
<1>5. JobsKnowTheirWork'
  BY DEF VaultInv, JobsKnowTheirWork, Writing
<1>6. FilesAreWhole'
  BY <1>3 DEF VaultInv, FilesAreWhole, IsWhole, Whole
<1>7. NamesShareNothing'
  BY DEF VaultInv, NamesShareNothing
<1>8. WritersKnowTheirFile'
  <2> SUFFICES ASSUME NEW v \in Workers
               PROVE  LET j == job'[v]
                      IN  /\ j.at \in Writing =>
                               /\ slot[j.name].partial = j.object
                               /\ bytes'[j.object] = [i \in 1..j.written |-> j.payload]
                               /\ IF j.at = "write" THEN j.written < Size[j.payload]
                                                    ELSE j.written = Size[j.payload]
                          /\ j.at = "rename" => flushed'[j.object]
                          /\ j.at = "flush_dir" =>
                               /\ slot[j.name].file # None
                               /\ bytes'[slot[j.name].file] = Whole(j.payload)
    BY DEF WritersKnowTheirFile, Whole
  <2>1. CASE v = w
    <3>1. slot[job[w].name].partial = o
      BY DEF VaultInv, WritersKnowTheirFile
    <3> QED BY <2>1, <3>1 DEF Writing
  <2>2. CASE v # w /\ job[v].at \in Writing
    <3>1. job[v].object \in Objects \ {o}
      BY <1>1, <2>2 DEF VaultInv, JobsKnowTheirWork
    <3> QED BY <2>2, <3>1 DEF VaultInv, WritersKnowTheirFile, Writing
  <2>3. CASE v # w /\ job[v].at = "flush_dir"
    <3>1. job[v].name \in Names /\ slot[job[v].name].file # None
      BY <2>3 DEF VaultInv, WritersKnowTheirFile, JobsKnowTheirWork
    <3>2. slot[job[v].name].file \in Objects \ {o}
      BY <1>2, <1>3, <3>1
    <3> QED BY <2>3, <3>1, <3>2 DEF VaultInv, WritersKnowTheirFile, Writing
  <2> QED BY <2>1, <2>2, <2>3 DEF Writing
<1>9. ReadersAreAlone'
  <2> SUFFICES ASSUME NEW v \in Workers, job'[v].at = "read"
               PROVE  /\ IsWhole(bytes'[job'[v].object])
                      /\ \A m \in Names : slot[m].partial # job'[v].object
    BY DEF ReadersAreAlone, IsWhole
  <2>1. v # w /\ job'[v] = job[v] BY DEF Writing
  <2>2. job[v].object \in Objects \ {o}
    BY <1>1, <2>1 DEF VaultInv, JobsKnowTheirWork
  <2> QED BY <2>1, <2>2 DEF VaultInv, ReadersAreAlone
<1>10. PromisedFilesSurvive'
  BY <1>3 DEF VaultInv, PromisedFilesSurvive, Whole
<1> QED BY <1>4, <1>5, <1>6, <1>7, <1>8, <1>9, <1>10 DEF VaultInv

(* A chunk goes to the temporary of its writer. *)
LEMMA WriteChunkKeepsInv ==
    ASSUME VaultInv, OneWriterPerName, NEW w \in Workers, WriteChunk(w)
    PROVE  VaultInv'
<1> DEFINE o == job[w].object
           p == job[w].payload
           k == job[w].written
           next == IF k + 1 = Size[p] THEN "flush" ELSE "write"
<1>1. /\ job[w].at = "write" /\ job[w].at \in Writing
      /\ o \in Objects /\ p \in Payloads /\ k \in Nat /\ k < Size[p] /\ Size[p] \in Nat
      /\ bytes[o] = [i \in 1..k |-> p]
  BY VaultAssumption
     DEF WriteChunk, Writing, VaultInv, VaultTypeOK, JobRecords, JobsKnowTheirWork, WritersKnowTheirFile
<1>2. /\ bytes' = [bytes EXCEPT ![o] = WrittenAt(@, k + 1, p)]
      /\ flushed' = [flushed EXCEPT ![o] = FALSE]
      /\ job' = [job EXCEPT ![w].written = k + 1,
                            ![w].at = next]
      /\ UNCHANGED <<slot, medium, promised>>
  BY DEF WriteChunk
<1>n. next \in {"write", "flush"} /\ k + 1 \in Nat
  BY <1>1
<1>i. IF next = "write" THEN k + 1 < Size[p] ELSE k + 1 = Size[p]
  BY <1>1
<1> HIDE DEF next
<1>3. /\ job' \in [Workers -> JobRecords]
      /\ job'[w].at = next
      /\ job'[w].name = job[w].name
      /\ job'[w].payload = p
      /\ job'[w].object = o
      /\ job'[w].written = k + 1
      /\ \A v \in Workers \ {w} : job'[v] = job[v]
  BY <1>2, <1>n DEF VaultInv, VaultTypeOK, JobRecords
<1>4. bytes'[o] = [i \in 1..(k + 1) |-> p]
  <2>1. bytes'[o] = WrittenAt(bytes[o], k + 1, p)
    BY <1>1, <1>2 DEF VaultInv, VaultTypeOK
  <2>2. k \in Nat /\ bytes[o] = [i \in 1..k |-> p]
    BY <1>1
  <2> HIDE DEF o, k, p
  <2>3. WrittenAt([i \in 1..k |-> p], k + 1, p) = [i \in 1..(k + 1) |-> p]
    BY <2>2, WrittenInOrder
  <2> QED BY <2>1, <2>2, <2>3
<1>5. /\ DOMAIN bytes' = Objects /\ flushed' \in [Objects -> BOOLEAN]
      /\ \A x \in Objects \ {o} : bytes'[x] = bytes[x] /\ flushed'[x] = flushed[x]
  BY <1>1, <1>2 DEF VaultInv, VaultTypeOK
<1>6. job'[w].at \in Writing /\ job'[w].at # "rename"
  BY <1>3, <1>n DEF Writing
<1>7. UNCHANGED <<slot, medium, promised>>
  BY <1>2
<1>8. IF job'[w].at = "write" THEN job'[w].written < Size[p] ELSE job'[w].written = Size[p]
  BY <1>3, <1>i
<1>9. bytes'[o] = [i \in 1..job'[w].written |-> p]
  BY <1>3, <1>4
<1> QED BY <1>1, <1>3, <1>5, <1>6, <1>7, <1>8, <1>9, BytesStepKeepsRest

(* A temporary is flushed once it is all written. *)
LEMMA FlushFileKeepsInv ==
    ASSUME VaultInv, OneWriterPerName, NEW w \in Workers, FlushFile(w)
    PROVE  VaultInv'
<1> DEFINE o == job[w].object
<1>1. /\ job[w].at = "flush" /\ job[w].at \in Writing
      /\ o \in Objects
      /\ job[w].written = Size[job[w].payload]
      /\ bytes[o] = [i \in 1..job[w].written |-> job[w].payload]
  BY DEF FlushFile, Writing, VaultInv, JobsKnowTheirWork, WritersKnowTheirFile
<1>2. /\ flushed' = [flushed EXCEPT ![o] = TRUE]
      /\ job' = [job EXCEPT ![w].at = "rename"]
      /\ UNCHANGED <<slot, medium, bytes, promised>>
  BY DEF FlushFile
<1>3. /\ job' \in [Workers -> JobRecords]
      /\ job'[w].at = "rename"
      /\ job'[w].name = job[w].name
      /\ job'[w].payload = job[w].payload
      /\ job'[w].object = o
      /\ job'[w].written = job[w].written
      /\ \A v \in Workers \ {w} : job'[v] = job[v]
  BY <1>2 DEF VaultInv, VaultTypeOK, JobRecords
<1>4. /\ DOMAIN bytes' = Objects /\ flushed' \in [Objects -> BOOLEAN]
      /\ flushed'[o]
      /\ \A x \in Objects \ {o} : bytes'[x] = bytes[x] /\ flushed'[x] = flushed[x]
  BY <1>1, <1>2 DEF VaultInv, VaultTypeOK
<1>5. job'[w].at \in Writing /\ job'[w].at # "write"
  BY <1>3 DEF Writing
<1>6. UNCHANGED <<slot, medium, promised>>
  BY <1>2
<1>7. job'[w].written = Size[job[w].payload]
  BY <1>1, <1>3
<1>8. bytes'[o] = [i \in 1..job'[w].written |-> job[w].payload]
  BY <1>1, <1>2, <1>3
<1> QED BY <1>1, <1>3, <1>4, <1>5, <1>6, <1>7, <1>8, BytesStepKeepsRest

(* A rename puts under its name a file that is whole and flushed. *)
LEMMA RenameKeepsInv ==
    ASSUME VaultInv, OneWriterPerName, NEW w \in Workers, RenameOverDestination(w)
    PROVE  VaultInv'
<1> DEFINE n == job[w].name
           o == job[w].object
           p == job[w].payload
           renamed == [file |-> o, partial |-> None]
<1>1. /\ job[w].at = "rename" /\ job[w].at \in Writing
      /\ n \in Names /\ n \in Writes[w] /\ p \in Payloads
      /\ o \in Objects /\ o # None
      /\ slot[n].partial = o
      /\ bytes[o] = Whole(p)
      /\ flushed[o]
  BY WritersAreApart
     DEF RenameOverDestination, Writing, VaultInv, JobsKnowTheirWork, WritersKnowTheirFile, Whole
<1>2. /\ slot' = [slot EXCEPT ![n] = renamed]
      /\ medium' = [medium EXCEPT ![n] = @ \cup {renamed}]
      /\ job' = [job EXCEPT ![w].at = "flush_dir"]
      /\ promised' = [promised EXCEPT ![n] = None]
      /\ UNCHANGED <<bytes, flushed>>
  BY <1>1 DEF RenameOverDestination, Enters
<1>3. renamed \in Entries /\ renamed.file = o /\ renamed.partial = None
  BY <1>1 DEF Entries
<1> HIDE DEF renamed
<1>4. /\ job' \in [Workers -> JobRecords]
      /\ job'[w].at = "flush_dir"
      /\ job'[w].name = n
      /\ job'[w].payload = p
      /\ \A v \in Workers \ {w} : job'[v] = job[v]
  BY <1>2 DEF VaultInv, VaultTypeOK, JobRecords
<1>5. /\ slot'[n] = renamed
      /\ \A m \in Names \ {n} : slot'[m] = slot[m]
      /\ medium'[n] = medium[n] \cup {renamed}
      /\ \A m \in Names \ {n} : medium'[m] = medium[m]
      /\ promised'[n] = None
      /\ \A m \in Names \ {n} : promised'[m] = promised[m]
  BY <1>1, <1>2 DEF VaultInv, VaultTypeOK
<1>6. slot[n] \in medium[n] /\ Holds(renamed) \subseteq Holds(slot[n])
  BY <1>1, <1>3 DEF VaultInv, FilesAreWhole, Holds
<1>7. VaultTypeOK'
  BY <1>1, <1>2, <1>3, <1>4 DEF VaultInv, VaultTypeOK
<1>8. JobsKnowTheirWork'
  BY <1>1, <1>4 DEF VaultInv, JobsKnowTheirWork, Writing
<1>9. FilesAreWhole'
  <2>1. IsWhole(bytes[o]) BY <1>1 DEF IsWhole
  <2> SUFFICES ASSUME NEW m \in Names
               PROVE  /\ slot'[m] \in medium'[m]
                      /\ \A s \in medium'[m] : s.file # None =>
                            /\ flushed[s.file]
                            /\ IsWhole(bytes[s.file])
                            /\ s.file # s.partial
                            /\ s.file # slot'[m].partial
    BY <1>2 DEF FilesAreWhole, IsWhole, Whole
  <2>2. CASE m # n BY <1>5, <2>2 DEF VaultInv, FilesAreWhole
  <2>3. CASE m = n BY <1>1, <1>3, <1>5, <2>1, <2>3 DEF VaultInv, FilesAreWhole
  <2> QED BY <2>2, <2>3
<1>10. NamesShareNothing'
  <2>1. ASSUME NEW m \in Names, m # n, NEW s \in medium[m]
        PROVE  Holds(s) \cap Holds(renamed) = {}
    BY <1>1, <1>6, <2>1 DEF VaultInv, NamesShareNothing
  <2> QED BY <1>5, <2>1 DEF VaultInv, NamesShareNothing
<1>11. WritersKnowTheirFile'
  <2>1. ASSUME NEW v \in Workers, v # w, job[v].at \in Writing \cup {"flush_dir"}
        PROVE  slot'[job[v].name] = slot[job[v].name]
    BY <1>1, <1>5, <2>1, OthersWriteElsewhere
  <2> QED BY <1>1, <1>2, <1>3, <1>4, <1>5, <2>1 DEF VaultInv, WritersKnowTheirFile, Writing, Whole
<1>12. ReadersAreAlone'
  BY <1>2, <1>3, <1>4, <1>5 DEF VaultInv, ReadersAreAlone, JobsKnowTheirWork, IsWhole, Whole, Objects, None
<1>13. PromisedFilesSurvive'
  BY <1>2, <1>5 DEF VaultInv, PromisedFilesSurvive, Whole
<1> QED BY <1>7, <1>8, <1>9, <1>10, <1>11, <1>12, <1>13 DEF VaultInv

(* Flushing the directory leaves of each name what it reads, and then       *)
(* promises it.                                                             *)
LEMMA FlushDirectoryKeepsInv ==
    ASSUME VaultInv, OneWriterPerName, NEW w \in Workers, FlushDirectory(w)
    PROVE  VaultInv'
<1> DEFINE n == job[w].name
           p == job[w].payload
<1>1. /\ job[w].at = "flush_dir"
      /\ n \in Names /\ p \in Payloads
      /\ slot[n].file # None
      /\ bytes[slot[n].file] = Whole(p)
      /\ \A m \in Names : slot[m] \in medium[m]
  BY DEF FlushDirectory, VaultInv, JobsKnowTheirWork, WritersKnowTheirFile, FilesAreWhole, Writing
<1>2. /\ medium' = [m \in Names |-> {slot[m]}]
      /\ job' = [job EXCEPT ![w] = Idle]
      /\ promised' = [promised EXCEPT ![n] = p]
      /\ UNCHANGED <<slot, bytes, flushed>>
  BY DEF FlushDirectory
<1>3. /\ job' \in [Workers -> JobRecords]
      /\ job'[w].at = "idle"
      /\ \A v \in Workers \ {w} : job'[v] = job[v]
  BY <1>2, IdleIsAJob DEF VaultInv, VaultTypeOK
<1>4. VaultTypeOK'
  BY <1>2, <1>3 DEF VaultInv, VaultTypeOK
<1>5. JobsKnowTheirWork'
  BY <1>3 DEF VaultInv, JobsKnowTheirWork, Writing
<1>6. FilesAreWhole' /\ NamesShareNothing'
  BY <1>1, <1>2 DEF VaultInv, FilesAreWhole, NamesShareNothing, IsWhole, Whole
<1>7. WritersKnowTheirFile'
  BY <1>2, <1>3 DEF VaultInv, WritersKnowTheirFile, Writing, Whole
<1>8. ReadersAreAlone'
  BY <1>2, <1>3 DEF VaultInv, ReadersAreAlone, IsWhole, Whole
<1>9. PromisedFilesSurvive'
  <2> SUFFICES ASSUME NEW m \in Names, promised'[m] # None
               PROVE  /\ slot[m].file # None
                      /\ flushed[slot[m].file]
                      /\ bytes[slot[m].file] = Whole(promised'[m])
    BY <1>2 DEF PromisedFilesSurvive, Whole
  <2>1. CASE m = n
    <3>1. promised'[n] = p BY <1>1, <1>2 DEF VaultInv, VaultTypeOK
    <3> QED BY <1>1, <2>1, <3>1 DEF VaultInv, FilesAreWhole
  <2>2. CASE m # n
    <3>1. promised'[m] = promised[m] BY <1>2, <2>2 DEF VaultInv, VaultTypeOK
    <3> QED BY <1>1, <3>1 DEF VaultInv, PromisedFilesSurvive
  <2> QED BY <2>1, <2>2
<1> QED BY <1>4, <1>5, <1>6, <1>7, <1>8, <1>9 DEF VaultInv

(* A step takes an entry of one name away, its file or its temporary. *)
EntryLeaves(w, n, left) ==
    /\ left.file \in {slot[n].file, None}
    /\ left.partial \in {slot[n].partial, None}
    /\ slot' = [slot EXCEPT ![n] = left]
    /\ medium' = [medium EXCEPT ![n] = @ \cup {left}]
    /\ UNCHANGED <<bytes, flushed>>
    /\ job' \in [Workers -> JobRecords]
    /\ job'[w].at \in {"idle", "failed"}
    /\ \A v \in Workers \ {w} : job'[v] = job[v]
    /\ \A v \in Workers \ {w} : job[v].at \in Writing \cup {"flush_dir"} => job[v].name # n
    /\ DOMAIN promised' = Names
    /\ \A m \in Names : promised'[m] # None =>
         promised'[m] = promised[m] /\ (m = n => left.file = slot[n].file)

(* An entry that leaves takes no other with it. *)
LEMMA EntryLeavesKeepsInv ==
    ASSUME VaultInv, NEW w \in Workers, NEW n \in Names, NEW left \in Entries,
           EntryLeaves(w, n, left)
    PROVE  VaultInv'
<1> USE DEF EntryLeaves
<1>1. /\ slot'[n] = left
      /\ \A m \in Names \ {n} : slot'[m] = slot[m]
      /\ medium'[n] = medium[n] \cup {left}
      /\ \A m \in Names \ {n} : medium'[m] = medium[m]
  BY DEF VaultInv, VaultTypeOK
<1>2. slot[n] \in medium[n] /\ Holds(left) \subseteq Holds(slot[n])
  BY DEF VaultInv, FilesAreWhole, Holds
<1>3. VaultTypeOK'
  BY DEF VaultInv, VaultTypeOK
<1>4. JobsKnowTheirWork'
  BY DEF VaultInv, JobsKnowTheirWork, Writing
<1>5. FilesAreWhole'
  <2> SUFFICES ASSUME NEW m \in Names
               PROVE  /\ slot'[m] \in medium'[m]
                      /\ \A s \in medium'[m] : s.file # None =>
                            /\ flushed[s.file]
                            /\ IsWhole(bytes[s.file])
                            /\ s.file # s.partial
                            /\ s.file # slot'[m].partial
    BY DEF FilesAreWhole, IsWhole, Whole
  <2>1. CASE m # n BY <1>1, <2>1 DEF VaultInv, FilesAreWhole
  <2>2. CASE m = n BY <1>1, <1>2, <2>2 DEF VaultInv, FilesAreWhole
  <2> QED BY <2>1, <2>2
<1>6. NamesShareNothing'
  <2>1. ASSUME NEW m \in Names, m # n, NEW s \in medium[m]
        PROVE  Holds(s) \cap Holds(left) = {}
    BY <1>2, <2>1 DEF VaultInv, NamesShareNothing
  <2> QED BY <1>1, <2>1 DEF VaultInv, NamesShareNothing
<1>7. WritersKnowTheirFile'
  <2>1. ASSUME NEW v \in Workers, v # w, job[v].at \in Writing \cup {"flush_dir"}
        PROVE  slot'[job[v].name] = slot[job[v].name]
    BY <1>1, <2>1 DEF VaultInv, JobsKnowTheirWork
  <2> QED BY <2>1 DEF VaultInv, WritersKnowTheirFile, Writing, Whole
<1>8. ReadersAreAlone'
  <2> SUFFICES ASSUME NEW v \in Workers, job'[v].at = "read"
               PROVE  /\ IsWhole(bytes[job'[v].object])
                      /\ \A m \in Names : slot'[m].partial # job'[v].object
    BY DEF ReadersAreAlone, IsWhole, Whole
  <2>1. v # w /\ job'[v] = job[v] /\ job[v].object \in Objects /\ job[v].object # None
    BY DEF VaultInv, JobsKnowTheirWork, Objects, None
  <2> QED BY <1>1, <2>1 DEF VaultInv, ReadersAreAlone
<1>9. PromisedFilesSurvive'
  <2> SUFFICES ASSUME NEW m \in Names, promised'[m] # None, NEW s \in medium'[m]
               PROVE  s.file # None /\ flushed[s.file] /\ bytes[s.file] = Whole(promised[m])
    BY DEF PromisedFilesSurvive, Whole
  <2>1. PICK t \in medium[m] : t.file = s.file
    BY <1>1, <1>2
  <2> QED BY <2>1 DEF VaultInv, PromisedFilesSurvive
<1> QED BY <1>3, <1>4, <1>5, <1>6, <1>7, <1>8, <1>9 DEF VaultInv

(* A delete takes the stored entry of its name, and the promise with it. *)
LEMMA DeleteKeepsInv ==
    ASSUME VaultInv, OneWriterPerName, NEW w \in Workers, job[w] = Idle, NEW n \in Names,
           NEW level, NEW stage, DeleteStored(w, n, level, stage)
    PROVE  VaultInv'
<1> DEFINE left == [slot[n] EXCEPT !.file = None]
<1>1. left \in Entries /\ left.file = None /\ left.partial = slot[n].partial
  BY DEF VaultInv, VaultTypeOK, Entries
<1>2. /\ slot' = [slot EXCEPT ![n] = left]
      /\ medium' = [medium EXCEPT ![n] = @ \cup {left}]
      /\ promised' = [promised EXCEPT ![n] = None]
      /\ UNCHANGED <<bytes, flushed, job>>
      /\ n \in Writes[w]
  BY DEF DeleteStored, Enters
<1> HIDE DEF left
<1>3. \A v \in Workers \ {w} : job[v].at \in Writing \cup {"flush_dir"} => job[v].name # n
  BY <1>2, OthersWriteElsewhere
<1>4. /\ DOMAIN promised' = Names
      /\ \A m \in Names : promised'[m] # None =>
            promised'[m] = promised[m] /\ (m = n => left.file = slot[n].file)
  BY <1>2 DEF VaultInv, VaultTypeOK
<1>5. job' \in [Workers -> JobRecords] /\ job'[w].at = "idle"
  BY <1>2, IdleIsAJob DEF VaultInv, VaultTypeOK
<1>6. EntryLeaves(w, n, left)
  BY <1>1, <1>2, <1>3, <1>4, <1>5 DEF EntryLeaves
<1> QED BY <1>1, <1>6, EntryLeavesKeepsInv

(* A write that fails takes its temporary with it, or leaves it, and        *)
(* nothing else.                                                            *)
LEMMA WriteFailsKeepsInv ==
    ASSUME VaultInv, OneWriterPerName, NEW w \in Workers, WriteFails(w)
    PROVE  VaultInv'
<1> DEFINE n == job[w].name
<1>1. /\ job' = [job EXCEPT ![w].at = "failed"]
      /\ job' \in [Workers -> JobRecords] /\ job'[w].at = "failed"
      /\ \A v \in Workers \ {w} : job'[v] = job[v]
      /\ UNCHANGED <<bytes, flushed, promised>>
      /\ n \in Names /\ n \in Writes[w]
  BY DEF WriteFails, VaultInv, VaultTypeOK, JobRecords, JobsKnowTheirWork, Writing
<1>2. CASE job[w].at = "rename" /\ slot[n].partial # None
  <2> DEFINE left == [slot[n] EXCEPT !.partial = None]
  <2>1. left \in Entries /\ left.file = slot[n].file /\ left.partial = None
    BY <1>1 DEF VaultInv, VaultTypeOK, Entries
  <2>2. /\ slot' = [slot EXCEPT ![n] = left]
        /\ medium' = [medium EXCEPT ![n] = @ \cup {left}]
    BY <1>2 DEF WriteFails, Enters
  <2> HIDE DEF left
  <2>3. \A v \in Workers \ {w} : job[v].at \in Writing \cup {"flush_dir"} => job[v].name # n
    BY <1>1, OthersWriteElsewhere
  <2>4. /\ DOMAIN promised' = Names
        /\ \A m \in Names : promised'[m] # None =>
              promised'[m] = promised[m] /\ (m = n => left.file = slot[n].file)
    BY <1>1, <2>1 DEF VaultInv, VaultTypeOK
  <2>5. EntryLeaves(w, n, left)
    BY <1>1, <2>1, <2>2, <2>3, <2>4 DEF EntryLeaves
  <2> QED BY <1>1, <2>1, <2>5, EntryLeavesKeepsInv
<1>3. CASE ~(job[w].at = "rename" /\ slot[n].partial # None)
  <2> DEFINE j == [job[w] EXCEPT !.at = "failed"]
  <2>1. UNCHANGED <<store, promised>>
    BY <1>1, <1>3 DEF WriteFails, store
  <2>2. j \in JobRecords /\ j.at = "failed"
    BY DEF VaultInv, VaultTypeOK, JobRecords
  <2>3. job' = [job EXCEPT ![w] = j]
    BY <1>1
  <2> HIDE DEF j
  <2> QED BY <2>1, <2>2, <2>3, JobStepKeepsInv
<1> QED BY <1>2, <1>3

-----------------------------------------------------------------------------
(* The process stops, and the power fails. *)

(* An exit leaves the files as they are, and no worker. *)
LEMMA ProcessExitsKeepsInv ==
    ASSUME VaultInv, ProcessExits
    PROVE  VaultInv'
<1> USE DEF store
<1>1. /\ \A v \in Workers : job'[v] = Idle
      /\ job' \in [Workers -> JobRecords]
      /\ Idle.at = "idle"
      /\ UNCHANGED <<slot, medium, bytes, flushed, promised>>
  BY IdleIsAJob DEF ProcessExits
<1>2. VaultTypeOK' /\ FilesAreWhole' /\ NamesShareNothing' /\ PromisedFilesSurvive'
  BY <1>1 DEF VaultInv, VaultTypeOK, FilesAreWhole, NamesShareNothing, PromisedFilesSurvive,
              IsWhole, Whole
<1>3. JobsKnowTheirWork' /\ WritersKnowTheirFile' /\ ReadersAreAlone'
  BY <1>1 DEF JobsKnowTheirWork, WritersKnowTheirFile, ReadersAreAlone, Writing
<1> QED BY <1>2, <1>3 DEF VaultInv

(* A power cut leaves each name one of the entries it may have, and takes   *)
(* no byte of what was flushed.                                             *)
LEMMA PowerCutSpares ==
    ASSUME VaultInv, PowerCut
    PROVE  /\ \A m \in Names : slot'[m] \in medium[m]
           /\ slot' \in [Names -> Entries]
           /\ medium' = [m \in Names |-> {slot'[m]}]
           /\ DOMAIN bytes' = Objects
           /\ \A x \in Objects : flushed[x] => bytes'[x] = bytes[x]
           /\ flushed' = [x \in Objects |-> TRUE]
           /\ job' = [w \in Workers |-> Idle]
           /\ promised' = promised
<1>1. /\ flushed' = [x \in Objects |-> TRUE]
      /\ job' = [w \in Workers |-> Idle]
      /\ promised' = promised
  BY DEF PowerCut
<1>2. PICK survives \in [Names -> UNION {medium[n] : n \in Names}] :
         /\ \A n \in Names : survives[n] \in medium[n]
         /\ slot' = survives
         /\ medium' = [n \in Names |-> {survives[n]}]
  BY DEF PowerCut
<1>3. slot' \in [Names -> Entries]
  BY <1>2 DEF VaultInv, VaultTypeOK
<1>4. PICK lost \in SUBSET {o \in Referenced \ {None} : ~flushed[o]} :
         bytes' = [o \in Objects |-> IF o \in lost THEN << >> ELSE bytes[o]]
  BY DEF PowerCut
<1> QED BY <1>1, <1>2, <1>3, <1>4

(* A power cut loses no byte of a file that was flushed, and leaves each    *)
(* name one of the entries it may hold.                                     *)
LEMMA PowerCutKeepsInv ==
    ASSUME VaultInv, PowerCut
    PROVE  VaultInv'
<1>1. /\ \A m \in Names : slot'[m] \in medium[m]
      /\ slot' \in [Names -> Entries]
      /\ medium' = [m \in Names |-> {slot'[m]}]
      /\ DOMAIN bytes' = Objects
      /\ \A x \in Objects : flushed[x] => bytes'[x] = bytes[x]
      /\ flushed' = [x \in Objects |-> TRUE]
      /\ job' = [w \in Workers |-> Idle]
      /\ promised' = promised
  BY PowerCutSpares
<1>2. /\ \A v \in Workers : job'[v] = Idle
      /\ job' \in [Workers -> JobRecords]
      /\ Idle.at = "idle"
  BY <1>1, IdleIsAJob
<1>3. ASSUME NEW m \in Names, slot'[m].file # None
      PROVE  /\ slot'[m].file \in Objects
             /\ bytes'[slot'[m].file] = bytes[slot'[m].file]
             /\ IsWhole(bytes[slot'[m].file])
             /\ slot'[m].file # slot'[m].partial
  BY <1>1, <1>3 DEF VaultInv, FilesAreWhole, Entries
<1>4. VaultTypeOK'
  BY <1>1, <1>2 DEF VaultInv, VaultTypeOK
<1>5. FilesAreWhole'
  BY <1>1, <1>3 DEF FilesAreWhole, IsWhole, Whole
<1>6. NamesShareNothing'
  BY <1>1 DEF VaultInv, NamesShareNothing
<1>7. JobsKnowTheirWork' /\ WritersKnowTheirFile' /\ ReadersAreAlone'
  BY <1>2 DEF JobsKnowTheirWork, WritersKnowTheirFile, ReadersAreAlone, Writing
<1>8. PromisedFilesSurvive'
  BY <1>1, <1>3 DEF VaultInv, PromisedFilesSurvive, Whole
<1> QED BY <1>4, <1>5, <1>6, <1>7, <1>8 DEF VaultInv

-----------------------------------------------------------------------------
(* The vault starts empty. *)
LEMMA VaultStarts ==
    ASSUME Init
    PROVE  VaultInv
<1> USE DEF Init
<1>1. EmptySlot \in Entries /\ EmptySlot.file = None /\ EmptySlot.partial = None
  BY DEF EmptySlot, Entries
<1>2. VaultTypeOK
  BY <1>1, IdleIsAJob DEF VaultTypeOK
<1>3. FilesAreWhole /\ NamesShareNothing /\ PromisedFilesSurvive
  BY <1>1 DEF FilesAreWhole, NamesShareNothing, PromisedFilesSurvive, Holds
<1>4. JobsKnowTheirWork /\ WritersKnowTheirFile /\ ReadersAreAlone
  BY IdleIsAJob DEF JobsKnowTheirWork, WritersKnowTheirFile, ReadersAreAlone, Writing
<1> QED BY <1>2, <1>3, <1>4 DEF VaultInv

(* Every step keeps the invariant. *)
LEMMA VaultStepKeepsInv ==
    ASSUME VaultInv, OneWriterPerName, [Next]_vars
    PROVE  VaultInv'
<1>1. ASSUME NEW w \in Workers, Write(w) PROVE VaultInv'
  BY <1>1, OpenTemporaryKeepsInv, WriteChunkKeepsInv, FlushFileKeepsInv, RenameKeepsInv,
     FlushDirectoryKeepsInv, WriteFailsKeepsInv, FailureAnsweredKeepsInv
     DEF Write
<1>2. ASSUME NEW w \in Workers, Request(w) PROVE VaultInv'
  <2>1. CASE ReadEnds(w) BY <2>1, ReadEndsKeepsInv
  <2>2. ASSUME job[w] = Idle, NEW n \in Names, NEW level, NEW stage,
               \/ \E p \in Payloads : PutAdmitted(w, n, p, level, stage)
               \/ DeleteStored(w, n, level, stage)
               \/ ReadOpens(w, n, level, stage)
        PROVE  VaultInv'
    BY <2>2, RequestKeepsInv, DeleteKeepsInv
  <2> QED BY <1>2, <2>1, <2>2 DEF Request
<1>3. CASE ProcessExits BY <1>3, ProcessExitsKeepsInv
<1>4. CASE PowerCut BY <1>4, PowerCutKeepsInv
<1>5. CASE UNCHANGED vars
  BY <1>5 DEF vars, VaultInv, VaultTypeOK, JobsKnowTheirWork, FilesAreWhole, NamesShareNothing,
              WritersKnowTheirFile, ReadersAreAlone, PromisedFilesSurvive, IsWhole, Whole
<1> QED BY <1>1, <1>2, <1>3, <1>4, <1>5 DEF Next

(* The invariant of the vault's workers, files and medium. *)
THEOREM VaultInvariant ==
    ASSUME OneWriterPerName
    PROVE  Spec => []VaultInv
<1>1. Init => VaultInv BY VaultStarts
<1>2. VaultInv /\ [Next]_vars => VaultInv' BY VaultStepKeepsInv
<1> QED BY <1>1, <1>2, PTL DEF Spec

(* Every variable of the vault stays what its type in the code is. *)
THEOREM VaultTypes ==
    ASSUME OneWriterPerName
    PROVE  Spec => []VaultTypeOK
<1>1. VaultInv => VaultTypeOK BY DEF VaultInv
<1> QED BY <1>1, VaultInvariant, PTL

(* What a reader opened stays the whole file it was (read_contained).       *)
THEOREM ReadersSeeWhole ==
    ASSUME OneWriterPerName
    PROVE  Spec => []ReadersSeeWholeFiles
<1>1. VaultInv => ReadersSeeWholeFiles
  BY DEF VaultInv, ReadersAreAlone, ReadersSeeWholeFiles
<1> QED BY <1>1, VaultInvariant, PTL

(* A client that was told its file is stored finds it whole, before any     *)
(* power cut and after it (write_durably).                                  *)
THEOREM PromisesSurvive ==
    ASSUME OneWriterPerName
    PROVE  Spec => []PromisedFilesSurvive
<1>1. VaultInv => PromisedFilesSurvive BY DEF VaultInv
<1> QED BY <1>1, VaultInvariant, PTL

-----------------------------------------------------------------------------
(* The quota.  What a worker was let in with and has yet to write. *)
Awaited(w) ==
    IF job[w].at \in {"open", "write"}
      THEN (job[w].written + 1)..Size[job[w].payload]
      ELSE {}

Pending == UNION {{<<w, i>> : i \in Awaited(w)} : w \in Workers}

(* What is stored and what is still to come are together within the quota   *)
(* and what every worker but one was let in with.                           *)
RoomKept ==
    faults.powerCuts = 0 =>
        Cardinality(Chunks) + Cardinality(Pending)
          <= Limit + (Cardinality(Workers) - 1) * Largest

RoomInv ==
    /\ \A o \in Objects : bytes[o] \in Seq(Payloads \cup {Hole})
    /\ faults \in [powerCuts : Nat, exits : Nat, diskErrors : Nat]
    /\ RoomKept

(* A non-empty set of finitely many naturals has a largest. *)
LEMMA MaxIsLargest ==
    ASSUME NEW S \in SUBSET Nat, IsFiniteSet(S), S # {}
    PROVE  Max(S) \in S /\ \A x \in S : x <= Max(S)
<1> DEFINE n == Cardinality(S)
<1>1. n \in Nat /\ ExistsBijection(1..n, S)
  BY FS_CardinalityType
<1>2. PICK f : f \in Bijection(1..n, S)
  BY <1>1 DEF ExistsBijection
<1>3. f \in [1..n -> S] /\ \A x \in S : \E i \in 1..n : f[i] = x
  BY <1>2 DEF Bijection, Surjection
<1> HIDE DEF n
<1> DEFINE Bounds(k, x) == \A i \in 1..k : f[i] <= x
           Unbounded == {k \in 0..n : \A x \in S : ~Bounds(k, x)}
           R == {ss \in Nat \X Nat : ss[1] < ss[2]}
<1>4. Unbounded = {}
  <2> SUFFICES ASSUME Unbounded # {} PROVE FALSE
    OBVIOUS
  <2>1. IsWellFoundedOn(R, Nat)
    BY NatLessThanWellFounded DEF OpToRel
  <2>2. Unbounded \subseteq Nat
    BY <1>1
  <2>3. PICK k \in Unbounded : \A j \in Unbounded : ~(<<j, k>> \in R)
    <3> HIDE DEF R, Unbounded
    <3> QED BY <2>1, <2>2, WFMin
  <2>4. k \in 0..n /\ \A x \in S : ~Bounds(k, x)
    BY <2>3
  <2>5. k # 0
    <3>1. \A x \in S : Bounds(0, x)
      OBVIOUS
    <3> HIDE DEF Bounds
    <3> QED BY <2>4, <3>1
  <2>6. k - 1 \in 0..n /\ k \in 1..n /\ k - 1 < k
    BY <1>1, <2>4, <2>5
  <2>7. <<k - 1, k>> \in R
    BY <1>1, <2>6
  <2>8. k - 1 \notin Unbounded
    <3> HIDE DEF R, Unbounded
    <3> QED BY <2>3, <2>7
  <2> HIDE DEF R
  <2>9. PICK x \in S : Bounds(k - 1, x)
    <3> HIDE DEF Bounds
    <3> QED BY <2>6, <2>8
  <2> HIDE DEF Unbounded
  <2>m. \A i \in 1..k : f[i] \in S /\ f[i] \in Nat
    <3>1. \A i \in 1..k : i \in 1..n BY <1>1, <2>6
    <3> QED BY <1>3, <3>1
  <2>10. PICK y \in S : f[k] <= y /\ x <= y
    <3>1. f[k] \in Nat /\ f[k] \in S /\ x \in Nat BY <2>6, <2>m
    <3>2. CASE x <= f[k] BY <3>1, <3>2
    <3>3. CASE ~(x <= f[k]) BY <3>1, <3>3
    <3> QED BY <3>2, <3>3
  <2>11. ASSUME NEW i \in 1..k PROVE f[i] <= y
    <3>1. CASE i = k BY <2>10, <3>1
    <3>2. CASE i # k
      <4>1. i \in 1..(k - 1) BY <2>6, <3>2
      <4>2. f[i] <= x BY <2>9, <4>1
      <4>3. f[i] \in Nat /\ x \in Nat /\ y \in Nat BY <2>m
      <4> QED BY <2>10, <4>2, <4>3
    <3> QED BY <3>1, <3>2
  <2>12. Bounds(k, y)
    BY <2>11
  <2> HIDE DEF Bounds
  <2> QED BY <2>4, <2>12
<1>5. n \in 0..n
  BY <1>1
<1>6. PICK x \in S : Bounds(n, x)
  <2> HIDE DEF Bounds
  <2> QED BY <1>4, <1>5
<1>7. \A i \in 1..n : f[i] <= x
  BY <1>6
<1>8. \A y \in S : y <= x
  BY <1>3, <1>7
<1>9. \E z \in S : \A y \in S : z >= y
  BY <1>8
<1>10. Max(S) \in S /\ \A y \in S : Max(S) >= y
  BY Zenon, <1>9 DEF Max
<1> QED BY <1>10

(* No body is larger than the largest. *)
LEMMA LargestIsLargest ==
    Largest \in Nat /\ \A p \in Payloads : Size[p] \in Nat \ {0} /\ Size[p] <= Largest
<1> DEFINE sizes == {Size[p] : p \in Payloads}
<1>1. \A p \in Payloads : Size[p] \in Nat \ {0}
  BY VaultAssumption
<1>2. sizes \in SUBSET Nat /\ sizes # {}
  BY <1>1, VaultAssumption
<1>3. IsFiniteSet(sizes)
  <2>1. Size \in Surjection(Payloads, sizes)
    BY VaultAssumption DEF Surjection
  <2> HIDE DEF sizes
  <2> QED BY <2>1, VaultAssumption, FS_Surjection
<1>4. Max(sizes) \in sizes /\ \A x \in sizes : x <= Max(sizes)
  <2> HIDE DEF sizes
  <2> QED BY <1>2, <1>3, MaxIsLargest
<1> QED BY <1>1, <1>2, <1>4 DEF Largest

(* Pairs of finitely many first parts, with finitely many second parts each.*)
LEMMA PairsAreFinite ==
    ASSUME NEW S, IsFiniteSet(S), NEW f, \A x \in S : IsFiniteSet(f[x])
    PROVE  IsFiniteSet(UNION {{<<x, i>> : i \in f[x]} : x \in S})
<1> DEFINE pairs(x) == {<<x, i>> : i \in f[x]}
           all == {pairs(x) : x \in S}
<1>1. ASSUME NEW x \in S PROVE IsFiniteSet(pairs(x))
  <2> DEFINE g == [i \in f[x] |-> <<x, i>>]
  <2>1. g \in Surjection(f[x], pairs(x))
    BY DEF Surjection
  <2> HIDE DEF g, pairs
  <2> QED BY <2>1, FS_Surjection
<1>2. IsFiniteSet(all)
  <2> DEFINE g == [x \in S |-> pairs(x)]
  <2> HIDE DEF pairs
  <2>1. g \in Surjection(S, all)
    BY DEF Surjection
  <2> HIDE DEF g, all
  <2> QED BY <2>1, FS_Surjection
<1>3. \A T \in all : IsFiniteSet(T)
  <2> HIDE DEF pairs
  <2> QED BY <1>1
<1>4. IsFiniteSet(UNION all)
  <2> HIDE DEF all
  <2> QED BY <1>2, <1>3, FS_UNION
<1> QED BY <1>4

(* As many for each, where there is as much for each. *)
LEMMA PairsAreCounted ==
    ASSUME NEW S, IsFiniteSet(S), NEW k \in Nat
    PROVE  /\ IsFiniteSet(S \X (1..k))
           /\ Cardinality(S \X (1..k)) = Cardinality(S) * k
<1>1. IsFiniteSet(1..k) /\ Cardinality(1..k) = k
  <2>1. 1 \in Int /\ k \in Int OBVIOUS
  <2>2. /\ IsFiniteSet(1..k)
        /\ Cardinality(1..k) = IF 1 > k THEN 0 ELSE k - 1 + 1
    BY ONLY <2>1, FS_Interval
  <2> QED BY <2>2
<1>2. /\ IsFiniteSet(S \X (1..k))
      /\ Cardinality(S \X (1..k)) = Cardinality(S) * Cardinality(1..k)
  BY ONLY <1>1, IsFiniteSet(S), FS_Product
<1> QED BY <1>1, <1>2

(* What a chunk is, of what is stored now and after a step. *)
LEMMA InChunks ==
    /\ \A c : c \in Chunks <=>
         \E o \in Linked \ {None} : \E i \in 1..Len(bytes[o]) : c = <<o, i>>
    /\ \A c : c \in Chunks' <=>
         \E o \in Linked' \ {None} : \E i \in 1..Len(bytes'[o]) : c = <<o, i>>
  BY DEF Chunks, None

(* What the directory names. *)
LEMMA InLinked ==
    /\ \A o : o \in Linked <=> \E n \in Names : o = slot[n].file \/ o = slot[n].partial
    /\ \A o : o \in Linked' <=> \E n \in Names : o = slot'[n].file \/ o = slot'[n].partial
  BY DEF Linked

(* What is still to come. *)
LEMMA InPending ==
    /\ \A c : c \in Pending <=> \E w \in Workers : \E i \in Awaited(w) : c = <<w, i>>
    /\ \A c : c \in Pending' <=> \E w \in Workers : \E i \in Awaited(w)' : c = <<w, i>>
  BY DEF Pending

(* What is stored, and what is still to come, can be counted. *)
LEMMA RoomIsFinite ==
    ASSUME VaultInv, RoomInv
    PROVE  /\ IsFiniteSet(Chunks) /\ Cardinality(Chunks) \in Nat
           /\ IsFiniteSet(Pending) /\ Cardinality(Pending) \in Nat
<1>1. Linked \ {None} \in SUBSET Objects
  BY InLinked DEF VaultInv, VaultTypeOK, Entries
<1>2. IsFiniteSet(Objects)
  <2>1. 1 \in Int /\ ObjectCount \in Int BY VaultAssumption
  <2> QED BY <2>1, FS_Interval DEF Objects
<1>3. IsFiniteSet(Linked \ {None})
  BY <1>1, <1>2, FS_Subset
<1>4. IsFiniteSet(Chunks)
  <2> DEFINE f == [o \in Linked \ {None} |-> 1..Len(bytes[o])]
  <2>1. ASSUME NEW o \in Linked \ {None} PROVE IsFiniteSet(1..Len(bytes[o]))
    <3>1. bytes[o] \in Seq(Payloads \cup {Hole}) BY <1>1 DEF RoomInv
    <3>2. 1 \in Int /\ Len(bytes[o]) \in Int BY <3>1
    <3> QED BY <3>2, FS_Interval
  <2>2. \A o \in Linked \ {None} : IsFiniteSet(f[o])
    BY <2>1
  <2>3. \A o \in Linked \ {None} : f[o] = 1..Len(bytes[o])
    OBVIOUS
  <2> HIDE DEF f
  <2>4. IsFiniteSet(UNION {{<<o, i>> : i \in f[o]} : o \in Linked \ {None}})
    BY <1>3, <2>2, PairsAreFinite
  <2>5. Chunks = UNION {{<<o, i>> : i \in f[o]} : o \in Linked \ {None}}
    BY <2>3 DEF Chunks
  <2> QED BY <2>4, <2>5
<1>5. IsFiniteSet(Pending)
  <2> DEFINE f == [w \in Workers |-> Awaited(w)]
  <2>1. ASSUME NEW w \in Workers PROVE IsFiniteSet(Awaited(w))
    <3>1. CASE job[w].at \in {"open", "write"}
      <4>1. job[w].written + 1 \in Int /\ Size[job[w].payload] \in Int
        BY <3>1, LargestIsLargest DEF VaultInv, VaultTypeOK, JobRecords, JobsKnowTheirWork, Writing
      <4> QED BY <3>1, <4>1, FS_Interval DEF Awaited
    <3>2. CASE job[w].at \notin {"open", "write"}
      BY <3>2, FS_EmptySet DEF Awaited
    <3> QED BY <3>1, <3>2
  <2>2. \A w \in Workers : IsFiniteSet(f[w]) /\ f[w] = Awaited(w)
    BY <2>1
  <2> HIDE DEF f
  <2>3. IsFiniteSet(UNION {{<<w, i>> : i \in f[w]} : w \in Workers})
    BY <2>2, PairsAreFinite, VaultAssumption
  <2>4. Pending = UNION {{<<w, i>> : i \in f[w]} : w \in Workers}
    BY <2>2 DEF Pending
  <2> QED BY <2>3, <2>4
<1> QED BY <1>4, <1>5, FS_CardinalityType

(* A step by which nothing is stored and nobody is let in. *)
LEMMA NothingIsAdded ==
    ASSUME VaultInv, RoomInv, UNCHANGED faults.powerCuts,
           Chunks' \subseteq Chunks, Pending' \subseteq Pending
    PROVE  RoomKept'
<1>1. /\ Cardinality(Chunks') \in Nat /\ Cardinality(Chunks') <= Cardinality(Chunks)
      /\ Cardinality(Pending') \in Nat /\ Cardinality(Pending') <= Cardinality(Pending)
  BY RoomIsFinite, FS_Subset, FS_CardinalityType
<1>2. Cardinality(Chunks) \in Nat /\ Cardinality(Pending) \in Nat
  BY RoomIsFinite
<1>3. Limit + (Cardinality(Workers) - 1) * Largest \in Int
  BY LargestIsLargest, VaultAssumption, FS_CardinalityType
<1> QED BY <1>1, <1>2, <1>3 DEF RoomInv, RoomKept

(* A worker that goes on with its write, or ends it, awaits no more. *)
LEMMA WorkerAwaitsNoMore ==
    ASSUME NEW w \in Workers, \A v \in Workers \ {w} : job'[v] = job[v],
           job'[w].at \in {"open", "write"} =>
               /\ job[w].at \in {"open", "write"}
               /\ job'[w].written = job[w].written
               /\ job'[w].payload = job[w].payload
    PROVE  Pending' \subseteq Pending
<1> SUFFICES ASSUME NEW c \in Pending' PROVE c \in Pending
  OBVIOUS
<1>1. PICK v \in Workers : \E i \in Awaited(v)' : c = <<v, i>>
  BY InPending
<1>2. Awaited(v)' \subseteq Awaited(v)
  <2>1. CASE v = w BY <2>1 DEF Awaited
  <2>2. CASE v # w BY <2>2 DEF Awaited
  <2> QED BY <2>1, <2>2
<1> QED BY <1>1, <1>2, InPending

(* Entries that leave the directory take their files out of the count. *)
LEMMA EntriesLeave ==
    ASSUME VaultInv, UNCHANGED bytes, NEW n \in Names, NEW e \in Entries,
           slot' = [slot EXCEPT ![n] = e], Holds(e) \subseteq Holds(slot[n])
    PROVE  Chunks' \subseteq Chunks
<1>1. \A m \in Names : slot'[m] = IF m = n THEN e ELSE slot[m]
  BY DEF VaultInv, VaultTypeOK
<1>2. \A o \in Linked' : o \in Linked \cup {None}
  BY <1>1, InLinked DEF Holds
<1> SUFFICES ASSUME NEW c \in Chunks' PROVE c \in Chunks
  OBVIOUS
<1>3. PICK o \in Linked' \ {None} : \E i \in 1..Len(bytes[o]) : c = <<o, i>>
  BY InChunks
<1> QED BY <1>2, <1>3, InChunks

(* A body that is let in is one there is room for, whatever the others have *)
(* still to write.                                                          *)
LEMMA AdmissionKeepsRoom ==
    ASSUME VaultInv, RoomInv, NEW w \in Workers, job[w] = Idle, NEW n \in Names,
           NEW p \in Payloads, NEW level, NEW stage, PutAdmitted(w, n, p, level, stage)
    PROVE  RoomKept'
<1> DEFINE own == {w} \X (1..Size[p])
           others == (Workers \ {w}) \X (1..Largest)
<1>1. /\ Size[p] \in Nat \ {0} /\ Size[p] <= Largest /\ Largest \in Nat
      /\ \A q \in Payloads : Size[q] \in Nat \ {0} /\ Size[q] <= Largest
  BY LargestIsLargest
<1>2. /\ job' = [job EXCEPT ![w] = [Idle EXCEPT !.at = "open", !.name = n, !.payload = p]]
      /\ UNCHANGED <<slot, bytes, faults>>
      /\ Admits(Size[p])
  BY DEF PutAdmitted, store
<1>3. /\ job'[w].at = "open" /\ job'[w].written = 0 /\ job'[w].payload = p
      /\ \A v \in Workers \ {w} : job'[v] = job[v]
  BY <1>2 DEF Idle, VaultInv, VaultTypeOK
<1>4. Awaited(w) = {} /\ Awaited(w)' = 1..Size[p]
  BY <1>3 DEF Idle, Awaited
<1>5. \A v \in Workers \ {w} : Awaited(v)' = Awaited(v) /\ Awaited(v) \subseteq 1..Largest
  <2> SUFFICES ASSUME NEW v \in Workers \ {w}
               PROVE  Awaited(v)' = Awaited(v) /\ Awaited(v) \subseteq 1..Largest
    OBVIOUS
  <2>1. Awaited(v)' = Awaited(v) BY <1>3 DEF Awaited
  <2>2. CASE job[v].at \in {"open", "write"}
    <3>1. job[v].payload \in Payloads /\ job[v].written \in Nat
      BY <2>2 DEF VaultInv, VaultTypeOK, JobRecords, JobsKnowTheirWork, Writing
    <3>2. Size[job[v].payload] \in Nat /\ Size[job[v].payload] <= Largest
      BY <1>1, <3>1
    <3> QED BY <1>1, <2>1, <2>2, <3>1, <3>2 DEF Awaited
  <2>3. CASE job[v].at \notin {"open", "write"}
    BY <2>1, <2>3 DEF Awaited
  <2> QED BY <2>2, <2>3
<1>6. Chunks' = Chunks
  BY <1>2 DEF Chunks, Linked
<1>7. Pending' = Pending \cup own
  <2>1. \A c : c \in Pending' <=> c \in Pending \/ \E i \in 1..Size[p] : c = <<w, i>>
    BY <1>4, <1>5, InPending
  <2> QED BY <2>1
<1>8. Pending \subseteq others
  <2> SUFFICES ASSUME NEW c \in Pending PROVE c \in others
    OBVIOUS
  <2>1. PICK v \in Workers : \E i \in Awaited(v) : c = <<v, i>>
    BY InPending
  <2> QED BY <1>4, <1>5, <2>1
<1>9. /\ IsFiniteSet({w}) /\ Cardinality({w}) = 1
      /\ IsFiniteSet(Workers \ {w}) /\ Cardinality(Workers \ {w}) = Cardinality(Workers) - 1
      /\ Cardinality(Workers) \in Nat
  BY VaultAssumption, FS_Singleton, FS_RemoveElement, FS_CardinalityType
<1>10. IsFiniteSet(own) /\ Cardinality(own) = Size[p]
  <2>1. Size[p] \in Nat BY <1>1
  <2>2. IsFiniteSet(own) /\ Cardinality(own) = Cardinality({w}) * Size[p]
    BY ONLY <1>9, <2>1, PairsAreCounted
  <2> HIDE DEF own
  <2> QED BY <1>9, <2>1, <2>2
<1>11. Cardinality(Pending) <= (Cardinality(Workers) - 1) * Largest
  <2>1. IsFiniteSet(others) /\ Cardinality(others) = Cardinality(Workers \ {w}) * Largest
    BY ONLY <1>1, <1>9, PairsAreCounted
  <2> HIDE DEF others
  <2> QED BY <1>8, <1>9, <2>1, FS_Subset
<1>12. Pending \cap own = {}
  BY <1>8
<1> HIDE DEF own, others
<1>13. Cardinality(Pending') = Cardinality(Pending) + Size[p]
  <2>1. IsFiniteSet(Pending) /\ Cardinality(Pending) \in Nat BY RoomIsFinite
  <2>2. Cardinality(Pending \cup own)
          = Cardinality(Pending) + Cardinality(own) - Cardinality(Pending \cap own)
    BY ONLY <1>10, <2>1, FS_Union
  <2>3. Cardinality(Pending \cap own) = 0
    BY <1>12, FS_EmptySet
  <2> QED BY <1>1, <1>7, <1>10, <2>1, <2>2, <2>3
<1>14. Cardinality(Chunks) \in Nat /\ Cardinality(Pending) \in Nat
  BY RoomIsFinite
<1>15. Cardinality(Chunks) + Size[p] <= Limit
  BY <1>1, <1>2, <1>14, VaultAssumption DEF Admits, Free, Used
<1>16. (Cardinality(Workers) - 1) * Largest \in Int
  BY <1>1, <1>9
<1> QED BY <1>1, <1>6, <1>11, <1>13, <1>14, <1>15, <1>16, VaultAssumption DEF RoomKept

(* A temporary that is opened is empty, whoever left it. *)
LEMMA OpeningAddsNothing ==
    ASSUME VaultInv, OneWriterPerName, NEW w \in Workers, OpenTemporary(w)
    PROVE  /\ Chunks' \subseteq Chunks
           /\ Pending' \subseteq Pending
           /\ \A x \in Objects : bytes'[x] = bytes[x] \/ bytes'[x] = << >>
<1> DEFINE n == job[w].name
           o == TheTemporary(n)
<1>1. /\ n \in Names /\ o \in Objects /\ o # None
      /\ slot' = [slot EXCEPT ![n] = [slot[n] EXCEPT !.partial = o]]
      /\ bytes' = [bytes EXCEPT ![o] = << >>]
      /\ job' = [job EXCEPT ![w].at = "write", ![w].object = o]
      /\ job[w].at = "open"
  BY TemporariesAreApart DEF OpenTemporary, Enters, TheTemporary, VaultInv, JobsKnowTheirWork
<1>2. \A x \in Objects : bytes'[x] = IF x = o THEN << >> ELSE bytes[x]
  BY <1>1 DEF VaultInv, VaultTypeOK
<1>3. /\ \A m \in Names \ {n} : slot'[m] = slot[m]
      /\ slot'[n].file = slot[n].file /\ slot'[n].partial = o
  BY <1>1 DEF VaultInv, VaultTypeOK, Entries
<1> HIDE DEF o
<1>4. \A x \in Linked' : x = o \/ x \in Linked
  BY <1>3, InLinked
<1>5. \A x \in Linked \ {None} : x \in Objects
  BY InLinked DEF VaultInv, VaultTypeOK, Entries
<1>6. ASSUME NEW c \in Chunks' PROVE c \in Chunks
  <2>1. PICK x \in Linked' \ {None} : \E i \in 1..Len(bytes'[x]) : c = <<x, i>>
    BY InChunks
  <2>2. CASE x = o
    <3>1. Len(bytes'[x]) = 0 BY <1>1, <1>2, <2>2
    <3> QED BY <2>1, <3>1
  <2>3. CASE x # o
    <3>1. x \in Linked \ {None} /\ bytes'[x] = bytes[x] BY <1>2, <1>4, <1>5, <2>3
    <3> QED BY <2>1, <3>1, InChunks
  <2> QED BY <2>2, <2>3
<1>7. Pending' \subseteq Pending
  BY <1>1, WorkerAwaitsNoMore DEF VaultInv, VaultTypeOK, JobRecords
<1> QED BY <1>2, <1>6, <1>7

(* A chunk that is written is one that was still to come. *)
LEMMA WritingKeepsRoom ==
    ASSUME VaultInv, RoomInv, OneWriterPerName, NEW w \in Workers, WriteChunk(w)
    PROVE  /\ RoomKept'
           /\ \A x \in Objects : bytes'[x] \in Seq(Payloads \cup {Hole})
<1> DEFINE o == job[w].object
           p == job[w].payload
           k == job[w].written
<1>1. /\ job[w].at = "write" /\ job[w].at \in Writing
      /\ o \in Objects /\ p \in Payloads /\ k \in Nat /\ k < Size[p] /\ Size[p] \in Nat
      /\ bytes[o] = [i \in 1..k |-> p]
  BY VaultAssumption
     DEF WriteChunk, Writing, VaultInv, VaultTypeOK, JobRecords, JobsKnowTheirWork,
         WritersKnowTheirFile
<1>2. bytes' = [bytes EXCEPT ![o] = [i \in 1..(k + 1) |-> p]]
  <2>1. WrittenAt(bytes[o], k + 1, p) = [i \in 1..(k + 1) |-> p]
    <3>1. k \in Nat /\ bytes[o] = [i \in 1..k |-> p]
      BY <1>1
    <3> HIDE DEF k, p, o
    <3>2. WrittenAt([i \in 1..k |-> p], k + 1, p) = [i \in 1..(k + 1) |-> p]
      BY <3>1, WrittenInOrder
    <3> QED BY <3>1, <3>2
  <2> QED BY <2>1 DEF WriteChunk
<1>3. /\ job' = [job EXCEPT ![w].written = k + 1,
                            ![w].at = IF k + 1 = Size[p] THEN "flush" ELSE "write"]
      /\ UNCHANGED <<slot, faults>>
  BY DEF WriteChunk
<1>4. \A x \in Objects : bytes'[x] = IF x = o THEN [i \in 1..(k + 1) |-> p] ELSE bytes[x]
  BY <1>2 DEF VaultInv, VaultTypeOK
<1>5. /\ \A v \in Workers \ {w} : job'[v] = job[v]
      /\ job'[w].written = k + 1 /\ job'[w].payload = p
      /\ job'[w].at = IF k + 1 = Size[p] THEN "flush" ELSE "write"
  BY <1>3 DEF VaultInv, VaultTypeOK, JobRecords
<1>6. Linked' = Linked
  BY <1>3 DEF Linked
<1>7. \A x \in Linked \ {None} : x \in Objects
  BY InLinked DEF VaultInv, VaultTypeOK, Entries
<1>8. Len(bytes[o]) = k /\ Len(bytes'[o]) = k + 1
  BY <1>1, <1>4
<1>9. Chunks' \subseteq Chunks \cup {<<o, k + 1>>}
  <2> SUFFICES ASSUME NEW c \in Chunks' PROVE c \in Chunks \cup {<<o, k + 1>>}
    OBVIOUS
  <2>1. PICK x \in Linked \ {None} : \E i \in 1..Len(bytes'[x]) : c = <<x, i>>
    BY <1>6, InChunks
  <2>2. PICK i \in 1..Len(bytes'[x]) : c = <<x, i>>
    BY <2>1
  <2>3. CASE x = o
    <3>1. i \in 1..k \/ i = k + 1 BY <1>1, <1>8, <2>2, <2>3
    <3> QED BY <1>8, <2>2, <2>3, <3>1, InChunks
  <2>4. CASE x # o
    <3>1. bytes'[x] = bytes[x] BY <1>4, <1>7, <2>4
    <3> QED BY <2>1, <3>1, InChunks
  <2> QED BY <2>3, <2>4
<1>10. Awaited(w) = (k + 1)..Size[p] /\ Awaited(w)' = (k + 2)..Size[p]
  BY <1>1, <1>5 DEF Awaited
<1>11. Pending' \subseteq Pending \ {<<w, k + 1>>} /\ <<w, k + 1>> \in Pending
  <2>1. ASSUME NEW c \in Pending' PROVE c \in Pending \ {<<w, k + 1>>}
    <3>1. PICK v \in Workers : \E i \in Awaited(v)' : c = <<v, i>>
      BY InPending
    <3>2. CASE v = w
      BY <1>1, <1>10, <3>1, <3>2, InPending
    <3>3. CASE v # w
      <4>1. Awaited(v)' = Awaited(v) BY <1>5, <3>3 DEF Awaited
      <4> QED BY <3>1, <3>3, <4>1, InPending
    <3> QED BY <3>2, <3>3
  <2>2. k + 1 \in Awaited(w) BY <1>1, <1>10
  <2> QED BY <2>1, <2>2, InPending
<1>12. /\ IsFiniteSet(Chunks) /\ Cardinality(Chunks) \in Nat
       /\ IsFiniteSet(Pending) /\ Cardinality(Pending) \in Nat
  BY RoomIsFinite
<1>13. Cardinality(Chunks') \in Nat /\ Cardinality(Chunks') <= Cardinality(Chunks) + 1
  <2> DEFINE more == Chunks \cup {<<o, k + 1>>}
  <2>1. /\ IsFiniteSet(more)
        /\ Cardinality(more)
             = IF <<o, k + 1>> \in Chunks THEN Cardinality(Chunks) ELSE Cardinality(Chunks) + 1
    <3> HIDE DEF o, k
    <3> QED BY ONLY <1>12, FS_AddElement
  <2> HIDE DEF more
  <2> QED BY <1>9, <1>12, <2>1, FS_Subset, FS_CardinalityType DEF more
<1>14. Cardinality(Pending') \in Nat /\ Cardinality(Pending') <= Cardinality(Pending) - 1
  <2> DEFINE fewer == Pending \ {<<w, k + 1>>}
  <2>1. IsFiniteSet(fewer) /\ Cardinality(fewer) = Cardinality(Pending) - 1
    BY <1>11, <1>12, FS_RemoveElement
  <2>2. Pending' \in SUBSET fewer
    BY <1>11
  <2> HIDE DEF fewer
  <2> QED BY <2>1, <2>2, FS_Subset, FS_CardinalityType
<1>15. Limit + (Cardinality(Workers) - 1) * Largest \in Int
  BY LargestIsLargest, VaultAssumption, FS_CardinalityType
<1>16. RoomKept'
  BY <1>3, <1>12, <1>13, <1>14, <1>15 DEF RoomInv, RoomKept
<1>17. [i \in 1..(k + 1) |-> p] \in Seq(Payloads \cup {Hole})
  BY <1>1
<1> QED BY <1>4, <1>16, <1>17 DEF RoomInv

(* Every step of a write keeps the room. *)
LEMMA WriteKeepsRoom ==
    ASSUME VaultInv, RoomInv, OneWriterPerName, NEW w \in Workers, Write(w)
    PROVE  RoomInv'
<1> DEFINE n == job[w].name
<1> USE DEF VaultInv, VaultTypeOK
<1>1. CASE OpenTemporary(w)
  <2>1. UNCHANGED faults BY <1>1 DEF OpenTemporary
  <2>2. RoomKept' BY <1>1, <2>1, OpeningAddsNothing, NothingIsAdded
  <2>3. << >> \in Seq(Payloads \cup {Hole}) OBVIOUS
  <2> QED BY <1>1, <2>1, <2>2, <2>3, OpeningAddsNothing DEF RoomInv
<1>2. CASE WriteChunk(w)
  BY <1>2, WritingKeepsRoom DEF RoomInv, WriteChunk
<1>3. ASSUME NEW e \in Entries, NEW m \in Names, Holds(e) \subseteq Holds(slot[m]),
             slot' = slot \/ slot' = [slot EXCEPT ![m] = e],
             UNCHANGED bytes,
             faults' = faults \/ faults' = [faults EXCEPT !.diskErrors = @ + 1],
             \A v \in Workers \ {w} : job'[v] = job[v],
             job'[w].at \notin {"open", "write"}
      PROVE  RoomInv'
  <2>1. Pending' \subseteq Pending BY <1>3, WorkerAwaitsNoMore
  <2>2. Chunks' \subseteq Chunks
    <3>1. CASE slot' = slot BY <1>3, <3>1 DEF Chunks, Linked
    <3>2. CASE slot' # slot BY <1>3, <3>2, EntriesLeave
    <3> QED BY <3>1, <3>2
  <2>3. /\ UNCHANGED faults.powerCuts
        /\ faults' \in [powerCuts : Nat, exits : Nat, diskErrors : Nat]
    BY <1>3 DEF RoomInv
  <2> QED BY <1>3, <2>1, <2>2, <2>3, NothingIsAdded DEF RoomInv
<1>4. Holds(slot[n]) \subseteq Holds(slot[n])
  OBVIOUS
<1>5. CASE FlushFile(w)
  <2>1. job[w].name \in Names /\ slot[n] \in Entries
    BY <1>5 DEF FlushFile, JobsKnowTheirWork, Writing
  <2> QED BY <1>3, <1>4, <1>5, <2>1 DEF FlushFile, JobRecords
<1>6. CASE RenameOverDestination(w)
  <2> DEFINE e == [file |-> slot[n].partial, partial |-> None]
  <2>1. n \in Names /\ slot[n] \in Entries
    BY <1>6 DEF RenameOverDestination, JobsKnowTheirWork, Writing
  <2>2. e \in Entries /\ Holds(e) \subseteq Holds(slot[n])
    BY <2>1 DEF Entries, Holds
  <2>3. /\ slot' = slot \/ slot' = [slot EXCEPT ![n] = e]
        /\ UNCHANGED <<bytes, faults>>
        /\ \A v \in Workers \ {w} : job'[v] = job[v]
        /\ job'[w].at \in {"flush_dir", "failed"}
    BY <1>6 DEF RenameOverDestination, Enters, JobRecords
  <2> HIDE DEF e, n
  <2> QED BY <1>3, <2>1, <2>2, <2>3
<1>7. CASE FlushDirectory(w)
  <2>1. n \in Names /\ slot[n] \in Entries
    BY <1>7 DEF FlushDirectory, JobsKnowTheirWork
  <2> QED BY <1>3, <1>4, <1>7, <2>1, IdleIsAJob DEF FlushDirectory
<1>8. CASE WriteFails(w)
  <2> DEFINE e == [slot[n] EXCEPT !.partial = None]
  <2>1. n \in Names /\ slot[n] \in Entries
    BY <1>8 DEF WriteFails, JobsKnowTheirWork, Writing
  <2>2. e \in Entries /\ Holds(e) \subseteq Holds(slot[n])
    BY <2>1 DEF Entries, Holds
  <2>3. /\ slot' = slot \/ slot' = [slot EXCEPT ![n] = e]
        /\ UNCHANGED bytes
        /\ faults' = [faults EXCEPT !.diskErrors = @ + 1]
        /\ \A v \in Workers \ {w} : job'[v] = job[v]
        /\ job'[w].at = "failed"
    BY <1>8 DEF WriteFails, Enters, JobRecords
  <2> HIDE DEF e, n
  <2> QED BY <1>3, <2>1, <2>2, <2>3
<1>9. CASE FailureAnswered(w)
  <2>1. /\ UNCHANGED <<slot, bytes, faults>>
        /\ \A v \in Workers \ {w} : job'[v] = job[v]
        /\ job'[w].at = "idle"
    BY <1>9, IdleIsAJob DEF FailureAnswered, store
  <2>2. Pending' \subseteq Pending BY <2>1, WorkerAwaitsNoMore
  <2>3. Chunks' \subseteq Chunks BY <2>1 DEF Chunks, Linked
  <2> QED BY <2>1, <2>2, <2>3, NothingIsAdded DEF RoomInv
<1> QED BY <1>1, <1>2, <1>5, <1>6, <1>7, <1>8, <1>9 DEF Write

(* So does every step. *)
LEMMA StepKeepsRoom ==
    ASSUME VaultInv, RoomInv, OneWriterPerName, [Next]_vars
    PROVE  RoomInv'
<1>1. ASSUME NEW w \in Workers, Write(w) PROVE RoomInv'
  BY <1>1, WriteKeepsRoom
<1>2. ASSUME NEW w \in Workers, UNCHANGED <<slot, bytes, faults>>, NEW j,
             job' = [job EXCEPT ![w] = j], j.at \notin {"open", "write"}
      PROVE  RoomInv'
  <2>1. (\A v \in Workers \ {w} : job'[v] = job[v]) /\ job'[w] = j
    BY <1>2 DEF VaultInv, VaultTypeOK
  <2>2. Pending' \subseteq Pending BY <1>2, <2>1, WorkerAwaitsNoMore
  <2>3. Chunks' \subseteq Chunks BY <1>2 DEF Chunks, Linked
  <2> QED BY <1>2, <2>2, <2>3, NothingIsAdded DEF RoomInv
<1>3. ASSUME NEW w \in Workers, ReadEnds(w) PROVE RoomInv'
  BY <1>2, <1>3, IdleIsAJob DEF ReadEnds, store
<1>4. ASSUME NEW w \in Workers, job[w] = Idle, NEW n \in Names, NEW level, NEW stage,
             NEW p \in Payloads, PutAdmitted(w, n, p, level, stage)
      PROVE  RoomInv'
  BY <1>4, AdmissionKeepsRoom DEF RoomInv, PutAdmitted, store
<1>5. ASSUME NEW w \in Workers, NEW n \in Names, NEW level, NEW stage,
             ReadOpens(w, n, level, stage)
      PROVE  RoomInv'
  <2> DEFINE j == [Idle EXCEPT !.at = "read", !.name = n, !.object = slot[n].file]
  <2>1. j.at = "read" BY DEF Idle
  <2>2. job' = [job EXCEPT ![w] = j] /\ UNCHANGED <<slot, bytes, faults>>
    BY <1>5 DEF ReadOpens, store
  <2> HIDE DEF j
  <2> QED BY <1>2, <2>1, <2>2
<1>6. ASSUME NEW w \in Workers, NEW n \in Names, NEW level, NEW stage,
             DeleteStored(w, n, level, stage)
      PROVE  RoomInv'
  <2> DEFINE e == [slot[n] EXCEPT !.file = None]
  <2>1. slot[n] \in Entries BY DEF VaultInv, VaultTypeOK
  <2>2. e \in Entries /\ Holds(e) \subseteq Holds(slot[n])
    BY <2>1 DEF Entries, Holds
  <2>3. slot' = [slot EXCEPT ![n] = e] /\ UNCHANGED <<bytes, job, faults>>
    BY <1>6 DEF DeleteStored, Enters
  <2>4. Chunks' \subseteq Chunks
    <3> HIDE DEF e
    <3> QED BY <2>2, <2>3, EntriesLeave
  <2>5. Pending' \subseteq Pending BY <2>3 DEF Pending, Awaited
  <2> QED BY <2>3, <2>4, <2>5, NothingIsAdded DEF RoomInv
<1>7. ASSUME NEW w \in Workers, Request(w) PROVE RoomInv'
  BY <1>3, <1>4, <1>5, <1>6, <1>7 DEF Request
<1>8. CASE ProcessExits
  <2>1. UNCHANGED <<slot, bytes>> /\ \A w \in Workers : job'[w] = Idle
    BY <1>8 DEF ProcessExits, store
  <2>2. \A w \in Workers : Awaited(w)' = {}
    BY <2>1, IdleIsAJob DEF Awaited
  <2>3. Pending' \subseteq Pending BY <2>2, InPending
  <2>4. Chunks' \subseteq Chunks BY <2>1 DEF Chunks, Linked
  <2>5. UNCHANGED faults.powerCuts /\ faults' \in [powerCuts : Nat, exits : Nat, diskErrors : Nat]
    BY <1>8 DEF ProcessExits, RoomInv
  <2> QED BY <2>1, <2>3, <2>4, <2>5, NothingIsAdded DEF RoomInv
<1>9. CASE PowerCut
  <2>1. /\ faults' \in [powerCuts : Nat, exits : Nat, diskErrors : Nat]
        /\ faults'.powerCuts # 0
    BY <1>9 DEF PowerCut, RoomInv
  <2>2. \A o \in Objects : bytes'[o] = bytes[o] \/ bytes'[o] = << >>
    BY <1>9 DEF PowerCut
  <2>3. << >> \in Seq(Payloads \cup {Hole}) OBVIOUS
  <2> QED BY <2>1, <2>2, <2>3 DEF RoomInv, RoomKept
<1>10. CASE UNCHANGED vars
  BY <1>10 DEF vars, RoomInv, RoomKept, Chunks, Linked, Pending, Awaited
<1> QED BY <1>1, <1>7, <1>8, <1>9, <1>10 DEF Next

(* The vault starts with room. *)
LEMMA RoomAtFirst ==
    ASSUME Init
    PROVE  RoomInv
<1>1. Chunks = {}
  BY InChunks, InLinked DEF Init, EmptySlot
<1>2. Pending = {}
  BY InPending, IdleIsAJob DEF Init, Awaited
<1>3. Cardinality(Workers) \in Nat /\ Cardinality(Workers) # 0
  BY VaultAssumption, FS_CardinalityType, FS_EmptySet
<1>4. (Cardinality(Workers) - 1) * Largest \in Nat
  BY <1>3, LargestIsLargest
<1>5. RoomKept
  BY <1>1, <1>2, <1>4, FS_EmptySet, VaultAssumption DEF RoomKept
<1> QED BY <1>5 DEF Init, RoomInv

(* Until a power cut brings back what was deleted, what slips past the      *)
(* quota is bounded by what the other workers were admitted with            *)
(* (used_bytes, Admission::of).                                             *)
THEOREM OvershootIsBounded ==
    ASSUME OneWriterPerName
    PROVE  Spec => []OvershootBounded
<1>1. Init => RoomInv BY RoomAtFirst
<1>2. VaultInv /\ RoomInv /\ [Next]_vars => RoomInv' BY StepKeepsRoom
<1>3. VaultInv /\ RoomInv => OvershootBounded
  <2> SUFFICES ASSUME VaultInv, RoomInv PROVE OvershootBounded
    OBVIOUS
  <2>1. Cardinality(Chunks) \in Nat /\ Cardinality(Pending) \in Nat
    BY RoomIsFinite
  <2>2. Limit + (Cardinality(Workers) - 1) * Largest \in Int
    BY LargestIsLargest, VaultAssumption, FS_CardinalityType
  <2> QED BY <2>1, <2>2 DEF RoomInv, RoomKept, OvershootBounded, Used
<1> QED BY <1>1, <1>2, <1>3, VaultInvariant, PTL DEF Spec

-----------------------------------------------------------------------------
(* The vault implements AtomicStore.  What a name holds, and may hold after *)
(* a power cut, seen from there.                                            *)
StoredAt(n)   == ContentOf(slot[n].file)
PossibleAt(n) == {ContentOf(s.file) : s \in medium[n]}

(* A step after which every name holds, and may hold, what it did is no     *)
(* step of the store.                                                       *)
LEMMA StoreStutters ==
    ASSUME \A n \in Names : StoredAt(n)' = StoredAt(n) /\ PossibleAt(n)' = PossibleAt(n)
    PROVE  UNCHANGED Store!vars
  BY DEF Store!vars, StoredAt, PossibleAt, ContentOf

(* The name takes a new content, and every other name is left alone. *)
StoreGets(n, c) ==
    /\ StoredAt(n)' = c
    /\ PossibleAt(n)' = PossibleAt(n) \cup {c}
    /\ \A m \in Names \ {n} : StoredAt(m)' = StoredAt(m) /\ PossibleAt(m)' = PossibleAt(m)

(* A step that gives one name a new content is that step of the store. *)
LEMMA StoreBecomes ==
    ASSUME NEW n \in Names, NEW c, StoreGets(n, c)
    PROVE  Store!Becomes(n, c)
  BY DEF StoreGets, Store!Becomes, StoredAt, PossibleAt, ContentOf

(* A name whose entries keep their files, and whose files keep their bytes, *)
(* holds what it held.                                                      *)
LEMMA NameHoldsOn ==
    ASSUME NEW n \in Names,
           slot'[n].file = slot[n].file,
           {s.file : s \in medium'[n]} = {s.file : s \in medium[n]},
           slot[n] \in medium[n],
           \A s \in medium[n] : s.file # None => bytes'[s.file] = bytes[s.file]
    PROVE  StoredAt(n)' = StoredAt(n) /\ PossibleAt(n)' = PossibleAt(n)
<1>1. StoredAt(n)' = StoredAt(n)
  BY DEF StoredAt, ContentOf
<1>2. \A t \in medium'[n] : \E s \in medium[n] : s.file = t.file
  OBVIOUS
<1>3. \A s \in medium[n] : \E t \in medium'[n] : s.file = t.file
  OBVIOUS
<1>4. PossibleAt(n)' = {IF t.file = None THEN << >> ELSE bytes'[t.file] : t \in medium'[n]}
  BY DEF PossibleAt, ContentOf
<1>5. PossibleAt(n) = {IF s.file = None THEN << >> ELSE bytes[s.file] : s \in medium[n]}
  BY DEF PossibleAt, ContentOf
<1>6. PossibleAt(n)' \subseteq PossibleAt(n)
  BY <1>2, <1>4, <1>5
<1>7. PossibleAt(n) \subseteq PossibleAt(n)'
  BY <1>3, <1>4, <1>5
<1> QED BY <1>1, <1>6, <1>7

(* Every file a name may hold is an object, and flushed. *)
LEMMA FilesAreKnown ==
    ASSUME VaultInv, NEW n \in Names
    PROVE  /\ slot[n] \in medium[n]
           /\ \A s \in medium[n] : s \in Entries
           /\ \A s \in medium[n] : s.file # None => s.file \in Objects /\ flushed[s.file]
  BY DEF VaultInv, VaultTypeOK, FilesAreWhole, Entries

(* A step that writes to a temporary stutters. *)
LEMMA OpeningStutters ==
    ASSUME VaultInv, NEW w \in Workers, OpenTemporary(w)
    PROVE  UNCHANGED Store!vars
<1> DEFINE n == job[w].name
           o == TheTemporary(n)
           opened == [slot[n] EXCEPT !.partial = o]
<1>1. n \in Names /\ slot[n] \in Entries
  BY DEF VaultInv, VaultTypeOK, JobsKnowTheirWork, OpenTemporary
<1>2. /\ slot[n].partial = None => Fresh # {}
      /\ slot' = [slot EXCEPT ![n] = opened]
      /\ medium' = [medium EXCEPT ![n] = @ \cup {opened}]
      /\ bytes' = [bytes EXCEPT ![o] = << >>]
  BY DEF OpenTemporary, TheTemporary, Enters
<1>3. \A m \in Names : \A s \in medium[m] : s.file # o
  BY <1>1, <1>2, TemporariesAreApart
<1> HIDE DEF o
<1>4. opened.file = slot[n].file
  BY <1>1 DEF Entries
<1> HIDE DEF opened
<1> SUFFICES ASSUME NEW m \in Names
             PROVE  StoredAt(m)' = StoredAt(m) /\ PossibleAt(m)' = PossibleAt(m)
  BY StoreStutters
<1>5. slot'[m].file = slot[m].file
  BY <1>1, <1>2, <1>4 DEF VaultInv, VaultTypeOK
<1>6. slot[m] \in medium[m] BY FilesAreKnown
<1>7. {s.file : s \in medium'[m]} = {s.file : s \in medium[m]}
  <2>1. CASE m # n
    <3>1. medium'[m] = medium[m] BY <1>2, <2>1 DEF VaultInv, VaultTypeOK
    <3> QED BY <3>1
  <2>2. CASE m = n
    <3>1. medium'[m] = medium[m] \cup {opened} BY <1>2, <2>2 DEF VaultInv, VaultTypeOK
    <3> QED BY <1>4, <1>6, <2>2, <3>1
  <2> QED BY <2>1, <2>2
<1>8. \A s \in medium[m] : s.file # None => bytes'[s.file] = bytes[s.file]
  BY <1>2, <1>3, FilesAreKnown DEF VaultInv, VaultTypeOK
<1> QED BY <1>5, <1>6, <1>7, <1>8, NameHoldsOn

(* Neither writing to a temporary nor flushing it is a step of the store. *)
LEMMA WritingStutters ==
    ASSUME VaultInv, OneWriterPerName, NEW w \in Workers, WriteChunk(w) \/ FlushFile(w)
    PROVE  UNCHANGED Store!vars
<1>1. job[w].at \in Writing /\ UNCHANGED <<slot, medium>>
  BY DEF WriteChunk, FlushFile, Writing
<1>2. \A m \in Names : \A s \in medium[m] : s.file # job[w].object
  BY <1>1, WritersAreApart
<1>3. \A x \in Objects : x # job[w].object => bytes'[x] = bytes[x]
  BY DEF WriteChunk, FlushFile, VaultInv, VaultTypeOK
<1> SUFFICES ASSUME NEW m \in Names
             PROVE  StoredAt(m)' = StoredAt(m) /\ PossibleAt(m)' = PossibleAt(m)
  BY StoreStutters
<1>4. \A s \in medium[m] : s.file # None => bytes'[s.file] = bytes[s.file]
  BY <1>2, <1>3, FilesAreKnown
<1> QED BY <1>1, <1>4, FilesAreKnown, NameHoldsOn

(* The rename is the moment the whole file is put under its name. *)
LEMMA RenamePuts ==
    ASSUME VaultInv, OneWriterPerName, NEW w \in Workers, RenameOverDestination(w)
    PROVE  Store!Next
<1>0. job[w].at = "rename" /\ job[w].at \in Writing
  BY DEF RenameOverDestination, Writing
<1>a. job[w].object # None
  BY <1>0, WritersAreApart
<1>b. /\ job[w].name \in Names /\ job[w].payload \in Payloads
      /\ slot[job[w].name].partial = job[w].object
      /\ bytes[job[w].object] = Whole(job[w].payload)
  BY <1>0 DEF Writing, VaultInv, JobsKnowTheirWork, WritersKnowTheirFile, Whole
<1>1. PICK n \in Names, p \in Payloads, o \in {job[w].object} :
         /\ job[w].name = n
         /\ slot[n].partial = o /\ o # None
         /\ bytes[o] = Whole(p)
  BY <1>a, <1>b
<1> DEFINE renamed == [file |-> o, partial |-> None]
<1>2. /\ slot' = [slot EXCEPT ![n] = renamed]
      /\ medium' = [medium EXCEPT ![n] = @ \cup {renamed}]
      /\ UNCHANGED bytes
  BY <1>1 DEF RenameOverDestination, Enters
<1>3. renamed.file = o OBVIOUS
<1> HIDE DEF renamed
<1>4. /\ slot'[n] = renamed
      /\ medium'[n] = medium[n] \cup {renamed}
      /\ \A m \in Names \ {n} : slot'[m] = slot[m] /\ medium'[m] = medium[m]
  BY <1>1, <1>2 DEF VaultInv, VaultTypeOK
<1>5. StoredAt(n)' = Whole(p)
  BY <1>1, <1>2, <1>3, <1>4 DEF StoredAt, ContentOf
<1>6. PossibleAt(n)' = PossibleAt(n) \cup {Whole(p)}
  <2> DEFINE content(s) == IF s.file = None THEN << >> ELSE bytes[s.file]
  <2>1. PossibleAt(n)' = {content(s) : s \in medium'[n]}
    BY <1>2 DEF PossibleAt, ContentOf
  <2>2. PossibleAt(n) = {content(s) : s \in medium[n]}
    BY DEF PossibleAt, ContentOf
  <2>3. content(renamed) = Whole(p)
    BY <1>1, <1>3
  <2> HIDE DEF content
  <2> QED BY <1>4, <2>1, <2>2, <2>3
<1>7. \A m \in Names \ {n} : StoredAt(m)' = StoredAt(m) /\ PossibleAt(m)' = PossibleAt(m)
  BY <1>2, <1>4 DEF StoredAt, PossibleAt, ContentOf
<1>8. StoreGets(n, Whole(p))
  BY <1>5, <1>6, <1>7 DEF StoreGets
<1>9. Store!Becomes(n, Whole(p))
  BY <1>1, <1>8, StoreBecomes
<1>10. Whole(p) \in {Whole(q) : q \in Payloads}
  BY <1>1, Zenon
<1>11. Store!Put(n, Whole(p))
  BY <1>9, <1>10 DEF Store!Put
<1> QED BY Zenon, <1>10, <1>11 DEF Store!Next

(* A deletion is the moment the name holds nothing. *)
LEMMA DeletionDeletes ==
    ASSUME VaultInv, NEW w \in Workers, NEW n \in Names, NEW level, NEW stage,
           DeleteStored(w, n, level, stage)
    PROVE  Store!Next
<1> DEFINE left == [slot[n] EXCEPT !.file = None]
<1>1. left.file = None
  BY DEF VaultInv, VaultTypeOK, Entries
<1>2. /\ slot' = [slot EXCEPT ![n] = left]
      /\ medium' = [medium EXCEPT ![n] = @ \cup {left}]
      /\ UNCHANGED bytes
  BY DEF DeleteStored, Enters
<1> HIDE DEF left
<1>3. /\ slot'[n] = left
      /\ medium'[n] = medium[n] \cup {left}
      /\ \A m \in Names \ {n} : slot'[m] = slot[m] /\ medium'[m] = medium[m]
  BY <1>2 DEF VaultInv, VaultTypeOK
<1>4. StoredAt(n)' = << >>
  BY <1>1, <1>3 DEF StoredAt, ContentOf
<1>5. PossibleAt(n)' = PossibleAt(n) \cup {<< >>}
  <2> DEFINE content(s) == IF s.file = None THEN << >> ELSE bytes[s.file]
  <2>1. PossibleAt(n)' = {content(s) : s \in medium'[n]}
    BY <1>2 DEF PossibleAt, ContentOf
  <2>2. PossibleAt(n) = {content(s) : s \in medium[n]}
    BY DEF PossibleAt, ContentOf
  <2>3. content(left) = << >>
    BY <1>1
  <2> HIDE DEF content
  <2> QED BY <1>3, <2>1, <2>2, <2>3
<1>6. \A m \in Names \ {n} : StoredAt(m)' = StoredAt(m) /\ PossibleAt(m)' = PossibleAt(m)
  BY <1>2, <1>3 DEF StoredAt, PossibleAt, ContentOf
<1>7. StoreGets(n, << >>)
  BY <1>4, <1>5, <1>6 DEF StoreGets
<1>8. Store!Becomes(n, << >>)
  BY <1>7, StoreBecomes
<1> QED BY <1>8 DEF Store!Next, Store!Delete

(* The flush of the directory settles every name, not only the one written. *)
LEMMA FlushSettles ==
    ASSUME VaultInv, NEW w \in Workers, FlushDirectory(w)
    PROVE  Store!Next
<1>1. medium' = [m \in Names |-> {slot[m]}] /\ UNCHANGED <<slot, bytes>>
  BY DEF FlushDirectory
<1>2. \A m \in Names : StoredAt(m)' = StoredAt(m) /\ PossibleAt(m)' = {StoredAt(m)}
  BY <1>1 DEF StoredAt, PossibleAt, ContentOf
<1>3. Store!Settle
  BY <1>2 DEF Store!Settle, StoredAt, PossibleAt, ContentOf
<1> QED BY <1>3 DEF Store!Next

(* A call that fails takes a temporary away, or nothing. *)
LEMMA FailingStutters ==
    ASSUME VaultInv, NEW w \in Workers, WriteFails(w)
    PROVE  UNCHANGED Store!vars
<1> DEFINE n == job[w].name
           left == [slot[n] EXCEPT !.partial = None]
<1>1. n \in Names /\ UNCHANGED bytes
  BY DEF WriteFails, VaultInv, JobsKnowTheirWork, Writing
<1>2. \/ UNCHANGED <<slot, medium>>
      \/ slot' = [slot EXCEPT ![n] = left] /\ medium' = [medium EXCEPT ![n] = @ \cup {left}]
  BY DEF WriteFails, Enters
<1>3. left.file = slot[n].file
  BY <1>1 DEF VaultInv, VaultTypeOK, Entries
<1> HIDE DEF left
<1> SUFFICES ASSUME NEW m \in Names
             PROVE  StoredAt(m)' = StoredAt(m) /\ PossibleAt(m)' = PossibleAt(m)
  BY StoreStutters
<1>4. slot'[m].file = slot[m].file
  BY <1>1, <1>2, <1>3 DEF VaultInv, VaultTypeOK
<1>5. slot[m] \in medium[m] BY FilesAreKnown
<1>6. {s.file : s \in medium'[m]} = {s.file : s \in medium[m]}
  <2>1. CASE medium'[m] = medium[m]
    BY <2>1
  <2>2. CASE m = n /\ medium'[m] = medium[m] \cup {left}
    BY <1>3, <1>5, <2>2
  <2> QED BY <1>1, <1>2, <2>1, <2>2 DEF VaultInv, VaultTypeOK
<1> QED BY <1>1, <1>4, <1>5, <1>6, NameHoldsOn

(* A power cut undoes what the store says it may, and spoils no file. *)
LEMMA PowerCutUndoes ==
    ASSUME VaultInv, PowerCut
    PROVE  Store!Next
<1>1. /\ \A m \in Names : slot'[m] \in medium[m]
      /\ medium' = [m \in Names |-> {slot'[m]}]
      /\ \A x \in Objects : flushed[x] => bytes'[x] = bytes[x]
  BY PowerCutSpares
<1>2. ASSUME NEW m \in Names
      PROVE  StoredAt(m)' \in PossibleAt(m) /\ PossibleAt(m)' = {StoredAt(m)'}
  <2>1. slot'[m].file # None => bytes'[slot'[m].file] = bytes[slot'[m].file]
    BY <1>1, FilesAreKnown
  <2>2. StoredAt(m)' = IF slot'[m].file = None THEN << >> ELSE bytes[slot'[m].file]
    BY <2>1 DEF StoredAt, ContentOf
  <2>3. StoredAt(m)' \in PossibleAt(m)
    BY <1>1, <2>2 DEF PossibleAt, ContentOf
  <2>4. PossibleAt(m)' = {StoredAt(m)'}
    BY <1>1 DEF PossibleAt, StoredAt
  <2> QED BY <2>3, <2>4
<1>3. Store!PowerCut
  BY <1>2 DEF Store!PowerCut, StoredAt, PossibleAt, ContentOf
<1> QED BY <1>3 DEF Store!Next

(* The vault starts as the empty store. *)
LEMMA StoreStarts ==
    ASSUME Init
    PROVE  Store!Init
  BY DEF Init, EmptySlot, Store!Init, ContentOf

(* A step that leaves entries and bytes alone is none of the store. *)
LEMMA QuietStutters ==
    ASSUME UNCHANGED <<slot, medium, bytes>>
    PROVE  UNCHANGED Store!vars
  BY StoreStutters DEF StoredAt, PossibleAt, ContentOf

(* Every step of the vault is a step of the store, or none. *)
LEMMA VaultStepStores ==
    ASSUME VaultInv, OneWriterPerName, [Next]_vars
    PROVE  [Store!Next]_(Store!vars)
<1> USE DEF store
<1>1. ASSUME NEW w \in Workers, Write(w) PROVE [Store!Next]_(Store!vars)
  <2>1. CASE OpenTemporary(w) BY <2>1, OpeningStutters
  <2>2. CASE WriteChunk(w) \/ FlushFile(w) BY <2>2, WritingStutters
  <2>3. CASE RenameOverDestination(w) BY <2>3, RenamePuts
  <2>4. CASE FlushDirectory(w) BY <2>4, FlushSettles
  <2>5. CASE WriteFails(w) BY <2>5, FailingStutters
  <2>6. CASE FailureAnswered(w) BY <2>6, QuietStutters DEF FailureAnswered
  <2> QED BY <1>1, <2>1, <2>2, <2>3, <2>4, <2>5, <2>6 DEF Write
<1>2. ASSUME NEW w \in Workers, Request(w) PROVE [Store!Next]_(Store!vars)
  <2>1. CASE ReadEnds(w) BY <2>1, QuietStutters DEF ReadEnds
  <2>2. ASSUME NEW n \in Names, NEW level, NEW stage,
               \/ \E p \in Payloads : PutAdmitted(w, n, p, level, stage)
               \/ ReadOpens(w, n, level, stage)
        PROVE  [Store!Next]_(Store!vars)
    BY <2>2, QuietStutters DEF PutAdmitted, ReadOpens
  <2>3. ASSUME NEW n \in Names, NEW level, NEW stage, DeleteStored(w, n, level, stage)
        PROVE  [Store!Next]_(Store!vars)
    BY <2>3, DeletionDeletes
  <2> QED BY <1>2, <2>1, <2>2, <2>3 DEF Request
<1>3. CASE ProcessExits BY <1>3, QuietStutters DEF ProcessExits
<1>4. CASE PowerCut BY <1>4, PowerCutUndoes
<1>5. CASE UNCHANGED vars BY <1>5, QuietStutters DEF vars
<1> QED BY <1>1, <1>2, <1>3, <1>4, <1>5 DEF Next

(* Where no two workers' clients write to one name, temporaries, flushes,   *)
(* renames, failed calls, exits and power cuts come to whole files that are *)
(* put, deleted and settled in one step each (write_durably, remove).       *)
THEOREM VaultIsAStore ==
    ASSUME OneWriterPerName
    PROVE  Spec => StoreSpec
<1>1. Init => Store!Init BY StoreStarts
<1>2. VaultInv /\ [Next]_vars => [Store!Next]_(Store!vars) BY VaultStepStores
<1> QED BY <1>1, <1>2, VaultInvariant, PTL DEF Spec, StoreSpec, Store!Spec
=============================================================================
