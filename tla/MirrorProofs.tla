---------------------------- MODULE MirrorProofs ----------------------------
(***************************************************************************)
(* Theorems of Mirror, for every folder, every set of contents, every clock *)
(* and however many commands, changes and failures there are: what the      *)
(* companion claims was earned, what it deletes was not needed, and what it *)
(* stopped in the middle of is never left under a name of its own.          *)
(***************************************************************************)
EXTENDS Mirror, WellFoundedInduction, NaturalsInduction, TLAPS

(* The evidence is not kept under the name of a temporary of the mirror.    *)
EvidenceHasAName == ~IsTemporary(Receipt)

(* The evidence is not kept in the mirror.  Where it is, a push and a later *)
(* replication bring an old receipt back.                                   *)
EvidenceElsewhere == Receipt \notin InFolder

Bodies == Contents \cup {Half} \cup Evidence

Runs ==
    [at : {"idle", "walk", "work", "write", "rename", "prune", "receipt"},
     command : {"push", "replicate", "drill", None}, prune : BOOLEAN,
     remote : [Names -> Files \cup {None}], locals : [Names -> Files \cup {None}],
     todo : SUBSET InFolder, body : Bodies \cup {None},
     had : [Names -> SUBSET Bodies], edited : SUBSET Names]

MirrorTypeOK ==
    /\ vault \in [Names -> Files \cup {None}]
    /\ disk \in [Names -> Files \cup {None}]
    /\ run \in Runs
    /\ clock \in Seconds
    /\ completed \in SUBSET Claims
    /\ count \in [edits : Nat, readErrors : Nat, commands : Nat]

(* While a command runs, what the vault holds is among what it had. *)
HadIsCurrent ==
    run.at # "idle" => \A n \in Names : vault[n] # None => vault[n].content \in run.had[n]

(* A copy that was made, or need not be. *)
Kept(n) ==
    \/ IsTemporary(n) \/ n \in run.edited \/ Coincides(n)
    \/ disk[n] # None /\ disk[n].content \in run.had[n]

(* A file that is being copied is one the vault had, at each of the steps.  *)
CopiesAreTheVaults ==
    /\ run.at \in {"write", "rename"} =>
         run.command = "replicate" /\ Current \in run.todo /\ Current \in InFolder
    /\ run.at = "write" => run.body \in run.had[Current]
    /\ run.at = "rename" =>
         disk[TempOf[Current]] # None /\ disk[TempOf[Current]].content \in run.had[Current]

(* What replicate has been through is kept, and it prunes nothing listed.   *)
ReplicateKeeps ==
    run.command = "replicate" =>
        /\ run.at \in {"work", "write", "rename"} =>
              /\ run.todo \subseteq Listed(run.remote)
              /\ \A n \in Listed(run.remote) \ run.todo : Kept(n)
        /\ run.at \in {"prune", "receipt"} =>
              /\ run.todo \cap Listed(run.remote) = {}
              /\ \A n \in Listed(run.remote) : Kept(n)

(* What drill has been through was the same. *)
DrillCompares ==
    run.command = "drill" =>
        /\ run.at \in {"idle", "work", "receipt"}
        /\ run.at = "receipt" => run.todo = {}
        /\ run.at # "idle" =>
             \A n \in Listed(run.remote) \ run.todo :
                 \/ n \in run.edited
                 \/ disk[n] # None /\ disk[n].content \in run.had[n]

(* A file of the folder that the vault has, or had, or seems to have. *)
Sent(n) ==
    n \in run.edited \/ Coincides(n) \/ run.locals[n].content \in run.had[n]

(* What push has been through was sent, the rest of the folder is as it was *)
(* walked, and what it prunes the folder did not have.                      *)
PushSends ==
    run.command = "push" =>
        /\ run.at \in {"idle", "walk", "work", "prune"}
        /\ run.at = "work" =>
             /\ \A n \in Listed(run.locals) : n \in run.edited \/ disk[n] = run.locals[n]
             /\ \A n \in Listed(run.locals) \ run.todo : Sent(n)
        /\ run.at = "prune" =>
             /\ run.todo # {} => run.prune
             /\ \A n \in run.todo : run.locals[n] = None
             /\ \A n \in Listed(run.locals) : Sent(n)

(* Half a file is only ever under the name of a temporary. *)
HalfIsTemporary ==
    /\ NothingHalfMirrored
    /\ run.at \in {"write", "rename"} /\ ~IsTemporary(Current) /\ Current # Receipt =>
         IF run.at = "write" THEN run.body # Half ELSE disk[TempOf[Current]].content # Half

MirrorInv ==
    /\ MirrorTypeOK
    /\ HadIsCurrent
    /\ CopiesAreTheVaults
    /\ ReplicateKeeps
    /\ DrillCompares
    /\ PushSends
    /\ HalfIsTemporary

(* Every claim on file is the last of its kind that was completed. *)
EvidenceIsCompleted ==
    disk[Receipt] # None /\ IsEvidence(disk[Receipt].content) =>
        disk[Receipt].content \subseteq completed

-----------------------------------------------------------------------------
(* The least of some numbers is one of them. *)
LEMMA MinIsMember ==
    ASSUME NEW S \in SUBSET Nat, S # {}
    PROVE  Min(S) \in S
<1> DEFINE R == {ss \in Nat \X Nat : ss[1] < ss[2]}
<1>1. IsWellFoundedOn(R, Nat)
  BY NatLessThanWellFounded DEF OpToRel
<1> HIDE DEF R
<1>2. PICK x \in S : \A y \in S : ~(<<y, x>> \in R)
  BY <1>1, WFMin
<1>3. \A y \in S : x <= y
  <2> SUFFICES ASSUME NEW y \in S PROVE x <= y
    OBVIOUS
  <2>1. ~(y < x)
    BY <1>2 DEF R
  <2> QED BY <2>1
<1> QED BY <1>3 DEF Min

(* So is the greatest, where they have a bound. *)
LEMMA MaxIsMember ==
    ASSUME NEW k \in Nat, NEW S \in SUBSET (0..k), S # {}
    PROVE  Max(S) \in S
<1> DEFINE T == {k - x : x \in S}
<1>1. T \in SUBSET Nat /\ T # {}
  OBVIOUS
<1> HIDE DEF T
<1>2. PICK least \in T : \A y \in T : least <= y
  <2> DEFINE R == {ss \in Nat \X Nat : ss[1] < ss[2]}
  <2>1. IsWellFoundedOn(R, Nat)
    BY NatLessThanWellFounded DEF OpToRel
  <2> HIDE DEF R
  <2>2. PICK x \in T : \A y \in T : ~(<<y, x>> \in R)
    BY <1>1, <2>1, WFMin
  <2>3. ASSUME NEW y \in T PROVE x <= y
    <3>1. ~(y < x) BY <1>1, <2>2 DEF R
    <3> QED BY <1>1, <3>1
  <2> QED BY <2>3
<1>3. PICK x \in S : least = k - x
  BY DEF T
<1>4. ASSUME NEW y \in S PROVE x >= y
  <2>1. k - y \in T BY DEF T
  <2>2. least <= k - y BY <1>2, <2>1
  <2> QED BY <1>3, <2>2
<1> QED BY <1>4 DEF Max

(* What is written is a file, which is not none. *)
LEMMA WrittenIsAFile ==
    ASSUME clock \in Seconds, NEW c \in Bodies
    PROVE  Written(c) \in Files /\ Written(c) # None /\ Written(c).content = c
  BY NoFileIsNone DEF Written, Files, Bodies

(* The name of a temporary is a temporary of the mirror. *)
LEMMA TemporariesAreTemporary ==
    ASSUME NEW n \in InFolder
    PROVE  TempOf[n] \in InFolder /\ TempOf[n] \in Names /\ IsTemporary(TempOf[n])
  BY MirrorAssumption DEF IsTemporary

(* The file whose turn it is, is one of those to do. *)
LEMMA CurrentIsToDo ==
    ASSUME MirrorTypeOK, run.todo # {}
    PROVE  Current \in run.todo /\ Current \in InFolder /\ Current \in Names
<1>1. run.todo \in SUBSET InFolder
  BY DEF MirrorTypeOK, Runs
<1>2. run.todo \in SUBSET Nat
  BY <1>1, MirrorAssumption
<1>3. Current \in run.todo
  BY <1>2, MinIsMember DEF Current
<1> QED BY <1>1, <1>3, MirrorAssumption

(* The newest second of a listing is a second. *)
LEMMA NewestIsASecond ==
    ASSUME MirrorTypeOK
    PROVE  NewestOf(run.remote) \in Seconds
<1> DEFINE S == {0} \cup {run.remote[n].stamp : n \in Listed(run.remote)}
<1>1. \A n \in Listed(run.remote) : run.remote[n] \in Files
  BY MirrorAssumption DEF MirrorTypeOK, Runs, Listed
<1>2. S \in SUBSET (0..MaxClock)
  BY <1>1, MirrorAssumption DEF Files, Seconds
<1>3. S # {} /\ MaxClock \in Nat
  BY MirrorAssumption
<1> HIDE DEF S
<1>4. Max(S) \in S
  BY <1>2, <1>3, MaxIsMember
<1> QED BY <1>2, <1>4 DEF S, NewestOf, Seconds

(* An idle command has done nothing. *)
LEMMA IdleIsARun == Idle \in Runs /\ Idle.at = "idle"
<1>1. Idle \in [at : {"idle"}, command : {None}, prune : {FALSE}, remote : {Nothing},
                locals : {Nothing}, todo : {{}}, body : {None},
                had : {[n \in Names |-> {}]}, edited : {{}}]
  BY Zenon DEF Idle
<1>2. Nothing \in [Names -> Files \cup {None}] /\ [n \in Names |-> {}] \in [Names -> SUBSET Bodies]
  BY DEF Nothing
<1> HIDE DEF Idle
<1> QED BY <1>1, <1>2 DEF Runs

-----------------------------------------------------------------------------
(* A step after which no command runs. *)
LEMMA EndingKeepsInv ==
    ASSUME MirrorTypeOK', NothingHalfMirrored', run'.at = "idle"
    PROVE  MirrorInv'
  BY DEF MirrorInv, HadIsCurrent, CopiesAreTheVaults, ReplicateKeeps, DrillCompares, PushSends,
         HalfIsTemporary

(* A command that ends, or is stopped, with nothing further done. *)
LEMMA StoppingKeepsInv ==
    ASSUME MirrorInv, run' = Idle, UNCHANGED <<vault, disk, clock, completed, count>>
    PROVE  MirrorInv'
<1>1. MirrorTypeOK'
  BY IdleIsARun DEF MirrorInv, MirrorTypeOK
<1>2. NothingHalfMirrored'
  BY DEF MirrorInv, HalfIsTemporary, NothingHalfMirrored
<1> QED BY <1>1, <1>2, IdleIsARun, EndingKeepsInv

(* The command starts with the listing. *)
LEMMA StartsKeepsInv ==
    ASSUME MirrorInv, NEW command \in {"push", "replicate", "drill"}, NEW prune \in BOOLEAN,
           Starts(command, prune)
    PROVE  MirrorInv'
<1> DEFINE had == [n \in Names |-> IF vault[n] = None THEN {} ELSE {vault[n].content}]
           at == IF command = "drill" THEN "work" ELSE "walk"
           todo == IF command = "drill" THEN Listed(vault) ELSE {}
<1>1. run' \in [at : {at}, command : {command}, prune : {prune}, remote : {vault},
                locals : {Nothing}, todo : {todo}, body : {None}, had : {had}, edited : {{}}]
  <2>1. run' = [Idle EXCEPT !.command = command, !.prune = prune, !.remote = vault,
                            !.had = had, !.at = at, !.todo = todo]
    BY DEF Starts
  <2> HIDE DEF had, at, todo
  <2> QED BY Zenon, <2>1 DEF Idle
<1>2. /\ run'.at = at /\ run'.command = command /\ run'.remote = vault
      /\ run'.todo = todo /\ run'.had = had
  <2> HIDE DEF had, at, todo
  <2> QED BY <1>1
<1>3. had \in [Names -> SUBSET Bodies]
  BY DEF MirrorInv, MirrorTypeOK, Files, Bodies
<1>4. run' \in Runs
  <2>1. Nothing \in [Names -> Files \cup {None}]
    BY DEF Nothing
  <2>2. todo \subseteq InFolder
    BY DEF Listed
  <2>3. at \in {"work", "walk"}
    OBVIOUS
  <2>4. vault \in [Names -> Files \cup {None}]
    BY DEF MirrorInv, MirrorTypeOK
  <2> HIDE DEF had, at, todo
  <2> QED BY <1>1, <1>3, <2>1, <2>2, <2>3, <2>4 DEF Runs
<1>5. MirrorTypeOK'
  BY <1>4 DEF Starts, MirrorInv, MirrorTypeOK
<1>6. HadIsCurrent'
  BY <1>2 DEF Starts, HadIsCurrent
<1>7. CopiesAreTheVaults' /\ ReplicateKeeps' /\ PushSends'
  BY <1>2 DEF CopiesAreTheVaults, ReplicateKeeps, PushSends
<1>8. DrillCompares'
  BY <1>2 DEF DrillCompares
<1>9. HalfIsTemporary'
  BY <1>2 DEF Starts, MirrorInv, HalfIsTemporary, NothingHalfMirrored
<1> QED BY <1>5, <1>6, <1>7, <1>8, <1>9 DEF MirrorInv

(* The folder is walked: of a push, what is not sent is up to date. *)
LEMMA WalksKeepsInv ==
    ASSUME MirrorInv, Walks
    PROVE  MirrorInv'
<1> DEFINE locals == [n \in Names |-> IF n \in InFolder THEN disk[n] ELSE None]
           todo == IF run.command = "push" THEN ToUpload(locals, run.remote)
                                           ELSE Listed(run.remote)
<1> USE DEF MirrorInv
<1>1. /\ run.at = "walk"
      /\ run' = [run EXCEPT !.at = "work", !.locals = locals, !.todo = todo]
      /\ UNCHANGED <<vault, disk, clock, completed, count>>
  BY DEF Walks
<1>2. locals \in [Names -> Files \cup {None}] /\ todo \in SUBSET InFolder
  BY DEF MirrorTypeOK, Listed, ToUpload
<1>3. \A n \in Listed(locals) : locals[n] = disk[n]
  BY MirrorAssumption DEF Listed
<1>4. run.command = "push" =>
        \A n \in Listed(locals) \ todo :
            /\ locals[n] # None /\ run.remote[n] # None
            /\ locals[n].stamp = run.remote[n].stamp
  BY DEF ToUpload, LooksLike
<1>5. run.command # "push" => todo = Listed(run.remote)
  OBVIOUS
<1> HIDE DEF locals, todo
<1>6. MirrorTypeOK'
  BY <1>1, <1>2 DEF MirrorTypeOK, Runs
<1>7. /\ run'.at = "work" /\ run'.command = run.command
      /\ run'.remote = run.remote /\ run'.locals = locals
      /\ run'.todo = todo /\ run'.had = run.had /\ run'.edited = run.edited
  BY <1>1 DEF MirrorTypeOK, Runs
<1>8. HadIsCurrent'
  BY <1>1, <1>7 DEF HadIsCurrent
<1>9. CopiesAreTheVaults'
  BY <1>7 DEF CopiesAreTheVaults
<1>10. ReplicateKeeps'
  BY <1>5, <1>7 DEF ReplicateKeeps
<1>11. DrillCompares'
  BY <1>1 DEF DrillCompares, MirrorTypeOK, Runs
<1>12. PushSends'
  BY <1>1, <1>3, <1>4, <1>7 DEF PushSends, Sent, Coincides
<1>13. HalfIsTemporary'
  BY <1>1, <1>7 DEF HalfIsTemporary, NothingHalfMirrored
<1> QED BY <1>6, <1>8, <1>9, <1>10, <1>11, <1>12, <1>13

-----------------------------------------------------------------------------
(* push *)

(* What a change of the vault under one name adds to what the command       *)
(* remembers of it.                                                         *)
LEMMA Remembered ==
    ASSUME MirrorTypeOK, NEW n \in Names, vault' \in [Names -> Files \cup {None}]
    PROVE  /\ Remembers(n) \in [Names -> SUBSET Bodies]
           /\ \A m \in Names : run.had[m] \subseteq Remembers(n)[m]
           /\ vault'[n] # None => vault'[n].content \in Remembers(n)[n]
<1>1. vault'[n] # None => vault'[n].content \in Bodies
  BY DEF Files, Bodies
<1>2. run.had \in [Names -> SUBSET Bodies]
  BY DEF MirrorTypeOK, Runs
<1> QED BY <1>1, <1>2 DEF Remembers

(* An upload gives the vault the copy the disk holds. *)
LEMMA UploadsKeepsInv ==
    ASSUME MirrorInv, Uploads
    PROVE  MirrorInv'
<1> DEFINE n == Current
           file == Written(disk[n].content)
           had == Remembers(n)
<1> USE DEF MirrorInv
<1>1. /\ run.at = "work" /\ run.command = "push" /\ run.todo # {}
      /\ disk[n] # None
      /\ vault' = [vault EXCEPT ![n] = file]
      /\ run' = [run EXCEPT !.todo = @ \ {n}, !.had = had]
      /\ UNCHANGED <<disk, clock, completed, count>>
  BY DEF Uploads
<1>2. n \in run.todo /\ n \in InFolder /\ n \in Names
  BY <1>1, CurrentIsToDo
<1>3. disk[n] \in Files /\ disk[n].content \in Bodies
  BY <1>1, <1>2 DEF MirrorTypeOK, Files, Bodies
<1>4. file \in Files /\ file # None /\ file.content = disk[n].content
  BY <1>3, WrittenIsAFile DEF MirrorTypeOK
<1> HIDE DEF file
<1>5. vault' \in [Names -> Files \cup {None}]
  BY <1>1, <1>2, <1>4 DEF MirrorTypeOK
<1>6. vault'[n] = file /\ \A m \in Names \ {n} : vault'[m] = vault[m]
  BY <1>1, <1>2 DEF MirrorTypeOK
<1>7. /\ had \in [Names -> SUBSET Bodies]
      /\ \A m \in Names : run.had[m] \subseteq had[m]
      /\ file.content \in had[n]
  <2> HIDE DEF n
  <2> QED BY <1>2, <1>4, <1>5, <1>6, Remembered
<1> HIDE DEF had, n
<1>8. MirrorTypeOK'
  BY <1>1, <1>5, <1>7 DEF MirrorTypeOK, Runs
<1>9. /\ run'.at = "work" /\ run'.command = "push" /\ run'.todo = run.todo \ {n}
      /\ run'.remote = run.remote /\ run'.locals = run.locals
      /\ run'.had = had /\ run'.edited = run.edited
  BY <1>1 DEF MirrorTypeOK, Runs
<1>10. HadIsCurrent'
  BY <1>1, <1>6, <1>7, <1>9 DEF HadIsCurrent
<1>11. CopiesAreTheVaults' /\ ReplicateKeeps' /\ DrillCompares'
  BY <1>9 DEF CopiesAreTheVaults, ReplicateKeeps, DrillCompares
<1>12. PushSends'
  <2>1. \A m \in Listed(run.locals) : m \in run.edited \/ disk'[m] = run.locals[m]
    BY <1>1 DEF PushSends
  <2>2. ASSUME NEW m \in Listed(run.locals) \ (run.todo \ {n})
        PROVE  Sent(m)'
    <3>1. m \in Names BY MirrorAssumption DEF Listed
    <3>2. CASE m # n
      <4>1. Sent(m) BY <1>1, <2>2, <3>2 DEF PushSends
      <4> QED BY <1>7, <1>9, <3>1, <4>1 DEF Sent, Coincides
    <3>3. CASE m = n
      <4>1. m \in run.edited \/ disk[n] = run.locals[n]
        BY <1>1, <2>2, <3>3 DEF PushSends
      <4> QED BY <1>4, <1>7, <1>9, <3>3, <4>1 DEF Sent
    <3> QED BY <3>2, <3>3
  <2> QED BY <1>9, <2>1, <2>2 DEF PushSends
<1>13. HalfIsTemporary'
  <2>1. NothingHalfMirrored'
    BY <1>1, <1>2, <1>4, <1>6, MirrorAssumption DEF HalfIsTemporary, NothingHalfMirrored, IsTemporary
  <2> QED BY <1>9, <2>1 DEF HalfIsTemporary
<1> QED BY <1>8, <1>10, <1>11, <1>12, <1>13

(* A file of the vault is pruned. *)
LEMMA PrunesVaultKeepsInv ==
    ASSUME MirrorInv, PrunesVault
    PROVE  MirrorInv'
<1> DEFINE n == Current
<1> USE DEF MirrorInv
<1>1. /\ run.at = "prune" /\ run.command = "push" /\ run.todo # {}
      /\ vault' = [vault EXCEPT ![n] = None]
      /\ run' = [run EXCEPT !.todo = @ \ {n}]
      /\ UNCHANGED <<disk, clock, completed, count>>
  BY DEF PrunesVault
<1>2. n \in run.todo /\ n \in Names
  BY <1>1, CurrentIsToDo
<1> HIDE DEF n
<1>3. /\ run'.at = "prune" /\ run'.command = "push" /\ run'.todo = run.todo \ {n}
      /\ run'.prune = run.prune
      /\ run'.remote = run.remote /\ run'.locals = run.locals
      /\ run'.had = run.had /\ run'.edited = run.edited
  BY <1>1 DEF MirrorTypeOK, Runs
<1>4. \A m \in Names : vault'[m] = IF m = n THEN None ELSE vault[m]
  BY <1>1 DEF MirrorTypeOK
<1>5. MirrorTypeOK'
  BY <1>1 DEF MirrorTypeOK, Runs
<1>6. HadIsCurrent'
  BY <1>1, <1>3, <1>4 DEF HadIsCurrent
<1>7. CopiesAreTheVaults' /\ ReplicateKeeps' /\ DrillCompares'
  BY <1>3 DEF CopiesAreTheVaults, ReplicateKeeps, DrillCompares
<1>8. PushSends'
  BY <1>1, <1>3 DEF PushSends, Sent, Coincides
<1>9. HalfIsTemporary'
  <2>1. NothingHalfMirrored'
    BY <1>1, <1>4, MirrorAssumption DEF HalfIsTemporary, NothingHalfMirrored
  <2> QED BY <1>3, <2>1 DEF HalfIsTemporary
<1> QED BY <1>5, <1>6, <1>7, <1>8, <1>9

-----------------------------------------------------------------------------
(* replicate *)

(* A copy whose time coincides with the file's is left as it is. *)
LEMMA SkipsKeepsInv ==
    ASSUME MirrorInv, Skips
    PROVE  MirrorInv'
<1> DEFINE n == Current
<1> USE DEF MirrorInv
<1>1. /\ run.at = "work" /\ run.command = "replicate" /\ run.todo # {}
      /\ UpToDate(run.locals[n], run.remote[n])
      /\ run' = [run EXCEPT !.todo = @ \ {n}]
      /\ UNCHANGED <<vault, disk, clock, completed, count>>
  BY DEF Skips
<1>2. n \in run.todo
  BY <1>1, CurrentIsToDo
<1>3. Coincides(n)
  BY <1>1, <1>2 DEF ReplicateKeeps, UpToDate, LooksLike, Coincides, Listed
<1> HIDE DEF n
<1>4. /\ run'.at = "work" /\ run'.command = "replicate" /\ run'.todo = run.todo \ {n}
      /\ run'.remote = run.remote /\ run'.locals = run.locals
      /\ run'.had = run.had /\ run'.edited = run.edited
  BY <1>1 DEF MirrorTypeOK, Runs
<1>5. MirrorTypeOK'
  BY <1>1 DEF MirrorTypeOK, Runs
<1>6. HadIsCurrent'
  BY <1>1, <1>4 DEF HadIsCurrent
<1>7. CopiesAreTheVaults' /\ DrillCompares' /\ PushSends'
  BY <1>4 DEF CopiesAreTheVaults, DrillCompares, PushSends
<1>8. ReplicateKeeps'
  BY <1>1, <1>3, <1>4 DEF ReplicateKeeps, Kept, Coincides
<1>9. HalfIsTemporary'
  BY <1>1, <1>4 DEF HalfIsTemporary, NothingHalfMirrored
<1> QED BY <1>5, <1>6, <1>7, <1>8, <1>9

(* What a step that changes one temporary of the folder, and neither the    *)
(* listing nor what there is to do, leaves true.                            *)
TouchesTemporary(n, file) ==
    /\ file \in Files
    /\ disk' = [disk EXCEPT ![TempOf[n]] = file]
    /\ UNCHANGED <<vault, clock, completed, count>>
    /\ run' \in Runs
    /\ run'.command = "replicate" /\ run'.todo = run.todo
    /\ run'.remote = run.remote /\ run'.locals = run.locals
    /\ run'.had = run.had /\ run'.edited = run.edited
    /\ run'.at \in {"write", "rename"}
    /\ run'.at = "write" => run'.body \in run.had[n]
    /\ run'.at = "rename" => file.content \in run.had[n]
    /\ ~IsTemporary(n) /\ n # Receipt =>
         IF run'.at = "write" THEN run'.body # Half ELSE file.content # Half

(* A step of a replication on its temporary leaves every claim where it     *)
(* was.                                                                     *)
LEMMA TemporaryStepKeepsInv ==
    ASSUME MirrorInv, run.at \in {"work", "write"}, run.command = "replicate",
           run.todo # {}, NEW file, TouchesTemporary(Current, file)
    PROVE  MirrorInv'
<1> DEFINE n == Current
<1> USE DEF MirrorInv
<1>1. n \in run.todo /\ n \in InFolder /\ n \in Names
  BY CurrentIsToDo
<1>2. TempOf[n] \in InFolder /\ TempOf[n] \in Names /\ IsTemporary(TempOf[n])
  BY <1>1, TemporariesAreTemporary
<1>3. Current' = n
  BY DEF TouchesTemporary, Current
<1>4. TouchesTemporary(n, file)
  OBVIOUS
<1> HIDE DEF n
<1>5. file # None
  BY <1>4, NoFileIsNone DEF TouchesTemporary
<1>6. /\ disk'[TempOf[n]] = file
      /\ \A m \in Names : ~IsTemporary(m) => disk'[m] = disk[m]
  BY <1>2, <1>4 DEF TouchesTemporary, MirrorTypeOK
<1>7. MirrorTypeOK'
  BY <1>2, <1>4 DEF TouchesTemporary, MirrorTypeOK
<1>8. HadIsCurrent'
  BY <1>4 DEF TouchesTemporary, HadIsCurrent
<1>9. CopiesAreTheVaults'
  BY <1>1, <1>3, <1>4, <1>5, <1>6 DEF TouchesTemporary, CopiesAreTheVaults
<1>10. ReplicateKeeps'
  <2>1. \A m \in Listed(run.remote) \ run.todo : Kept(m)
    BY DEF ReplicateKeeps
  <2>2. ASSUME NEW m \in Listed(run.remote) \ run.todo PROVE Kept(m)'
    <3>1. m \in Names BY MirrorAssumption DEF Listed
    <3> QED BY <1>4, <1>6, <2>1, <3>1 DEF TouchesTemporary, Kept, Coincides
  <2> QED BY <1>4, <2>2 DEF TouchesTemporary, ReplicateKeeps
<1>11. DrillCompares' /\ PushSends'
  BY <1>4 DEF TouchesTemporary, DrillCompares, PushSends
<1>12. HalfIsTemporary'
  <2>1. NothingHalfMirrored'
    BY <1>4, <1>6, MirrorAssumption DEF TouchesTemporary, HalfIsTemporary, NothingHalfMirrored
  <2> QED BY <1>3, <1>4, <1>6, <2>1 DEF TouchesTemporary, HalfIsTemporary
<1> QED BY <1>7, <1>8, <1>9, <1>10, <1>11, <1>12

(* The body is what the vault holds as it is fetched. *)
LEMMA DownloadsKeepsInv ==
    ASSUME MirrorInv, Downloads
    PROVE  MirrorInv'
<1> DEFINE n == Current
           file == Written(Half)
           body == vault[n].content
<1> USE DEF MirrorInv
<1>1. /\ run.at = "work" /\ run.command = "replicate" /\ run.todo # {}
      /\ vault[n] # None
      /\ run' = [run EXCEPT !.at = "write", !.body = body]
      /\ disk' = [disk EXCEPT ![TempOf[n]] = file]
      /\ UNCHANGED <<vault, clock, completed, count>>
  BY DEF Downloads
<1>2. n \in InFolder /\ n \in Names
  BY <1>1, CurrentIsToDo
<1>3. body \in Bodies /\ body \in run.had[n]
  BY <1>1, <1>2 DEF MirrorTypeOK, Files, Bodies, HadIsCurrent
<1>4. file \in Files
  BY WrittenIsAFile DEF MirrorTypeOK, Bodies
<1>5. ~IsTemporary(n) /\ n # Receipt => body # Half
  BY <1>1, <1>2 DEF HalfIsTemporary, NothingHalfMirrored
<1> HIDE DEF file, body
<1>6. /\ run' \in Runs
      /\ run'.at = "write" /\ run'.command = "replicate" /\ run'.todo = run.todo
      /\ run'.body = body
      /\ run'.remote = run.remote /\ run'.locals = run.locals
      /\ run'.had = run.had /\ run'.edited = run.edited
  BY <1>1, <1>3 DEF MirrorTypeOK, Runs
<1>7. TouchesTemporary(n, file)
  BY <1>1, <1>3, <1>4, <1>5, <1>6 DEF TouchesTemporary
<1> QED BY <1>1, <1>7, TemporaryStepKeepsInv

(* The temporary is written with that body. *)
LEMMA WritesTemporaryKeepsInv ==
    ASSUME MirrorInv, WritesTemporary
    PROVE  MirrorInv'
<1> DEFINE n == Current
           file == Written(run.body)
<1> USE DEF MirrorInv
<1>1. /\ run.at = "write" /\ run.command = "replicate" /\ run.todo # {}
      /\ n \in Names
      /\ run.body \in run.had[n]
      /\ disk' = [disk EXCEPT ![TempOf[n]] = file]
      /\ run' = [run EXCEPT !.at = "rename", !.body = None]
      /\ UNCHANGED <<vault, clock, completed, count>>
  BY MirrorAssumption DEF WritesTemporary, CopiesAreTheVaults
<1>2. run.body \in Bodies
  BY <1>1 DEF MirrorTypeOK, Runs
<1>3. file \in Files /\ file.content = run.body
  BY <1>2, WrittenIsAFile DEF MirrorTypeOK
<1>4. ~IsTemporary(n) /\ n # Receipt => run.body # Half
  BY <1>1 DEF HalfIsTemporary
<1> HIDE DEF file
<1>5. /\ run' \in Runs
      /\ run'.at = "rename" /\ run'.command = "replicate" /\ run'.todo = run.todo
      /\ run'.remote = run.remote /\ run'.locals = run.locals
      /\ run'.had = run.had /\ run'.edited = run.edited
  BY <1>1 DEF MirrorTypeOK, Runs
<1>6. TouchesTemporary(n, file)
  BY <1>1, <1>3, <1>4, <1>5 DEF TouchesTemporary
<1> QED BY <1>1, <1>6, TemporaryStepKeepsInv

(* The temporary takes the copy's place. *)
LEMMA MovesIntoPlaceKeepsInv ==
    ASSUME MirrorInv, MovesIntoPlace
    PROVE  MirrorInv'
<1> DEFINE n == Current
           temporary == TempOf[n]
<1> USE DEF MirrorInv
<1>1. /\ run.at = "rename" /\ run.command = "replicate" /\ n \in run.todo
      /\ n \in InFolder /\ n \in Names
      /\ disk[temporary] # None /\ disk[temporary].content \in run.had[n]
      /\ ~IsTemporary(n) /\ n # Receipt => disk[temporary].content # Half
      /\ disk' = [[disk EXCEPT ![temporary] = None] EXCEPT ![n] = disk[temporary]]
      /\ run' = [run EXCEPT !.at = "work", !.todo = @ \ {n}]
      /\ UNCHANGED <<vault, clock, completed, count>>
  BY MirrorAssumption DEF MovesIntoPlace, CopiesAreTheVaults, HalfIsTemporary
<1>2. temporary \in Names /\ IsTemporary(temporary)
  BY <1>1, TemporariesAreTemporary
<1> HIDE DEF n, temporary
<1>3. /\ disk'[n] = disk[temporary]
      /\ \A m \in Names \ {n} : ~IsTemporary(m) => disk'[m] = disk[m]
      /\ disk' \in [Names -> Files \cup {None}]
  BY <1>1, <1>2 DEF MirrorTypeOK
<1>4. /\ run'.at = "work" /\ run'.command = "replicate" /\ run'.todo = run.todo \ {n}
      /\ run'.remote = run.remote /\ run'.locals = run.locals
      /\ run'.had = run.had /\ run'.edited = run.edited
  BY <1>1 DEF MirrorTypeOK, Runs
<1>5. MirrorTypeOK'
  BY <1>1, <1>3 DEF MirrorTypeOK, Runs
<1>6. HadIsCurrent'
  BY <1>1, <1>4 DEF HadIsCurrent
<1>7. CopiesAreTheVaults' /\ DrillCompares' /\ PushSends'
  BY <1>4 DEF CopiesAreTheVaults, DrillCompares, PushSends
<1>8. ReplicateKeeps'
  <2>1. ASSUME NEW m \in Listed(run.remote) \ (run.todo \ {n}) PROVE Kept(m)'
    <3>1. m \in Names BY MirrorAssumption DEF Listed
    <3>2. CASE m = n BY <1>1, <1>3, <1>4, <3>2 DEF Kept
    <3>3. CASE m # n
      <4>1. Kept(m) BY <1>1, <2>1, <3>3 DEF ReplicateKeeps
      <4> QED BY <1>3, <1>4, <3>1, <3>3, <4>1 DEF Kept, Coincides
    <3> QED BY <3>2, <3>3
  <2> QED BY <1>1, <1>4, <2>1 DEF ReplicateKeeps
<1>9. HalfIsTemporary'
  <2>1. NothingHalfMirrored'
    BY <1>1, <1>3, MirrorAssumption DEF HalfIsTemporary, NothingHalfMirrored
  <2> QED BY <1>4, <2>1 DEF HalfIsTemporary
<1> QED BY <1>5, <1>6, <1>7, <1>8, <1>9

(* A copy of what the vault did not list is pruned. *)
LEMMA PrunesCopyKeepsInv ==
    ASSUME MirrorInv, PrunesCopy
    PROVE  MirrorInv'
<1> DEFINE n == Current
<1> USE DEF MirrorInv
<1>1. /\ run.at = "prune" /\ run.command = "replicate" /\ run.todo # {}
      /\ disk' = [disk EXCEPT ![n] = None]
      /\ run' = [run EXCEPT !.todo = @ \ {n}]
      /\ UNCHANGED <<vault, clock, completed, count>>
  BY DEF PrunesCopy
<1>2. n \in run.todo /\ n \in Names /\ n \notin Listed(run.remote)
  BY <1>1, CurrentIsToDo DEF ReplicateKeeps
<1> HIDE DEF n
<1>3. /\ run'.at = "prune" /\ run'.command = "replicate" /\ run'.todo = run.todo \ {n}
      /\ run'.remote = run.remote /\ run'.locals = run.locals
      /\ run'.had = run.had /\ run'.edited = run.edited
  BY <1>1 DEF MirrorTypeOK, Runs
<1>4. \A m \in Names : disk'[m] = IF m = n THEN None ELSE disk[m]
  BY <1>1 DEF MirrorTypeOK
<1>5. MirrorTypeOK'
  BY <1>1 DEF MirrorTypeOK, Runs
<1>6. HadIsCurrent'
  BY <1>1, <1>3 DEF HadIsCurrent
<1>7. CopiesAreTheVaults' /\ DrillCompares' /\ PushSends'
  BY <1>3 DEF CopiesAreTheVaults, DrillCompares, PushSends
<1>8. ReplicateKeeps'
  <2>1. ASSUME NEW m \in Listed(run.remote) PROVE Kept(m)'
    <3>1. m \in Names /\ m # n BY <1>2, MirrorAssumption DEF Listed
    <3>2. Kept(m) BY <1>1, <2>1 DEF ReplicateKeeps
    <3> QED BY <1>3, <1>4, <3>1, <3>2 DEF Kept, Coincides
  <2> QED BY <1>1, <1>3, <2>1 DEF ReplicateKeeps
<1>9. HalfIsTemporary'
  <2>1. NothingHalfMirrored'
    BY <1>1, <1>4, MirrorAssumption DEF HalfIsTemporary, NothingHalfMirrored
  <2> QED BY <1>3, <2>1 DEF HalfIsTemporary
<1> QED BY <1>5, <1>6, <1>7, <1>8, <1>9

-----------------------------------------------------------------------------
(* drill, and the turns *)

(* A file that is compared was as the vault holds it. *)
LEMMA ComparesKeepsInv ==
    ASSUME MirrorInv, Compares
    PROVE  MirrorInv'
<1> DEFINE n == Current
<1> USE DEF MirrorInv
<1>1. /\ run.at = "work" /\ run.command = "drill" /\ run.todo # {}
      /\ vault[n] # None /\ disk[n] # None
      /\ vault[n].content = disk[n].content
      /\ run' = [run EXCEPT !.todo = @ \ {n}]
      /\ UNCHANGED <<vault, disk, clock, completed, count>>
  BY DEF Compares
<1>2. n \in Names
  BY <1>1, CurrentIsToDo
<1>3. disk[n].content \in run.had[n]
  BY <1>1, <1>2 DEF HadIsCurrent
<1> HIDE DEF n
<1>4. /\ run'.at = "work" /\ run'.command = "drill" /\ run'.todo = run.todo \ {n}
      /\ run'.remote = run.remote /\ run'.had = run.had /\ run'.edited = run.edited
  BY <1>1 DEF MirrorTypeOK, Runs
<1>5. MirrorTypeOK'
  BY <1>1 DEF MirrorTypeOK, Runs
<1>6. HadIsCurrent'
  BY <1>1, <1>4 DEF HadIsCurrent
<1>7. CopiesAreTheVaults' /\ ReplicateKeeps' /\ PushSends'
  BY <1>4 DEF CopiesAreTheVaults, ReplicateKeeps, PushSends
<1>8. DrillCompares'
  BY <1>1, <1>3, <1>4 DEF DrillCompares
<1>9. HalfIsTemporary'
  BY <1>1, <1>4 DEF HalfIsTemporary, NothingHalfMirrored
<1> QED BY <1>5, <1>6, <1>7, <1>8, <1>9

(* What is left to do is what is to be pruned. *)
LEMMA TurnsToPruningKeepsInv ==
    ASSUME MirrorInv, TurnsToPruning
    PROVE  MirrorInv'
<1> DEFINE todo == IF ~run.prune THEN {}
                   ELSE IF run.command = "push" THEN ToPrune(run.locals, run.remote)
                   ELSE ToPrune(run.remote, run.locals)
<1> USE DEF MirrorInv
<1>1. /\ run.at = "work" /\ run.command # "drill" /\ run.todo = {}
      /\ run' = [run EXCEPT !.at = "prune", !.todo = todo]
      /\ UNCHANGED <<vault, disk, clock, completed, count>>
  BY DEF TurnsToPruning
<1>2. todo \in SUBSET InFolder
  BY DEF ToPrune, Listed
<1>3. todo # {} => run.prune
  OBVIOUS
<1>4. run.command = "push" => \A n \in todo : run.locals[n] = None
  BY DEF ToPrune, Listed
<1>5. run.command # "push" => todo \cap Listed(run.remote) = {}
  BY DEF ToPrune
<1> HIDE DEF todo
<1>6. /\ run'.at = "prune" /\ run'.command = run.command /\ run'.todo = todo
      /\ run'.prune = run.prune
      /\ run'.remote = run.remote /\ run'.locals = run.locals
      /\ run'.had = run.had /\ run'.edited = run.edited
  BY <1>1 DEF MirrorTypeOK, Runs
<1>7. MirrorTypeOK'
  BY <1>1, <1>2 DEF MirrorTypeOK, Runs
<1>8. HadIsCurrent'
  BY <1>1, <1>6 DEF HadIsCurrent
<1>9. CopiesAreTheVaults' /\ DrillCompares'
  BY <1>1, <1>6 DEF CopiesAreTheVaults, DrillCompares
<1>10. ReplicateKeeps'
  BY <1>1, <1>5, <1>6 DEF ReplicateKeeps, Kept, Coincides
<1>11. PushSends'
  BY <1>1, <1>3, <1>4, <1>6 DEF PushSends, Sent, Coincides
<1>12. HalfIsTemporary'
  BY <1>1, <1>6 DEF HalfIsTemporary, NothingHalfMirrored
<1> QED BY <1>7, <1>8, <1>9, <1>10, <1>11, <1>12

(* Nothing is left to do but the receipt. *)
LEMMA TurnsToReceiptKeepsInv ==
    ASSUME MirrorInv, TurnsToReceipt
    PROVE  MirrorInv'
<1> USE DEF MirrorInv
<1>1. /\ run.todo = {}
      /\ \/ run.at = "prune" /\ run.command = "replicate"
         \/ run.at = "work" /\ run.command = "drill"
      /\ run' = [run EXCEPT !.at = "receipt"]
      /\ UNCHANGED <<vault, disk, clock, completed, count>>
  BY DEF TurnsToReceipt
<1>2. /\ run'.at = "receipt" /\ run'.command = run.command /\ run'.todo = {}
      /\ run'.remote = run.remote /\ run'.locals = run.locals
      /\ run'.had = run.had /\ run'.edited = run.edited
  BY <1>1 DEF MirrorTypeOK, Runs
<1>3. MirrorTypeOK'
  BY <1>1 DEF MirrorTypeOK, Runs
<1>4. HadIsCurrent'
  BY <1>1, <1>2 DEF HadIsCurrent
<1>5. CopiesAreTheVaults' /\ PushSends'
  BY <1>1, <1>2 DEF CopiesAreTheVaults, PushSends
<1>6. ReplicateKeeps'
  BY <1>1, <1>2 DEF ReplicateKeeps, Kept, Coincides
<1>7. DrillCompares'
  BY <1>1, <1>2 DEF DrillCompares
<1>8. HalfIsTemporary'
  BY <1>1, <1>2 DEF HalfIsTemporary, NothingHalfMirrored
<1> QED BY <1>3, <1>4, <1>5, <1>6, <1>7, <1>8

(* The claim that is written is one, and replaces one of its kind at most.  *)
LEMMA ReceiptIsEvidence ==
    ASSUME MirrorTypeOK, NEW unread \in BOOLEAN, WritesReceipt(unread)
    PROVE  \E existing \in Evidence : \E fresh \in Claims :
              /\ \/ existing = {}
                 \/ /\ disk[Receipt] # None /\ existing = disk[Receipt].content
                    /\ IsEvidence(existing)
              /\ Upsert(existing, fresh) \in Evidence
              /\ disk' = [disk EXCEPT ![Receipt] = Written(Upsert(existing, fresh))]
              /\ completed' = {c \in completed : c.kind # fresh.kind} \cup {fresh}
<1> DEFINE existing == IF disk[Receipt] = None \/ unread THEN {} ELSE disk[Receipt].content
           fresh == IF run.command = "drill"
                      THEN [kind |-> "restore-drill", completed |-> clock]
                      ELSE [kind |-> "replication", completed |-> clock,
                            covered |-> NewestOf(run.remote)]
<1>1. /\ IsEvidence(existing)
      /\ disk' = [disk EXCEPT ![Receipt] = Written(Upsert(existing, fresh))]
      /\ completed' = {c \in completed : c.kind # fresh.kind} \cup {fresh}
  BY DEF WritesReceipt
<1>2. fresh \in Claims
  BY NewestIsASecond DEF MirrorTypeOK, Claims
<1>3. {} \in Evidence
  BY DEF Evidence
<1>4. existing \in Evidence
  BY <1>1, <1>3, MirrorAssumption DEF MirrorTypeOK, Files, IsEvidence
<1>5. \/ existing = {}
      \/ disk[Receipt] # None /\ existing = disk[Receipt].content
  OBVIOUS
<1> HIDE DEF existing, fresh
<1>6. Upsert(existing, fresh) \in Evidence
  BY <1>2, <1>4 DEF Upsert, Evidence
<1> QED BY <1>1, <1>2, <1>4, <1>5, <1>6

(* The receipt is written, which ends the command. *)
LEMMA WritesReceiptKeepsInv ==
    ASSUME MirrorInv, NEW unread \in BOOLEAN, WritesReceipt(unread)
    PROVE  MirrorInv'
<1> USE DEF MirrorInv
<1>1. PICK existing \in Evidence, fresh \in Claims :
         /\ Upsert(existing, fresh) \in Evidence
         /\ disk' = [disk EXCEPT ![Receipt] = Written(Upsert(existing, fresh))]
         /\ completed' = {c \in completed : c.kind # fresh.kind} \cup {fresh}
  BY ReceiptIsEvidence
<1> DEFINE file == Written(Upsert(existing, fresh))
<1>2. file \in Files
  BY <1>1, WrittenIsAFile DEF MirrorTypeOK, Bodies
<1> HIDE DEF file
<1>3. disk' = [disk EXCEPT ![Receipt] = file]
  BY <1>1 DEF file
<1>4. completed' \in SUBSET Claims
  BY <1>1 DEF MirrorTypeOK
<1>5. run' = Idle /\ UNCHANGED <<vault, clock>>
  BY DEF WritesReceipt
<1>6. count' \in [edits : Nat, readErrors : Nat, commands : Nat]
  BY DEF WritesReceipt, MirrorTypeOK
<1>7. MirrorTypeOK'
  BY <1>2, <1>3, <1>4, <1>5, <1>6, IdleIsARun DEF MirrorTypeOK
<1>8. NothingHalfMirrored'
  BY <1>3, <1>5, MirrorAssumption DEF MirrorTypeOK, HalfIsTemporary, NothingHalfMirrored
<1> QED BY <1>5, <1>7, <1>8, IdleIsARun, EndingKeepsInv

-----------------------------------------------------------------------------
(* Everybody else. *)

(* A file somebody else may write: none, or a whole one. *)
LEMMA WholeIsAFile ==
    ASSUME MirrorTypeOK, NEW file \in {None} \cup {Written(c) : c \in Contents}
    PROVE  file \in Files \cup {None} /\ (file # None => file.content # Half)
<1>1. ASSUME NEW c \in Contents, file = Written(c)
      PROVE  file \in Files /\ file.content # Half
  <2>1. c \in Bodies /\ c # Half BY MirrorAssumption DEF Bodies
  <2> QED BY <1>1, <2>1, WrittenIsAFile DEF MirrorTypeOK
<1> QED BY <1>1

(* Another device changes the vault while a command runs, or none does. *)
LEMMA DeviceChangesKeepsInv ==
    ASSUME MirrorInv, NEW n \in InFolder,
           NEW file \in {None} \cup {Written(c) : c \in Contents}, DeviceChanges(n, file)
    PROVE  MirrorInv'
<1> DEFINE had == Remembers(n)
<1> USE DEF MirrorInv
<1>1. /\ vault' = [vault EXCEPT ![n] = file]
      /\ run' = IF run = Idle THEN run ELSE [run EXCEPT !.had = had]
      /\ UNCHANGED <<disk, clock, completed>>
  BY DEF DeviceChanges
<1>2. file \in Files \cup {None} /\ (file # None => file.content # Half) /\ n \in Names
  BY WholeIsAFile, MirrorAssumption
<1>3. vault' \in [Names -> Files \cup {None}]
  BY <1>1, <1>2 DEF MirrorTypeOK
<1>4. vault'[n] = file /\ \A m \in Names \ {n} : vault'[m] = vault[m]
  BY <1>1, <1>2 DEF MirrorTypeOK
<1>5. /\ had \in [Names -> SUBSET Bodies]
      /\ \A m \in Names : run.had[m] \subseteq had[m]
      /\ file # None => file.content \in had[n]
  BY <1>2, <1>3, <1>4, Remembered
<1>6. count' \in [edits : Nat, readErrors : Nat, commands : Nat]
  BY DEF DeviceChanges, Edits, MirrorTypeOK
<1> HIDE DEF had
<1>7. MirrorTypeOK'
  BY <1>1, <1>3, <1>5, <1>6 DEF MirrorTypeOK, Runs
<1>8. NothingHalfMirrored'
  BY <1>1, <1>2, <1>4, MirrorAssumption DEF HalfIsTemporary, NothingHalfMirrored
<1>9. CASE run = Idle
  BY <1>1, <1>7, <1>8, <1>9, IdleIsARun, EndingKeepsInv
<1>10. CASE run # Idle
  <2>1. /\ run'.at = run.at /\ run'.command = run.command /\ run'.todo = run.todo
        /\ run'.prune = run.prune /\ run'.body = run.body
        /\ run'.remote = run.remote /\ run'.locals = run.locals
        /\ run'.had = had /\ run'.edited = run.edited
    BY <1>1, <1>10 DEF MirrorTypeOK, Runs
  <2>2. Current' = Current
    BY <2>1 DEF Current
  <2>3. HadIsCurrent'
    BY <1>4, <1>5, <2>1 DEF HadIsCurrent
  <2>4. CopiesAreTheVaults'
    BY <1>1, <1>5, <2>1, <2>2, MirrorAssumption DEF CopiesAreTheVaults
  <2>5. ASSUME NEW m \in Names, Kept(m) PROVE Kept(m)'
    BY <1>1, <1>5, <2>1, <2>5 DEF Kept, Coincides
  <2>6. ReplicateKeeps'
    <3>1. Listed(run.remote) \subseteq Names BY MirrorAssumption DEF Listed
    <3> QED BY <2>1, <2>5, <3>1 DEF ReplicateKeeps
  <2>7. DrillCompares'
    <3>1. Listed(run.remote) \subseteq Names BY MirrorAssumption DEF Listed
    <3> QED BY <1>1, <1>5, <2>1, <3>1 DEF DrillCompares
  <2>8. PushSends'
    <3>1. Listed(run.locals) \subseteq Names BY MirrorAssumption DEF Listed
    <3>2. ASSUME NEW m \in Names, Sent(m) PROVE Sent(m)'
      BY <1>5, <2>1, <3>2 DEF Sent, Coincides
    <3> QED BY <1>1, <2>1, <3>1, <3>2 DEF PushSends
  <2>9. HalfIsTemporary'
    BY <1>1, <1>8, <2>1, <2>2 DEF HalfIsTemporary
  <2> QED BY <1>7, <2>3, <2>4, <2>6, <2>7, <2>8, <2>9
<1> QED BY <1>9, <1>10

(* The person changes a file of the folder, or damages the evidence. *)
LEMMA PersonChangesKeepsInv ==
    ASSUME MirrorInv, NEW n \in Names, ~IsTemporary(n), NEW file \in Files \cup {None},
           n # Receipt /\ file # None => file.content # Half,
           PersonChanges(n, file)
    PROVE  MirrorInv'
<1> USE DEF MirrorInv
<1>1. /\ disk' = [disk EXCEPT ![n] = file]
      /\ run' = IF run = Idle THEN run ELSE [run EXCEPT !.edited = @ \cup {n}]
      /\ UNCHANGED <<vault, clock, completed>>
  BY DEF PersonChanges
<1>2. disk'[n] = file /\ \A m \in Names \ {n} : disk'[m] = disk[m]
  BY <1>1 DEF MirrorTypeOK
<1>3. count' \in [edits : Nat, readErrors : Nat, commands : Nat]
  BY DEF PersonChanges, Edits, MirrorTypeOK
<1>4. MirrorTypeOK'
  BY <1>1, <1>3 DEF MirrorTypeOK, Runs
<1>5. NothingHalfMirrored'
  BY <1>1, <1>2, MirrorAssumption DEF HalfIsTemporary, NothingHalfMirrored
<1>6. CASE run = Idle
  BY <1>1, <1>4, <1>5, <1>6, IdleIsARun, EndingKeepsInv
<1>7. CASE run # Idle
  <2>1. /\ run'.at = run.at /\ run'.command = run.command /\ run'.todo = run.todo
        /\ run'.prune = run.prune /\ run'.body = run.body
        /\ run'.remote = run.remote /\ run'.locals = run.locals
        /\ run'.had = run.had /\ run'.edited = run.edited \cup {n}
    BY <1>1, <1>7 DEF MirrorTypeOK, Runs
  <2>2. Current' = Current
    BY <2>1 DEF Current
  <2>3. ASSUME run.at \in {"write", "rename"}
        PROVE  disk'[TempOf[Current]] = disk[TempOf[Current]]
    <3>1. Current \in InFolder BY <2>3 DEF CopiesAreTheVaults
    <3>2. TempOf[Current] \in Names \ {n}
      BY <3>1, TemporariesAreTemporary
    <3> QED BY <1>2, <3>2
  <2>4. HadIsCurrent'
    BY <1>1, <2>1 DEF HadIsCurrent
  <2>5. CopiesAreTheVaults'
    BY <2>1, <2>2, <2>3 DEF CopiesAreTheVaults
  <2>6. ReplicateKeeps'
    <3>1. Listed(run.remote) \subseteq Names BY MirrorAssumption DEF Listed
    <3>2. ASSUME NEW m \in Names, Kept(m) PROVE Kept(m)'
      BY <1>2, <2>1, <3>2 DEF Kept, Coincides
    <3> QED BY <2>1, <3>1, <3>2 DEF ReplicateKeeps
  <2>7. DrillCompares'
    <3>1. Listed(run.remote) \subseteq Names BY MirrorAssumption DEF Listed
    <3> QED BY <1>2, <2>1, <3>1 DEF DrillCompares
  <2>8. PushSends'
    <3>1. Listed(run.locals) \subseteq Names BY MirrorAssumption DEF Listed
    <3> QED BY <1>2, <2>1, <3>1 DEF PushSends, Sent, Coincides
  <2>9. HalfIsTemporary'
    BY <1>5, <2>1, <2>2, <2>3 DEF HalfIsTemporary
  <2> QED BY <1>4, <2>4, <2>5, <2>6, <2>7, <2>8, <2>9
<1> QED BY <1>6, <1>7

(* No step depends on which second it is. *)
LEMMA QuietKeepsInv ==
    ASSUME MirrorInv, UNCHANGED <<vault, disk, run, completed, count>>, clock' \in Seconds
    PROVE  MirrorInv'
<1> USE DEF MirrorInv
<1>1. MirrorTypeOK'
  BY DEF MirrorTypeOK
<1>2. HadIsCurrent' /\ CopiesAreTheVaults'
  BY DEF HadIsCurrent, CopiesAreTheVaults, Current
<1>3. ReplicateKeeps' /\ DrillCompares' /\ PushSends'
  BY DEF ReplicateKeeps, Kept, Coincides, DrillCompares, PushSends, Sent
<1>4. HalfIsTemporary'
  BY DEF HalfIsTemporary, NothingHalfMirrored, Current
<1> QED BY <1>1, <1>2, <1>3, <1>4

-----------------------------------------------------------------------------
(* The companion starts with an empty folder, an empty vault and no claim. *)
LEMMA MirrorStarts ==
    ASSUME Init
    PROVE  MirrorInv
<1>1. /\ vault = Nothing /\ disk = Nothing /\ run = Idle /\ clock = 0 /\ completed = {}
      /\ count = [edits |-> 0, readErrors |-> 0, commands |-> 0]
  BY DEF Init
<1>2. MirrorTypeOK
  BY <1>1, IdleIsARun, MirrorAssumption DEF MirrorTypeOK, Nothing, Seconds
<1>3. NothingHalfMirrored
  BY <1>1, MirrorAssumption DEF NothingHalfMirrored, Nothing
<1> QED
  BY <1>1, <1>2, <1>3, IdleIsARun
     DEF MirrorInv, HadIsCurrent, CopiesAreTheVaults, ReplicateKeeps, DrillCompares, PushSends,
         HalfIsTemporary

(* Every step, the companion's or another's, keeps the invariant. *)
LEMMA MirrorStepKeepsInv ==
    ASSUME MirrorInv, EvidenceHasAName, [Next]_vars
    PROVE  MirrorInv'
<1>1. CASE Companion
  <2>1. CASE EndsPush \/ RunStops
    BY <2>1, StoppingKeepsInv DEF EndsPush, RunStops
  <2> QED
    BY <1>1, <2>1, StartsKeepsInv, WalksKeepsInv, UploadsKeepsInv, SkipsKeepsInv,
       DownloadsKeepsInv, WritesTemporaryKeepsInv, MovesIntoPlaceKeepsInv, ComparesKeepsInv,
       TurnsToPruningKeepsInv, PrunesVaultKeepsInv, PrunesCopyKeepsInv,
       TurnsToReceiptKeepsInv, WritesReceiptKeepsInv
       DEF Companion
<1>2. ASSUME NEW n \in InFolder, NEW file \in {None} \cup {Written(c) : c \in Contents},
             n # Receipt, ~IsTemporary(n), DeviceChanges(n, file) \/ PersonChanges(n, file)
      PROVE  MirrorInv'
  <2>1. n \in Names BY MirrorAssumption
  <2>2. file \in Files \cup {None} /\ (file # None => file.content # Half)
    BY WholeIsAFile DEF MirrorInv
  <2> QED BY <1>2, <2>1, <2>2, DeviceChangesKeepsInv, PersonChangesKeepsInv
<1>3. CASE PersonChanges(Receipt, Written(Half))
  <2>1. Written(Half) \in Files
    BY WrittenIsAFile DEF MirrorInv, MirrorTypeOK, Bodies
  <2>2. Receipt \in Names /\ ~IsTemporary(Receipt)
    BY MirrorAssumption DEF EvidenceHasAName
  <2> QED BY <1>3, <2>1, <2>2, PersonChangesKeepsInv
<1>4. CASE Tick
  <2>1. clock' \in Seconds
    BY <1>4, MirrorAssumption DEF Tick, MirrorInv, MirrorTypeOK, Seconds
  <2> QED BY <1>4, <2>1, QuietKeepsInv DEF Tick
<1>5. CASE UNCHANGED vars
  BY <1>5, QuietKeepsInv DEF vars, MirrorInv, MirrorTypeOK
<1> QED BY <1>1, <1>2, <1>3, <1>4, <1>5 DEF Next, Others

(* The invariant of the companion's commands. *)
THEOREM MirrorInvariant ==
    ASSUME EvidenceHasAName
    PROVE  Spec => []MirrorInv
<1>1. Init => MirrorInv BY MirrorStarts
<1>2. MirrorInv /\ [Next]_vars => MirrorInv' BY MirrorStepKeepsInv
<1> QED BY <1>1, <1>2, PTL DEF Spec

(* Every variable of the companion stays what its type in the code is. *)
THEOREM MirrorTypes ==
    ASSUME EvidenceHasAName
    PROVE  Spec => []MirrorTypeOK
<1>1. MirrorInv => MirrorTypeOK BY DEF MirrorInv
<1> QED BY <1>1, MirrorInvariant, PTL

(* However often a command is stopped, no copy under a name of its own is   *)
(* half a file, and none reaches the vault (mirror.rs, write_durably).      *)
THEOREM NothingIsHalfMirrored ==
    ASSUME EvidenceHasAName
    PROVE  Spec => []NothingHalfMirrored
<1>1. MirrorInv => NothingHalfMirrored BY DEF MirrorInv, HalfIsTemporary
<1> QED BY <1>1, MirrorInvariant, PTL

(* A replication is claimed when every listed file is in the folder with    *)
(* something the vault held since the listing, but for the excuses named    *)
(* there (replicate).                                                       *)
THEOREM ReplicationsEarned ==
    ASSUME EvidenceHasAName
    PROVE  Spec => []ReplicationsAreEarned
<1>1. MirrorInv => ReplicationsAreEarned
  BY DEF MirrorInv, ReplicateKeeps, ReplicationsAreEarned, Kept
<1> QED BY <1>1, MirrorInvariant, PTL

(* A drill is claimed when every listed file was in the folder as the vault *)
(* held it since the listing (drill).                                       *)
THEOREM DrillsEarned ==
    ASSUME EvidenceHasAName
    PROVE  Spec => []DrillsAreEarned
<1>1. MirrorInv => DrillsAreEarned
  BY DEF MirrorInv, DrillCompares, DrillsAreEarned
<1> QED BY <1>1, MirrorInvariant, PTL

(* A push removes a file from the vault when asked to, when the folder had  *)
(* none of that name, and after everything the folder had was sent (apply). *)
THEOREM PruningComesLast ==
    ASSUME EvidenceHasAName
    PROVE  Spec => PrunesComeLast
<1> DEFINE Earned ==
      \A n \in InFolder : Companion /\ vault[n] # None /\ vault'[n] = None =>
          /\ run.prune
          /\ run.locals[n] = None
          /\ \A m \in Listed(run.locals) :
                m \in run.edited \/ Coincides(m) \/ run.locals[m].content \in run.had[m]
<1>1. ASSUME MirrorInv, [Next]_vars PROVE [Earned]_vars
  <2> SUFFICES ASSUME NEW n \in InFolder, Companion, vault[n] # None, vault'[n] = None
               PROVE  /\ run.prune
                      /\ run.locals[n] = None
                      /\ \A m \in Listed(run.locals) : Sent(m)
    BY DEF Sent
  <2>0. n \in Names BY MirrorAssumption
  <2>1. vault' # vault
    OBVIOUS
  <2>2. Uploads \/ PrunesVault
    BY <2>1
       DEF Companion, Starts, Walks, Skips, Downloads, WritesTemporary, MovesIntoPlace,
           Compares, TurnsToPruning, PrunesCopy, EndsPush, TurnsToReceipt, WritesReceipt, RunStops
  <2>3. CASE Uploads
    <3>1. Current \in Names /\ disk[Current] # None
      BY <1>1, <2>3, CurrentIsToDo DEF Uploads, MirrorInv
    <3>2. Written(disk[Current].content) # None
      BY <1>1, <3>1, WrittenIsAFile DEF MirrorInv, MirrorTypeOK, Files, Bodies
    <3> QED BY <1>1, <2>0, <2>3, <3>2 DEF Uploads, MirrorInv, MirrorTypeOK
  <2>4. CASE PrunesVault
    <3>1. run.at = "prune" /\ run.command = "push" /\ run.todo # {}
      BY <2>4 DEF PrunesVault
    <3>2. Current \in run.todo
      BY <1>1, <3>1, CurrentIsToDo DEF MirrorInv
    <3>3. n = Current
      BY <1>1, <2>0, <2>4 DEF PrunesVault, MirrorInv, MirrorTypeOK
    <3> QED BY <1>1, <3>1, <3>2, <3>3 DEF MirrorInv, PushSends
  <2> QED BY <2>2, <2>3, <2>4
<1> QED BY <1>1, MirrorInvariant, PTL DEF Spec, PrunesComeLast

-----------------------------------------------------------------------------
(* Every claim on file is the last of its kind that was completed: a        *)
(* receipt that cannot be read loses claims and makes none.                 *)
LEMMA EvidenceStepKeepsInv ==
    ASSUME MirrorInv, EvidenceElsewhere, EvidenceIsCompleted, [Next]_vars
    PROVE  EvidenceIsCompleted'
<1>1. CASE \E unread \in BOOLEAN : WritesReceipt(unread)
  <2>1. PICK existing \in Evidence, fresh \in Claims :
           /\ \/ existing = {}
              \/ /\ disk[Receipt] # None /\ existing = disk[Receipt].content
                 /\ IsEvidence(existing)
           /\ Upsert(existing, fresh) \in Evidence
           /\ disk' = [disk EXCEPT ![Receipt] = Written(Upsert(existing, fresh))]
           /\ completed' = {c \in completed : c.kind # fresh.kind} \cup {fresh}
    BY <1>1, ReceiptIsEvidence DEF MirrorInv
  <2>2. existing \subseteq completed
    BY <2>1 DEF EvidenceIsCompleted
  <2>3. disk'[Receipt].content = Upsert(existing, fresh)
    BY <2>1, MirrorAssumption DEF MirrorInv, MirrorTypeOK, Written
  <2> QED BY <2>1, <2>2, <2>3 DEF Upsert, EvidenceIsCompleted
<1>2. CASE disk'[Receipt] = disk[Receipt] /\ completed' = completed
  BY <1>2 DEF EvidenceIsCompleted, IsEvidence
<1>3. CASE PersonChanges(Receipt, Written(Half))
  <2>1. disk'[Receipt].content = Half
    BY <1>3, MirrorAssumption DEF PersonChanges, MirrorInv, MirrorTypeOK, Written
  <2> QED BY <2>1 DEF EvidenceIsCompleted, IsEvidence
<1>4. ASSUME NEW n \in InFolder, NEW file, disk' = [disk EXCEPT ![n] = file]
      PROVE  disk'[Receipt] = disk[Receipt]
  BY <1>4, MirrorAssumption DEF EvidenceElsewhere, MirrorInv, MirrorTypeOK
<1>5. CASE Companion /\ ~(\E unread \in BOOLEAN : WritesReceipt(unread))
  <2>1. completed' = completed
    BY <1>5
       DEF Companion, Starts, Walks, Uploads, Skips, Downloads, WritesTemporary, MovesIntoPlace,
           Compares, TurnsToPruning, PrunesVault, PrunesCopy, EndsPush, TurnsToReceipt, RunStops
  <2>2. CASE disk' = disk BY <1>2, <2>1, <2>2
  <2>3. CASE Downloads \/ WritesTemporary
    <3>1. Current \in InFolder
      BY <2>3, CurrentIsToDo DEF Downloads, WritesTemporary, MirrorInv, CopiesAreTheVaults
    <3>2. TempOf[Current] \in InFolder BY <3>1, TemporariesAreTemporary
    <3> QED BY <1>2, <1>4, <2>1, <2>3, <3>2 DEF Downloads, WritesTemporary
  <2>4. CASE PrunesCopy
    <3>1. Current \in InFolder
      BY <2>4, CurrentIsToDo DEF PrunesCopy, MirrorInv
    <3> QED BY <1>2, <1>4, <2>1, <2>4, <3>1 DEF PrunesCopy
  <2>5. CASE MovesIntoPlace
    <3>1. Current \in InFolder
      BY <2>5 DEF MovesIntoPlace, MirrorInv, CopiesAreTheVaults
    <3>2. TempOf[Current] \in InFolder BY <3>1, TemporariesAreTemporary
    <3>3. disk'[Receipt] = disk[Receipt]
      BY <2>5, <3>1, <3>2, MirrorAssumption
         DEF MovesIntoPlace, EvidenceElsewhere, MirrorInv, MirrorTypeOK
    <3> QED BY <1>2, <2>1, <3>3
  <2>6. disk' = disk \/ Downloads \/ WritesTemporary \/ PrunesCopy \/ MovesIntoPlace
    BY <1>5
       DEF Companion, Starts, Walks, Uploads, Skips, Compares, TurnsToPruning, PrunesVault,
           EndsPush, TurnsToReceipt, RunStops
  <2> QED BY <2>2, <2>3, <2>4, <2>5, <2>6
<1>6. ASSUME NEW n \in InFolder, NEW file, DeviceChanges(n, file) \/ PersonChanges(n, file)
      PROVE  EvidenceIsCompleted'
  BY <1>2, <1>4, <1>6 DEF DeviceChanges, PersonChanges
<1>7. CASE Tick \/ UNCHANGED vars
  BY <1>2, <1>7 DEF Tick, vars
<1> QED BY <1>1, <1>3, <1>5, <1>6, <1>7 DEF Next, Others

(* What the cell says of the copy and of the restores was earned by a       *)
(* command that was completed while figures stand (posture_parts).          *)
THEOREM PostureEarned ==
    ASSUME EvidenceElsewhere
    PROVE  Spec => []PostureIsEarned
<1>0. EvidenceHasAName
  BY DEF EvidenceElsewhere, EvidenceHasAName, IsTemporary
<1>1. Init => EvidenceIsCompleted
  BY MirrorAssumption DEF Init, EvidenceIsCompleted, Nothing
<1>2. MirrorInv /\ EvidenceIsCompleted /\ [Next]_vars => EvidenceIsCompleted'
  BY EvidenceStepKeepsInv
<1>3. ASSUME MirrorInv, EvidenceIsCompleted PROVE PostureIsEarned
  <2> DEFINE file == disk[Receipt]
  <2>1. clock \in Nat /\ StandsFor \in Nat
    BY <1>3, MirrorAssumption DEF MirrorInv, MirrorTypeOK, Seconds
  <2>2. file # None /\ IsEvidence(file.content) =>
          file.content \subseteq completed /\ file.content \subseteq Claims
    BY <1>3 DEF EvidenceIsCompleted, MirrorInv, MirrorTypeOK
  <2> HIDE DEF file
  <2>3. ASSUME NEW today \in {None, clock}, Recovery(file, today).is = "behind"
        PROVE  /\ today # None
               /\ \E c \in completed :
                     /\ c.kind = "replication"
                     /\ today - c.completed \in 0..StandsFor
                     /\ c.covered = today - Recovery(file, today).lag
    <3> DEFINE claims == Claim("replication", file.content)
               c == CHOOSE d \in claims : TRUE
    <3>1. /\ file # None /\ IsEvidence(file.content) /\ today # None /\ claims # {}
          /\ Recovery(file, today) = JudgeLag(c, today)
      BY <2>3 DEF Recovery
    <3>2. today = clock BY <3>1
    <3>3. c \in claims BY <3>1
    <3>4. c \in completed /\ c \in Claims /\ c.kind = "replication"
      BY <2>2, <3>1, <3>3 DEF Claim
    <3> HIDE DEF c
    <3>5. c.completed \in Nat /\ c.covered \in Nat
      BY <3>4, MirrorAssumption DEF Claims, Seconds
    <3>6. /\ ~(c.completed > today) /\ ~(c.covered > today)
          /\ ~(today - c.completed > StandsFor)
          /\ Recovery(file, today).lag = today - c.covered
      BY <2>3, <3>1 DEF JudgeLag
    <3> QED BY <2>1, <3>1, <3>2, <3>4, <3>5, <3>6
  <2>4. ASSUME Backup(file).is = "restored"
        PROVE  \E c \in completed : c.kind = "restore-drill" /\ c.completed = Backup(file).at
    <3> DEFINE drills == Claim("restore-drill", file.content)
               c == CHOOSE d \in drills : TRUE
    <3>1. /\ file # None /\ IsEvidence(file.content) /\ drills # {}
          /\ Backup(file).at = c.completed
      BY <2>4 DEF Backup
    <3>2. c \in drills BY <3>1
    <3> QED BY <2>2, <3>1, <3>2 DEF Claim
  <2> QED BY <2>3, <2>4 DEF PostureIsEarned, file
<1> QED BY <1>0, <1>1, <1>2, <1>3, MirrorInvariant, PTL DEF Spec
=============================================================================
