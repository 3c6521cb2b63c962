-------------------------------- MODULE Vault --------------------------------
(***************************************************************************)
(* The vault: cli/src/listen.rs (serve_vault, write_durably, used_bytes,    *)
(* remove, read_contained) under core/src/serve.rs (route_vault) and        *)
(* core/src/vault.rs (Admission, Quota, WritePlan).                         *)
(*                                                                         *)
(* Every worker thread answers one request at a time, and nothing orders    *)
(* two of them.  A file is an object that a name refers to: a temporary     *)
(* stays the same object when it is renamed, opening a temporary that is    *)
(* there truncates it for whoever else has it open, and a writer goes on    *)
(* writing to the object it opened, whatever that is called by now.         *)
(*                                                                         *)
(* A request that is refused (credentials, name, level, rung, quota) changes*)
(* nothing and is no step.  Symbolic links, which only the operator makes,  *)
(* and listings, which change nothing, are left out.                        *)
(***************************************************************************)
EXTENDS Condition, Sequences, FiniteSetsExt

CONSTANTS
    Workers,        \* the threads of the surface
    Names,
    Payloads,       \* the bodies clients send
    Size,           \* how many chunks each takes to write
    Writes, Reads,  \* which names each worker's clients write to, and read
    Limit,          \* the quota
    ObjectCount,    \* bound: file objects in use at a time
    MaxPowerCuts,   \* bound: how often the power fails
    MaxExits,       \* bound: how often the process stops
    MaxDiskErrors   \* bound: how often a file operation fails

ASSUME VaultAssumption ==
    /\ IsFiniteSet(Workers) /\ Workers # {}
    /\ IsFiniteSet(Payloads) /\ Payloads # {}
    /\ Size \in [Payloads -> Nat \ {0}]
    /\ {Writes, Reads} \subseteq [Workers -> SUBSET Names]
    /\ Limit \in Nat
    /\ {ObjectCount, MaxPowerCuts, MaxExits, MaxDiskErrors} \subseteq Nat

VARIABLES
    slot,       \* per name: the file stored under it, and its temporary
    medium,     \* per name: what slot may be after a power cut
    bytes,      \* what each object holds
    flushed,    \* whether it would hold that after a power cut
    job,        \* what each worker is doing
    promised,   \* history: the file a client was last told is stored
    faults      \* how many power cuts, exits and disk errors there were

store == <<slot, medium, bytes, flushed>>
vars  == <<slot, medium, bytes, flushed, job, promised, faults>>

None    == 0
Objects == 1..ObjectCount

(* What lies between the end of a truncated file and where the next byte is *)
(* written: zeroes no client sent.                                          *)
Hole == 0

Whole(p) == [i \in 1..Size[p] |-> p]

IsWhole(content) == \E p \in Payloads : content = Whole(p)

EmptySlot == [file |-> None, partial |-> None]

Idle == [at |-> "idle", name |-> None, payload |-> None, object |-> None, written |-> 0]

Init ==
    /\ slot = [n \in Names |-> EmptySlot]
    /\ medium = [n \in Names |-> {EmptySlot}]
    /\ bytes = [o \in Objects |-> << >>]
    /\ flushed = [o \in Objects |-> FALSE]
    /\ job = [w \in Workers |-> Idle]
    /\ promised = [n \in Names |-> None]
    /\ faults = [powerCuts |-> 0, exits |-> 0, diskErrors |-> 0]

-----------------------------------------------------------------------------
(* The directory. *)

(* What the directory names, temporaries included. *)
Linked == UNION {{slot[n].file, slot[n].partial} : n \in Names}

(* used_bytes: what every file of the directory holds. *)
Chunks == UNION {{<<o, i>> : i \in 1..Len(bytes[o])} : o \in Linked \ {None}}

Used == Cardinality(Chunks)

(* Mutant of Admits: nobody asks for room. *)
AdmitsAnything(offered) == TRUE

(* Quota::free and Quota::admits *)
Free == IF Used <= Limit THEN Limit - Used ELSE 0

Admits(offered) == offered <= Free

(* A change of a name's entries reaches the medium when the directory is    *)
(* flushed, and may reach it sooner.                                        *)
Enters(n, s) ==
    /\ slot' = [slot EXCEPT ![n] = s]
    /\ medium' = [medium EXCEPT ![n] = @ \cup {s}]

Referenced ==
    Linked
    \cup (UNION {UNION {{s.file, s.partial} : s \in medium[n]} : n \in Names})
    \cup {job[w].object : w \in Workers}

Fresh == Objects \ Referenced

(* One write at an offset of its own. *)
WrittenAt(content, i, chunk) ==
    [j \in 1..(IF i > Len(content) THEN i ELSE Len(content)) |->
        IF j = i THEN chunk ELSE IF j <= Len(content) THEN content[j] ELSE Hole]

-----------------------------------------------------------------------------
(* PUT.  The level and the quota are asked once, before the first byte, and *)
(* write_durably then runs to its end or to the first call that fails.      *)

PutAdmitted(w, n, p, level, stage) ==
    /\ n \in Writes[w]
    /\ TakesFiles(level, stage)
    /\ Admits(Size[p])
    /\ job' = [job EXCEPT ![w] = [Idle EXCEPT !.at = "open", !.name = n, !.payload = p]]
    /\ UNCHANGED <<store, promised, faults>>

(* Mutant of OpenTemporary: writes in place where a file is stored. *)
OpenInPlace(w) ==
    /\ job[w].at = "open"
    /\ LET n == job[w].name
           o == IF slot[n].file # None THEN slot[n].file ELSE Min(Fresh)
       IN  /\ Enters(n, [slot[n] EXCEPT !.partial = o])
           /\ bytes' = [bytes EXCEPT ![o] = << >>]
           /\ flushed' = [flushed EXCEPT ![o] = FALSE]
           /\ job' = [job EXCEPT ![w].at = "write", ![w].object = o]
    /\ UNCHANGED <<promised, faults>>

(* Opened with truncate: the object another writer left, or one just made. *)
OpenTemporary(w) ==
    /\ job[w].at = "open"
    /\ LET n == job[w].name
           o == IF slot[n].partial # None THEN slot[n].partial ELSE Min(Fresh)
       IN  /\ slot[n].partial = None => Fresh # {}
           /\ Enters(n, [slot[n] EXCEPT !.partial = o])
           /\ bytes' = [bytes EXCEPT ![o] = << >>]
           /\ flushed' = [flushed EXCEPT ![o] = FALSE]
           /\ job' = [job EXCEPT ![w].at = "write", ![w].object = o]
    /\ UNCHANGED <<promised, faults>>

(* Mutant of WriteChunk: a short write is taken for all of it. *)
WriteChunkShort(w) ==
    /\ job[w].at = "write"
    /\ bytes' = [bytes EXCEPT ![job[w].object] = WrittenAt(@, 1, job[w].payload)]
    /\ flushed' = [flushed EXCEPT ![job[w].object] = FALSE]
    /\ job' = [job EXCEPT ![w].written = 1, ![w].at = "flush"]
    /\ UNCHANGED <<slot, medium, promised, faults>>

WriteChunk(w) ==
    /\ job[w].at = "write"
    /\ LET o == job[w].object
           i == job[w].written + 1
       IN  /\ bytes' = [bytes EXCEPT ![o] = WrittenAt(@, i, job[w].payload)]
           /\ flushed' = [flushed EXCEPT ![o] = FALSE]
           /\ job' = [job EXCEPT
                        ![w].written = i,
                        ![w].at = IF i = Size[job[w].payload] THEN "flush" ELSE "write"]
    /\ UNCHANGED <<slot, medium, promised, faults>>

(* Mutant of FlushFile: the file is renamed unflushed. *)
FlushFileSkipped(w) ==
    /\ job[w].at = "flush"
    /\ job' = [job EXCEPT ![w].at = "rename"]
    /\ UNCHANGED <<store, promised, faults>>

FlushFile(w) ==
    /\ job[w].at = "flush"
    /\ flushed' = [flushed EXCEPT ![job[w].object] = TRUE]
    /\ job' = [job EXCEPT ![w].at = "rename"]
    /\ UNCHANGED <<slot, medium, bytes, promised, faults>>

(* The temporary is renamed by its name, not by the object written to. *)
RenameOverDestination(w) ==
    /\ job[w].at = "rename"
    /\ LET n == job[w].name
       IN  IF slot[n].partial # None
             THEN /\ Enters(n, [file |-> slot[n].partial, partial |-> None])
                  /\ job' = [job EXCEPT ![w].at = "flush_dir"]
                  /\ promised' = [promised EXCEPT ![n] = None]
             ELSE /\ job' = [job EXCEPT ![w].at = "failed"]
                  /\ UNCHANGED <<slot, medium, promised>>
    /\ UNCHANGED <<bytes, flushed, faults>>

(* Mutant of FlushDirectory: the client is told before the flush. *)
FlushDirectorySkipped(w) ==
    /\ job[w].at = "flush_dir"
    /\ job' = [job EXCEPT ![w] = Idle]
    /\ promised' = [promised EXCEPT ![job[w].name] = job[w].payload]
    /\ UNCHANGED <<store, faults>>

(* The last step, after which the client is told that the file is stored.   *)
FlushDirectory(w) ==
    /\ job[w].at = "flush_dir"
    /\ medium' = [n \in Names |-> {slot[n]}]
    /\ job' = [job EXCEPT ![w] = Idle]
    /\ promised' = [promised EXCEPT ![job[w].name] = job[w].payload]
    /\ UNCHANGED <<slot, bytes, flushed, faults>>

(* Any call may fail.  Only a failed rename removes the temporary.  The     *)
(* client is told that nothing was stored under that name.                  *)
WriteFails(w) ==
    /\ job[w].at \in {"open", "write", "flush", "rename", "flush_dir"}
    /\ faults.diskErrors < MaxDiskErrors
    /\ faults' = [faults EXCEPT !.diskErrors = @ + 1]
    /\ job' = [job EXCEPT ![w].at = "failed"]
    /\ LET n == job[w].name
       IN  IF job[w].at = "rename" /\ slot[n].partial # None
             THEN Enters(n, [slot[n] EXCEPT !.partial = None])
             ELSE UNCHANGED <<slot, medium>>
    /\ UNCHANGED <<bytes, flushed, promised>>

FailureAnswered(w) ==
    /\ job[w].at = "failed"
    /\ job' = [job EXCEPT ![w] = Idle]
    /\ UNCHANGED <<store, promised, faults>>

-----------------------------------------------------------------------------
(* DELETE: no room is asked for, and the directory is not flushed. *)

DeleteStored(w, n, level, stage) ==
    /\ n \in Writes[w]
    /\ TakesFiles(level, stage)
    /\ slot[n].file # None
    /\ Enters(n, [slot[n] EXCEPT !.file = None])
    /\ promised' = [promised EXCEPT ![n] = None]
    /\ UNCHANGED <<bytes, flushed, job, faults>>

(* GET: the file is opened, and read from the object it was then. *)

ReadOpens(w, n, level, stage) ==
    /\ n \in Reads[w]
    /\ ServesReaders(level, stage)
    /\ slot[n].file # None
    /\ job' = [job EXCEPT ![w] = [Idle EXCEPT !.at = "read", !.name = n,
                                              !.object = slot[n].file]]
    /\ UNCHANGED <<store, promised, faults>>

ReadEnds(w) ==
    /\ job[w].at = "read"
    /\ job' = [job EXCEPT ![w] = Idle]
    /\ UNCHANGED <<store, promised, faults>>

-----------------------------------------------------------------------------
(* The supervisor stops the process, whatever its workers are doing. *)
ProcessExits ==
    /\ faults.exits < MaxExits
    /\ faults' = [faults EXCEPT !.exits = @ + 1]
    /\ job' = [w \in Workers |-> Idle]
    /\ UNCHANGED <<store, promised>>

(* Each name is what some prefix of the changes to it left, and bytes that  *)
(* were not flushed may be gone.                                            *)
PowerCut ==
    /\ faults.powerCuts < MaxPowerCuts
    /\ faults' = [faults EXCEPT !.powerCuts = @ + 1]
    /\ \E survives \in [Names -> UNION {medium[n] : n \in Names}] :
          /\ \A n \in Names : survives[n] \in medium[n]
          /\ slot' = survives
          /\ medium' = [n \in Names |-> {survives[n]}]
    /\ \E lost \in SUBSET {o \in Referenced \ {None} : ~flushed[o]} :
          bytes' = [o \in Objects |-> IF o \in lost THEN << >> ELSE bytes[o]]
    /\ flushed' = [o \in Objects |-> TRUE]
    /\ job' = [w \in Workers |-> Idle]
    /\ UNCHANGED promised

Write(w) ==
    \/ OpenTemporary(w)
    \/ WriteChunk(w)
    \/ FlushFile(w)
    \/ RenameOverDestination(w)
    \/ FlushDirectory(w)
    \/ WriteFails(w)
    \/ FailureAnswered(w)

(* A free worker takes a request, which is told a level and a rung of its   *)
(* own.                                                                     *)
Request(w) ==
    \/ /\ job[w] = Idle
       /\ \E n \in Names, level \in Levels, stage \in Stages :
             \/ \E p \in Payloads : PutAdmitted(w, n, p, level, stage)
             \/ DeleteStored(w, n, level, stage)
             \/ ReadOpens(w, n, level, stage)
    \/ ReadEnds(w)

Next ==
    \/ \E w \in Workers : Write(w) \/ Request(w)
    \/ ProcessExits
    \/ PowerCut

Spec == Init /\ [][Next]_vars

-----------------------------------------------------------------------------
(* Properties. *)

(* A client that was told its file is stored finds that file whole, before  *)
(* any power cut and after it, until the name is written to or deleted      *)
(* again.  (write_durably, all four steps in their order)                   *)
PromisedFilesSurvive ==
    \A n \in Names :
        promised[n] # None =>
            \A s \in medium[n] :
                /\ s.file # None
                /\ flushed[s.file]
                /\ bytes[s.file] = Whole(promised[n])

(* Whatever is being written, what a reader opened stays the whole file it  *)
(* was.  (read_contained, RenameOverDestination)                            *)
ReadersSeeWholeFiles ==
    \A w \in Workers : job[w].at = "read" => IsWhole(bytes[job[w].object])

(* Every admission measures before it writes, so until a power cut brings   *)
(* back what was deleted, what slips past the quota is bounded by what the  *)
(* other workers were admitted with.  (used_bytes, Admission::of)           *)
Largest == Max({Size[p] : p \in Payloads})

OvershootBounded ==
    faults.powerCuts = 0 => Used <= Limit + (Cardinality(Workers) - 1) * Largest

(* The vault implements the store of whole files.                           *)
ContentOf(o) == IF o = None THEN << >> ELSE bytes[o]

Store == INSTANCE AtomicStore
           WITH Contents <- {Whole(p) : p \in Payloads},
                Nothing  <- << >>,
                stored   <- [n \in Names |-> ContentOf(slot[n].file)],
                possible <- [n \in Names |-> {ContentOf(s.file) : s \in medium[n]}]

(* With one writer per name, the four steps of a write, their failures, the *)
(* exits and the power cuts are one step of the store, or none.             *)
StoreSpec == Store!Spec

-----------------------------------------------------------------------------
(* A claim of the source that does not hold: a reader never finds half a    *)
(* file under the real name.                                                *)
NeverHalfAFile ==
    \A n \in Names : slot[n].file # None => IsWhole(bytes[slot[n].file])
=============================================================================
