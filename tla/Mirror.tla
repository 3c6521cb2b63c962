------------------------------- MODULE Mirror -------------------------------
(***************************************************************************)
(* The companion, vayucell-sync: sync/src/main.rs (push, replicate, drill   *)
(* and the receipt), mirror.rs, plan.rs and cell.rs, and what the cell makes*)
(* of the receipt: core/src/replica.rs.                                     *)
(*                                                                         *)
(* One command runs at a time, takes a listing of the vault and then acts on*)
(* it request by request, while other devices write to the vault, a person  *)
(* works in the folder, and any call may fail or the command be killed.     *)
(* To the companion the vault is the store of whole files that AtomicStore  *)
(* describes.  A file here is a content and the second it was written in.   *)
(***************************************************************************)
EXTENDS Integers, FiniteSetsExt

CONSTANTS
    Names,          \* file names, as numbers in the order listings are sorted in
    InFolder,       \* those in the mirrored folder, and so in reach of the vault
    Receipt,        \* the evidence file, in the folder or elsewhere
    TempOf,         \* with_extension("vayutmp"): names that differ in extension share it
    Contents,       \* what files hold
    Size,           \* and how long that is
    Half,           \* what a file holds that was not written to its end
    None,           \* no file, no claim, no clock
    StandsFor,      \* MEASUREMENT_STANDS_FOR, in seconds
    MaxClock,       \* bound: seconds that pass
    MaxEdits,       \* bound: changes made by other devices and by the person
    MaxReadErrors,  \* bound: how often the evidence file cannot be read
    MaxCommands     \* bound: how many commands are started

ASSUME MirrorAssumption ==
    /\ Names \subseteq Nat
    /\ InFolder \subseteq Names
    /\ Receipt \in Names
    /\ TempOf \in [InFolder -> InFolder]
    /\ \A n \in InFolder : TempOf[TempOf[n]] = TempOf[n]
    /\ Size \in [Contents -> Nat \ {0}]
    /\ {StandsFor, MaxClock, MaxEdits, MaxReadErrors, MaxCommands} \subseteq Nat
    /\ {Half, None} \cap Contents = {}

VARIABLES
    vault,      \* per name: the file stored under it
    disk,       \* per name: the file on the companion's machine
    run,        \* the command that is running
    clock,      \* the second it is
    completed,  \* history: the last claim of each kind that was written
    count       \* how many edits, read errors and commands there were

vars == <<vault, disk, run, clock, completed, count>>

Seconds == 0..MaxClock

Claims ==
    [kind : {"replication"}, completed : Seconds, covered : Seconds]
    \cup [kind : {"restore-drill"}, completed : Seconds]

(* An evidence file holds at most one claim of each kind (upsert). *)
Evidence == {claims \in SUBSET Claims : \A c, d \in claims : c.kind = d.kind => c = d}

IsEvidence(content) == content \notin Contents \cup {Half}

Files == [content : Contents \cup {Half} \cup Evidence, stamp : Seconds]

ASSUME NoFileIsNone == None \notin Files

SizeOf(content) ==
    IF content = Half THEN 0 ELSE IF IsEvidence(content) THEN 3 ELSE Size[content]

IsTemporary(n) == n \in InFolder /\ TempOf[n] = n

Written(content) == [content |-> content, stamp |-> clock]

Listed(files) == {n \in InFolder : files[n] # None}

Nothing == [n \in Names |-> None]

Idle == [at |-> "idle", command |-> None, prune |-> FALSE, remote |-> Nothing,
         locals |-> Nothing, todo |-> {}, body |-> None,
         had |-> [n \in Names |-> {}], edited |-> {}]

Init ==
    /\ vault = Nothing
    /\ disk = Nothing
    /\ run = Idle
    /\ clock = 0
    /\ completed = {}
    /\ count = [edits |-> 0, readErrors |-> 0, commands |-> 0]

-----------------------------------------------------------------------------
(* What the commands decide by.  Listing and walk carry a size and a second,*)
(* never a content.                                                         *)

LooksLike(file, entry) ==
    /\ file # None
    /\ SizeOf(file.content) = SizeOf(entry.content)
    /\ file.stamp = entry.stamp

(* Mutant of UpToDate: the time is not compared. *)
UpToDateBySize(local, entry) ==
    local # None /\ SizeOf(local.content) = SizeOf(entry.content)

(* replicate: the copy that need not be downloaded. *)
UpToDate(local, entry) == LooksLike(local, entry)

(* diff: what a push sends, and what it would remove from the vault. *)
ToUpload(locals, remote) ==
    {n \in Listed(locals) : remote[n] = None \/ ~LooksLike(locals[n], remote[n])}

ToPrune(kept, other) == Listed(other) \ Listed(kept)

NewestOf(remote) == Max({0} \cup {remote[n].stamp : n \in Listed(remote)})

Current == Min(run.todo)

-----------------------------------------------------------------------------
(* The evidence file. *)

(* upsert: replaces the claim of the same kind and keeps the other. *)
Upsert(existing, fresh) == {c \in existing : c.kind # fresh.kind} \cup {fresh}

Claim(kind, evidence) == {c \in evidence : c.kind = kind}

(* Mutant of JudgeLag: the figure is not aged. *)
JudgeLagUnaged(claim, now) ==
    IF claim.completed > now \/ claim.covered > now
      THEN [is |-> "unreachable"]
      ELSE [is |-> "behind", lag |-> now - claim.covered]

JudgeLag(claim, now) ==
    IF claim.completed > now \/ claim.covered > now \/ now - claim.completed > StandsFor
      THEN [is |-> "unreachable"]
      ELSE [is |-> "behind", lag |-> now - claim.covered]

(* posture_parts: what the cell says of the copy, and of the restores. *)
Recovery(file, today) ==
    IF file = None THEN [is |-> "no replica"]
    ELSE IF ~IsEvidence(file.content) THEN [is |-> "unreachable"]
    ELSE LET claims == Claim("replication", file.content)
         IN  IF today = None
               THEN IF file.content = {} THEN [is |-> "no replica"] ELSE [is |-> "unreachable"]
               ELSE IF claims = {} THEN [is |-> "no replica"]
                    ELSE JudgeLag(CHOOSE c \in claims : TRUE, today)

Backup(file) ==
    IF file = None THEN [is |-> "not configured"]
    ELSE IF ~IsEvidence(file.content) THEN [is |-> "restore failed"]
    ELSE LET drills == Claim("restore-drill", file.content)
         IN  IF drills # {}
               THEN [is |-> "restored", at |-> (CHOOSE c \in drills : TRUE).completed]
               ELSE [is |-> IF file.content = {} THEN "not configured" ELSE "never restored"]

-----------------------------------------------------------------------------
(* The command. *)

Remembers(n) ==
    [run.had EXCEPT ![n] = @ \cup (IF vault'[n] = None THEN {} ELSE {vault'[n].content})]

(* The listing.  A drill walks nothing. *)
Starts(command, prune) ==
    /\ run = Idle
    /\ command = "drill" => ~prune
    /\ count.commands < MaxCommands
    /\ count' = [count EXCEPT !.commands = @ + 1]
    /\ run' = [Idle EXCEPT
                 !.command = command,
                 !.prune = prune,
                 !.remote = vault,
                 !.had = [n \in Names |-> IF vault[n] = None THEN {} ELSE {vault[n].content}],
                 !.at = IF command = "drill" THEN "work" ELSE "walk",
                 !.todo = IF command = "drill" THEN Listed(vault) ELSE {}]
    /\ UNCHANGED <<vault, disk, clock, completed>>

(* The folder is read after the vault was listed. *)
Walks ==
    /\ run.at = "walk"
    /\ LET locals == [n \in Names |-> IF n \in InFolder THEN disk[n] ELSE None]
       IN  run' = [run EXCEPT
                     !.at = "work",
                     !.locals = locals,
                     !.todo = IF run.command = "push" THEN ToUpload(locals, run.remote)
                                                      ELSE Listed(run.remote)]
    /\ UNCHANGED <<vault, disk, clock, completed, count>>

(* Mutant of Uploads: an upload that fails is passed over. *)
UploadsOrNot ==
    /\ run.at = "work" /\ run.command = "push" /\ run.todo # {}
    /\ run' = [run EXCEPT !.todo = @ \ {Current}]
    /\ UNCHANGED <<vault, disk, clock, completed, count>>

(* push: the file is read when its turn comes, whatever the walk saw. *)
Uploads ==
    /\ run.at = "work" /\ run.command = "push" /\ run.todo # {}
    /\ disk[Current] # None
    /\ vault' = [vault EXCEPT ![Current] = Written(disk[Current].content)]
    /\ run' = [run EXCEPT !.todo = @ \ {Current}, !.had = Remembers(Current)]
    /\ UNCHANGED <<disk, clock, completed, count>>

Skips ==
    /\ run.at = "work" /\ run.command = "replicate" /\ run.todo # {}
    /\ UpToDate(run.locals[Current], run.remote[Current])
    /\ run' = [run EXCEPT !.todo = @ \ {Current}]
    /\ UNCHANGED <<vault, disk, clock, completed, count>>

(* Mutant of Downloads: the copy is written under its own name. *)
DownloadsInPlace ==
    /\ run.at = "work" /\ run.command = "replicate" /\ run.todo # {}
    /\ ~UpToDate(run.locals[Current], run.remote[Current])
    /\ vault[Current] # None
    /\ run' = [run EXCEPT !.at = "write", !.body = vault[Current].content]
    /\ disk' = [disk EXCEPT ![Current] = Written(Half)]
    /\ UNCHANGED <<vault, clock, completed, count>>

(* A body of another size than the listing's stops the command.  The        *)
(* temporary is created empty, or emptied.                                  *)
Downloads ==
    /\ run.at = "work" /\ run.command = "replicate" /\ run.todo # {}
    /\ ~UpToDate(run.locals[Current], run.remote[Current])
    /\ vault[Current] # None
    /\ SizeOf(vault[Current].content) = SizeOf(run.remote[Current].content)
    /\ run' = [run EXCEPT !.at = "write", !.body = vault[Current].content]
    /\ disk' = [disk EXCEPT ![TempOf[Current]] = Written(Half)]
    /\ UNCHANGED <<vault, clock, completed, count>>

WritesTemporary ==
    /\ run.at = "write"
    /\ disk' = [disk EXCEPT ![TempOf[Current]] = Written(run.body)]
    /\ run' = [run EXCEPT !.at = "rename", !.body = None]
    /\ UNCHANGED <<vault, clock, completed, count>>

(* The modification time is the download's, and stays it. *)
MovesIntoPlace ==
    /\ run.at = "rename"
    /\ LET temporary == TempOf[Current]
       IN  disk' = [[disk EXCEPT ![temporary] = None] EXCEPT ![Current] = disk[temporary]]
    /\ run' = [run EXCEPT !.at = "work", !.todo = @ \ {Current}]
    /\ UNCHANGED <<vault, clock, completed, count>>

(* Mutant of Compares: the sizes are compared. *)
ComparesSizes ==
    /\ run.at = "work" /\ run.command = "drill" /\ run.todo # {}
    /\ vault[Current] # None /\ disk[Current] # None
    /\ SizeOf(vault[Current].content) = SizeOf(disk[Current].content)
    /\ run' = [run EXCEPT !.todo = @ \ {Current}]
    /\ UNCHANGED <<vault, disk, clock, completed, count>>

(* drill: a fresh download against the copy.  Anything else stops it. *)
Compares ==
    /\ run.at = "work" /\ run.command = "drill" /\ run.todo # {}
    /\ vault[Current] # None /\ disk[Current] # None
    /\ vault[Current].content = disk[Current].content
    /\ run' = [run EXCEPT !.todo = @ \ {Current}]
    /\ UNCHANGED <<vault, disk, clock, completed, count>>

(* What is pruned was decided by the listing and the walk. *)
TurnsToPruning ==
    /\ run.at = "work" /\ run.command # "drill" /\ run.todo = {}
    /\ run' = [run EXCEPT
                 !.at = "prune",
                 !.todo = IF ~run.prune THEN {}
                          ELSE IF run.command = "push" THEN ToPrune(run.locals, run.remote)
                          ELSE ToPrune(run.remote, run.locals)]
    /\ UNCHANGED <<vault, disk, clock, completed, count>>

(* A file that is gone from the vault already was deleted (404). *)
PrunesVault ==
    /\ run.at = "prune" /\ run.command = "push" /\ run.todo # {}
    /\ vault' = [vault EXCEPT ![Current] = None]
    /\ run' = [run EXCEPT !.todo = @ \ {Current}]
    /\ UNCHANGED <<disk, clock, completed, count>>

(* A copy that is gone already stops the command. *)
PrunesCopy ==
    /\ run.at = "prune" /\ run.command = "replicate" /\ run.todo # {}
    /\ disk[Current] # None
    /\ disk' = [disk EXCEPT ![Current] = None]
    /\ run' = [run EXCEPT !.todo = @ \ {Current}]
    /\ UNCHANGED <<vault, clock, completed, count>>

EndsPush ==
    /\ run.at = "prune" /\ run.command = "push" /\ run.todo = {}
    /\ run' = Idle
    /\ UNCHANGED <<vault, disk, clock, completed, count>>

TurnsToReceipt ==
    /\ run.todo = {}
    /\ \/ run.at = "prune" /\ run.command = "replicate"
       \/ run.at = "work" /\ run.command = "drill"
    /\ run' = [run EXCEPT !.at = "receipt"]
    /\ UNCHANGED <<vault, disk, clock, completed, count>>

(* write_receipt: a file that holds anything but claims stops the command;  *)
(* one that cannot be read counts as none.  It is moved into place whole.   *)
WritesReceipt(unread) ==
    /\ run.at = "receipt"
    /\ unread => disk[Receipt] # None /\ count.readErrors < MaxReadErrors
    /\ LET existing == IF disk[Receipt] = None \/ unread THEN {} ELSE disk[Receipt].content
           fresh == IF run.command = "drill"
                      THEN [kind |-> "restore-drill", completed |-> clock]
                      ELSE [kind |-> "replication", completed |-> clock,
                            covered |-> NewestOf(run.remote)]
       IN  /\ IsEvidence(existing)
           /\ disk' = [disk EXCEPT ![Receipt] = Written(Upsert(existing, fresh))]
           /\ completed' = {c \in completed : c.kind # fresh.kind} \cup {fresh}
    /\ count' = [count EXCEPT !.readErrors = @ + IF unread THEN 1 ELSE 0]
    /\ run' = Idle
    /\ UNCHANGED <<vault, clock>>

(* Any request may be refused or lost, any file operation fail, the command *)
(* be killed: what was done stays done, and no receipt is written.          *)
RunStops ==
    /\ run # Idle
    /\ run' = Idle
    /\ UNCHANGED <<vault, disk, clock, completed, count>>

Companion ==
    \/ \E command \in {"push", "replicate", "drill"}, prune \in BOOLEAN : Starts(command, prune)
    \/ Walks
    \/ Uploads
    \/ Skips
    \/ Downloads
    \/ WritesTemporary
    \/ MovesIntoPlace
    \/ Compares
    \/ TurnsToPruning
    \/ PrunesVault
    \/ PrunesCopy
    \/ EndsPush
    \/ TurnsToReceipt
    \/ \E unread \in BOOLEAN : WritesReceipt(unread)
    \/ RunStops

-----------------------------------------------------------------------------
(* Everybody else. *)

Edits ==
    /\ count.edits < MaxEdits
    /\ count' = [count EXCEPT !.edits = @ + 1]

(* Another device stores a file, or deletes one. *)
DeviceChanges(n, file) ==
    /\ Edits
    /\ vault[n] # file
    /\ vault' = [vault EXCEPT ![n] = file]
    /\ run' = IF run = Idle THEN run ELSE [run EXCEPT !.had = Remembers(n)]
    /\ UNCHANGED <<disk, clock, completed>>

(* The person changes a file of the folder, or removes one, and may damage  *)
(* the evidence.                                                            *)
PersonChanges(n, file) ==
    /\ Edits
    /\ disk[n] # file
    /\ disk' = [disk EXCEPT ![n] = file]
    /\ run' = IF run = Idle THEN run ELSE [run EXCEPT !.edited = @ \cup {n}]
    /\ UNCHANGED <<vault, clock, completed>>

Tick ==
    /\ clock < MaxClock
    /\ clock' = clock + 1
    /\ UNCHANGED <<vault, disk, run, completed, count>>

Others ==
    \/ \E n \in InFolder, file \in {None} \cup {Written(c) : c \in Contents} :
          /\ n # Receipt /\ ~IsTemporary(n)
          /\ DeviceChanges(n, file) \/ PersonChanges(n, file)
    \/ disk[Receipt] # None /\ PersonChanges(Receipt, Written(Half))
    \/ Tick

Next == Companion \/ Others

Spec == Init /\ [][Next]_vars

-----------------------------------------------------------------------------
(* Properties. *)

(* The second the copy was made in is the second of the listed file: the    *)
(* coincidence the commands take for an up to date copy.                    *)
Coincides(n) ==
    /\ run.locals[n] # None /\ run.remote[n] # None
    /\ run.locals[n].stamp = run.remote[n].stamp

(* However often a command is stopped, no copy under a name of its own is   *)
(* ever half a file, and no such file reaches the vault.                    *)
(* (mirror.rs, write_durably; Uploads reads the folder as it is)            *)
NothingHalfMirrored ==
    \A n \in InFolder \ {Receipt} : ~IsTemporary(n) =>
        /\ disk[n] # None => disk[n].content # Half
        /\ vault[n] # None => vault[n].content # Half

(* A replication is only claimed when every listed file is in the folder    *)
(* with something the vault held since the listing.  Two excuses: the person*)
(* changed the copy, or its time coincides with the file's; and a file that *)
(* is named like a temporary may be gone.  (replicate)                      *)
ReplicationsAreEarned ==
    run.at = "receipt" /\ run.command = "replicate" =>
        \A n \in Listed(run.remote) :
            \/ IsTemporary(n) \/ n \in run.edited \/ Coincides(n)
            \/ disk[n] # None /\ disk[n].content \in run.had[n]

(* A drill is only claimed when every listed file was in the folder as the  *)
(* vault held it since the listing, whatever its time and name.  (drill)    *)
DrillsAreEarned ==
    run.at = "receipt" /\ run.command = "drill" =>
        \A n \in Listed(run.remote) :
            \/ n \in run.edited
            \/ disk[n] # None /\ disk[n].content \in run.had[n]

(* The companion removes a file from the vault only when asked to, when the *)
(* folder had none of that name, and when every file that the folder had    *)
(* has reached the vault or coincides in time with the vault's.  (apply)    *)
PrunesComeLast ==
    [][\A n \in InFolder : Companion /\ vault[n] # None /\ vault'[n] = None =>
          /\ run.prune
          /\ run.locals[n] = None
          /\ \A m \in Listed(run.locals) :
                m \in run.edited \/ Coincides(m) \/ run.locals[m].content \in run.had[m]]_vars

(* What the cell says was earned: a lag by a cycle that was completed while *)
(* figures stand and covered that much, a restore by a drill; and a cell    *)
(* with no clock has no figure.  (posture_parts, judge_lag, upsert)         *)
PostureIsEarned ==
    \A today \in {None, clock} :
        LET recovery == Recovery(disk[Receipt], today)
            backup   == Backup(disk[Receipt])
        IN  /\ recovery.is = "behind" =>
                  /\ today # None
                  /\ \E c \in completed :
                        /\ c.kind = "replication"
                        /\ today - c.completed \in 0..StandsFor
                        /\ c.covered = today - recovery.lag
            /\ backup.is = "restored" =>
                  \E c \in completed : c.kind = "restore-drill" /\ c.completed = backup.at

(* A claim of the source that does not hold where README.md:613-614 puts the*)
(* evidence file: whatever a command does, finished or not, a kind of claim *)
(* that was on file stays on file.  (upsert, PrunesCopy)                    *)
ClaimKinds(file) ==
    IF file # None /\ IsEvidence(file.content) THEN {c.kind : c \in file.content} ELSE {}

ClaimsStand ==
    [][Companion => ClaimKinds(disk[Receipt]) \subseteq ClaimKinds(disk'[Receipt])]_vars
=============================================================================
