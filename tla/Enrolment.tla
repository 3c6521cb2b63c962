------------------------------ MODULE Enrolment ------------------------------
(***************************************************************************)
(* cli/src/enrol.rs: `enrol` and `revoke`, two processes at a time over one *)
(* file of credentials, each killed anywhere; a power cut; and what a       *)
(* server that starts now would read (load).                                *)
(*                                                                         *)
(* The file system keeps, of a directory, any state since its last flush,   *)
(* and of a file a beginning that holds at least what was flushed.  A file  *)
(* written over where another command had it open is cut as a new one is.   *)
(***************************************************************************)
EXTENDS Credentials

CONSTANTS
    Devices,        \* the names that are enrolled
    Sessions,       \* the commands there is room for at a time
    FileCount,      \* bound: files, named or open or in the medium
    MaxMints,       \* bound: secrets ever minted
    MaxUnflushed,   \* bound: commands killed, and revocations that flush no directory
    MaxCuts         \* bound: power cuts

ASSUME EnrolmentAssumption ==
    /\ FileCount \in Nat \ {0}             \* there is room for the store
    /\ MaxMints \in Nat
    /\ MaxUnflushed \in Nat
    /\ MaxCuts \in Nat

VARIABLES
    contents,       \* what each file holds, and how much of it was flushed
    directory,      \* the directory: the store and revoke's temporary
    medium,         \* the directories a power cut may leave
    doing,          \* what each command does and where it stands
    minted,         \* history: whose each secret is
    gone,           \* history: the secrets revocations took out that met nobody
    out,            \* history: likewise, but not made to last yet: a power cut may undo it
    overlapped,     \* history: whether two revocations were ever at work at once
    faults          \* bound: how many of these and of the cuts there were

enrolVars == <<contents, directory, medium, doing, minted, gone, out, overlapped, faults>>

NoFile == 0
Files  == 1..FileCount
Idle   == [at |-> "idle"]
Private == [group |-> 0, other |-> 0]       \* STORE_MODE, from the moment of opening

Annotation == <<Hash, End>>

EnrolInit ==
    /\ contents = [f \in Files |-> [text |-> IF f = 1 THEN Annotation ELSE << >>,
                                 flushed |-> IF f = 1 THEN Len(Annotation) ELSE 0]]
    /\ directory \in {[store |-> 1, partial |-> NoFile], [store |-> NoFile, partial |-> NoFile]}
    /\ medium = {directory}
    /\ doing = [c \in Sessions |-> Idle]
    /\ minted = << >>
    /\ gone = {}
    /\ out = {}
    /\ overlapped = FALSE
    /\ faults = [unflushed |-> 0, cuts |-> 0]

-----------------------------------------------------------------------------
(* The file system. *)

Open == {doing[c].file : c \in {c \in Sessions : doing[c].at # "idle"}}
InUse(entries) == UNION {{d.store, d.partial} : d \in entries}
Nameless     == Files \ (Open \cup InUse({directory} \cup medium))
Fresh        == Min(Nameless)
RoomForAFile == Nameless # {}

Emptied == [text |-> << >>, flushed |-> 0]

Enters(new) ==
    /\ directory' = new
    /\ medium' = medium \cup {new}

(* A write at the offset a command has reached: over what is there. *)
Over(text, written) == written \o SubSeq(text, Len(written) + 1, Len(text))

(* load, of the store as it is now. *)
Loaded == IF directory.store = NoFile THEN Load(FALSE, Private, << >>)
          ELSE Load(TRUE, Private, contents[directory.store].text)

(* Whom it lets in. *)
Recognised == Range(Loaded.entries)

IsEnrolled(d) == \E e \in Recognised : e.device = <<Name(d)>>

-----------------------------------------------------------------------------
(* Beginning: who else is at work is only history. *)

Others(c) == {o \in Sessions \ {c} : doing[o].at # "idle"}

Begins(c, started) ==
    doing' = [o \in Sessions |->
                  IF o = c THEN started
                  ELSE IF doing[o].at = "idle" THEN Idle
                  ELSE [doing[o] EXCEPT !.alone = FALSE]]

Goes(c, to)    == doing' = [doing EXCEPT ![c].at = to]
Ends(c)        == doing' = [doing EXCEPT ![c] = Idle]

(* What nobody names or holds open is gone. *)
Collected(kept) == [f \in Files |-> IF f \in kept THEN contents[f] ELSE Emptied]
HeldBut(c)      == {doing[o].file : o \in Others(c)}

(* enrol, to the minting of a secret: the name, the store and its mode are  *)
(* looked at first.  Two of them at once are left out: the pieces of their  *)
(* lines may lie between one another's.                                     *)
EnrolBegins(c, d) ==
    /\ doing[c].at = "idle"
    /\ \A o \in Others(c) : doing[o].op # "enrol"
    /\ Len(minted) < MaxMints
    /\ Loaded.why = Sound
    /\ ~IsEnrolled(d)
    /\ minted' = Append(minted, d)
    /\ Begins(c, [op |-> "enrol", at |-> "opens", device |-> d, secret |-> Len(minted) + 1,
                  file |-> NoFile, alone |-> Others(c) = {}])
    /\ UNCHANGED <<contents, directory, medium, gone, out, overlapped, faults>>

(* The file is opened to append, or created. *)
EnrolOpens(c) ==
    /\ doing[c].at = "opens"
    /\ IF directory.store # NoFile
         THEN /\ doing' = [doing EXCEPT ![c].at = "writes", ![c].file = directory.store]
              /\ UNCHANGED <<contents, directory, medium>>
         ELSE /\ RoomForAFile
              /\ contents' = [contents EXCEPT ![Fresh] = Emptied]
              /\ Enters([directory EXCEPT !.store = Fresh])
              /\ doing' = [doing EXCEPT ![c].at = "writes", ![c].file = Fresh]
    /\ UNCHANGED <<minted, gone, out, overlapped, faults>>

(* The four pieces of its line, each a write of its own at the end the file *)
(* has then; none is flushed to the medium.                                 *)
LineOf(d, s) == <<Name(d), Gap, Secret(s), End>>
WritesLine   == <<"writes", "parts", "tells", "closes">>

EnrolWrites(c) ==
    \E i \in DOMAIN WritesLine :
        /\ doing[c].at = WritesLine[i]
        /\ contents' = [contents EXCEPT ![doing[c].file].text =
                        Append(@, LineOf(doing[c].device, doing[c].secret)[i])]
        /\ IF i = Len(WritesLine) THEN Ends(c) ELSE Goes(c, WritesLine[i + 1])
        /\ UNCHANGED <<directory, medium, minted, gone, out, overlapped, faults>>

-----------------------------------------------------------------------------
(* revoke: its load refuses a store that others read or that will not       *)
(* parse; then the text is read again.                                      *)
RevokeBegins(c, d) ==
    /\ doing[c].at = "idle"
    /\ Loaded.why = Sound
    /\ Begins(c, [op |-> "revoke", at |-> "reads", device |-> d, file |-> NoFile, kept |-> << >>,
                  alone |-> Others(c) = {}])
    /\ overlapped' = (overlapped \/ \E o \in Others(c) : doing[o].op = "revoke")
    /\ UNCHANGED <<contents, directory, medium, minted, gone, out, faults>>

RevokeReads(c) ==
    /\ doing[c].at = "reads"
    /\ IF directory.store # NoFile /\ Owns(contents[directory.store].text, doing[c].device)
         THEN doing' = [doing EXCEPT ![c].at = "truncates",
                            ![c].kept = Kept(contents[directory.store].text, doing[c].device)]
         ELSE Ends(c)
    /\ UNCHANGED <<contents, directory, medium, minted, gone, out, overlapped, faults>>

(* write_private *)
RevokeTruncates(c) ==
    /\ doing[c].at = "truncates"
    /\ directory.partial # NoFile \/ RoomForAFile
    /\ LET f == IF directory.partial # NoFile THEN directory.partial ELSE Fresh
       IN  /\ contents' = [contents EXCEPT ![f] = Emptied]
           /\ IF directory.partial # NoFile THEN UNCHANGED <<directory, medium>>
              ELSE Enters([directory EXCEPT !.partial = f])
           /\ doing' = [doing EXCEPT ![c].at = "rewrites", ![c].file = f]
    /\ UNCHANGED <<minted, gone, out, overlapped, faults>>

RevokeRewrites(c) ==
    /\ doing[c].at = "rewrites"
    /\ contents' = [contents EXCEPT ![doing[c].file] =
                    [text |-> Over(@.text, doing[c].kept), flushed |-> 0]]
    /\ Goes(c, "flushes")
    /\ UNCHANGED <<directory, medium, minted, gone, out, overlapped, faults>>

RevokeFlushes(c) ==
    /\ doing[c].at = "flushes"
    /\ contents' = [contents EXCEPT ![doing[c].file].flushed = Len(contents[doing[c].file].text)]
    /\ Goes(c, "renames")
    /\ UNCHANGED <<directory, medium, minted, gone, out, overlapped, faults>>

(* Whatever has the temporary's name by now takes the store's. *)
RevokeRenames(c) ==
    /\ doing[c].at = "renames"
    /\ IF directory.partial = NoFile
         THEN Ends(c) /\ UNCHANGED <<directory, medium>>
         ELSE /\ Enters([store |-> directory.partial, partial |-> NoFile])
              /\ Goes(c, "flushes directory")
    /\ UNCHANGED <<contents, minted, gone, out, overlapped, faults>>

(* The secrets it took out, if it met no other command. *)
TakenOut(c) == IF doing[c].alone /\ ~overlapped
               THEN {s \in DOMAIN minted : minted[s] = doing[c].device} ELSE {}

(* Mutant of RevokeFlushesDirectory: the directory is left to itself. *)
RevokeFlushesNothing(c) ==
    /\ doing[c].at = "flushes directory"
    /\ gone' = gone \cup out \cup TakenOut(c)
    /\ out' = {}
    /\ Ends(c)
    /\ UNCHANGED <<contents, directory, medium, minted, overlapped, faults>>

(* The rename is made to last, and the device is told to be revoked. *)
RevokeFlushesDirectory(c) ==
    /\ doing[c].at = "flushes directory"
    /\ medium' = {directory}
    /\ contents' = Collected(InUse({directory}) \cup HeldBut(c))
    /\ gone' = gone \cup out \cup TakenOut(c)
    /\ out' = {}
    /\ Ends(c)
    /\ UNCHANGED <<directory, minted, overlapped, faults>>

(* So it is where the path to the store is a name alone; then nothing is    *)
(* flushed.  Which of the two a path is matters nowhere else.               *)
RevokeNamesNoDirectory(c) ==
    /\ doing[c].at = "flushes directory"
    /\ faults.unflushed < MaxUnflushed
    /\ faults' = [faults EXCEPT !.unflushed = @ + 1]
    /\ contents' = Collected(InUse({directory} \cup medium) \cup HeldBut(c))
    /\ out' = out \cup TakenOut(c)
    /\ Ends(c)
    /\ UNCHANGED <<directory, medium, minted, gone, overlapped>>

-----------------------------------------------------------------------------
(* The world. *)

Killed(c) ==
    /\ doing[c].at # "idle"
    /\ faults.unflushed < MaxUnflushed
    /\ faults' = [faults EXCEPT !.unflushed = @ + 1]
    /\ contents' = Collected(InUse({directory} \cup medium) \cup HeldBut(c))
    /\ Ends(c)
    /\ UNCHANGED <<directory, medium, minted, gone, out, overlapped>>

(* What a power cut may leave of a file: a secret is the only piece long    *)
(* enough to be told from a shorter one.                                    *)
Torn(text, length) ==
    LET whole == SubSeq(text, 1, length)
        next  == text[length + 1]
    IN  {whole} \cup (IF length < Len(text) /\ next.is = "secret"
                      THEN {Append(whole, Half(next.of))} ELSE {})

Remains(file) == UNION {Torn(file.text, l) : l \in file.flushed..Len(file.text)}

PowerCut ==
    /\ faults.cuts < MaxCuts
    /\ faults' = [faults EXCEPT !.cuts = @ + 1]
    /\ doing' = [c \in Sessions |-> Idle]
    /\ out' = {}
    /\ \E left \in medium :
          /\ directory' = left
          /\ medium' = {left}
          /\ \E store \in IF left.store = NoFile THEN {<< >>} ELSE Remains(contents[left.store]) :
                contents' = [f \in Files |->
                            IF f = left.store THEN [text |-> store, flushed |-> Len(store)]
                            ELSE Emptied]
    /\ UNCHANGED <<minted, gone, overlapped>>

EnrolNext ==
    \/ \E c \in Sessions :
          \/ \E d \in Devices : EnrolBegins(c, d) \/ RevokeBegins(c, d)
          \/ EnrolOpens(c)
          \/ EnrolWrites(c)
          \/ RevokeReads(c)
          \/ RevokeTruncates(c)
          \/ RevokeRewrites(c)
          \/ RevokeFlushes(c)
          \/ RevokeRenames(c)
          \/ RevokeFlushesDirectory(c)
          \/ RevokeNamesNoDirectory(c)
          \/ Killed(c)
    \/ PowerCut

EnrolSpec == EnrolInit /\ [][EnrolNext]_enrolVars

-----------------------------------------------------------------------------
(* Properties. *)

(* Whatever two commands, a kill and a power cut make of the file, a server *)
(* that starts then accepts no secret but a whole one that was minted, and  *)
(* takes it for the name at the end of which it was written.  That name is  *)
(* the device's alone unless two revocations ever overlapped: they share a  *)
(* temporary, and the one that writes over the other's may join the end of  *)
(* an earlier line to it.  (parse_store, Secret::new, enrol, write_private) *)
OnlyWholeCredentials ==
    \A e \in Recognised : \E s \in DOMAIN minted :
        /\ e.secret = <<Secret(s)>>
        /\ Last(e.device) = Name(minted[s])
        /\ ~overlapped => e.device = <<Name(minted[s])>>

(* A device that was told to be revoked, by a command that met no other and *)
(* before any two revocations overlapped, stays out: no later command, be   *)
(* it killed or met, brings its secret back into the store, nor does a      *)
(* power cut once the directory was flushed, by this command or by a later  *)
(* one.  Where the path is a name alone none flushes it, and the device is  *)
(* out only until the power is cut.  (revoke: flush, rename, flush)         *)
RevokedStaysOut ==
    \A s \in gone \cup out : \A e \in Recognised : e.secret # <<Secret(s)>>

-----------------------------------------------------------------------------
(* A claim of the documentation that does not hold: revoking one device     *)
(* leaves every other working, even those whose enrolment had ended by the  *)
(* time the store was replaced.                                             *)
RevokingLeavesTheOthers ==
    [][\A c \in Sessions :
          RevokeRenames(c) /\ Others(c) = {} =>
              \A e \in Recognised : e.device # <<Name(doing[c].device)>> => e \in Recognised'
      ]_enrolVars
=============================================================================
