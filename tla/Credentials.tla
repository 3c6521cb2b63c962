----------------------------- MODULE Credentials -----------------------------
(***************************************************************************)
(* core/src/auth.rs, and how cli/src/enrol.rs reads the store: what a line  *)
(* of it is worth, and whom an offered secret authenticates.                *)
(*                                                                         *)
(* The store is a sequence of the pieces it is written in.  Names are of    *)
(* one length and so are secrets, so that pieces lie where bytes would; a   *)
(* half is what a power cut leaves of a secret.                             *)
(***************************************************************************)
EXTENDS Refusals, SequencesExt, Naturals

Name(d)   == [is |-> "name", of |-> d]
Secret(s) == [is |-> "secret", of |-> s]
Half(s)   == [is |-> "half", of |-> s]
Gap       == [is |-> "gap"]
End       == [is |-> "end"]
Hash      == [is |-> "hash"]                \* what a comment begins with

SecretFlaws == <<"length", "character">>
DeviceFlaws == <<"empty", "too long", "control", "whitespace">>

(* Secret::new and DeviceName::new *)
NewSecret(flaws) == FirstFlaw(SecretFlaws, flaws)
NewDevice(flaws) == FirstFlaw(DeviceFlaws, flaws)

-----------------------------------------------------------------------------
(* The store: its lines by where they begin, and their words likewise.  A   *)
(* line holds the End it was ended with, if it was.                         *)
LineStarts(text) == {i \in DOMAIN text : i > 1 => text[i - 1] = End}

LineAt(text, i) == {j \in i..Len(text) : \A k \in i..(j - 1) : text[k] # End}

WordStarts(text, i) ==
    {j \in LineAt(text, i) : text[j] \notin {Gap, End} /\ (j > i => text[j - 1] = Gap)}

WordAt(text, j) ==
    LET pieces == {k \in j..Len(text) : \A l \in j..k : text[l] \notin {Gap, End}}
    IN  SubSeq(text, j, Max(pieces))

FirstWord(text, i) == WordAt(text, Min(WordStarts(text, i)))
LastWord(text, i)  == WordAt(text, Max(WordStarts(text, i)))

IsBlank(text, i)   == WordStarts(text, i) = {}
IsComment(text, i) == ~IsBlank(text, i) /\ Head(FirstWord(text, i)) = Hash

(* Where the lines are that must be a device and its secret. *)
EntryStarts(text) == {i \in LineStarts(text) : ~IsBlank(text, i) /\ ~IsComment(text, i)}

Empty == [entries |-> << >>, why |-> Sound]

(* Mutant of AsSecret: any word will do. *)
AsSecretAny(word) == NewSecret({})

(* A word is a secret if it has the length of one. *)
AsSecret(word) ==
    NewSecret(IF Len(word) = 1 /\ word[1].is = "secret" THEN {} ELSE {"length"})

HasTwoFields(text, i) ==
    \E j, k \in WordStarts(text, i) : j # k /\ WordStarts(text, i) = {j, k}

LineFlaw(text, i) ==
    IF ~HasTwoFields(text, i) THEN "not two fields"
    ELSE IF AsSecret(LastWord(text, i)) # Sound THEN "secret"
    ELSE IF \E j \in EntryStarts(text) : j < i /\ FirstWord(text, j) = FirstWord(text, i)
         THEN "duplicate" ELSE Sound

(* parse_store: the first line that is refused refuses all of it. *)
ParseStore(text) ==
    LET refused == {i \in EntryStarts(text) : LineFlaw(text, i) # Sound}
    IN  IF refused # {} THEN [Empty EXCEPT !.why = LineFlaw(text, Min(refused))]
        ELSE [Empty EXCEPT !.entries =
                [i \in EntryStarts(text) |->
                    [device |-> FirstWord(text, i), secret |-> LastWord(text, i)]]]

(* readable_by_others: a digit of the mode that is not the owner's. *)
ReadableByOthers(mode) == mode.group # 0 \/ mode.other # 0

(* load: a store that is not there is an empty one, which lets nobody in.   *)
Load(there, mode, text) ==
    IF ~there THEN Empty
    ELSE IF ReadableByOthers(mode) THEN [Empty EXCEPT !.why = "readable by others"]
    ELSE ParseStore(text)

-----------------------------------------------------------------------------
(* Who somebody is. *)

Unrecognised(why) == [is |-> "refused", why |-> why]

(* verify: all of the store is looked at, and the last that fits counts;    *)
(* nobody enrolled is nobody let in.                                        *)
Verify(entries, offered) ==
    LET fitting == {i \in DOMAIN entries : {entries[i].secret} = offered}
    IN  CASE offered = {} -> Unrecognised("none offered")
          [] offered # {} /\ entries = << >> -> Unrecognised("store empty")
          [] OTHER -> IF fitting = {} THEN Unrecognised("not recognised")
                      ELSE [is |-> "authenticated", device |-> entries[Max(fitting)].device]

IsAuthenticated(verdict) == verdict.is = "authenticated"

(* What revoke keeps of a store: every line but the device's own, each with *)
(* an End.                                                                  *)
IsOwn(text, i, d) == ~IsBlank(text, i) /\ FirstWord(text, i) = <<Name(d)>>

Owns(text, d) == \E i \in LineStarts(text) : IsOwn(text, i, d)

(* The pieces that lie at some places, in their order. *)
Only(text, places) ==
    [n \in 1..Cardinality(places) |->
        text[CHOOSE j \in places : Cardinality({k \in places : k <= j}) = n]]

Ended(text) == IF text = << >> \/ Last(text) = End THEN text ELSE Append(text, End)

Kept(text, d) ==
    Ended(Only(text, DOMAIN text \ UNION {LineAt(text, i) : i \in {i \in LineStarts(text) : IsOwn(text, i, d)}}))
=============================================================================
