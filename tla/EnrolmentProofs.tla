---------------------------- MODULE EnrolmentProofs ----------------------------
(***************************************************************************)
(* Theorems of Enrolment, for every number of commands, devices, secrets,   *)
(* kills and power cuts: a server that starts accepts nothing but whole     *)
(* secrets, each under the name it was written with, and a secret that a    *)
(* revocation took out stays out, or does until a power cut where the       *)
(* directory of the store was not flushed.                                  *)
(*                                                                         *)
(* The argument is about texts: which pieces may lie beside one another,    *)
(* what appending, writing over, cutting and keeping lines make of that,    *)
(* and what a reader makes of a text that is so.                            *)
(***************************************************************************)
EXTENDS Enrolment, FiniteSetTheorems, SequenceTheorems,
        WellFoundedInduction, TLAPS

Pieces == {Gap, End, Hash} \cup {Name(d) : d \in Devices}
              \cup {Secret(s) : s \in 1..MaxMints} \cup {Half(s) : s \in 1..MaxMints}

Texts == Seq(Pieces)

-----------------------------------------------------------------------------
(* What a text is worth. *)

(* No line ends between two places. *)
SameLine(text, j, i) == \A k \in j..(i - 1) : text[k] # End

NoWordBefore(text, i) == \A j \in 1..(i - 1) : SameLine(text, j, i) => text[j] = Gap

(* Where the next piece will follow a device's name, or its name and a gap; *)
(* or where a revocation wrote over what lay before it.                     *)
AfterName(text, d, overlapping) ==
    \/ Len(text) > 0 /\ text[Len(text)] = Name(d)
    \/ overlapping /\ NoWordBefore(text, Len(text) + 1)

AfterGap(text, d, overlapping) ==
    \/ Len(text) > 1 /\ text[Len(text)] = Gap /\ text[Len(text) - 1] = Name(d)
    \/ overlapping /\ NoWordBefore(text, Len(text) + 1)

(* A secret follows the name of whose it is.                                *)
SecretIsNamed(text, i, owners, overlapping) ==
    \A s \in 1..MaxMints :
        text[i] = Secret(s) =>
            /\ s \in DOMAIN owners
            /\ \/ i > 2 /\ text[i - 1] = Gap /\ text[i - 2] = Name(owners[s])
               \/ overlapping /\ NoWordBefore(text, i)

(* A name begins its line, or comes too late in it to be a device.          *)
NameComesFirst(text, i) ==
    \A d \in Devices :
        text[i] = Name(d) =>
            \/ i \in LineStarts(text)
            \/ \E j \in 1..(i - 1) : text[j] = Gap /\ SameLine(text, j, i)

GapFollowsName(text, i) ==
    text[i] = Gap => i > 1 /\ \E d \in Devices : text[i - 1] = Name(d)

IsInPlace(text, i, owners, overlapping) ==
    /\ SecretIsNamed(text, i, owners, overlapping)
    /\ ~overlapping => NameComesFirst(text, i) /\ GapFollowsName(text, i)

CommentIsWhole(text, i) ==
    text[i] = Hash => i \in LineStarts(text) /\ i < Len(text) /\ text[i + 1] = End

Orderly(text, owners, overlapping) ==
    \A i \in DOMAIN text :
        /\ IsInPlace(text, i, owners, overlapping)
        /\ ~overlapping => CommentIsWhole(text, i)

(* Where a name may be appended. *)
Ready(text, overlapping) ==
    \/ overlapping
    \/ text = << >>
    \/ text[Len(text)] = End
    \/ \E j \in DOMAIN text : text[j] = Gap /\ SameLine(text, j, Len(text) + 1)

IsEnded(text) == text = << >> \/ text[Len(text)] = End

Lacks(text, s) == \A i \in DOMAIN text : text[i] # Secret(s)

-----------------------------------------------------------------------------
(* Places. *)

(* The first and the last of several places in a text.                      *)
LEMMA FirstPlace ==
    ASSUME NEW S \in SUBSET Nat, S # {}
    PROVE  Min(S) \in S /\ \A i \in S : Min(S) <= i
<1> DEFINE R == {ss \in Nat \X Nat : ss[1] < ss[2]}
<1>1. IsWellFoundedOn(R, Nat)
  BY NatLessThanWellFounded DEF OpToRel
<1> HIDE DEF R
<1>2. PICK x \in S : \A y \in S : ~(<<y, x>> \in R)
  BY <1>1, WFMin
<1>3. \A y \in S : x <= y
  <2> SUFFICES ASSUME NEW y \in S PROVE x <= y
    OBVIOUS
  <2>1. ~(y < x)
    BY <1>2 DEF R
  <2> QED BY <2>1
<1> QED BY <1>3 DEF Min

(* The largest of some places up to `n` is one of them, and bounds them. *)
LEMMA LastPlace ==
    ASSUME NEW n \in Nat, NEW S \in SUBSET (1..n), S # {}
    PROVE  Max(S) \in S /\ \A i \in S : i <= Max(S)
<1> DEFINE Mirrored == {m \in 1..n : (n + 1) - m \in S}
<1>1. Mirrored \in SUBSET Nat /\ Mirrored # {}
  <2>1. PICK i \in S : TRUE
    OBVIOUS
  <2>2. (n + 1) - i \in 1..n /\ (n + 1) - ((n + 1) - i) = i
    OBVIOUS
  <2>3. (n + 1) - i \in Mirrored
    BY <2>2
  <2>4. Mirrored \in SUBSET Nat
    OBVIOUS
  <2> HIDE DEF Mirrored
  <2> QED BY <2>3, <2>4
<1>2. Min(Mirrored) \in Mirrored /\ \A m \in Mirrored : Min(Mirrored) <= m
  <2> HIDE DEF Mirrored
  <2> QED BY <1>1, FirstPlace
<1> DEFINE x == (n + 1) - Min(Mirrored)
<1>3. x \in S
  BY <1>2
<1>4. ASSUME NEW i \in S PROVE i <= x
  <2>1. (n + 1) - i \in Mirrored
    BY (n + 1) - i \in 1..n /\ (n + 1) - ((n + 1) - i) = i
  <2>2. Min(Mirrored) <= (n + 1) - i /\ Min(Mirrored) \in 1..n
    BY <1>2, <2>1
  <2> HIDE DEF Mirrored
  <2> QED BY <2>2
<1> HIDE DEF x
<1>5. \E z \in S : \A i \in S : z >= i
  BY <1>3, <1>4
<1> QED BY <1>5 DEF Max

(* The kinds of pieces are apart.                                           *)
LEMMA PiecesApart ==
    /\ Gap # End /\ Gap # Hash /\ End # Hash
    /\ \A d, e : Name(d) = Name(e) => d = e
    /\ \A s, t : Secret(s) = Secret(t) => s = t
    /\ \A d : Name(d) \notin {Gap, End, Hash}
    /\ \A s : Secret(s) \notin {Gap, End, Hash} /\ Half(s) \notin {Gap, End, Hash}
    /\ \A d, s : Name(d) # Secret(s) /\ Name(d) # Half(s)
    /\ \A s, t : Secret(s) # Half(t)
  BY DEF Gap, End, Hash, Name, Secret, Half

(* Of the pieces, those that say they are secrets are.                      *)
LEMMA SecretsSaySo ==
    ASSUME NEW p \in Pieces, p.is = "secret"
    PROVE  \E s \in 1..MaxMints : p = Secret(s) /\ p.of = s
  BY DEF Pieces, Gap, End, Hash, Name, Secret, Half

-----------------------------------------------------------------------------
(* Lines and words. *)

(* Every place lies in a line.                                              *)
LEMMA LineOfPlace ==
    ASSUME NEW text \in Texts, NEW j \in DOMAIN text
    PROVE  \E i \in LineStarts(text) : i <= j /\ j \in LineAt(text, i) /\ SameLine(text, i, j)
<1> DEFINE S == {i \in 1..j : SameLine(text, i, j)}
<1>1. S \in SUBSET Nat /\ j \in S
  BY DEF Texts, SameLine
<1>2. Min(S) \in S /\ \A i \in S : Min(S) <= i
  BY <1>1, FirstPlace
<1>0. j \in Nat /\ j >= 1 /\ j <= Len(text) /\ Len(text) \in Nat
  BY DEF Texts
<1> DEFINE i == Min(S)
<1>3. i \in 1..j /\ SameLine(text, i, j)
  BY <1>2
<1> HIDE DEF i
<1>4. ASSUME i > 1, text[i - 1] # End PROVE FALSE
  <2>1. i - 1 \in 1..j
    BY <1>0, <1>3, <1>4
  <2>2. SameLine(text, i - 1, j)
    BY <1>0, <1>3, <1>4 DEF SameLine
  <2>3. i - 1 \in S
    BY <2>1, <2>2
  <2> QED BY <1>0, <1>2, <1>3, <2>3 DEF i
<1> HIDE DEF S
<1>5. i \in LineStarts(text)
  BY <1>3, <1>4 DEF LineStarts, Texts
<1>6. j \in LineAt(text, i)
  BY <1>3 DEF LineAt, SameLine, Texts
<1> QED BY <1>3, <1>5, <1>6

(* Every piece of a word belongs to one that begins in its line.            *)
LEMMA WordOfPlace ==
    ASSUME NEW text \in Texts, NEW i \in LineStarts(text), NEW j \in LineAt(text, i),
           text[j] \notin {Gap, End}
    PROVE  \E k \in WordStarts(text, i) :
              k <= j /\ \A l \in k..j : text[l] \notin {Gap, End}
<1> DEFINE S == {k \in i..j : \A l \in k..j : text[l] \notin {Gap, End}}
<1>0. i \in Nat /\ j \in Nat /\ i <= j /\ j <= Len(text) /\ i >= 1 /\ Len(text) \in Nat
  BY DEF LineStarts, LineAt, Texts
<1>1. S \in SUBSET Nat /\ j \in S
  BY <1>0
<1>2. Min(S) \in S /\ \A k \in S : Min(S) <= k
  BY <1>1, FirstPlace
<1> DEFINE k == Min(S)
<1>3. k \in i..j /\ \A l \in k..j : text[l] \notin {Gap, End}
  BY <1>2
<1>4. ASSUME k > i, text[k - 1] # Gap PROVE FALSE
  <2>1. k - 1 \in i..j
    BY <1>0, <1>3, <1>4
  <2>2. text[k - 1] # End
    <3>1. k - 1 \in i..(j - 1)
      BY <1>0, <1>3, <1>4
    <3> QED BY <3>1 DEF LineAt
  <2>3. \A l \in (k - 1)..j : text[l] \notin {Gap, End}
    BY <1>0, <1>3, <1>4, <2>1, <2>2
  <2>4. k - 1 \in S
    BY <2>1, <2>3
  <2> QED BY <1>0, <1>2, <1>3, <2>4
<1> HIDE DEF k, S
<1>5. k \in LineAt(text, i)
  BY <1>0, <1>3 DEF LineAt
<1>6. text[k] \notin {Gap, End}
  BY <1>0, <1>3
<1>7. k \in WordStarts(text, i)
  BY <1>0, <1>3, <1>4, <1>5, <1>6 DEF WordStarts
<1> QED BY <1>0, <1>3, <1>7

(* A word reaches from where it begins to the next gap or end.              *)
LEMMA WordReaches ==
    ASSUME NEW text \in Texts, NEW j \in DOMAIN text, text[j] \notin {Gap, End}
    PROVE  \E e \in j..Len(text) :
              /\ WordAt(text, j) = SubSeq(text, j, e)
              /\ \A l \in j..e : text[l] \notin {Gap, End}
              /\ \A f \in j..Len(text) : (\A l \in j..f : text[l] \notin {Gap, End}) => f <= e
<1> DEFINE S == {k \in j..Len(text) : \A l \in j..k : text[l] \notin {Gap, End}}
<1>0. j \in Nat /\ j >= 1 /\ j <= Len(text) /\ Len(text) \in Nat
  BY DEF Texts
<1>1. S \in SUBSET (1..Len(text)) /\ j \in S
  BY <1>0
<1>2. Max(S) \in S /\ \A k \in S : k <= Max(S)
  BY <1>0, <1>1, LastPlace
<1>3. WordAt(text, j) = SubSeq(text, j, Max(S))
  BY DEF WordAt
<1> QED BY <1>2, <1>3

(* A piece by itself.                                                       *)
LEMMA OnePiece ==
    ASSUME NEW text \in Texts, NEW k \in 1..Len(text)
    PROVE  SubSeq(text, k, k) = <<text[k]>>
<1>1. /\ Len(SubSeq(text, k, k)) = 1
      /\ SubSeq(text, k, k)[1] = text[k]
      /\ SubSeq(text, k, k) \in Texts
  BY DEF Texts
<1>2. <<text[k]>> \in Texts /\ Len(<<text[k]>>) = 1 /\ <<text[k]>>[1] = text[k]
  BY DEF Texts
<1> HIDE DEF Texts
<1>3. \A n \in 1..1 : SubSeq(text, k, k)[n] = <<text[k]>>[n]
  BY <1>1, <1>2
<1> QED BY <1>1, <1>2, <1>3, SeqEqual DEF Texts

(* What is taken for a secret is one piece that says it is one.             *)
LEMMA OnlySecretsPass ==
    ASSUME NEW word, AsSecret(word) = Sound
    PROVE  Len(word) = 1 /\ word[1].is = "secret"
<1> SUFFICES ASSUME ~(Len(word) = 1 /\ word[1].is = "secret") PROVE FALSE
  OBVIOUS
<1>1. FirstFlaw(SecretFlaws, {"length"}) = Sound
  BY DEF AsSecret, NewSecret
<1> DEFINE found == {i \in DOMAIN SecretFlaws : SecretFlaws[i] \in {"length"}}
<1>2. found = {1}
  BY DEF SecretFlaws
<1>3. Min({1}) = 1
  BY FirstPlace
<1>4. FirstFlaw(SecretFlaws, {"length"}) = "length"
  BY <1>2, <1>3 DEF FirstFlaw, SecretFlaws
<1> QED BY <1>1, <1>4 DEF Sound

(* A store that is accepted has two fields in every line that counts, the   *)
(* second a secret, and these are what it enrols.                           *)
LEMMA AcceptedStore ==
    ASSUME NEW text \in Texts, ParseStore(text).why = Sound
    PROVE  /\ \A i \in EntryStarts(text) :
                 HasTwoFields(text, i) /\ AsSecret(LastWord(text, i)) = Sound
           /\ ParseStore(text).entries =
                 [i \in EntryStarts(text) |->
                    [device |-> FirstWord(text, i), secret |-> LastWord(text, i)]]
<1> DEFINE refused == {i \in EntryStarts(text) : LineFlaw(text, i) # Sound}
<1>1. refused = {}
  <2> SUFFICES ASSUME refused # {} PROVE FALSE
    OBVIOUS
  <2>1. refused \in SUBSET Nat
    BY DEF EntryStarts, LineStarts, Texts
  <2>2. Min(refused) \in refused
    <3> HIDE DEF refused
    <3> QED BY <2>1, FirstPlace
  <2>3. ParseStore(text).why = LineFlaw(text, Min(refused))
    BY DEF ParseStore, Empty
  <2> QED BY <2>2, <2>3
<1>2. ASSUME NEW i \in EntryStarts(text)
      PROVE  HasTwoFields(text, i) /\ AsSecret(LastWord(text, i)) = Sound
  BY <1>1 DEF LineFlaw, Sound
<1>3. ParseStore(text).entries =
         [i \in EntryStarts(text) |->
            [device |-> FirstWord(text, i), secret |-> LastWord(text, i)]]
  BY <1>1 DEF ParseStore, Empty
<1> QED BY <1>2, <1>3

(* The two fields of a line, from left to right.                            *)
LEMMA TwoFields ==
    ASSUME NEW text \in Texts, NEW i \in DOMAIN text, HasTwoFields(text, i)
    PROVE  \E j, k \in WordStarts(text, i) :
              /\ j < k
              /\ WordStarts(text, i) = {j, k}
              /\ FirstWord(text, i) = WordAt(text, j)
              /\ LastWord(text, i) = WordAt(text, k)
<1>1. WordStarts(text, i) \in SUBSET (1..Len(text)) /\ Len(text) \in Nat /\ i \in Nat
  BY DEF WordStarts, LineAt, Texts
<1>2. PICK a, b \in WordStarts(text, i) : a # b /\ WordStarts(text, i) = {a, b}
  BY DEF HasTwoFields
<1>3. \E j, k \in WordStarts(text, i) : j < k /\ WordStarts(text, i) = {j, k}
  <2>1. CASE a < b BY <1>2, <2>1
  <2>2. CASE ~(a < b)
    <3>1. b < a /\ WordStarts(text, i) = {b, a} BY <1>1, <1>2, <2>2
    <3> QED BY <3>1
  <2> QED BY <2>1, <2>2
<1>4. PICK j, k \in WordStarts(text, i) : j < k /\ WordStarts(text, i) = {j, k}
  BY <1>3
<1> DEFINE W == WordStarts(text, i)
<1>a. /\ W \in SUBSET Nat /\ W \in SUBSET (1..Len(text)) /\ W # {} /\ W = {j, k}
      /\ j \in Nat /\ k \in Nat
  BY <1>1, <1>4
<1> HIDE DEF W
<1>5. Min(W) = j
  <2>1. Min(W) \in W /\ \A x \in W : Min(W) <= x
    BY <1>a, FirstPlace
  <2> QED BY <1>4, <1>a, <2>1
<1>6. Max(W) = k
  <2>1. Max(W) \in W /\ \A x \in W : x <= Max(W)
    BY <1>1, <1>a, LastPlace
  <2> QED BY <1>4, <1>a, <2>1
<1> QED BY <1>4, <1>5, <1>6 DEF FirstWord, LastWord, W

(* In an orderly text, a line of two fields of which the second is a secret *)
(* is a whole credential: the secret stands alone, after the name of whose  *)
(* it is, and that name is all of the device unless revocations overlapped. *)
LEMMA CredentialIsWhole ==
    ASSUME NEW text \in Texts, NEW owners \in Seq(Devices), NEW overlapping \in BOOLEAN,
           Orderly(text, owners, overlapping),
           NEW i \in EntryStarts(text), HasTwoFields(text, i),
           AsSecret(LastWord(text, i)) = Sound
    PROVE  \E s \in DOMAIN owners, k \in WordStarts(text, i) :
              /\ s \in 1..MaxMints
              /\ text[k] = Secret(s)
              /\ \A l \in WordStarts(text, i) : l <= k
              /\ LastWord(text, i) = <<Secret(s)>>
              /\ Last(FirstWord(text, i)) = Name(owners[s])
              /\ ~overlapping => FirstWord(text, i) = <<Name(owners[s])>>
<1>0. i \in LineStarts(text) /\ i \in DOMAIN text /\ i \in 1..Len(text) /\ Len(text) \in Nat
  BY DEF EntryStarts, LineStarts, Texts
<1>1. PICK j, k \in WordStarts(text, i) :
         /\ j < k
         /\ WordStarts(text, i) = {j, k}
         /\ FirstWord(text, i) = WordAt(text, j)
         /\ LastWord(text, i) = WordAt(text, k)
  BY <1>0, TwoFields
<1>2. /\ j \in i..Len(text) /\ k \in i..Len(text)
      /\ text[j] \notin {Gap, End} /\ text[k] \notin {Gap, End}
      /\ text[k - 1] = Gap
      /\ \A l \in i..(k - 1) : text[l] # End
  BY <1>0, <1>1 DEF WordStarts, LineAt
<1>a. j \in DOMAIN text /\ k \in DOMAIN text
  BY <1>0, <1>2 DEF Texts
<1>3. PICK e \in k..Len(text) : WordAt(text, k) = SubSeq(text, k, e)
  BY <1>2, <1>a, WordReaches
<1>4. Len(WordAt(text, k)) = 1 /\ WordAt(text, k)[1].is = "secret"
  BY <1>1, OnlySecretsPass
<1>5. e = k /\ WordAt(text, k) = <<text[k]>>
  <2>1. Len(SubSeq(text, k, e)) = (e - k) + 1
    BY <1>0, <1>2, <1>3 DEF Texts
  <2>2. e = k
    BY <1>0, <1>2, <1>3, <1>4, <2>1
  <2>3. SubSeq(text, k, k) = <<text[k]>>
    BY <1>0, <1>2, OnePiece
  <2> QED BY <1>3, <2>2, <2>3
<1>6. text[k] \in Pieces /\ text[k].is = "secret"
  BY <1>0, <1>2, <1>4, <1>5 DEF Texts
<1>7. PICK s \in 1..MaxMints : text[k] = Secret(s)
  BY <1>6, SecretsSaySo
<1>8. /\ s \in DOMAIN owners
      /\ \/ k > 2 /\ text[k - 2] = Name(owners[s])
         \/ overlapping /\ NoWordBefore(text, k)
  BY <1>2, <1>7, <1>a DEF Orderly, IsInPlace, SecretIsNamed
<1>9. ~NoWordBefore(text, k)
  <2>1. j \in 1..(k - 1) /\ SameLine(text, j, k)
    BY <1>0, <1>1, <1>2 DEF SameLine
  <2> QED BY <1>2, <2>1 DEF NoWordBefore
<1>10. k > 2 /\ text[k - 2] = Name(owners[s]) /\ j <= k - 2 /\ k - 2 \in i..Len(text)
  BY <1>0, <1>1, <1>2, <1>8, <1>9
<1>11. text[k - 2] \notin {Gap, End}
  BY <1>10, PiecesApart
<1>12. ASSUME NEW p \in i..(k - 1), text[p] # Gap
       PROVE  j <= p /\ \A l \in j..p : text[l] \notin {Gap, End}
  <2>1. p \in LineAt(text, i) /\ text[p] \notin {Gap, End}
    BY <1>0, <1>2, <1>12 DEF LineAt
  <2>2. PICK w \in WordStarts(text, i) : w <= p /\ \A l \in w..p : text[l] \notin {Gap, End}
    BY <1>0, <2>1, WordOfPlace
  <2>3. w = j
    BY <1>0, <1>1, <1>2, <2>2
  <2> QED BY <2>2, <2>3
<1>13. \A l \in j..(k - 2) : text[l] \notin {Gap, End}
  BY <1>0, <1>2, <1>10, <1>11, <1>12
<1>14. PICK f \in j..Len(text) :
          /\ WordAt(text, j) = SubSeq(text, j, f)
          /\ \A l \in j..f : text[l] \notin {Gap, End}
          /\ \A g \in j..Len(text) : (\A l \in j..g : text[l] \notin {Gap, End}) => g <= f
  BY <1>2, <1>a, WordReaches
<1>15. f = k - 2
  <2>1. k - 2 <= f
    <3>1. k - 2 \in j..Len(text)
      BY <1>0, <1>2, <1>10
    <3> QED BY <1>13, <1>14, <3>1
  <2>2. ~(k - 1 <= f)
    BY <1>0, <1>1, <1>2, <1>14
  <2> QED BY <1>0, <1>2, <1>14, <2>1, <2>2
<1>16. Last(WordAt(text, j)) = Name(owners[s])
  <2>1. /\ Len(SubSeq(text, j, k - 2)) = ((k - 2) - j) + 1
        /\ SubSeq(text, j, k - 2)[((k - 2) - j) + 1] = text[k - 2]
    BY <1>0, <1>2, <1>10 DEF Texts
  <2> QED BY <1>10, <1>14, <1>15, <2>1 DEF Last
<1>17. ASSUME ~overlapping PROVE j = k - 2
  <2>0. k - 2 \in DOMAIN text
    BY <1>0, <1>10 DEF Texts
  <2>1. owners[s] \in Devices
    BY <1>8
  <2>2. \/ k - 2 \in LineStarts(text)
        \/ \E m \in 1..((k - 2) - 1) : text[m] = Gap /\ SameLine(text, m, k - 2)
    BY <1>0, <1>10, <1>17, <2>0, <2>1 DEF Orderly, IsInPlace, NameComesFirst
  <2>3. CASE k - 2 \in LineStarts(text)
    <3>1. k - 2 > i => text[k - 3] = End /\ k - 3 \in i..(k - 1)
      BY <1>0, <1>2, <1>10, <2>3 DEF LineStarts
    <3>2. k - 2 = i
      BY <1>0, <1>2, <1>10, <3>1
    <3> QED BY <1>0, <1>2, <1>10, <3>2
  <2>4. CASE \E m \in 1..((k - 2) - 1) : text[m] = Gap /\ SameLine(text, m, k - 2)
    <3>1. PICK m \in 1..((k - 2) - 1) : text[m] = Gap /\ SameLine(text, m, k - 2)
      BY <2>4
    <3>2. m \in DOMAIN text /\ m >= i
      <4>1. m \in DOMAIN text
        BY <1>0, <1>2, <1>10, <3>1 DEF Texts
      <4>2. m < i => text[i - 1] = End /\ i - 1 \in m..((k - 2) - 1)
        BY <1>0, <1>2, <1>10, <3>1 DEF LineStarts
      <4> QED BY <1>0, <3>1, <4>1, <4>2 DEF SameLine
    <3>3. m > 1 /\ \E d \in Devices : text[m - 1] = Name(d)
      BY <1>17, <3>1, <3>2 DEF Orderly, IsInPlace, GapFollowsName
    <3>4. text[m - 1] \notin {Gap, End}
      BY <3>3, PiecesApart
    <3>5. m - 1 >= i
      BY <1>0, <3>1, <3>2, <3>3, <3>4 DEF LineStarts
    <3>6. m - 1 \in i..(k - 1) /\ m \in i..(k - 1)
      BY <1>0, <1>2, <3>1, <3>2, <3>5
    <3>7. j <= m - 1
      BY <1>12, <3>4, <3>6
    <3>8. m \in j..(k - 2)
      BY <1>0, <1>2, <3>1, <3>2, <3>7
    <3> QED BY <1>13, <3>1, <3>8
  <2> QED BY <2>2, <2>3, <2>4
<1>18. ~overlapping => WordAt(text, j) = <<Name(owners[s])>>
  <2>1. SubSeq(text, k - 2, k - 2) = <<text[k - 2]>>
    BY <1>0, <1>10, OnePiece
  <2> QED BY <1>10, <1>14, <1>15, <1>17, <2>1
<1>19. \A l \in WordStarts(text, i) : l <= k
  BY <1>0, <1>1, <1>2
<1> QED BY <1>1, <1>5, <1>7, <1>8, <1>16, <1>18, <1>19

-----------------------------------------------------------------------------
(* What is done to texts. *)

(* Whether a piece is in place depends on what lies before it alone.        *)
LEMMA SameBeginning ==
    ASSUME NEW text \in Texts, NEW other \in Texts, NEW i \in DOMAIN text, i \in DOMAIN other,
           \A k \in 1..i : other[k] = text[k],
           NEW owners, NEW overlapping \in BOOLEAN,
           IsInPlace(text, i, owners, overlapping)
    PROVE  IsInPlace(other, i, owners, overlapping)
<1>0. i \in Nat /\ i >= 1 /\ i <= Len(text) /\ i <= Len(other)
  BY DEF Texts
<1>1. \A j \in 1..i : SameLine(other, j, i) <=> SameLine(text, j, i)
  <2> SUFFICES ASSUME NEW j \in 1..i PROVE SameLine(other, j, i) <=> SameLine(text, j, i)
    OBVIOUS
  <2>1. \A k \in j..(i - 1) : other[k] = text[k]
    BY <1>0
  <2> QED BY <2>1 DEF SameLine
<1>2. NoWordBefore(text, i) => NoWordBefore(other, i)
  <2>1. \A j \in 1..(i - 1) : j \in 1..i
    BY <1>0
  <2> QED BY <1>1, <2>1 DEF NoWordBefore
<1>3. /\ other[i] = text[i]
      /\ i > 1 => other[i - 1] = text[i - 1]
      /\ i > 2 => other[i - 2] = text[i - 2]
  BY <1>0
<1>4. SecretIsNamed(other, i, owners, overlapping)
  <2> SUFFICES ASSUME NEW s \in 1..MaxMints, other[i] = Secret(s)
               PROVE  /\ s \in DOMAIN owners
                      /\ \/ i > 2 /\ other[i - 1] = Gap /\ other[i - 2] = Name(owners[s])
                         \/ overlapping /\ NoWordBefore(other, i)
    BY DEF SecretIsNamed
  <2>1. /\ s \in DOMAIN owners
        /\ \/ i > 2 /\ text[i - 1] = Gap /\ text[i - 2] = Name(owners[s])
           \/ overlapping /\ NoWordBefore(text, i)
    BY <1>3 DEF IsInPlace, SecretIsNamed
  <2>2. i > 2 => i > 1
    BY <1>0
  <2> QED BY <1>2, <1>3, <2>1, <2>2
<1>5. i \in LineStarts(text) => i \in LineStarts(other)
  BY <1>3 DEF LineStarts
<1>6. NameComesFirst(text, i) => NameComesFirst(other, i)
  <2>1. \A j \in 1..(i - 1) : j \in 1..i
    BY <1>0
  <2> QED BY <1>1, <1>3, <1>5, <2>1 DEF NameComesFirst
<1>7. GapFollowsName(text, i) => GapFollowsName(other, i)
  BY <1>3 DEF GapFollowsName
<1> QED BY <1>4, <1>6, <1>7 DEF IsInPlace

(* Appending a piece.                                                       *)
LEMMA AppendedText ==
    ASSUME NEW text \in Texts, NEW p \in Pieces
    PROVE  /\ Append(text, p) \in Texts
           /\ Len(text) \in Nat
           /\ Len(Append(text, p)) = Len(text) + 1
           /\ DOMAIN Append(text, p) = 1..(Len(text) + 1)
           /\ \A i \in 1..Len(text) : Append(text, p)[i] = text[i]
           /\ Append(text, p)[Len(text) + 1] = p
  BY DEF Texts

(* Appending a piece that is in its place, and is no comment, keeps a text
   orderly. *)
LEMMA AppendKeepsOrder ==
    ASSUME NEW text \in Texts, NEW owners, NEW overlapping \in BOOLEAN,
           Orderly(text, owners, overlapping),
           NEW p \in Pieces, p # Hash,
           IsInPlace(Append(text, p), Len(text) + 1, owners, overlapping)
    PROVE  Orderly(Append(text, p), owners, overlapping)
<1> DEFINE longer == Append(text, p)
           n == Len(text)
<1>1. /\ longer \in Texts /\ n \in Nat /\ Len(longer) = n + 1 /\ DOMAIN longer = 1..(n + 1)
      /\ \A i \in 1..n : longer[i] = text[i]
      /\ longer[n + 1] = p
      /\ DOMAIN text = 1..n
  BY AppendedText DEF Texts
<1>2. IsInPlace(longer, n + 1, owners, overlapping)
  OBVIOUS
<1> HIDE DEF longer, n
<1>3. ASSUME NEW i \in 1..n PROVE IsInPlace(longer, i, owners, overlapping)
  <2>1. i \in DOMAIN text /\ i \in DOMAIN longer /\ \A k \in 1..i : longer[k] = text[k]
    BY <1>1
  <2>2. IsInPlace(text, i, owners, overlapping)
    BY <2>1 DEF Orderly
  <2> QED BY <1>1, <2>1, <2>2, SameBeginning
<1>4. ASSUME ~overlapping, NEW i \in 1..(n + 1) PROVE CommentIsWhole(longer, i)
  <2>1. CASE i = n + 1
    BY <1>1, <2>1 DEF CommentIsWhole
  <2>2. CASE i # n + 1
    <3>1. i \in DOMAIN text /\ longer[i] = text[i] /\ (i > 1 => longer[i - 1] = text[i - 1])
      BY <1>1, <2>2
    <3>2. CommentIsWhole(text, i)
      BY <1>4, <3>1 DEF Orderly
    <3>3. i < Len(text) => longer[i + 1] = text[i + 1] /\ i < Len(longer)
      BY <1>1, <2>2 DEF n
    <3>4. i \in LineStarts(text) => i \in LineStarts(longer)
      BY <1>1, <3>1 DEF LineStarts
    <3> QED BY <3>1, <3>2, <3>3, <3>4 DEF CommentIsWhole
  <2> QED BY <2>1, <2>2
<1>5. \A i \in DOMAIN longer : i = n + 1 \/ i \in 1..n
  BY <1>1
<1>6. Orderly(longer, owners, overlapping)
  BY <1>1, <1>2, <1>3, <1>4, <1>5 DEF Orderly
<1> QED BY <1>6 DEF longer

(* The end of a line, and half a secret, are in place anywhere.             *)
LEMMA EndKeepsOrder ==
    ASSUME NEW text \in Texts, NEW owners, NEW overlapping \in BOOLEAN,
           Orderly(text, owners, overlapping),
           NEW p \in Pieces, p = End \/ \E s \in 1..MaxMints : p = Half(s)
    PROVE  Append(text, p) \in Texts /\ Orderly(Append(text, p), owners, overlapping)
<1>1. p # Hash /\ p # Gap /\ (\A d \in Devices : p # Name(d)) /\ \A s \in 1..MaxMints : p # Secret(s)
  BY PiecesApart
<1>2. Append(text, p)[Len(text) + 1] = p /\ Append(text, p) \in Texts
  BY AppendedText
<1>3. IsInPlace(Append(text, p), Len(text) + 1, owners, overlapping)
  BY <1>1, <1>2 DEF IsInPlace, SecretIsNamed, NameComesFirst, GapFollowsName
<1> QED BY <1>1, <1>2, <1>3, AppendKeepsOrder

(* The four pieces of a line, each where the one before left the text.      *)
LEMMA NameKeepsOrder ==
    ASSUME NEW text \in Texts, NEW owners, NEW overlapping \in BOOLEAN,
           Orderly(text, owners, overlapping),
           NEW d \in Devices, Ready(text, overlapping)
    PROVE  /\ Append(text, Name(d)) \in Texts
           /\ Orderly(Append(text, Name(d)), owners, overlapping)
           /\ AfterName(Append(text, Name(d)), d, overlapping)
<1> DEFINE p == Name(d)
           longer == Append(text, p)
           n == Len(text)
<1>0. p \in Pieces /\ p # Hash /\ p # Gap /\ (\A s \in 1..MaxMints : p # Secret(s))
  BY PiecesApart DEF Pieces
<1>1. /\ longer \in Texts /\ n \in Nat /\ Len(longer) = n + 1 /\ DOMAIN longer = 1..(n + 1)
      /\ \A i \in 1..n : longer[i] = text[i]
      /\ longer[n + 1] = p
      /\ DOMAIN text = 1..n
  BY <1>0, AppendedText DEF Texts
<1> HIDE DEF p, longer, n
<1>2. ~overlapping => NameComesFirst(longer, n + 1)
  <2> SUFFICES ASSUME ~overlapping
               PROVE  \/ n + 1 \in LineStarts(longer)
                      \/ \E j \in 1..n : longer[j] = Gap /\ SameLine(longer, j, n + 1)
    BY <1>1 DEF NameComesFirst
  <2>1. CASE text = << >> \/ text[n] = End
    <3>1. n > 0 => longer[(n + 1) - 1] = text[n]
      BY <1>1
    <3>2. text = << >> => n = 0
      BY DEF n
    <3> QED BY <1>1, <2>1, <3>1, <3>2 DEF LineStarts
  <2>2. CASE \E j \in DOMAIN text : text[j] = Gap /\ SameLine(text, j, n + 1)
    <3>1. PICK j \in 1..n : text[j] = Gap /\ SameLine(text, j, n + 1)
      BY <1>1, <2>2
    <3>2. \A k \in j..((n + 1) - 1) : longer[k] = text[k]
      BY <1>1
    <3>3. longer[j] = Gap /\ SameLine(longer, j, n + 1)
      BY <1>1, <3>1, <3>2 DEF SameLine
    <3> QED BY <3>3
  <2> QED BY <2>1, <2>2 DEF Ready, n
<1>3. IsInPlace(longer, n + 1, owners, overlapping)
  BY <1>0, <1>1, <1>2 DEF IsInPlace, SecretIsNamed, GapFollowsName
<1>4. Orderly(longer, owners, overlapping)
  BY <1>0, <1>3, AppendKeepsOrder DEF longer, n
<1>5. AfterName(longer, d, overlapping)
  BY <1>1 DEF AfterName, p
<1> QED BY <1>1, <1>4, <1>5 DEF p, longer

(* A gap may follow a device's name, and the device's secret may then come. *)
LEMMA GapKeepsOrder ==
    ASSUME NEW text \in Texts, NEW owners, NEW overlapping \in BOOLEAN,
           Orderly(text, owners, overlapping),
           NEW d \in Devices, AfterName(text, d, overlapping)
    PROVE  /\ Append(text, Gap) \in Texts
           /\ Orderly(Append(text, Gap), owners, overlapping)
           /\ AfterGap(Append(text, Gap), d, overlapping)
<1> DEFINE longer == Append(text, Gap)
           n == Len(text)
<1>0. Gap \in Pieces /\ Gap # Hash /\ (\A s \in 1..MaxMints : Gap # Secret(s))
      /\ \A e \in Devices : Gap # Name(e)
  BY PiecesApart DEF Pieces
<1>1. /\ longer \in Texts /\ n \in Nat /\ Len(longer) = n + 1 /\ DOMAIN longer = 1..(n + 1)
      /\ \A i \in 1..n : longer[i] = text[i]
      /\ longer[n + 1] = Gap
      /\ DOMAIN text = 1..n
  BY <1>0, AppendedText DEF Texts
<1>2. \/ n > 0 /\ text[n] = Name(d)
      \/ overlapping /\ NoWordBefore(text, n + 1)
  BY DEF AfterName
<1>a. Append(text, Gap) = longer /\ Len(text) = n
  OBVIOUS
<1> HIDE DEF longer, n
<1>3. ~overlapping => GapFollowsName(longer, n + 1)
  BY <1>1, <1>2 DEF GapFollowsName
<1>4. IsInPlace(longer, n + 1, owners, overlapping)
  BY <1>0, <1>1, <1>3 DEF IsInPlace, SecretIsNamed, NameComesFirst
<1>5. Orderly(longer, owners, overlapping)
  BY <1>0, <1>4, <1>a, AppendKeepsOrder
<1>6. NoWordBefore(text, n + 1) => NoWordBefore(longer, n + 2)
  <2> SUFFICES ASSUME NoWordBefore(text, n + 1), NEW j \in 1..(n + 1), SameLine(longer, j, n + 2)
               PROVE  longer[j] = Gap
    BY <1>1 DEF NoWordBefore
  <2>1. CASE j = n + 1
    BY <1>1, <2>1
  <2>2. CASE j # n + 1
    <3>1. j \in 1..n /\ \A k \in j..n : k \in j..(n + 1) /\ longer[k] = text[k]
      BY <1>1, <2>2
    <3>2. SameLine(text, j, n + 1)
      BY <1>1, <3>1 DEF SameLine
    <3> QED BY <1>1, <3>1, <3>2 DEF NoWordBefore
  <2> QED BY <2>1, <2>2
<1>7. AfterGap(longer, d, overlapping)
  <2>1. n > 0 => longer[(n + 1) - 1] = text[n]
    BY <1>1
  <2>2. (n + 1) + 1 = n + 2
    BY <1>1
  <2>3. n > 0 => n + 1 > 1
    BY <1>1
  <2> QED BY <1>1, <1>2, <1>6, <2>1, <2>2, <2>3 DEF AfterGap
<1> QED BY <1>1, <1>5, <1>7, <1>a

(* A secret may follow the name and the gap of its own device. *)
LEMMA SecretKeepsOrder ==
    ASSUME NEW text \in Texts, NEW owners, NEW overlapping \in BOOLEAN,
           Orderly(text, owners, overlapping),
           NEW s \in 1..MaxMints, s \in DOMAIN owners,
           AfterGap(text, owners[s], overlapping)
    PROVE  /\ Append(text, Secret(s)) \in Texts
           /\ Orderly(Append(text, Secret(s)), owners, overlapping)
<1> DEFINE longer == Append(text, Secret(s))
           n == Len(text)
<1>0. /\ Secret(s) \in Pieces /\ Secret(s) # Hash /\ Secret(s) # Gap
      /\ \A d \in Devices : Secret(s) # Name(d)
      /\ \A t \in 1..MaxMints : Secret(s) = Secret(t) => s = t
  BY PiecesApart DEF Pieces
<1>1. /\ longer \in Texts /\ n \in Nat /\ Len(longer) = n + 1 /\ DOMAIN longer = 1..(n + 1)
      /\ \A i \in 1..n : longer[i] = text[i]
      /\ longer[n + 1] = Secret(s)
      /\ DOMAIN text = 1..n
  BY <1>0, AppendedText DEF Texts
<1>2. \/ n > 1 /\ text[n] = Gap /\ text[n - 1] = Name(owners[s])
      \/ overlapping /\ NoWordBefore(text, n + 1)
  BY DEF AfterGap
<1>a. Append(text, Secret(s)) = longer /\ Len(text) = n
  OBVIOUS
<1> HIDE DEF longer, n
<1>3. NoWordBefore(text, n + 1) => NoWordBefore(longer, n + 1)
  <2> SUFFICES ASSUME NoWordBefore(text, n + 1), NEW j \in 1..n, SameLine(longer, j, n + 1)
               PROVE  longer[j] = Gap
    BY <1>1 DEF NoWordBefore
  <2>1. \A k \in j..((n + 1) - 1) : longer[k] = text[k]
    BY <1>1
  <2>2. SameLine(text, j, n + 1)
    BY <2>1 DEF SameLine
  <2> QED BY <1>1, <2>2 DEF NoWordBefore
<1>4. SecretIsNamed(longer, n + 1, owners, overlapping)
  <2>1. CASE n > 1 /\ text[n] = Gap /\ text[n - 1] = Name(owners[s])
    <3>1. n + 1 > 2 /\ longer[(n + 1) - 1] = Gap /\ longer[(n + 1) - 2] = Name(owners[s])
      BY <1>1, <2>1
    <3> QED BY <1>0, <1>1, <3>1 DEF SecretIsNamed
  <2>2. CASE overlapping /\ NoWordBefore(text, n + 1)
    BY <1>0, <1>1, <1>3, <2>2 DEF SecretIsNamed
  <2> QED BY <1>2, <2>1, <2>2
<1>5. IsInPlace(longer, n + 1, owners, overlapping)
  BY <1>0, <1>1, <1>4 DEF IsInPlace, NameComesFirst, GapFollowsName
<1> QED BY <1>0, <1>1, <1>5, <1>a, AppendKeepsOrder

(* What is left of a text that was cut, but not within a comment.           *)
LEMMA CutKeepsOrder ==
    ASSUME NEW text \in Texts, NEW owners, NEW overlapping \in BOOLEAN,
           Orderly(text, owners, overlapping),
           NEW n \in 0..Len(text),
           ~overlapping => \A i \in DOMAIN text : text[i] = Hash => i < n
    PROVE  /\ SubSeq(text, 1, n) \in Texts
           /\ Len(SubSeq(text, 1, n)) = n
           /\ \A i \in 1..n : SubSeq(text, 1, n)[i] = text[i]
           /\ Orderly(SubSeq(text, 1, n), owners, overlapping)
<1> DEFINE cut == SubSeq(text, 1, n)
<1>0. Len(text) \in Nat /\ n \in Nat /\ n <= Len(text) /\ DOMAIN text = 1..Len(text)
  BY DEF Texts
<1>1. cut \in Texts /\ Len(cut) = n /\ DOMAIN cut = 1..n /\ \A i \in 1..n : cut[i] = text[i]
  BY <1>0 DEF Texts
<1> HIDE DEF cut
<1>2. ASSUME NEW i \in 1..n
      PROVE  /\ IsInPlace(cut, i, owners, overlapping)
             /\ ~overlapping => CommentIsWhole(cut, i)
  <2>1. /\ i \in DOMAIN text /\ i \in DOMAIN cut /\ \A k \in 1..i : cut[k] = text[k]
        /\ i > 1 => cut[i - 1] = text[i - 1]
        /\ i < n => cut[i + 1] = text[i + 1]
    BY <1>0, <1>1
  <2>2. IsInPlace(text, i, owners, overlapping) /\ (~overlapping => CommentIsWhole(text, i))
    BY <2>1 DEF Orderly
  <2>3. IsInPlace(cut, i, owners, overlapping)
    BY <1>1, <2>1, <2>2, SameBeginning
  <2>4. i \in LineStarts(text) => i \in LineStarts(cut)
    BY <2>1 DEF LineStarts
  <2>5. ASSUME ~overlapping, cut[i] = Hash PROVE i \in LineStarts(cut) /\ i < Len(cut) /\ cut[i + 1] = End
    <3>1. text[i] = Hash /\ i < n
      BY <1>1, <2>1, <2>5
    <3> QED BY <1>1, <2>1, <2>2, <2>4, <2>5, <3>1 DEF CommentIsWhole
  <2> QED BY <2>3, <2>5 DEF CommentIsWhole
<1>3. Orderly(cut, owners, overlapping)
  BY <1>1, <1>2 DEF Orderly
<1> QED BY <1>1, <1>3 DEF cut

(* What is left where one text was written over another.                    *)
LEMMA OverText ==
    ASSUME NEW text \in Texts, NEW written \in Texts
    PROVE  /\ Over(text, written) \in Texts
           /\ Len(text) \in Nat /\ Len(written) \in Nat
           /\ Len(Over(text, written)) = IF Len(written) >= Len(text) THEN Len(written) ELSE Len(text)
           /\ \A i \in 1..Len(written) : Over(text, written)[i] = written[i]
           /\ \A i \in (Len(written) + 1)..Len(text) : Over(text, written)[i] = text[i]
<1> DEFINE n == Len(written)
           m == Len(text)
           rest == SubSeq(text, n + 1, m)
<1>1. /\ n \in Nat /\ m \in Nat /\ n + 1 \in Int /\ m \in Int
      /\ \A i \in 1..m : text[i] \in Pieces
  BY DEF Texts
<1>2. \A i \in (n + 1)..m : text[i] \in Pieces
  <2> HIDE DEF n, m
  <2> QED BY <1>1
<1>3. /\ rest \in Seq(Pieces)
      /\ Len(rest) = IF n + 1 <= m THEN m - (n + 1) + 1 ELSE 0
      /\ \A i \in 1..(m - (n + 1) + 1) : rest[i] = text[(n + 1) + i - 1]
  <2> HIDE DEF n, m
  <2> QED BY <1>1, <1>2, SubSeqProperties
<1>4. /\ written \o rest \in Seq(Pieces)
      /\ Len(written \o rest) = n + Len(rest)
      /\ \A i \in 1..(n + Len(rest)) :
            (written \o rest)[i] = IF i <= n THEN written[i] ELSE rest[i - n]
  <2>1. written \in Seq(Pieces)
    BY DEF Texts
  <2> HIDE DEF rest
  <2> QED BY <1>3, <2>1, ConcatProperties
<1>5. Over(text, written) = written \o rest
  BY DEF Over
<1> HIDE DEF n, m, rest
<1>6. \A i \in 1..n : Over(text, written)[i] = written[i]
  BY <1>1, <1>3, <1>4, <1>5
<1>7. ASSUME NEW i \in (n + 1)..m PROVE Over(text, written)[i] = text[i]
  <2>1. i \in 1..(n + Len(rest)) /\ ~(i <= n) /\ i - n \in 1..(m - (n + 1) + 1) /\ (n + 1) + (i - n) - 1 = i
    BY <1>1, <1>3
  <2> QED BY <1>3, <1>4, <1>5, <2>1
<1>8. Len(Over(text, written)) = IF n >= m THEN n ELSE m
  BY <1>1, <1>3, <1>4, <1>5
<1> QED BY <1>1, <1>4, <1>5, <1>6, <1>7, <1>8 DEF n, m, Texts

(* What is written over an empty text is all there is. *)
LEMMA OverNothing ==
    ASSUME NEW written \in Texts
    PROVE  Over(<< >>, written) = written
<1>1. << >> \in Texts
  BY DEF Texts
<1>2. Len(Over(<< >>, written)) = Len(written)
  BY <1>1, OverText
<1>3. Over(<< >>, written) \in Texts /\ \A i \in 1..Len(written) : Over(<< >>, written)[i] = written[i]
  BY <1>1, OverText
<1> QED BY <1>2, <1>3, SeqEqual DEF Texts

(* Beyond what was written over, a place with no word before it has none    *)
(* still, and one right after it, or after it and a gap, has none either.   *)
LEMMA NoWordBeyond ==
    ASSUME NEW text \in Texts, NEW written \in Texts, IsEnded(written),
           NEW i \in Nat, i > Len(written), i <= Len(Over(text, written)) + 1,
           \/ NoWordBefore(text, i)
           \/ i = Len(written) + 1 /\ i > 1
           \/ i = Len(written) + 2 /\ Over(text, written)[i - 1] = Gap
    PROVE  NoWordBefore(Over(text, written), i)
<1> DEFINE over == Over(text, written)
           n == Len(written)
           m == Len(text)
<1>1. /\ over \in Texts /\ m \in Nat /\ n \in Nat
      /\ Len(over) = IF n >= m THEN n ELSE m
      /\ \A k \in 1..n : over[k] = written[k]
      /\ \A k \in (n + 1)..m : over[k] = text[k]
  BY OverText
<1>2. n > 0 => over[n] = End
  BY <1>1 DEF IsEnded
<1>3. \/ NoWordBefore(text, i)
      \/ i = n + 1 /\ i > 1
      \/ i = n + 2 /\ over[i - 1] = Gap
  OBVIOUS
<1>4. i > n /\ i <= Len(over) + 1
  OBVIOUS
<1> HIDE DEF over, n, m
<1> SUFFICES ASSUME NEW j \in 1..(i - 1), SameLine(over, j, i) PROVE over[j] = Gap
  BY DEF NoWordBefore, over
<1>5. j > n
  <2> SUFFICES ASSUME j <= n PROVE FALSE
    BY <1>1
  <2>1. n \in j..(i - 1) /\ n > 0
    BY <1>1, <1>4
  <2> QED BY <1>2, <2>1 DEF SameLine
<1>6. CASE NoWordBefore(text, i)
  <2>1. \A k \in j..(i - 1) : over[k] = text[k]
    <3> SUFFICES ASSUME NEW k \in j..(i - 1) PROVE over[k] = text[k]
      OBVIOUS
    <3>1. k <= Len(over) /\ k \in Nat /\ k > n
      BY <1>1, <1>4, <1>5
    <3>2. k \in (n + 1)..m
      BY <1>1, <3>1
    <3> QED BY <1>1, <3>2
  <2>2. SameLine(text, j, i)
    BY <2>1 DEF SameLine
  <2>3. j \in j..(i - 1)
    OBVIOUS
  <2> QED BY <1>6, <2>1, <2>2, <2>3 DEF NoWordBefore
<1>7. CASE i = n + 1 /\ i > 1
  BY <1>1, <1>5, <1>7
<1>8. CASE i = n + 2 /\ over[i - 1] = Gap
  <2>1. j = i - 1
    BY <1>1, <1>5, <1>8
  <2> QED BY <1>8, <2>1
<1> QED BY <1>3, <1>6, <1>7, <1>8

(* Writing over an empty text, or over any once revocations overlapped.     *)
LEMMA OverKeepsOrder ==
    ASSUME NEW text \in Texts, NEW written \in Texts, IsEnded(written),
           NEW owners, NEW overlapping \in BOOLEAN,
           Orderly(text, owners, overlapping), Orderly(written, owners, overlapping),
           overlapping \/ text = << >>
    PROVE  Orderly(Over(text, written), owners, overlapping)
<1>1. CASE text = << >>
  BY <1>1, OverNothing
<1>2. CASE overlapping
  <2> DEFINE over == Over(text, written)
             n == Len(written)
             m == Len(text)
  <2>1. /\ over \in Texts /\ m \in Nat /\ n \in Nat
        /\ Len(over) = IF n >= m THEN n ELSE m
        /\ \A k \in 1..n : over[k] = written[k]
        /\ \A k \in (n + 1)..m : over[k] = text[k]
        /\ DOMAIN text = 1..m /\ DOMAIN written = 1..n /\ DOMAIN over = 1..Len(over)
    BY OverText DEF Texts
  <2>2. \A i \in Nat : /\ i > n /\ i <= Len(over) + 1
                       /\ \/ NoWordBefore(text, i)
                          \/ i = n + 1 /\ i > 1
                          \/ i = n + 2 /\ over[i - 1] = Gap
                       => NoWordBefore(over, i)
    BY NoWordBeyond
  <2> HIDE DEF over, n, m
  <2>3. ASSUME NEW i \in 1..n PROVE IsInPlace(over, i, owners, overlapping)
    <3>1. i \in DOMAIN written /\ i \in DOMAIN over /\ \A k \in 1..i : over[k] = written[k]
      BY <2>1
    <3> QED BY <2>1, <3>1, SameBeginning DEF Orderly
  <2>4. ASSUME NEW i \in (n + 1)..m PROVE IsInPlace(over, i, owners, overlapping)
    <3> SUFFICES ASSUME NEW s \in 1..MaxMints, over[i] = Secret(s)
                 PROVE  /\ s \in DOMAIN owners
                        /\ \/ i > 2 /\ over[i - 1] = Gap /\ over[i - 2] = Name(owners[s])
                           \/ NoWordBefore(over, i)
      BY <1>2 DEF IsInPlace, SecretIsNamed
    <3>1. i \in DOMAIN text /\ i \in Nat /\ i > n /\ i <= Len(over) + 1
      BY <2>1
    <3>2. /\ s \in DOMAIN owners
          /\ \/ i > 2 /\ text[i - 1] = Gap /\ text[i - 2] = Name(owners[s])
             \/ NoWordBefore(text, i)
      BY <2>1, <3>1 DEF Orderly, IsInPlace, SecretIsNamed
    <3>3. CASE NoWordBefore(text, i)
      BY <2>2, <3>1, <3>2, <3>3
    <3>4. CASE i > 2 /\ text[i - 1] = Gap /\ text[i - 2] = Name(owners[s])
      <4>1. CASE i = n + 1
        <5>1. i > 1 BY <3>1, <3>4
        <5> QED BY <2>2, <3>1, <3>2, <4>1, <5>1
      <4>2. CASE i = n + 2
        <5>1. over[i - 1] = Gap
          BY <2>1, <3>4, <4>2
        <5> QED BY <2>2, <3>1, <3>2, <4>2, <5>1
      <4>3. CASE i > n + 2
        <5>1. i - 1 \in (n + 1)..m /\ i - 2 \in (n + 1)..m
          BY <2>1, <4>3
        <5> QED BY <2>1, <3>2, <3>4, <5>1
      <4> QED BY <2>1, <3>1, <4>1, <4>2, <4>3
    <3> QED BY <3>2, <3>3, <3>4
  <2>5. \A i \in DOMAIN over : i \in 1..n \/ i \in (n + 1)..m
    BY <2>1
  <2>6. Orderly(over, owners, overlapping)
    BY <1>2, <2>3, <2>4, <2>5 DEF Orderly
  <2> QED BY <2>6 DEF over
<1> QED BY <1>1, <1>2

(* An enrolment that is written over may go on with its line.               *)
LEMMA OverKeepsThePlace ==
    ASSUME NEW text \in Texts, NEW written \in Texts, IsEnded(written), NEW d \in Devices
    PROVE  /\ AfterName(text, d, TRUE) => AfterName(Over(text, written), d, TRUE)
           /\ AfterGap(text, d, TRUE) => AfterGap(Over(text, written), d, TRUE)
<1> DEFINE over == Over(text, written)
           n == Len(written)
           m == Len(text)
<1>1. /\ over \in Texts /\ m \in Nat /\ n \in Nat
      /\ Len(over) = IF n >= m THEN n ELSE m
      /\ \A k \in (n + 1)..m : over[k] = text[k]
  BY OverText
<1>2. \A i \in Nat : /\ i > n /\ i <= Len(over) + 1
                     /\ \/ NoWordBefore(text, i)
                        \/ i = n + 1 /\ i > 1
                        \/ i = n + 2 /\ over[i - 1] = Gap
                     => NoWordBefore(over, i)
  BY NoWordBeyond
<1>a. Over(text, written) = over /\ Len(text) = m
  OBVIOUS
<1> HIDE DEF over, n, m
<1>b. n > 0 \/ n = 0
  BY <1>1
<1>c. n >= m \/ n < m
  BY <1>1
<1>3. CASE n >= m
  <2>1. Len(over) = n /\ n + 1 > n /\ n + 1 \in Nat
    BY <1>1, <1>3
  <2>2. CASE n > 0
    <3>1. n + 1 <= Len(over) + 1 /\ n + 1 > 1
      BY <1>1, <2>1, <2>2
    <3>2. NoWordBefore(over, n + 1)
      BY <1>2, <2>1, <3>1
    <3> QED BY <2>1, <3>2 DEF AfterName, AfterGap, over
  <2>3. CASE n = 0
    <3>1. NoWordBefore(over, n + 1)
      BY <2>3 DEF NoWordBefore
    <3> QED BY <2>1, <3>1 DEF AfterName, AfterGap, over
  <2> QED BY <1>b, <2>2, <2>3, Zenon
<1>4. CASE n < m
  <2>1. Len(over) = m /\ m + 1 > n /\ m + 1 \in Nat /\ m \in (n + 1)..m /\ over[m] = text[m]
    BY <1>1, <1>4
  <2>2. NoWordBefore(text, m + 1) => NoWordBefore(over, m + 1)
    BY <1>2, <2>1
  <2>3. ASSUME m > 1, text[m] = Gap, text[m - 1] = Name(d)
        PROVE  over[m - 1] = Name(d) \/ NoWordBefore(over, m + 1)
    <3>1. CASE m = n + 1
      <4>1. m + 1 = n + 2 /\ (m + 1) - 1 = m
        BY <1>1, <3>1
      <4> QED BY <1>2, <2>1, <2>3, <4>1
    <3>2. CASE m # n + 1
      <4>1. m - 1 \in (n + 1)..m
        BY <1>1, <1>4, <3>2
      <4> QED BY <1>1, <2>3, <4>1
    <3> QED BY <3>1, <3>2
  <2>4. AfterName(text, d, TRUE) => AfterName(over, d, TRUE)
    BY <2>1, <2>2, <1>a DEF AfterName
  <2>5. AfterGap(text, d, TRUE) => AfterGap(over, d, TRUE)
    BY <2>1, <2>2, <2>3, <1>a DEF AfterGap
  <2> QED BY <2>4, <2>5 DEF over
<1> QED BY <1>c, <1>3, <1>4, Zenon

-----------------------------------------------------------------------------
(* What revoke keeps. *)

(* The pieces at some places, in their order: each is there, once.          *)
LEMMA OnlyInOrder ==
    ASSUME NEW text \in Texts, NEW P \in SUBSET (1..Len(text))
    PROVE  \E n \in Nat : \E at \in [1..n -> P] :
              /\ Only(text, P) \in Texts
              /\ Len(Only(text, P)) = n
              /\ \A i \in 1..n : Only(text, P)[i] = text[at[i]]
              /\ \A i, m \in 1..n : i < m => at[i] < at[m]
              /\ \A j \in P : \E i \in 1..n : at[i] = j
<1> DEFINE n == Cardinality(P)
           Before(j) == {k \in P : k <= j}
           rank == [j \in P |-> Cardinality(Before(j))]
           at == [i \in 1..n |-> CHOOSE j \in P : Cardinality({k \in P : k <= j}) = i]
<1>0. Len(text) \in Nat /\ \A j \in 1..Len(text) : text[j] \in Pieces
  BY DEF Texts
<1>p. \A j \in P : j \in Nat /\ j \in 1..Len(text)
  BY <1>0
<1>1. IsFiniteSet(1..Len(text))
  BY <1>0, FS_Interval
<1>2. IsFiniteSet(P) /\ n \in Nat
  BY <1>1, FS_Subset, FS_CardinalityType
<1>3. ASSUME NEW j \in P
      PROVE  /\ IsFiniteSet(Before(j))
             /\ Cardinality(Before(j)) \in 1..n
  <2>1. Before(j) \in SUBSET P
    OBVIOUS
  <2>2. IsFiniteSet(Before(j)) /\ Cardinality(Before(j)) <= n
    BY <1>2, <2>1, FS_Subset
  <2>3. Cardinality(Before(j)) \in Nat
    BY <2>2, FS_CardinalityType
  <2>4. j \in Before(j)
    BY <1>0
  <2>5. Before(j) # {}
    BY <2>4
  <2>6. Cardinality(Before(j)) # 0
    <3> HIDE DEF Before
    <3> QED BY <2>2, <2>5, FS_EmptySet
  <2> HIDE DEF Before, n
  <2> QED BY <1>2, <2>2, <2>3, <2>6
<1>4. ASSUME NEW j \in P, NEW k \in P, j < k
      PROVE  Cardinality(Before(j)) < Cardinality(Before(k))
  <2>1. Before(j) \in SUBSET Before(k)
    <3>1. \A x \in P : x <= j => x <= k
      BY <1>p, <1>4
    <3> QED BY <3>1
  <2>2. Before(j) # Before(k)
    <3>1. k \in Before(k) /\ k \notin Before(j)
      BY <1>0, <1>4
    <3> QED BY <3>1
  <2>3. /\ Cardinality(Before(j)) <= Cardinality(Before(k))
        /\ Cardinality(Before(k)) = Cardinality(Before(j)) => Before(k) = Before(j)
    BY <1>3, <2>1, FS_Subset
  <2>4. Cardinality(Before(j)) \in Nat /\ Cardinality(Before(k)) \in Nat
    <3> HIDE DEF Before, n
    <3> QED BY <1>2, <1>3
  <2> HIDE DEF Before
  <2> QED BY <2>2, <2>3, <2>4
<1>5. rank \in Injection(P, 1..n)
  <2>1. rank \in [P -> 1..n]
    BY <1>3
  <2>2. ASSUME NEW j \in P, NEW k \in P, rank[j] = rank[k] PROVE j = k
    <3>1. Cardinality(Before(j)) = Cardinality(Before(k))
      BY <2>2
    <3>2. Cardinality(Before(j)) \in Nat
      <4> HIDE DEF Before, n
      <4> QED BY <1>2, <1>3
    <3>3. ~(j < k) /\ ~(k < j)
      <4> HIDE DEF Before
      <4> QED BY <1>4, <3>1, <3>2
    <3> QED BY <1>p, <3>3
  <2> HIDE DEF rank
  <2> QED BY <2>1, <2>2 DEF Injection, IsInjective
<1>6. rank \in Surjection(P, 1..n)
  <2>1. IsFiniteSet(1..n) /\ Cardinality(1..n) = n
    <3> HIDE DEF n
    <3> QED BY <1>2, FS_Interval
  <2> HIDE DEF rank
  <2> QED BY <1>5, <2>1, FS_Injection
<1>7. \A i \in 1..n : at[i] \in P /\ Cardinality(Before(at[i])) = i
  <2> SUFFICES ASSUME NEW i \in 1..n PROVE at[i] \in P /\ Cardinality(Before(at[i])) = i
    OBVIOUS
  <2>1. PICK j \in P : rank[j] = i
    <3> HIDE DEF rank
    <3> QED BY <1>6 DEF Surjection
  <2>2. \E x \in P : Cardinality({k \in P : k <= x}) = i
    BY <2>1
  <2>3. at[i] = CHOOSE x \in P : Cardinality({k \in P : k <= x}) = i
    OBVIOUS
  <2> HIDE DEF at
  <2> QED BY <2>2, <2>3
<1>8. at \in [1..n -> P]
  <2>1. \A i \in 1..n : (CHOOSE j \in P : Cardinality({k \in P : k <= j}) = i) \in P
    BY <1>7
  <2> QED BY <2>1
<1>9. Only(text, P) = [i \in 1..n |-> text[at[i]]]
  BY DEF Only
<1> HIDE DEF n, at
<1>10. Only(text, P) \in Texts /\ Len(Only(text, P)) = n /\ \A i \in 1..n : Only(text, P)[i] = text[at[i]]
  <2>1. \A i \in 1..n : text[at[i]] \in Pieces
    BY <1>0, <1>8
  <2>2. [i \in 1..n |-> text[at[i]]] \in Seq(Pieces)
    BY <1>2, <2>1
  <2> QED BY <1>2, <1>9, <2>2 DEF Texts
<1>11. ASSUME NEW i \in 1..n, NEW m \in 1..n, i < m PROVE at[i] < at[m]
  <2>1. at[i] \in P /\ at[m] \in P /\ at[i] \in Nat /\ at[m] \in Nat
    BY <1>p, <1>8
  <2>2. Cardinality(Before(at[i])) = i /\ Cardinality(Before(at[m])) = m
    BY <1>7
  <2>3. ~(at[m] < at[i]) /\ at[m] # at[i]
    <3> HIDE DEF Before
    <3> QED BY <1>2, <1>4, <1>11, <2>1, <2>2
  <2> QED BY <2>1, <2>3
<1>12. ASSUME NEW j \in P PROVE \E i \in 1..n : at[i] = j
  <2> DEFINE i == Cardinality(Before(j))
  <2>1. i \in 1..n
    BY <1>3
  <2>2. Cardinality(Before(at[i])) = i /\ at[i] \in P
    <3> HIDE DEF i, Before
    <3> QED BY <1>7, <2>1
  <2>3. ~(at[i] < j) /\ ~(j < at[i])
    <3>1. i \in Nat
      <4> HIDE DEF i
      <4> QED BY <1>2, <2>1
    <3>2. Cardinality(Before(at[i])) = Cardinality(Before(j))
      <4> HIDE DEF Before
      <4> QED BY <2>2 DEF i
    <3>3. Cardinality(Before(j)) \in Nat
      <4> HIDE DEF Before
      <4> QED BY <3>1 DEF i
    <3>4. at[i] \in P
      BY <2>2
    <3> HIDE DEF Before, i
    <3>5. ASSUME at[i] < j PROVE FALSE
      <4>1. Cardinality(Before(at[i])) < Cardinality(Before(j))
        BY <1>4, <3>4, <3>5
      <4> QED BY <3>2, <3>3, <4>1
    <3>6. ASSUME j < at[i] PROVE FALSE
      <4>1. Cardinality(Before(j)) < Cardinality(Before(at[i]))
        BY <1>4, <3>4, <3>6
      <4> QED BY <3>2, <3>3, <4>1
    <3> QED BY <3>5, <3>6
  <2>4. at[i] \in Nat /\ j \in Nat
    <3> HIDE DEF i, Before
    <3> QED BY <1>p, <2>2
  <2>5. at[i] = j
    <3> HIDE DEF i
    <3> QED BY <2>3, <2>4
  <2> HIDE DEF i
  <2> QED BY <2>1, <2>5
<1> QED BY <1>2, <1>8, <1>10, <1>11, <1>12

(* What is left of an orderly text without some of its lines is orderly.    *)
LEMMA WholeLinesAreOrderly ==
    ASSUME NEW text \in Texts, NEW owners, NEW overlapping \in BOOLEAN,
           Orderly(text, owners, overlapping),
           NEW dropped \in SUBSET LineStarts(text),
           NEW P \in SUBSET DOMAIN text,
           \A j \in DOMAIN text : j \in P <=> \A i \in dropped : j \notin LineAt(text, i)
    PROVE  /\ Only(text, P) \in Texts
           /\ Orderly(Only(text, P), owners, overlapping)
           /\ \A i \in DOMAIN Only(text, P) : \E j \in P : Only(text, P)[i] = text[j]
<1> DEFINE kept == Only(text, P)
           m == Len(text)
<1>0. /\ m \in Nat /\ DOMAIN text = 1..m /\ P \in SUBSET (1..m)
      /\ \A i \in dropped : i \in 1..m
  BY DEF Texts, LineStarts
<1>1. \E n \in Nat : \E at \in [1..n -> P] :
         /\ kept \in Texts
         /\ Len(kept) = n
         /\ \A i \in 1..n : kept[i] = text[at[i]]
         /\ \A i, k \in 1..n : i < k => at[i] < at[k]
         /\ \A j \in P : \E i \in 1..n : at[i] = j
  BY <1>0, OnlyInOrder
<1>2. PICK n \in Nat : \E at \in [1..n -> P] :
         /\ kept \in Texts
         /\ Len(kept) = n
         /\ \A i \in 1..n : kept[i] = text[at[i]]
         /\ \A i, k \in 1..n : i < k => at[i] < at[k]
         /\ \A j \in P : \E i \in 1..n : at[i] = j
  BY <1>1
<1>3. PICK at \in [1..n -> P] :
         /\ kept \in Texts
         /\ Len(kept) = n
         /\ \A i \in 1..n : kept[i] = text[at[i]]
         /\ \A i, k \in 1..n : i < k => at[i] < at[k]
         /\ \A j \in P : \E i \in 1..n : at[i] = j
  BY <1>2
<1>4. DOMAIN kept = 1..n
  BY <1>2, <1>3 DEF Texts
<1>5. ASSUME NEW j \in P, NEW k \in 1..j, SameLine(text, k, j) PROVE k \in P
  <2> SUFFICES ASSUME NEW i \in dropped, k \in LineAt(text, i) PROVE FALSE
    BY <1>0
  <2>1. /\ i \in Nat /\ k \in Nat /\ j \in Nat /\ i <= k /\ k <= j /\ j <= m
        /\ \A l \in i..(k - 1) : text[l] # End
    BY <1>0 DEF LineAt
  <2>2. \A l \in k..(j - 1) : text[l] # End
    BY <1>5 DEF SameLine
  <2>3. \A l \in i..(j - 1) : l \in i..(k - 1) \/ l \in k..(j - 1)
    BY <2>1
  <2>4. j \in LineAt(text, i)
    BY <2>1, <2>2, <2>3 DEF LineAt
  <2> QED BY <2>4
<1>6. ASSUME NEW j \in P, j < m, text[j] # End PROVE j + 1 \in P
  <2> SUFFICES ASSUME NEW i \in dropped, j + 1 \in LineAt(text, i) PROVE FALSE
    BY <1>0, <1>6
  <2>1. i <= j
    <3> SUFFICES ASSUME ~(i <= j) PROVE FALSE
      OBVIOUS
    <3>1. i = j + 1
      BY <1>0 DEF LineAt
    <3> QED BY <1>0, <1>6, <3>1 DEF LineStarts
  <2>2. j \in LineAt(text, i)
    BY <1>0, <2>1 DEF LineAt
  <2> QED BY <2>2
<1> HIDE DEF kept, m
<1>7. \A i \in 1..n : at[i] \in P /\ at[i] \in 1..m /\ at[i] \in Nat
  BY <1>0
<1>8. \A i, k \in 1..n : at[i] < at[k] => i < k
  <2> SUFFICES ASSUME NEW i \in 1..n, NEW k \in 1..n, at[i] < at[k], ~(i < k) PROVE FALSE
    OBVIOUS
  <2>1. CASE i = k
    BY <1>7, <2>1
  <2>2. CASE i # k
    <3>1. k < i
      BY <2>2
    <3>2. at[k] < at[i]
      BY <1>3, <3>1
    <3> QED BY <1>7, <3>2
  <2> QED BY <2>1, <2>2
(* The piece before, in the same line, is kept and is the one before.       *)
<1>9. ASSUME NEW i \in 1..n, at[i] > 1, text[at[i] - 1] # End
      PROVE  i > 1 /\ at[i - 1] = at[i] - 1 /\ kept[i - 1] = text[at[i] - 1]
  <2>1. SameLine(text, at[i] - 1, at[i])
    <3>1. \A k \in (at[i] - 1)..(at[i] - 1) : k = at[i] - 1
      BY <1>7
    <3> QED BY <1>9, <3>1 DEF SameLine
  <2>2. at[i] - 1 \in P
    BY <1>5, <1>7, <1>9, <2>1
  <2>3. PICK k \in 1..n : at[k] = at[i] - 1
    BY <1>3, <2>2
  <2>4. k < i
    BY <1>7, <1>8, <2>3
  <2>5. k = i - 1
    <3> SUFFICES ASSUME k < i - 1 PROVE FALSE
      BY <2>4
    <3>1. at[k] < at[i - 1] /\ at[i - 1] < at[i]
      BY <1>3, <2>4
    <3> QED BY <1>7, <2>3, <2>4, <3>1
  <2> QED BY <1>3, <2>3, <2>4, <2>5
<1>10. ASSUME NEW i \in 1..n, i > 1, kept[i - 1] # End
       PROVE  at[i - 1] = at[i] - 1
  <2>1. i - 1 \in 1..n /\ at[i - 1] < at[i] /\ text[at[i - 1]] # End
    BY <1>3, <1>10
  <2>a. at[i - 1] < m /\ at[i - 1] \in P
    BY <1>0, <1>7, <2>1
  <2>2. at[i - 1] + 1 \in P
    BY <1>6, <2>1, <2>a
  <2>3. PICK k \in 1..n : at[k] = at[i - 1] + 1
    BY <1>3, <2>2
  <2>4. i - 1 < k
    BY <1>7, <1>8, <2>1, <2>3
  <2>5. ~(i < k)
    <3> SUFFICES ASSUME i < k PROVE FALSE
      OBVIOUS
    <3>1. at[i] < at[k]
      BY <1>3
    <3> QED BY <1>7, <2>1, <2>3, <3>1
  <2>6. k = i
    BY <2>4, <2>5
  <2> QED BY <1>7, <2>1, <2>3, <2>6
<1>11. \A i \in 1..n : at[i] \in LineStarts(text) => i \in LineStarts(kept)
  <2> SUFFICES ASSUME NEW i \in 1..n, at[i] \in LineStarts(text), i > 1, kept[i - 1] # End PROVE FALSE
    BY <1>4 DEF LineStarts
  <2>1. at[i - 1] = at[i] - 1 /\ i - 1 \in 1..n
    BY <1>10
  <2>2. at[i] > 1 /\ text[at[i] - 1] # End
    BY <1>3, <1>7, <2>1
  <2> QED BY <2>2 DEF LineStarts
(* Two places of one line that is kept are of one line of what is kept, and *)
(* the other way round.                                                     *)
<1>12. ASSUME NEW j \in 1..n, NEW i \in 1..n, j < i, SameLine(text, at[j], at[i])
       PROVE  SameLine(kept, j, i)
  <2> SUFFICES ASSUME NEW k \in j..(i - 1) PROVE kept[k] # End
    BY DEF SameLine
  <2>1. k \in 1..n /\ k < i /\ j <= k
    OBVIOUS
  <2>2. at[k] < at[i] /\ at[j] <= at[k]
    <3>1. at[k] < at[i] BY <1>3, <2>1
    <3>2. CASE j = k BY <1>7, <3>1, <3>2
    <3>3. CASE j < k BY <1>3, <1>7, <2>1, <3>1, <3>3
    <3> QED BY <2>1, <3>2, <3>3
  <2>3. at[k] \in at[j]..(at[i] - 1)
    BY <1>7, <2>1, <2>2
  <2> QED BY <1>3, <1>12, <2>1, <2>3 DEF SameLine
<1>13. ASSUME NEW j \in 1..n, NEW i \in 1..n, j < i, SameLine(kept, j, i)
       PROVE  SameLine(text, at[j], at[i])
  <2> SUFFICES ASSUME NEW l \in at[j]..(at[i] - 1), text[l] = End PROVE FALSE
    BY DEF SameLine
  <2>0. at[j] < at[i] /\ at[j] \in Nat /\ at[i] \in Nat /\ l \in Nat /\ at[j] <= l /\ l < at[i]
    BY <1>3, <1>7, <1>13
  <2> DEFINE S == {k \in j..(i - 1) : at[k] <= l}
  <2>1. S \in SUBSET (1..n) /\ j \in S
    BY <1>13, <2>0
  <2>2. Max(S) \in S /\ \A k \in S : k <= Max(S)
    <3> HIDE DEF S
    <3> QED BY <2>1, LastPlace
  <2> DEFINE k == Max(S)
  <2>3. k \in j..(i - 1) /\ at[k] <= l /\ k + 1 \notin S
    <3>1. k \in j..(i - 1) /\ at[k] <= l
      BY <2>2
    <3>2. ~(k + 1 <= k)
      BY <3>1
    <3> HIDE DEF S
    <3> QED BY <2>2, <3>1, <3>2
  <2> HIDE DEF k
  <2>4. k \in 1..n /\ k + 1 \in 1..n /\ kept[k] # End
    BY <1>13, <2>3 DEF SameLine
  <2>5. at[k + 1] > l
    <3>1. CASE k + 1 = i
      BY <2>0, <3>1
    <3>2. CASE k + 1 # i
      <4>1. k + 1 \in j..(i - 1)
        BY <2>3, <3>2
      <4>2. ~(at[k + 1] <= l)
        BY <2>3, <4>1
      <4> QED BY <1>7, <2>0, <2>4, <4>2
    <3> QED BY <3>1, <3>2
  <2>6. at[(k + 1) - 1] = at[k + 1] - 1
    <3>1. k + 1 > 1 /\ (k + 1) - 1 = k
      BY <2>4
    <3> QED BY <1>10, <2>4, <3>1
  <2>7. at[k] = at[k + 1] - 1
    <3>1. (k + 1) - 1 = k
      BY <2>4
    <3> QED BY <2>6, <3>1
  <2>8. l = at[k]
    BY <1>7, <2>0, <2>3, <2>4, <2>5, <2>7
  <2> QED BY <1>3, <2>4, <2>8
<1>14. ASSUME NEW i \in 1..n
       PROVE  /\ IsInPlace(kept, i, owners, overlapping)
              /\ ~overlapping => CommentIsWhole(kept, i)
  <2>0. /\ kept[i] = text[at[i]] /\ at[i] \in DOMAIN text /\ at[i] \in Nat
        /\ IsInPlace(text, at[i], owners, overlapping)
        /\ ~overlapping => CommentIsWhole(text, at[i])
    BY <1>0, <1>3, <1>7 DEF Orderly, m
  <2>1. NoWordBefore(text, at[i]) => NoWordBefore(kept, i)
    <3> SUFFICES ASSUME NoWordBefore(text, at[i]), NEW j \in 1..(i - 1), SameLine(kept, j, i)
                 PROVE  kept[j] = Gap
      BY DEF NoWordBefore
    <3>1. j \in 1..n /\ j < i
      OBVIOUS
    <3>2. SameLine(text, at[j], at[i])
      BY <1>13, <3>1
    <3>3. at[j] \in 1..(at[i] - 1)
      BY <1>3, <1>7, <3>1
    <3> QED BY <1>3, <3>1, <3>2, <3>3 DEF NoWordBefore
  <2>2. ASSUME at[i] > 2, text[at[i] - 1] = Gap, NEW d, text[at[i] - 2] = Name(d)
        PROVE  i > 2 /\ kept[i - 1] = Gap /\ kept[i - 2] = Name(d)
    <3>1. i > 1 /\ at[i - 1] = at[i] - 1 /\ kept[i - 1] = Gap
      BY <1>9, <2>0, <2>2, PiecesApart
    <3>2. i - 1 \in 1..n /\ at[i - 1] > 1 /\ at[i - 1] - 1 = at[i] - 2 /\ (i - 1) - 1 = i - 2
      BY <2>0, <2>2, <3>1
    <3>3. text[at[i - 1] - 1] # End
      BY <2>2, <3>2, PiecesApart
    <3>4. i - 1 > 1 /\ kept[(i - 1) - 1] = text[at[i - 1] - 1]
      BY <1>9, <3>2, <3>3
    <3> QED BY <2>2, <3>1, <3>2, <3>4
  <2>3. SecretIsNamed(kept, i, owners, overlapping)
    <3> SUFFICES ASSUME NEW s \in 1..MaxMints, kept[i] = Secret(s)
                 PROVE  /\ s \in DOMAIN owners
                        /\ \/ i > 2 /\ kept[i - 1] = Gap /\ kept[i - 2] = Name(owners[s])
                           \/ overlapping /\ NoWordBefore(kept, i)
      BY DEF SecretIsNamed
    <3>1. /\ s \in DOMAIN owners
          /\ \/ at[i] > 2 /\ text[at[i] - 1] = Gap /\ text[at[i] - 2] = Name(owners[s])
             \/ overlapping /\ NoWordBefore(text, at[i])
      BY <2>0 DEF IsInPlace, SecretIsNamed
    <3> QED BY <2>1, <2>2, <3>1
  <2>4. ~overlapping => NameComesFirst(kept, i)
    <3> SUFFICES ASSUME ~overlapping, NEW d \in Devices, kept[i] = Name(d)
                 PROVE  \/ i \in LineStarts(kept)
                        \/ \E j \in 1..(i - 1) : kept[j] = Gap /\ SameLine(kept, j, i)
      BY DEF NameComesFirst
    <3>1. \/ at[i] \in LineStarts(text)
          \/ \E j \in 1..(at[i] - 1) : text[j] = Gap /\ SameLine(text, j, at[i])
      BY <2>0 DEF IsInPlace, NameComesFirst
    <3>2. CASE at[i] \in LineStarts(text)
      BY <1>11, <3>2
    <3>3. CASE \E j \in 1..(at[i] - 1) : text[j] = Gap /\ SameLine(text, j, at[i])
      <4>1. PICK j \in 1..(at[i] - 1) : text[j] = Gap /\ SameLine(text, j, at[i])
        BY <3>3
      <4>2. j \in P
        BY <1>5, <1>7, <2>0, <4>1
      <4>3. PICK k \in 1..n : at[k] = j
        BY <1>3, <4>2
      <4>4. k < i
        BY <1>8, <2>0, <4>1, <4>3
      <4>5. SameLine(kept, k, i) /\ kept[k] = Gap
        BY <1>3, <1>12, <4>1, <4>3, <4>4
      <4> QED BY <4>3, <4>4, <4>5
    <3> QED BY <3>1, <3>2, <3>3
  <2>5. ~overlapping => GapFollowsName(kept, i)
    <3> SUFFICES ASSUME ~overlapping, kept[i] = Gap
                 PROVE  i > 1 /\ \E d \in Devices : kept[i - 1] = Name(d)
      BY DEF GapFollowsName
    <3>1. at[i] > 1 /\ \E d \in Devices : text[at[i] - 1] = Name(d)
      BY <2>0 DEF IsInPlace, GapFollowsName
    <3>2. text[at[i] - 1] # End
      BY <3>1, PiecesApart
    <3> QED BY <1>9, <3>1, <3>2
  <2>6. ~overlapping => CommentIsWhole(kept, i)
    <3> SUFFICES ASSUME ~overlapping, kept[i] = Hash
                 PROVE  i \in LineStarts(kept) /\ i < Len(kept) /\ kept[i + 1] = End
      BY DEF CommentIsWhole
    <3>1. at[i] \in LineStarts(text) /\ at[i] < m /\ text[at[i] + 1] = End
      BY <2>0 DEF CommentIsWhole, m
    <3>2. at[i] + 1 \in P
      BY <1>6, <1>7, <2>0, <3>1, PiecesApart
    <3>3. PICK k \in 1..n : at[k] = at[i] + 1
      BY <1>3, <3>2
    <3>4. i < k
      BY <1>8, <2>0, <3>3
    <3>5. k = i + 1
      <4> SUFFICES ASSUME i + 1 < k PROVE FALSE
        BY <3>4
      <4>1. i + 1 \in 1..n /\ at[i] < at[i + 1] /\ at[i + 1] < at[k]
        BY <1>3, <3>4
      <4> QED BY <1>7, <3>3, <4>1
    <3> QED BY <1>2, <1>3, <1>11, <3>1, <3>3, <3>4, <3>5
  <2> QED BY <2>3, <2>4, <2>5, <2>6 DEF IsInPlace
<1>15. Orderly(kept, owners, overlapping)
  BY <1>4, <1>14 DEF Orderly
<1>16. \A i \in DOMAIN kept : \E j \in P : kept[i] = text[j]
  BY <1>3, <1>4, <1>7
<1> QED BY <1>3, <1>15, <1>16 DEF kept

(* What revoke keeps is of whole lines that are not the device's, and ends. *)
LEMMA KeptIsOrderly ==
    ASSUME NEW text \in Texts, NEW owners, NEW overlapping \in BOOLEAN,
           Orderly(text, owners, overlapping), NEW d
    PROVE  /\ Kept(text, d) \in Texts
           /\ IsEnded(Kept(text, d))
           /\ Orderly(Kept(text, d), owners, overlapping)
           /\ \A i \in DOMAIN Kept(text, d) :
                 \/ Kept(text, d)[i] = End
                 \/ \E j \in DOMAIN text :
                       /\ Kept(text, d)[i] = text[j]
                       /\ \A l \in LineStarts(text) : j \in LineAt(text, l) => ~IsOwn(text, l, d)
<1> DEFINE dropped == {i \in LineStarts(text) : IsOwn(text, i, d)}
           P == DOMAIN text \ UNION {LineAt(text, i) : i \in dropped}
           left == Only(text, P)
<1>1. dropped \in SUBSET LineStarts(text)
  OBVIOUS
<1>2. /\ left \in Texts
      /\ Orderly(left, owners, overlapping)
      /\ \A i \in DOMAIN left : \E j \in P : left[i] = text[j]
  <2>1. P \in SUBSET DOMAIN text /\ \A j \in DOMAIN text : j \in P <=> \A i \in dropped : j \notin LineAt(text, i)
    OBVIOUS
  <2>2. ASSUME NEW D \in SUBSET LineStarts(text), NEW Q \in SUBSET DOMAIN text,
               \A j \in DOMAIN text : j \in Q <=> \A i \in D : j \notin LineAt(text, i)
        PROVE  /\ Only(text, Q) \in Texts
               /\ Orderly(Only(text, Q), owners, overlapping)
               /\ \A i \in DOMAIN Only(text, Q) : \E j \in Q : Only(text, Q)[i] = text[j]
    BY <2>2, WholeLinesAreOrderly
  <2> HIDE DEF dropped, P
  <2> QED BY <1>1, <2>1, <2>2
<1>3. \A j \in P : j \in DOMAIN text /\ \A l \in LineStarts(text) : j \in LineAt(text, l) => ~IsOwn(text, l, d)
  OBVIOUS
<1>4. Kept(text, d) = Ended(left)
  BY DEF Kept
<1> HIDE DEF left, P, dropped
<1>5. End \in Pieces
  BY DEF Pieces
<1>6. /\ Len(left) \in Nat
      /\ Append(left, End) \in Texts
      /\ Len(Append(left, End)) = Len(left) + 1
      /\ DOMAIN Append(left, End) = 1..(Len(left) + 1)
      /\ \A i \in 1..Len(left) : Append(left, End)[i] = left[i]
      /\ Append(left, End)[Len(left) + 1] = End
      /\ DOMAIN left = 1..Len(left)
  BY <1>2, <1>5, AppendedText DEF Texts
<1>7. CASE left = << >> \/ Last(left) = End
  <2>1. Kept(text, d) = left
    BY <1>4, <1>7 DEF Ended
  <2>2. IsEnded(left)
    BY <1>7 DEF IsEnded, Last
  <2> QED BY <1>2, <1>3, <2>1, <2>2
<1>8. CASE ~(left = << >> \/ Last(left) = End)
  <2>1. Kept(text, d) = Append(left, End)
    BY <1>4, <1>8 DEF Ended
  <2>2. Orderly(Append(left, End), owners, overlapping)
    BY <1>2, <1>5, EndKeepsOrder
  <2>3. IsEnded(Append(left, End))
    BY <1>6 DEF IsEnded
  <2>4. \A i \in DOMAIN Append(left, End) :
           Append(left, End)[i] = End \/ (i \in DOMAIN left /\ Append(left, End)[i] = left[i])
    BY <1>6
  <2> QED BY <1>2, <1>3, <1>6, <2>1, <2>2, <2>3, <2>4
<1> QED BY <1>7, <1>8

(* It brings back no secret that the text did not hold.                     *)
LEMMA KeptLacksMore ==
    ASSUME NEW text \in Texts, NEW owners, NEW overlapping \in BOOLEAN,
           Orderly(text, owners, overlapping), NEW d, NEW s, Lacks(text, s)
    PROVE  Lacks(Kept(text, d), s)
<1> SUFFICES ASSUME NEW i \in DOMAIN Kept(text, d), Kept(text, d)[i] = Secret(s) PROVE FALSE
  BY DEF Lacks
<1> QED BY KeptIsOrderly, PiecesApart DEF Lacks

(* The first word of a line.                                                *)
LEMMA FirstWordBegins ==
    ASSUME NEW text \in Texts, NEW i \in LineStarts(text), ~IsBlank(text, i)
    PROVE  \E w \in WordStarts(text, i) :
              /\ \A k \in WordStarts(text, i) : w <= k
              /\ FirstWord(text, i)[1] = text[w]
<1> DEFINE W == WordStarts(text, i)
           w == Min(W)
<1>1. W \in SUBSET Nat /\ W \in SUBSET (1..Len(text)) /\ W # {} /\ Len(text) \in Nat
  BY DEF IsBlank, WordStarts, LineAt, LineStarts, Texts
<1>2. w \in W /\ \A k \in W : w <= k
  <2> HIDE DEF W
  <2> QED BY <1>1, FirstPlace
<1>3. w \in DOMAIN text /\ w \in 1..Len(text) /\ text[w] \notin {Gap, End}
  BY <1>1, <1>2 DEF WordStarts, Texts
<1>4. FirstWord(text, i) = WordAt(text, w)
  BY DEF FirstWord
<1> HIDE DEF w, W
<1>5. PICK e \in w..Len(text) : WordAt(text, w) = SubSeq(text, w, e)
  BY <1>3, WordReaches
<1>6. SubSeq(text, w, e)[1] = text[w]
  BY <1>1, <1>3, <1>5 DEF Texts
<1> QED BY <1>2, <1>4, <1>5, <1>6 DEF W

(* A comment is nothing but its beginning and its end.                      *)
LEMMA CommentsAreShort ==
    ASSUME NEW text \in Texts, NEW owners, Orderly(text, owners, FALSE),
           NEW i \in LineStarts(text), IsComment(text, i), NEW j \in LineAt(text, i)
    PROVE  text[j] \in {Hash, End} /\ (j = Len(text) => text[j] = End)
<1>0. i \in Nat /\ j \in Nat /\ i <= j /\ j <= Len(text) /\ i >= 1 /\ Len(text) \in Nat
  BY DEF LineStarts, LineAt, Texts
<1>1. ~IsBlank(text, i) /\ Head(FirstWord(text, i)) = Hash
  BY DEF IsComment
<1>2. PICK w \in WordStarts(text, i) : FirstWord(text, i)[1] = text[w]
  BY <1>1, FirstWordBegins
<1>3. text[w] = Hash
  BY <1>1, <1>2
<1>4. w \in i..Len(text) /\ w \in DOMAIN text /\ \A k \in i..(w - 1) : text[k] # End
  BY <1>0 DEF WordStarts, LineAt, Texts
<1>5. w \in LineStarts(text) /\ w < Len(text) /\ text[w + 1] = End
  BY <1>3, <1>4 DEF Orderly, CommentIsWhole
<1>6. w = i
  <2> SUFFICES ASSUME w # i PROVE FALSE
    OBVIOUS
  <2>1. w - 1 \in i..(w - 1) /\ w > 1
    BY <1>0, <1>4
  <2> QED BY <1>4, <1>5, <2>1 DEF LineStarts
<1>7. j <= i + 1
  <2> SUFFICES ASSUME j > i + 1 PROVE FALSE
    BY <1>0
  <2>1. i + 1 \in i..(j - 1)
    BY <1>0
  <2> QED BY <1>5, <1>6, <2>1 DEF LineAt
<1>8. j = i \/ j = i + 1
  BY <1>0, <1>7
<1> QED BY <1>0, <1>3, <1>5, <1>6, <1>8

(* A line that holds a piece that is neither a gap nor a comment's is one   *)
(* of those that count.                                                     *)
LEMMA EntryOfPlace ==
    ASSUME NEW text \in Texts, NEW owners, Orderly(text, owners, FALSE),
           NEW i \in LineStarts(text), NEW j \in LineAt(text, i), text[j] \notin {Gap, End},
           text[j] # Hash \/ j = Len(text)
    PROVE  i \in EntryStarts(text)
<1>1. ~IsBlank(text, i)
  BY WordOfPlace DEF IsBlank
<1>2. ~IsComment(text, i)
  BY CommentsAreShort
<1> QED BY <1>1, <1>2 DEF EntryStarts

(* Where a store that is accepted ends, a name may be appended: it is       *)
(* either a new line or too late in the last to be its device.              *)
LEMMA SoundIsReady ==
    ASSUME NEW text \in Texts, NEW owners, NEW overlapping \in BOOLEAN,
           Orderly(text, owners, overlapping), ParseStore(text).why = Sound
    PROVE  Ready(text, overlapping)
<1> DEFINE n == Len(text)
<1> SUFFICES ASSUME ~overlapping, text # << >>, text[n] # End
             PROVE  \E j \in DOMAIN text : text[j] = Gap /\ SameLine(text, j, n + 1)
  BY DEF Ready
<1>0. n \in Nat /\ n >= 1 /\ DOMAIN text = 1..n /\ n \in DOMAIN text
  BY DEF Texts
<1>a. Orderly(text, owners, FALSE)
  OBVIOUS
<1>1. PICK i \in LineStarts(text) : n \in LineAt(text, i)
  BY <1>0, LineOfPlace
<1>2. i \in 1..n /\ \A k \in i..(n - 1) : text[k] # End
  BY <1>0, <1>1 DEF LineStarts, LineAt
<1>3. ASSUME NEW j \in i..n, text[j] = Gap PROVE j \in DOMAIN text /\ SameLine(text, j, n + 1)
  <2>1. j \in DOMAIN text
    BY <1>0, <1>2
  <2>2. \A k \in j..((n + 1) - 1) : k \in i..(n - 1) \/ k = n
    <3> HIDE DEF n
    <3> QED BY <1>0, <1>2
  <2> QED BY <1>2, <2>1, <2>2 DEF SameLine
<1>4. CASE text[n] = Gap
  <2>1. n \in i..n
    BY <1>0, <1>2
  <2> QED BY <1>3, <1>4, <2>1
<1>5. CASE text[n] # Gap
  <2>1. i \in EntryStarts(text)
    BY <1>1, <1>5, <1>a, EntryOfPlace
  <2>2. HasTwoFields(text, i)
    BY <2>1, AcceptedStore
  <2>3. PICK j, k \in WordStarts(text, i) : j < k
    BY <1>0, <1>2, <2>2, TwoFields
  <2>4. k - 1 \in i..n /\ text[k - 1] = Gap
    BY <1>0, <1>2, <2>3 DEF WordStarts, LineAt
  <2> QED BY <1>3, <2>4
<1> QED BY <1>4, <1>5

(* Of a store that is accepted, revoke keeps no secret of the device.       *)
LEMMA KeptLacksTheDevice ==
    ASSUME NEW text \in Texts, NEW owners \in Seq(Devices), Orderly(text, owners, FALSE),
           ParseStore(text).why = Sound, NEW s \in 1..MaxMints
    PROVE  Lacks(Kept(text, owners[s]), s)
<1> SUFFICES ASSUME NEW p \in DOMAIN Kept(text, owners[s]), Kept(text, owners[s])[p] = Secret(s)
             PROVE  FALSE
  BY DEF Lacks
<1>1. PICK j \in DOMAIN text :
         /\ text[j] = Secret(s)
         /\ \A l \in LineStarts(text) : j \in LineAt(text, l) => ~IsOwn(text, l, owners[s])
  <2>1. \/ Kept(text, owners[s])[p] = End
        \/ \E j \in DOMAIN text :
              /\ Kept(text, owners[s])[p] = text[j]
              /\ \A l \in LineStarts(text) : j \in LineAt(text, l) => ~IsOwn(text, l, owners[s])
    BY KeptIsOrderly
  <2>2. Secret(s) # End
    BY PiecesApart
  <2> QED BY <2>1, <2>2
<1>2. PICK i \in LineStarts(text) : j \in LineAt(text, i)
  BY LineOfPlace
<1>0. i \in Nat /\ j \in Nat /\ i <= j /\ i >= 1 /\ j <= Len(text) /\ Len(text) \in Nat
  BY <1>2 DEF LineStarts, LineAt, Texts
<1>3. text[j] \notin {Gap, End} /\ text[j] # Hash
  BY <1>1, PiecesApart
<1>4. i \in EntryStarts(text)
  BY <1>2, <1>3, EntryOfPlace
<1>5. HasTwoFields(text, i) /\ AsSecret(LastWord(text, i)) = Sound
  BY <1>4, AcceptedStore
<1>6. PICK t \in DOMAIN owners, k \in WordStarts(text, i) :
         /\ text[k] = Secret(t)
         /\ \A l \in WordStarts(text, i) : l <= k
         /\ FirstWord(text, i) = <<Name(owners[t])>>
  BY <1>4, <1>5, CredentialIsWhole
<1>7. PICK w \in WordStarts(text, i) :
         /\ \A l \in WordStarts(text, i) : w <= l
         /\ FirstWord(text, i)[1] = text[w]
  BY <1>4, FirstWordBegins DEF EntryStarts
(* The secret begins a word, which is not the first of its line.            *)
<1>8. j > 2 /\ text[j - 1] = Gap
  BY <1>1 DEF Orderly, IsInPlace, SecretIsNamed
<1>9. j \in WordStarts(text, i)
  BY <1>2, <1>3, <1>8 DEF WordStarts
<1>10. j # w
  BY <1>1, <1>6, <1>7, PiecesApart
<1>11. j = k
  <2>1. PICK a, b \in WordStarts(text, i) : WordStarts(text, i) = {a, b}
    BY <1>5 DEF HasTwoFields
  <2>2. /\ w \in Nat /\ k \in Nat
    BY <1>0, <1>6, <1>7 DEF WordStarts, LineAt
  <2>3. w <= j /\ j <= k
    BY <1>6, <1>7, <1>9
  <2>4. w # k
    BY <1>0, <1>10, <2>2, <2>3
  <2> QED BY <1>6, <1>7, <1>9, <1>10, <2>1, <2>4
<1>12. s = t
  BY <1>1, <1>6, <1>11, PiecesApart
<1>13. IsOwn(text, i, owners[s])
  BY <1>4, <1>6, <1>12 DEF IsOwn, EntryStarts
<1> QED BY <1>1, <1>2, <1>13

(* What is orderly stays so as secrets are minted and revocations overlap.  *)
LEMMA OrderlyMore ==
    ASSUME NEW text, NEW owners \in Seq(Devices), NEW overlapping \in BOOLEAN,
           Orderly(text, owners, overlapping)
    PROVE  /\ \A d \in Devices : Orderly(text, Append(owners, d), overlapping)
           /\ Orderly(text, owners, TRUE)
<1>1. ASSUME NEW d \in Devices, NEW s \in DOMAIN owners
      PROVE  s \in DOMAIN Append(owners, d) /\ Append(owners, d)[s] = owners[s]
  OBVIOUS
<1>2. ASSUME NEW d \in Devices PROVE Orderly(text, Append(owners, d), overlapping)
  <2> SUFFICES ASSUME NEW i \in DOMAIN text PROVE SecretIsNamed(text, i, Append(owners, d), overlapping)
    BY DEF Orderly, IsInPlace
  <2>1. SecretIsNamed(text, i, owners, overlapping)
    BY DEF Orderly, IsInPlace
  <2> QED BY <1>1, <2>1 DEF SecretIsNamed
<1>3. Orderly(text, owners, TRUE)
  <2> SUFFICES ASSUME NEW i \in DOMAIN text PROVE SecretIsNamed(text, i, owners, TRUE)
    BY DEF Orderly, IsInPlace
  <2>1. SecretIsNamed(text, i, owners, overlapping)
    BY DEF Orderly, IsInPlace
  <2> QED BY <2>1 DEF SecretIsNamed
<1> QED BY <1>2, <1>3

-----------------------------------------------------------------------------
(* The invariant. *)

Entries     == [store : Files \cup {NoFile}, partial : Files \cup {NoFile}]
EnrolSteps  == {"opens", "writes", "parts", "tells", "closes"}
WithTheFile == {"rewrites", "flushes", "renames"}
RevokeSteps == {"reads", "truncates", "flushes directory"} \cup WithTheFile

EnrolJobs  == [op : {"enrol"}, at : EnrolSteps, device : Devices, secret : 1..MaxMints,
               file : Files \cup {NoFile}, alone : BOOLEAN]
RevokeJobs == [op : {"revoke"}, at : RevokeSteps, device : Devices,
               file : Files \cup {NoFile}, kept : Texts, alone : BOOLEAN]

Enrols(c)  == doing[c] \in EnrolJobs
Revokes(c) == doing[c] \in RevokeJobs
TextOf(f)  == contents[f].text

EnrolTypeOK ==
    /\ contents \in [Files -> [text : Texts, flushed : Nat]]
    /\ directory \in Entries
    /\ medium \in SUBSET Entries
    /\ directory \in medium
    /\ doing \in [Sessions -> {Idle} \cup EnrolJobs \cup RevokeJobs]
    /\ minted \in Seq(Devices)
    /\ Len(minted) <= MaxMints
    /\ gone \in SUBSET DOMAIN minted
    /\ overlapped \in BOOLEAN

OneAtATime ==
    /\ \A c, o \in Sessions : Enrols(c) /\ Enrols(o) => c = o
    /\ ~overlapped => \A c, o \in Sessions : Revokes(c) /\ Revokes(o) => c = o
    /\ \A c, o \in Sessions : doing[c] # Idle /\ doing[o] # Idle /\ doing[c].alone => c = o

(* No power cut may leave a store that is written to as the temporary is.   *)
TemporariesAreApart ==
    \A d \in medium :
        /\ d.partial # NoFile => d.store # d.partial
        /\ directory.partial # NoFile => d.store # directory.partial

TextsAreOrderly == \A f \in Files : Orderly(TextOf(f), minted, overlapped)

(* The comment a store begins with was flushed before it could be a store.  *)
CommentsAreFlushed ==
    ~overlapped => \A d \in medium : d.store # NoFile =>
        \A i \in DOMAIN TextOf(d.store) : TextOf(d.store)[i] = Hash => i < contents[d.store].flushed

EnrolmentKnows(c) ==
    /\ doing[c].secret \in DOMAIN minted
    /\ doing[c].secret \notin gone
    /\ minted[doing[c].secret] = doing[c].device
    /\ doing[c].at = "opens" /\ directory.store # NoFile => Ready(TextOf(directory.store), overlapped)
    /\ doing[c].at # "opens" => doing[c].file \in Files /\ doing[c].file # directory.partial
    /\ doing[c].at = "writes" => Ready(TextOf(doing[c].file), overlapped)
    /\ doing[c].at = "parts" => AfterName(TextOf(doing[c].file), doing[c].device, overlapped)
    /\ doing[c].at = "tells" => AfterGap(TextOf(doing[c].file), doing[c].device, overlapped)

(* A revocation that nobody overlaps has the temporary to itself.           *)
HasTheTemporary(c) ==
    /\ directory.partial = doing[c].file
    /\ TextOf(doing[c].file) = IF doing[c].at = "rewrites" THEN << >> ELSE doing[c].kept
    /\ doing[c].at = "renames" => contents[doing[c].file].flushed = Len(doing[c].kept)

HasTheStore(c) ==
    /\ directory = [store |-> doing[c].file, partial |-> NoFile]
    /\ TextOf(doing[c].file) = doing[c].kept

LacksTheDevice(c) ==
    \A s \in DOMAIN minted : minted[s] = doing[c].device => Lacks(doing[c].kept, s)

RevocationKnows(c) ==
    /\ doing[c].at \notin {"reads", "truncates"} => doing[c].file \in Files
    /\ Orderly(doing[c].kept, minted, overlapped)
    /\ IsEnded(doing[c].kept)
    /\ ~overlapped /\ doing[c].at \in WithTheFile => HasTheTemporary(c)
    /\ doing[c].alone /\ doing[c].at = "reads" => Loaded.why = Sound
    /\ ~overlapped /\ doing[c].alone /\ doing[c].at # "reads" => LacksTheDevice(c)
    /\ ~overlapped /\ doing[c].alone /\ doing[c].at = "flushes directory" => HasTheStore(c)

GoneIsNowhere ==
    \A s \in gone :
        /\ \A f \in Files : Lacks(TextOf(f), s)
        /\ \A c \in Sessions : Revokes(c) => Lacks(doing[c].kept, s)

(* What of the files a command may come by, or a start, but for a power cut.*)
IsReached(f) ==
    \/ f \in {directory.store, directory.partial}
    \/ \E c \in Sessions : doing[c] # Idle /\ doing[c].file = f

OutOfReach(s) ==
    /\ \A f \in Files : IsReached(f) => Lacks(TextOf(f), s)
    /\ \A c \in Sessions : /\ Revokes(c) => Lacks(doing[c].kept, s)
                           /\ Enrols(c) => doing[c].secret # s

(* What was taken out without a flush may still be on the medium. *)
OutIsOutOfReach == \A s \in out : s \in DOMAIN minted /\ OutOfReach(s)

CredentialsInv ==
    /\ EnrolTypeOK
    /\ OneAtATime
    /\ TemporariesAreApart
    /\ TextsAreOrderly
    /\ CommentsAreFlushed
    /\ \A c \in Sessions : Enrols(c) => EnrolmentKnows(c)
    /\ \A c \in Sessions : Revokes(c) => RevocationKnows(c)
    /\ GoneIsNowhere

-----------------------------------------------------------------------------
(* What the actions have in common. *)

(* What a command is at, by its step.                                       *)
LEMMA JobKinds ==
    ASSUME EnrolTypeOK, NEW c \in Sessions
    PROVE  /\ doing[c] = Idle \/ Enrols(c) \/ Revokes(c)
           /\ doing[c] = Idle <=> doing[c].at = "idle"
           /\ doing[c].at \in EnrolSteps => Enrols(c)
           /\ doing[c].at \in RevokeSteps => Revokes(c)
           /\ Enrols(c) => /\ doing[c].op = "enrol" /\ doing[c].at \in EnrolSteps
                           /\ doing[c].device \in Devices /\ doing[c].secret \in 1..MaxMints
                           /\ doing[c].file \in Files \cup {NoFile} /\ doing[c].alone \in BOOLEAN
           /\ Revokes(c) => /\ doing[c].op = "revoke" /\ doing[c].at \in RevokeSteps
                            /\ doing[c].device \in Devices /\ doing[c].kept \in Texts
                            /\ doing[c].file \in Files \cup {NoFile} /\ doing[c].alone \in BOOLEAN
<1>1. doing[c] \in {Idle} \cup EnrolJobs \cup RevokeJobs
  BY DEF EnrolTypeOK
<1>2. Idle.at = "idle" /\ "idle" \notin EnrolSteps \cup RevokeSteps
  BY DEF Idle, EnrolSteps, RevokeSteps, WithTheFile
<1>3. Enrols(c) => /\ doing[c].op = "enrol" /\ doing[c].at \in EnrolSteps
                   /\ doing[c].device \in Devices /\ doing[c].secret \in 1..MaxMints
                   /\ doing[c].file \in Files \cup {NoFile} /\ doing[c].alone \in BOOLEAN
  BY DEF Enrols, EnrolJobs
<1>4. Revokes(c) => /\ doing[c].op = "revoke" /\ doing[c].at \in RevokeSteps
                    /\ doing[c].device \in Devices /\ doing[c].kept \in Texts
                    /\ doing[c].file \in Files \cup {NoFile} /\ doing[c].alone \in BOOLEAN
  BY DEF Revokes, RevokeJobs
<1>5. EnrolSteps \cap RevokeSteps = {}
  BY DEF EnrolSteps, RevokeSteps, WithTheFile
<1>6. doing[c] = Idle \/ Enrols(c) \/ Revokes(c)
  BY <1>1 DEF Enrols, Revokes
<1> QED BY <1>2, <1>3, <1>4, <1>5, <1>6

(* The next step of a command, which keeps what it is and knows.            *)
LEMMA NextStep ==
    ASSUME NEW j, NEW f \in Files \cup {NoFile}, NEW k \in Texts
    PROVE  /\ j \in EnrolJobs =>
                 /\ \A at \in EnrolSteps :
                       /\ [j EXCEPT !.at = at] \in EnrolJobs
                       /\ [j EXCEPT !.at = at, !.file = f] \in EnrolJobs
                 /\ [j EXCEPT !.alone = FALSE] \in EnrolJobs
           /\ j \in RevokeJobs =>
                 /\ \A at \in RevokeSteps :
                       /\ [j EXCEPT !.at = at] \in RevokeJobs
                       /\ [j EXCEPT !.at = at, !.file = f] \in RevokeJobs
                       /\ [j EXCEPT !.at = at, !.kept = k] \in RevokeJobs
                 /\ [j EXCEPT !.alone = FALSE] \in RevokeJobs
  BY DEF EnrolJobs, RevokeJobs

(* A file is fresh if nobody holds it or may find it by name.               *)
LEMMA FreshIsFresh ==
    ASSUME EnrolTypeOK, RoomForAFile
    PROVE  /\ Fresh \in Files /\ Fresh # NoFile
           /\ \A c \in Sessions : doing[c] # Idle => doing[c].file # Fresh
           /\ \A d \in medium : d.store # Fresh /\ d.partial # Fresh
           /\ directory.store # Fresh /\ directory.partial # Fresh
<1>1. Nameless \in SUBSET Nat /\ Nameless # {}
  BY EnrolmentAssumption DEF Nameless, Files, RoomForAFile
<1>2. Fresh \in Nameless
  BY <1>1, FirstPlace DEF Fresh
<1>3. /\ Fresh \in Files
      /\ \A c \in Sessions : doing[c].at # "idle" => doing[c].file # Fresh
      /\ \A d \in medium : d.store # Fresh /\ d.partial # Fresh
  BY <1>2 DEF Nameless, Open, InUse
<1>4. \A c \in Sessions : doing[c] # Idle => doing[c].at # "idle"
  BY JobKinds
<1>5. Fresh # NoFile
  BY <1>3, EnrolmentAssumption DEF Files, NoFile
<1>6. directory \in medium
  BY DEF EnrolTypeOK
<1> QED BY <1>3, <1>4, <1>5, <1>6

(* Whoever is at work is alone only if nobody else is.                      *)
LEMMA OthersAreNotAlone ==
    ASSUME EnrolTypeOK, OneAtATime, NEW c \in Sessions, doing[c] # Idle,
           NEW o \in Sessions, o # c, doing[o] # Idle
    PROVE  doing[o].alone = FALSE
<1>1. doing[o].alone \in BOOLEAN
  BY JobKinds
<1>2. ~doing[o].alone
  BY DEF OneAtATime
<1> QED BY <1>1, <1>2

(* That one works at a time is kept by whoever only goes on or stops.       *)
LEMMA GoingOnIsOneAtATime ==
    ASSUME OneAtATime, EnrolTypeOK, overlapped' = overlapped,
           \A o \in Sessions :
              \/ doing'[o] = Idle
              \/ /\ doing[o] # Idle
                 /\ Enrols(o)' => Enrols(o)
                 /\ Revokes(o)' => Revokes(o)
                 /\ doing'[o].alone => doing[o].alone
    PROVE  OneAtATime'
<1>1. "idle" \notin EnrolSteps \cup RevokeSteps /\ Idle.at = "idle"
  BY DEF Idle, EnrolSteps, RevokeSteps, WithTheFile
<1>2. Idle \notin EnrolJobs /\ Idle \notin RevokeJobs
  BY <1>1 DEF EnrolJobs, RevokeJobs
<1>3. \A o \in Sessions : (Enrols(o)' => Enrols(o)) /\ (Revokes(o)' => Revokes(o))
  BY <1>2 DEF Enrols, Revokes
<1>4. \A o \in Sessions : doing'[o] # Idle => doing[o] # Idle /\ (doing'[o].alone => doing[o].alone)
  OBVIOUS
<1> QED BY <1>3, <1>4 DEF OneAtATime

(* An enrolment goes on as long as its file is only written over, and that  *)
(* by a revocation that overlaps another.                                   *)
LEMMA EnrolmentGoesOn ==
    ASSUME EnrolTypeOK, NEW o \in Sessions, Enrols(o), EnrolmentKnows(o),
           overlapped' \in BOOLEAN, overlapped => overlapped',
           doing'[o].at = doing[o].at, doing'[o].device = doing[o].device,
           doing'[o].secret = doing[o].secret, doing'[o].file = doing[o].file,
           \A s \in DOMAIN minted : s \in DOMAIN minted' /\ minted'[s] = minted[s],
           doing[o].secret \notin gone',
           doing[o].at = "opens" /\ directory'.store # NoFile =>
               Ready(contents'[directory'.store].text, overlapped'),
           doing[o].at # "opens" =>
               /\ doing[o].file # directory'.partial
               /\ \/ contents'[doing[o].file].text = TextOf(doing[o].file)
                  \/ /\ overlapped
                     /\ \E kept \in Texts : /\ IsEnded(kept)
                                            /\ contents'[doing[o].file].text = Over(TextOf(doing[o].file), kept)
    PROVE  EnrolmentKnows(o)'
<1> DEFINE f == doing[o].file
           d == doing[o].device
<1>1. d \in Devices
  BY JobKinds
<1>2. doing[o].at # "opens" => f \in Files /\ TextOf(f) \in Texts
  <2>1. \A g \in Files : TextOf(g) \in Texts
    BY DEF EnrolTypeOK, TextOf
  <2> QED BY <2>1 DEF EnrolmentKnows
<1>3. CASE overlapped'
  <2>1. \A text : /\ AfterName(text, d, overlapped) => AfterName(text, d, overlapped')
                  /\ AfterGap(text, d, overlapped) => AfterGap(text, d, overlapped')
                  /\ Ready(text, overlapped')
    BY <1>3 DEF AfterName, AfterGap, Ready
  <2>2. ASSUME doing[o].at # "opens"
        PROVE  /\ AfterName(TextOf(f), d, overlapped) => AfterName(contents'[f].text, d, overlapped')
               /\ AfterGap(TextOf(f), d, overlapped) => AfterGap(contents'[f].text, d, overlapped')
    <3>1. CASE contents'[f].text = TextOf(f)
      BY <2>1, <3>1
    <3>2. CASE overlapped /\ \E kept \in Texts : IsEnded(kept) /\ contents'[f].text = Over(TextOf(f), kept)
      <4>1. PICK kept \in Texts : IsEnded(kept) /\ contents'[f].text = Over(TextOf(f), kept)
        BY <3>2
      <4>2. overlapped = TRUE /\ overlapped' = TRUE
        BY <1>3, <3>2 DEF EnrolTypeOK
      <4> HIDE DEF f, d
      <4> QED BY <1>1, <1>2, <2>2, <4>1, <4>2, OverKeepsThePlace
    <3> QED BY <2>2, <3>1, <3>2
  <2>3. doing[o].at \in {"writes", "parts", "tells"} => doing[o].at # "opens"
    OBVIOUS
  <2>4. /\ doing[o].at = "writes" => Ready(TextOf(f)', overlapped')
        /\ doing[o].at = "parts" => AfterName(TextOf(f)', d, overlapped')
        /\ doing[o].at = "tells" => AfterGap(TextOf(f)', d, overlapped')
    BY <2>1, <2>2, <2>3 DEF EnrolmentKnows, TextOf
  <2> QED BY <1>2, <2>1, <2>4 DEF EnrolmentKnows, TextOf
<1>4. CASE ~overlapped'
  <2>1. ~overlapped /\ overlapped' = overlapped
    BY <1>4 DEF EnrolTypeOK
  <2>2. doing[o].at # "opens" => contents'[f].text = TextOf(f)
    BY <2>1
  <2> QED BY <2>1, <2>2 DEF EnrolmentKnows, TextOf
<1> QED BY <1>3, <1>4

(* A revocation goes on, no longer alone, as long as the temporary is left  *)
(* to it or another revocation overlaps it.                                 *)
LEMMA RevocationGoesOn ==
    ASSUME EnrolTypeOK, NEW o \in Sessions, Revokes(o), RevocationKnows(o),
           overlapped => overlapped',
           doing'[o].at = doing[o].at, doing'[o].file = doing[o].file,
           doing'[o].kept = doing[o].kept, doing'[o].alone = FALSE,
           Orderly(doing[o].kept, minted', overlapped'),
           ~overlapped' /\ doing[o].at \in WithTheFile =>
               /\ directory'.partial = directory.partial
               /\ contents'[doing[o].file] = contents[doing[o].file]
    PROVE  RevocationKnows(o)'
<1>1. ~overlapped' /\ doing[o].at \in WithTheFile => HasTheTemporary(o)'
  BY DEF RevocationKnows, HasTheTemporary, TextOf
<1> QED BY <1>1 DEF RevocationKnows

(* What a server that starts now reads.                                     *)
LEMMA LoadedStore ==
    /\ directory.store = NoFile => Loaded = Empty
    /\ directory.store # NoFile => Loaded = ParseStore(TextOf(directory.store))
<1>1. ~ReadableByOthers(Private)
  BY DEF ReadableByOthers, Private
<1> QED BY <1>1 DEF Loaded, Load, TextOf

(* Whoever begins leaves nobody alone, and the others at what they are at.  *)
LEMMA Beginning ==
    ASSUME EnrolTypeOK, NEW c \in Sessions, doing[c].at = "idle",
           NEW job \in EnrolJobs \cup RevokeJobs, Begins(c, job)
    PROVE  /\ doing' \in [Sessions -> {Idle} \cup EnrolJobs \cup RevokeJobs]
           /\ doing'[c] = job
           /\ \A o \in Sessions \ {c} :
                 /\ doing[o] = Idle => doing'[o] = Idle
                 /\ doing[o] # Idle => doing'[o].alone = FALSE
                 /\ Enrols(o) <=> Enrols(o)'
                 /\ Revokes(o) <=> Revokes(o)'
                 /\ Enrols(o) => /\ doing'[o].at = doing[o].at
                                 /\ doing'[o].device = doing[o].device
                                 /\ doing'[o].secret = doing[o].secret
                                 /\ doing'[o].file = doing[o].file
                 /\ Revokes(o) => /\ doing'[o].at = doing[o].at
                                  /\ doing'[o].file = doing[o].file
                                  /\ doing'[o].kept = doing[o].kept
<1>1. /\ doing'[c] = job
      /\ \A o \in Sessions \ {c} :
            doing'[o] = IF doing[o].at = "idle" THEN Idle ELSE [doing[o] EXCEPT !.alone = FALSE]
  BY DEF Begins
<1>2. ASSUME NEW o \in Sessions \ {c}
      PROVE  /\ doing'[o] \in {Idle} \cup EnrolJobs \cup RevokeJobs
             /\ doing[o] = Idle => doing'[o] = Idle
             /\ doing[o] # Idle => doing'[o].alone = FALSE
             /\ Enrols(o) <=> Enrols(o)'
             /\ Revokes(o) <=> Revokes(o)'
             /\ Enrols(o) => /\ doing'[o].at = doing[o].at
                             /\ doing'[o].device = doing[o].device
                             /\ doing'[o].secret = doing[o].secret
                             /\ doing'[o].file = doing[o].file
             /\ Revokes(o) => /\ doing'[o].at = doing[o].at
                              /\ doing'[o].file = doing[o].file
                              /\ doing'[o].kept = doing[o].kept
  <2>1. \A j \in EnrolJobs : j.op = "enrol" /\ j # Idle /\ j.at # "idle"
    BY DEF EnrolJobs, EnrolSteps, Idle
  <2>2. \A j \in RevokeJobs : j.op = "revoke" /\ j # Idle /\ j.at # "idle"
    <3>1. "idle" \notin RevokeSteps /\ Idle.at = "idle"
      BY DEF RevokeSteps, WithTheFile, Idle
    <3>2. \A j \in RevokeJobs : j.op = "revoke" /\ j.at \in RevokeSteps
      BY DEF RevokeJobs
    <3> QED BY <3>1, <3>2
  <2>3. CASE doing[o] = Idle
    <3>1. doing'[o] = Idle
      BY <1>1, <2>3 DEF Idle
    <3> QED BY <2>1, <2>2, <2>3, <3>1 DEF Enrols, Revokes
  <2>4. CASE Enrols(o)
    <3>1. doing'[o] = [doing[o] EXCEPT !.alone = FALSE]
      BY <1>1, <2>1, <2>4 DEF Enrols
    <3>2. doing'[o] \in EnrolJobs
      BY <2>4, <3>1 DEF Enrols, EnrolJobs
    <3>3. /\ doing'[o].alone = FALSE
          /\ doing'[o].at = doing[o].at
          /\ doing'[o].device = doing[o].device
          /\ doing'[o].secret = doing[o].secret
          /\ doing'[o].file = doing[o].file
      BY <2>4, <3>1 DEF Enrols, EnrolJobs
    <3> QED BY <2>1, <2>2, <2>4, <3>2, <3>3 DEF Enrols, Revokes
  <2>5. CASE Revokes(o)
    <3>1. doing'[o] = [doing[o] EXCEPT !.alone = FALSE]
      BY <1>1, <2>2, <2>5 DEF Revokes
    <3>2. doing'[o] \in RevokeJobs
      BY <2>5, <3>1 DEF Revokes, RevokeJobs
    <3>3. /\ doing'[o].alone = FALSE
          /\ doing'[o].at = doing[o].at
          /\ doing'[o].file = doing[o].file
          /\ doing'[o].kept = doing[o].kept
      BY <2>5, <3>1 DEF Revokes, RevokeJobs
    <3> QED BY <2>1, <2>2, <2>5, <3>2, <3>3 DEF Enrols, Revokes
  <2> QED BY <2>3, <2>4, <2>5, JobKinds
<1>3. doing' \in [Sessions -> {Idle} \cup EnrolJobs \cup RevokeJobs]
  <2>1. \A o \in Sessions : doing'[o] \in {Idle} \cup EnrolJobs \cup RevokeJobs
    BY <1>1, <1>2
  <2>2. \E f : doing' = [o \in Sessions |-> f[o]]
    <3>1. doing' = [o \in Sessions |-> doing'[o]]
      BY DEF Begins
    <3> QED BY <3>1
  <2> QED BY <2>1, <2>2
<1> QED BY <1>1, <1>2, <1>3

(* Whoever goes on, or stops, leaves the others as they are.                *)
LEMMA GoingOn ==
    ASSUME EnrolTypeOK, OneAtATime, NEW c \in Sessions, doing[c] # Idle,
           NEW job \in {Idle} \cup EnrolJobs \cup RevokeJobs,
           doing' = [doing EXCEPT ![c] = job]
    PROVE  /\ doing' \in [Sessions -> {Idle} \cup EnrolJobs \cup RevokeJobs]
           /\ doing'[c] = job
           /\ \A o \in Sessions \ {c} :
                 /\ doing'[o] = doing[o]
                 /\ doing[o] # Idle => doing[o].alone = FALSE
                 /\ Enrols(o) <=> Enrols(o)'
                 /\ Revokes(o) <=> Revokes(o)'
<1>1. doing \in [Sessions -> {Idle} \cup EnrolJobs \cup RevokeJobs]
  BY DEF EnrolTypeOK
<1>2. /\ doing' \in [Sessions -> {Idle} \cup EnrolJobs \cup RevokeJobs]
      /\ doing'[c] = job
      /\ \A o \in Sessions \ {c} : doing'[o] = doing[o]
  BY <1>1
<1>3. \A o \in Sessions \ {c} : doing[o] # Idle => doing[o].alone = FALSE
  BY OthersAreNotAlone
<1> QED BY <1>2, <1>3 DEF Enrols, Revokes

(* Nothing is wrong with an empty file.                                     *)
LEMMA NothingIsOrderly ==
    /\ << >> \in Texts /\ DOMAIN << >> = {} /\ IsEnded(<< >>)
    /\ \A owners, overlapping : Orderly(<< >>, owners, overlapping)
    /\ \A s : Lacks(<< >>, s)
    /\ \A overlapping : Ready(<< >>, overlapping)
    /\ Emptied \in [text : Texts, flushed : Nat] /\ Emptied.text = << >>
  BY DEF Texts, IsEnded, Orderly, Lacks, Ready, Emptied

(* Two revocations at work overlap, and leave each other nothing to know.   *)
LEMMA OverlappedRevocationsGoOn ==
    ASSUME EnrolTypeOK, OneAtATime, NEW c \in Sessions, Revokes(c),
           NEW o \in Sessions \ {c}, Revokes(o), RevocationKnows(o),
           doing'[o] = doing[o], doing[o] # Idle => doing[o].alone = FALSE,
           minted' = minted, overlapped' = overlapped
    PROVE  RevocationKnows(o)'
<1>1. overlapped
  BY DEF OneAtATime
<1>2. doing'[o].alone = FALSE
  BY DEF Revokes, RevokeJobs, Idle
<1>3. Orderly(doing[o].kept, minted', overlapped')
  BY DEF RevocationKnows
<1> QED BY <1>1, <1>2, <1>3, RevocationGoesOn

(* What is written over holds no more than both texts did.                  *)
LEMMA OverLacksMore ==
    ASSUME NEW text \in Texts, NEW written \in Texts, NEW s, Lacks(text, s), Lacks(written, s)
    PROVE  Lacks(Over(text, written), s)
<1> DEFINE over == Over(text, written)
           n == Len(written)
           m == Len(text)
<1>1. /\ over \in Texts /\ m \in Nat /\ n \in Nat
      /\ Len(over) = IF n >= m THEN n ELSE m
      /\ \A k \in 1..n : over[k] = written[k]
      /\ \A k \in (n + 1)..m : over[k] = text[k]
      /\ DOMAIN text = 1..m /\ DOMAIN written = 1..n /\ DOMAIN over = 1..Len(over)
  BY OverText DEF Texts
<1> HIDE DEF over, n, m
<1>2. ASSUME NEW k \in DOMAIN over PROVE over[k] # Secret(s)
  <2>1. CASE k \in 1..n
    BY <1>1, <2>1 DEF Lacks
  <2>2. CASE k \notin 1..n
    <3>1. k \in (n + 1)..m /\ k \in 1..m
      BY <1>1, <2>2
    <3> QED BY <1>1, <3>1 DEF Lacks
  <2> QED BY <2>1, <2>2
<1> QED BY <1>2 DEF Lacks, over

-----------------------------------------------------------------------------
(* Every action keeps the invariant. *)

(* An enrolment begins where a server would read every line of the store.   *)
LEMMA EnrolBeginsKeeps ==
    ASSUME CredentialsInv, NEW c \in Sessions, NEW d \in Devices, EnrolBegins(c, d)
    PROVE  CredentialsInv'
<1> USE DEF CredentialsInv
<1> DEFINE s == Len(minted) + 1
           job == [op |-> "enrol", at |-> "opens", device |-> d, secret |-> s,
                   file |-> NoFile, alone |-> Others(c) = {}]
<1>1. /\ doing[c].at = "idle" /\ Begins(c, job)
      /\ minted' = Append(minted, d) /\ Len(minted) < MaxMints
      /\ UNCHANGED <<contents, directory, medium, gone, overlapped>>
      /\ Loaded.why = Sound
      /\ \A o \in Others(c) : doing[o].op # "enrol"
  BY DEF EnrolBegins
<1>2. /\ minted \in Seq(Devices) /\ Len(minted) \in Nat /\ DOMAIN minted = 1..Len(minted)
      /\ minted' \in Seq(Devices) /\ Len(minted') = s /\ DOMAIN minted' = 1..s
      /\ s \in 1..MaxMints /\ s \notin DOMAIN minted /\ minted'[s] = d
      /\ \A t \in DOMAIN minted : t \in DOMAIN minted' /\ minted'[t] = minted[t]
  BY <1>1, EnrolmentAssumption DEF EnrolTypeOK
<1> HIDE DEF s
<1>3. job \in EnrolJobs
  BY <1>2 DEF EnrolJobs, EnrolSteps
<1>4. /\ job.at = "opens" /\ job.device = d /\ job.secret = s /\ job.file = NoFile
      /\ job.alone = (Others(c) = {})
  OBVIOUS
<1> HIDE DEF job
<1>5. /\ doing' \in [Sessions -> {Idle} \cup EnrolJobs \cup RevokeJobs]
      /\ doing'[c] = job
      /\ \A o \in Sessions \ {c} :
            /\ doing[o] = Idle => doing'[o] = Idle
            /\ doing[o] # Idle => doing'[o].alone = FALSE
            /\ Enrols(o) <=> Enrols(o)'
            /\ Revokes(o) <=> Revokes(o)'
            /\ Revokes(o) => /\ doing'[o].at = doing[o].at
                             /\ doing'[o].file = doing[o].file
                             /\ doing'[o].kept = doing[o].kept
  BY <1>1, <1>3, Beginning
<1>6. EnrolTypeOK'
  BY <1>1, <1>2, <1>5 DEF EnrolTypeOK
<1>7. Enrols(c)' /\ ~Revokes(c)' /\ doing'[c] # Idle
  <2>1. job.op = "enrol" /\ job.at # "idle"
    BY <1>3, <1>4 DEF EnrolJobs
  <2> QED BY <1>3, <1>5, <2>1 DEF Enrols, Revokes, RevokeJobs, Idle
<1>8. ASSUME NEW o \in Sessions \ {c} PROVE ~Enrols(o)' /\ (doing'[o] # Idle => o \in Others(c))
  <2>1. doing'[o] # Idle => o \in Others(c)
    BY <1>5, JobKinds DEF Others
  <2>2. Enrols(o) => o \in Others(c) /\ doing[o].op = "enrol"
    BY JobKinds DEF Others, EnrolSteps
  <2> QED BY <1>1, <1>5, <2>1, <2>2
<1>9. OneAtATime'
  <2>1. \A a, o \in Sessions : Enrols(a)' /\ Enrols(o)' => a = o
    BY <1>8
  <2>2. ASSUME ~overlapped', NEW a \in Sessions, NEW o \in Sessions, Revokes(a)', Revokes(o)' PROVE a = o
    <3>1. a # c /\ o # c
      BY <1>7, <2>2
    <3> QED BY <1>1, <1>5, <2>2, <3>1 DEF OneAtATime
  <2>3. ASSUME NEW a \in Sessions, NEW o \in Sessions, doing'[a] # Idle, doing'[o] # Idle, doing'[a].alone
        PROVE  a = o
    <3>1. a = c
      BY <1>5, <2>3
    <3>2. Others(c) = {}
      BY <1>4, <1>5, <2>3, <3>1
    <3> QED BY <1>8, <2>3, <3>1, <3>2
  <2> QED BY <2>1, <2>2, <2>3 DEF OneAtATime
<1>10. TemporariesAreApart' /\ CommentsAreFlushed'
  BY <1>1 DEF TemporariesAreApart, CommentsAreFlushed, TextOf
<1>11. \A text : Orderly(text, minted, overlapped) => Orderly(text, minted', overlapped')
  <2>1. overlapped \in BOOLEAN
    BY DEF EnrolTypeOK
  <2> QED BY <1>1, <1>2, <2>1, OrderlyMore
<1>12. TextsAreOrderly'
  BY <1>1, <1>11 DEF TextsAreOrderly, TextOf
<1>13. EnrolmentKnows(c)'
  <2>1. s \notin gone'
    BY <1>1, <1>2 DEF EnrolTypeOK
  <2>2. directory.store # NoFile => Ready(TextOf(directory.store), overlapped)
    <3> SUFFICES ASSUME directory.store # NoFile PROVE Ready(TextOf(directory.store), overlapped)
      OBVIOUS
    <3>1. directory.store \in Files /\ TextOf(directory.store) \in Texts /\ overlapped \in BOOLEAN
      BY DEF EnrolTypeOK, Entries, TextOf
    <3> QED BY <1>1, <3>1, LoadedStore, SoundIsReady DEF TextsAreOrderly
  <2> QED BY <1>1, <1>2, <1>4, <1>5, <2>1, <2>2 DEF EnrolmentKnows, TextOf
<1>14. ASSUME NEW o \in Sessions, Revokes(o)' PROVE RevocationKnows(o)'
  <2>1. o # c /\ Revokes(o)
    BY <1>5, <1>7, <1>14
  <2>2. doing[o] # Idle
    BY <2>1 DEF Revokes, RevokeJobs, Idle
  <2>3. Orderly(doing[o].kept, minted', overlapped')
    BY <1>11, <2>1 DEF RevocationKnows
  <2> QED BY <1>1, <1>5, <2>1, <2>2, <2>3, RevocationGoesOn
<1>15. GoneIsNowhere'
  BY <1>1, <1>5, <1>7 DEF GoneIsNowhere, TextOf
<1> QED BY <1>6, <1>8, <1>9, <1>10, <1>12, <1>13, <1>14, <1>15

(* It opens the store it has looked at, or the one that took its place, or  *)
(* a new file.                                                              *)
LEMMA EnrolOpensKeeps ==
    ASSUME CredentialsInv, NEW c \in Sessions, EnrolOpens(c)
    PROVE  CredentialsInv'
<1> USE DEF CredentialsInv
<1> DEFINE f == IF directory.store # NoFile THEN directory.store ELSE Fresh
           job == [doing[c] EXCEPT !.at = "writes", !.file = f]
<1>1. doing[c].at = "opens" /\ UNCHANGED <<minted, gone, overlapped>>
  BY DEF EnrolOpens
<1>2. Enrols(c) /\ doing[c] # Idle /\ ~Revokes(c)
  BY <1>1, JobKinds DEF EnrolSteps, RevokeSteps, WithTheFile
<1>a. NoFile \notin Files
  BY EnrolmentAssumption DEF Files, NoFile
<1>3. /\ directory.store \in Files \cup {NoFile} /\ directory.partial \in Files \cup {NoFile}
      /\ directory \in medium
      /\ \A d \in medium : d.store \in Files \cup {NoFile}
      /\ contents \in [Files -> [text : Texts, flushed : Nat]]
      /\ doing \in [Sessions -> {Idle} \cup EnrolJobs \cup RevokeJobs]
  BY DEF EnrolTypeOK, Entries
<1>4. /\ f \in Files
      /\ f # directory.partial
      /\ doing' = [doing EXCEPT ![c] = job]
      /\ directory' \in Entries /\ directory'.store = f /\ directory'.partial = directory.partial
      /\ medium' = medium \cup {directory'}
      /\ \/ contents' = contents /\ f = directory.store
         \/ contents' = [contents EXCEPT ![f] = Emptied]
  <2>1. CASE directory.store # NoFile
    <3>1. f = directory.store /\ UNCHANGED <<contents, directory, medium>>
          /\ doing' = [doing EXCEPT ![c].at = "writes", ![c].file = f]
      BY <1>1, <2>1 DEF EnrolOpens
    <3>2. doing' = [doing EXCEPT ![c] = job]
      BY <1>3, <3>1
    <3>3. f \in Files /\ f # directory.partial
      <4> HIDE DEF f
      <4> QED BY <1>3, <2>1, <3>1 DEF TemporariesAreApart
    <3> HIDE DEF f, job
    <3> QED BY <1>3, <3>1, <3>2, <3>3 DEF EnrolTypeOK
  <2>2. CASE directory.store = NoFile
    <3>1. /\ f = Fresh /\ RoomForAFile
          /\ contents' = [contents EXCEPT ![f] = Emptied]
          /\ directory' = [directory EXCEPT !.store = f] /\ medium' = medium \cup {directory'}
          /\ doing' = [doing EXCEPT ![c].at = "writes", ![c].file = f]
      BY <1>1, <2>2 DEF EnrolOpens, Enters
    <3>2. doing' = [doing EXCEPT ![c] = job]
      BY <1>3, <3>1
    <3>3. f \in Files /\ f # directory.partial
      <4> HIDE DEF f
      <4> QED BY <3>1, FreshIsFresh
    <3> HIDE DEF f, job
    <3>4. directory' \in Entries /\ directory'.store = f /\ directory'.partial = directory.partial
      BY <3>1, <3>3 DEF EnrolTypeOK, Entries
    <3> QED BY <3>1, <3>2, <3>3, <3>4
  <2> QED BY <2>1, <2>2
<1>5. directory.store # NoFile => contents'[f] = contents[f] \/ contents'[f] = Emptied
  BY <1>3, <1>4
<1>6. directory.store = NoFile => contents' = [contents EXCEPT ![f] = Emptied]
  BY <1>a, <1>4
<1>7. directory.store # NoFile => f = directory.store
  OBVIOUS
<1>8. job \in EnrolJobs /\ job.at = "writes" /\ job.file = f /\ job.alone = doing[c].alone
      /\ job.secret = doing[c].secret /\ job.device = doing[c].device
  <2> HIDE DEF f
  <2> QED BY <1>2, <1>4 DEF Enrols, EnrolJobs, EnrolSteps
<1> HIDE DEF f, job
<1>9. /\ doing' \in [Sessions -> {Idle} \cup EnrolJobs \cup RevokeJobs]
      /\ doing'[c] = job
      /\ \A o \in Sessions \ {c} :
            /\ doing'[o] = doing[o]
            /\ doing[o] # Idle => doing[o].alone = FALSE
            /\ Enrols(o) <=> Enrols(o)'
            /\ Revokes(o) <=> Revokes(o)'
  BY <1>2, <1>4, <1>8, GoingOn
<1>10. \A g \in Files : contents'[g] = contents[g] \/ (g = f /\ contents'[g] = Emptied)
  BY <1>3, <1>4
<1>11. EnrolTypeOK'
  <2>1. contents' \in [Files -> [text : Texts, flushed : Nat]]
    BY <1>3, <1>4, NothingIsOrderly
  <2>2. medium' \in SUBSET Entries /\ directory' \in medium'
    BY <1>4 DEF EnrolTypeOK
  <2> QED BY <1>1, <1>4, <1>9, <2>1, <2>2 DEF EnrolTypeOK
<1>12. Enrols(c)' /\ ~Revokes(c)'
  BY <1>8, <1>9 DEF Enrols, Revokes, EnrolJobs, RevokeJobs
<1>13. OneAtATime'
  BY <1>1, <1>2, <1>8, <1>9, <1>12, GoingOnIsOneAtATime
<1>14. TemporariesAreApart'
  BY <1>4 DEF TemporariesAreApart
<1>15. TextsAreOrderly'
  <2>1. \A g \in Files : contents'[g].text = contents[g].text \/ contents'[g].text = << >>
    BY <1>10, NothingIsOrderly
  <2> QED BY <1>1, <2>1, NothingIsOrderly DEF TextsAreOrderly, TextOf
<1>16. CommentsAreFlushed'
  <2> SUFFICES ASSUME ~overlapped, NEW d \in medium', d.store # NoFile,
                      NEW i \in DOMAIN contents'[d.store].text, contents'[d.store].text[i] = Hash
               PROVE  i < contents'[d.store].flushed
    BY <1>1 DEF CommentsAreFlushed, TextOf
  <2>1. d.store \in Files
    BY <1>3, <1>4
  <2>2. contents'[d.store] # Emptied
    BY NothingIsOrderly
  <2>3. contents'[d.store] = contents[d.store] /\ \E e \in medium : e.store = d.store
    <3>1. contents'[d.store] = contents[d.store]
      BY <1>10, <2>1, <2>2
    <3>2. CASE d \in medium
      BY <3>1, <3>2
    <3>3. CASE d \notin medium
      <4>1. d.store = f
        BY <1>4, <3>3
      <4>2. directory.store # NoFile
        <5> SUFFICES ASSUME directory.store = NoFile PROVE FALSE
          OBVIOUS
        <5> QED BY <1>3, <1>4, <1>6, <2>2, <4>1
      <4> QED BY <1>3, <1>7, <3>1, <4>1, <4>2
    <3> QED BY <3>2, <3>3
  <2> QED BY <2>3 DEF CommentsAreFlushed, TextOf
<1>17. EnrolmentKnows(c)'
  <2>1. Ready(contents'[f].text, overlapped)
    <3>1. CASE contents'[f] = Emptied
      BY <3>1, NothingIsOrderly
    <3>2. CASE contents'[f] # Emptied
      <4>1. contents'[f] = contents[f] /\ directory.store # NoFile
        BY <1>3, <1>4, <1>6, <1>10, <3>2
      <4> QED BY <1>1, <1>2, <1>7, <4>1 DEF EnrolmentKnows, TextOf
    <3> QED BY <3>1, <3>2
  <2>2. EnrolmentKnows(c)
    BY <1>2
  <2> QED BY <1>1, <1>4, <1>8, <1>9, <2>1, <2>2 DEF EnrolmentKnows, TextOf
<1>18. ASSUME NEW o \in Sessions, Enrols(o)' PROVE o = c
  BY <1>2, <1>9, <1>18 DEF OneAtATime
<1>19. ASSUME NEW o \in Sessions, Revokes(o)' PROVE RevocationKnows(o)'
  <2>1. o # c /\ Revokes(o) /\ doing[o] # Idle
    BY <1>9, <1>12, <1>19 DEF Revokes, RevokeJobs, Idle
  <2>2. RevocationKnows(o)
    BY <2>1
  <2>3. ~overlapped /\ doing[o].at \in WithTheFile => contents'[doing[o].file] = contents[doing[o].file]
    <3> SUFFICES ASSUME ~overlapped, doing[o].at \in WithTheFile
                 PROVE  contents'[doing[o].file] = contents[doing[o].file]
      OBVIOUS
    <3>1. doing[o].file \in Files /\ doing[o].file = directory.partial
      BY <2>2 DEF RevocationKnows, HasTheTemporary, WithTheFile
    <3> QED BY <1>4, <1>10, <3>1
  <2> QED BY <1>1, <1>4, <1>9, <2>1, <2>2, <2>3, RevocationGoesOn DEF RevocationKnows
<1>20. GoneIsNowhere'
  <2>1. \A g \in Files : contents'[g].text = contents[g].text \/ contents'[g].text = << >>
    BY <1>10, NothingIsOrderly
  <2>2. ASSUME NEW s \in gone PROVE \A g \in Files : Lacks(contents'[g].text, s)
    BY <2>1, NothingIsOrderly DEF GoneIsNowhere, TextOf
  <2>3. \A o \in Sessions : Revokes(o)' => Revokes(o) /\ doing'[o] = doing[o]
    BY <1>9, <1>12
  <2> QED BY <1>1, <2>2, <2>3 DEF GoneIsNowhere, TextOf
<1> QED BY <1>11, <1>13, <1>14, <1>15, <1>16, <1>17, <1>18, <1>19, <1>20

(* Each piece of its line follows the one before it, or what a revocation   *)
(* that overlaps another wrote over that.                                   *)
LEMMA EnrolWritesKeeps ==
    ASSUME CredentialsInv, NEW c \in Sessions, EnrolWrites(c)
    PROVE  CredentialsInv'
<1> USE DEF CredentialsInv
<1>1. PICK i \in 1..4 :
         /\ doing[c].at = WritesLine[i]
         /\ contents' = [contents EXCEPT ![doing[c].file].text =
                         Append(@, LineOf(doing[c].device, doing[c].secret)[i])]
         /\ IF i = 4 THEN Ends(c) ELSE Goes(c, WritesLine[i + 1])
         /\ UNCHANGED <<directory, medium, minted, gone, overlapped>>
  <2>1. DOMAIN WritesLine = 1..4 /\ Len(WritesLine) = 4
    BY DEF WritesLine
  <2> QED BY <2>1 DEF EnrolWrites
<1> DEFINE f == doing[c].file
           d == doing[c].device
           s == doing[c].secret
           p == LineOf(d, s)[i]
           text == contents[f].text
           job == IF i = 4 THEN Idle ELSE [doing[c] EXCEPT !.at = WritesLine[i + 1]]
<1>2. WritesLine[i] \in EnrolSteps \ {"opens"} /\ (i # 4 => WritesLine[i + 1] \in EnrolSteps \ {"opens"})
  BY DEF WritesLine, EnrolSteps
<1>3. Enrols(c) /\ doing[c] # Idle /\ ~Revokes(c) /\ doing[c].at # "opens" /\ EnrolmentKnows(c)
  BY <1>1, <1>2, JobKinds DEF EnrolSteps, RevokeSteps, WithTheFile
<1>4. /\ f \in Files /\ f # directory.partial
      /\ d \in Devices /\ s \in 1..MaxMints /\ s \in DOMAIN minted /\ s \notin gone /\ minted[s] = d
      /\ text \in Texts /\ Orderly(text, minted, overlapped) /\ overlapped \in BOOLEAN
      /\ i = 1 => Ready(text, overlapped)
      /\ i = 2 => AfterName(text, d, overlapped)
      /\ i = 3 => AfterGap(text, d, overlapped)
  <2>1. d \in Devices /\ s \in 1..MaxMints
    BY <1>3, JobKinds
  <2>2. f \in Files
    BY <1>3 DEF EnrolmentKnows
  <2>3. text \in Texts /\ Orderly(text, minted, overlapped) /\ overlapped \in BOOLEAN
    <3> HIDE DEF f
    <3> QED BY <2>2 DEF EnrolTypeOK, TextsAreOrderly, TextOf
  <2>4. /\ i = 1 => doing[c].at = "writes"
        /\ i = 2 => doing[c].at = "parts"
        /\ i = 3 => doing[c].at = "tells"
    BY <1>1 DEF WritesLine
  <2> QED BY <1>3, <2>1, <2>3, <2>4 DEF EnrolmentKnows, TextOf
<1>5. /\ contents \in [Files -> [text : Texts, flushed : Nat]]
      /\ doing \in [Sessions -> {Idle} \cup EnrolJobs \cup RevokeJobs]
  BY DEF EnrolTypeOK
<1>6. doing' = [doing EXCEPT ![c] = job]
  <2>1. CASE i = 4
    BY <1>1, <1>5, <2>1 DEF Ends
  <2>2. CASE i # 4
    BY <1>1, <1>5, <2>2 DEF Goes
  <2> QED BY <2>1, <2>2
<1>7. contents' = [contents EXCEPT ![f].text = Append(text, p)]
  BY <1>1, <1>5
<1>8. /\ i # 4 => /\ job \in EnrolJobs /\ job.at = WritesLine[i + 1] /\ job.alone = doing[c].alone
                  /\ job.file = f /\ job.secret = s /\ job.device = d
      /\ i = 4 => job = Idle
  <2> SUFFICES ASSUME i # 4
               PROVE /\ job \in EnrolJobs /\ job.at = WritesLine[i + 1] /\ job.alone = doing[c].alone
                     /\ job.file = f /\ job.secret = s /\ job.device = d
    OBVIOUS
  <2>1. WritesLine[i + 1] \in EnrolSteps
    BY <1>2
  <2> QED BY <1>3, <2>1 DEF Enrols, EnrolJobs
<1>9. /\ i = 1 => p = Name(d)
      /\ i = 2 => p = Gap
      /\ i = 3 => p = Secret(s)
      /\ i = 4 => p = End
  BY DEF LineOf
<1> HIDE DEF f, d, s, p, text, job
<1>10. /\ Append(text, p) \in Texts
       /\ Orderly(Append(text, p), minted, overlapped)
       /\ i = 1 => AfterName(Append(text, p), d, overlapped)
       /\ i = 2 => AfterGap(Append(text, p), d, overlapped)
       /\ p \in Pieces /\ p # Hash /\ \A t \in gone : p # Secret(t)
  <2>1. CASE i = 1
    <3>1. p \in Pieces /\ p # Hash /\ \A t \in gone : p # Secret(t)
      BY <1>4, <1>9, <2>1, PiecesApart DEF Pieces
    <3> QED BY <1>4, <1>9, <2>1, <3>1, NameKeepsOrder
  <2>2. CASE i = 2
    <3>1. p \in Pieces /\ p # Hash /\ \A t \in gone : p # Secret(t)
      BY <1>4, <1>9, <2>2, PiecesApart DEF Pieces
    <3> QED BY <1>4, <1>9, <2>2, <3>1, GapKeepsOrder
  <2>3. CASE i = 3
    <3>1. p \in Pieces /\ p # Hash
      BY <1>4, <1>9, <2>3, PiecesApart DEF Pieces
    <3>2. \A t \in gone : p # Secret(t)
      BY <1>4, <1>9, <2>3, PiecesApart
    <3> QED BY <1>4, <1>9, <2>3, <3>1, <3>2, SecretKeepsOrder
  <2>4. CASE i = 4
    <3>1. p \in Pieces /\ p # Hash /\ \A t \in gone : p # Secret(t)
      BY <1>4, <1>9, <2>4, PiecesApart DEF Pieces
    <3> QED BY <1>4, <1>9, <2>4, <3>1, EndKeepsOrder
  <2> QED BY <2>1, <2>2, <2>3, <2>4
<1>11. /\ doing' \in [Sessions -> {Idle} \cup EnrolJobs \cup RevokeJobs]
       /\ doing'[c] = job
       /\ \A o \in Sessions \ {c} :
             /\ doing'[o] = doing[o]
             /\ doing[o] # Idle => doing[o].alone = FALSE
             /\ Enrols(o) <=> Enrols(o)'
             /\ Revokes(o) <=> Revokes(o)'
  BY <1>3, <1>6, <1>8, GoingOn
<1>12. /\ contents' \in [Files -> [text : Texts, flushed : Nat]]
       /\ \A g \in Files : g # f => contents'[g] = contents[g]
       /\ contents'[f].text = Append(text, p) /\ contents'[f].flushed = contents[f].flushed
  BY <1>4, <1>5, <1>7, <1>10
<1>13. EnrolTypeOK'
  BY <1>1, <1>11, <1>12 DEF EnrolTypeOK
<1>14. ~Revokes(c)' /\ (doing'[c] # Idle => i # 4)
  BY <1>8, <1>11 DEF Revokes, EnrolJobs, RevokeJobs, Idle
<1>15. OneAtATime'
  BY <1>1, <1>3, <1>8, <1>11, <1>14, GoingOnIsOneAtATime
<1>16. TemporariesAreApart'
  BY <1>1 DEF TemporariesAreApart
<1>17. TextsAreOrderly'
  BY <1>1, <1>10, <1>12 DEF TextsAreOrderly, TextOf
<1>18. CommentsAreFlushed'
  <2> SUFFICES ASSUME ~overlapped, NEW e \in medium, e.store # NoFile,
                      NEW j \in DOMAIN contents'[e.store].text, contents'[e.store].text[j] = Hash
               PROVE  j < contents'[e.store].flushed
    BY <1>1 DEF CommentsAreFlushed, TextOf
  <2>1. e.store \in Files
    BY DEF EnrolTypeOK, Entries
  <2>2. CASE e.store # f
    BY <1>12, <2>1, <2>2 DEF CommentsAreFlushed, TextOf
  <2>3. CASE e.store = f
    <3>1. /\ Len(text) \in Nat /\ DOMAIN Append(text, p) = 1..(Len(text) + 1) /\ DOMAIN text = 1..Len(text)
          /\ \A k \in 1..Len(text) : Append(text, p)[k] = text[k]
          /\ Append(text, p)[Len(text) + 1] = p
      BY <1>4, <1>10, AppendedText DEF Texts
    <3>2. j \in DOMAIN text /\ text[j] = Hash
      BY <1>10, <1>12, <2>3, <3>1
    <3> QED BY <1>12, <2>3, <3>2 DEF CommentsAreFlushed, TextOf, text
  <2> QED BY <2>2, <2>3
<1>19. ASSUME NEW o \in Sessions, Enrols(o)' PROVE EnrolmentKnows(o)'
  <2>1. o = c
    BY <1>3, <1>11, <1>19 DEF OneAtATime
  <2>2. i # 4
    BY <1>8, <1>11, <1>19, <2>1 DEF Enrols, EnrolJobs, Idle
  <2>3. doing'[c].at = WritesLine[i + 1] /\ doing'[c].file = f /\ doing'[c].secret = s /\ doing'[c].device = d
    BY <1>8, <1>11, <2>2
  <2>4. /\ WritesLine[i + 1] \notin {"opens", "writes"}
        /\ WritesLine[i + 1] = "parts" => i = 1
        /\ WritesLine[i + 1] = "tells" => i = 2
    BY <2>2 DEF WritesLine
  <2> QED BY <1>1, <1>4, <1>10, <1>12, <2>1, <2>3, <2>4 DEF EnrolmentKnows, TextOf
<1>20. ASSUME NEW o \in Sessions, Revokes(o)' PROVE RevocationKnows(o)'
  <2>1. o # c /\ Revokes(o) /\ doing[o] # Idle
    BY <1>11, <1>14, <1>20 DEF Revokes, RevokeJobs, Idle
  <2>2. RevocationKnows(o)
    BY <2>1
  <2>3. ~overlapped /\ doing[o].at \in WithTheFile => contents'[doing[o].file] = contents[doing[o].file]
    <3> SUFFICES ASSUME ~overlapped, doing[o].at \in WithTheFile
                 PROVE  contents'[doing[o].file] = contents[doing[o].file]
      OBVIOUS
    <3>1. doing[o].file \in Files /\ doing[o].file = directory.partial
      BY <2>2 DEF RevocationKnows, HasTheTemporary, WithTheFile
    <3> QED BY <1>4, <1>12, <3>1
  <2> QED BY <1>1, <1>11, <2>1, <2>2, <2>3, RevocationGoesOn DEF RevocationKnows
<1>21. GoneIsNowhere'
  <2>1. ASSUME NEW t \in gone, NEW g \in Files PROVE Lacks(contents'[g].text, t)
    <3>1. Lacks(contents[g].text, t)
      BY DEF GoneIsNowhere, TextOf
    <3>2. CASE g # f
      BY <1>12, <3>1, <3>2
    <3>3. CASE g = f
      <4>1. /\ DOMAIN Append(text, p) = 1..(Len(text) + 1) /\ DOMAIN text = 1..Len(text) /\ Len(text) \in Nat
            /\ \A k \in 1..Len(text) : Append(text, p)[k] = text[k]
            /\ Append(text, p)[Len(text) + 1] = p
        BY <1>4, <1>10, AppendedText DEF Texts
      <4>2. \A k \in 1..Len(text) : text[k] # Secret(t)
        BY <3>1, <3>3, <4>1 DEF Lacks, text
      <4>3. \A k \in 1..(Len(text) + 1) : Append(text, p)[k] # Secret(t)
        BY <1>10, <4>1, <4>2
      <4> QED BY <1>12, <3>3, <4>1, <4>3 DEF Lacks
    <3> QED BY <3>2, <3>3
  <2>2. \A o \in Sessions : Revokes(o)' => Revokes(o) /\ doing'[o] = doing[o]
    BY <1>11, <1>14
  <2> QED BY <1>1, <2>1, <2>2 DEF GoneIsNowhere, TextOf
<1> QED BY <1>13, <1>15, <1>16, <1>17, <1>18, <1>19, <1>20, <1>21

(* A revocation begins at a store that is read to its end; from the second  *)
(* at a time on, nothing is said of what lies between.                      *)
LEMMA RevokeBeginsKeeps ==
    ASSUME CredentialsInv, NEW c \in Sessions, NEW d \in Devices, RevokeBegins(c, d)
    PROVE  CredentialsInv'
<1> USE DEF CredentialsInv
<1> DEFINE job == [op |-> "revoke", at |-> "reads", device |-> d, file |-> NoFile, kept |-> << >>,
                   alone |-> Others(c) = {}]
<1>1. /\ doing[c].at = "idle" /\ Begins(c, job)
      /\ UNCHANGED <<contents, directory, medium, minted, gone>>
      /\ Loaded.why = Sound
      /\ overlapped' = (overlapped \/ \E o \in Others(c) : doing[o].op = "revoke")
  BY DEF RevokeBegins
<1>2. overlapped \in BOOLEAN /\ overlapped' \in BOOLEAN /\ (overlapped => overlapped')
  BY <1>1 DEF EnrolTypeOK
<1>3. job \in RevokeJobs
  BY NothingIsOrderly DEF RevokeJobs, RevokeSteps
<1>4. /\ job.op = "revoke" /\ job.at = "reads" /\ job.kept = << >>
      /\ job.alone = (Others(c) = {})
  OBVIOUS
<1> HIDE DEF job
<1>5. /\ doing' \in [Sessions -> {Idle} \cup EnrolJobs \cup RevokeJobs]
      /\ doing'[c] = job
      /\ \A o \in Sessions \ {c} :
            /\ doing[o] = Idle => doing'[o] = Idle
            /\ doing[o] # Idle => doing'[o].alone = FALSE
            /\ Enrols(o) <=> Enrols(o)'
            /\ Revokes(o) <=> Revokes(o)'
            /\ Enrols(o) => /\ doing'[o].at = doing[o].at
                            /\ doing'[o].device = doing[o].device
                            /\ doing'[o].secret = doing[o].secret
                            /\ doing'[o].file = doing[o].file
            /\ Revokes(o) => /\ doing'[o].at = doing[o].at
                             /\ doing'[o].file = doing[o].file
                             /\ doing'[o].kept = doing[o].kept
  BY <1>1, <1>3, Beginning
<1>6. EnrolTypeOK'
  BY <1>1, <1>2, <1>5 DEF EnrolTypeOK
<1>7. ~Enrols(c)' /\ doing'[c] # Idle
  BY <1>3, <1>4, <1>5 DEF Enrols, EnrolJobs, Idle
<1>8. ASSUME NEW o \in Sessions \ {c}
      PROVE  /\ doing'[o] # Idle => o \in Others(c)
             /\ Revokes(o)' => overlapped'
  <2>1. doing'[o] # Idle => o \in Others(c)
    BY <1>5, JobKinds DEF Others
  <2>2. Revokes(o) => o \in Others(c) /\ doing[o].op = "revoke"
    BY JobKinds DEF Others, RevokeSteps, WithTheFile
  <2> QED BY <1>1, <1>5, <2>1, <2>2
<1>9. OneAtATime'
  <2>1. \A a, o \in Sessions : Enrols(a)' /\ Enrols(o)' => a = o
    BY <1>5, <1>7 DEF OneAtATime
  <2>2. ASSUME ~overlapped', NEW a \in Sessions, NEW o \in Sessions, Revokes(a)', Revokes(o)' PROVE a = o
    <3>1. a = c /\ o = c
      BY <1>8, <2>2
    <3> QED BY <3>1
  <2>3. ASSUME NEW a \in Sessions, NEW o \in Sessions, doing'[a] # Idle, doing'[o] # Idle, doing'[a].alone
        PROVE  a = o
    <3>1. a = c
      BY <1>5, <2>3
    <3>2. Others(c) = {}
      BY <1>4, <1>5, <2>3, <3>1
    <3> QED BY <1>8, <2>3, <3>1, <3>2
  <2> QED BY <2>1, <2>2, <2>3 DEF OneAtATime
<1>10. TemporariesAreApart' /\ CommentsAreFlushed'
  BY <1>1, <1>2 DEF TemporariesAreApart, CommentsAreFlushed, TextOf
<1>11. \A text : Orderly(text, minted, overlapped) => Orderly(text, minted', overlapped')
  <2>1. overlapped' = overlapped \/ overlapped' = TRUE
    BY <1>2
  <2>2. minted \in Seq(Devices)
    BY DEF EnrolTypeOK
  <2> QED BY <1>1, <1>2, <2>1, <2>2, OrderlyMore
<1>12. TextsAreOrderly'
  BY <1>1, <1>11 DEF TextsAreOrderly, TextOf
<1>13. ASSUME NEW o \in Sessions, Enrols(o)' PROVE EnrolmentKnows(o)'
  <2>1. o # c /\ Enrols(o)
    BY <1>5, <1>7, <1>13
  <2>2. EnrolmentKnows(o)
    BY <2>1
  <2>3. doing[o].at = "opens" /\ directory'.store # NoFile => Ready(contents'[directory'.store].text, overlapped')
    BY <1>1, <1>2, <2>2 DEF EnrolmentKnows, Ready, TextOf
  <2>4. doing[o].secret \notin gone' /\ (doing[o].at # "opens" => doing[o].file # directory'.partial)
    BY <1>1, <2>2 DEF EnrolmentKnows
  <2>5. /\ doing'[o].at = doing[o].at /\ doing'[o].device = doing[o].device
        /\ doing'[o].secret = doing[o].secret /\ doing'[o].file = doing[o].file
    BY <1>5, <2>1
  <2>6. /\ contents'[doing[o].file].text = TextOf(doing[o].file)
        /\ \A s \in DOMAIN minted : s \in DOMAIN minted' /\ minted'[s] = minted[s]
    BY <1>1 DEF TextOf
  <2> QED BY <1>2, <2>1, <2>2, <2>3, <2>4, <2>5, <2>6, EnrolmentGoesOn
<1>14. ASSUME NEW o \in Sessions, Revokes(o)' PROVE RevocationKnows(o)'
  <2>1. CASE o = c
    <3>1. Loaded'.why = Sound
      <4>1. Loaded' = Loaded
        BY <1>1 DEF Loaded
      <4> QED BY <1>1, <4>1
    <3>2. doing'[o].at = "reads" /\ doing'[o].kept = << >>
      BY <1>4, <1>5, <2>1
    <3> QED BY <3>1, <3>2, NothingIsOrderly DEF RevocationKnows, WithTheFile
  <2>2. CASE o # c
    <3>1. Revokes(o) /\ doing[o] # Idle
      BY <1>5, <1>14, <2>2 DEF Revokes, RevokeJobs, Idle
    <3>2. RevocationKnows(o) /\ Orderly(doing[o].kept, minted', overlapped')
      BY <1>11, <3>1 DEF RevocationKnows
    <3> QED BY <1>1, <1>2, <1>5, <2>2, <3>1, <3>2, RevocationGoesOn
  <2> QED BY <2>1, <2>2
<1>15. GoneIsNowhere'
  <2>1. ASSUME NEW t \in gone, NEW o \in Sessions, Revokes(o)' PROVE Lacks(doing'[o].kept, t)
    <3>1. CASE o = c
      BY <1>4, <1>5, <3>1, NothingIsOrderly
    <3>2. CASE o # c
      BY <1>5, <2>1, <3>2 DEF GoneIsNowhere
    <3> QED BY <3>1, <3>2
  <2> QED BY <1>1, <2>1 DEF GoneIsNowhere, TextOf
<1> QED BY <1>6, <1>9, <1>10, <1>12, <1>13, <1>14, <1>15

(* It keeps of the store what is not the device's.                          *)
LEMMA RevokeReadsKeeps ==
    ASSUME CredentialsInv, NEW c \in Sessions, RevokeReads(c)
    PROVE  CredentialsInv'
<1> USE DEF CredentialsInv
<1> DEFINE text == contents[directory.store].text
           d == doing[c].device
           going == directory.store # NoFile /\ Owns(text, d)
           job == IF going THEN [doing[c] EXCEPT !.at = "truncates", !.kept = Kept(text, d)] ELSE Idle
<1>1. doing[c].at = "reads" /\ UNCHANGED <<contents, directory, medium, minted, gone, overlapped>>
  BY DEF RevokeReads
<1>2. Revokes(c) /\ doing[c] # Idle /\ ~Enrols(c)
  BY <1>1, JobKinds DEF EnrolSteps, RevokeSteps
<1>3. doing' = [doing EXCEPT ![c] = job]
  <2>1. doing \in [Sessions -> {Idle} \cup EnrolJobs \cup RevokeJobs]
    BY DEF EnrolTypeOK
  <2>2. CASE going
    BY <1>1, <2>1, <2>2 DEF RevokeReads
  <2>3. CASE ~going
    BY <1>1, <2>1, <2>3 DEF RevokeReads, Ends
  <2> QED BY <2>2, <2>3
<1>4. going => /\ directory.store \in Files
               /\ text \in Texts /\ Orderly(text, minted, overlapped) /\ overlapped \in BOOLEAN
               /\ minted \in Seq(Devices)
  BY DEF EnrolTypeOK, Entries, TextsAreOrderly, TextOf
<1>5. going => /\ Kept(text, d) \in Texts
               /\ IsEnded(Kept(text, d))
               /\ Orderly(Kept(text, d), minted, overlapped)
               /\ \A s : Lacks(text, s) => Lacks(Kept(text, d), s)
  <2> HIDE DEF text, d, going
  <2> QED BY <1>4, KeptIsOrderly, KeptLacksMore
<1>6. /\ going => /\ job \in RevokeJobs /\ job.at = "truncates" /\ job.kept = Kept(text, d)
                  /\ job.device = d /\ job.alone = doing[c].alone
      /\ ~going => job = Idle
  <2> SUFFICES ASSUME going
               PROVE  /\ job \in RevokeJobs /\ job.at = "truncates" /\ job.kept = Kept(text, d)
                      /\ job.device = d /\ job.alone = doing[c].alone
    OBVIOUS
  <2>1. Kept(text, d) \in Texts
    BY <1>5
  <2>2. job = [doing[c] EXCEPT !.at = "truncates", !.kept = Kept(text, d)]
    OBVIOUS
  <2> HIDE DEF job, text, going
  <2> QED BY <1>2, <2>1, <2>2 DEF Revokes, RevokeJobs, RevokeSteps
<1>7. going => Loaded = ParseStore(text)
  BY LoadedStore DEF TextOf
<1> HIDE DEF text, d, going, job
<1>8. /\ doing' \in [Sessions -> {Idle} \cup EnrolJobs \cup RevokeJobs]
      /\ doing'[c] = job
      /\ \A o \in Sessions \ {c} :
            /\ doing'[o] = doing[o]
            /\ doing[o] # Idle => doing[o].alone = FALSE
            /\ Enrols(o) <=> Enrols(o)'
            /\ Revokes(o) <=> Revokes(o)'
  BY <1>2, <1>3, <1>6, GoingOn
<1>9. EnrolTypeOK'
  BY <1>1, <1>8 DEF EnrolTypeOK
<1>10. ~Enrols(c)' /\ (doing'[c] # Idle => going)
  BY <1>6, <1>8 DEF Enrols, EnrolJobs, RevokeJobs, Idle
<1>11. OneAtATime'
  BY <1>1, <1>2, <1>6, <1>8, <1>10, GoingOnIsOneAtATime
<1>12. TemporariesAreApart' /\ TextsAreOrderly' /\ CommentsAreFlushed'
  BY <1>1 DEF TemporariesAreApart, TextsAreOrderly, CommentsAreFlushed, TextOf
<1>13. ASSUME NEW o \in Sessions, Enrols(o)' PROVE EnrolmentKnows(o)'
  <2>1. o # c /\ Enrols(o) /\ doing'[o] = doing[o]
    BY <1>8, <1>10, <1>13
  <2>2. EnrolmentKnows(o)
    BY <2>1
  <2> QED BY <1>1, <2>1, <2>2 DEF EnrolmentKnows, TextOf
<1>14. ASSUME NEW o \in Sessions, Revokes(o)' PROVE RevocationKnows(o)'
  <2>1. CASE o = c
    <3>1. going
      BY <1>8, <1>10, <1>14, <2>1 DEF Revokes, RevokeJobs, Idle
    <3>2. /\ doing'[o].at = "truncates" /\ doing'[o].kept = Kept(text, d)
          /\ doing'[o].device = d /\ doing'[o].alone = doing[c].alone
      BY <1>6, <1>8, <2>1, <3>1
    <3>3. ASSUME ~overlapped, doing[c].alone, NEW s \in DOMAIN minted, minted[s] = d
          PROVE  Lacks(Kept(text, d), s)
      <4>1. ParseStore(text).why = Sound
        BY <1>1, <1>2, <1>7, <3>1, <3>3 DEF RevocationKnows
      <4>2. s \in 1..MaxMints
        BY EnrolmentAssumption DEF EnrolTypeOK
      <4>3. overlapped = FALSE
        BY <1>4, <3>1, <3>3
      <4>4. Orderly(text, minted, FALSE)
        BY <1>4, <3>1, <4>3
      <4> QED BY <1>4, <3>1, <3>3, <4>1, <4>2, <4>4, KeptLacksTheDevice
    <3> QED BY <1>1, <1>5, <3>1, <3>2, <3>3 DEF RevocationKnows, LacksTheDevice, WithTheFile
  <2>2. CASE o # c
    <3>1. Revokes(o) /\ doing[o] # Idle
      BY <1>8, <1>14, <2>2 DEF Revokes, RevokeJobs, Idle
    <3>2. RevocationKnows(o) /\ Orderly(doing[o].kept, minted', overlapped')
      BY <1>1, <3>1 DEF RevocationKnows
    <3> QED BY <1>1, <1>8, <2>2, <3>1, <3>2, RevocationGoesOn
  <2> QED BY <2>1, <2>2
<1>15. GoneIsNowhere'
  <2>1. ASSUME NEW t \in gone, NEW o \in Sessions, Revokes(o)' PROVE Lacks(doing'[o].kept, t)
    <3>1. CASE o = c
      <4>1. going
        BY <1>8, <1>10, <2>1, <3>1 DEF Revokes, RevokeJobs, Idle
      <4>2. Lacks(text, t)
        BY <1>4, <4>1 DEF GoneIsNowhere, TextOf, text
      <4> QED BY <1>5, <1>6, <1>8, <3>1, <4>1, <4>2
    <3>2. CASE o # c
      BY <1>8, <2>1, <3>2 DEF GoneIsNowhere
    <3> QED BY <3>1, <3>2
  <2> QED BY <1>1, <2>1 DEF GoneIsNowhere, TextOf
<1> QED BY <1>9, <1>11, <1>12, <1>13, <1>14, <1>15

(* It takes the temporary, and empties it, or makes a new one.              *)
LEMMA RevokeTruncatesKeeps ==
    ASSUME CredentialsInv, NEW c \in Sessions, RevokeTruncates(c)
    PROVE  CredentialsInv'
<1> USE DEF CredentialsInv
<1> DEFINE f == IF directory.partial # NoFile THEN directory.partial ELSE Fresh
           job == [doing[c] EXCEPT !.at = "rewrites", !.file = f]
<1>1. doing[c].at = "truncates" /\ UNCHANGED <<minted, gone, overlapped>>
  BY DEF RevokeTruncates
<1>2. Revokes(c) /\ doing[c] # Idle /\ ~Enrols(c)
  BY <1>1, JobKinds DEF EnrolSteps, RevokeSteps
<1>3. /\ directory.store \in Files \cup {NoFile} /\ directory.partial \in Files \cup {NoFile}
      /\ directory \in medium /\ directory \in Entries
      /\ \A d \in medium : d.store \in Files \cup {NoFile}
      /\ contents \in [Files -> [text : Texts, flushed : Nat]]
      /\ doing \in [Sessions -> {Idle} \cup EnrolJobs \cup RevokeJobs]
  BY DEF EnrolTypeOK, Entries
<1>4. /\ f \in Files
      /\ \A d \in medium : d.store # f
      /\ \A o \in Sessions : Enrols(o) /\ doing[o].at # "opens" => doing[o].file # f
      /\ contents' = [contents EXCEPT ![f] = Emptied]
      /\ doing' = [doing EXCEPT ![c] = job]
      /\ directory' \in Entries /\ directory'.store = directory.store /\ directory'.partial = f
      /\ medium' = medium \cup {directory'}
  <2>1. contents' = [contents EXCEPT ![f] = Emptied] /\ doing' = [doing EXCEPT ![c] = job]
    <3>1. /\ contents' = [contents EXCEPT ![f] = Emptied]
          /\ doing' = [doing EXCEPT ![c].at = "rewrites", ![c].file = f]
      BY DEF RevokeTruncates
    <3> QED BY <1>3, <3>1
  <2>2. CASE directory.partial # NoFile
    <3>1. f = directory.partial /\ UNCHANGED <<directory, medium>>
      BY <2>2 DEF RevokeTruncates
    <3>2. \A o \in Sessions : Enrols(o) /\ doing[o].at # "opens" => doing[o].file # f
      BY <3>1 DEF EnrolmentKnows
    <3> HIDE DEF f, job
    <3> QED BY <1>3, <2>1, <2>2, <3>1, <3>2 DEF TemporariesAreApart
  <2>3. CASE directory.partial = NoFile
    <3>1. /\ f = Fresh /\ RoomForAFile
          /\ directory' = [directory EXCEPT !.partial = f] /\ medium' = medium \cup {directory'}
      BY <2>3 DEF RevokeTruncates, Enters
    <3>2. f \in Files /\ (\A d \in medium : d.store # f)
          /\ \A o \in Sessions : doing[o] # Idle => doing[o].file # f
      <4> HIDE DEF f
      <4> QED BY <3>1, FreshIsFresh
    <3>3. \A o \in Sessions : Enrols(o) => doing[o] # Idle
      BY JobKinds DEF Enrols, EnrolJobs, Idle
    <3> HIDE DEF f, job
    <3>4. directory' \in Entries /\ directory'.store = directory.store /\ directory'.partial = f
      BY <1>3, <3>1, <3>2 DEF Entries
    <3> QED BY <2>1, <3>1, <3>2, <3>3, <3>4
  <2> QED BY <2>2, <2>3
<1> HIDE DEF f
<1>5. /\ job \in RevokeJobs /\ job.at = "rewrites" /\ job.file = f /\ job.alone = doing[c].alone
      /\ job.kept = doing[c].kept /\ job.device = doing[c].device
  BY <1>2, <1>4 DEF Revokes, RevokeJobs, RevokeSteps, WithTheFile
<1> HIDE DEF job
<1>6. /\ doing' \in [Sessions -> {Idle} \cup EnrolJobs \cup RevokeJobs]
      /\ doing'[c] = job
      /\ \A o \in Sessions \ {c} :
            /\ doing'[o] = doing[o]
            /\ doing[o] # Idle => doing[o].alone = FALSE
            /\ Enrols(o) <=> Enrols(o)'
            /\ Revokes(o) <=> Revokes(o)'
  BY <1>2, <1>4, <1>5, GoingOn
<1>7. /\ contents' \in [Files -> [text : Texts, flushed : Nat]]
      /\ \A g \in Files : g # f => contents'[g] = contents[g]
      /\ contents'[f] = Emptied /\ contents'[f].text = << >>
  BY <1>3, <1>4, NothingIsOrderly
<1>8. EnrolTypeOK'
  <2>1. medium' \in SUBSET Entries /\ directory' \in medium'
    BY <1>4 DEF EnrolTypeOK
  <2> QED BY <1>1, <1>4, <1>6, <1>7, <2>1 DEF EnrolTypeOK
<1>9. ~Enrols(c)' /\ Revokes(c)'
  BY <1>5, <1>6 DEF Enrols, Revokes, EnrolJobs, RevokeJobs
<1>10. OneAtATime'
  BY <1>1, <1>2, <1>5, <1>6, <1>9, GoingOnIsOneAtATime
<1>11. TemporariesAreApart'
  BY <1>3, <1>4 DEF TemporariesAreApart
<1>12. TextsAreOrderly'
  BY <1>1, <1>7, NothingIsOrderly DEF TextsAreOrderly, TextOf
<1>13. CommentsAreFlushed'
  <2> SUFFICES ASSUME ~overlapped, NEW d \in medium', d.store # NoFile,
                      NEW i \in DOMAIN contents'[d.store].text, contents'[d.store].text[i] = Hash
               PROVE  i < contents'[d.store].flushed
    BY <1>1 DEF CommentsAreFlushed, TextOf
  <2>1. \E e \in medium : e.store = d.store /\ e.store # f
    BY <1>3, <1>4
  <2>2. contents'[d.store] = contents[d.store]
    BY <1>3, <1>7, <2>1
  <2> QED BY <2>1, <2>2 DEF CommentsAreFlushed, TextOf
<1>14. ASSUME NEW o \in Sessions, Enrols(o)' PROVE EnrolmentKnows(o)'
  <2>1. o # c /\ Enrols(o) /\ doing'[o] = doing[o]
    BY <1>6, <1>9, <1>14
  <2>2. EnrolmentKnows(o)
    BY <2>1
  <2>3. doing[o].at # "opens" => /\ doing[o].file # f
                                 /\ contents'[doing[o].file] = contents[doing[o].file]
    BY <1>4, <1>7, <2>1, <2>2 DEF EnrolmentKnows
  <2>4. directory.store # NoFile => contents'[directory.store] = contents[directory.store]
    BY <1>3, <1>4, <1>7
  <2>5. doing[o].at = "writes" \/ doing[o].at = "parts" \/ doing[o].at = "tells" => doing[o].at # "opens"
    OBVIOUS
  <2> QED BY <1>1, <1>4, <2>1, <2>2, <2>3, <2>4, <2>5 DEF EnrolmentKnows, TextOf
<1>15. ASSUME NEW o \in Sessions, Revokes(o)' PROVE RevocationKnows(o)'
  <2>1. CASE o = c
    <3>1. /\ doing'[o].at = "rewrites" /\ doing'[o].file = f /\ doing'[o].kept = doing[c].kept
          /\ doing'[o].device = doing[c].device /\ doing'[o].alone = doing[c].alone
      BY <1>5, <1>6, <2>1
    <3>2. RevocationKnows(c)
      BY <1>2
    <3> QED BY <1>1, <1>4, <1>7, <3>1, <3>2 DEF RevocationKnows, LacksTheDevice, HasTheTemporary, TextOf
  <2>2. CASE o # c
    BY <1>1, <1>2, <1>6, <1>15, <2>2, OverlappedRevocationsGoOn
  <2> QED BY <2>1, <2>2
<1>16. GoneIsNowhere'
  <2>1. ASSUME NEW t \in gone, NEW g \in Files PROVE Lacks(contents'[g].text, t)
    BY <1>7, NothingIsOrderly DEF GoneIsNowhere, TextOf
  <2>2. ASSUME NEW t \in gone, NEW o \in Sessions, Revokes(o)' PROVE Lacks(doing'[o].kept, t)
    BY <1>2, <1>5, <1>6, <2>2 DEF GoneIsNowhere
  <2> QED BY <1>1, <2>1, <2>2 DEF GoneIsNowhere, TextOf
<1> QED BY <1>8, <1>10, <1>11, <1>12, <1>13, <1>14, <1>15, <1>16

(* It writes what it kept over what is there, which is nothing unless       *)
(* another revocation wrote before it.                                      *)
LEMMA RevokeRewritesKeeps ==
    ASSUME CredentialsInv, NEW c \in Sessions, RevokeRewrites(c)
    PROVE  CredentialsInv'
<1> USE DEF CredentialsInv
<1> DEFINE f == doing[c].file
           kept == doing[c].kept
           text == contents[f].text
           job == [doing[c] EXCEPT !.at = "flushes"]
<1>1. doing[c].at = "rewrites" /\ UNCHANGED <<directory, medium, minted, gone, overlapped>>
  BY DEF RevokeRewrites
<1>2. Revokes(c) /\ doing[c] # Idle /\ ~Enrols(c) /\ RevocationKnows(c)
  BY <1>1, JobKinds DEF EnrolSteps, RevokeSteps, WithTheFile
<1>3. /\ \A d \in medium : d.store \in Files \cup {NoFile}
      /\ directory \in medium
      /\ contents \in [Files -> [text : Texts, flushed : Nat]]
      /\ doing \in [Sessions -> {Idle} \cup EnrolJobs \cup RevokeJobs]
      /\ overlapped \in BOOLEAN
  BY DEF EnrolTypeOK, Entries
<1>4. /\ f \in Files /\ kept \in Texts /\ IsEnded(kept) /\ Orderly(kept, minted, overlapped)
      /\ ~overlapped => directory.partial = f /\ text = << >>
      /\ kept \in Texts
  BY <1>1, <1>2, JobKinds DEF RevocationKnows, HasTheTemporary, WithTheFile, TextOf
<1>5. doing' = [doing EXCEPT ![c] = job]
  BY <1>1, <1>3 DEF RevokeRewrites, Goes
<1>6. contents' = [contents EXCEPT ![f] = [text |-> Over(text, kept), flushed |-> 0]]
  BY <1>3, <1>4 DEF RevokeRewrites
<1>7. /\ job \in RevokeJobs /\ job.at = "flushes" /\ job.file = f /\ job.alone = doing[c].alone
      /\ job.kept = kept /\ job.device = doing[c].device
  BY <1>2 DEF Revokes, RevokeJobs, RevokeSteps, WithTheFile
<1>8. text \in Texts /\ Orderly(text, minted, overlapped)
  <2>1. \A g \in Files : contents[g].text \in Texts /\ Orderly(contents[g].text, minted, overlapped)
    BY <1>3 DEF TextsAreOrderly, TextOf
  <2> HIDE DEF f
  <2> QED BY <1>4, <2>1
<1> HIDE DEF f, kept, text, job
<1>a. ~overlapped => f # NoFile
  BY <1>4, EnrolmentAssumption DEF Files, NoFile
<1>9. Over(text, kept) \in Texts /\ Orderly(Over(text, kept), minted, overlapped)
  <2>1. Orderly(Over(text, kept), minted, overlapped)
    BY <1>3, <1>4, <1>8, OverKeepsOrder
  <2> QED BY <1>4, <1>8, <2>1, OverText
<1>10. /\ doing' \in [Sessions -> {Idle} \cup EnrolJobs \cup RevokeJobs]
       /\ doing'[c] = job
       /\ \A o \in Sessions \ {c} :
             /\ doing'[o] = doing[o]
             /\ doing[o] # Idle => doing[o].alone = FALSE
             /\ Enrols(o) <=> Enrols(o)'
             /\ Revokes(o) <=> Revokes(o)'
  BY <1>2, <1>5, <1>7, GoingOn
<1>11. /\ contents' \in [Files -> [text : Texts, flushed : Nat]]
       /\ \A g \in Files : g # f => contents'[g] = contents[g]
       /\ contents'[f].text = Over(text, kept)
  BY <1>3, <1>4, <1>6, <1>9
<1>12. EnrolTypeOK'
  BY <1>1, <1>10, <1>11 DEF EnrolTypeOK
<1>13. ~Enrols(c)' /\ Revokes(c)'
  BY <1>7, <1>10 DEF Enrols, Revokes, EnrolJobs, RevokeJobs
<1>14. OneAtATime'
  BY <1>1, <1>2, <1>7, <1>10, <1>13, GoingOnIsOneAtATime
<1>15. TemporariesAreApart'
  BY <1>1 DEF TemporariesAreApart
<1>16. TextsAreOrderly'
  BY <1>1, <1>9, <1>11 DEF TextsAreOrderly, TextOf
<1>17. \A d \in medium : ~overlapped => d.store # f
  BY <1>4, <1>a DEF TemporariesAreApart
<1>18. CommentsAreFlushed'
  <2> SUFFICES ASSUME ~overlapped, NEW d \in medium, d.store # NoFile
               PROVE  contents'[d.store] = contents[d.store]
    BY <1>1 DEF CommentsAreFlushed, TextOf
  <2> QED BY <1>3, <1>11, <1>17
<1>19. ASSUME NEW o \in Sessions, Enrols(o)' PROVE EnrolmentKnows(o)'
  <2>1. o # c /\ Enrols(o) /\ doing'[o] = doing[o]
    BY <1>10, <1>13, <1>19
  <2>2. EnrolmentKnows(o)
    BY <2>1
  <2>3. doing[o].at = "opens" /\ directory'.store # NoFile => Ready(contents'[directory'.store].text, overlapped')
    <3>1. CASE overlapped
      BY <1>1, <3>1 DEF Ready
    <3>2. CASE ~overlapped
      <4>1. directory.store # NoFile => contents'[directory.store] = contents[directory.store]
        BY <1>3, <1>11, <1>17, <3>2
      <4> QED BY <1>1, <2>2, <4>1 DEF EnrolmentKnows, TextOf
    <3> QED BY <3>1, <3>2
  <2>4. ASSUME doing[o].at # "opens"
        PROVE  /\ doing[o].file # directory'.partial
               /\ \/ contents'[doing[o].file].text = TextOf(doing[o].file)
                  \/ /\ overlapped
                     /\ \E k \in Texts : /\ IsEnded(k)
                                         /\ contents'[doing[o].file].text = Over(TextOf(doing[o].file), k)
    <3>1. doing[o].file \in Files /\ doing[o].file # directory.partial
      BY <2>2, <2>4 DEF EnrolmentKnows
    <3>2. CASE doing[o].file # f
      BY <1>1, <1>11, <3>1, <3>2 DEF TextOf
    <3>3. CASE doing[o].file = f
      BY <1>1, <1>4, <1>11, <3>1, <3>3 DEF TextOf, text
    <3> QED BY <3>2, <3>3
  <2>5. /\ doing[o].secret \notin gone' /\ overlapped' \in BOOLEAN /\ (overlapped => overlapped')
        /\ \A s \in DOMAIN minted : s \in DOMAIN minted' /\ minted'[s] = minted[s]
    BY <1>1, <1>3, <2>2 DEF EnrolmentKnows
  <2> QED BY <2>1, <2>2, <2>3, <2>4, <2>5, EnrolmentGoesOn
<1>20. ASSUME NEW o \in Sessions, Revokes(o)' PROVE RevocationKnows(o)'
  <2>1. CASE o = c
    <3>1. /\ doing'[o].at = "flushes" /\ doing'[o].file = f /\ doing'[o].kept = doing[c].kept
          /\ doing'[o].device = doing[c].device /\ doing'[o].alone = doing[c].alone
      BY <1>7, <1>10, <2>1 DEF kept
    <3>2. ~overlapped => contents'[f].text = doing[c].kept
      BY <1>4, <1>11, OverNothing DEF kept
    <3> QED BY <1>1, <1>2, <1>4, <3>1, <3>2 DEF RevocationKnows, LacksTheDevice, HasTheTemporary, TextOf
  <2>2. CASE o # c
    BY <1>1, <1>2, <1>10, <1>20, <2>2, OverlappedRevocationsGoOn
  <2> QED BY <2>1, <2>2
<1>21. GoneIsNowhere'
  <2>1. ASSUME NEW t \in gone, NEW g \in Files PROVE Lacks(contents'[g].text, t)
    <3>1. Lacks(contents[g].text, t) /\ Lacks(kept, t)
      BY <1>2 DEF GoneIsNowhere, TextOf, kept
    <3>2. CASE g # f
      BY <1>11, <3>1, <3>2
    <3>3. CASE g = f
      <4>1. Lacks(text, t)
        BY <3>1, <3>3 DEF text
      <4> QED BY <1>4, <1>8, <1>11, <3>1, <3>3, <4>1, OverLacksMore
    <3> QED BY <3>2, <3>3
  <2>2. ASSUME NEW t \in gone, NEW o \in Sessions, Revokes(o)' PROVE Lacks(doing'[o].kept, t)
    BY <1>2, <1>7, <1>10, <2>2 DEF GoneIsNowhere, kept
  <2> QED BY <1>1, <2>1, <2>2 DEF GoneIsNowhere, TextOf
<1> QED BY <1>12, <1>14, <1>15, <1>16, <1>18, <1>19, <1>20, <1>21

(* It flushes what it wrote, which no power cut can yet leave for a store.  *)
LEMMA RevokeFlushesKeeps ==
    ASSUME CredentialsInv, NEW c \in Sessions, RevokeFlushes(c)
    PROVE  CredentialsInv'
<1> USE DEF CredentialsInv
<1> DEFINE f == doing[c].file
           job == [doing[c] EXCEPT !.at = "renames"]
<1>1. doing[c].at = "flushes" /\ UNCHANGED <<directory, medium, minted, gone, overlapped>>
  BY DEF RevokeFlushes
<1>2. Revokes(c) /\ doing[c] # Idle /\ ~Enrols(c) /\ RevocationKnows(c)
  BY <1>1, JobKinds DEF EnrolSteps, RevokeSteps, WithTheFile
<1>3. /\ \A d \in medium : d.store \in Files \cup {NoFile}
      /\ directory \in medium
      /\ contents \in [Files -> [text : Texts, flushed : Nat]]
      /\ doing \in [Sessions -> {Idle} \cup EnrolJobs \cup RevokeJobs]
      /\ \A text \in Texts : Len(text) \in Nat
  BY DEF EnrolTypeOK, Entries, Texts
<1>4. /\ f \in Files
      /\ ~overlapped => directory.partial = f /\ f # NoFile
  <2>1. f \in Files /\ (~overlapped => directory.partial = f)
    BY <1>1, <1>2 DEF RevocationKnows, HasTheTemporary, WithTheFile
  <2>2. NoFile \notin Files
    BY EnrolmentAssumption DEF Files, NoFile
  <2> QED BY <2>1, <2>2
<1>5. doing' = [doing EXCEPT ![c] = job]
  BY <1>1, <1>3 DEF RevokeFlushes, Goes
<1>6. contents' = [contents EXCEPT ![f].flushed = Len(contents[f].text)]
  BY <1>3, <1>4 DEF RevokeFlushes
<1>7. /\ job \in RevokeJobs /\ job.at = "renames" /\ job.file = f /\ job.alone = doing[c].alone
      /\ job.kept = doing[c].kept /\ job.device = doing[c].device
  BY <1>2 DEF Revokes, RevokeJobs, RevokeSteps, WithTheFile
<1> HIDE DEF f, job
<1>8. /\ doing' \in [Sessions -> {Idle} \cup EnrolJobs \cup RevokeJobs]
      /\ doing'[c] = job
      /\ \A o \in Sessions \ {c} :
            /\ doing'[o] = doing[o]
            /\ doing[o] # Idle => doing[o].alone = FALSE
            /\ Enrols(o) <=> Enrols(o)'
            /\ Revokes(o) <=> Revokes(o)'
  BY <1>2, <1>5, <1>7, GoingOn
<1>9. /\ contents' \in [Files -> [text : Texts, flushed : Nat]]
      /\ \A g \in Files : g # f => contents'[g] = contents[g]
      /\ \A g \in Files : contents'[g].text = contents[g].text
      /\ contents'[f].flushed = Len(contents[f].text)
  <2>1. contents[f] \in [text : Texts, flushed : Nat] /\ Len(contents[f].text) \in Nat
    BY <1>3, <1>4
  <2> QED BY <1>3, <1>4, <1>6, <2>1
<1>10. EnrolTypeOK'
  BY <1>1, <1>8, <1>9 DEF EnrolTypeOK
<1>11. ~Enrols(c)' /\ Revokes(c)'
  BY <1>7, <1>8 DEF Enrols, Revokes, EnrolJobs, RevokeJobs
<1>12. OneAtATime'
  BY <1>1, <1>2, <1>7, <1>8, <1>11, GoingOnIsOneAtATime
<1>13. TemporariesAreApart' /\ TextsAreOrderly'
  BY <1>1, <1>9 DEF TemporariesAreApart, TextsAreOrderly, TextOf
<1>14. CommentsAreFlushed'
  <2> SUFFICES ASSUME ~overlapped, NEW d \in medium, d.store # NoFile
               PROVE  contents'[d.store] = contents[d.store]
    BY <1>1 DEF CommentsAreFlushed, TextOf
  <2>1. d.store # f
    BY <1>4 DEF TemporariesAreApart
  <2> QED BY <1>3, <1>9, <2>1
<1>15. ASSUME NEW o \in Sessions, Enrols(o)' PROVE EnrolmentKnows(o)'
  <2>1. o # c /\ Enrols(o) /\ doing'[o] = doing[o]
    BY <1>8, <1>11, <1>15
  <2>2. EnrolmentKnows(o)
    BY <2>1
  <2>3. directory.store # NoFile => contents'[directory.store].text = contents[directory.store].text
    BY <1>3, <1>9
  <2>4. doing[o].at # "opens" => contents'[doing[o].file].text = contents[doing[o].file].text
    BY <1>9, <2>2 DEF EnrolmentKnows
  <2>5. doing[o].at = "writes" \/ doing[o].at = "parts" \/ doing[o].at = "tells" => doing[o].at # "opens"
    OBVIOUS
  <2> QED BY <1>1, <2>1, <2>2, <2>3, <2>4, <2>5 DEF EnrolmentKnows, TextOf
<1>16. ASSUME NEW o \in Sessions, Revokes(o)' PROVE RevocationKnows(o)'
  <2>1. CASE o = c
    <3>1. /\ doing'[o].at = "renames" /\ doing'[o].file = f /\ doing'[o].kept = doing[c].kept
          /\ doing'[o].device = doing[c].device /\ doing'[o].alone = doing[c].alone
      BY <1>7, <1>8, <2>1
    <3>2. ~overlapped => /\ contents'[f].text = doing[c].kept
                         /\ contents'[f].flushed = Len(doing[c].kept)
      BY <1>1, <1>2, <1>4, <1>9 DEF RevocationKnows, HasTheTemporary, WithTheFile, TextOf, f
    <3> QED BY <1>1, <1>2, <1>4, <3>1, <3>2 DEF RevocationKnows, LacksTheDevice, HasTheTemporary, TextOf
  <2>2. CASE o # c
    BY <1>1, <1>2, <1>8, <1>16, <2>2, OverlappedRevocationsGoOn
  <2> QED BY <2>1, <2>2
<1>17. GoneIsNowhere'
  <2>1. ASSUME NEW t \in gone, NEW o \in Sessions, Revokes(o)' PROVE Lacks(doing'[o].kept, t)
    BY <1>2, <1>7, <1>8, <2>1 DEF GoneIsNowhere
  <2> QED BY <1>1, <1>9, <2>1 DEF GoneIsNowhere, TextOf
<1> QED BY <1>10, <1>12, <1>13, <1>14, <1>15, <1>16, <1>17

(* It gives the temporary the store's name: all of it was flushed, and ends *)
(* where a line does, unless another revocation had it too.                 *)
LEMMA RevokeRenamesKeeps ==
    ASSUME CredentialsInv, NEW c \in Sessions, RevokeRenames(c)
    PROVE  CredentialsInv'
<1> USE DEF CredentialsInv
<1> DEFINE going == directory.partial # NoFile
           job == IF going THEN [doing[c] EXCEPT !.at = "flushes directory"] ELSE Idle
<1>1. doing[c].at = "renames" /\ UNCHANGED <<contents, minted, gone, overlapped>>
  BY DEF RevokeRenames
<1>2. Revokes(c) /\ doing[c] # Idle /\ ~Enrols(c) /\ RevocationKnows(c)
  BY <1>1, JobKinds DEF EnrolSteps, RevokeSteps, WithTheFile
<1>3. /\ directory \in medium /\ directory.partial \in Files \cup {NoFile}
      /\ \A d \in medium : d.store \in Files \cup {NoFile}
      /\ doing \in [Sessions -> {Idle} \cup EnrolJobs \cup RevokeJobs]
  BY DEF EnrolTypeOK, Entries
<1>4. doing' = [doing EXCEPT ![c] = job]
  <2>1. CASE going
    BY <1>1, <1>3, <2>1 DEF RevokeRenames, Goes
  <2>2. CASE ~going
    BY <1>1, <1>3, <2>2 DEF RevokeRenames, Ends
  <2> QED BY <2>1, <2>2
<1>5. /\ going => /\ directory' = [store |-> directory.partial, partial |-> NoFile]
                  /\ medium' = medium \cup {directory'}
      /\ ~going => UNCHANGED <<directory, medium>>
  BY DEF RevokeRenames, Enters
<1>6. /\ going => /\ job \in RevokeJobs /\ job.at = "flushes directory" /\ job.file = doing[c].file
                  /\ job.alone = doing[c].alone
                  /\ job.kept = doing[c].kept /\ job.device = doing[c].device
      /\ ~going => job = Idle
  BY <1>2 DEF Revokes, RevokeJobs, RevokeSteps
<1>7. going => directory.partial \in Files
  BY <1>3
<1>8. ~overlapped => /\ going /\ directory.partial = doing[c].file
                     /\ contents[directory.partial].text = doing[c].kept
                     /\ contents[directory.partial].flushed = Len(doing[c].kept)
  <2>1. doing[c].file \in Files /\ (~overlapped => HasTheTemporary(c))
    BY <1>1, <1>2 DEF RevocationKnows, WithTheFile
  <2> QED BY <1>1, <2>1, EnrolmentAssumption DEF HasTheTemporary, TextOf, Files, NoFile
<1> HIDE DEF going, job
<1>9. /\ doing' \in [Sessions -> {Idle} \cup EnrolJobs \cup RevokeJobs]
      /\ doing'[c] = job
      /\ \A o \in Sessions \ {c} :
            /\ doing'[o] = doing[o]
            /\ doing[o] # Idle => doing[o].alone = FALSE
            /\ Enrols(o) <=> Enrols(o)'
            /\ Revokes(o) <=> Revokes(o)'
  BY <1>2, <1>4, <1>6, GoingOn
<1>10. EnrolTypeOK'
  <2>1. directory' \in Entries /\ medium' \in SUBSET Entries /\ directory' \in medium'
    BY <1>5, <1>7 DEF EnrolTypeOK, Entries
  <2> QED BY <1>1, <1>9, <2>1 DEF EnrolTypeOK
<1>11. ~Enrols(c)' /\ (doing'[c] # Idle => going) /\ (Revokes(c)' => going)
  <2>1. "idle" \notin EnrolSteps /\ "idle" \notin RevokeSteps /\ Idle.at = "idle"
    BY DEF EnrolSteps, RevokeSteps, WithTheFile, Idle
  <2>2. CASE going
    BY <1>6, <1>9, <2>2 DEF Enrols, EnrolJobs, RevokeJobs
  <2>3. CASE ~going
    BY <1>6, <1>9, <2>1, <2>3 DEF Enrols, Revokes, EnrolJobs, RevokeJobs
  <2> QED BY <2>2, <2>3
<1>12. OneAtATime'
  BY <1>1, <1>2, <1>6, <1>9, <1>11, GoingOnIsOneAtATime
<1>13. TemporariesAreApart'
  BY <1>5 DEF TemporariesAreApart
<1>14. TextsAreOrderly'
  BY <1>1 DEF TextsAreOrderly, TextOf
<1>15. CommentsAreFlushed'
  <2> SUFFICES ASSUME ~overlapped, NEW d \in medium', d.store # NoFile,
                      NEW i \in DOMAIN contents[d.store].text, contents[d.store].text[i] = Hash
               PROVE  i < contents[d.store].flushed
    BY <1>1 DEF CommentsAreFlushed, TextOf
  <2>1. CASE d \in medium
    BY <2>1 DEF CommentsAreFlushed, TextOf
  <2>2. CASE d \notin medium
    <3>1. d.store = directory.partial
      BY <1>5, <2>2
    <3>2. Orderly(contents[d.store].text, minted, overlapped)
      BY <1>7, <1>8, <3>1 DEF TextsAreOrderly, TextOf
    <3>3. i < Len(contents[d.store].text)
      BY <3>2 DEF Orderly, CommentIsWhole
    <3> QED BY <1>8, <3>1, <3>3
  <2> QED BY <2>1, <2>2
<1>16. ASSUME NEW o \in Sessions, Enrols(o)' PROVE EnrolmentKnows(o)'
  <2>1. o # c /\ Enrols(o) /\ doing'[o] = doing[o]
    BY <1>9, <1>11, <1>16
  <2>2. EnrolmentKnows(o)
    BY <2>1
  <2>3. directory'.store # NoFile /\ doing[o].at = "opens" => Ready(contents[directory'.store].text, overlapped)
    <3>1. CASE overlapped
      BY <3>1 DEF Ready
    <3>2. CASE ~overlapped
      <4>1. directory'.store = directory.partial /\ contents[directory'.store].text = doing[c].kept
        BY <1>5, <1>8, <3>2
      <4> QED BY <1>2, <4>1 DEF RevocationKnows, IsEnded, Ready
    <3> QED BY <3>1, <3>2
  <2>4. doing[o].at # "opens" => doing[o].file # directory'.partial
    <3>1. NoFile \notin Files
      BY EnrolmentAssumption DEF Files, NoFile
    <3> QED BY <1>5, <2>2, <3>1 DEF EnrolmentKnows
  <2> QED BY <1>1, <2>1, <2>2, <2>3, <2>4 DEF EnrolmentKnows, TextOf
<1>17. ASSUME NEW o \in Sessions, Revokes(o)' PROVE RevocationKnows(o)'
  <2>1. CASE o = c
    <3>1. going
      BY <1>11, <1>17, <2>1
    <3>2. /\ doing'[o].at = "flushes directory" /\ doing'[o].file = doing[c].file
          /\ doing'[o].kept = doing[c].kept
          /\ doing'[o].device = doing[c].device /\ doing'[o].alone = doing[c].alone
      BY <1>6, <1>9, <2>1, <3>1
    <3>3. ~overlapped => HasTheStore(o)'
      BY <1>1, <1>5, <1>8, <3>1, <3>2 DEF HasTheStore, TextOf
    <3> QED BY <1>1, <1>2, <3>2, <3>3 DEF RevocationKnows, LacksTheDevice, WithTheFile
  <2>2. CASE o # c
    BY <1>1, <1>2, <1>9, <1>17, <2>2, OverlappedRevocationsGoOn
  <2> QED BY <2>1, <2>2
<1>18. GoneIsNowhere'
  <2>1. ASSUME NEW t \in gone, NEW o \in Sessions, Revokes(o)' PROVE Lacks(doing'[o].kept, t)
    <3>1. CASE o = c
      <4>1. doing'[o].kept = doing[c].kept
        BY <1>6, <1>9, <1>11, <2>1, <3>1
      <4> QED BY <1>2, <4>1 DEF GoneIsNowhere
    <3>2. CASE o # c
      BY <1>9, <2>1, <3>2 DEF GoneIsNowhere
    <3> QED BY <3>1, <3>2
  <2> QED BY <1>1, <2>1 DEF GoneIsNowhere, TextOf
<1> QED BY <1>10, <1>12, <1>13, <1>14, <1>15, <1>16, <1>17, <1>18

(* A command ends, and the files that nobody else holds or names with it.   *)
LEMMA EndingKeeps ==
    ASSUME CredentialsInv, NEW c \in Sessions, doing[c] # Idle, Ends(c),
           NEW held, contents' = Collected(held),
           directory' = directory, medium' \in SUBSET medium, directory \in medium',
           \A d \in medium' : d.store \in held /\ d.partial \in held,
           \A o \in Sessions \ {c} : doing[o] # Idle => doing[o].file \in held,
           minted' = minted, overlapped' = overlapped,
           gone' \in SUBSET DOMAIN minted,
           \A s \in gone' :
              /\ \A g \in Files : Lacks(contents'[g].text, s)
              /\ \A o \in Sessions \ {c} : /\ Revokes(o) => Lacks(doing[o].kept, s)
                                           /\ Enrols(o) => doing[o].secret # s
    PROVE  CredentialsInv'
<1> USE DEF CredentialsInv
<1>1. /\ \A d \in medium : d.store \in Files \cup {NoFile} /\ d.partial \in Files \cup {NoFile}
      /\ contents \in [Files -> [text : Texts, flushed : Nat]]
      /\ doing \in [Sessions -> {Idle} \cup EnrolJobs \cup RevokeJobs]
  BY DEF EnrolTypeOK, Entries
<1>2. doing' = [doing EXCEPT ![c] = Idle]
  BY DEF Ends
<1>3. /\ doing' \in [Sessions -> {Idle} \cup EnrolJobs \cup RevokeJobs]
      /\ doing'[c] = Idle
      /\ \A o \in Sessions \ {c} :
            /\ doing'[o] = doing[o]
            /\ doing[o] # Idle => doing[o].alone = FALSE
            /\ Enrols(o) <=> Enrols(o)'
            /\ Revokes(o) <=> Revokes(o)'
  BY <1>2, GoingOn
<1>4. /\ contents' \in [Files -> [text : Texts, flushed : Nat]]
      /\ \A g \in Files : g \in held => contents'[g] = contents[g]
      /\ \A g \in Files : g \notin held => contents'[g] = Emptied
  BY <1>1, NothingIsOrderly DEF Collected
<1>5. EnrolTypeOK'
  BY <1>3, <1>4 DEF EnrolTypeOK
<1>6. ~Enrols(c)' /\ ~Revokes(c)'
  <2>1. "idle" \notin EnrolSteps /\ "idle" \notin RevokeSteps /\ Idle.at = "idle"
    BY DEF EnrolSteps, RevokeSteps, WithTheFile, Idle
  <2> QED BY <1>3, <2>1 DEF Enrols, Revokes, EnrolJobs, RevokeJobs
<1>7. OneAtATime'
  BY <1>3, GoingOnIsOneAtATime
<1>8. TemporariesAreApart'
  BY DEF TemporariesAreApart
<1>9. \A g \in Files : contents'[g].text = contents[g].text \/ contents'[g].text = << >>
  BY <1>4, NothingIsOrderly
<1>10. TextsAreOrderly'
  BY <1>9, NothingIsOrderly DEF TextsAreOrderly, TextOf
<1>11. CommentsAreFlushed'
  <2> SUFFICES ASSUME ~overlapped, NEW d \in medium', d.store # NoFile
               PROVE  contents'[d.store] = contents[d.store] /\ d \in medium
    BY DEF CommentsAreFlushed, TextOf
  <2> QED BY <1>1, <1>4
<1>12. ASSUME NEW o \in Sessions, Enrols(o)' PROVE EnrolmentKnows(o)'
  <2>1. o # c /\ Enrols(o) /\ doing'[o] = doing[o] /\ doing[o] # Idle
    BY <1>3, <1>6, <1>12 DEF Enrols, EnrolJobs, Idle
  <2>2. EnrolmentKnows(o)
    BY <2>1
  <2>3. directory.store # NoFile => contents'[directory.store] = contents[directory.store]
    BY <1>1, <1>4
  <2>4. doing[o].at # "opens" => contents'[doing[o].file] = contents[doing[o].file]
    BY <1>4, <2>1, <2>2 DEF EnrolmentKnows
  <2>5. doing[o].at = "writes" \/ doing[o].at = "parts" \/ doing[o].at = "tells" => doing[o].at # "opens"
    OBVIOUS
  <2>6. doing[o].secret \notin gone'
    BY <2>1
  <2> QED BY <2>1, <2>2, <2>3, <2>4, <2>5, <2>6 DEF EnrolmentKnows, TextOf
<1>13. ASSUME NEW o \in Sessions, Revokes(o)' PROVE RevocationKnows(o)'
  <2>1. o # c /\ Revokes(o) /\ doing'[o] = doing[o] /\ doing[o] # Idle
    BY <1>3, <1>6, <1>13 DEF Revokes, RevokeJobs, Idle
  <2>2. RevocationKnows(o)
    BY <2>1
  <2>3. doing[o].at \in WithTheFile => contents'[doing[o].file] = contents[doing[o].file]
    BY <1>4, <2>1, <2>2 DEF RevocationKnows, WithTheFile
  <2> QED BY <1>3, <2>1, <2>2, <2>3, RevocationGoesOn DEF RevocationKnows
<1>14. GoneIsNowhere'
  BY <1>3, <1>6 DEF GoneIsNowhere, TextOf
<1> QED BY <1>5, <1>7, <1>8, <1>10, <1>11, <1>12, <1>13, <1>14

(* No file has the name of none. *)
LEMMA NoFileIsNone == NoFile \notin Files
  BY EnrolmentAssumption DEF Files, NoFile

(* When a revocation that met nobody is through, no file it could come by   *)
(* holds a secret of the device.                                            *)
LEMMA TakenOutIsOutOfReach ==
    ASSUME CredentialsInv, NEW c \in Sessions, doing[c].at = "flushes directory",
           NEW s, s \in TakenOut(c)
    PROVE  s \in DOMAIN minted /\ OutOfReach(s)
<1> USE DEF CredentialsInv
<1>1. Revokes(c) /\ ~Enrols(c) /\ doing[c] # Idle /\ RevocationKnows(c)
  BY JobKinds DEF RevokeSteps, EnrolSteps
<1>2. doing[c].alone /\ ~overlapped /\ s \in DOMAIN minted /\ minted[s] = doing[c].device
  BY DEF TakenOut
<1>3. HasTheStore(c) /\ Lacks(doing[c].kept, s)
  BY <1>1, <1>2 DEF RevocationKnows, LacksTheDevice
<1>4. \A o \in Sessions \ {c} : doing[o] = Idle
  BY <1>1, <1>2 DEF OneAtATime
<1>5. \A o \in Sessions \ {c} : ~Revokes(o) /\ ~Enrols(o)
  <2>1. "idle" \notin EnrolSteps /\ "idle" \notin RevokeSteps /\ Idle.at = "idle"
    BY DEF EnrolSteps, RevokeSteps, WithTheFile, Idle
  <2> QED BY <1>4, <2>1 DEF Enrols, Revokes, EnrolJobs, RevokeJobs
<1>6. ASSUME NEW f \in Files, IsReached(f) PROVE Lacks(TextOf(f), s)
  <2>1. directory.store = doing[c].file /\ directory.partial = NoFile
    BY <1>3 DEF HasTheStore
  <2>2. f = doing[c].file
    BY <1>4, <1>6, <2>1, NoFileIsNone DEF IsReached
  <2> QED BY <1>3, <2>2 DEF HasTheStore
<1> QED BY <1>1, <1>2, <1>3, <1>5, <1>6 DEF OutOfReach

(* It makes the rename last: of the files that are left, none holds what    *)
(* this revocation took out, nor what an earlier one did.                   *)
LEMMA RevokeFlushesDirectoryKeeps ==
    ASSUME CredentialsInv, OutIsOutOfReach, NEW c \in Sessions, RevokeFlushesDirectory(c)
    PROVE  CredentialsInv'
<1> USE DEF CredentialsInv
<1> DEFINE held == InUse({directory}) \cup HeldBut(c)
<1>1. /\ doing[c].at = "flushes directory"
      /\ medium' = {directory} /\ contents' = Collected(held) /\ Ends(c)
      /\ gone' = gone \cup out \cup TakenOut(c)
      /\ UNCHANGED <<directory, minted, overlapped>>
  BY DEF RevokeFlushesDirectory
<1>2. doing[c] # Idle
  BY <1>1, JobKinds
<1>3. /\ directory.store \in held /\ directory.partial \in held
      /\ \A o \in Sessions \ {c} : doing[o] # Idle => doing[o].file \in held
  BY JobKinds DEF InUse, HeldBut, Others
<1>4. \A g \in Files : (contents'[g].text = contents[g].text /\ g \in held) \/ contents'[g].text = << >>
  BY <1>1, NothingIsOrderly DEF Collected
<1>5. \A g \in held : IsReached(g)
  BY JobKinds DEF InUse, HeldBut, Others, IsReached
<1> HIDE DEF held
<1>6. ASSUME NEW s \in gone
      PROVE  /\ s \in DOMAIN minted
             /\ \A g \in Files : Lacks(contents'[g].text, s)
             /\ \A o \in Sessions \ {c} : /\ Revokes(o) => Lacks(doing[o].kept, s)
                                          /\ Enrols(o) => doing[o].secret # s
  <2>1. \A g \in Files : Lacks(contents'[g].text, s)
    BY <1>4, NothingIsOrderly DEF GoneIsNowhere, TextOf
  <2>2. \A o \in Sessions : Revokes(o) => Lacks(doing[o].kept, s)
    BY DEF GoneIsNowhere
  <2>3. \A o \in Sessions : Enrols(o) => doing[o].secret # s
    BY DEF EnrolmentKnows
  <2> QED BY <2>1, <2>2, <2>3 DEF EnrolTypeOK
<1>7. ASSUME NEW s, s \in DOMAIN minted, OutOfReach(s)
      PROVE  /\ \A g \in Files : Lacks(contents'[g].text, s)
             /\ \A o \in Sessions \ {c} : /\ Revokes(o) => Lacks(doing[o].kept, s)
                                          /\ Enrols(o) => doing[o].secret # s
  <2>1. \A g \in Files : Lacks(contents'[g].text, s)
    BY <1>4, <1>5, <1>7, NothingIsOrderly DEF OutOfReach, TextOf
  <2> QED BY <1>7, <2>1 DEF OutOfReach
<1>8. ASSUME NEW s \in gone'
      PROVE  /\ s \in DOMAIN minted
             /\ \A g \in Files : Lacks(contents'[g].text, s)
             /\ \A o \in Sessions \ {c} : /\ Revokes(o) => Lacks(doing[o].kept, s)
                                          /\ Enrols(o) => doing[o].secret # s
  <2>1. CASE s \in gone
    BY <1>6, <2>1
  <2>2. CASE s \notin gone
    <3>1. s \in out \/ s \in TakenOut(c)
      BY <1>1, <2>2
    <3>2. s \in DOMAIN minted /\ OutOfReach(s)
      BY <1>1, <3>1, TakenOutIsOutOfReach DEF OutIsOutOfReach
    <3> QED BY <1>7, <3>2
  <2> QED BY <2>1, <2>2
<1>9. medium' \in SUBSET medium /\ directory \in medium' /\ \A d \in medium' : d.store \in held /\ d.partial \in held
  BY <1>1, <1>3 DEF EnrolTypeOK
<1>10. gone' \in SUBSET DOMAIN minted
  BY <1>8
<1> QED BY <1>1, <1>2, <1>3, <1>8, <1>9, <1>10, EndingKeeps

(* A command that is killed leaves its work where it stands, and so does a  *)
(* revocation that has no directory to flush.                               *)
LEMMA LeavingKeeps ==
    ASSUME CredentialsInv, NEW c \in Sessions, Killed(c) \/ RevokeNamesNoDirectory(c)
    PROVE  CredentialsInv'
<1> USE DEF CredentialsInv
<1> DEFINE held == InUse({directory} \cup medium) \cup HeldBut(c)
<1>1. /\ doing[c].at # "idle" /\ contents' = Collected(held) /\ Ends(c)
      /\ UNCHANGED <<directory, medium, minted, gone, overlapped>>
  BY DEF Killed, RevokeNamesNoDirectory
<1>2. doing[c] # Idle
  BY <1>1, JobKinds
<1>3. /\ \A d \in medium : d.store \in held /\ d.partial \in held
      /\ \A o \in Sessions \ {c} : doing[o] # Idle => doing[o].file \in held
  BY JobKinds DEF InUse, HeldBut, Others
<1>4. gone' \in SUBSET DOMAIN minted /\ medium' \in SUBSET medium /\ directory \in medium'
  BY <1>1 DEF EnrolTypeOK
<1>5. \A g \in Files : contents'[g].text = contents[g].text \/ contents'[g].text = << >>
  BY <1>1, NothingIsOrderly DEF Collected
<1>6. ASSUME NEW s \in gone'
      PROVE  /\ \A g \in Files : Lacks(contents'[g].text, s)
             /\ \A o \in Sessions \ {c} : /\ Revokes(o) => Lacks(doing[o].kept, s)
                                          /\ Enrols(o) => doing[o].secret # s
  <2>1. \A g \in Files : Lacks(contents'[g].text, s)
    BY <1>1, <1>5, NothingIsOrderly DEF GoneIsNowhere, TextOf
  <2>2. \A o \in Sessions : Revokes(o) => Lacks(doing[o].kept, s)
    BY <1>1 DEF GoneIsNowhere
  <2>3. \A o \in Sessions : Enrols(o) => doing[o].secret # s
    BY <1>1 DEF EnrolmentKnows
  <2> QED BY <2>1, <2>2, <2>3
<1> HIDE DEF held
<1> QED BY <1>1, <1>2, <1>3, <1>4, <1>6, EndingKeeps

(* What a power cut leaves of a text whose comments were flushed.           *)
LEMMA TornIsOrderly ==
    ASSUME NEW text \in Texts, NEW owners, NEW overlapping \in BOOLEAN,
           Orderly(text, owners, overlapping),
           NEW n \in 0..Len(text),
           ~overlapping => \A i \in DOMAIN text : text[i] = Hash => i < n,
           NEW left \in Torn(text, n)
    PROVE  /\ left \in Texts
           /\ Orderly(left, owners, overlapping)
           /\ \A s : Lacks(text, s) => Lacks(left, s)
<1> DEFINE whole == SubSeq(text, 1, n)
<1>0. /\ Len(text) \in Nat /\ n \in Nat /\ DOMAIN text = 1..Len(text)
      /\ \A i \in 1..Len(text) : text[i] \in Pieces
  BY DEF Texts
<1>1. /\ whole \in Texts /\ Len(whole) = n
      /\ \A i \in 1..n : whole[i] = text[i]
      /\ Orderly(whole, owners, overlapping)
  BY CutKeepsOrder
<1>2. \/ left = whole
      \/ n < Len(text) /\ text[n + 1].is = "secret" /\ left = Append(whole, Half(text[n + 1].of))
  BY DEF Torn
<1> HIDE DEF whole
<1>3. DOMAIN whole = 1..n
  BY <1>1 DEF Texts
<1>4. \A s : Lacks(text, s) => Lacks(whole, s)
  BY <1>0, <1>1, <1>3 DEF Lacks
<1>5. CASE left = whole
  BY <1>1, <1>4, <1>5
<1>6. CASE n < Len(text) /\ text[n + 1].is = "secret" /\ left = Append(whole, Half(text[n + 1].of))
  <2>1. text[n + 1] \in Pieces
    BY <1>0, <1>6
  <2>2. PICK t \in 1..MaxMints : text[n + 1].of = t
    BY <1>6, <2>1, SecretsSaySo
  <2>3. Half(t) \in Pieces /\ left = Append(whole, Half(t))
    BY <1>6, <2>2 DEF Pieces
  <2>4. left \in Texts /\ Orderly(left, owners, overlapping)
    BY <1>1, <2>3, EndKeepsOrder
  <2>5. /\ DOMAIN left = 1..(n + 1)
        /\ \A i \in 1..n : left[i] = whole[i]
        /\ left[n + 1] = Half(t)
    BY <1>1, <2>3, AppendedText
  <2>6. ASSUME NEW s, Lacks(text, s) PROVE Lacks(left, s)
    <3>1. Lacks(whole, s)
      BY <1>4, <2>6
    <3>2. \A i \in 1..(n + 1) : i \in 1..n \/ i = n + 1
      BY <1>0
    <3> QED BY <1>3, <2>5, <3>1, <3>2, PiecesApart DEF Lacks
  <2> QED BY <2>4, <2>6
<1> QED BY <1>2, <1>5, <1>6

(* A power cut leaves a directory, and of its store a beginning.            *)
LEMMA PowerCutKeeps ==
    ASSUME CredentialsInv, PowerCut
    PROVE  CredentialsInv'
<1> USE DEF CredentialsInv
<1>1. PICK left \in medium :
         /\ directory' = left /\ medium' = {left}
         /\ \E store \in IF left.store = NoFile THEN {<< >>} ELSE Remains(contents[left.store]) :
               contents' = [f \in Files |-> IF f = left.store THEN [text |-> store, flushed |-> Len(store)]
                                            ELSE Emptied]
  BY DEF PowerCut
<1>2. PICK store \in IF left.store = NoFile THEN {<< >>} ELSE Remains(contents[left.store]) :
         contents' = [f \in Files |-> IF f = left.store THEN [text |-> store, flushed |-> Len(store)]
                                      ELSE Emptied]
  BY <1>1
<1>3. doing' = [c \in Sessions |-> Idle] /\ UNCHANGED <<minted, gone, overlapped>>
  BY DEF PowerCut
<1>4. /\ left \in Entries /\ left.store \in Files \cup {NoFile}
      /\ contents \in [Files -> [text : Texts, flushed : Nat]]
      /\ overlapped \in BOOLEAN
  BY DEF EnrolTypeOK, Entries
<1>5. /\ store \in Texts /\ Orderly(store, minted, overlapped)
      /\ \A s \in gone : Lacks(store, s)
  <2>1. CASE left.store = NoFile
    BY <1>2, <2>1, NothingIsOrderly
  <2>2. CASE left.store # NoFile
    <3> DEFINE text == contents[left.store].text
    <3>1. PICK n \in contents[left.store].flushed..Len(text) : store \in Torn(text, n)
      BY <1>2, <2>2 DEF Remains
    <3>2. left.store \in Files /\ contents[left.store] \in [text : Texts, flushed : Nat]
      BY <1>4, <2>2
    <3>3. text \in Texts /\ contents[left.store].flushed \in Nat /\ Len(text) \in Nat
      BY <3>2 DEF Texts
    <3>4. Orderly(text, minted, overlapped) /\ \A s \in gone : Lacks(text, s)
      BY <3>2 DEF TextsAreOrderly, GoneIsNowhere, TextOf
    <3>5. ~overlapped => \A i \in DOMAIN text : text[i] = Hash => i < contents[left.store].flushed
      BY <2>2 DEF CommentsAreFlushed, TextOf
    <3> HIDE DEF text
    <3>6. n \in 0..Len(text) /\ contents[left.store].flushed <= n
      BY <3>1, <3>3
    <3>7. ~overlapped => \A i \in DOMAIN text : text[i] = Hash => i < n
      <4>1. \A i \in DOMAIN text : i \in Nat
        BY <3>3 DEF Texts
      <4> QED BY <3>3, <3>5, <3>6, <4>1
    <3> QED BY <1>4, <3>1, <3>3, <3>4, <3>6, <3>7, TornIsOrderly
  <2> QED BY <2>1, <2>2
<1>6. /\ contents' \in [Files -> [text : Texts, flushed : Nat]]
      /\ \A f \in Files : \/ f = left.store /\ contents'[f] = [text |-> store, flushed |-> Len(store)]
                          \/ contents'[f] = Emptied
  <2>1. Len(store) \in Nat
    BY <1>5 DEF Texts
  <2> QED BY <1>2, <1>5, <2>1, NothingIsOrderly
<1>7. \A f \in Files : contents'[f].text = store \/ contents'[f].text = << >>
  BY <1>6, NothingIsOrderly
<1>8. EnrolTypeOK'
  BY <1>1, <1>3, <1>4, <1>6 DEF EnrolTypeOK
<1>9. \A c \in Sessions : doing'[c] = Idle /\ ~Enrols(c)' /\ ~Revokes(c)'
  <2>1. "idle" \notin EnrolSteps /\ "idle" \notin RevokeSteps /\ Idle.at = "idle"
    BY DEF EnrolSteps, RevokeSteps, WithTheFile, Idle
  <2> QED BY <1>3, <2>1 DEF Enrols, Revokes, EnrolJobs, RevokeJobs
<1>10. OneAtATime'
  BY <1>9 DEF OneAtATime
<1>11. TemporariesAreApart'
  BY <1>1 DEF TemporariesAreApart
<1>12. TextsAreOrderly'
  BY <1>3, <1>5, <1>7, NothingIsOrderly DEF TextsAreOrderly, TextOf
<1>13. CommentsAreFlushed'
  <2> SUFFICES ASSUME ~overlapped, left.store # NoFile,
                      NEW i \in DOMAIN contents'[left.store].text, contents'[left.store].text[i] = Hash
               PROVE  i < contents'[left.store].flushed
    BY <1>1, <1>3 DEF CommentsAreFlushed, TextOf
  <2>1. contents'[left.store].text = store /\ contents'[left.store].flushed = Len(store)
    BY <1>2, <1>4
  <2>2. i < Len(store)
    BY <1>5, <2>1 DEF Orderly, CommentIsWhole
  <2> QED BY <2>1, <2>2
<1>14. GoneIsNowhere'
  BY <1>3, <1>5, <1>7, <1>9, NothingIsOrderly DEF GoneIsNowhere, TextOf
<1> QED BY <1>8, <1>9, <1>10, <1>11, <1>12, <1>13, <1>14

-----------------------------------------------------------------------------
(* The theorems. *)

(* It begins with the comment that enrol writes, flushed, or with nothing.  *)
LEMMA CredentialsInit ==
    ASSUME EnrolInit
    PROVE  CredentialsInv
<1> USE DEF CredentialsInv
<1>1. /\ contents = [f \in Files |-> [text |-> IF f = 1 THEN Annotation ELSE << >>,
                                      flushed |-> IF f = 1 THEN Len(Annotation) ELSE 0]]
      /\ directory.store \in {1, NoFile} /\ directory.partial = NoFile
      /\ medium = {directory} /\ doing = [c \in Sessions |-> Idle]
      /\ minted = << >> /\ gone = {} /\ overlapped = FALSE
  BY DEF EnrolInit
<1>2. /\ Annotation \in Texts /\ Len(Annotation) = 2 /\ DOMAIN Annotation = {1, 2}
      /\ Annotation[1] = Hash /\ Annotation[2] = End
  BY DEF Annotation, Texts, Pieces
<1>3. Orderly(Annotation, minted, FALSE)
  <2>1. /\ \A i \in {1, 2} : /\ Annotation[i] # Gap
                             /\ \A d \in Devices : Annotation[i] # Name(d)
                             /\ \A s \in 1..MaxMints : Annotation[i] # Secret(s)
        /\ Annotation[2] # Hash
    BY <1>2, PiecesApart
  <2>2. \A i \in {1, 2} : IsInPlace(Annotation, i, minted, FALSE)
    BY <2>1 DEF IsInPlace, SecretIsNamed, NameComesFirst, GapFollowsName
  <2>3. \A i \in {1, 2} : CommentIsWhole(Annotation, i)
    BY <1>2, <2>1 DEF CommentIsWhole, LineStarts
  <2> QED BY <1>2, <2>2, <2>3 DEF Orderly
<1>4. directory \in Entries
  <2>1. \/ directory = [store |-> 1, partial |-> NoFile] /\ 1 \in Files
        \/ directory = [store |-> NoFile, partial |-> NoFile]
    BY EnrolmentAssumption DEF EnrolInit, Files
  <2> QED BY <2>1 DEF Entries
<1>5. EnrolTypeOK
  <2>1. contents \in [Files -> [text : Texts, flushed : Nat]]
    BY <1>1, <1>2, NothingIsOrderly
  <2>2. minted \in Seq(Devices) /\ Len(minted) <= MaxMints
    BY <1>1, EnrolmentAssumption
  <2> QED BY <1>1, <1>4, <2>1, <2>2 DEF EnrolTypeOK
<1>6. \A c \in Sessions : doing[c] = Idle /\ ~Enrols(c) /\ ~Revokes(c)
  <2>1. "idle" \notin EnrolSteps /\ "idle" \notin RevokeSteps /\ Idle.at = "idle"
    BY DEF EnrolSteps, RevokeSteps, WithTheFile, Idle
  <2> QED BY <1>1, <2>1 DEF Enrols, Revokes, EnrolJobs, RevokeJobs
<1>7. OneAtATime /\ TemporariesAreApart /\ GoneIsNowhere
  BY <1>1, <1>6 DEF OneAtATime, TemporariesAreApart, GoneIsNowhere
<1>8. \A f \in Files : \/ contents[f].text = Annotation /\ contents[f].flushed = 2
                       \/ contents[f].text = << >>
  BY <1>1, <1>2
<1>9. TextsAreOrderly
  BY <1>1, <1>3, <1>8, NothingIsOrderly DEF TextsAreOrderly, TextOf
<1>10. CommentsAreFlushed
  <2> SUFFICES ASSUME NEW f \in Files, NEW i \in DOMAIN contents[f].text, contents[f].text[i] = Hash
               PROVE  i < contents[f].flushed
    BY <1>4, <1>1 DEF CommentsAreFlushed, TextOf, Entries
  <2>1. contents[f].text = Annotation /\ contents[f].flushed = 2
    BY <1>8, NothingIsOrderly
  <2>2. i = 1
    BY <1>2, <2>1, PiecesApart
  <2> QED BY <2>1, <2>2
<1> QED BY <1>5, <1>6, <1>7, <1>9, <1>10

(* Who goes on may come by one more file, if there is nothing of it in it.  *)
LEMMA GoingOnStaysOutOfReach ==
    ASSUME EnrolTypeOK, OneAtATime, NEW s, OutOfReach(s), NEW c \in Sessions, doing[c] # Idle,
           NEW job \in {Idle} \cup EnrolJobs \cup RevokeJobs,
           doing' = [doing EXCEPT ![c] = job],
           job \in RevokeJobs => Lacks(job.kept, s),
           job \in EnrolJobs => job.secret # s,
           \A f \in Files :
              /\ IsReached(f) => Lacks(contents'[f].text, s)
              /\ \/ f \in {directory'.store, directory'.partial}
                 \/ job # Idle /\ job.file = f
                 => IsReached(f) \/ contents'[f].text = << >>
    PROVE  OutOfReach(s)'
<1>1. /\ doing'[c] = job
      /\ \A o \in Sessions \ {c} : /\ doing'[o] = doing[o]
                                   /\ Enrols(o) <=> Enrols(o)'
                                   /\ Revokes(o) <=> Revokes(o)'
  BY GoingOn
<1>2. ASSUME NEW f \in Files, IsReached(f)' PROVE Lacks(contents'[f].text, s)
  <2>1. \/ f \in {directory'.store, directory'.partial}
        \/ job # Idle /\ job.file = f
        \/ IsReached(f)
    BY <1>1, <1>2 DEF IsReached
  <2> QED BY <2>1, NothingIsOrderly
<1>3. ASSUME NEW o \in Sessions
      PROVE  /\ Revokes(o)' => Lacks(doing'[o].kept, s)
             /\ Enrols(o)' => doing'[o].secret # s
  <2>1. CASE o = c
    BY <1>1, <2>1 DEF Enrols, Revokes
  <2>2. CASE o # c
    BY <1>1, <2>2 DEF OutOfReach
  <2> QED BY <2>1, <2>2
<1> QED BY <1>2, <1>3 DEF OutOfReach, TextOf

(* Who begins has come by nothing yet.                                      *)
LEMMA BeginningStaysOutOfReach ==
    ASSUME EnrolTypeOK, NEW s, OutOfReach(s), NEW c \in Sessions, doing[c].at = "idle",
           NEW job \in EnrolJobs \cup RevokeJobs, Begins(c, job), job.file = NoFile,
           job \in RevokeJobs => job.kept = << >>,
           job \in EnrolJobs => job.secret # s,
           UNCHANGED <<contents, directory>>
    PROVE  OutOfReach(s)'
<1>1. /\ doing'[c] = job
      /\ \A o \in Sessions \ {c} :
            /\ doing[o] = Idle => doing'[o] = Idle
            /\ Enrols(o) <=> Enrols(o)'
            /\ Revokes(o) <=> Revokes(o)'
            /\ Enrols(o) => doing'[o].secret = doing[o].secret /\ doing'[o].file = doing[o].file
            /\ Revokes(o) => doing'[o].kept = doing[o].kept /\ doing'[o].file = doing[o].file
  BY Beginning
<1>2. NoFile \notin Files
  BY EnrolmentAssumption DEF Files, NoFile
<1>3. ASSUME NEW f \in Files, IsReached(f)' PROVE Lacks(contents'[f].text, s)
  <2>1. \A o \in Sessions \ {c} : doing'[o] # Idle => doing[o] # Idle /\ doing'[o].file = doing[o].file
    BY <1>1, JobKinds
  <2>2. IsReached(f)
    BY <1>1, <1>2, <1>3, <2>1 DEF IsReached
  <2> QED BY <2>2 DEF OutOfReach, TextOf
<1>4. ASSUME NEW o \in Sessions
      PROVE  /\ Revokes(o)' => Lacks(doing'[o].kept, s)
             /\ Enrols(o)' => doing'[o].secret # s
  <2>1. CASE o = c
    BY <1>1, <2>1, NothingIsOrderly DEF Enrols, Revokes
  <2>2. CASE o # c
    BY <1>1, <2>2 DEF OutOfReach
  <2> QED BY <2>1, <2>2
<1> QED BY <1>3, <1>4 DEF OutOfReach, TextOf

(* No enrolment brings back a secret that is not its own.                   *)
LEMMA EnrolmentsStayOutOfReach ==
    ASSUME CredentialsInv, NEW s \in DOMAIN minted, OutOfReach(s), NEW c \in Sessions,
           \/ \E d \in Devices : EnrolBegins(c, d)
           \/ EnrolOpens(c)
           \/ EnrolWrites(c)
    PROVE  OutOfReach(s)'
<1> USE DEF CredentialsInv
<1>0. /\ contents \in [Files -> [text : Texts, flushed : Nat]]
      /\ doing \in [Sessions -> {Idle} \cup EnrolJobs \cup RevokeJobs]
      /\ s \in 1..MaxMints
  BY EnrolmentAssumption DEF EnrolTypeOK
<1>1. ASSUME NEW d \in Devices, EnrolBegins(c, d) PROVE OutOfReach(s)'
  <2> DEFINE job == [op |-> "enrol", at |-> "opens", device |-> d, secret |-> Len(minted) + 1,
                     file |-> NoFile, alone |-> Others(c) = {}]
  <2>1. /\ doing[c].at = "idle" /\ Begins(c, job) /\ UNCHANGED <<contents, directory>>
        /\ Len(minted) < MaxMints
    BY <1>1 DEF EnrolBegins
  <2>2. Len(minted) + 1 \in 1..MaxMints /\ s # Len(minted) + 1
    BY <2>1, EnrolmentAssumption DEF EnrolTypeOK
  <2>3. job \in EnrolJobs
    BY <2>2 DEF EnrolJobs, EnrolSteps
  <2>4. job.file = NoFile /\ job.secret # s /\ job \notin RevokeJobs
    BY <2>2 DEF RevokeJobs
  <2> HIDE DEF job
  <2> QED BY <2>1, <2>3, <2>4, BeginningStaysOutOfReach
<1>2. ASSUME EnrolOpens(c) PROVE OutOfReach(s)'
  <2> DEFINE f == IF directory.store # NoFile THEN directory.store ELSE Fresh
             job == [doing[c] EXCEPT !.at = "writes", !.file = f]
  <2>1. doing[c].at = "opens" /\ Enrols(c) /\ ~Revokes(c) /\ doing[c] # Idle
    BY <1>2, JobKinds DEF EnrolOpens, EnrolSteps, RevokeSteps, WithTheFile
  <2>2. f \in Files /\ (directory.store = NoFile => Fresh \in Files /\ contents' = [contents EXCEPT ![Fresh] = Emptied])
    BY <1>2, FreshIsFresh DEF EnrolOpens, EnrolTypeOK, Entries
  <2>3. doing' = [doing EXCEPT ![c] = job]
    BY <1>0, <1>2 DEF EnrolOpens
  <2>4. job \in EnrolJobs /\ job \notin RevokeJobs /\ job.secret = doing[c].secret /\ job.file = f
    BY <2>1, <2>2 DEF Enrols, EnrolJobs, RevokeJobs, EnrolSteps
  <2>5. job.secret # s
    BY <2>1, <2>4 DEF OutOfReach
  <2>6. directory.store # NoFile => UNCHANGED <<contents, directory>>
    BY <1>2 DEF EnrolOpens
  <2>7. directory.store = NoFile => directory' = [directory EXCEPT !.store = Fresh]
    BY <1>2 DEF EnrolOpens, Enters
  <2>8. directory \in Entries
    BY DEF EnrolTypeOK
  <2> HIDE DEF job
  <2>9. ASSUME NEW g \in Files
        PROVE  /\ IsReached(g) => Lacks(contents'[g].text, s)
               /\ \/ g \in {directory'.store, directory'.partial}
                  \/ job # Idle /\ job.file = g
                  => IsReached(g) \/ contents'[g].text = << >>
    <3>1. CASE directory.store # NoFile
      BY <2>4, <2>6, <3>1 DEF IsReached, OutOfReach, TextOf
    <3>2. CASE directory.store = NoFile
      <4>1. /\ f = Fresh /\ contents'[Fresh].text = << >>
            /\ \A h \in Files : h # Fresh => contents'[h] = contents[h]
        BY <1>0, <2>2, <3>2, NothingIsOrderly
      <4>2. directory'.store = Fresh /\ directory'.partial = directory.partial
        BY <2>7, <2>8, <3>2 DEF Entries
      <4>3. CASE g = Fresh
        BY <4>1, <4>3, NothingIsOrderly
      <4>4. CASE g # Fresh
        BY <2>4, <4>1, <4>2, <4>4 DEF IsReached, OutOfReach, TextOf
      <4> QED BY <4>3, <4>4
    <3> QED BY <3>1, <3>2
  <2> QED BY <2>1, <2>3, <2>4, <2>5, <2>9, GoingOnStaysOutOfReach
<1>3. ASSUME EnrolWrites(c) PROVE OutOfReach(s)'
  <2>1. PICK i \in 1..4 :
           /\ doing[c].at = WritesLine[i]
           /\ contents' = [contents EXCEPT ![doing[c].file].text =
                           Append(@, LineOf(doing[c].device, doing[c].secret)[i])]
           /\ IF i = 4 THEN Ends(c) ELSE Goes(c, WritesLine[i + 1])
           /\ UNCHANGED directory
    <3>1. DOMAIN WritesLine = 1..4 /\ Len(WritesLine) = 4
      BY DEF WritesLine
    <3> QED BY <1>3, <3>1 DEF EnrolWrites
  <2> DEFINE f == doing[c].file
             p == LineOf(doing[c].device, doing[c].secret)[i]
             text == contents[f].text
             job == IF i = 4 THEN Idle ELSE [doing[c] EXCEPT !.at = WritesLine[i + 1]]
  <2>2. WritesLine[i] \in EnrolSteps \ {"opens"} /\ (i # 4 => WritesLine[i + 1] \in EnrolSteps)
    BY DEF WritesLine, EnrolSteps
  <2>3. Enrols(c) /\ doing[c] # Idle /\ EnrolmentKnows(c) /\ doing[c].at # "opens"
    BY <2>1, <2>2, JobKinds DEF EnrolSteps
  <2>4. /\ f \in Files /\ doing[c].device \in Devices /\ doing[c].secret \in 1..MaxMints
        /\ doing[c].secret # s
    BY <2>3, JobKinds DEF EnrolmentKnows, OutOfReach
  <2>5. doing' = [doing EXCEPT ![c] = job]
    <3>1. CASE i = 4
      BY <1>0, <2>1, <3>1 DEF Ends
    <3>2. CASE i # 4
      BY <1>0, <2>1, <3>2 DEF Goes
    <3> QED BY <3>1, <3>2
  <2>6. job \in {Idle} \cup EnrolJobs /\ (job # Idle => job.file = f /\ job.secret # s /\ job \notin RevokeJobs)
    <3>1. CASE i = 4
      BY <3>1
    <3>2. CASE i # 4
      BY <2>2, <2>3, <2>4, <3>2 DEF Enrols, EnrolJobs, RevokeJobs
    <3> QED BY <3>1, <3>2
  <2>7. contents' = [contents EXCEPT ![f].text = Append(text, p)]
    BY <1>0, <2>1
  <2>8. p \in Pieces /\ p # Secret(s)
    <3>1. \/ p = Name(doing[c].device) \/ p = Gap \/ p = Secret(doing[c].secret) \/ p = End
      BY DEF LineOf
    <3> HIDE DEF p
    <3> QED BY <1>0, <2>4, <3>1, PiecesApart DEF Pieces
  <2>9. text \in Texts /\ IsReached(f)
    <3>1. IsReached(f)
      BY <2>3 DEF IsReached
    <3> HIDE DEF f
    <3> QED BY <1>0, <2>4, <3>1
  <2>10. "idle" \notin EnrolSteps /\ "idle" \notin RevokeSteps /\ Idle.at = "idle"
    BY DEF EnrolSteps, RevokeSteps, WithTheFile, Idle
  <2>11. Idle \notin EnrolJobs /\ Idle \notin RevokeJobs
    BY <2>10 DEF EnrolJobs, RevokeJobs
  <2> HIDE DEF f, p, text, job
  <2>12. /\ contents'[f].text = Append(text, p)
         /\ \A g \in Files : g # f => contents'[g] = contents[g]
    BY <1>0, <2>4, <2>7
  <2>13. Lacks(Append(text, p), s)
    <3>1. /\ DOMAIN Append(text, p) = 1..(Len(text) + 1) /\ DOMAIN text = 1..Len(text) /\ Len(text) \in Nat
          /\ \A k \in 1..Len(text) : Append(text, p)[k] = text[k]
          /\ Append(text, p)[Len(text) + 1] = p
      BY <2>8, <2>9, AppendedText DEF Texts
    <3>2. Lacks(text, s)
      BY <2>4, <2>9 DEF OutOfReach, TextOf, text
    <3> QED BY <2>8, <3>1, <3>2 DEF Lacks
  <2>14. ASSUME NEW g \in Files
         PROVE  /\ IsReached(g) => Lacks(contents'[g].text, s)
                /\ \/ g \in {directory'.store, directory'.partial}
                   \/ job # Idle /\ job.file = g
                   => IsReached(g) \/ contents'[g].text = << >>
    <3>1. IsReached(g) => Lacks(contents'[g].text, s)
      BY <2>12, <2>13 DEF OutOfReach, TextOf
    <3>2. \/ g \in {directory'.store, directory'.partial}
          \/ job # Idle /\ job.file = g
          => IsReached(g)
      BY <2>1, <2>6, <2>9 DEF IsReached
    <3> QED BY <3>1, <3>2
  <2> QED BY <2>3, <2>5, <2>6, <2>11, <2>14, GoingOnStaysOutOfReach
<1> QED BY <1>1, <1>2, <1>3

(* Nor does a revocation, whichever device it is of, and however it ends.   *)
LEMMA RevocationsStayOutOfReach ==
    ASSUME CredentialsInv, NEW s \in DOMAIN minted, OutOfReach(s), NEW c \in Sessions,
           \/ \E d \in Devices : RevokeBegins(c, d)
           \/ RevokeReads(c)
           \/ RevokeTruncates(c)
           \/ RevokeRewrites(c)
           \/ RevokeFlushes(c)
           \/ RevokeRenames(c)
           \/ RevokeNamesNoDirectory(c)
           \/ Killed(c)
    PROVE  OutOfReach(s)'
<1> USE DEF CredentialsInv
<1>0. /\ contents \in [Files -> [text : Texts, flushed : Nat]]
      /\ doing \in [Sessions -> {Idle} \cup EnrolJobs \cup RevokeJobs]
      /\ directory \in Entries /\ NoFile \notin Files
      /\ Idle \notin EnrolJobs /\ Idle \notin RevokeJobs
  <2>1. "idle" \notin EnrolSteps /\ "idle" \notin RevokeSteps /\ Idle.at = "idle"
    BY DEF EnrolSteps, RevokeSteps, WithTheFile, Idle
  <2> QED BY <2>1, EnrolmentAssumption DEF EnrolTypeOK, EnrolJobs, RevokeJobs, Files, NoFile
<1>a. \A f \in Files : IsReached(f) => Lacks(contents[f].text, s)
  BY DEF OutOfReach, TextOf
<1>b. Revokes(c) => /\ ~Enrols(c) /\ doing[c] # Idle /\ RevocationKnows(c) /\ Lacks(doing[c].kept, s)
                    /\ doing[c].kept \in Texts /\ doing[c].device \in Devices
                    /\ (doing[c].file \in Files => IsReached(doing[c].file))
  BY <1>0, JobKinds DEF OutOfReach, IsReached, Revokes, Enrols, EnrolJobs, RevokeJobs
<1>1. ASSUME NEW d \in Devices, RevokeBegins(c, d) PROVE OutOfReach(s)'
  <2> DEFINE job == [op |-> "revoke", at |-> "reads", device |-> d, file |-> NoFile, kept |-> << >>,
                     alone |-> Others(c) = {}]
  <2>1. doing[c].at = "idle" /\ Begins(c, job) /\ UNCHANGED <<contents, directory>>
    BY <1>1 DEF RevokeBegins
  <2>2. job \in RevokeJobs
    BY NothingIsOrderly DEF RevokeJobs, RevokeSteps
  <2>3. job.file = NoFile /\ job.kept = << >> /\ job \notin EnrolJobs
    BY DEF EnrolJobs
  <2> HIDE DEF job
  <2> QED BY <2>1, <2>2, <2>3, BeginningStaysOutOfReach
<1>2. ASSUME RevokeReads(c) PROVE OutOfReach(s)'
  <2> DEFINE text == contents[directory.store].text
             d == doing[c].device
             going == directory.store # NoFile /\ Owns(text, d)
             job == IF going THEN [doing[c] EXCEPT !.at = "truncates", !.kept = Kept(text, d)] ELSE Idle
  <2>1. doing[c].at = "reads" /\ UNCHANGED <<contents, directory>> /\ Revokes(c)
    BY <1>2, JobKinds DEF RevokeReads, RevokeSteps
  <2>2. doing' = [doing EXCEPT ![c] = job]
    <3>1. CASE going
      BY <1>0, <1>2, <3>1 DEF RevokeReads
    <3>2. CASE ~going
      BY <1>0, <1>2, <3>2 DEF RevokeReads, Ends
    <3> QED BY <3>1, <3>2
  <2>3. going => directory.store \in Files /\ text \in Texts /\ Orderly(text, minted, overlapped)
                 /\ overlapped \in BOOLEAN /\ IsReached(directory.store)
    BY <1>0 DEF EnrolTypeOK, Entries, TextsAreOrderly, TextOf, IsReached
  <2>4. going => Kept(text, d) \in Texts /\ Lacks(Kept(text, d), s)
    <3>1. going => Lacks(text, s)
      BY <1>a, <2>3
    <3> HIDE DEF text, d, going
    <3> QED BY <2>3, <3>1, KeptIsOrderly, KeptLacksMore
  <2>5. /\ going => /\ job \in RevokeJobs /\ job \notin EnrolJobs /\ job.kept = Kept(text, d)
                    /\ job.file = doing[c].file
        /\ ~going => job = Idle
    <3> SUFFICES ASSUME going
                 PROVE  /\ job \in RevokeJobs /\ job \notin EnrolJobs /\ job.kept = Kept(text, d)
                        /\ job.file = doing[c].file
      OBVIOUS
    <3>1. Kept(text, d) \in Texts
      BY <2>4
    <3>2. job = [doing[c] EXCEPT !.at = "truncates", !.kept = Kept(text, d)]
      OBVIOUS
    <3> HIDE DEF job, text, d, going
    <3>3. job \in RevokeJobs
      BY <2>1, <3>1, <3>2 DEF Revokes, RevokeJobs, RevokeSteps
    <3>4. job.kept = Kept(text, d) /\ job.file = doing[c].file /\ job.op = "revoke"
      BY <2>1, <3>2 DEF Revokes, RevokeJobs
    <3> QED BY <3>3, <3>4 DEF EnrolJobs
  <2> HIDE DEF text, d, going, job
  <2>6. ASSUME NEW f \in Files
        PROVE  /\ IsReached(f) => Lacks(contents'[f].text, s)
               /\ \/ f \in {directory'.store, directory'.partial}
                  \/ job # Idle /\ job.file = f
                  => IsReached(f) \/ contents'[f].text = << >>
    BY <1>a, <1>b, <2>1, <2>5 DEF IsReached
  <2>7. /\ job \in {Idle} \cup EnrolJobs \cup RevokeJobs
        /\ job \in RevokeJobs => Lacks(job.kept, s)
        /\ job \in EnrolJobs => job.secret # s
    BY <1>0, <2>4, <2>5
  <2> QED BY <1>b, <2>1, <2>2, <2>6, <2>7, GoingOnStaysOutOfReach
<1>3. ASSUME RevokeTruncates(c) PROVE OutOfReach(s)'
  <2> DEFINE f == IF directory.partial # NoFile THEN directory.partial ELSE Fresh
             job == [doing[c] EXCEPT !.at = "rewrites", !.file = f]
  <2>1. doing[c].at = "truncates" /\ Revokes(c)
    BY <1>3, JobKinds DEF RevokeTruncates, RevokeSteps
  <2>2. f \in Files
    BY <1>0, <1>3, FreshIsFresh DEF RevokeTruncates, Entries
  <2>3. /\ contents' = [contents EXCEPT ![f] = Emptied]
        /\ doing' = [doing EXCEPT ![c].at = "rewrites", ![c].file = f]
    BY <1>3 DEF RevokeTruncates
  <2>4. doing' = [doing EXCEPT ![c] = job]
    BY <1>0, <2>3
  <2>5. directory'.store = directory.store /\ directory'.partial = f
    <3>1. CASE directory.partial # NoFile
      BY <1>3, <3>1 DEF RevokeTruncates
    <3>2. CASE directory.partial = NoFile
      <4>1. directory' = [directory EXCEPT !.partial = f]
        BY <1>3, <3>2 DEF RevokeTruncates, Enters
      <4> HIDE DEF f
      <4> QED BY <1>0, <4>1 DEF Entries
    <3> QED BY <3>1, <3>2
  <2> HIDE DEF f
  <2>6. job \in RevokeJobs /\ job \notin EnrolJobs /\ job.kept = doing[c].kept /\ job.file = f
    BY <2>1, <2>2 DEF Revokes, EnrolJobs, RevokeJobs, RevokeSteps, WithTheFile
  <2> HIDE DEF job
  <2>7. contents'[f].text = << >> /\ \A g \in Files : g # f => contents'[g] = contents[g]
    BY <1>0, <2>2, <2>3, NothingIsOrderly
  <2>8. ASSUME NEW g \in Files
        PROVE  /\ IsReached(g) => Lacks(contents'[g].text, s)
               /\ \/ g \in {directory'.store, directory'.partial}
                  \/ job # Idle /\ job.file = g
                  => IsReached(g) \/ contents'[g].text = << >>
    <3>1. CASE g = f
      BY <2>7, <3>1, NothingIsOrderly
    <3>2. CASE g # f
      BY <1>a, <2>5, <2>6, <2>7, <3>2 DEF IsReached
    <3> QED BY <3>1, <3>2
  <2> QED BY <1>b, <2>1, <2>4, <2>6, <2>8, GoingOnStaysOutOfReach
<1>4. ASSUME RevokeRewrites(c) PROVE OutOfReach(s)'
  <2> DEFINE f == doing[c].file
             kept == doing[c].kept
             text == contents[f].text
             job == [doing[c] EXCEPT !.at = "flushes"]
  <2>1. doing[c].at = "rewrites" /\ Revokes(c) /\ UNCHANGED directory
    BY <1>4, JobKinds DEF RevokeRewrites, RevokeSteps, WithTheFile
  <2>2. f \in Files
    BY <1>b, <2>1 DEF RevocationKnows
  <2>3. doing' = [doing EXCEPT ![c] = job]
    BY <1>0, <1>4 DEF RevokeRewrites, Goes
  <2>4. contents' = [contents EXCEPT ![f] = [text |-> Over(text, kept), flushed |-> 0]]
    BY <1>0, <1>4, <2>2 DEF RevokeRewrites
  <2>5. job \in RevokeJobs /\ job \notin EnrolJobs /\ job.kept = kept /\ job.file = f
    BY <2>1 DEF Revokes, EnrolJobs, RevokeJobs, RevokeSteps, WithTheFile
  <2>6. \A g \in Files : contents[g].text \in Texts
    BY <1>0
  <2>7. IsReached(f) /\ Lacks(kept, s) /\ kept \in Texts
    BY <1>b, <2>1, <2>2
  <2>8. text \in Texts /\ Lacks(text, s)
    <3> HIDE DEF f
    <3> QED BY <1>a, <2>2, <2>6, <2>7
  <2> HIDE DEF f, kept, text, job
  <2>9. Lacks(Over(text, kept), s)
    BY <2>7, <2>8, OverLacksMore
  <2>10. contents'[f].text = Over(text, kept) /\ \A g \in Files : g # f => contents'[g] = contents[g]
    BY <1>0, <2>2, <2>4
  <2>11. ASSUME NEW g \in Files
         PROVE  /\ IsReached(g) => Lacks(contents'[g].text, s)
                /\ \/ g \in {directory'.store, directory'.partial}
                   \/ job # Idle /\ job.file = g
                   => IsReached(g) \/ contents'[g].text = << >>
    <3>1. IsReached(g) => Lacks(contents'[g].text, s)
      BY <1>a, <2>9, <2>10
    <3>2. g \in {directory'.store, directory'.partial} \/ g = f => IsReached(g)
      BY <2>1, <2>7 DEF IsReached
    <3> QED BY <2>5, <3>1, <3>2
  <2>12. job \in RevokeJobs => Lacks(job.kept, s)
    BY <2>5, <2>7
  <2> QED BY <1>b, <2>1, <2>3, <2>5, <2>11, <2>12, GoingOnStaysOutOfReach
<1>5. ASSUME RevokeFlushes(c) PROVE OutOfReach(s)'
  <2> DEFINE f == doing[c].file
             job == [doing[c] EXCEPT !.at = "renames"]
  <2>1. doing[c].at = "flushes" /\ Revokes(c) /\ UNCHANGED directory
    BY <1>5, JobKinds DEF RevokeFlushes, RevokeSteps, WithTheFile
  <2>2. f \in Files /\ IsReached(f)
    BY <1>b, <2>1 DEF RevocationKnows
  <2>3. doing' = [doing EXCEPT ![c] = job]
    BY <1>0, <1>5 DEF RevokeFlushes, Goes
  <2>4. contents' = [contents EXCEPT ![f].flushed = Len(contents[f].text)]
    BY <1>5 DEF RevokeFlushes
  <2>5. job \in RevokeJobs /\ job \notin EnrolJobs /\ job.kept = doing[c].kept /\ job.file = f
    BY <2>1 DEF Revokes, EnrolJobs, RevokeJobs, RevokeSteps, WithTheFile
  <2> HIDE DEF f, job
  <2>6. \A g \in Files : contents'[g].text = contents[g].text
    BY <1>0, <2>2, <2>4
  <2>7. ASSUME NEW g \in Files
        PROVE  /\ IsReached(g) => Lacks(contents'[g].text, s)
               /\ \/ g \in {directory'.store, directory'.partial}
                  \/ job # Idle /\ job.file = g
                  => IsReached(g) \/ contents'[g].text = << >>
    <3>1. g \in {directory'.store, directory'.partial} \/ g = f => IsReached(g)
      BY <2>1, <2>2 DEF IsReached
    <3> QED BY <1>a, <2>5, <2>6, <3>1
  <2>8. job \in RevokeJobs => Lacks(job.kept, s)
    BY <1>b, <2>1, <2>5
  <2> QED BY <1>b, <2>1, <2>3, <2>5, <2>7, <2>8, GoingOnStaysOutOfReach
<1>6. ASSUME RevokeRenames(c) PROVE OutOfReach(s)'
  <2> DEFINE going == directory.partial # NoFile
             job == IF going THEN [doing[c] EXCEPT !.at = "flushes directory"] ELSE Idle
  <2>1. doing[c].at = "renames" /\ Revokes(c) /\ UNCHANGED contents
    BY <1>6, JobKinds DEF RevokeRenames, RevokeSteps, WithTheFile
  <2>2. doing' = [doing EXCEPT ![c] = job]
    <3>1. CASE going
      BY <1>0, <1>6, <3>1 DEF RevokeRenames, Goes
    <3>2. CASE ~going
      BY <1>0, <1>6, <3>2 DEF RevokeRenames, Ends
    <3> QED BY <3>1, <3>2
  <2>3. /\ going => directory' = [store |-> directory.partial, partial |-> NoFile]
        /\ ~going => UNCHANGED directory
    BY <1>6 DEF RevokeRenames, Enters
  <2>4. /\ going => /\ job \in RevokeJobs /\ job \notin EnrolJobs /\ job.kept = doing[c].kept
                    /\ job.file = doing[c].file
        /\ ~going => job = Idle
    BY <2>1 DEF Revokes, EnrolJobs, RevokeJobs, RevokeSteps
  <2> HIDE DEF going, job
  <2>5. \A g \in Files : g \in {directory'.store, directory'.partial} => IsReached(g)
    <3>1. CASE going
      BY <1>0, <2>3, <3>1 DEF IsReached
    <3>2. CASE ~going
      BY <2>3, <3>2 DEF IsReached
    <3> QED BY <3>1, <3>2
  <2>6. ASSUME NEW g \in Files
        PROVE  /\ IsReached(g) => Lacks(contents'[g].text, s)
               /\ \/ g \in {directory'.store, directory'.partial}
                  \/ job # Idle /\ job.file = g
                  => IsReached(g) \/ contents'[g].text = << >>
    BY <1>a, <1>b, <2>1, <2>4, <2>5
  <2>7. /\ job \in {Idle} \cup EnrolJobs \cup RevokeJobs
        /\ job \in RevokeJobs => Lacks(job.kept, s)
        /\ job \in EnrolJobs => job.secret # s
    BY <1>0, <1>b, <2>1, <2>4
  <2> QED BY <1>b, <2>1, <2>2, <2>6, <2>7, GoingOnStaysOutOfReach
<1>7. ASSUME Killed(c) \/ RevokeNamesNoDirectory(c) PROVE OutOfReach(s)'
  <2> DEFINE held == InUse({directory} \cup medium) \cup HeldBut(c)
  <2>1. doing[c].at # "idle" /\ contents' = Collected(held) /\ Ends(c) /\ UNCHANGED directory
    BY <1>7 DEF Killed, RevokeNamesNoDirectory
  <2>2. doing[c] # Idle /\ doing' = [doing EXCEPT ![c] = Idle]
    BY <2>1, JobKinds DEF Ends
  <2>3. \A g \in Files : contents'[g].text = contents[g].text \/ contents'[g].text = << >>
    BY <2>1, NothingIsOrderly DEF Collected
  <2> HIDE DEF held
  <2>4. ASSUME NEW g \in Files
        PROVE  /\ IsReached(g) => Lacks(contents'[g].text, s)
               /\ g \in {directory'.store, directory'.partial} => IsReached(g)
    <3>1. IsReached(g) => Lacks(contents'[g].text, s)
      BY <1>a, <2>3, NothingIsOrderly
    <3> QED BY <2>1, <3>1 DEF IsReached
  <2> DEFINE job == Idle
  <2>5. doing' = [doing EXCEPT ![c] = job] /\ job = Idle
    BY <2>2
  <2> HIDE DEF job
  <2> QED BY <1>0, <2>2, <2>4, <2>5, GoingOnStaysOutOfReach
<1> QED BY <1>1, <1>2, <1>3, <1>4, <1>5, <1>6, <1>7

(* Only a power cut may bring back what a revocation took out without a     *)
(* flush; and then it is not said to be out.                                *)
LEMMA OutStaysOutOfReach ==
    ASSUME CredentialsInv, OutIsOutOfReach, EnrolNext
    PROVE  OutIsOutOfReach'
<1>0. ASSUME NEW s, s \in DOMAIN minted, minted' = minted \/ \E d \in Devices : minted' = Append(minted, d)
      PROVE  s \in DOMAIN minted'
  <2>1. minted \in Seq(Devices)
    BY DEF CredentialsInv, EnrolTypeOK
  <2> QED BY <1>0, <2>1
<1>1. CASE PowerCut
  BY <1>1 DEF PowerCut, OutIsOutOfReach
<1>2. ASSUME NEW c \in Sessions, NEW d \in Devices, EnrolBegins(c, d) PROVE OutIsOutOfReach'
  <2>1. out' = out /\ minted' = Append(minted, d)
    BY <1>2 DEF EnrolBegins
  <2>2. \A s \in out : OutOfReach(s)'
    BY <1>2, EnrolmentsStayOutOfReach DEF OutIsOutOfReach
  <2> QED BY <1>0, <2>1, <2>2 DEF OutIsOutOfReach
<1>3. ASSUME NEW c \in Sessions, EnrolOpens(c) \/ EnrolWrites(c) PROVE OutIsOutOfReach'
  <2>1. UNCHANGED <<out, minted>>
    BY <1>3 DEF EnrolOpens, EnrolWrites
  <2>2. \A s \in out : OutOfReach(s)'
    BY <1>3, EnrolmentsStayOutOfReach DEF OutIsOutOfReach
  <2> QED BY <2>1, <2>2 DEF OutIsOutOfReach
<1>4. ASSUME NEW c \in Sessions,
             \/ \E d \in Devices : RevokeBegins(c, d)
             \/ RevokeReads(c)
             \/ RevokeTruncates(c)
             \/ RevokeRewrites(c)
             \/ RevokeFlushes(c)
             \/ RevokeRenames(c)
             \/ Killed(c)
      PROVE  OutIsOutOfReach'
  <2>1. UNCHANGED <<out, minted>>
    BY <1>4 DEF RevokeBegins, RevokeReads, RevokeTruncates, RevokeRewrites, RevokeFlushes,
                RevokeRenames, Killed
  <2>2. \A s \in out : OutOfReach(s)'
    BY <1>4, RevocationsStayOutOfReach DEF OutIsOutOfReach
  <2> QED BY <2>1, <2>2 DEF OutIsOutOfReach
<1>5. ASSUME NEW c \in Sessions, RevokeNamesNoDirectory(c) PROVE OutIsOutOfReach'
  <2>1. out' = out \cup TakenOut(c) /\ minted' = minted /\ doing[c].at = "flushes directory"
    BY <1>5 DEF RevokeNamesNoDirectory
  <2>2. \A s \in out' : s \in DOMAIN minted /\ OutOfReach(s)
    BY <2>1, TakenOutIsOutOfReach DEF OutIsOutOfReach
  <2>3. \A s \in out' : OutOfReach(s)'
    BY <1>5, <2>2, RevocationsStayOutOfReach
  <2> QED BY <2>1, <2>2, <2>3 DEF OutIsOutOfReach
<1>6. ASSUME NEW c \in Sessions, RevokeFlushesDirectory(c) PROVE OutIsOutOfReach'
  BY <1>6 DEF RevokeFlushesDirectory, OutIsOutOfReach
<1> QED BY <1>1, <1>2, <1>3, <1>4, <1>5, <1>6 DEF EnrolNext

(* The invariant of enrolments and revocations, killed and cut anywhere.    *)
THEOREM CredentialsInvariant == EnrolSpec => [](CredentialsInv /\ OutIsOutOfReach)
<1>1. EnrolInit => CredentialsInv /\ OutIsOutOfReach
  BY CredentialsInit DEF EnrolInit, OutIsOutOfReach
<1>2. CredentialsInv /\ OutIsOutOfReach /\ [EnrolNext]_enrolVars => (CredentialsInv /\ OutIsOutOfReach)'
  <2> SUFFICES ASSUME CredentialsInv, OutIsOutOfReach, [EnrolNext]_enrolVars
               PROVE  CredentialsInv' /\ OutIsOutOfReach'
    OBVIOUS
  <2>1. CASE EnrolNext
    <3>1. ASSUME NEW c \in Sessions, NEW d \in Devices, EnrolBegins(c, d) PROVE CredentialsInv'
      BY <3>1, EnrolBeginsKeeps
    <3>2. ASSUME NEW c \in Sessions, NEW d \in Devices, RevokeBegins(c, d) PROVE CredentialsInv'
      BY <3>2, RevokeBeginsKeeps
    <3>3. ASSUME NEW c \in Sessions, EnrolOpens(c) PROVE CredentialsInv'
      BY <3>3, EnrolOpensKeeps
    <3>4. ASSUME NEW c \in Sessions, EnrolWrites(c) PROVE CredentialsInv'
      BY <3>4, EnrolWritesKeeps
    <3>5. ASSUME NEW c \in Sessions, RevokeReads(c) PROVE CredentialsInv'
      BY <3>5, RevokeReadsKeeps
    <3>6. ASSUME NEW c \in Sessions, RevokeTruncates(c) PROVE CredentialsInv'
      BY <3>6, RevokeTruncatesKeeps
    <3>7. ASSUME NEW c \in Sessions, RevokeRewrites(c) PROVE CredentialsInv'
      BY <3>7, RevokeRewritesKeeps
    <3>8. ASSUME NEW c \in Sessions, RevokeFlushes(c) PROVE CredentialsInv'
      BY <3>8, RevokeFlushesKeeps
    <3>9. ASSUME NEW c \in Sessions, RevokeRenames(c) PROVE CredentialsInv'
      BY <3>9, RevokeRenamesKeeps
    <3>10. ASSUME NEW c \in Sessions, RevokeFlushesDirectory(c) PROVE CredentialsInv'
      BY <3>10, RevokeFlushesDirectoryKeeps
    <3>11. ASSUME NEW c \in Sessions, Killed(c) \/ RevokeNamesNoDirectory(c) PROVE CredentialsInv'
      BY <3>11, LeavingKeeps
    <3>12. ASSUME PowerCut PROVE CredentialsInv'
      BY <3>12, PowerCutKeeps
    <3> QED BY <2>1, <3>1, <3>2, <3>3, <3>4, <3>5, <3>6, <3>7, <3>8, <3>9, <3>10, <3>11, <3>12,
            OutStaysOutOfReach DEF EnrolNext
  <2>2. CASE UNCHANGED enrolVars
    BY <2>2 DEF enrolVars, CredentialsInv, EnrolTypeOK, OneAtATime, TemporariesAreApart,
                TextsAreOrderly, CommentsAreFlushed, EnrolmentKnows, RevocationKnows, GoneIsNowhere,
                OutIsOutOfReach, OutOfReach, IsReached, Enrols, Revokes, TextOf,
                HasTheTemporary, HasTheStore, LacksTheDevice, Loaded
  <2> QED BY <2>1, <2>2
<1> QED BY <1>1, <1>2, PTL DEF EnrolSpec

(* Whom a server lets in that starts now: the whole credentials of a text   *)
(* that is orderly.                                                         *)
LEMMA RecognisedAreWhole ==
    ASSUME CredentialsInv, NEW e \in Recognised
    PROVE  /\ directory.store \in Files
           /\ \E s \in DOMAIN minted, k \in DOMAIN TextOf(directory.store) :
                 /\ TextOf(directory.store)[k] = Secret(s)
                 /\ e.secret = <<Secret(s)>>
                 /\ Last(e.device) = Name(minted[s])
                 /\ ~overlapped => e.device = <<Name(minted[s])>>
<1> DEFINE text == TextOf(directory.store)
<1>1. PICK i \in DOMAIN Loaded.entries : e = Loaded.entries[i]
  BY DEF Recognised, Range
<1>2. directory.store # NoFile
  <2> SUFFICES ASSUME directory.store = NoFile PROVE FALSE
    OBVIOUS
  <2>1. Loaded.entries = << >>
    BY LoadedStore DEF Empty
  <2> QED BY <1>1, <2>1
<1>3. /\ directory.store \in Files /\ text \in Texts /\ overlapped \in BOOLEAN
      /\ minted \in Seq(Devices) /\ Orderly(text, minted, overlapped)
  BY <1>2 DEF CredentialsInv, EnrolTypeOK, Entries, TextsAreOrderly, TextOf
<1>4. Loaded = ParseStore(text)
  BY <1>2, LoadedStore
<1> HIDE DEF text
<1>5. ParseStore(text).why = Sound
  <2> SUFFICES ASSUME ParseStore(text).why # Sound PROVE FALSE
    OBVIOUS
  <2>1. ParseStore(text).entries = << >>
    BY DEF ParseStore, Empty
  <2> QED BY <1>1, <1>4, <2>1
<1>6. /\ \A j \in EntryStarts(text) : HasTwoFields(text, j) /\ AsSecret(LastWord(text, j)) = Sound
      /\ ParseStore(text).entries =
            [j \in EntryStarts(text) |-> [device |-> FirstWord(text, j), secret |-> LastWord(text, j)]]
  BY <1>3, <1>5, AcceptedStore
<1>7. i \in EntryStarts(text) /\ e.device = FirstWord(text, i) /\ e.secret = LastWord(text, i)
  BY <1>1, <1>4, <1>6
<1>8. PICK s \in DOMAIN minted, k \in WordStarts(text, i) :
         /\ text[k] = Secret(s)
         /\ LastWord(text, i) = <<Secret(s)>>
         /\ Last(FirstWord(text, i)) = Name(minted[s])
         /\ ~overlapped => FirstWord(text, i) = <<Name(minted[s])>>
  BY <1>3, <1>6, <1>7, CredentialIsWhole
<1>9. k \in DOMAIN text
  BY <1>3, <1>7, <1>8 DEF WordStarts, LineAt, EntryStarts, LineStarts, Texts
<1> QED BY <1>3, <1>7, <1>8, <1>9 DEF text

(* A server that starts accepts no secret but a whole one that was minted,  *)
(* under the name it was written with, and under no more than that unless   *)
(* revocations overlapped.                                                  *)
THEOREM CredentialsAreWhole == EnrolSpec => []OnlyWholeCredentials
<1>1. CredentialsInv => OnlyWholeCredentials
  BY RecognisedAreWhole DEF OnlyWholeCredentials
<1> QED BY <1>1, CredentialsInvariant, PTL

(* A device that was told to be revoked stays out, and until the power is   *)
(* cut it does even where the directory of the store was not flushed.       *)
THEOREM TheRevokedStayOut == EnrolSpec => []RevokedStaysOut
<1>1. ASSUME CredentialsInv, OutIsOutOfReach, NEW e \in Recognised, NEW s \in gone \cup out
      PROVE  e.secret # <<Secret(s)>>
  <2>1. PICK t \in DOMAIN minted, k \in DOMAIN TextOf(directory.store) :
           TextOf(directory.store)[k] = Secret(t) /\ e.secret = <<Secret(t)>>
    BY <1>1, RecognisedAreWhole
  <2>2. directory.store \in Files /\ IsReached(directory.store)
    BY <1>1, RecognisedAreWhole DEF IsReached
  <2>3. Lacks(TextOf(directory.store), s)
    BY <1>1, <2>2 DEF CredentialsInv, GoneIsNowhere, OutIsOutOfReach, OutOfReach
  <2>4. Secret(t) # Secret(s)
    BY <2>1, <2>3 DEF Lacks
  <2> QED BY <2>1, <2>4
<1>2. CredentialsInv /\ OutIsOutOfReach => RevokedStaysOut
  BY <1>1 DEF RevokedStaysOut
<1> QED BY <1>2, CredentialsInvariant, PTL
=============================================================================
