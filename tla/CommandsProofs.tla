---------------------------- MODULE CommandsProofs ----------------------------
(***************************************************************************)
(* Theorems of the parts of MCCommands, of the device and its guest record  *)
(* as they move there, of the answers of a cell and of a fleet as they are  *)
(* specified on their own:                                                  *)
(*   - what a stranger is sent depends on the request and on nothing else,  *)
(*     for every set of cells with the same devices enrolled, every         *)
(*     connection and everything a published tree may hold (Answers);       *)
(*   - what is answered well is due to who asked and to what the cell is    *)
(*     like, and what is stored changes for the enrolled alone, and is kept *)
(*     (Answers);                                                           *)
(*   - a guest's report tells nothing as attested that its host said before *)
(*     the latest boot on record, for every machine and every number of     *)
(*     reboots (Device);                                                    *)
(*   - `all` announces what it starts, for every device and every           *)
(*     invocation (Device);                                                 *)
(*   - no report of a device says better of it than what was read, and its  *)
(*     status promises nothing (Device, Panel, Catalogue, Image, Tier);     *)
(*   - a plan rolls in order, and a fleet that is parted in two does not    *)
(*     accept writes in both parts, for every number of nodes and every     *)
(*     finite set of members (Fleet).                                       *)
(***************************************************************************)
EXTENDS MCCommands, FiniteSetTheorems, NaturalsInduction, WellFoundedInduction, TLAPS

-----------------------------------------------------------------------------
(* Answers. *)

(* What a cell in this state sends when the exchange reaches it. *)
SentBy(e, w) == Handle(e.surface, e.line, e.stream, w, Nonce, e.io).sent

(* This cell lets in whom the other does, and what was sent was sent by a   *)
(* cell that does.                                                          *)
AnswersInv ==
    /\ here.entries = Elsewhere.entries
    /\ {"entries", "stored", "level", "stage"} \subseteq DOMAIN here
    /\ \A e \in exchange : \E w : w.entries = Elsewhere.entries /\ e.sent = SentBy(e, w)

-----------------------------------------------------------------------------
(* What is sent is made of the status, the type and the body, not the log. *)
LEMMA SentAlike ==
    ASSUME NEW r, NEW s, NEW surface, NEW nonce, NEW method,
           r.status = s.status, r.type = s.type, r.body = s.body
    PROVE  Sent(r, surface, nonce, method) = Sent(s, surface, nonce, method)
  BY DEF Sent

(* The status is. *)
LEMMA StatusIsSent ==
    ASSUME NEW r, NEW surface, NEW nonce, NEW method
    PROVE  Sent(r, surface, nonce, method).status = r.status
  BY DEF Sent

(* The fields of a reply, and of one that is logged. *)
LEMMA Replies ==
    ASSUME NEW status, NEW body, NEW log
    PROVE  /\ Reply(status, body).status = status
           /\ Reply(status, body).type = "plain"
           /\ Reply(status, body).body = body
           /\ Explaining(Reply(status, body), log).status = status
           /\ Explaining(Reply(status, body), log).type = "plain"
           /\ Explaining(Reply(status, body), log).body = body
  BY DEF Reply, Explaining

(* A request that is refused before it is routed is answered the same by    *)
(* every cell.                                                              *)
RefusedUnrouted(line, stream) ==
    \/ ParseRequestLine(line).why # Sound
    \/ ReadHeadersAndBody(stream).why # Sound

(* Whatever the two cells are, such a request is answered alike. *)
LEMMA UnroutedAlike ==
    ASSUME NEW surface, NEW line, NEW stream, NEW v, NEW w, NEW io,
           RefusedUnrouted(line, stream)
    PROVE  Handle(surface, line, stream, v, Nonce, io).sent
             = Handle(surface, line, stream, w, Nonce, io).sent
  BY DEF Handle, RefusedUnrouted, Answer

(* Any other is answered with what its surface says to it. *)
LEMMA RoutedIsSent ==
    ASSUME NEW surface, NEW line, NEW stream, NEW w, NEW io,
           ~RefusedUnrouted(line, stream)
    PROVE  Handle(surface, line, stream, w, Nonce, io).sent
             = Sent(Routed(surface, ParseRequestLine(line), ReadHeadersAndBody(stream), w, io).response,
                    surface, Nonce, ParseRequestLine(line).method)
  BY DEF Handle, RefusedUnrouted

(* The vault asks who somebody is before it asks anything else. *)
LEMMA StrangersAlike ==
    ASSUME NEW line, NEW stream, NEW v, NEW w, NEW io, v.entries = w.entries,
           ~IsAuthenticated(Verify(w.entries, ReadHeadersAndBody(stream).bearer))
    PROVE  Handle("vault", line, stream, v, Nonce, io).sent
             = Handle("vault", line, stream, w, Nonce, io).sent
<1>1. CASE RefusedUnrouted(line, stream)
  BY <1>1, UnroutedAlike
<1>2. CASE ~RefusedUnrouted(line, stream)
  <2> DEFINE verdict == Verify(w.entries, ReadHeadersAndBody(stream).bearer)
  <2>1. ASSUME NEW u, u.entries = w.entries
        PROVE  Routed("vault", ParseRequestLine(line), ReadHeadersAndBody(stream), u, io).response
                 = Reply(401, Says(verdict.why))
    BY <2>1 DEF Routed, RouteVault, Answer
  <2> QED BY <1>2, <2>1, RoutedIsSent
<1> QED BY <1>1, <1>2

(* The site says one sentence of a path it publishes nothing at. *)
LEMMA NothingPublishedAlike ==
    ASSUME NEW request, NEW read, NEW w, NEW io,
           Routed("site", request, read, w, io).response.status = 404
    PROVE  /\ Routed("site", request, read, w, io).response.type = "plain"
           /\ Routed("site", request, read, w, io).response.body
                = [nothingAt |-> Names(request.path)]
<1> DEFINE availability == AvailabilityOf(w.level, w.stage)
           found == Resolve(w.machine, w.site, request.path)
           response == RouteSite(request, w.machine, w.site, w.level, w.stage)
<1>0. Routed("site", request, read, w, io).response = response
  BY DEF Routed, Answer
<1> HIDE DEF availability, found
<1>1. CASE availability # ReadingOut
  <2>1. response = Reply(503, [site |-> availability])
    BY <1>1 DEF RouteSite, availability
  <2> QED BY <1>0, <2>1, Replies
<1>2. CASE availability = ReadingOut /\ found.is = "refused"
  <2>1. response = Explaining(NotPublished(Names(request.path), found.why), found.why)
    BY <1>2 DEF RouteSite, availability, found
  <2> QED BY <1>0, <2>1, Replies DEF NotPublished
<1>3. CASE availability = ReadingOut /\ found.is # "refused"
  <2> DEFINE file     == BytesResponse([file |-> found.path], found.type)
             unread   == Explaining(NotPublished(Names(request.path), "not found"), "unreadable")
  <2>1. response = file \/ response = unread
    BY <1>3 DEF RouteSite, availability, found
  <2>2. file.status = 200
    BY DEF BytesResponse, Reply
  <2>3. unread.type = "plain" /\ unread.body = [nothingAt |-> Names(request.path)]
    BY DEF NotPublished, Explaining, Reply
  <2> HIDE DEF file, unread, response
  <2> QED BY <1>0, <2>1, <2>2, <2>3
<1> QED BY <1>1, <1>2, <1>3

(* So two cells that both publish nothing at a path say the same of it. *)
LEMMA VisitorsAlike ==
    ASSUME NEW line, NEW stream, NEW v, NEW w, NEW io,
           Handle("site", line, stream, v, Nonce, io).sent.status = 404,
           Handle("site", line, stream, w, Nonce, io).sent.status = 404
    PROVE  Handle("site", line, stream, v, Nonce, io).sent
             = Handle("site", line, stream, w, Nonce, io).sent
<1>1. CASE RefusedUnrouted(line, stream)
  BY <1>1, UnroutedAlike
<1>2. CASE ~RefusedUnrouted(line, stream)
  <2> DEFINE request == ParseRequestLine(line)
             response(u) == Routed("site", request, ReadHeadersAndBody(stream), u, io).response
  <2>1. ASSUME NEW u
        PROVE  Handle("site", line, stream, u, Nonce, io).sent
                 = Sent(response(u), "site", Nonce, request.method)
    BY <1>2, RoutedIsSent
  <2>2. ASSUME NEW u, Handle("site", line, stream, u, Nonce, io).sent.status = 404
        PROVE  response(u).status = 404
    BY <2>1, <2>2, StatusIsSent
  <2>3. response(v).status = 404 /\ response(w).status = 404
    BY <2>2
  <2>4. /\ response(v).type = "plain" /\ response(v).body = [nothingAt |-> Names(request.path)]
        /\ response(w).type = "plain" /\ response(w).body = [nothingAt |-> Names(request.path)]
    BY <2>3, NothingPublishedAlike
  <2> HIDE DEF response, request
  <2>5. Sent(response(v), "site", Nonce, request.method)
          = Sent(response(w), "site", Nonce, request.method)
    BY <2>3, <2>4, SentAlike
  <2> QED BY <2>1, <2>5
<1> QED BY <1>1, <1>2

-----------------------------------------------------------------------------
(* A connection changes what a cell stores, and not whom it lets in. *)
LEMMA AnswersStepKeepsInv ==
    ASSUME AnswersInv, [AnswersNext]_answerVars
    PROVE  AnswersInv'
<1>1. ASSUME NEW surface \in {"panel", "site", "vault"}, Connection(surface)
      PROVE  AnswersInv'
  <2>1. PICK line \in RequestLines, stream \in Streams, io \in StorageOutcomes :
           LET answer == Handle(surface, line, stream, here, Nonce, io)
           IN  /\ here' = [here EXCEPT !.stored = answer.stored]
               /\ exchange' = {[surface |-> surface, line |-> line, stream |-> stream,
                                io |-> io, sent |-> answer.sent]}
    BY <1>1 DEF Connection
  <2>2. here'.entries = here.entries /\ DOMAIN here' = DOMAIN here
    BY <2>1 DEF AnswersInv
  <2>3. \A e \in exchange' : e.sent = SentBy(e, here)
    BY <2>1 DEF SentBy
  <2>4. \A e \in exchange' : \E w : w.entries = Elsewhere.entries /\ e.sent = SentBy(e, w)
    BY <2>3 DEF AnswersInv
  <2> QED BY <2>2, <2>4 DEF AnswersInv, SentBy
<1>2. CASE Closes
  BY <1>2 DEF Closes, AnswersInv
<1>3. CASE UNCHANGED answerVars
  BY <1>3 DEF answerVars, AnswersInv, SentBy
<1> QED BY <1>1, <1>2, <1>3 DEF AnswersNext

(* The invariant of a cell that is asked. *)
THEOREM AnswersInvariant == AnswersSpec => []AnswersInv
<1>1. AnswersInit => AnswersInv
  BY WorldsAssumption DEF AnswersInit, AnswersInv
<1>2. AnswersInv /\ [AnswersNext]_answerVars => AnswersInv'
  BY AnswersStepKeepsInv
<1> QED BY <1>1, <1>2, PTL DEF AnswersSpec

(* A stranger to the vault is sent the same by every cell it asks, and a    *)
(* visitor of the site cannot tell what lies where nothing is published     *)
(* (route_vault, not_published, Response::render).                          *)
THEOREM StrangersLearn == AnswersSpec => []StrangersLearnNothing
<1>1. AnswersInv => StrangersLearnNothing
  <2> SUFFICES ASSUME AnswersInv, NEW e \in exchange,
                      LET stranger == ~IsAuthenticated(Verify(here.entries,
                                                       ReadHeadersAndBody(e.stream).bearer))
                      IN  \/ e.surface = "vault" /\ stranger
                          \/ e.surface = "site" /\ e.sent.status = 404
                               /\ SentElsewhere(e).status = 404
               PROVE  e.sent = SentElsewhere(e)
    BY DEF StrangersLearnNothing
  <2>1. PICK w : w.entries = Elsewhere.entries /\ e.sent = SentBy(e, w)
    BY DEF AnswersInv
  <2>2. CASE e.surface = "vault"
               /\ ~IsAuthenticated(Verify(here.entries, ReadHeadersAndBody(e.stream).bearer))
    <3>1. Handle("vault", e.line, e.stream, w, Nonce, e.io).sent
            = Handle("vault", e.line, e.stream, Elsewhere, Nonce, e.io).sent
      BY <2>1, <2>2, StrangersAlike DEF AnswersInv
    <3> QED BY <2>1, <2>2, <3>1 DEF SentBy, SentElsewhere
  <2>3. CASE e.surface = "site" /\ e.sent.status = 404 /\ SentElsewhere(e).status = 404
    <3>1. /\ Handle("site", e.line, e.stream, w, Nonce, e.io).sent.status = 404
          /\ Handle("site", e.line, e.stream, Elsewhere, Nonce, e.io).sent.status = 404
      BY <2>1, <2>3 DEF SentBy, SentElsewhere
    <3>2. Handle("site", e.line, e.stream, w, Nonce, e.io).sent
            = Handle("site", e.line, e.stream, Elsewhere, Nonce, e.io).sent
      BY <3>1, VisitorsAlike
    <3> QED BY <2>1, <2>3, <3>2 DEF SentBy, SentElsewhere
  <2> QED BY <2>2, <2>3
<1> QED BY <1>1, AnswersInvariant, PTL

-----------------------------------------------------------------------------
(* Answers, what is due and what they leave stored. *)

(* Whom a change of what is stored is due to, and what it may be.           *)
ChangeIsEarned(e, w, stored) ==
    LET read == ReadHeadersAndBody(e.stream)
        name == Unslashed(e.line.path)[1].name
    IN  /\ e.surface = "vault" /\ IsAuthenticated(Verify(w.entries, read.bearer))
        /\ TakesFiles(w.level, w.stage)
        /\ e.io = "done" /\ e.sent.status = 200
        /\ \/ e.line.verb = "DELETE" /\ stored = w.stored \ {name}
           \/ /\ e.line.verb = "PUT" /\ stored = w.stored \cup {name}
              /\ \E q \in w.quota : ~(read.body > QuotaFree(q))

(* What a cell stores changes for somebody enrolled, while it takes files,  *)
(* by one name, for which there is room; and whoever changed it is told so. *)
StoresForTheEnrolled ==
    [][here'.stored # here.stored =>
          \E e \in exchange' : ChangeIsEarned(e, here, here'.stored)]_answerVars

(* Nothing is answered well that is not due: the site reads out no path     *)
(* with a segment it refuses, and only while the cell serves readers; the   *)
(* vault answers nobody who is not enrolled, reads out while the cell serves*)
(* readers, and stores or removes while it takes files.                     *)
AnswerIsDue(e, w) ==
    \/ e.sent.status # 200
    \/ e.surface = "panel"
    \/ /\ e.surface = "site" /\ ServesReaders(w.level, w.stage)
       /\ \A i \in DOMAIN e.line.path : SegmentRefusal(e.line.path[i]) = "none"
    \/ /\ e.surface = "vault"
       /\ IsAuthenticated(Verify(w.entries, ReadHeadersAndBody(e.stream).bearer))
       /\ IF e.line.verb \in {"GET", "HEAD"} THEN ServesReaders(w.level, w.stage)
          ELSE TakesFiles(w.level, w.stage) /\ e.io = "done"

AnswersAreDue == \A e \in exchange : AnswerIsDue(e, here)

(* Who is told that a file was put finds it stored.                         *)
PutsAreKept ==
    [][\A e \in exchange' \ exchange :
          (e.surface = "vault" /\ e.line.verb = "PUT" /\ e.sent.status = 200)
          => Unslashed(e.line.path)[1].name \in here'.stored]_answerVars

(* The first of several places. *)
LEMMA FirstPlace ==
    ASSUME NEW S \in SUBSET Nat, S # {}
    PROVE  Min(S) \in S /\ \A i \in S : Min(S) <= i
<1> DEFINE R == {ss \in Nat \X Nat : ss[1] < ss[2]}
<1>1. IsWellFoundedOn(R, Nat)
  BY NatLessThanWellFounded DEF OpToRel
<1> HIDE DEF R
<1>2. PICK x \in S : \A y \in S : ~(<<y, x>> \in R)
  BY <1>1, WFMin
<1>3. \A y \in S : x <= y
  <2> SUFFICES ASSUME NEW y \in S PROVE x <= y
    OBVIOUS
  <2>1. ~(y < x)
    BY <1>2 DEF R
  <2> QED BY <2>1
<1> QED BY <1>3 DEF Min

(* A value that was refused for nothing has none of the flaws looked for. *)
LEMMA SoundHasNoFlaw ==
    ASSUME NEW order, NEW flaws, NEW i \in DOMAIN order, DOMAIN order \in SUBSET Nat,
           \A j \in DOMAIN order : order[j] # Sound,
           FirstFlaw(order, flaws) = Sound
    PROVE  order[i] \notin flaws
<1> DEFINE found == {j \in DOMAIN order : order[j] \in flaws}
<1> SUFFICES ASSUME found # {} PROVE FALSE
  OBVIOUS
<1>1. Min(found) \in found
  BY FirstPlace
<1> QED BY <1>1 DEF FirstFlaw

(* What an answer says, and what it leaves stored. *)
LEMMA Answered ==
    ASSUME NEW response, NEW stored
    PROVE  /\ Answer(response, stored).response = response
           /\ Answer(response, stored).stored = stored
  BY DEF Answer

(* A cell admits a change only while it takes files, and into room there is.*)
LEMMA AdmissionsAreEarned ==
    ASSUME NEW level, NEW stage, NEW quota, NEW offered,
           AdmissionOf(level, stage, quota, offered) = Accepting
    PROVE  /\ TakesFiles(level, stage)
           /\ \E q \in quota : ~(offered > QuotaFree(q))
<1> DEFINE admission == AdmissionOf(level, stage, quota, offered)
           short     == {TooLarge(offered, QuotaFree(q)) : q \in quota}
<1>1. level = Normal
  <2> SUFFICES ASSUME level # Normal PROVE FALSE
    OBVIOUS
  <2>1. admission = [by |-> "governor", at |-> level]
    BY Zenon DEF AdmissionOf
  <2> QED BY <2>1 DEF Accepting
<1>2. stage = Serving
  <2> SUFFICES ASSUME stage # Serving PROVE FALSE
    OBVIOUS
  <2>1. admission = [by |-> "outage", at |-> stage]
    BY <1>1, Zenon DEF AdmissionOf
  <2> QED BY <2>1 DEF Accepting
<1>3. quota # {}
  <2> SUFFICES ASSUME quota = {} PROVE FALSE
    OBVIOUS
  <2>1. admission = [by |-> "unmeasured"]
    BY <1>1, <1>2, Zenon DEF AdmissionOf
  <2> QED BY <2>1 DEF Accepting
<1>4. ~(\E q \in quota : offered > QuotaFree(q))
  <2> SUFFICES ASSUME \E q \in quota : offered > QuotaFree(q) PROVE FALSE
    OBVIOUS
  <2>1. admission = [by |-> "full", short |-> short]
    BY <1>1, <1>2, <1>3, Zenon DEF AdmissionOf
  <2>2. admission = [by |-> "nothing"]
    BY Zenon DEF Accepting
  <2> HIDE DEF admission, short
  <2> QED BY <2>1, <2>2
<1> QED BY <1>1, <1>2, <1>3, <1>4 DEF TakesFiles

(* The statuses of what a put or a removal may be answered. *)
LEMMA ReplyStatuses ==
    /\ \A body : TextResponse(body).status = 200
    /\ \A failure : StorageFailed(failure).status # 200
    /\ \A admission : RefusedAdmission(admission).status # 200
    /\ NothingStored.status # 200
  BY DEF TextResponse, StorageFailed, RefusedAdmission, NothingStored, Reply

(* What a put does to what is stored, and what it is answered. *)
LEMMA PutsAreEarned ==
    ASSUME NEW w, NEW name, NEW body, NEW io,
           NEW answer, answer = PutStored(w, name, body, io)
    PROVE  \/ /\ answer.stored = w.stored
              /\ answer.response.status # 200
           \/ /\ answer.stored = w.stored \cup {name}
              /\ answer.response.status = 200
              /\ io = "done" /\ TakesFiles(w.level, w.stage)
              /\ \E q \in w.quota : ~(body > QuotaFree(q))
<1> DEFINE admission == AdmissionOf(w.level, w.stage, w.quota, body)
<1>1. CASE admission # Accepting
  <2>1. answer = Answer(RefusedAdmission(admission), w.stored)
    BY <1>1, Zenon DEF PutStored
  <2> HIDE DEF admission
  <2> QED BY <2>1, Answered, ReplyStatuses
<1>2. CASE admission = Accepting /\ io # "done"
  <2>1. answer = Answer(StorageFailed(io), w.stored)
    BY <1>2, Zenon DEF PutStored
  <2> QED BY <2>1, Answered, ReplyStatuses
<1>3. CASE admission = Accepting /\ io = "done"
  <2> DEFINE receipt == [receipt |-> ReceiptFor(name, body)]
             grown   == w.stored \cup {name}
  <2>1. answer = Answer(TextResponse(receipt), grown)
    BY <1>3, Zenon DEF PutStored
  <2>2. TakesFiles(w.level, w.stage) /\ \E q \in w.quota : ~(body > QuotaFree(q))
    BY <1>3, AdmissionsAreEarned
  <2> HIDE DEF receipt, grown, admission
  <2>3. answer.stored = grown /\ answer.response.status = 200
    BY <2>1, Answered, ReplyStatuses
  <2> QED BY <1>3, <2>2, <2>3 DEF grown
<1> QED BY <1>1, <1>2, <1>3

(* What a removal does, likewise. *)
LEMMA RemovalsAreEarned ==
    ASSUME NEW w, NEW name, NEW io,
           NEW answer, answer = RemoveStored(w, name, io)
    PROVE  \/ /\ answer.stored = w.stored
              /\ answer.response.status # 200
           \/ /\ answer.stored = w.stored \ {name}
              /\ answer.response.status = 200
              /\ io = "done" /\ TakesFiles(w.level, w.stage)
<1> DEFINE admission == ForRemoval(w.level, w.stage)
<1>1. CASE admission # Accepting
  <2>1. answer = Answer(RefusedAdmission(admission), w.stored)
    BY <1>1, Zenon DEF RemoveStored
  <2> HIDE DEF admission
  <2> QED BY <2>1, Answered, ReplyStatuses
<1>2. CASE admission = Accepting /\ io # "done"
  <2>1. answer = Answer(StorageFailed(io), w.stored)
    BY <1>2, Zenon DEF RemoveStored
  <2> QED BY <2>1, Answered, ReplyStatuses
<1>3. CASE admission = Accepting /\ io = "done"
  <2> DEFINE left     == w.stored \ {name}
             response == IF name \in w.stored THEN TextResponse([gone |-> name]) ELSE NothingStored
  <2>1. TakesFiles(w.level, w.stage)
    BY <1>3, AdmissionsAreEarned DEF ForRemoval
  <2>2. answer = Answer(response, left)
    BY <1>3, Zenon DEF RemoveStored
  <2>3. name \in w.stored => response.status = 200
    BY ReplyStatuses
  <2>4. name \notin w.stored => response.status # 200
    BY ReplyStatuses
  <2> HIDE DEF left, response
  <2>5. answer.stored = left /\ answer.response = response
    BY <2>2, Answered
  <2>6. CASE name \in w.stored
    BY <1>3, <2>1, <2>3, <2>5, <2>6 DEF left
  <2>7. CASE name \notin w.stored
    <3>1. left = w.stored
      BY <2>7 DEF left
    <3> QED BY <2>4, <2>5, <2>7, <3>1
  <2> QED BY <2>6, <2>7
<1> QED BY <1>1, <1>2, <1>3

(* Files are read out only by a cell that serves readers. *)
LEMMA ReadingOutServes ==
    ASSUME NEW level, NEW stage, AvailabilityOf(level, stage) = ReadingOut
    PROVE  ServesReaders(level, stage)
<1> DEFINE availability == AvailabilityOf(level, stage)
<1> SUFFICES ASSUME ~ServesReaders(level, stage) PROVE FALSE
  OBVIOUS
<1>1. \/ availability = [by |-> "governor", at |-> level]
      \/ availability = [by |-> "outage", at |-> stage]
  BY Zenon DEF AvailabilityOf
<1>2. availability.by # "nothing"
  <2> HIDE DEF availability
  <2> QED BY <1>1
<1>3. ReadingOut.by = "nothing"
  BY DEF ReadingOut
<1> QED BY <1>2, <1>3

(* The listing, and a file, are given by a cell that serves readers. *)
LEMMA ReadsAreDue ==
    ASSUME NEW w, NEW name, NEW io
    PROVE  /\ ListVault(w, io).status = 200 => ServesReaders(w.level, w.stage)
           /\ ReadStored(w, name).status = 200 => ServesReaders(w.level, w.stage)
<1> DEFINE availability == AvailabilityOf(w.level, w.stage)
<1>1. CASE availability = ReadingOut
  BY <1>1, ReadingOutServes
<1>2. CASE availability # ReadingOut
  <2>1. ListVault(w, io) = Reply(503, [reading |-> availability])
    BY <1>2, Zenon DEF ListVault
  <2>2. ReadStored(w, name) = Reply(503, [reading |-> availability])
    BY <1>2, Zenon DEF ReadStored
  <2>3. \A body : Reply(503, body).status = 503
    BY DEF Reply
  <2> HIDE DEF availability
  <2> QED BY <2>1, <2>2, <2>3
<1> QED BY <1>1, <1>2

(* The vault answers and leaves what is stored alone, and it answers well   *)
(* only who is enrolled and reads from a cell that serves readers.          *)
OnlyAnswered(w, method, read, answer) ==
    \E response :
       /\ answer = Answer(response, w.stored)
       /\ \/ response.status # 200
          \/ /\ IsAuthenticated(Verify(w.entries, read.bearer))
             /\ method \in {"GET", "HEAD"} /\ ServesReaders(w.level, w.stage)

(* Somebody enrolled put a file, or removed one. *)
PutOrRemoved(w, method, name, read, io, answer) ==
    /\ IsAuthenticated(Verify(w.entries, read.bearer))
    /\ method \notin {"GET", "HEAD"}
    /\ \/ method = "PUT" /\ answer = PutStored(w, name, read.body, io)
       \/ method # "PUT" /\ answer = RemoveStored(w, name, io)

(* What the vault does with a request is one or the other. *)
LEMMA VaultRoutes ==
    ASSUME NEW request, NEW read, NEW w, NEW io,
           NEW answer, answer = RouteVault(request, read, w, io)
    PROVE  \/ OnlyAnswered(w, request.method, read, answer)
           \/ PutOrRemoved(w, request.method, Unslashed(request.path)[1].name, read, io, answer)
<1> DEFINE verdict == Verify(w.entries, read.bearer)
           wrong   == NewName(request.path)
           name    == Unslashed(request.path)[1].name
           reads   == request.method \in {"GET", "HEAD"}
           listing == Names(request.path) = <<"">>
<1>1. \A status, body : Reply(status, body).status = status
  BY DEF Reply
<1> DEFINE kept == OnlyAnswered(w, request.method, read, answer)
<1>2. \A response : answer = Answer(response, w.stored) /\ response.status # 200 => kept
  BY DEF OnlyAnswered
<1>3. \A response : ( /\ answer = Answer(response, w.stored)
                      /\ IsAuthenticated(verdict) /\ reads
                      /\ (response.status = 200 => ServesReaders(w.level, w.stage)) ) => kept
  BY DEF OnlyAnswered
<1> HIDE DEF kept
<1>4. CASE ~IsAuthenticated(verdict)
  <2> DEFINE response == Reply(401, Says(verdict.why))
  <2>1. answer = Answer(response, w.stored)
    BY <1>4, Zenon DEF RouteVault
  <2>2. response.status # 200
    BY <1>1
  <2> HIDE DEF response
  <2> QED BY <1>2, <2>1, <2>2 DEF kept
<1>5. CASE IsAuthenticated(verdict) /\ listing /\ reads
  <2>1. answer = Answer(ListVault(w, io), w.stored)
    BY <1>5, Zenon DEF RouteVault
  <2>2. ListVault(w, io).status = 200 => ServesReaders(w.level, w.stage)
    BY ReadsAreDue
  <2> QED BY <1>3, <1>5, <2>1, <2>2 DEF kept
<1>6. CASE IsAuthenticated(verdict) /\ listing /\ ~reads
  <2> DEFINE why      == Says("the listing is read")
             response == Reply(405, why)
  <2>1. answer = Answer(response, w.stored)
    BY <1>6, Zenon DEF RouteVault
  <2> HIDE DEF why
  <2>2. response.status # 200
    BY <1>1
  <2> HIDE DEF response
  <2> QED BY <1>2, <2>1, <2>2 DEF kept
<1>7. CASE IsAuthenticated(verdict) /\ ~listing /\ wrong # Sound
  <2> DEFINE response == Reply(400, Says(wrong))
  <2>1. answer = Answer(response, w.stored)
    BY <1>7, Zenon DEF RouteVault
  <2>2. response.status # 200
    BY <1>1
  <2> HIDE DEF response
  <2> QED BY <1>2, <2>1, <2>2 DEF kept
<1>8. CASE IsAuthenticated(verdict) /\ ~listing /\ wrong = Sound /\ reads
  <2>1. answer = Answer(ReadStored(w, name), w.stored)
    BY <1>8, Zenon DEF RouteVault
  <2> HIDE DEF name
  <2>2. ReadStored(w, name).status = 200 => ServesReaders(w.level, w.stage)
    BY ReadsAreDue
  <2> QED BY <1>3, <1>8, <2>1, <2>2 DEF kept
<1>9. CASE IsAuthenticated(verdict) /\ ~listing /\ wrong = Sound /\ ~reads
  <2>1. answer = IF request.method = "PUT" THEN PutStored(w, name, read.body, io)
                 ELSE RemoveStored(w, name, io)
    BY <1>9, Zenon DEF RouteVault
  <2> QED BY <1>9, <2>1, Zenon DEF PutOrRemoved
<1> QED BY <1>4, <1>5, <1>6, <1>7, <1>8, <1>9, Zenon

(* What the vault stores changes as it should. *)
LEMMA VaultChanges ==
    ASSUME NEW request, NEW read, NEW w, NEW io,
           NEW answer, answer = RouteVault(request, read, w, io), answer.stored # w.stored
    PROVE  /\ IsAuthenticated(Verify(w.entries, read.bearer))
           /\ TakesFiles(w.level, w.stage)
           /\ io = "done" /\ answer.response.status = 200
           /\ LET name == Unslashed(request.path)[1].name
              IN  \/ /\ request.method \notin {"GET", "HEAD", "PUT"}
                     /\ answer.stored = w.stored \ {name}
                  \/ /\ request.method = "PUT" /\ answer.stored = w.stored \cup {name}
                     /\ \E q \in w.quota : ~(read.body > QuotaFree(q))
<1> DEFINE name == Unslashed(request.path)[1].name
<1>1. ~OnlyAnswered(w, request.method, read, answer)
  BY Answered DEF OnlyAnswered
<1>2. PutOrRemoved(w, request.method, name, read, io, answer)
  BY <1>1, VaultRoutes
<1> HIDE DEF name
<1>3. CASE request.method = "PUT"
  BY <1>2, <1>3, PutsAreEarned DEF PutOrRemoved, name
<1>4. CASE request.method # "PUT"
  BY <1>2, <1>4, RemovalsAreEarned DEF PutOrRemoved, name
<1> QED BY <1>3, <1>4

(* A put that is answered well was one, and is stored. *)
LEMMA VaultKeeps ==
    ASSUME NEW request, NEW read, NEW w, NEW io, request.method = "PUT",
           NEW answer, answer = RouteVault(request, read, w, io), answer.response.status = 200
    PROVE  Unslashed(request.path)[1].name \in answer.stored
<1> DEFINE name == Unslashed(request.path)[1].name
<1>1. ~OnlyAnswered(w, request.method, read, answer)
  BY Answered DEF OnlyAnswered
<1>2. answer = PutStored(w, name, read.body, io)
  BY <1>1, VaultRoutes DEF PutOrRemoved
<1> HIDE DEF name
<1>3. answer.stored = w.stored \cup {name}
  BY <1>2, PutsAreEarned
<1> QED BY <1>3 DEF name

(* The statuses a request that is refused is answered with. *)
LEMMA RefusalStatuses ==
    ASSUME NEW line, NEW stream, RefusedUnrouted(line, stream),
           NEW why, why = IF ParseRequestLine(line).why # Sound THEN ParseRequestLine(line).why
                          ELSE ReadHeadersAndBody(stream).why
    PROVE  RefuseBad(why).status # 200
<1>1. ParseRequestLine(line).why
        \in {Sound, "malformed", "unsupported method", "bad path", "traversal"}
  <2> DEFINE S == {f \in ToSet(LineFlaws) :
                     \/ f = "malformed" /\ (line.long \/ ~line.parted)
                     \/ f = "unsupported method" /\ line.verb \notin Methods
                     \/ f = "bad path" /\ ~line.slash
                     \/ f = "traversal" /\ (line.odd \/ \E i \in DOMAIN line.path : line.path[i].kind = "up")}
             found == {i \in DOMAIN LineFlaws : LineFlaws[i] \in S}
  <2>1. ParseRequestLine(line).why = FirstFlaw(LineFlaws, S)
    BY DEF ParseRequestLine
  <2> HIDE DEF S
  <2>2. DOMAIN LineFlaws = 1..4
    BY DEF LineFlaws
  <2>3. \A i \in 1..4 : LineFlaws[i] \in {"malformed", "unsupported method", "bad path", "traversal"}
    <3>1. \A i \in 1..4 : i = 1 \/ i = 2 \/ i = 3 \/ i = 4
      OBVIOUS
    <3>2. /\ LineFlaws[1] = "malformed" /\ LineFlaws[2] = "unsupported method"
          /\ LineFlaws[3] = "bad path" /\ LineFlaws[4] = "traversal"
      BY DEF LineFlaws
    <3> QED BY <3>1, <3>2
  <2>4. found # {} => Min(found) \in 1..4
    BY <2>2, FirstPlace
  <2>5. FirstFlaw(LineFlaws, S) = IF found = {} THEN Sound ELSE LineFlaws[Min(found)]
    BY Zenon DEF FirstFlaw
  <2> HIDE DEF found
  <2> QED BY <2>1, <2>3, <2>4, <2>5
<1>2. \A h : HeaderFlaw(h) \in {Sound, "malformed header", "body too large"}
  BY DEF HeaderFlaw
<1>3. \A lines : ParseHeaders(lines).why
                   \in {Sound, "malformed header", "body too large", "too many headers"}
  <2> TAKE lines
  <2> DEFINE wrong == {i \in DOMAIN lines : HeaderFlaw(lines[i]) # Sound}
             first == HeaderFlaw(lines[Min(wrong)])
  <2>1. \/ ParseHeaders(lines) = [NoHeaders EXCEPT !.why = "too many headers"]
        \/ ParseHeaders(lines) = [NoHeaders EXCEPT !.why = first]
        \/ ParseHeaders(lines).why = Sound
    BY DEF ParseHeaders
  <2>2. first \in {Sound, "malformed header", "body too large"}
    BY <1>2, Zenon
  <2> HIDE DEF first
  <2> QED BY <2>1, <2>2 DEF NoHeaders
<1>4. ReadHeadersAndBody(stream).why
        \in {Sound, "malformed header", "body too large", "too many headers", "malformed"}
  <2> DEFINE headers == ParseHeaders(stream.headers)
             wanted  == IF headers.length = {} THEN 0 ELSE CHOOSE n \in headers.length : TRUE
             short   == stream.sent < wanted
  <2>1. ReadHeadersAndBody(stream).why
          = CASE headers.why = "too many headers" -> headers.why
              [] headers.why # "too many headers" /\ stream.fails -> "malformed header"
              [] OTHER -> IF headers.why = Sound /\ short THEN "malformed" ELSE headers.why
    BY Zenon DEF ReadHeadersAndBody
  <2>2. headers.why \in {Sound, "malformed header", "body too large", "too many headers"}
    BY <1>3
  <2> HIDE DEF headers, short
  <2>3. ReadHeadersAndBody(stream).why \in {headers.why, "malformed header", "malformed"}
    BY <2>1, Zenon
  <2> QED BY <2>2, <2>3
<1>5. why \in {"malformed", "unsupported method", "bad path", "traversal", "body too large",
               "too many headers", "malformed header"}
  BY <1>1, <1>4 DEF RefusedUnrouted
<1>6. \A status, body : Reply(status, body).status = status
  BY DEF Reply
<1>7. CASE why = "unsupported method"
  <2>1. RefuseBad(why) = Reply(405, Says(why))
    BY <1>7, Zenon DEF RefuseBad
  <2> QED BY <1>6, <2>1
<1>8. CASE why = "traversal"
  <2>1. RefuseBad(why) = Explaining(NotPublished(<<"that path">>, "escape"), why)
    BY <1>8, Zenon DEF RefuseBad
  <2>2. PICK body : NotPublished(<<"that path">>, "escape") = Reply(404, body)
    BY Zenon DEF NotPublished, StatusFor
  <2>3. RefuseBad(why) = Explaining(Reply(404, body), why)
    BY <2>1, <2>2, Zenon
  <2>4. Explaining(Reply(404, body), why).status = 404
    BY Replies
  <2> QED BY <2>3, <2>4
<1>9. CASE why = "body too large"
  <2>1. RefuseBad(why) = Reply(413, Says(why))
    BY <1>9, Zenon DEF RefuseBad
  <2> QED BY <1>6, <2>1
<1>10. CASE why \in {"malformed", "bad path", "too many headers", "malformed header"}
  <2>1. RefuseBad(why) = Reply(400, Says(why))
    BY <1>10, Zenon DEF RefuseBad
  <2> QED BY <1>6, <2>1
<1> QED BY <1>5, <1>7, <1>8, <1>9, <1>10

(* The fields of what is made of a connection. *)
LEMMA HandledFields ==
    ASSUME NEW surface, NEW line, NEW stream, NEW w, NEW io
    PROVE  LET request == ParseRequestLine(line)
               read    == ReadHeadersAndBody(stream)
               answer  == Handle(surface, line, stream, w, Nonce, io)
           IN  \/ /\ RefusedUnrouted(line, stream)
                  /\ answer.stored = w.stored /\ answer.sent.status # 200
               \/ /\ ~RefusedUnrouted(line, stream)
                  /\ answer.stored = Routed(surface, request, read, w, io).stored
                  /\ answer.sent.status = Routed(surface, request, read, w, io).response.status
<1> DEFINE request == ParseRequestLine(line)
           read    == ReadHeadersAndBody(stream)
           why     == IF request.why # Sound THEN request.why ELSE read.why
           routed  == Routed(surface, request, read, w, io)
           answer  == Handle(surface, line, stream, w, Nonce, io)
<1>1. CASE RefusedUnrouted(line, stream)
  <2>1. why # Sound
    BY <1>1 DEF RefusedUnrouted
  <2>2. answer.stored = Answer(RefuseBad(why), w.stored).stored
    BY <2>1 DEF Handle
  <2>3. answer.sent = Sent(Answer(RefuseBad(why), w.stored).response, surface, Nonce, "GET")
    BY <2>1 DEF Handle
  <2>4. RefuseBad(why).status # 200
    BY <1>1, RefusalStatuses
  <2> HIDE DEF why, answer
  <2>5. answer.sent.status # 200
    BY <2>3, <2>4, Answered, StatusIsSent
  <2>6. answer.stored = w.stored
    BY <2>2, Answered
  <2> QED BY <1>1, <2>5, <2>6 DEF answer
<1>2. CASE ~RefusedUnrouted(line, stream)
  <2>1. ~(why # Sound)
    BY <1>2 DEF RefusedUnrouted
  <2>2. answer.stored = routed.stored
    BY <2>1 DEF Handle
  <2>3. answer.sent = Sent(routed.response, surface, Nonce, request.method)
    BY <1>2, RoutedIsSent
  <2> HIDE DEF routed, request
  <2>4. answer.sent.status = routed.response.status
    BY <2>3, StatusIsSent
  <2> QED BY <1>2, <2>2, <2>4 DEF routed, request
<1> QED BY <1>1, <1>2

(* What the other surfaces, and a request that is refused, leave alone. *)
LEMMA OnlyTheVaultStores ==
    ASSUME NEW surface \in {"panel", "site", "vault"}, NEW line, NEW stream, NEW w, NEW io,
           Handle(surface, line, stream, w, Nonce, io).stored # w.stored
    PROVE  surface = "vault"
<1> DEFINE request == ParseRequestLine(line)
           read    == ReadHeadersAndBody(stream)
           routed  == Routed(surface, request, read, w, io)
<1>1. routed.stored # w.stored
  BY HandledFields
<1>2. ASSUME surface = "panel" PROVE FALSE
  <2>1. routed = Answer(Route(request), w.stored)
    BY <1>2, Zenon DEF Routed
  <2> HIDE DEF routed
  <2> QED BY <1>1, <2>1, Answered
<1>3. ASSUME surface = "site" PROVE FALSE
  <2>1. "site" # "panel"
    OBVIOUS
  <2>2. routed = Answer(RouteSite(request, w.machine, w.site, w.level, w.stage), w.stored)
    BY <1>3, <2>1, Zenon DEF Routed
  <2> HIDE DEF routed
  <2> QED BY <1>1, <2>2, Answered
<1> QED BY <1>2, <1>3

(* The vault's own. *)
LEMMA VaultIsRouted ==
    ASSUME NEW request, NEW read, NEW w, NEW io
    PROVE  Routed("vault", request, read, w, io) = RouteVault(request, read, w, io)
<1>1. "vault" # "panel" /\ "vault" # "site"
  OBVIOUS
<1> QED BY <1>1, Zenon DEF Routed

(* A request line that is parsed asks for one of four things. *)
LEMMA ParsedMethods ==
    ASSUME NEW line, ParseRequestLine(line).why = Sound
    PROVE  line.verb \in Methods
<1> DEFINE S == {f \in ToSet(LineFlaws) :
                   \/ f = "malformed" /\ (line.long \/ ~line.parted)
                   \/ f = "unsupported method" /\ line.verb \notin Methods
                   \/ f = "bad path" /\ ~line.slash
                   \/ f = "traversal" /\ (line.odd \/ \E i \in DOMAIN line.path : line.path[i].kind = "up")}
<1>1. FirstFlaw(LineFlaws, S) = Sound
  BY DEF ParseRequestLine
<1>2. "unsupported method" \in S \/ line.verb \in Methods
  <2>1. LineFlaws[2] = "unsupported method" /\ 2 \in DOMAIN LineFlaws
    BY DEF LineFlaws
  <2>2. "unsupported method" \in ToSet(LineFlaws)
    BY <2>1 DEF ToSet
  <2> QED BY <2>2
<1> HIDE DEF S
<1>3. DOMAIN LineFlaws \in SUBSET Nat /\ 2 \in DOMAIN LineFlaws
  BY DEF LineFlaws
<1>4. LineFlaws[2] = "unsupported method"
  BY DEF LineFlaws
<1>5. \A j \in DOMAIN LineFlaws : LineFlaws[j] # Sound
  <2>1. DOMAIN LineFlaws = 1..4
    BY DEF LineFlaws
  <2>2. \A j \in 1..4 : j = 1 \/ j = 2 \/ j = 3 \/ j = 4
    OBVIOUS
  <2>3. /\ LineFlaws[1] # Sound /\ LineFlaws[2] # Sound
        /\ LineFlaws[3] # Sound /\ LineFlaws[4] # Sound
    BY DEF LineFlaws, Sound
  <2> QED BY <2>1, <2>2, <2>3
<1>6. LineFlaws[2] \notin S
  BY <1>1, <1>3, <1>5, SoundHasNoFlaw
<1> QED BY <1>2, <1>4, <1>6

(* A change that an exchange with the vault makes is earned. *)
LEMMA ChangesAreEarned ==
    ASSUME NEW surface \in {"panel", "site", "vault"}, NEW line, NEW stream, NEW w, NEW io,
           NEW answer, answer = Handle(surface, line, stream, w, Nonce, io),
           answer.stored # w.stored,
           NEW e, e = [surface |-> surface, line |-> line, stream |-> stream,
                       io |-> io, sent |-> answer.sent]
    PROVE  ChangeIsEarned(e, w, answer.stored)
<1> DEFINE request == ParseRequestLine(line)
           read    == ReadHeadersAndBody(stream)
           routed  == RouteVault(request, read, w, io)
<1>1. surface = "vault"
  BY OnlyTheVaultStores
<1>2. answer.stored = routed.stored /\ answer.sent.status = routed.response.status
  BY <1>1, HandledFields, VaultIsRouted
<1>3. /\ e.surface = surface /\ e.line = line /\ e.stream = stream
      /\ e.io = io /\ e.sent = answer.sent
  OBVIOUS
<1>4. ~RefusedUnrouted(line, stream)
  BY HandledFields
<1>5. line.verb \in Methods
  BY <1>4, ParsedMethods DEF RefusedUnrouted
<1>6. request.method = line.verb /\ request.path = line.path
  BY DEF ParseRequestLine
<1> DEFINE name == Unslashed(line.path)[1].name
<1>7. /\ IsAuthenticated(Verify(w.entries, read.bearer))
      /\ TakesFiles(w.level, w.stage)
      /\ io = "done" /\ routed.response.status = 200
      /\ \/ request.method \notin {"GET", "HEAD", "PUT"} /\ routed.stored = w.stored \ {name}
         \/ /\ request.method = "PUT" /\ routed.stored = w.stored \cup {name}
            /\ \E q \in w.quota : ~(read.body > QuotaFree(q))
  BY <1>2, <1>6, VaultChanges
<1> HIDE DEF routed, read, request
<1>8. \/ line.verb = "DELETE" /\ answer.stored = w.stored \ {name}
      \/ /\ line.verb = "PUT" /\ answer.stored = w.stored \cup {name}
         /\ \E q \in w.quota : ~(read.body > QuotaFree(q))
  <2> HIDE DEF name
  <2> QED BY <1>2, <1>5, <1>6, <1>7 DEF Methods
<1> QED BY <1>1, <1>2, <1>3, <1>7, <1>8, Zenon DEF ChangeIsEarned, read, name

(* A put that a connection is told of is stored. *)
LEMMA ToldPutsAreStored ==
    ASSUME NEW line, NEW stream, NEW w, NEW io,
           NEW answer, answer = Handle("vault", line, stream, w, Nonce, io),
           line.verb = "PUT", answer.sent.status = 200
    PROVE  Unslashed(line.path)[1].name \in answer.stored
<1> DEFINE request == ParseRequestLine(line)
           read    == ReadHeadersAndBody(stream)
           routed  == RouteVault(request, read, w, io)
<1>1. request.method = line.verb /\ request.path = line.path
  BY DEF ParseRequestLine
<1>2. ~RefusedUnrouted(line, stream)
  BY HandledFields
<1>3. answer.stored = routed.stored /\ routed.response.status = 200
  BY <1>2, HandledFields, VaultIsRouted
<1> HIDE DEF request, read
<1> QED BY <1>1, <1>3, VaultKeeps

(* A connection changes what is stored as it should, and who is told that   *)
(* a file was put finds it stored.                                          *)
LEMMA ConnectionsAreEarned ==
    ASSUME AnswersInv, NEW surface \in {"panel", "site", "vault"}, Connection(surface)
    PROVE  /\ here'.stored # here.stored =>
                  \E e \in exchange' : ChangeIsEarned(e, here, here'.stored)
           /\ \A e \in exchange' :
                  (e.surface = "vault" /\ e.line.verb = "PUT" /\ e.sent.status = 200)
                     => Unslashed(e.line.path)[1].name \in here'.stored
<1>1. PICK line \in RequestLines, stream \in Streams, io \in StorageOutcomes :
         LET answer == Handle(surface, line, stream, here, Nonce, io)
         IN  /\ here' = [here EXCEPT !.stored = answer.stored]
             /\ exchange' = {[surface |-> surface, line |-> line, stream |-> stream,
                              io |-> io, sent |-> answer.sent]}
  BY DEF Connection
<1> DEFINE answer == Handle(surface, line, stream, here, Nonce, io)
           e      == [surface |-> surface, line |-> line, stream |-> stream,
                      io |-> io, sent |-> answer.sent]
<1>2. here' = [here EXCEPT !.stored = answer.stored] /\ exchange' = {e}
  BY <1>1
<1>3. here'.stored = answer.stored
  <2> HIDE DEF answer, e
  <2> QED BY <1>2 DEF AnswersInv
<1>4. answer.stored # here.stored => ChangeIsEarned(e, here, answer.stored)
  BY ChangesAreEarned
<1>5. e.surface = surface /\ e.line = line /\ e.sent = answer.sent
  OBVIOUS
<1>6. (surface = "vault" /\ line.verb = "PUT" /\ answer.sent.status = 200)
         => Unslashed(line.path)[1].name \in answer.stored
  BY ToldPutsAreStored
<1> HIDE DEF answer, e
<1> QED BY <1>2, <1>3, <1>4, <1>5, <1>6

(* What is stored changes for somebody enrolled, while the cell takes files,*)
(* by one name, into room there is, and whoever changed it is told so; for  *)
(* every cell, connection and outcome of a storage call (handle,            *)
(* route_vault, Admission::of).                                             *)
THEOREM StoresAreEarned == AnswersSpec => StoresForTheEnrolled
<1>1. ASSUME AnswersInv, [AnswersNext]_answerVars
      PROVE  [here'.stored # here.stored =>
                 \E e \in exchange' : ChangeIsEarned(e, here, here'.stored)]_answerVars
  <2>1. ASSUME NEW surface \in {"panel", "site", "vault"}, Connection(surface)
        PROVE  here'.stored # here.stored =>
                  \E e \in exchange' : ChangeIsEarned(e, here, here'.stored)
    BY <1>1, <2>1, ConnectionsAreEarned
  <2>2. CASE Closes
    BY <2>2 DEF Closes
  <2>3. CASE UNCHANGED answerVars
    BY <2>3
  <2> QED BY <1>1, <2>1, <2>2, <2>3 DEF AnswersNext
<1> QED BY <1>1, AnswersInvariant, PTL DEF AnswersSpec, StoresForTheEnrolled

(* Who is told that a file was put finds it stored, likewise.               *)
THEOREM PutsStand == AnswersSpec => PutsAreKept
<1>1. ASSUME AnswersInv, [AnswersNext]_answerVars
      PROVE  [\A e \in exchange' \ exchange :
                 (e.surface = "vault" /\ e.line.verb = "PUT" /\ e.sent.status = 200)
                    => Unslashed(e.line.path)[1].name \in here'.stored]_answerVars
  <2>1. ASSUME NEW surface \in {"panel", "site", "vault"}, Connection(surface)
        PROVE  \A e \in exchange' \ exchange :
                 (e.surface = "vault" /\ e.line.verb = "PUT" /\ e.sent.status = 200)
                    => Unslashed(e.line.path)[1].name \in here'.stored
    BY <1>1, <2>1, ConnectionsAreEarned
  <2>2. CASE Closes
    BY <2>2 DEF Closes
  <2>3. CASE UNCHANGED answerVars
    BY <2>3
  <2> QED BY <1>1, <2>1, <2>2, <2>3 DEF AnswersNext
<1> QED BY <1>1, AnswersInvariant, PTL DEF AnswersSpec, PutsAreKept

(* What the vault answers well is due. *)
LEMMA VaultIsDue ==
    ASSUME NEW request, NEW read, NEW w, NEW io,
           NEW answer, answer = RouteVault(request, read, w, io), answer.response.status = 200
    PROVE  /\ IsAuthenticated(Verify(w.entries, read.bearer))
           /\ IF request.method \in {"GET", "HEAD"} THEN ServesReaders(w.level, w.stage)
              ELSE TakesFiles(w.level, w.stage) /\ io = "done"
<1> DEFINE name == Unslashed(request.path)[1].name
<1>1. CASE OnlyAnswered(w, request.method, read, answer)
  BY <1>1, Answered DEF OnlyAnswered
<1>2. CASE PutOrRemoved(w, request.method, name, read, io, answer)
  <2> HIDE DEF name
  <2>1. TakesFiles(w.level, w.stage) /\ io = "done"
    BY <1>2, PutsAreEarned, RemovalsAreEarned DEF PutOrRemoved
  <2> QED BY <1>2, <2>1 DEF PutOrRemoved
<1> QED BY <1>1, <1>2, VaultRoutes

(* What the site answers well is due (route_site, resolve). *)
LEMMA SiteIsDue ==
    ASSUME NEW request, NEW m, NEW dir, NEW level, NEW stage,
           RouteSite(request, m, dir, level, stage).status = 200
    PROVE  /\ ServesReaders(level, stage)
           /\ \A i \in DOMAIN request.path : SegmentRefusal(request.path[i]) = "none"
<1> DEFINE availability == AvailabilityOf(level, stage)
           found        == Resolve(m, dir, request.path)
           refused      == {i \in DOMAIN request.path : SegmentRefusal(request.path[i]) # "none"}
           names        == Names(request.path)
<1>1. availability = ReadingOut
  <2> SUFFICES ASSUME availability # ReadingOut PROVE FALSE
    OBVIOUS
  <2> DEFINE body == [site |-> availability]
  <2>1. RouteSite(request, m, dir, level, stage) = Reply(503, body)
    BY Zenon DEF RouteSite
  <2> HIDE DEF body
  <2> QED BY <2>1 DEF Reply
<1>2. found.is # "refused"
  <2> SUFFICES ASSUME found.is = "refused" PROVE FALSE
    OBVIOUS
  <2>1. RouteSite(request, m, dir, level, stage)
          = Explaining(NotPublished(names, found.why), found.why)
    BY <1>1, Zenon DEF RouteSite
  <2> HIDE DEF found, names
  <2>2. PICK body : NotPublished(names, found.why) = Reply(404, body)
    BY Zenon DEF NotPublished, StatusFor
  <2>3. Explaining(Reply(404, body), found.why).status = 404
    BY Replies
  <2> QED BY <2>1, <2>2, <2>3
<1>3. refused = {}
  <2> SUFFICES ASSUME refused # {} PROVE FALSE
    OBVIOUS
  <2>1. found = Unpublished(SegmentRefusal(request.path[Min(refused)]))
    BY Zenon DEF Resolve
  <2>2. \A why : Unpublished(why).is = "refused"
    BY DEF Unpublished
  <2> HIDE DEF found, refused
  <2> QED BY <1>2, <2>1, <2>2
<1> QED BY <1>1, <1>3, ReadingOutServes

(* What any connection is answered well is due. *)
LEMMA HandledIsDue ==
    ASSUME NEW surface \in {"panel", "site", "vault"}, NEW line, NEW stream, NEW w, NEW io,
           NEW answer, answer = Handle(surface, line, stream, w, Nonce, io),
           NEW e, e = [surface |-> surface, line |-> line, stream |-> stream,
                       io |-> io, sent |-> answer.sent]
    PROVE  AnswerIsDue(e, w)
<1> DEFINE request == ParseRequestLine(line)
           read    == ReadHeadersAndBody(stream)
           routed  == Routed(surface, request, read, w, io)
<1> SUFFICES ASSUME answer.sent.status = 200, surface # "panel" PROVE AnswerIsDue(e, w)
  BY DEF AnswerIsDue
<1>1. routed.response.status = 200
  BY HandledFields
<1>2. request.method = line.verb /\ request.path = line.path
  BY DEF ParseRequestLine
<1>3. /\ e.surface = surface /\ e.line = line /\ e.stream = stream
      /\ e.io = io /\ e.sent = answer.sent
  OBVIOUS
<1>4. CASE surface = "site"
  <2> DEFINE response == RouteSite(request, w.machine, w.site, w.level, w.stage)
  <2>1. "site" # "panel"
    OBVIOUS
  <2>2. routed = Answer(response, w.stored)
    BY <1>4, <2>1, Zenon DEF Routed
  <2> HIDE DEF routed, response, request
  <2>3. response.status = 200
    BY <1>1, <2>2, Answered
  <2>4. /\ ServesReaders(w.level, w.stage)
        /\ \A i \in DOMAIN line.path : SegmentRefusal(line.path[i]) = "none"
    BY <1>2, <2>3, SiteIsDue DEF response
  <2> QED BY <1>3, <1>4, <2>4 DEF AnswerIsDue
<1>5. CASE surface = "vault"
  <2>1. routed = RouteVault(request, read, w, io)
    BY <1>5, VaultIsRouted
  <2> HIDE DEF routed, request, read
  <2>2. /\ IsAuthenticated(Verify(w.entries, read.bearer))
        /\ IF line.verb \in {"GET", "HEAD"} THEN ServesReaders(w.level, w.stage)
           ELSE TakesFiles(w.level, w.stage) /\ io = "done"
    BY <1>1, <1>2, <2>1, VaultIsDue
  <2> QED BY <1>3, <1>5, <2>2 DEF AnswerIsDue, read
<1> QED BY <1>4, <1>5

(* Whatever a connection asks, of whichever surface, and whatever comes of  *)
(* a storage call, what it is answered well is due; for every cell (handle, *)
(* route_site, resolve, route_vault, Availability::of, Admission::of).      *)
THEOREM AnswersWellDue == AnswersSpec => []AnswersAreDue
<1>1. AnswersInit => AnswersAreDue
  BY DEF AnswersInit, AnswersAreDue
<1>2. ASSUME AnswersInv, AnswersAreDue, [AnswersNext]_answerVars PROVE AnswersAreDue'
  <2>1. ASSUME NEW surface \in {"panel", "site", "vault"}, Connection(surface)
        PROVE  AnswersAreDue'
    <3>1. PICK line \in RequestLines, stream \in Streams, io \in StorageOutcomes :
             LET answer == Handle(surface, line, stream, here, Nonce, io)
             IN  /\ here' = [here EXCEPT !.stored = answer.stored]
                 /\ exchange' = {[surface |-> surface, line |-> line, stream |-> stream,
                                  io |-> io, sent |-> answer.sent]}
      BY <2>1 DEF Connection
    <3> DEFINE answer == Handle(surface, line, stream, here, Nonce, io)
               e      == [surface |-> surface, line |-> line, stream |-> stream,
                          io |-> io, sent |-> answer.sent]
    <3>2. AnswerIsDue(e, here)
      BY HandledIsDue
    <3>3. here' = [here EXCEPT !.stored = answer.stored] /\ exchange' = {e}
      BY <3>1
    <3> HIDE DEF e, answer
    <3>4. here'.entries = here.entries /\ here'.level = here.level /\ here'.stage = here.stage
      BY <1>2, <3>3 DEF AnswersInv
    <3>5. AnswerIsDue(e, here')
      BY <3>2, <3>4 DEF AnswerIsDue
    <3> QED BY <3>3, <3>5 DEF AnswersAreDue
  <2>2. CASE Closes
    BY <2>2 DEF Closes, AnswersAreDue
  <2>3. CASE UNCHANGED answerVars
    BY <1>2, <2>3 DEF answerVars, AnswersAreDue
  <2> QED BY <1>2, <2>1, <2>2, <2>3 DEF AnswersNext
<1> QED BY <1>1, <1>2, AnswersInvariant, PTL DEF AnswersSpec

-----------------------------------------------------------------------------
(* Device. *)


(* A ledger a guest may hold: no fact is of a later boot than it observed.  *)
IsLedger(l) ==
    /\ l = [observed |-> l.observed, facts |-> l.facts]
    /\ l.observed \in Nat
    /\ l.facts = [c \in DOMAIN l.facts |-> l.facts[c]]
    /\ DOMAIN l.facts \subseteq Mediated
    /\ \A c \in DOMAIN l.facts :
          /\ l.facts[c] = [claim |-> l.facts[c].claim, epoch |-> l.facts[c].epoch]
          /\ l.facts[c].claim \in ClaimWords[c]
          /\ l.facts[c].epoch \in 1..l.observed

(* Whatever a boot may find of the record, its ledger is one, and knows of  *)
(* the latest boot that was recorded; so does what is being written.        *)
Knows(ledger) == IsLedger(ledger) /\ known <= ledger.observed

DeviceInv ==
    /\ boot \in Nat
    /\ known \in Nat
    /\ guestRecord \in onMedium
    /\ \A r \in onMedium : Knows(LedgerOf(r))
    /\ run.at \in {"off", "writes", "flushes directory", "looks"}
    /\ run.at # "off" =>
          /\ run = [at |-> run.at, env |-> run.env, recorded |-> run.recorded]
          /\ run.env \in Statements
    /\ run.at = "writes" => Knows(LedgerOf(run.recorded))

(* Few controls are told from one another in as many lines. *)
LEMMA Enumerates ==
    ASSUME NEW D \in SUBSET Mediated
    PROVE  /\ Cardinality(D) \in Nat
           /\ SetToSeq(D) \in [1..Cardinality(D) -> D]
           /\ \A c \in D : \E i \in 1..Cardinality(D) : SetToSeq(D)[i] = c
           /\ \A i, j \in 1..Cardinality(D) : SetToSeq(D)[i] = SetToSeq(D)[j] => i = j
<1>1. IsFiniteSet(Mediated)
  <2>1. Mediated = {"ceiling"} \cup {"doze"} \cup {"ingress"}
    BY DEF Mediated
  <2>2. IsFiniteSet({"ceiling"})
    BY FS_Singleton
  <2>3. IsFiniteSet({"ceiling"} \cup {"doze"})
    BY <2>2, FS_AddElement
  <2> QED BY <2>1, <2>3, FS_AddElement
<1>2. IsFiniteSet(D)
  BY <1>1, FS_Subset
<1>3. Cardinality(D) \in Nat /\ ExistsBijection(1..Cardinality(D), D)
  BY <1>2, FS_CardinalityType
<1>4. PICK g \in [1..Cardinality(D) -> D] : IsInjective(g)
  BY <1>3 DEF ExistsBijection, Bijection, Injection, IsInjective
<1>5. SetToSeq(D) \in [1..Cardinality(D) -> D] /\ IsInjective(SetToSeq(D))
  BY Zenon, <1>4 DEF SetToSeq
<1>6. \A i, j \in 1..Cardinality(D) : SetToSeq(D)[i] = SetToSeq(D)[j] => i = j
  BY <1>5 DEF IsInjective
<1>7. \A c \in D : \E i \in 1..Cardinality(D) : SetToSeq(D)[i] = c
  <2>1. SetToSeq(D) \in Injection(1..Cardinality(D), D)
    BY <1>5, <1>6 DEF Injection, IsInjective
  <2>2. /\ IsFiniteSet(1..Cardinality(D))
        /\ Cardinality(1..Cardinality(D)) = Cardinality(D)
    <3>1. 1 \in Int /\ Cardinality(D) \in Int BY <1>3
    <3>2. /\ IsFiniteSet(1..Cardinality(D))
          /\ Cardinality(1..Cardinality(D))
               = IF 1 > Cardinality(D) THEN 0 ELSE Cardinality(D) - 1 + 1
      BY ONLY <3>1, FS_Interval
    <3> QED BY <1>3, <3>2
  <2>3. SetToSeq(D) \in Surjection(1..Cardinality(D), D)
    BY <1>2, <2>1, <2>2, FS_Injection
  <2> QED BY <2>3 DEF Surjection
<1> QED BY <1>3, <1>5, <1>6, <1>7

(* What one sequence after another reads. *)
LEMMA OneAfterAnother ==
    ASSUME NEW S, NEW s \in Seq(S), NEW t \in Seq(S)
    PROVE  /\ s \o t \in Seq(S)
           /\ Len(s \o t) = Len(s) + Len(t)
           /\ \A i \in 1..(Len(s) + Len(t)) :
                 (s \o t)[i] = IF i <= Len(s) THEN s[i] ELSE t[i - Len(s)]
  OBVIOUS

(* What a rendered ledger reads, line by line. *)
LEMMA RenderedLines ==
    ASSUME NEW l, IsLedger(l)
    PROVE  LET lines == Render(l)
               n     == Cardinality(DOMAIN l.facts)
               at(i) == SetToSeq(DOMAIN l.facts)[i]
           IN  /\ n \in Nat
               /\ DOMAIN lines = 1..(n + 2) /\ Len(lines) = n + 2
               /\ lines # << >>
               /\ lines[1] = [word |-> "header"]
               /\ lines[2] = ObservedLine(l.observed)
               /\ \A i \in 3..(n + 2) : lines[i] = FactLine(at(i - 2), l.facts[at(i - 2)])
<1> DEFINE lines == Render(l)
           D     == DOMAIN l.facts
           n     == Cardinality(D)
           at(i) == SetToSeq(D)[i]
           top   == <<[word |-> "header"], ObservedLine(l.observed)>>
           rest  == [i \in 1..n |-> FactLine(at(i), l.facts[at(i)])]
           S     == {[word |-> "header"], ObservedLine(l.observed)}
                    \cup {FactLine(at(i), l.facts[at(i)]) : i \in 1..n}
<1>1. n \in Nat
  BY Enumerates DEF IsLedger
<1>2. top \in Seq(S) /\ Len(top) = 2
  OBVIOUS
<1>3. rest \in Seq(S) /\ Len(rest) = n /\ \A i \in 1..n : rest[i] = FactLine(at(i), l.facts[at(i)])
  <2> DEFINE line(i) == FactLine(at(i), l.facts[at(i)])
  <2>1. \A i \in 1..n : line(i) \in S
    OBVIOUS
  <2> HIDE DEF n, S, line
  <2>2. [i \in 1..n |-> line(i)] \in Seq(S) /\ Len([i \in 1..n |-> line(i)]) = n
    BY <1>1, <2>1
  <2> QED BY <2>2 DEF line
<1>4. lines = top \o rest
  BY DEF Render
<1>5. top[1] = [word |-> "header"] /\ top[2] = ObservedLine(l.observed)
  OBVIOUS
<1> HIDE DEF top, rest, S, n, at, lines
<1>6. /\ lines \in Seq(S) /\ Len(lines) = n + 2
      /\ lines[1] = top[1] /\ lines[2] = top[2]
      /\ \A i \in 3..(n + 2) : lines[i] = rest[i - 2]
  <2> DEFINE Both == top \o rest
  <2>0. top \in Seq(S) /\ rest \in Seq(S) /\ Len(top) = 2 /\ Len(rest) = n
    BY <1>2, <1>3
  <2>. DEFINE a == Len(top)
              b == Len(rest)
  <2>a. /\ Both \in Seq(S) /\ Len(Both) = a + b
        /\ \A i \in 1..(a + b) : Both[i] = IF i <= a THEN top[i] ELSE rest[i - a]
    BY ONLY <2>0, OneAfterAnother
  <2>b. a = 2 /\ b = n
    BY <2>0
  <2> HIDE DEF Both, a, b
  <2>1. Both \in Seq(S) /\ Len(Both) = 2 + n
    BY ONLY <2>a, <2>b
  <2>2. \A i \in 1..(2 + n) : Both[i] = IF i <= 2 THEN top[i] ELSE rest[i - 2]
    BY ONLY <2>a, <2>b, Zenon
  <2>3. 2 + n = n + 2 /\ 1 \in 1..(2 + n) /\ 2 \in 1..(2 + n)
    BY <1>1
  <2>4. \A i \in 3..(n + 2) : i \in 1..(2 + n) /\ ~(i <= 2)
    BY <1>1
  <2> HIDE DEF Both
  <2> QED BY <1>4, <2>1, <2>2, <2>3, <2>4 DEF Both
<1>7. \A i \in 3..(n + 2) : i - 2 \in 1..n
  BY <1>1
<1>8. DOMAIN lines = 1..(n + 2) /\ lines # << >>
  BY <1>1, <1>6
<1>9. \A i \in 3..(n + 2) : lines[i] = FactLine(at(i - 2), l.facts[at(i - 2)])
  BY <1>3, <1>6, <1>7
<1> QED BY <1>1, <1>5, <1>6, <1>8, <1>9 DEF lines, n, at

(* A ledger that is written reads back as it was. *)
LEMMA RecordReadsBack ==
    ASSUME NEW l, IsLedger(l)
    PROVE  LedgerOf(Render(l)) = l
<1> DEFINE lines == Render(l)
           D     == DOMAIN l.facts
           n     == Cardinality(D)
           at(i) == SetToSeq(D)[i]
<1>1. /\ n \in Nat
      /\ DOMAIN lines = 1..(n + 2) /\ Len(lines) = n + 2
      /\ lines # << >>
      /\ lines[1] = [word |-> "header"]
      /\ lines[2] = ObservedLine(l.observed)
      /\ \A i \in 3..(n + 2) : lines[i] = FactLine(at(i - 2), l.facts[at(i - 2)])
  BY RenderedLines
<1>2. /\ \A i \in 1..n : at(i) \in D
      /\ \A c \in D : \E i \in 1..n : at(i) = c
      /\ \A i, j \in 1..n : at(i) = at(j) => i = j
  BY Enumerates DEF IsLedger
<1> HIDE DEF lines, n, at, D
<1>3. \A i \in 3..(n + 2) :
          /\ i - 2 \in 1..n
          /\ lines[i].word = "fact"
          /\ lines[i].control = at(i - 2)
          /\ lines[i].claim = l.facts[at(i - 2)].claim
          /\ lines[i].counter = l.facts[at(i - 2)].epoch
  <2> SUFFICES ASSUME NEW i \in 3..(n + 2)
               PROVE  /\ i - 2 \in 1..n
                      /\ lines[i].word = "fact"
                      /\ lines[i].control = at(i - 2)
                      /\ lines[i].claim = l.facts[at(i - 2)].claim
                      /\ lines[i].counter = l.facts[at(i - 2)].epoch
    OBVIOUS
  <2>1. i - 2 \in 1..n
    BY <1>1
  <2>2. lines[i] = FactLine(at(i - 2), l.facts[at(i - 2)])
    BY <1>1
  <2> QED BY <2>1, <2>2 DEF FactLine
<1>4. /\ lines[1].word = "header"
      /\ lines[2].word = "observed" /\ ~lines[2].extra /\ lines[2].counter = l.observed
  BY <1>1 DEF ObservedLine
<1>5. \A i \in DOMAIN lines : i = 1 \/ i = 2 \/ i \in 3..(n + 2)
  BY <1>1
<1>6. Worded(lines, "observed") = {2}
  BY <1>1, <1>3, <1>4, <1>5 DEF Worded
<1>7. Worded(lines, "fact") = 3..(n + 2)
  BY <1>1, <1>3, <1>4, <1>5 DEF Worded
<1>8. \A i, j \in 3..(n + 2) : lines[i].control = lines[j].control => i = j
  <2> SUFFICES ASSUME NEW i \in 3..(n + 2), NEW j \in 3..(n + 2), lines[i].control = lines[j].control
               PROVE  i = j
    OBVIOUS
  <2>1. i - 2 = j - 2
    BY <1>2, <1>3
  <2> QED BY <1>1, <2>1
<1>9. {lines[i].control : i \in 3..(n + 2)} = D
  <2>1. ASSUME NEW c \in D PROVE \E i \in 3..(n + 2) : lines[i].control = c
    <3>1. PICK k \in 1..n : at(k) = c
      BY <1>2
    <3>2. k + 2 \in 3..(n + 2) /\ (k + 2) - 2 = k
      BY <1>1
    <3> QED BY <1>3, <3>1, <3>2
  <2>2. \A i \in 3..(n + 2) : lines[i].control \in D
    BY <1>2, <1>3
  <2> QED BY <2>1, <2>2
<1>10. ASSUME NEW c \in D
       PROVE  LET i == CHOOSE i \in 3..(n + 2) : lines[i].control = c
              IN  [claim |-> lines[i].claim, epoch |-> lines[i].counter] = l.facts[c]
  <2> DEFINE i == CHOOSE i \in 3..(n + 2) : lines[i].control = c
  <2>1. i \in 3..(n + 2) /\ lines[i].control = c
    BY <1>9
  <2> HIDE DEF i
  <2>2. lines[i].claim = l.facts[c].claim /\ lines[i].counter = l.facts[c].epoch
    BY <1>3, <2>1
  <2>3. l.facts[c] = [claim |-> l.facts[c].claim, epoch |-> l.facts[c].epoch]
    BY DEF IsLedger, D
  <2> QED BY <2>2, <2>3 DEF i
<1>11. RecordedLedger(lines).observed = l.observed
  BY <1>4, <1>6 DEF RecordedLedger
<1>12. RecordedLedger(lines).facts = l.facts
  <2> DEFINE read(c) == LET i == CHOOSE i \in 3..(n + 2) : lines[i].control = c
                        IN  [claim |-> lines[i].claim, epoch |-> lines[i].counter]
  <2>1. RecordedLedger(lines).facts = [c \in D |-> read(c)]
    BY <1>7, <1>9 DEF RecordedLedger
  <2>2. \A c \in D : read(c) = l.facts[c]
    BY <1>10
  <2> HIDE DEF read
  <2>4. RecordedLedger(lines).facts = [c \in D |-> l.facts[c]]
    BY <2>1, <2>2
  <2>3. l.facts = [c \in D |-> l.facts[c]]
    BY DEF IsLedger, D
  <2> QED BY <2>3, <2>4
<1>13. RecordedLedger(lines) = l
  <2>1. RecordedLedger(lines)
          = [observed |-> RecordedLedger(lines).observed, facts |-> RecordedLedger(lines).facts]
    BY DEF RecordedLedger
  <2> QED BY <1>11, <1>12, <2>1 DEF IsLedger
<1>14. IsRecord(lines)
  <2>1. \A i \in 3..(n + 2) :
          lines[i].counter # NoBoot /\ lines[i].claim \in ClaimWords[lines[i].control]
    BY <1>2, <1>3 DEF IsLedger, NoBoot, D
  <2>2. \A i \in 2..Len(lines) : i = 2 \/ i \in 3..(n + 2)
    BY <1>1
  <2>3. \A c \in D : l.facts[c].epoch <= l.observed
    BY DEF IsLedger, D
  <2> QED BY <1>1, <1>3, <1>4, <1>6, <1>7, <1>8, <1>13, <2>1, <2>2, <2>3 DEF IsRecord, D
<1>15. lines \notin {AbsentRecord, LockedRecord}
  BY <1>4 DEF AbsentRecord, LockedRecord
<1> QED BY <1>13, <1>14, <1>15 DEF LedgerOf, lines

(* A statement that is not refused states a boot, and about each control    *)
(* one of the words there are for it.                                       *)
WellSaid(said) ==
    /\ said.epoch \in Nat \ {NoBoot}
    /\ DOMAIN said.claims \subseteq Mediated
    /\ \A c \in DOMAIN said.claims : said.claims[c] \in ClaimWords[c]

(* Attestation::parse refuses all the rest. *)
LEMMA AcceptedIsWellSaid ==
    ASSUME NEW parts,
           DOMAIN parts \subseteq Nat,
           \A i \in Keyed(parts, {"epoch"}) : parts[i].counter \in Nat,
           ParseAttestation(parts).fault = NoFault
    PROVE  WellSaid(ParseAttestation(parts))
<1> DEFINE said   == ParseAttestation(parts)
           wrong  == {i \in DOMAIN parts : PartFault(parts, i) # NoFault}
           boots  == Keyed(parts, {"epoch"})
           stated == Keyed(parts, Mediated)
<1>1. said = [epoch  |-> IF boots = {} THEN NoBoot ELSE parts[Min(boots)].counter,
              claims |-> [c \in {parts[i].key : i \in stated} |->
                             parts[CHOOSE i \in stated : parts[i].key = c].word],
              fault  |-> IF wrong # {} THEN PartFault(parts, Min(wrong))
                         ELSE IF boots = {} THEN "malformed" ELSE NoFault]
  BY DEF ParseAttestation
<1>2. wrong = {}
  <2>1. ASSUME wrong # {} PROVE FALSE
    <3>1. Min(wrong) \in wrong
      BY <2>1, FirstPlace
    <3>2. PartFault(parts, Min(wrong)) # NoFault
      BY <3>1
    <3>3. said.fault = PartFault(parts, Min(wrong))
      BY <1>1, <2>1
    <3> QED BY <3>2, <3>3
  <2> QED BY <2>1
<1>3. boots # {} /\ Min(boots) \in boots
  <2>1. boots # {}
    BY <1>1, <1>2 DEF NoFault
  <2> QED BY <2>1, FirstPlace DEF Keyed
<1>4. \A i \in DOMAIN parts : PartFault(parts, i) = NoFault
  BY <1>2
<1>5. said.epoch \in Nat \ {NoBoot}
  <2>1. Min(boots) \in DOMAIN parts /\ parts[Min(boots)].key = "epoch"
    BY <1>3 DEF Keyed
  <2>2. PartFault(parts, Min(boots)) = NoFault
    BY <1>4, <2>1
  <2>3. parts[Min(boots)].counter # NoBoot
    BY <2>1, <2>2 DEF PartFault, NoFault
  <2>4. parts[Min(boots)].counter \in Nat
    BY <1>3
  <2>5. said.epoch = parts[Min(boots)].counter
    BY <1>1, <1>3
  <2> QED BY <2>3, <2>4, <2>5
<1>6. \A i \in stated : parts[i].word \in ClaimWords[parts[i].key]
  <2> SUFFICES ASSUME NEW i \in stated PROVE parts[i].word \in ClaimWords[parts[i].key]
    OBVIOUS
  <2>1. i \in DOMAIN parts /\ parts[i].key \in Mediated
    BY DEF Keyed
  <2>2. PartFault(parts, i) = NoFault
    BY <1>4, <2>1
  <2> QED BY <2>1, <2>2 DEF PartFault, NoFault, Mediated
<1>7. DOMAIN said.claims = {parts[i].key : i \in stated}
  BY <1>1
<1>8. DOMAIN said.claims \subseteq Mediated
  BY <1>7 DEF Keyed
<1>9. ASSUME NEW c \in DOMAIN said.claims PROVE said.claims[c] \in ClaimWords[c]
  <2> DEFINE i == CHOOSE i \in stated : parts[i].key = c
  <2>1. i \in stated /\ parts[i].key = c
    BY <1>7
  <2>2. said.claims[c] = parts[i].word
    BY <1>1, <1>7
  <2> QED BY <1>6, <2>1, <2>2
<1> QED BY <1>5, <1>8, <1>9 DEF WellSaid

(* What a guest is told here is of those. *)
LEMMA StatementsAreWellSaid ==
    ASSUME boot \in Nat, NEW env \in Statements, ParseAttestation(env).fault = NoFault
    PROVE  WellSaid(ParseAttestation(env))
<1>1. DOMAIN env \subseteq Nat
  BY DEF Statements, SaidIn, Garbled, NoStatement
<1>2. \A i \in Keyed(env, {"epoch"}) : env[i].counter \in Nat
  BY DEF Keyed, Statements, SaidIn, Garbled, NoStatement
<1> QED BY <1>1, <1>2, AcceptedIsWellSaid

(* What is established keeps the ledger one, and never takes it back.       *)
LEMMA EstablishedIsALedger ==
    ASSUME NEW held, IsLedger(held), NEW said, WellSaid(said)
    PROVE  LET new == Establish(ObserveBoot(held, said.epoch), said)
           IN  IsLedger(new) /\ held.observed <= new.observed
<1> DEFINE seen == ObserveBoot(held, said.epoch)
           new  == Establish(seen, said)
<1>1. held.observed \in Nat /\ said.epoch \in Nat /\ said.epoch >= 1
  BY DEF IsLedger, WellSaid, NoBoot
<1>2. CASE said.epoch < held.observed
  <2>1. seen = held
    BY <1>1, <1>2 DEF ObserveBoot
  <2>2. new = held
    BY <1>1, <1>2, <2>1 DEF Establish, NoBoot
  <2> QED BY <1>1, <2>2
<1>3. CASE ~(said.epoch < held.observed)
  <2> DEFINE both   == DOMAIN said.claims \cup DOMAIN held.facts
             now(c) == IF c \in DOMAIN said.claims
                       THEN [claim |-> said.claims[c], epoch |-> said.epoch] ELSE held.facts[c]
  <2>1. seen.observed = said.epoch /\ seen.facts = held.facts
    BY <1>1, <1>3 DEF ObserveBoot, IsLedger
  <2>2. new = [observed |-> said.epoch, facts |-> [c \in both |-> now(c)]]
    BY <1>1, <2>1 DEF Establish, Restated
  <2>3. DOMAIN new.facts = both /\ \A c \in both : new.facts[c] = now(c)
    BY <2>2
  <2>4. new.observed = said.epoch
    BY <2>2
  <2>5. \A c \in DOMAIN new.facts :
          /\ new.facts[c] = [claim |-> new.facts[c].claim, epoch |-> new.facts[c].epoch]
          /\ new.facts[c].claim \in ClaimWords[c]
          /\ new.facts[c].epoch \in 1..new.observed
    <3> SUFFICES ASSUME NEW c \in DOMAIN new.facts
                 PROVE  /\ new.facts[c] = [claim |-> new.facts[c].claim,
                                           epoch |-> new.facts[c].epoch]
                        /\ new.facts[c].claim \in ClaimWords[c]
                        /\ new.facts[c].epoch \in 1..said.epoch
      BY <2>4
    <3>1. CASE c \in DOMAIN said.claims
      <4>1. new.facts[c] = [claim |-> said.claims[c], epoch |-> said.epoch]
        BY <2>3, <3>1
      <4>2. said.claims[c] \in ClaimWords[c]
        BY <3>1 DEF WellSaid
      <4> QED BY <1>1, <4>1, <4>2
    <3>2. CASE c \notin DOMAIN said.claims
      <4>1. c \in DOMAIN held.facts /\ new.facts[c] = held.facts[c]
        BY <2>3, <3>2
      <4>2. held.facts[c].epoch \in 1..held.observed
        BY <4>1 DEF IsLedger
      <4>3. held.facts[c].epoch \in 1..said.epoch
        BY <1>1, <1>3, <4>2
      <4> QED BY <4>1, <4>3 DEF IsLedger
    <3> QED BY <3>1, <3>2
  <2>6. DOMAIN new.facts \subseteq Mediated
    BY <2>3 DEF IsLedger, WellSaid
  <2>7. new = [observed |-> new.observed, facts |-> new.facts]
    BY <2>2
  <2>8. new.facts = [c \in DOMAIN new.facts |-> new.facts[c]]
    BY <2>2
  <2> QED BY <1>1, <1>3, <2>4, <2>5, <2>6, <2>7, <2>8 DEF IsLedger
<1> QED BY <1>2, <1>3

(* What a command makes of a record and a statement is a ledger, of a boot  *)
(* no earlier than the record's.                                            *)
LEMMA ReconcileKnows ==
    ASSUME boot \in Nat, NEW record, IsLedger(LedgerOf(record)), NEW env \in Statements
    PROVE  /\ IsLedger(Reconcile(record, env).ledger)
           /\ LedgerOf(record).observed <= Reconcile(record, env).ledger.observed
<1> DEFINE held == LedgerOf(record)
           said == ParseAttestation(env)
<1>1. held.observed <= held.observed
  BY DEF IsLedger
<1>2. Reconcile(record, env).ledger
        = IF env = NoStatement \/ said.fault # NoFault THEN held
          ELSE Establish(ObserveBoot(held, said.epoch), said)
  BY DEF Reconcile
<1>3. CASE env = NoStatement \/ said.fault # NoFault
  BY <1>1, <1>2, <1>3
<1>4. CASE ~(env = NoStatement \/ said.fault # NoFault)
  <2>1. WellSaid(said)
    BY <1>4, StatementsAreWellSaid
  <2>2. LET new == Establish(ObserveBoot(held, said.epoch), said)
        IN  IsLedger(new) /\ held.observed <= new.observed
    BY <2>1, EstablishedIsALedger
  <2> QED BY <1>2, <1>4, <2>2
<1> QED BY <1>3, <1>4

(* Nothing on record is a ledger that knows nothing. *)
LEMMA NothingIsALedger ==
    /\ IsLedger(EmptyLedger)
    /\ \A r \in {AbsentRecord, LockedRecord, <<[word |-> "nonsense"]>>} : LedgerOf(r) = EmptyLedger
<1>1. IsLedger(EmptyLedger)
  <2>1. DOMAIN Nowhere = {} /\ Nowhere = [c \in {} |-> Nowhere[c]]
    BY DEF Nowhere
  <2>2. EmptyLedger.observed = 0 /\ EmptyLedger.facts = Nowhere
    BY DEF EmptyLedger, NoBoot
  <2>3. EmptyLedger = [observed |-> EmptyLedger.observed, facts |-> EmptyLedger.facts]
    BY <2>2 DEF EmptyLedger, NoBoot
  <2> QED BY <2>1, <2>2, <2>3 DEF IsLedger
<1>2. LedgerOf(AbsentRecord) = EmptyLedger /\ LedgerOf(LockedRecord) = EmptyLedger
  BY DEF LedgerOf
<1>3. LedgerOf(<<[word |-> "nonsense"]>>) = EmptyLedger
  BY DEF LedgerOf, IsRecord
<1> QED BY <1>1, <1>2, <1>3

(* What is about to be written is a ledger that knows what is known. *)
LEMMA WhatIsWritten ==
    ASSUME DeviceInv, NEW env \in Statements
    PROVE  LET recorded == Render(GuestView(env).ledger)
           IN  /\ Knows(LedgerOf(recorded))
               /\ LedgerOf(recorded) = GuestView(env).ledger
<1> DEFINE view == GuestView(env).ledger
<1>1. IsLedger(LedgerOf(guestRecord)) /\ known <= LedgerOf(guestRecord).observed
  BY DEF DeviceInv, Knows
<1>2. IsLedger(view) /\ LedgerOf(guestRecord).observed <= view.observed
  BY <1>1, ReconcileKnows DEF DeviceInv, GuestView
<1>3. LedgerOf(Render(view)) = view
  BY <1>2, RecordReadsBack
<1>4. known <= view.observed
  <2>1. known \in Nat
    BY DEF DeviceInv
  <2>2. LedgerOf(guestRecord).observed \in Nat /\ view.observed \in Nat
    BY <1>1, <1>2 DEF IsLedger
  <2> QED BY <1>1, <1>2, <2>1, <2>2
<1> QED BY <1>2, <1>3, <1>4 DEF Knows

(* Statements are of boots there were. *)
LEMMA StatementsOfTheBoot ==
    ASSUME UNCHANGED boot
    PROVE  Statements' = Statements
  BY DEF Statements, SaidIn, Garbled, NoStatement

(* A start writes what it makes of the record and of what it was told. *)
LEMMA RunStartsKeepsInv ==
    ASSUME DeviceInv, NEW env \in Statements, RunStarts(env)
    PROVE  DeviceInv'
<1>1. /\ run' = [at |-> "writes", env |-> env, recorded |-> Render(GuestView(env).ledger)]
      /\ UNCHANGED <<boot, guestRecord, onMedium, known>>
  BY DEF RunStarts, WritesRecord
<1>2. Knows(LedgerOf(run'.recorded))
  BY <1>1, WhatIsWritten
<1>3. \A r \in onMedium' : Knows(LedgerOf(r))'
  BY <1>1 DEF DeviceInv, Knows
<1>4. Knows(LedgerOf(run.recorded))'
  BY <1>1, <1>2 DEF Knows
<1>5. run.env' \in Statements'
  BY <1>1, StatementsOfTheBoot
<1> QED BY <1>1, <1>3, <1>4, <1>5 DEF DeviceInv

(* A tick writes it again where it changed. *)
LEMMA RunLooksKeepsInv ==
    ASSUME DeviceInv, NEW m \in Machines, RunLooks(m)
    PROVE  DeviceInv'
<1>1. run.at = "looks" /\ run.env \in Statements /\ UNCHANGED <<boot, guestRecord, onMedium, known>>
  BY DEF RunLooks, DeviceInv
<1>2. \A r \in onMedium' : Knows(LedgerOf(r))'
  BY <1>1 DEF DeviceInv, Knows
<1>3. Statements' = Statements
  BY <1>1, StatementsOfTheBoot
<1>4. CASE run' = NotRunning
  BY <1>1, <1>2, <1>4 DEF DeviceInv, NotRunning
<1>5. CASE run' = WritesRecord(GuestView(run.env), run.env)
  <2>1. run' = [at |-> "writes", env |-> run.env, recorded |-> Render(GuestView(run.env).ledger)]
    BY <1>5 DEF WritesRecord
  <2>2. Knows(LedgerOf(run'.recorded))
    BY <1>1, <2>1, WhatIsWritten
  <2>3. Knows(LedgerOf(run.recorded))'
    BY <1>1, <2>2 DEF Knows
  <2> QED BY <1>1, <1>2, <1>3, <2>1, <2>3 DEF DeviceInv
<1>6. CASE run' = run
  BY <1>1, <1>2, <1>3, <1>6 DEF DeviceInv
<1> QED BY <1>4, <1>5, <1>6 DEF RunLooks

(* It goes on with what it has. *)
LEMMA GoesOn ==
    ASSUME DeviceInv, NEW to \in {"flushes directory", "looks"},
           run.at # "off", RunGoes(to), UNCHANGED boot
    PROVE  /\ run'.at = to
           /\ run' = [at |-> run'.at, env |-> run'.env, recorded |-> run'.recorded]
           /\ run'.env \in Statements'
<1>1. run = [at |-> run.at, env |-> run.env, recorded |-> run.recorded] /\ run.env \in Statements
  BY DEF DeviceInv
<1>2. run' = [at |-> to, env |-> run.env, recorded |-> run.recorded]
  BY <1>1 DEF RunGoes
<1> QED BY <1>1, <1>2, StatementsOfTheBoot

(* What is renamed may be found after a cut; it knows what is known. *)
LEMMA RunRenamesKeepsInv ==
    ASSUME DeviceInv, RunRenames
    PROVE  DeviceInv'
<1>1. /\ run.at = "writes" /\ RunGoes("flushes directory")
      /\ guestRecord' = run.recorded /\ onMedium' = onMedium \cup {run.recorded}
      /\ UNCHANGED <<boot, known>>
  BY DEF RunRenames
<1>2. \A r \in onMedium' : Knows(LedgerOf(r))
  BY <1>1 DEF DeviceInv
<1>3. \A r \in onMedium' : Knows(LedgerOf(r))'
  BY <1>1, <1>2 DEF Knows
<1> QED BY <1>1, <1>3, GoesOn DEF DeviceInv

(* Nothing older is left once the directory is flushed, and so what is     *)
(* recorded is known.                                                       *)
LEMMA RunFlushesDirectoryKeepsInv ==
    ASSUME DeviceInv, RunFlushesDirectory
    PROVE  DeviceInv'
<1>1. /\ run.at = "flushes directory" /\ RunGoes("looks")
      /\ onMedium' = {guestRecord} /\ known' = LedgerOf(guestRecord).observed
      /\ UNCHANGED <<boot, guestRecord>>
  BY DEF RunFlushesDirectory, Recorded
<1>2. IsLedger(LedgerOf(guestRecord))
  BY DEF DeviceInv, Knows
<1>3. known' \in Nat /\ known' <= LedgerOf(guestRecord).observed
  <2> DEFINE n == LedgerOf(guestRecord).observed
  <2>1. n \in Nat
    BY <1>2 DEF IsLedger
  <2>2. known' = n
    BY <1>1
  <2> HIDE DEF n
  <2>3. known' \in Nat /\ known' <= n
    BY <2>1, <2>2
  <2> QED BY <2>3 DEF n
<1>4. \A r \in onMedium' : Knows(LedgerOf(r))'
  BY <1>1, <1>2, <1>3 DEF Knows
<1> QED BY <1>1, <1>3, <1>4, GoesOn DEF DeviceInv

(* A write that failed made nothing known. *)
LEMMA RunFailsKeepsInv ==
    ASSUME DeviceInv, RunFails
    PROVE  DeviceInv'
<1>1. /\ run.at # "off" /\ RunGoes("looks") /\ UNCHANGED <<boot, guestRecord, onMedium, known>>
  BY DEF RunFails
<1>2. \A r \in onMedium' : Knows(LedgerOf(r))'
  BY <1>1 DEF DeviceInv, Knows
<1>3. /\ run'.at = "looks"
      /\ run' = [at |-> run'.at, env |-> run'.env, recorded |-> run'.recorded]
      /\ run'.env \in Statements'
  BY <1>1, GoesOn
<1> QED BY <1>1, <1>2, <1>3 DEF DeviceInv

(* Whichever record a reboot finds knows what is known. *)
LEMMA HostRebootsKeepsInv ==
    ASSUME DeviceInv, HostReboots
    PROVE  DeviceInv'
<1>1. /\ boot' = boot + 1 /\ guestRecord' \in onMedium /\ onMedium' = {guestRecord'}
      /\ run' = NotRunning /\ UNCHANGED known
  BY DEF HostReboots
<1>2. \A r \in onMedium' : Knows(LedgerOf(r))'
  BY <1>1 DEF DeviceInv, Knows
<1>3. boot' \in Nat /\ known' \in Nat
  <2>1. boot \in Nat /\ known \in Nat
    BY DEF DeviceInv
  <2>2. boot' = boot + 1 /\ known' = known
    BY <1>1
  <2> QED BY <2>1, <2>2
<1>4. guestRecord' \in onMedium' /\ run'.at = "off"
  BY <1>1 DEF NotRunning
<1> QED BY <1>2, <1>3, <1>4 DEF DeviceInv

(* What is spoilt knows nothing, and nothing is expected of it. *)
LEMMA RecordSpoilsKeepsInv ==
    ASSUME DeviceInv, RecordSpoils
    PROVE  DeviceInv'
<1>1. /\ guestRecord' \in {LockedRecord, <<[word |-> "nonsense"]>>} /\ onMedium' = {guestRecord'}
      /\ known' = 0 /\ UNCHANGED <<boot, run>>
  BY DEF RecordSpoils, NoBoot
<1>2. \A r \in onMedium' : Knows(LedgerOf(r))'
  <2>1. \A r \in onMedium' : LedgerOf(r) = EmptyLedger
    BY <1>1, NothingIsALedger
  <2>2. known' <= EmptyLedger.observed
    BY <1>1 DEF EmptyLedger, NoBoot
  <2> QED BY <2>1, <2>2, NothingIsALedger DEF Knows
<1>3. run.at = "writes" => Knows(LedgerOf(run.recorded))'
  <2>1. ASSUME run.at = "writes" PROVE Knows(LedgerOf(run.recorded))'
    <3>1. IsLedger(LedgerOf(run.recorded))
      BY <2>1 DEF DeviceInv, Knows
    <3>2. known' <= LedgerOf(run.recorded).observed
      BY <1>1, <3>1 DEF IsLedger
    <3> QED BY <1>1, <3>1, <3>2 DEF Knows
  <2> QED BY <2>1
<1>4. Statements' = Statements
  BY <1>1, StatementsOfTheBoot
<1> QED BY <1>1, <1>2, <1>3, <1>4 DEF DeviceInv

(* Nothing else touches what a guest knows. *)
LEMMA RestKeepsInv ==
    ASSUME DeviceInv,
           UNCHANGED <<boot, guestRecord, onMedium, known>>, run' \in {run, NotRunning}
    PROVE  DeviceInv'
<1>1. \A r \in onMedium' : Knows(LedgerOf(r))'
  BY DEF DeviceInv, Knows
<1>2. Statements' = Statements
  BY StatementsOfTheBoot
<1>3. CASE run' = NotRunning
  BY <1>1, <1>3 DEF DeviceInv, NotRunning
<1>4. CASE run' = run
  <2>1. run.at = "writes" => Knows(LedgerOf(run.recorded))'
    BY <1>4 DEF DeviceInv, Knows
  <2> QED BY <1>1, <1>2, <1>4, <2>1 DEF DeviceInv
<1> QED BY <1>3, <1>4

(* The invariant of a guest's record, whatever the commands and the host do.*)
LEMMA DeviceStepKeepsInv ==
    ASSUME DeviceInv, [DeviceNext]_deviceVars
    PROVE  DeviceInv'
<1>1. ASSUME NEW env \in Statements, RunStarts(env) PROVE DeviceInv'
  BY <1>1, RunStartsKeepsInv
<1>2. ASSUME NEW m \in Machines, RunLooks(m) PROVE DeviceInv'
  BY <1>2, RunLooksKeepsInv
<1>3. CASE RunRenames
  BY <1>3, RunRenamesKeepsInv
<1>4. CASE RunFlushesDirectory
  BY <1>4, RunFlushesDirectoryKeepsInv
<1>5. CASE RunFails
  BY <1>5, RunFailsKeepsInv
<1>6. CASE RunEnds
  BY <1>6, RestKeepsInv DEF RunEnds
<1>7. CASE HostReboots
  BY <1>7, HostRebootsKeepsInv
<1>8. CASE RecordSpoils
  BY <1>8, RecordSpoilsKeepsInv
<1>9. CASE StandingChanges
  BY <1>9, RestKeepsInv DEF StandingChanges
<1>10. CASE UNCHANGED deviceVars
  BY <1>10, RestKeepsInv DEF deviceVars
<1> QED BY <1>1, <1>2, <1>3, <1>4, <1>5, <1>6, <1>7, <1>8, <1>9, <1>10 DEF DeviceNext

(* It starts with nothing on record. *)
LEMMA DeviceInitInv ==
    ASSUME DeviceInit
    PROVE  DeviceInv
<1>1. /\ boot = 1 /\ guestRecord = AbsentRecord /\ onMedium = {AbsentRecord}
      /\ run = NotRunning /\ known = 0
  BY DEF DeviceInit, NoBoot
<1>2. LedgerOf(AbsentRecord) = EmptyLedger /\ EmptyLedger.observed = 0
  BY NothingIsALedger DEF EmptyLedger, NoBoot
<1> QED BY <1>1, <1>2, NothingIsALedger DEF DeviceInv, Knows, NotRunning

(* What is told of a ledger that knows, is of the latest boot known. *)
LEMMA WhatIsTold ==
    ASSUME NEW l, IsLedger(l), NEW c \in Mediated, StandingOf(l, c).label = "ATTESTED"
    PROVE  StandingOf(l, c).epoch \in Nat /\ StandingOf(l, c).epoch >= l.observed
<1>1. c \in DOMAIN l.facts
  BY DEF StandingOf, UnknownClaim
<1>2. l.observed \in Nat /\ l.facts[c].epoch \in 1..l.observed
  BY <1>1 DEF IsLedger
<1>3. StandingOf(l, c).epoch = l.facts[c].epoch
  BY <1>1 DEF StandingOf
<1>4. ~(l.observed # NoBoot /\ l.facts[c].epoch < l.observed)
  BY <1>1 DEF StandingOf
<1> QED BY <1>2, <1>3, <1>4 DEF NoBoot

(* So is what a report tells. *)
LEMMA ReportsAreOfTheLatestBoot ==
    ASSUME DeviceInv
    PROVE  ClaimsAreOfTheLatestBoot
<1> SUFFICES ASSUME NEW m \in Machines, UnderAHost(Detect(m).verdict), NEW env \in Statements,
                    NEW lines \in ReportOf(m, env, Unconfigured, {}).guest,
                    NEW c \in Mediated, lines.standings[c].label = "ATTESTED"
             PROVE  lines.standings[c].epoch >= known
  BY DEF ClaimsAreOfTheLatestBoot, Guests
<1> DEFINE l == GuestView(env).ledger
<1>1. ReportOf(m, env, Unconfigured, {}).guest = {GuestLines(GuestView(env))}
  BY DEF ReportOf, SurveyReport
<1>2. lines.standings[c] = StandingOf(l, c)
  BY <1>1 DEF GuestLines
<1>3. IsLedger(l) /\ known <= l.observed
  BY WhatIsWritten DEF Knows
<1>4. known \in Nat /\ l.observed \in Nat
  BY <1>3 DEF DeviceInv, IsLedger
<1>5. StandingOf(l, c).epoch \in Nat /\ StandingOf(l, c).epoch >= l.observed
  BY <1>2, <1>3, WhatIsTold
<1> HIDE DEF l
<1> QED BY <1>2, <1>3, <1>4, <1>5

(* The invariant of the device, whichever part of a cell moves. *)
THEOREM DeviceInvariant == MCSpec => []DeviceInv
<1>1. MCInit => DeviceInv
  BY DeviceInitInv DEF MCInit
<1>2. DeviceInv /\ [MCNext]_<<part, enrolVars, answerVars, deviceVars, fleetVars>> => DeviceInv'
  BY DeviceStepKeepsInv DEF MCNext
<1> QED BY <1>1, <1>2, PTL DEF MCSpec

(* What a guest's report tells as attested is of no boot before the latest  *)
(* that was recorded, for every machine, every statement and every number of*)
(* reboots.  (Guest::reconcile, Ledger::standing, guest::write)             *)
THEOREM ClaimsOfTheLatestBoot == MCSpec => []DeviceClaimsStand
<1>1. DeviceInv => DeviceClaimsStand
  BY ReportsAreOfTheLatestBoot DEF DeviceClaimsStand
<1> QED BY <1>1, DeviceInvariant, PTL

-----------------------------------------------------------------------------
(* Starts. *)

(* Where each surface listens. *)
LEMMA SurfacePlaces ==
    ASSUME NEW asked, asked.port \in Nat
    PROVE  /\ PortOf(asked, "panel") = asked.port
           /\ PortOf(asked, "site") = asked.port + 1
           /\ PortOf(asked, "vault") = asked.port + 2
  BY DEF PortOf, SurfaceNames

(* What the onion asks to be told of. *)
LEMMA OnionIsDisclosed ==
    ASSUME NEW holdsCeiling \in BOOLEAN
    PROVE  /\ {"heat", "theft is permanent"} \subseteq Disclosures("onion", holdsCeiling)
           /\ ~holdsCeiling => "heat unmitigated" \in Disclosures("onion", holdsCeiling)
<1>1. Profile("onion").thermal = "high" /\ Profile("onion").compromise = "permanent"
  BY DEF Profile
<1> QED BY <1>1 DEF Disclosures

(* A control that holds the charge is there to be written. *)
LEMMA CeilingIsThere ==
    ASSUME NEW m, CeilingFor(m, Supply) # {}
    PROVE  Exists(m, NodeOf(Supply, ControlNode("end_threshold")))
<1> DEFINE there == {i \in DOMAIN ProbeOrder : Exists(m, NodeOf(Supply, ControlNode(ProbeOrder[i])))}
<1>1. DetectMechanism(m, Supply) = "end_threshold" /\ DetectMechanism(m, Supply) # NoMechanism
  BY DEF CeilingFor, IsCeiling
<1>2. there # {} /\ ProbeOrder[Min(there)] = "end_threshold"
  BY <1>1 DEF DetectMechanism
<1>3. Min(there) \in there
  BY <1>2, FirstPlace DEF ProbeOrder
<1> QED BY <1>2, <1>3

(* A port is a number. *)
LEMMA PortsAreCounted == PortMax \in Nat
  BY DEF PortMax

(* `all` goes ahead only from a port with room for three. *)
LEMMA GoesWithPorts ==
    ASSUME NEW device, NEW asked, asked.port \in {NoNumber} \cup 0..PortMax,
           RefusalOf(device, asked) = Sound
    PROVE  asked.port \in 1..PortMax /\ asked.port + 2 <= PortMax
<1> DEFINE flaws ==
        {f \in ToSet(StartupRefusals) :
            \/ f = "ports" /\ AdjacentPorts(asked.port) = {}
            \/ f = "site" /\ \E d \in asked.site : OpenRoot(device.machine, d) # "none"
            \/ f = "vault" /\ \E d \in asked.vault : OpenRoot(device.machine, d) # "none"
            \/ f = "store" /\ asked.vault # {} /\ device.store.why # Sound
            \/ f = "onion directory" /\ asked.onion # {} /\ ~Prepare(device.fails).ok}
<1>1. /\ DOMAIN StartupRefusals = 1..5 /\ StartupRefusals[1] = "ports"
      /\ \A i \in 1..5 : StartupRefusals[i] # Sound
  BY DEF StartupRefusals, Sound
<1>2. FirstFlaw(StartupRefusals, flaws) = Sound
  BY DEF RefusalOf
<1>3. "ports" \in ToSet(StartupRefusals)
  BY <1>1 DEF ToSet
<1> HIDE DEF flaws
<1>4. StartupRefusals[1] \notin flaws
  BY <1>1, <1>2, SoundHasNoFlaw
<1>5. AdjacentPorts(asked.port) # {}
  BY <1>1, <1>3, <1>4 DEF flaws
<1>6. asked.port # NoNumber /\ asked.port # 0 /\ ~(asked.port + 2 > PortMax)
  BY <1>5 DEF AdjacentPorts
<1>7. asked.port \in 0..PortMax
  BY <1>6
<1>8. PortMax \in Nat
  BY PortsAreCounted
<1> QED BY <1>6, <1>7, <1>8

(* What `all` starts was announced, whatever the device and whatever is     *)
(* asked for.                                                               *)
LEMMA StartAnnounced ==
    ASSUME NEW device, NEW asked, asked.port \in {NoNumber} \cup 0..PortMax
    PROVE  StartIsAnnounced(device, asked)
<1> DEFINE s    == StartAll(device, asked)
           goes == RefusalOf(device, asked) = Sound
           ceiling == CeilingFor(device.machine, Supply) # {}
<1>1. CASE ~goes
  <2>1. s.listens = {} /\ s.onion = {} /\ s.relay = {}
    BY <1>1 DEF StartAll
  <2> QED BY <2>1 DEF StartIsAnnounced
<1>2. CASE goes
  <2>1. RefusalOf(device, asked) = Sound
    BY <1>2
  <2>2. asked.port \in 1..PortMax /\ asked.port + 2 <= PortMax
    BY <2>1, GoesWithPorts
  <2>3. PortMax \in Nat
    BY PortsAreCounted
  <2>4. /\ asked.port \in Nat /\ PortMax \in Nat
        /\ asked.port >= 1 /\ asked.port + 2 <= PortMax
    BY <2>2, <2>3
  <2>5. /\ PortOf(asked, "panel") = asked.port
        /\ PortOf(asked, "site") = asked.port + 1
        /\ PortOf(asked, "vault") = asked.port + 2
    BY <2>4, SurfacePlaces
  <2>6. /\ s.listens = {<<f, PortOf(asked, f)>> : f \in {f \in Served(asked) : goes}}
        /\ s.onion \subseteq OnionPlans(asked)
        /\ s.said = UNION {Disclosures("onion", ceiling) : p \in s.onion}
        /\ s.relay = {RelayLines(h, PortOf(asked, "site"), PortOf(asked, "vault")) :
                        h \in {h \in asked.relay : goes}}
    BY DEF StartAll
  <2> HIDE DEF s, goes, ceiling
  <2>7. Served(asked) \subseteq {"panel", "site", "vault"}
    BY DEF Served
  <2>8. s.listens = {<<f, PortOf(asked, f)>> : f \in Served(asked)}
    BY <1>2, <2>6
  <2>9. \A l \in s.listens : \/ l = <<"panel", asked.port>>
                               \/ l = <<"site", asked.port + 1>>
                               \/ l = <<"vault", asked.port + 2>>
    BY <2>5, <2>7, <2>8
  <2>10. \A l \in s.listens : l[2] \in 1..PortMax
    BY <2>4, <2>9
  <2>11. \A l, k \in s.listens : l[2] = k[2] => l = k
    BY <2>4, <2>9
  <2>12. ASSUME NEW p \in s.onion
        PROVE  /\ \A t \in p.ports : \E l \in s.listens : l[1] # "panel" /\ l[2] = t.target
               /\ \A t, u \in p.ports : t.virtual = u.virtual => t = u
    <3>1. p.ports = BuildPlan(PortsOf(asked, "site"), PortsOf(asked, "vault"))
      BY <2>6 DEF OnionPlans, Torrc
    <3>2. \A t \in p.ports : \/ /\ "site" \in Served(asked)
                                /\ t = Mapping(80, PortOf(asked, "site"))
                             \/ /\ "vault" \in Served(asked)
                                /\ t = Mapping(8080, PortOf(asked, "vault"))
      BY <3>1 DEF BuildPlan, PortsOf
    <3>3. \A f \in Served(asked) : <<f, PortOf(asked, f)>> \in s.listens
      BY <2>8
    <3>4. \A t \in p.ports : \E l \in s.listens : l[1] # "panel" /\ l[2] = t.target
      <4> TAKE t \in p.ports
      <4>1. CASE "site" \in Served(asked) /\ t = Mapping(80, PortOf(asked, "site"))
        <5>1. <<"site", PortOf(asked, "site")>> \in s.listens
          BY <3>3, <4>1
        <5> QED BY <4>1, <5>1 DEF Mapping
      <4>2. CASE "vault" \in Served(asked) /\ t = Mapping(8080, PortOf(asked, "vault"))
        <5>1. <<"vault", PortOf(asked, "vault")>> \in s.listens
          BY <3>3, <4>2
        <5> QED BY <4>2, <5>1 DEF Mapping
      <4> QED BY <3>2, <4>1, <4>2
    <3>5. \A t, u \in p.ports : t.virtual = u.virtual => t = u
      BY <3>2 DEF Mapping
    <3> QED BY <3>4, <3>5
  <2>13. ASSUME NEW p \in s.onion
        PROVE  /\ {"heat", "theft is permanent"} \subseteq s.said
               /\ \/ "heat unmitigated" \in s.said
                  \/ Exists(device.machine, NodeOf(Supply, ControlNode("end_threshold")))
    <3>1. s.said = Disclosures("onion", ceiling)
      BY <2>6, <2>13
    <3>2. ceiling \in BOOLEAN
      BY DEF ceiling
    <3>3. ceiling => Exists(device.machine, NodeOf(Supply, ControlNode("end_threshold")))
      BY CeilingIsThere DEF ceiling
    <3> QED BY <3>1, <3>2, <3>3, OnionIsDisclosed
  <2>14. \A r \in s.relay : TellReachability(r.standing, 0).says # "verified"
    <3> TAKE r \in s.relay
    <3>1. PICK h \in asked.relay : r = RelayLines(h, PortOf(asked, "site"), PortOf(asked, "vault"))
      BY <2>6
    <3>2. r.standing = NotReached("never observed")
      BY <3>1 DEF RelayLines
    <3>3. NotReached("never observed").is # "verified"
      BY DEF NotReached
    <3> QED BY <3>2, <3>3 DEF TellReachability, AsOf
  <2> QED BY <2>10, <2>11, <2>12, <2>13, <2>14 DEF StartIsAnnounced, s
<1> QED BY <1>1, <1>2

(* `all` announces what it starts, and starts on ports of its own, for every*)
(* device and every invocation whose port is one.  (all, build_plan,        *)
(* adjacent_ports, disclosures)                                             *)
THEOREM StartsStand == MCSpec => []DeviceStartStands
<1>1. StartsAreAnnounced
  BY StartAnnounced, InvocationsAssumption DEF StartsAreAnnounced
<1>2. DeviceStartStands
  BY <1>1 DEF DeviceStartStands
<1> QED BY <1>2, PTL

-----------------------------------------------------------------------------
(* What the commands that look at a device may say of it: what was          *)
(* registered, status, the catalogue, and the image.                        *)

(* The tiers are in order. *)
LEMMA TierRanks ==
    /\ TierRank("T0") = 0
    /\ TierRank("T1") = 1
    /\ TierRank("T2") = 2
    /\ TierRank("T3") = 3
  BY Zenon DEF TierRank

(* One that is at least as high as another reaches what that one reaches. *)
LEMMA HigherReaches ==
    ASSUME NEW t \in Tiers, NEW u \in Tiers, NEW floor \in Tiers,
           AtLeast(u, t), AtLeast(t, floor)
    PROVE  AtLeast(u, floor)
<1>1. \A v \in Tiers : TierRank(v) \in Int
  BY TierRanks DEF Tiers
<1> QED BY <1>1 DEF AtLeast

(* Of two that were accepted with one id, neither came first.               *)
LEMMA AcceptedOnce ==
    ASSUME NEW asked \in Seq(Capabilities(STRING)),
           NEW i \in DOMAIN asked, NEW j \in DOMAIN asked,
           Accepted(asked, i), Accepted(asked, j), asked[i].id = asked[j].id
    PROVE  i = j
<1>1. ASSUME NEW k \in DOMAIN asked, NEW l \in DOMAIN asked,
             Accepted(asked, k), Accepted(asked, l), asked[k].id = asked[l].id
      PROVE  ~(k < l)
  <2> SUFFICES ASSUME k < l PROVE FALSE
    OBVIOUS
  <2>1. k \in 1..l - 1
    OBVIOUS
  <2> QED BY <1>1, <2>1 DEF Accepted
<1>2. i \in Int /\ j \in Int
  OBVIOUS
<1>3. ~(i < j) /\ ~(j < i)
  BY <1>1
<1> QED BY <1>2, <1>3

(* Nothing that is accepted has anything wrong with it, or gives way. *)
LEMMA AcceptedIsRight ==
    ASSUME NEW c \in Capabilities(STRING), CheckCapability(c) = {}
    PROVE  /\ c.class = "safety" => c.onAbsent = "refuse"
           /\ c.floor \in Tiers
<1>1. c.onAbsent \in Dispositions /\ c.floor \in Tiers
  BY DEF Capabilities
<1>2. "safety degrades" \in Invalids
  BY DEF Invalids
<1>3. "safety degrades" \notin CheckCapability(c)
  OBVIOUS
<1>4. ~(c.class = "safety" /\ c.onAbsent = "degrade")
  BY <1>2, <1>3 DEF CheckCapability
<1> QED BY <1>1, <1>4 DEF Dispositions

(* Whatever is registered, in any order: the registry holds one meaning of  *)
(* an id, and what it offers grows with the tier (Registry::register).      *)
LEMMA RegistriesAreSound == RegistryIsSound
<1> SUFFICES ASSUME NEW asked \in Registrations
             PROVE  LET held == Registered(asked)
                    IN  /\ \A c, d \in held : c.id = d.id => c = d
                        /\ \A c \in held : c.class = "safety" => c.onAbsent = "refuse"
                        /\ ValidateRegistry(held) = {}
                        /\ \A t, u \in Tiers : AtLeast(u, t) =>
                              AvailableAt(held, {t}) \subseteq AvailableAt(held, {u})
  BY DEF RegistryIsSound
<1> DEFINE held == Registered(asked)
<1>1. asked \in Seq(Capabilities(STRING))
  BY RegistrationsAssumption
<1>2. \A c \in held : \E i \in DOMAIN asked : c = asked[i] /\ Accepted(asked, i)
  BY DEF Registered
<1>3. \A c \in held : c \in Capabilities(STRING) /\ CheckCapability(c) = {}
  BY <1>1, <1>2 DEF Accepted
<1> HIDE DEF held
<1>4. \A c, d \in held : c.id = d.id => c = d
  BY <1>1, <1>2, AcceptedOnce
<1>5. \A c \in held : c.class = "safety" => c.onAbsent = "refuse"
  BY <1>3, AcceptedIsRight
<1>6. ValidateRegistry(held) = {}
  BY <1>3 DEF ValidateRegistry
<1>7. ASSUME NEW t \in Tiers, NEW u \in Tiers, AtLeast(u, t)
      PROVE  AvailableAt(held, {t}) \subseteq AvailableAt(held, {u})
  <2>1. ASSUME NEW id \in AvailableAt(held, {t})
        PROVE  id \in AvailableAt(held, {u})
    <3>1. PICK c \in held : id = c.id /\ AtLeast(t, c.floor)
      BY <2>1 DEF AvailableAt, TierSatisfies
    <3>2. AtLeast(u, c.floor)
      BY <1>3, <1>7, <3>1, AcceptedIsRight, HigherReaches
    <3> QED BY <3>1, <3>2 DEF AvailableAt, TierSatisfies
  <2> QED BY <2>1
<1> QED BY <1>4, <1>5, <1>6, <1>7 DEF held

(* A node that reads as a number is one. *)
LEMMA IntegersAreRead ==
    ASSUME NEW m, NEW dir, NEW node, ReadInteger(m, dir, node).why = "none"
    PROVE  /\ FileAt(m, NodeOf(dir, node)).is = "number"
           /\ ReadInteger(m, dir, node).n = FileAt(m, NodeOf(dir, node)).n
<1> DEFINE f == FileAt(m, NodeOf(dir, node))
<1>1. ReadInteger(m, dir, node) \in {[why |-> "missing"], [why |-> "unparseable"]}
        \/ ReadInteger(m, dir, node) = [why |-> "none", n |-> f.n]
  BY Zenon DEF ReadInteger
<1>2. ~(ReadInteger(m, dir, node) \in {[why |-> "missing"], [why |-> "unparseable"]})
  OBVIOUS
<1>3. CASE f.is \notin {"text", "number"}
  <2>1. ReadInteger(m, dir, node) = [why |-> "missing"]
    BY <1>3, Zenon DEF ReadInteger
  <2> QED BY <1>2, <2>1
<1>4. CASE f.is = "text"
  <2>1. f.is \in {"text", "number"} /\ f.is # "number"
    BY <1>4
  <2>2. ReadInteger(m, dir, node) = [why |-> "unparseable"]
    BY <1>4, <2>1, Zenon DEF ReadInteger
  <2> QED BY <1>2, <2>2
<1> QED BY <1>1, <1>2, <1>3, <1>4

(* The nodes that are needed, and the cell's temperature among them. *)
LEMMA NeededNodes == DOMAIN Needed = 1..7 /\ Needed[4] = "temp"
  BY DEF Needed, Nodes

(* A cell that is read at all was read node by node. *)
LEMMA CellsAreRead ==
    ASSUME NEW m, NEW dir, ReadBattery(m, dir) # NoReading
    PROVE  /\ \A i \in DOMAIN Needed : FileAt(m, NodeOf(dir, Needed[i])).is = "number"
           /\ FileAt(m, NodeOf(dir, "temp")).is = "number"
           /\ ReadBattery(m, dir).temp = FileAt(m, NodeOf(dir, "temp")).n
<1>1. ReadErrors(m, dir) = {}
  BY DEF ReadBattery
<1>2. \A i \in DOMAIN Needed : ReadInteger(m, dir, Needed[i]).why = "none"
  BY <1>1 DEF ReadErrors
<1>3. ReadInteger(m, dir, "temp").why = "none"
  BY <1>2, NeededNodes
<1>4. ReadBattery(m, dir).temp = ReadInteger(m, dir, "temp").n
  BY <1>1 DEF ReadBattery
<1> QED BY <1>2, <1>3, <1>4, IntegersAreRead

(* Below a threshold in whole degrees, below it in tenths, the division     *)
(* rounding toward nought on either side of it.                             *)
LEMMA CelsiusBelow ==
    ASSUME NEW n \in Int, NEW t \in Int, ToCelsius(n) < t
    PROVE  n < 10 * t
<1>1. CASE n >= 0
  <2>1. n \div 10 < t
    BY <1>1 DEF ToCelsius
  <2> QED BY <1>1, <2>1
<1>2. CASE n < 0
  <2>1. -((-n) \div 10) < t
    BY <1>2 DEF ToCelsius
  <2> QED BY <1>2, <2>1
<1> QED BY <1>1, <1>2

(* The thresholds are whole degrees. *)
LEMMA ThresholdsAreDegrees ==
    WarnTemp \in Int /\ CriticalTemp \in Int /\ HardStopTemp \in Int
  BY ThresholdsAssumption

(* The best level, for a cell that was read, below the first threshold. *)
LEMMA NormalIsCool ==
    ASSUME NEW c, c.temp \in Int, ObservedLevel(c) = Normal
    PROVE  c # NoReading /\ c.temp < 10 * WarnTemp
<1>1. c # NoReading
  BY DEF ObservedLevel, Normal, Protect
<1>2. Escalate([NewGovernor EXCEPT !.failures = 0], LevelFor(c)).level = Normal
  BY <1>1 DEF ObservedLevel, Observe
<1>3. LevelFor(c) \in {Normal, Derated, Protect, Halt}
  BY DEF LevelFor
<1>4. LevelFor(c) = Normal
  BY <1>2, <1>3 DEF Escalate, NewGovernor, Normal, Derated, Protect, Halt
<1>5. ~(ToCelsius(c.temp) >= WarnTemp)
  BY <1>4, ThresholdsAssumption DEF LevelFor, Normal, Derated, Protect, Halt
<1>6. ToCelsius(c.temp) \in Int
  BY DEF ToCelsius
<1> QED BY <1>1, <1>5, <1>6, ThresholdsAreDegrees, CelsiusBelow

(* What the labels weigh. *)
LEMMA Weights ==
    ASSUME NEW because
    PROVE  /\ Weight(Verified(because)) = Protected
           /\ Weight(Unverified(because)) = NotVerified
           /\ Weight(Failed(because)) = Unsafe
<1>1. /\ Verified(because).label = "VERIFIED"
      /\ Unverified(because).label = "UNVERIFIED"
      /\ Failed(because).label = "FAILED"
  BY DEF Verified, Unverified, Failed
<1> QED BY <1>1, Zenon DEF Weight

(* Every finding weighs something. *)
LEMMA FindingsWeigh ==
    ASSUME NEW finding, NEW b, finding \in {Verified(b), Unverified(b), Failed(b)}
    PROVE  Weight(finding) \in Overall
<1>1. Protected \in Overall /\ NotVerified \in Overall /\ Unsafe \in Overall
  BY DEF Overall, Protected, NotVerified, Unsafe
<1> QED BY <1>1, Weights

(* The headline is the worst row's. *)
LEMMA OverallIsTheWorst ==
    ASSUME NEW rows,
           \A i \in DOMAIN rows : Weight(rows[i].finding) \in Overall
    PROVE  /\ (\E i \in DOMAIN rows : Weight(rows[i].finding) = Unsafe)
                => OverallOf(rows) = Unsafe
           /\ ((\A i \in DOMAIN rows : Weight(rows[i].finding) # Unsafe)
                 /\ \E i \in DOMAIN rows : Weight(rows[i].finding) = NotVerified)
                => OverallOf(rows) = NotVerified
<1> DEFINE S == {Weight(rows[k].finding) : k \in DOMAIN rows}
<1>1. S \subseteq {0, 1, 2}
  BY DEF Overall, Protected, Unsafe
<1>2. OverallOf(rows) = Max(S)
  BY DEF OverallOf
<1>3. ASSUME NEW i \in DOMAIN rows, Weight(rows[i].finding) = Unsafe
      PROVE  OverallOf(rows) = Unsafe
  <2>1. 2 \in S
    BY <1>3 DEF Unsafe
  <2> HIDE DEF S
  <2>2. \A w \in S : (\A v \in S : w >= v) <=> w = 2
    BY <1>1, <2>1
  <2> QED BY <1>2, <2>1, <2>2 DEF Max, Unsafe
<1>4. ASSUME \A i \in DOMAIN rows : Weight(rows[i].finding) # Unsafe,
             NEW i \in DOMAIN rows, Weight(rows[i].finding) = NotVerified
      PROVE  OverallOf(rows) = NotVerified
  <2>1. 1 \in S /\ 2 \notin S
    BY <1>4 DEF Unsafe, NotVerified
  <2> HIDE DEF S
  <2>2. \A w \in S : (\A v \in S : w >= v) <=> w = 1
    BY <1>1, <2>1
  <2> QED BY <1>2, <2>1, <2>2 DEF Max, NotVerified
<1> QED BY <1>3, <1>4

(* The exit code is the headline's. *)
LEMMA ExitCodes ==
    /\ ExitCode(NotVerified) = ExitUnverified
    /\ ExitCode(Unsafe) = ExitUnsafe
<1>1. NotVerified # Protected /\ Unsafe # Protected /\ Unsafe # NotVerified
  BY DEF Unsafe, Protected, NotVerified
<1> QED BY <1>1, Zenon DEF ExitCode

(* The ceiling's row is never more than a claim. *)
LEMMA CeilingIsClaimed ==
    ASSUME NEW m, NEW dir, NEW hosted \in BOOLEAN, NEW g
    PROVE  \E because : CeilingRow(m, dir, hosted, g) = Unverified(because)
<1>1. CASE hosted
  <2>1. CeilingRow(m, dir, hosted, g) = Unverified(HostedCeiling(g))
    BY <1>1, Zenon DEF CeilingRow
  <2> QED BY <2>1
<1>2. CASE ~hosted /\ ReadBattery(m, dir) = NoReading
  <2>1. CeilingRow(m, dir, hosted, g) = Unverified("unreadable cell")
    BY <1>2, Zenon DEF CeilingRow
  <2> QED BY <2>1
<1>3. CASE ~hosted /\ ReadBattery(m, dir) # NoReading
  BY <1>3, Zenon DEF CeilingRow
<1> QED BY <1>1, <1>2, <1>3

(* The rows of the panel `status` prints. *)
LEMMA StatusRows ==
    ASSUME NEW m, NEW env
    PROVE  LET rows    == StatusPanel(m, env)
               verdict == Detect(m).verdict
               guest   == UnderAHost(verdict)
               cell    == ReadBattery(m, Supply)
           IN  /\ DOMAIN rows = 1..5
               /\ rows[1].finding = TierRow(verdict)
               /\ rows[2].finding = MechanismRow(guest, DetectMechanism(m, Supply))
               /\ \E because : rows[3].finding = Unverified(because)
               /\ rows[4].finding = GovernorRow(guest, MaxLevel(ObservedLevel(cell), FloorOf(haltRecord)))
               /\ rows[5].finding = ReserveRow(guest, ~guest /\ cell # NoReading)
<1> DEFINE rows     == StatusPanel(m, env)
           verdict  == Detect(m).verdict
           guest    == UnderAHost(verdict)
           cell     == ReadBattery(m, Supply)
           charging == MechanismRow(guest, DetectMechanism(m, Supply))
           ceiling  == CeilingRow(m, Supply, guest, GuestView(env))
           governed == GovernorRow(guest, MaxLevel(ObservedLevel(cell), FloorOf(haltRecord)))
           reserved == ReserveRow(guest, ~guest /\ cell # NoReading)
           first    == Row("device tier", TierRow(verdict))
           second   == Row("charge mechanism", charging)
           third    == Row("charge ceiling", ceiling)
           fourth   == Row("battery governor", governed)
           fifth    == Row("outage reserve", reserved)
<1>1. rows = <<first, second, third, fourth, fifth>>
  BY Zenon DEF StatusPanel, ObservedPanel, Assemble, BuildPanel
<1>2. /\ first.finding = TierRow(verdict) /\ second.finding = charging
      /\ third.finding = ceiling /\ fourth.finding = governed /\ fifth.finding = reserved
  BY Zenon DEF Row
<1>3. \E because : ceiling = Unverified(because)
  <2>1. guest \in BOOLEAN
    BY DEF UnderAHost
  <2> QED BY <2>1, CeilingIsClaimed
<1> HIDE DEF first, second, third, fourth, fifth, rows
<1>4. /\ DOMAIN rows = 1..5 /\ rows[1] = first /\ rows[2] = second
      /\ rows[3] = third /\ rows[4] = fourth /\ rows[5] = fifth
  BY <1>1
<1>5. /\ DOMAIN rows = 1..5
      /\ rows[1].finding = TierRow(verdict) /\ rows[2].finding = charging
      /\ rows[3].finding = ceiling
      /\ rows[4].finding = governed /\ rows[5].finding = reserved
  BY <1>2, <1>4, Zenon
<1> HIDE DEF ceiling, charging, governed, reserved
<1>6. \E because : rows[3].finding = Unverified(because)
  BY <1>3, <1>5, Zenon
<1> QED BY <1>5, <1>6, Zenon DEF rows, charging, governed, reserved

(* Each of them weighs something, and the ceiling's a doubt. *)
LEMMA StatusWeighs ==
    ASSUME NEW m, NEW env
    PROVE  LET rows == StatusPanel(m, env)
           IN  /\ \A i \in DOMAIN rows : Weight(rows[i].finding) \in Overall
               /\ 3 \in DOMAIN rows /\ Weight(rows[3].finding) = NotVerified
<1> DEFINE rows    == StatusPanel(m, env)
           verdict == Detect(m).verdict
           guest   == UnderAHost(verdict)
<1>1. /\ DOMAIN rows = 1..5
      /\ \E b : rows[1].finding \in {Verified(b), Unverified(b), Failed(b)}
      /\ \E b : rows[2].finding \in {Verified(b), Unverified(b), Failed(b)}
      /\ \E b : rows[3].finding = Unverified(b)
      /\ \E b : rows[4].finding \in {Verified(b), Unverified(b), Failed(b)}
      /\ \E b : rows[5].finding \in {Verified(b), Unverified(b), Failed(b)}
  <2> DEFINE mechanism == DetectMechanism(m, Supply)
             level     == MaxLevel(ObservedLevel(ReadBattery(m, Supply)), FloorOf(haltRecord))
             backed    == ~guest /\ ReadBattery(m, Supply) # NoReading
  <2>1. /\ DOMAIN rows = 1..5
        /\ rows[1].finding = TierRow(verdict)
        /\ rows[2].finding = MechanismRow(guest, mechanism)
        /\ \E b : rows[3].finding = Unverified(b)
        /\ rows[4].finding = GovernorRow(guest, level)
        /\ rows[5].finding = ReserveRow(guest, backed)
    BY StatusRows, Zenon
  <2> HIDE DEF rows, mechanism, level, backed, guest, verdict
  <2>2. \E b : rows[1].finding \in {Verified(b), Unverified(b), Failed(b)}
    BY <2>1 DEF TierRow
  <2>3. \E b : rows[2].finding \in {Verified(b), Unverified(b), Failed(b)}
    BY <2>1 DEF MechanismRow
  <2>4. \E b : rows[4].finding \in {Verified(b), Unverified(b), Failed(b)}
    BY <2>1 DEF GovernorRow
  <2>5. \E b : rows[5].finding \in {Verified(b), Unverified(b), Failed(b)}
    BY <2>1 DEF ReserveRow
  <2> QED BY <2>1, <2>2, <2>3, <2>4, <2>5, Zenon
<1> HIDE DEF rows
<1>2. \A i \in 1..5 : i = 1 \/ i = 2 \/ i = 3 \/ i = 4 \/ i = 5
  OBVIOUS
<1>3. \A i \in DOMAIN rows : Weight(rows[i].finding) \in Overall
  BY <1>1, <1>2, FindingsWeigh
<1>4. 3 \in DOMAIN rows /\ Weight(rows[3].finding) = NotVerified
  BY <1>1, Weights
<1> QED BY <1>3, <1>4 DEF rows

(* A device that is its own host is called better than unsafe only when     *)
(* nothing it must have is missing (report::observed, Panel::build,         *)
(* exit_code).                                                              *)
LEMMA PanelsAreEarned ==
    ASSUME NEW m \in Machines \ Guests
    PROVE  PanelIsEarned(m, StatusExit(m, NoStatement))
<1> DEFINE cell      == ReadBattery(m, Supply)
           level     == MaxLevel(ObservedLevel(cell), FloorOf(haltRecord))
           mechanism == DetectMechanism(m, Supply)
           rows      == StatusPanel(m, NoStatement)
<1>1. ~UnderAHost(Detect(m).verdict)
  BY DEF Guests
<1>2. SUFFICES ASSUME \A i \in DOMAIN rows : Weight(rows[i].finding) # Unsafe
      PROVE  /\ haltRecord = "clear"
             /\ \A i \in DOMAIN Needed : FileAt(m, NodeOf(Supply, Needed[i])).is = "number"
             /\ FileAt(m, NodeOf(Supply, "temp")).n < 10 * WarnTemp
             /\ \E k \in Kinds : Exists(m, NodeOf(Supply, ControlNode(k)))
  <2>1. ASSUME NEW i \in DOMAIN rows, Weight(rows[i].finding) = Unsafe
        PROVE  StatusExit(m, NoStatement) = ExitUnsafe
    BY <2>1, StatusWeighs, OverallIsTheWorst, ExitCodes DEF StatusExit
  <2> QED BY <2>1 DEF PanelIsEarned
<1>3. /\ 2 \in DOMAIN rows /\ 4 \in DOMAIN rows
      /\ rows[2].finding = MechanismRow(UnderAHost(Detect(m).verdict), mechanism)
      /\ rows[4].finding = GovernorRow(UnderAHost(Detect(m).verdict), level)
  BY StatusRows
<1> HIDE DEF level, mechanism, rows
<1>7. /\ Weight(rows[2].finding) # Unsafe
      /\ Weight(rows[4].finding) # Unsafe
  BY <1>2, <1>3
<1>8. level = Normal
  BY <1>1, <1>3, <1>7, Weights DEF GovernorRow
<1>9. mechanism # NoMechanism
  BY <1>1, <1>3, <1>7, Weights DEF MechanismRow
<1>10. haltRecord = "clear" /\ ObservedLevel(cell) = Normal
  <2>1. FloorOf(haltRecord) \in {Normal, Halt} /\ (FloorOf(haltRecord) = Normal => haltRecord = "clear")
    BY DEF FloorOf, Normal, Halt
  <2>2. ObservedLevel(cell) \in 0..3
    <3>1. LevelFor(cell) \in {Normal, Derated, Protect, Halt}
      BY DEF LevelFor
    <3> HIDE DEF cell
    <3> QED BY <3>1 DEF ObservedLevel, Observe, Escalate, NewGovernor, Normal, Derated, Protect, Halt
  <2> HIDE DEF cell
  <2> QED BY <1>8, <2>1, <2>2 DEF level, MaxLevel, Normal, Halt
<1>11. cell # NoReading
  BY <1>10 DEF ObservedLevel, Normal, Protect
<1>12. /\ \A i \in DOMAIN Needed : FileAt(m, NodeOf(Supply, Needed[i])).is = "number"
       /\ FileAt(m, NodeOf(Supply, "temp")).is = "number"
       /\ cell.temp = FileAt(m, NodeOf(Supply, "temp")).n
  BY <1>11, CellsAreRead
<1>13. cell.temp \in Int
  BY <1>12, MachinesAssumption DEF FileAt, Missing
<1>14. cell.temp < 10 * WarnTemp
  BY <1>10, <1>13, NormalIsCool
<1>15. \E k \in Kinds : Exists(m, NodeOf(Supply, ControlNode(k)))
  <2> DEFINE there == {i \in DOMAIN ProbeOrder : Exists(m, NodeOf(Supply, ControlNode(ProbeOrder[i])))}
  <2>1. there # {}
    BY <1>9 DEF mechanism, DetectMechanism
  <2>2. PICK i \in DOMAIN ProbeOrder : Exists(m, NodeOf(Supply, ControlNode(ProbeOrder[i])))
    BY <2>1
  <2>3. \A j \in DOMAIN ProbeOrder : ProbeOrder[j] \in Kinds
    BY DEF ProbeOrder, Kinds
  <2> QED BY <2>2, <2>3
<1> QED BY <1>10, <1>12, <1>14, <1>15

(* The verdicts `status` exits with. *)
StatusPromisesNothing ==
    \A m \in Machines, env \in Statements :
        /\ StatusExit(m, env) \in {ExitUnverified, ExitUnsafe}
        /\ m \in Guests => StatusExit(m, env) = ExitUnverified

(* `status` calls no device protected, since it writes no ceiling; and a    *)
(* guest, whatever its host says and whatever stands on record, neither     *)
(* protected nor unsafe: it sees no cell (report::observed, ceiling_row,    *)
(* Panel::overall, exit_code).                                              *)
THEOREM StatusIsNoPromise == MCSpec => []StatusPromisesNothing
<1>1. ASSUME NEW m \in Machines, NEW env \in Statements
      PROVE  StatusExit(m, env) \in {ExitUnverified, ExitUnsafe}
  <2>1. OverallOf(StatusPanel(m, env)) \in {NotVerified, Unsafe}
    BY StatusWeighs, OverallIsTheWorst
  <2> QED BY <2>1, ExitCodes DEF StatusExit
<1>2. ASSUME NEW m \in Guests, NEW env \in Statements
      PROVE  StatusExit(m, env) = ExitUnverified
  <2> DEFINE rows == StatusPanel(m, env)
  <2>1. UnderAHost(Detect(m).verdict) /\ Detect(m).verdict.is = "established"
    BY DEF Guests, UnderAHost, Established
  <2>2. /\ DOMAIN rows = 1..5
        /\ \E b : rows[1].finding = Verified(b)
        /\ \E b : rows[2].finding = Unverified(b)
        /\ \E b : rows[3].finding = Unverified(b)
        /\ \E b : rows[4].finding = Unverified(b)
        /\ \E b : rows[5].finding = Unverified(b)
    BY <2>1, StatusRows, Zenon DEF TierRow, MechanismRow, GovernorRow, ReserveRow
  <2> HIDE DEF rows
  <2>3. \A i \in 1..5 : i = 1 \/ i = 2 \/ i = 3 \/ i = 4 \/ i = 5
    OBVIOUS
  <2>4. \A i \in DOMAIN rows : Weight(rows[i].finding) \in {Protected, NotVerified}
    BY <2>2, <2>3, Weights
  <2>5. \A i \in DOMAIN rows : Weight(rows[i].finding) # Unsafe
    BY <2>4 DEF Protected, NotVerified, Unsafe
  <2>6. OverallOf(rows) = NotVerified
    BY <2>5, StatusWeighs, OverallIsTheWorst DEF rows
  <2> QED BY <2>6, ExitCodes DEF StatusExit, rows
<1>3. StatusPromisesNothing
  BY <1>1, <1>2 DEF StatusPromisesNothing
<1> QED BY <1>3, PTL

(* ThermalClass, lightest first. *)
LEMMA ClassRanks ==
    /\ Rank("idle") = 1
    /\ Rank("light") = 2
    /\ Rank("sustained") = 3
    /\ Rank("heavy") = 4
<1>1. DOMAIN ThermalClasses = 1..4
  BY DEF ThermalClasses
<1>2. /\ ThermalClasses[1] = "idle" /\ ThermalClasses[2] = "light"
      /\ ThermalClasses[3] = "sustained" /\ ThermalClasses[4] = "heavy"
  BY DEF ThermalClasses
<1>3. \A i \in 1..4 : i = 1 \/ i = 2 \/ i = 3 \/ i = 4
  OBVIOUS
<1>4. 1 \in 1..4 /\ 2 \in 1..4 /\ 3 \in 1..4 /\ 4 \in 1..4
  OBVIOUS
<1>5. \A i \in 1..4 : /\ ThermalClasses[i] = "idle" <=> i = 1
                      /\ ThermalClasses[i] = "light" <=> i = 2
                      /\ ThermalClasses[i] = "sustained" <=> i = 3
                      /\ ThermalClasses[i] = "heavy" <=> i = 4
  BY <1>2, <1>3
<1>6. Rank("idle") = 1
  BY <1>1, <1>4, <1>5 DEF Rank
<1>7. Rank("light") = 2
  BY <1>1, <1>4, <1>5 DEF Rank
<1>8. Rank("sustained") = 3
  BY <1>1, <1>4, <1>5 DEF Rank
<1>9. Rank("heavy") = 4
  BY <1>1, <1>4, <1>5 DEF Rank
<1> QED BY <1>6, <1>7, <1>8, <1>9

(* One reading is the whole history. *)
LEMMA OneReading ==
    ASSUME NEW t \in Int
    PROVE  ObserveCelsius(NoHistory, t).worst = {t}
<1>1. NoHistory.worst \cup {t} = {t}
  BY DEF NoHistory
<1>2. Max({t}) = t
  BY DEF Max
<1> QED BY <1>1, <1>2 DEF ObserveCelsius

(* The class of one reading, and the thresholds it is below of. *)
LEMMA ClassesAreEarned ==
    ASSUME NEW t \in Int, NEW class \in ClassOf(ObserveCelsius(NoHistory, t))
    PROVE  /\ class \in {"idle", "light", "sustained", "heavy"}
           /\ class # "idle" => t < HardStopTemp
           /\ class \in {"sustained", "heavy"} => t < CriticalTemp
           /\ class = "heavy" => t < WarnTemp
<1>1. class = CASE t >= HardStopTemp -> "idle"
                [] t >= CriticalTemp /\ t < HardStopTemp -> "light"
                [] t >= WarnTemp /\ t < CriticalTemp -> "sustained"
                [] OTHER -> "heavy"
  <2>1. PICK worst \in ObserveCelsius(NoHistory, t).worst :
          class = CASE worst >= HardStopTemp -> "idle"
                    [] worst >= CriticalTemp /\ worst < HardStopTemp -> "light"
                    [] worst >= WarnTemp /\ worst < CriticalTemp -> "sustained"
                    [] OTHER -> "heavy"
    BY Zenon DEF ClassOf
  <2>2. worst = t
    BY <2>1, OneReading
  <2> QED BY <2>1, <2>2, Zenon
<1>2. /\ WarnTemp < CriticalTemp /\ CriticalTemp < HardStopTemp
      /\ WarnTemp \in Int /\ CriticalTemp \in Int /\ HardStopTemp \in Int
  BY ThresholdsAssumption
<1>3. CASE t >= HardStopTemp
  <2>1. ~(t < HardStopTemp) /\ ~(t < CriticalTemp)
    BY <1>2, <1>3
  <2>2. class = "idle"
    BY <1>1, <1>3, <2>1, Zenon
  <2> QED BY <2>2
<1>4. CASE t >= CriticalTemp /\ t < HardStopTemp
  <2>1. ~(t >= HardStopTemp) /\ ~(t < CriticalTemp)
    BY <1>2, <1>4
  <2>2. class = "light"
    BY <1>1, <1>4, <2>1, Zenon
  <2> QED BY <1>4, <2>2
<1>5. CASE t >= WarnTemp /\ t < CriticalTemp
  <2>1. ~(t >= HardStopTemp) /\ ~(t >= CriticalTemp) /\ t < HardStopTemp
    BY <1>2, <1>5
  <2>2. class = "sustained"
    BY <1>1, <1>5, <2>1, Zenon
  <2> QED BY <1>5, <2>1, <2>2
<1>6. CASE t < WarnTemp
  <2>1. /\ ~(t >= HardStopTemp) /\ ~(t >= CriticalTemp) /\ ~(t >= WarnTemp)
        /\ t < HardStopTemp /\ t < CriticalTemp
    BY <1>2, <1>6
  <2>2. class = "heavy"
    BY <1>1, <1>6, <2>1, Zenon
  <2> QED BY <1>6, <2>1, <2>2
<1> QED BY <1>2, <1>3, <1>4, <1>5, <1>6

(* A number that has so many mebibytes has their kibibytes. *)
LEMMA Mebibytes ==
    ASSUME NEW n \in Int, NEW need \in Nat, ~(n \div 1024 < need)
    PROVE  n >= 1024 * need
  OBVIOUS

(* What the entries ask for. *)
LEMMA Asked ==
    ASSUME NEW i \in DOMAIN Entries
    PROVE  /\ Entries[i].envelope.memory \in Nat
           /\ Entries[i].envelope.storage \in Nat
           /\ Entries[i].envelope.thermal \in {"idle", "light", "sustained", "heavy"}
<1>1. DOMAIN Entries = 1..6
  BY DEF Entries
<1>2. i = 1 \/ i = 2 \/ i = 3 \/ i = 4 \/ i = 5 \/ i = 6
  BY <1>1
<1>3. \E id, floor : \E memory, storage \in Nat, thermal \in {"idle", "light", "sustained", "heavy"} :
         Entries[i] = Entry(id, floor, Envelope(memory, storage, thermal))
  BY <1>2 DEF Entries
<1> QED BY <1>3 DEF Entry, Envelope

(* A budget an entry is offered for: all of it was measured, and is enough. *)
LEMMA OffersFit ==
    ASSUME NEW entry, NEW budget, Told(entry, budget) = "offered"
    PROVE  /\ budget.tier # {}
           /\ \A need \in {"memory", "storage", "thermal"} :
                 budget[need] # {} /\ ~Short(entry.envelope, budget, need)
<1>1. Judge(entry, budget) = {}
  <2>1. CASE \E r \in Judge(entry, budget) : r.is = "too small"
    <3>1. Judge(entry, budget) # {}
      BY <2>1
    <3>2. Told(entry, budget) = "does not fit"
      BY <2>1, <3>1, Zenon DEF Told
    <3> QED BY <3>2
  <2>2. CASE Judge(entry, budget) # {} /\ ~(\E r \in Judge(entry, budget) : r.is = "too small")
    <3>1. Told(entry, budget) = "cannot be told"
      BY <2>2, Zenon DEF Told
    <3> QED BY <3>1
  <2> QED BY <2>1, <2>2
<1>2. budget.tier # {}
  <2> SUFFICES ASSUME budget.tier = {} PROVE FALSE
    OBVIOUS
  <2>1. Judge(entry, budget) = {TierUnknown(entry.floor)}
    BY Zenon DEF Judge
  <2> QED BY <1>1, <2>1
<1>3. TierSatisfies(budget.tier, entry.floor)
  <2> SUFFICES ASSUME ~TierSatisfies(budget.tier, entry.floor) PROVE FALSE
    OBVIOUS
  <2>1. Judge(entry, budget) = {TooSmall("tier")}
    BY <1>2, Zenon DEF Judge
  <2> QED BY <1>1, <2>1
<1>4. Judge(entry, budget) =
         IF Shortfalls(entry.envelope, budget) # {}
         THEN {TooSmall(Shortfall(entry.envelope, budget))}
         ELSE IF Unmeasured(budget) # {} THEN {ResourcesUnknown(Unmeasured(budget))} ELSE {}
  BY <1>2, <1>3, Zenon DEF Judge
<1>5. Shortfalls(entry.envelope, budget) = {} /\ Unmeasured(budget) = {}
  BY <1>1, <1>4
<1>6. \A need \in {"memory", "storage", "thermal"} : budget[need] # {}
  BY <1>5 DEF Unmeasured
<1>7. \A i \in DOMAIN Requirements : ~Short(entry.envelope, budget, Requirements[i])
  BY <1>5 DEF Shortfalls
<1>8. \A need \in {"memory", "storage", "thermal"} : \E i \in DOMAIN Requirements : Requirements[i] = need
  <2>1. /\ DOMAIN Requirements = 1..3 /\ Requirements[1] = "memory"
        /\ Requirements[2] = "storage" /\ Requirements[3] = "thermal"
    BY DEF Requirements
  <2>2. 1 \in 1..3 /\ 2 \in 1..3 /\ 3 \in 1..3
    OBVIOUS
  <2> QED BY <2>1, <2>2
<1> QED BY <1>2, <1>6, <1>7, <1>8

(* What the catalogue offers was measured, all of it, and fits             *)
(* (Entry::judge, profile::budget).                                         *)
LEMMA OffersAreEarned == OfferIsEarned
<1> SUFFICES ASSUME NEW m \in Machines, NEW fs \in FileSystems,
                    NEW i \in DOMAIN CatalogueReport(m, Supply, fs).rows,
                    CatalogueReport(m, Supply, fs).rows[i].is = "offered"
             PROVE  LET wants == CatalogueReport(m, Supply, fs).rows[i].wants.envelope
                        cell  == FileAt(m, NodeOf(Supply, "temp"))
                    IN  /\ FileAt(m, MemInfo).is = "number"
                        /\ FileAt(m, MemInfo).n >= 1024 * wants.memory
                        /\ \E v \in fs : v.available * v.fragment >= 1024 * wants.storage
                        /\ cell.is = "number" /\ \A t \in TempBelow[wants.thermal] : cell.n < 10 * t
                        /\ Detect(m).verdict.is = "established"
  BY DEF OfferIsEarned
<1> DEFINE budget == BudgetOf(m, Supply, fs)
           wants  == Entries[i].envelope
           cell   == FileAt(m, NodeOf(Supply, "temp"))
<1>1. /\ i \in DOMAIN Entries
      /\ CatalogueReport(m, Supply, fs).rows[i].wants = Entries[i]
      /\ Told(Entries[i], budget) = "offered"
  BY DEF CatalogueReport
<1>2. /\ wants.memory \in Nat /\ wants.storage \in Nat
      /\ wants.thermal \in {"idle", "light", "sustained", "heavy"}
  BY <1>1, Asked
<1>3. /\ budget.tier = TierOf(Detect(m).verdict)
      /\ budget["memory"] = MemoryMb(m)
      /\ budget["storage"] = FreeSpaceMb(fs)
      /\ budget["thermal"] = ThermalClassOf(m, Supply)
  BY DEF BudgetOf, Budget
<1>4. /\ budget.tier # {}
      /\ \A need \in {"memory", "storage", "thermal"} :
            budget[need] # {} /\ ~Short(wants, budget, need)
  BY <1>1, OffersFit
<1> HIDE DEF budget, wants
<1>5. Detect(m).verdict.is = "established"
  BY <1>3, <1>4 DEF TierOf
<1>6. FileAt(m, MemInfo).is = "number" /\ FileAt(m, MemInfo).n >= 1024 * wants.memory
  <2>1. budget["memory"] # {} /\ ~Short(wants, budget, "memory")
    BY <1>4
  <2>2. FileAt(m, MemInfo).is = "number" /\ MemoryMb(m) = {FileAt(m, MemInfo).n \div 1024}
    BY <1>3, <2>1 DEF MemoryMb
  <2>3. ~(FileAt(m, MemInfo).n \div 1024 < wants.memory)
    BY <1>3, <2>1, <2>2 DEF Short
  <2>4. FileAt(m, MemInfo).n \in Int
    BY <2>2, MachinesAssumption DEF FileAt, Missing
  <2> QED BY <1>2, <2>2, <2>3, <2>4, Mebibytes
<1>7. \E v \in fs : v.available * v.fragment >= 1024 * wants.storage
  <2>1. budget["storage"] # {} /\ ~Short(wants, budget, "storage")
    BY <1>4
  <2>2. PICK v \in fs : (v.available * v.fragment) \div 1024 \in budget["storage"]
    BY <1>3, <2>1 DEF FreeSpaceMb
  <2>3. ~((v.available * v.fragment) \div 1024 < wants.storage)
    BY <2>1, <2>2 DEF Short
  <2>4. v.available * v.fragment \in Int
    BY <2>2, FileSystemsAssumption
  <2> QED BY <1>2, <2>2, <2>3, <2>4, Mebibytes
<1>8. cell.is = "number" /\ \A t \in TempBelow[wants.thermal] : cell.n < 10 * t
  <2>1. budget["thermal"] # {} /\ ~Short(wants, budget, "thermal")
    BY <1>4
  <2>2. PICK t \in CellTemp(m, Supply) : ClassOf(ObserveCelsius(NoHistory, t)) # {}
    BY <1>3, <2>1 DEF ThermalClassOf
  <2>3. PICK class \in ClassOf(ObserveCelsius(NoHistory, t)) : TRUE
    BY <2>2
  <2>4. ~WorseThan(wants.thermal, class)
    <3>1. class \in budget["thermal"]
      BY <1>3, <2>2, <2>3 DEF ThermalClassOf
    <3> QED BY <2>1, <3>1 DEF Short
  <2>5. ReadBattery(m, Supply) # NoReading /\ t = ToCelsius(ReadBattery(m, Supply).temp)
    BY <2>2 DEF CellTemp
  <2>6. cell.is = "number" /\ t = ToCelsius(cell.n)
    BY <2>5, CellsAreRead
  <2>7. cell.n \in Int
    BY <2>6, MachinesAssumption DEF FileAt, Missing
  <2>8. t \in Int
    BY <2>6, <2>7 DEF ToCelsius
  <2>9. /\ class \in {"idle", "light", "sustained", "heavy"}
        /\ class # "idle" => t < HardStopTemp
        /\ class \in {"sustained", "heavy"} => t < CriticalTemp
        /\ class = "heavy" => t < WarnTemp
    BY <2>3, <2>8, ClassesAreEarned
  <2> HIDE DEF cell
  <2>10. /\ wants.thermal = "light" => t < HardStopTemp
         /\ wants.thermal = "sustained" => t < CriticalTemp
         /\ wants.thermal = "heavy" => t < WarnTemp
    BY <2>4, <2>9, ClassRanks DEF WorseThan
  <2>11. \A u \in TempBelow[wants.thermal] : u \in Int /\ t < u
    <3>1. /\ TempBelow["idle"] = {} /\ TempBelow["light"] = {HardStopTemp}
          /\ TempBelow["sustained"] = {CriticalTemp} /\ TempBelow["heavy"] = {WarnTemp}
      BY DEF TempBelow
    <3> QED BY <1>2, <2>10, <3>1, ThresholdsAreDegrees
  <2> QED BY <2>6, <2>7, <2>11, CelsiusBelow
<1> QED BY <1>1, <1>5, <1>6, <1>7, <1>8 DEF wants

(* What a node of the device tree reads is read at one of its roots. *)
LEMMA TreesAreRead ==
    ASSUME NEW m, NEW property, ReadTree(m, property).is \in {"text", "number"}
    PROVE  \E i \in DOMAIN TreeRoots : ReadTree(m, property) = FileAt(m, NodeOf(TreeRoots[i], property))
<1> DEFINE at(i)   == FileAt(m, NodeOf(TreeRoots[i], property))
           reading == {i \in DOMAIN TreeRoots : at(i).is \in {"text", "number"}}
<1>1. CASE reading # {}
  <2>1. ReadTree(m, property) = at(Min(reading))
    BY <1>1, Zenon DEF ReadTree
  <2>2. reading \in SUBSET Nat
    BY DEF TreeRoots
  <2>3. Min(reading) \in reading
    BY <1>1, <2>2, FirstPlace
  <2> QED BY <2>1, <2>3
<1>2. CASE reading = {}
  <2>1. ReadTree(m, property) \in {Locked, Missing}
    <3>1. CASE \E i \in DOMAIN TreeRoots : at(i).is # "missing"
      <4>1. ReadTree(m, property) = Locked
        BY <1>2, <3>1, Zenon DEF ReadTree
      <4> QED BY <4>1
    <3>2. CASE ~(\E i \in DOMAIN TreeRoots : at(i).is # "missing")
      <4>1. ReadTree(m, property) = Missing
        BY <1>2, <3>2, Zenon DEF ReadTree
      <4> QED BY <4>1
    <3> QED BY <3>1, <3>2
  <2> QED BY <2>1 DEF Locked, Missing
<1> QED BY <1>1, <1>2

(* A check that matched found what the manifest declares. *)
LEMMA KernelMatched ==
    ASSUME NEW m, NEW said, CheckKernel(m, said).status = "matched"
    PROVE  SaysAny(m, OsRelease, {said.kernel})
<1> DEFINE release == FileAt(m, OsRelease)
           status  == CheckKernel(m, said).status
<1>1. CASE release.is = "text" /\ release.words # {}
  <2>1. status = IF said.kernel \in release.words THEN "matched" ELSE "differed"
    BY <1>1, Zenon DEF CheckKernel, Check
  <2> QED BY <1>1, <2>1 DEF SaysAny
<1>2. CASE ~(release.is = "text" /\ release.words # {})
  <2>1. CASE release.is = "missing"
    <3>1. status = "absent"
      BY <1>2, <2>1, Zenon DEF CheckKernel, Check
    <3> QED BY <3>1
  <2>2. CASE release.is # "missing"
    <3>1. status = "unreadable"
      BY <1>2, <2>2, Zenon DEF CheckKernel, Check
    <3> QED BY <3>1
  <2> QED BY <2>1, <2>2
<1> QED BY <1>1, <1>2

(* A matched device tree names what the manifest does. *)
LEMMA DeviceTreeMatched ==
    ASSUME NEW m, NEW said, CheckDeviceTree(m, said).status = "matched"
    PROVE  LET tree == ReadTree(m, CompatibleProperty)
           IN  tree.is = "text" /\ said.compatible \in tree.words
<1> DEFINE tree   == ReadTree(m, CompatibleProperty)
           status == CheckDeviceTree(m, said).status
<1>1. CASE tree.is = "text" /\ tree.words # {}
  <2>1. status = IF said.compatible \in tree.words THEN "matched" ELSE "differed"
    BY <1>1, Zenon DEF CheckDeviceTree, Check
  <2> QED BY <1>1, <2>1
<1>2. CASE ~(tree.is = "text" /\ tree.words # {})
  <2>1. CASE tree.is = "missing"
    <3>1. status = "absent"
      BY <1>2, <2>1, Zenon DEF CheckDeviceTree, Check
    <3> QED BY <3>1
  <2>2. CASE tree.is # "missing"
    <3>1. status = "unreadable"
      BY <1>2, <2>2, Zenon DEF CheckDeviceTree, Check
    <3> QED BY <3>1
  <2> QED BY <2>1, <2>2
<1> QED BY <1>1, <1>2

(* A matched charge voltage is near enough to the one claimed. *)
LEMMA ChargeVoltageMatched ==
    ASSUME NEW m, NEW said, CheckChargeVoltage(m, said).status = "matched"
    PROVE  LET tree == ReadTree(m, ChargeVoltage)
           IN  tree.is = "number" /\ Apart(tree.n, said["max-charge-mv"]) <= ToleranceMv
<1> DEFINE tree   == ReadTree(m, ChargeVoltage)
           status == CheckChargeVoltage(m, said).status
           near   == Apart(tree.n, said["max-charge-mv"]) <= ToleranceMv
<1>1. CASE tree.is = "number"
  <2>1. status = IF near THEN "matched" ELSE "differed"
    BY <1>1, Zenon DEF CheckChargeVoltage, Check
  <2> HIDE DEF near
  <2>2. near
    BY <2>1
  <2> QED BY <1>1, <2>2 DEF near
<1>2. CASE tree.is # "number"
  <2>1. CASE tree.is = "missing"
    <3>1. status = "absent"
      BY <1>2, <2>1, Zenon DEF CheckChargeVoltage, Check
    <3> QED BY <3>1
  <2>2. CASE tree.is # "missing"
    <3>1. status = "unreadable"
      BY <1>2, <2>2, Zenon DEF CheckChargeVoltage, Check
    <3> QED BY <3>1
  <2> QED BY <2>1, <2>2
<1> QED BY <1>1, <1>2

(* A report is verified only when every check of it matched. *)
LEMMA VerifiedMatched ==
    ASSUME NEW checks, OutcomeOf(checks) = "verified", NEW i \in DOMAIN checks
    PROVE  checks[i].status = "matched"
<1> DEFINE status == checks[i].status
<1>1. OutcomeOfStatus(status) = "verified"
  BY DEF OutcomeOf
<1>2. CASE status = "differed"
  <2>1. OutcomeOfStatus(status) = "mismatched"
    <3>1. status # "matched"
      BY <1>2
    <3> QED BY <1>2, <3>1, Zenon DEF OutcomeOfStatus
  <2> QED BY <1>1, <2>1
<1>3. CASE status # "matched" /\ status # "differed"
  <2>1. OutcomeOfStatus(status) = "unverified"
    BY <1>3, Zenon DEF OutcomeOfStatus
  <2> QED BY <1>1, <2>1
<1> QED BY <1>2, <1>3

(* image::run says all is well only of a manifest that was read and a       *)
(* device that matched it.                                                  *)
LEMMA ProtectedIsVerified ==
    ASSUME NEW m, NEW manifest, ImageReport(m, manifest).exit = ExitProtected
    PROVE  OutcomeOf(CheckImage(m, ParseManifest(manifest).said)) = "verified"
<1> DEFINE read    == ParseManifest(manifest)
           outcome == OutcomeOf(CheckImage(m, read.said))
<1>1. CASE manifest = << >> \/ read.error # NoError
  <2>1. ImageReport(m, manifest).exit = ExitUsage
    BY <1>1 DEF ImageReport
  <2> QED BY <2>1 DEF ExitUsage, ExitProtected
<1>2. CASE ~(manifest = << >> \/ read.error # NoError)
  <2> SUFFICES ASSUME outcome # "verified" PROVE FALSE
    OBVIOUS
  <2>0. outcome \in {"verified", "unverified", "mismatched"}
    BY DEF OutcomeOf
  <2>1. ASSUME outcome = "unverified" PROVE FALSE
    <3>1. outcome # "verified"
      BY <2>1
    <3>2. ImageReport(m, manifest).exit = ExitUnverified
      BY <1>2, <2>1, <3>1, Zenon DEF ImageReport
    <3> QED BY <3>2 DEF ExitUnverified, ExitProtected
  <2>2. ASSUME outcome = "mismatched" PROVE FALSE
    <3>1. outcome # "verified" /\ outcome # "unverified"
      BY <2>2
    <3>2. ImageReport(m, manifest).exit = ExitUnsafe
      BY <1>2, <2>2, <3>1, Zenon DEF ImageReport
    <3> QED BY <3>2 DEF ExitUnsafe, ExitProtected
  <2> QED BY <2>0, <2>1, <2>2
<1> QED BY <1>1, <1>2

(* The keys of a manifest. *)
LEMMA KeyPlaces ==
    /\ DOMAIN ManifestKeys = 1..5
    /\ ToSet(ManifestKeys) = {"name", "version", "kernel", "compatible", "max-charge-mv"}
    /\ \A i, j \in 1..5 : ManifestKeys[i] = ManifestKeys[j] => i = j
    /\ \A key \in ToSet(ManifestKeys) : \E i \in 1..5 : ManifestKeys[i] = key
<1>1. /\ DOMAIN ManifestKeys = 1..5
      /\ ManifestKeys[1] = "name" /\ ManifestKeys[2] = "version" /\ ManifestKeys[3] = "kernel"
      /\ ManifestKeys[4] = "compatible" /\ ManifestKeys[5] = "max-charge-mv"
  BY DEF ManifestKeys
<1>2. \A i \in 1..5 : i = 1 \/ i = 2 \/ i = 3 \/ i = 4 \/ i = 5
  OBVIOUS
<1>3. 1 \in 1..5 /\ 2 \in 1..5 /\ 3 \in 1..5 /\ 4 \in 1..5 /\ 5 \in 1..5
  OBVIOUS
<1>4. \A i, j \in 1..5 : ManifestKeys[i] = ManifestKeys[j] => i = j
  BY <1>1, <1>2
<1>5. ToSet(ManifestKeys) = {ManifestKeys[i] : i \in 1..5}
  BY <1>1, Zenon DEF ToSet
<1>6. ToSet(ManifestKeys) = {"name", "version", "kernel", "compatible", "max-charge-mv"}
  BY <1>1, <1>2, <1>3, <1>5
<1> QED BY <1>1, <1>4, <1>5, <1>6

(* A manifest's lines as they are written: the header, and each key's. *)
LEMMA RenderedManifest ==
    ASSUME NEW said
    PROVE  LET lines == RenderManifest(said)
           IN  /\ Len(lines) = 6 /\ lines # << >> /\ lines[1] = Header
               /\ \A i \in 2..6 : lines[i] = Line(ManifestKeys[i - 1], <<said[ManifestKeys[i - 1]]>>)
<1> DEFINE line(i) == Line(ManifestKeys[i], <<said[ManifestKeys[i]]>>)
           rest    == [i \in 1..5 |-> line(i)]
           lines   == RenderManifest(said)
           S       == {Header} \cup {line(i) : i \in 1..5}
<1>1. lines = <<Header>> \o rest
  BY KeyPlaces DEF RenderManifest
<1>2. <<Header>> \in Seq(S)
  OBVIOUS
<1>3. rest \in Seq(S) /\ Len(rest) = 5
  <2>1. \A i \in 1..5 : line(i) \in S
    OBVIOUS
  <2> HIDE DEF S, line
  <2> QED BY <2>1
<1>4. \A i \in 1..5 : rest[i] = line(i)
  OBVIOUS
<1> HIDE DEF line, rest, S
<1>5. Len(lines) = 6 /\ lines # << >> /\ lines[1] = Header /\ \A i \in 2..6 : lines[i] = rest[i - 1]
  <2> DEFINE top == <<Header>>
             n   == Len(top)
             l   == Len(rest)
             all == top \o rest
  <2>1. top \in Seq(S) /\ rest \in Seq(S)
    BY <1>2, <1>3
  <2>2. n = 1 /\ l = 5 /\ top[1] = Header
    BY <1>3
  <2> HIDE DEF top
  <2>3. /\ all \in Seq(S) /\ Len(all) = n + l
        /\ \A i \in 1..(n + l) : all[i] = IF i <= n THEN top[i] ELSE rest[i - n]
    BY ONLY <2>1, OneAfterAnother
  <2> HIDE DEF n, l, all
  <2>4. /\ all \in Seq(S) /\ Len(all) = 6
        /\ \A i \in 1..6 : all[i] = IF i <= 1 THEN top[i] ELSE rest[i - 1]
    <3>1. n + l = 6
      BY <2>2
    <3> QED BY <2>2, <2>3, <3>1, Zenon
  <2>5. all # << >> /\ all[1] = top[1] /\ \A i \in 2..6 : all[i] = rest[i - 1]
    <3>1. all # << >>
      <4>1. Len(all) = 6
        BY <2>4
      <4>2. Len(<< >>) = 0
        OBVIOUS
      <4> QED BY ONLY <4>1, <4>2
    <3>2. 1 \in 1..6 /\ 1 <= 1 /\ \A i \in 2..6 : i \in 1..6 /\ ~(i <= 1)
      OBVIOUS
    <3> QED BY <2>4, <3>1, <3>2
  <2>6. lines = all
    BY <1>1 DEF all, top
  <2> HIDE DEF lines
  <2> QED BY <2>2, <2>4, <2>5, <2>6
<1>6. \A i \in 2..6 : lines[i] = line(i - 1)
  <2>1. \A i \in 2..6 : i - 1 \in 1..5
    OBVIOUS
  <2> QED BY <1>4, <1>5, <2>1
<1> QED BY <1>5, <1>6, Zenon DEF lines, line

(* What a manifest that parses says: every key, one value each, and a       *)
(* figure where one is due.                                                 *)
LEMMA ParsedSays ==
    ASSUME NEW lines, ParseManifest(lines).error = NoError
    PROVE  LET said == ParseManifest(lines).said
           IN  /\ said = [key \in ToSet(ManifestKeys) |-> said[key]]
               /\ said["max-charge-mv"] \in Millivolts
               /\ NewManifest(said) = NoError
<1> DEFINE wrong     == {i \in SayingLines(lines) : LineError(lines, i) # NoError}
           fail(why) == [said |-> [k \in {} |-> ""], error |-> why]
           said      == Said(lines)
<1>1. \A why : fail(why).error = why
  OBVIOUS
<1>2. wrong = {}
  <2> SUFFICES ASSUME wrong # {} PROVE FALSE
    OBVIOUS
  <2>1. SayingLines(lines) \in SUBSET Nat
    BY DEF SayingLines
  <2>2. Min(wrong) \in wrong
    BY <2>1, FirstPlace
  <2>3. ParseManifest(lines) \in {fail("not a manifest"), fail(LineError(lines, Min(wrong)))}
    BY Zenon DEF ParseManifest
  <2>4. "not a manifest" # NoError
    BY DEF NoError
  <2> QED BY <1>1, <2>2, <2>3, <2>4
<1>3. /\ ToSet(ManifestKeys) \subseteq DOMAIN said
      /\ NewManifest(said) = NoError
      /\ ParseManifest(lines).said = said
  <2>1. ~(lines = << >> \/ lines[1] # Header)
    <3> SUFFICES ASSUME lines = << >> \/ lines[1] # Header PROVE FALSE
      OBVIOUS
    <3>1. ParseManifest(lines) = fail("not a manifest")
      BY Zenon DEF ParseManifest
    <3> QED BY <1>1, <3>1 DEF NoError
  <2>2. ToSet(ManifestKeys) \subseteq DOMAIN said
    <3> SUFFICES ASSUME ~(ToSet(ManifestKeys) \subseteq DOMAIN said) PROVE FALSE
      OBVIOUS
    <3>1. ParseManifest(lines) = fail("missing key")
      BY <1>2, <2>1, Zenon DEF ParseManifest
    <3>2. fail("missing key").error = "missing key"
      BY <1>1, Zenon
    <3>3. "missing key" # NoError
      BY DEF NoError
    <3> QED BY <3>1, <3>2, <3>3, Zenon
  <2>3. NewManifest(said) = NoError
    <3> SUFFICES ASSUME NewManifest(said) # NoError PROVE FALSE
      OBVIOUS
    <3>1. ParseManifest(lines) = fail(NewManifest(said))
      BY <1>2, <2>1, <2>2, Zenon DEF ParseManifest
    <3>2. fail(NewManifest(said)).error = NewManifest(said)
      BY <1>1, Zenon
    <3> QED BY <3>1, <3>2, Zenon
  <2>4. ParseManifest(lines) = [said |-> said, error |-> NoError]
    BY <1>2, <2>1, <2>2, <2>3, Zenon DEF ParseManifest
  <2> HIDE DEF said
  <2> QED BY <2>2, <2>3, <2>4
<1>4. \A i \in SayingLines(lines) :
         /\ KeyOf(lines[i]) \in ToSet(ManifestKeys)
         /\ KeyOf(lines[i]) = "max-charge-mv" => lines[i].values[1] \in Millivolts
  BY <1>2 DEF LineError, NoError
<1>5. DOMAIN said = {KeyOf(lines[i]) : i \in SayingLines(lines)}
  BY DEF Said
<1>6. DOMAIN said = ToSet(ManifestKeys)
  BY <1>3, <1>4, <1>5
<1>7. said = [key \in DOMAIN said |-> said[key]]
  BY DEF Said
<1>8. said["max-charge-mv"] \in Millivolts
  <2>1. "max-charge-mv" \in DOMAIN said
    BY <1>6, KeyPlaces
  <2>2. PICK i \in SayingLines(lines) : KeyOf(lines[i]) = "max-charge-mv"
    BY <1>5, <2>1
  <2> DEFINE at == CHOOSE k \in SayingLines(lines) : KeyOf(lines[k]) = "max-charge-mv"
  <2>3. at \in SayingLines(lines) /\ KeyOf(lines[at]) = "max-charge-mv"
    BY <2>2
  <2>4. said["max-charge-mv"] = lines[at].values[1]
    BY <2>1 DEF Said
  <2> QED BY <1>4, <2>3, <2>4
<1> QED BY <1>3, <1>6, <1>7, <1>8

(* A manifest that is written out reads back as it was (Manifest::render,   *)
(* Manifest::parse).                                                        *)
LEMMA ManifestReadsBack ==
    ASSUME NEW said, said = [key \in ToSet(ManifestKeys) |-> said[key]],
           said["max-charge-mv"] \in Millivolts, NewManifest(said) = NoError
    PROVE  ParseManifest(RenderManifest(said)) = [said |-> said, error |-> NoError]
<1> DEFINE lines == RenderManifest(said)
           wrong == {i \in SayingLines(lines) : LineError(lines, i) # NoError}
           fail(why) == [said |-> [k \in {} |-> ""], error |-> why]
<1>1. /\ Len(lines) = 6 /\ lines # << >> /\ lines[1] = Header
      /\ \A i \in 2..6 : lines[i] = Line(ManifestKeys[i - 1], <<said[ManifestKeys[i - 1]]>>)
  BY RenderedManifest, Zenon
<1> HIDE DEF lines
<1>2. \A i \in 2..6 : /\ i - 1 \in 1..5
                      /\ lines[i].is = "line"
                      /\ KeyOf(lines[i]) = ManifestKeys[i - 1]
                      /\ Len(lines[i].values) = 1
                      /\ lines[i].values[1] = said[ManifestKeys[i - 1]]
  <2> SUFFICES ASSUME NEW i \in 2..6
               PROVE  /\ i - 1 \in 1..5
                      /\ lines[i].is = "line"
                      /\ KeyOf(lines[i]) = ManifestKeys[i - 1]
                      /\ Len(lines[i].values) = 1
                      /\ lines[i].values[1] = said[ManifestKeys[i - 1]]
    OBVIOUS
  <2>1. i - 1 \in 1..5
    OBVIOUS
  <2> DEFINE key == ManifestKeys[i - 1]
             value == said[key]
  <2>2. lines[i] = Line(key, <<value>>)
    BY <1>1
  <2> HIDE DEF key, value
  <2>3. lines[i].is = "line" /\ lines[i].key = key /\ lines[i].values = <<value>>
    BY <2>2 DEF Line
  <2>4. Len(<<value>>) = 1 /\ <<value>>[1] = value
    OBVIOUS
  <2> QED BY <2>1, <2>3, <2>4 DEF KeyOf, key, value
<1>3. SayingLines(lines) = 2..6
  BY <1>1, <1>2 DEF SayingLines
<1>4. wrong = {}
  <2> SUFFICES ASSUME NEW i \in 2..6 PROVE LineError(lines, i) = NoError
    BY <1>3
  <2>1. KeyOf(lines[i]) \in ToSet(ManifestKeys)
    BY <1>2, KeyPlaces DEF ToSet
  <2>2. ~(Len(lines[i].values) = 0) /\ ~(Len(lines[i].values) > 1)
    <3>1. Len(lines[i].values) = 1
      BY <1>2, Zenon
    <3> QED BY ONLY <3>1
  <2>3. ~(\E j \in SayingLines(lines) : j < i /\ KeyOf(lines[j]) = KeyOf(lines[i]))
    <3> SUFFICES ASSUME NEW j \in 2..6, j < i, KeyOf(lines[j]) = KeyOf(lines[i]) PROVE FALSE
      BY <1>3
    <3>1. i - 1 \in 1..5 /\ j - 1 \in 1..5 /\ ManifestKeys[i - 1] = ManifestKeys[j - 1]
      BY <1>2
    <3>2. i - 1 = j - 1
      BY <3>1, KeyPlaces
    <3> QED BY <3>2
  <2>4. ~(KeyOf(lines[i]) = "max-charge-mv" /\ lines[i].values[1] \notin Millivolts)
    BY <1>2
  <2> QED BY <2>1, <2>2, <2>3, <2>4 DEF LineError
<1>5. Said(lines) = said
  <2>1. {KeyOf(lines[i]) : i \in SayingLines(lines)} = ToSet(ManifestKeys)
    <3>1. \A i \in 2..6 : KeyOf(lines[i]) \in ToSet(ManifestKeys)
      BY <1>2, KeyPlaces DEF ToSet
    <3>2. \A key \in ToSet(ManifestKeys) : \E i \in 2..6 : KeyOf(lines[i]) = key
      <4> SUFFICES ASSUME NEW key \in ToSet(ManifestKeys) PROVE \E i \in 2..6 : KeyOf(lines[i]) = key
        OBVIOUS
      <4>1. PICK k \in 1..5 : ManifestKeys[k] = key
        BY KeyPlaces
      <4>2. k + 1 \in 2..6 /\ (k + 1) - 1 = k
        OBVIOUS
      <4> QED BY <1>2, <4>1, <4>2
    <3> QED BY <1>3, <3>1, <3>2
  <2>2. ASSUME NEW key \in ToSet(ManifestKeys)
        PROVE  lines[CHOOSE i \in SayingLines(lines) : KeyOf(lines[i]) = key].values[1] = said[key]
    <3> DEFINE at == CHOOSE i \in SayingLines(lines) : KeyOf(lines[i]) = key
    <3>1. \E i \in SayingLines(lines) : KeyOf(lines[i]) = key
      BY <2>1
    <3>2. at \in 2..6 /\ KeyOf(lines[at]) = key
      BY <1>3, <3>1
    <3> HIDE DEF at
    <3>3. lines[at].values[1] = said[key]
      BY <1>2, <3>2
    <3> QED BY <3>3 DEF at
  <2>3. Said(lines) = [key \in ToSet(ManifestKeys) |-> said[key]]
    BY <2>1, <2>2 DEF Said
  <2> QED BY <2>3
<1>6. ToSet(ManifestKeys) \subseteq DOMAIN Said(lines)
  BY <1>5
<1>7. ParseManifest(lines) =
           IF lines = << >> \/ lines[1] # Header THEN fail("not a manifest")
           ELSE IF wrong # {} THEN fail(LineError(lines, Min(wrong)))
           ELSE IF ~(ToSet(ManifestKeys) \subseteq DOMAIN Said(lines)) THEN fail("missing key")
           ELSE IF NewManifest(Said(lines)) # NoError THEN fail(NewManifest(Said(lines)))
           ELSE [said |-> Said(lines), error |-> NoError]
  BY Zenon DEF ParseManifest
<1> HIDE DEF wrong, fail
<1>8. ParseManifest(lines) = [said |-> Said(lines), error |-> NoError]
  BY <1>1, <1>4, <1>5, <1>6, <1>7
<1> QED BY <1>5, <1>8 DEF lines

(* What `image` calls verified was read, all of it, and is what the manifest*)
(* declares (image::run, check, Report::outcome).                           *)
LEMMA MatchesAreEarned == MatchIsEarned
<1> SUFFICES ASSUME NEW m \in Machines, NEW manifest \in Manifests
             PROVE  LET read  == ParseManifest(manifest)
                        said  == read.said
                        of(p) == {FileAt(m, NodeOf(TreeRoots[i], p)) : i \in DOMAIN TreeRoots}
                    IN  /\ read.error = NoError => ParseManifest(RenderManifest(said)) = read
                        /\ ImageReport(m, manifest).exit = ExitProtected =>
                            /\ SaysAny(m, OsRelease, {said.kernel})
                            /\ \E f \in of(CompatibleProperty) : f.is = "text" /\ said.compatible \in f.words
                            /\ \E f \in of(ChargeVoltage) :
                                  f.is = "number" /\ Apart(f.n, said["max-charge-mv"]) <= ToleranceMv
  BY Zenon DEF MatchIsEarned
<1> DEFINE read  == ParseManifest(manifest)
           said  == read.said
           of(p) == {FileAt(m, NodeOf(TreeRoots[i], p)) : i \in DOMAIN TreeRoots}
<1>1. ASSUME read.error = NoError PROVE ParseManifest(RenderManifest(said)) = read
  <2>1. read = [said |-> said, error |-> NoError]
    <3>1. \E s, e : read = [said |-> s, error |-> e]
      BY DEF ParseManifest
    <3> HIDE DEF read
    <3> QED BY <1>1, <3>1
  <2>2. ParseManifest(RenderManifest(said)) = [said |-> said, error |-> NoError]
    BY <1>1, ParsedSays, ManifestReadsBack, Zenon
  <2> QED BY <2>1, <2>2, Zenon
<1>2. ASSUME ImageReport(m, manifest).exit = ExitProtected
      PROVE  /\ SaysAny(m, OsRelease, {said.kernel})
             /\ \E f \in of(CompatibleProperty) : f.is = "text" /\ said.compatible \in f.words
             /\ \E f \in of(ChargeVoltage) :
                   f.is = "number" /\ Apart(f.n, said["max-charge-mv"]) <= ToleranceMv
  <2> DEFINE checks == CheckImage(m, said)
  <2>1. OutcomeOf(checks) = "verified"
    BY <1>2, ProtectedIsVerified
  <2> HIDE DEF said
  <2>2. /\ DOMAIN checks = 1..3
        /\ checks[1] = CheckKernel(m, said)
        /\ checks[2] = CheckDeviceTree(m, said)
        /\ checks[3] = CheckChargeVoltage(m, said)
    BY DEF CheckImage
  <2> HIDE DEF checks
  <2>3. 1 \in DOMAIN checks /\ 2 \in DOMAIN checks /\ 3 \in DOMAIN checks
    BY <2>2
  <2>4. /\ CheckKernel(m, said).status = "matched"
        /\ CheckDeviceTree(m, said).status = "matched"
        /\ CheckChargeVoltage(m, said).status = "matched"
    BY <2>1, <2>2, <2>3, VerifiedMatched
  <2>5. SaysAny(m, OsRelease, {said.kernel})
    BY <2>4, KernelMatched
  <2>6. \E f \in of(CompatibleProperty) : f.is = "text" /\ said.compatible \in f.words
    <3> DEFINE tree == ReadTree(m, CompatibleProperty)
    <3>1. tree.is = "text" /\ said.compatible \in tree.words
      BY <2>4, DeviceTreeMatched
    <3>2. tree \in of(CompatibleProperty)
      BY <3>1, TreesAreRead
    <3> HIDE DEF tree, of
    <3> QED BY <3>1, <3>2
  <2>7. \E f \in of(ChargeVoltage) :
           f.is = "number" /\ Apart(f.n, said["max-charge-mv"]) <= ToleranceMv
    <3> DEFINE tree == ReadTree(m, ChargeVoltage)
    <3>1. tree.is = "number" /\ Apart(tree.n, said["max-charge-mv"]) <= ToleranceMv
      BY <2>4, ChargeVoltageMatched
    <3>2. tree \in of(ChargeVoltage)
      BY <3>1, TreesAreRead
    <3> HIDE DEF tree, of
    <3> QED BY <3>1, <3>2
  <2> QED BY <2>5, <2>6, <2>7
<1> QED BY <1>1, <1>2, Zenon

(* No command says better of a device than what it read of it: for every    *)
(* machine, platform, manifest and list of capabilities, and whatever stands*)
(* on record (report::observed, exit_code, Entry::judge, image::run,        *)
(* Registry::register).                                                     *)
LEMMA GoodWordHolds == GoodWordIsEarned
  BY RegistriesAreSound, PanelsAreEarned, OffersAreEarned, MatchesAreEarned DEF GoodWordIsEarned

(* `status`, `catalogue` and `image` say nothing good that was not read, and*)
(* a registry means one thing, in every state and for every value of the    *)
(* constants.                                                               *)
THEOREM GoodWordStands == MCSpec => []DeviceWordStands
<1>1. DeviceWordStands
  BY GoodWordHolds DEF DeviceWordStands
<1> QED BY <1>1, PTL

-----------------------------------------------------------------------------
(* Fleet. *)

States == {"pending", "in flight", "done", "drained"}

(* The plan keeps its nodes, each in one of the four states. *)
FleetInv ==
    /\ DOMAIN plan = 1..NodeCount
    /\ \A i \in 1..NodeCount : plan[i].is \in States
    /\ OneAwayAtATime

(* What a node is made says which state it is in. *)
LEMMA StateNames ==
    /\ Pending.is = "pending"
    /\ Done.is = "done"
    /\ \A t : InFlight(t).is = "in flight"
    /\ \A t : Drained(t).is = "drained"
  BY DEF Pending, Done, InFlight, Drained

(* What is overdue is drained: no node comes to wait, none that is done or  *)
(* drained changes.                                                         *)
LEMMA DrainingSettles ==
    ASSUME NEW nodes, NEW time, NEW i \in DOMAIN nodes, nodes[i].is \in States
    PROVE  LET settled == DrainOverdue(nodes, time)
           IN  /\ DOMAIN settled = DOMAIN nodes
               /\ settled[i].is \in States
               /\ settled[i].is = "pending" <=> nodes[i].is = "pending"
               /\ nodes[i].is \in {"done", "drained"} => settled[i].is \in {"done", "drained"}
  BY StateNames DEF DrainOverdue, States

(* An advance keeps the order. *)
LEMMA AdvanceKeepsOrder ==
    ASSUME FleetAssumption, FleetInv, Advances
    PROVE  FleetInv'
<1> DEFINE settled == DrainOverdue(plan, clock)
           N == 1..NodeCount
<1>1. /\ DOMAIN settled = N
      /\ \A i \in N : /\ settled[i].is \in States
                      /\ settled[i].is = "pending" <=> plan[i].is = "pending"
                      /\ plan[i].is \in {"done", "drained"} => settled[i].is \in {"done", "drained"}
  <2>1. DOMAIN settled = N BY DEF DrainOverdue, FleetInv
  <2>2. ASSUME NEW i \in N
        PROVE  /\ settled[i].is \in States
               /\ settled[i].is = "pending" <=> plan[i].is = "pending"
               /\ plan[i].is \in {"done", "drained"} => settled[i].is \in {"done", "drained"}
    BY DrainingSettles DEF FleetInv
  <2> QED BY <2>1, <2>2
<1>2. \A j \in N : \A i \in 1..(j - 1) :
        settled[j].is # "pending" => settled[i].is \in {"done", "drained"}
  <2> SUFFICES ASSUME NEW j \in N, NEW i \in 1..(j - 1), settled[j].is # "pending"
               PROVE  settled[i].is \in {"done", "drained"}
    OBVIOUS
  <2>1. NodeCount \in Nat BY DEF FleetAssumption
  <2>2. i \in N BY <2>1
  <2>3. plan[i].is \in {"done", "drained"} BY <1>1 DEF FleetInv, OneAwayAtATime
  <2> QED BY <1>1, <2>2, <2>3
<1>4. CASE AnyInFlight(settled)
  <2>1. plan' = settled BY <1>4 DEF Advances, Advance
  <2> HIDE DEF settled
  <2> QED BY <1>1, <1>2, <2>1 DEF FleetInv, OneAwayAtATime
<1>5. CASE ~AnyInFlight(settled)
  <2>1. plan' = Starting(settled, clock) BY <1>5 DEF Advances, Advance
  <2> HIDE DEF settled
  <2>2. DOMAIN plan' = N BY <2>1, <1>1 DEF Starting
  <2>3. \A i \in N : plan'[i] = IF i \in First(settled, "pending") THEN InFlight(clock) ELSE settled[i]
    BY <2>1, <1>1 DEF Starting
  <2>4. \A i \in N : plan'[i].is \in States
    <3> TAKE i \in N
    <3>1. CASE i \in First(settled, "pending") BY <3>1, <2>3, StateNames DEF States
    <3>2. CASE i \notin First(settled, "pending") BY <3>2, <2>3, <1>1
    <3> QED BY <3>1, <3>2
  <2>5. ASSUME NEW j \in N, NEW i \in 1..(j - 1), plan'[j].is # "pending"
        PROVE  plan'[i].is \in {"done", "drained"}
    <3>1. i \in N /\ i < j BY DEF FleetAssumption
    <3>2. settled[i].is \in {"done", "drained"}
      <4>1. CASE settled[j].is # "pending" BY <4>1, <1>2
      <4>2. CASE settled[j].is = "pending"
        <5>1. j \in First(settled, "pending") BY <2>3, <2>5, <4>2
        <5>2. settled[i].is # "pending" BY <5>1, <3>1, <1>1 DEF First, Which
        <5>3. settled[i].is # "in flight" BY <1>5, <3>1, <1>1 DEF AnyInFlight, Which
        <5> QED BY <5>2, <5>3, <3>1, <1>1 DEF States
      <4> QED BY <4>1, <4>2
    <3>3. i \notin First(settled, "pending") BY <3>2 DEF First, Which
    <3> QED BY <3>1, <3>2, <3>3, <2>3
  <2> QED BY <2>2, <2>4, <2>5 DEF FleetInv, OneAwayAtATime
<1> QED BY <1>4, <1>5

(* So does a return, whoever it was. *)
LEMMA ReturnKeepsOrder ==
    ASSUME FleetAssumption, FleetInv, Returns
    PROVE  FleetInv'
<1> DEFINE N == 1..NodeCount
<1>1. DOMAIN plan' = N BY DEF Returns, RecordReturned, FleetInv
<1>2. \A i \in N : plan'[i] = IF i \in First(plan, "in flight") THEN Done ELSE plan[i]
  BY DEF Returns, RecordReturned, FleetInv
<1>3. \A i \in N : plan'[i].is \in States BY <1>2, StateNames DEF FleetInv, States
<1>4. ASSUME NEW j \in N, NEW i \in 1..(j - 1), plan'[j].is # "pending"
      PROVE  plan'[i].is \in {"done", "drained"}
  <2>1. i \in N BY DEF FleetAssumption
  <2>2. plan[j].is # "pending" BY <1>2, <1>4 DEF First, Which
  <2>3. plan[i].is \in {"done", "drained"} BY <2>2 DEF FleetInv, OneAwayAtATime
  <2>4. i \notin First(plan, "in flight") BY <2>3 DEF First, Which
  <2> QED BY <2>1, <2>3, <2>4, <1>2
<1> QED BY <1>1, <1>3, <1>4 DEF FleetInv, OneAwayAtATime

(* Every reachable plan has them all. *)
LEMMA FleetInvHolds == FleetSpec => []FleetInv
<1> USE FleetAssumption
<1>1. FleetInit => FleetInv
  <2> SUFFICES ASSUME FleetInit PROVE FleetInv
    OBVIOUS
  <2>1. DOMAIN plan = 1..NodeCount BY DEF FleetInit, NewPlan
  <2>2. \A i \in 1..NodeCount : plan[i].is = "pending"
    BY StateNames DEF FleetInit, NewPlan
  <2> QED BY <2>1, <2>2 DEF FleetInv, States, OneAwayAtATime
<1>2. FleetInv /\ [FleetNext]_fleetVars => FleetInv'
  <2> SUFFICES ASSUME FleetInv, [FleetNext]_fleetVars PROVE FleetInv'
    OBVIOUS
  <2>1. CASE Advances BY <2>1, AdvanceKeepsOrder
  <2>2. CASE Returns BY <2>2, ReturnKeepsOrder
  <2>3. CASE ClockMoves BY <2>3 DEF ClockMoves, FleetInv, OneAwayAtATime
  <2>4. CASE MemberMoves BY <2>4 DEF MemberMoves, FleetInv, OneAwayAtATime
  <2>5. CASE WitnessMoves BY <2>5 DEF WitnessMoves, FleetInv, OneAwayAtATime
  <2>6. CASE UNCHANGED fleetVars BY <2>6 DEF fleetVars, FleetInv, OneAwayAtATime
  <2> QED BY <2>1, <2>2, <2>3, <2>4, <2>5, <2>6 DEF FleetNext
<1> QED BY <1>1, <1>2, PTL DEF FleetSpec

(* An upgrade takes one node away at a time, in the plan's order, for any   *)
(* number of nodes, any budget and any clock.  (UpgradePlan::advance)       *)
THEOREM UpgradesRoll == FleetSpec => []OneAwayAtATime
<1>1. FleetInv => OneAwayAtATime BY DEF FleetInv
<1> QED BY <1>1, FleetInvHolds, PTL

-----------------------------------------------------------------------------

(* Two sides have no more members than the fleet. *)
LEMMA SidesFit ==
    ASSUME FleetAssumption
    PROVE  /\ Cardinality(Members) \in Nat
           /\ Cardinality(Live("left")) \in Nat
           /\ Cardinality(Live("right")) \in Nat
           /\ Cardinality(Live("left")) + Cardinality(Live("right")) <= Cardinality(Members)
<1> DEFINE L == Live("left")
           R == Live("right")
<1>1. L \subseteq Members /\ R \subseteq Members /\ L \cap R = {} BY DEF Live
<1>2. IsFiniteSet(L) /\ IsFiniteSet(R) /\ IsFiniteSet(Members)
  BY <1>1, FS_Subset DEF FleetAssumption
<1>3. Cardinality(L) \in Nat /\ Cardinality(R) \in Nat /\ Cardinality(Members) \in Nat
  BY <1>2, FS_CardinalityType
<1>4. Cardinality(L \cup R) = Cardinality(L) + Cardinality(R)
  <2>1. Cardinality(L \cap R) = 0 BY <1>1, FS_EmptySet
  <2>2. Cardinality(L \cup R) = Cardinality(L) + Cardinality(R) - Cardinality(L \cap R)
    BY <1>2, FS_Union
  <2> QED BY <2>1, <2>2, <1>3
<1>5. Cardinality(L \cup R) <= Cardinality(Members)
  BY <1>1, <1>2, FS_Subset
<1> QED BY <1>3, <1>4, <1>5

(* The arithmetic of can_accept: of two counts that fit in the total, both  *)
(* are accepted only if both are half of it and both have a witness.        *)
LEMMA TwoHalves ==
    ASSUME NEW n \in Nat, NEW l \in Nat, NEW r \in Nat, l + r <= n,
           NEW v \in {0, 1}, NEW w \in {0, 1},
           CanAccept(n, l, v), CanAccept(n, r, w)
    PROVE  v = 1 /\ w = 1
  BY DEF CanAccept, QuorumNeeded

(* A fleet with one witness that is parted in two does not accept writes in *)
(* both parts, for any finite set of members.  (can_accept)                 *)
THEOREM OnePartAccepts == FleetSpec => []NoSplitBrain
<1>1. NoSplitBrain
  <2> SUFFICES ASSUME Accepts("left"), Accepts("right") PROVE FALSE
    BY DEF NoSplitBrain
  <2>1. (IF witness = "left" THEN 1 ELSE 0) = 1 /\ (IF witness = "right" THEN 1 ELSE 0) = 1
    BY SidesFit, TwoHalves, FleetAssumption DEF Accepts
  <2> QED BY <2>1
<1> QED BY <1>1, PTL

-----------------------------------------------------------------------------
(* Verdicts. *)

(* A verdict that was sealed and then changed, in any of its fields, and    *)
(* still verifies has the second it was issued in, and the key it was       *)
(* sealed with: nobody passes an old verdict for a new one.                 *)
(* (SealedVerdict::seal, verify)                                            *)
THEOREM VerdictsKeepTheirDate ==
    ASSUME NEW Characters, Bar \in Characters,
           NEW subject \in Seq(Characters), NEW verdict \in Seq(Characters), NEW issued, NEW key,
           NEW subject2 \in Seq(Characters), NEW verdict2 \in Seq(Characters), NEW issued2, NEW key2,
           VerifySealed([subject |-> subject2, verdict |-> verdict2, issued |-> issued2,
                         tag |-> Seal(subject, verdict, issued, key).tag], key2)
    PROVE  issued2 = issued /\ key2 = key
<1> DEFINE sealed  == Payload(subject, verdict, issued)
           claimed == Payload(subject2, verdict2, issued2)
<1>1. Tag(key, sealed) = Tag(key2, claimed) BY DEF VerifySealed, Seal
<1>2. key = key2 /\ sealed = claimed BY <1>1 DEF Tag
<1>3. /\ Len(sealed) \in Nat
      /\ sealed[Len(sealed)] = issued
  BY DEF Payload
<1>4. claimed[Len(claimed)] = issued2
  BY DEF Payload
<1> QED BY <1>2, <1>3, <1>4
=============================================================================
