-------------------------------- MODULE Http --------------------------------
(***************************************************************************)
(* core/src/serve.rs, and handle of cli/src/listen.rs: a connection from    *)
(* the line it sends to the bytes it is sent, on each of three surfaces.    *)
(*                                                                         *)
(* A request line is [long, parted, verb, slash, odd, path]: too long, made *)
(* of three parts, beginning with a slash, holding a percent sign, a        *)
(* backslash or a NUL.  A body is its length.                               *)
(***************************************************************************)
EXTENDS Site, Credentials, Policy

MaxHeaders == 64
MaxBody    == 64 * 1024 * 1024

Methods == {"GET", "HEAD", "PUT", "DELETE"}

NotANumber == -1

(* BadRequest, in the order parse_request_line asks. *)
LineFlaws == <<"malformed", "unsupported method", "bad path", "traversal">>

(* parse_request_line and normalise: a path is refused, never cleaned. *)
ParseRequestLine(line) ==
    [method |-> line.verb, path |-> line.path,
     why |-> FirstFlaw(LineFlaws, {f \in ToSet(LineFlaws) :
        \/ f = "malformed" /\ (line.long \/ ~line.parted)
        \/ f = "unsupported method" /\ line.verb \notin Methods
        \/ f = "bad path" /\ ~line.slash
        \/ f = "traversal" /\ (line.odd \/ \E i \in DOMAIN line.path : line.path[i].kind = "up")})]

NoHeaders == [bearer |-> {}, length |-> {}, why |-> Sound]

(* A header is [is, ...].  What is wrong with one: it has no colon, or is a *)
(* length that is no number, or too much of one.                            *)
HeaderFlaw(header) ==
    IF \/ header.is = "no colon"
       \/ header.is = "content-length" /\ header.n = NotANumber
    THEN "malformed header"
    ELSE IF header.is = "content-length" /\ header.n > MaxBody THEN "body too large"
    ELSE Sound

(* parse_headers: the first header that is wrong is the answer; otherwise   *)
(* the last length counts, and the last bearer that is one.                 *)
ParseHeaders(lines) ==
    LET wrong == {i \in DOMAIN lines : HeaderFlaw(lines[i]) # Sound}
        sized == {i \in DOMAIN lines : lines[i].is = "content-length"}
        shown == {i \in DOMAIN lines : lines[i].is = "authorization" /\ lines[i].bearer # {}}
    IN  IF Len(lines) > MaxHeaders THEN [NoHeaders EXCEPT !.why = "too many headers"]
        ELSE IF wrong # {} THEN [NoHeaders EXCEPT !.why = HeaderFlaw(lines[Min(wrong)])]
        ELSE [bearer |-> IF shown = {} THEN {} ELSE lines[Max(shown)].bearer,
              length |-> IF sized = {} THEN {} ELSE {lines[Max(sized)].n},
              why    |-> Sound]

(* read_headers_and_body: what a connection sends after its line is the     *)
(* headers, whether reading them failed, and so many bytes.  The body is    *)
(* the length that was declared, all of it, and nothing where none was.     *)
ReadHeadersAndBody(stream) ==
    LET headers == ParseHeaders(stream.headers)
        wanted  == IF headers.length = {} THEN 0 ELSE CHOOSE n \in headers.length : TRUE
        why == CASE headers.why = "too many headers" -> headers.why
                 [] headers.why # "too many headers" /\ stream.fails -> "malformed header"
                 [] OTHER -> IF headers.why = Sound /\ stream.sent < wanted THEN "malformed"
                             ELSE headers.why
    IN  [bearer |-> headers.bearer, body |-> wanted, why |-> why]

-----------------------------------------------------------------------------
(* Responses. *)

Reply(status, body) == [status |-> status, type |-> "plain", body |-> body, log |-> {}]

TextResponse(body)        == Reply(200, body)
BytesResponse(body, type) == [Reply(200, body) EXCEPT !.type = type]
Explaining(response, log) == [response EXCEPT !.log = {log}]
Says(what)                == [says |-> what]

(* Surface::policy *)
PolicyFor(surface) == IF surface = "panel" THEN ControlSurface ELSE PublishedSite

(* Response::render: what is sent.  A HEAD is told the length and no body,  *)
(* and what is logged stays here.                                           *)
Sent(response, surface, nonce, method) ==
    [status  |-> response.status, type |-> response.type, length |-> response.body,
     headers |-> RenderHeaders(Production(PolicyFor(surface)), nonce),
     body    |-> IF method = "HEAD" THEN {} ELSE {response.body}]

Names(path) == [i \in DOMAIN path |-> path[i].name]

(* not_published: one sentence, whatever the reason. *)
NotPublished(path, why) == Reply(StatusFor(why), [nothingAt |-> path])

(* refuse *)
RefuseBad(why) ==
    CASE why = "unsupported method" -> Reply(405, Says(why))
      [] why = "traversal" -> Explaining(NotPublished(<<"that path">>, "escape"), why)
      [] why = "body too large" -> Reply(413, Says(why))
      [] why \in {"malformed", "bad path", "too many headers", "malformed header"} ->
            Reply(400, Says(why))

-----------------------------------------------------------------------------
(* The panel and the site. *)

Route(request) ==
    CASE Names(request.path) \in {<<"">>, <<"panel">>} -> TextResponse(Says("panel"))
      [] Names(request.path) = <<"health">> -> TextResponse(Says("answering"))
      [] OTHER -> Reply(404, Says("no such path"))

(* route_site: any method is answered with the file.  A file that resolves  *)
(* and does not read, or lies outside, is not published either.             *)
RouteSite(request, m, dir, level, stage) ==
    LET availability == AvailabilityOf(level, stage)
        found == Resolve(m, dir, request.path)
    IN  CASE availability # ReadingOut -> Reply(503, [site |-> availability])
          [] availability = ReadingOut /\ found.is = "refused" ->
                Explaining(NotPublished(Names(request.path), found.why), found.why)
          [] OTHER -> IF Readable(m, found.path)
                      THEN BytesResponse([file |-> found.path], found.type)
                      ELSE Explaining(NotPublished(Names(request.path), "not found"), "unreadable")

-----------------------------------------------------------------------------
(* The vault. *)

NameFlaws == <<"empty", "too long", "relative", "separator", "hidden", "control",
               "trailing space or dot">>

(* What Name::new is given: the path without the slashes it begins with. *)
Unslashed(path) ==
    LET named == {i \in DOMAIN path : path[i].kind # "empty"}
    IN  IF named = {} THEN << >> ELSE SubSeq(path, Min(named), Len(path))

(* Name::new *)
NewName(path) ==
    LET raw == Unslashed(path)
    IN  FirstFlaw(NameFlaws, {f \in ToSet(NameFlaws) :
            \/ f = "empty" /\ raw = << >>
            \/ f = "relative" /\ Len(raw) = 1 /\ raw[1].kind = "up"
            \/ f = "separator" /\ (Len(raw) > 1 \/ \E i \in DOMAIN raw : raw[i].kind = "odd")
            \/ f = "hidden" /\ raw # << >> /\ raw[1].kind \in {"hidden", "up"}
            \/ \E i \in DOMAIN raw : f \in raw[i].flaws})

Quota(used, limit) == [used |-> used, limit |-> limit]
QuotaFree(quota)   == IF quota.used > quota.limit THEN 0 ELSE quota.limit - quota.used

TooLarge(offered, free) == [offered |-> offered, free |-> free, shortfall |-> offered - free]

Accepting == [by |-> "nothing"]

(* Admission::of: the cell first, then the outage, then the room there is;  *)
(* room nobody could measure is none.                                       *)
AdmissionOf(level, stage, quota, offered) ==
    CASE level # Normal -> [by |-> "governor", at |-> level]
      [] level = Normal /\ stage # Serving -> [by |-> "outage", at |-> stage]
      [] OTHER ->
            IF quota = {} THEN [by |-> "unmeasured"]
            ELSE IF \E q \in quota : offered > QuotaFree(q)
            THEN [by |-> "full", short |-> {TooLarge(offered, QuotaFree(q)) : q \in quota}]
            ELSE Accepting

(* Admission::for_removal: a delete asks for no room. *)
ForRemoval(level, stage) == AdmissionOf(level, stage, {Quota(0, 0)}, 0)

RefusedAdmission(admission) ==
    Reply(IF admission.by = "full" THEN 507 ELSE 503, [taken |-> admission])

(* StorageFailure::status and told *)
StorageFailed(failure) == Reply(IF failure = "conflict" THEN 409 ELSE 500, Says(failure))

NothingStored == Reply(404, Says("nothing stored under that name"))

(* Receipt::describe: that the bytes are here, and on nothing else. *)
ReceiptFor(name, bytes) == [name |-> name, bytes |-> bytes, durability |-> "assumed untrusted"]

Answer(response, stored) == [response |-> response, stored |-> stored]

(* list_vault *)
ListVault(w, io) ==
    LET availability == AvailabilityOf(w.level, w.stage)
    IN  IF availability # ReadingOut THEN Reply(503, [reading |-> availability])
        ELSE IF io # "done" THEN StorageFailed(io)
        ELSE BytesResponse([listing |-> w.stored], "json")

(* What a file under its own name is answered; io is what came of the       *)
(* storage call that is made, if one is.                                    *)
ReadStored(w, name) ==
    LET availability == AvailabilityOf(w.level, w.stage)
    IN  IF availability # ReadingOut THEN Reply(503, [reading |-> availability])
        ELSE IF name \in w.stored THEN BytesResponse([file |-> name], "octet-stream")
        ELSE NothingStored

PutStored(w, name, body, io) ==
    LET admission == AdmissionOf(w.level, w.stage, w.quota, body)
    IN  CASE admission # Accepting -> Answer(RefusedAdmission(admission), w.stored)
          [] admission = Accepting /\ io # "done" -> Answer(StorageFailed(io), w.stored)
          [] OTHER -> Answer(TextResponse([receipt |-> ReceiptFor(name, body)]), w.stored \cup {name})

RemoveStored(w, name, io) ==
    LET admission == ForRemoval(w.level, w.stage)
    IN  CASE admission # Accepting -> Answer(RefusedAdmission(admission), w.stored)
          [] admission = Accepting /\ io # "done" -> Answer(StorageFailed(io), w.stored)
          [] OTHER -> Answer(IF name \in w.stored THEN TextResponse([gone |-> name]) ELSE NothingStored,
                             w.stored \ {name})

(* Mutant of RouteVault: whether the cell serves is asked before who asks. *)
RouteVaultAvailableFirst(request, read, w, io) ==
    IF AvailabilityOf(w.level, w.stage) # ReadingOut
    THEN Answer(Reply(503, [reading |-> AvailabilityOf(w.level, w.stage)]), w.stored)
    ELSE LET verdict == Verify(w.entries, read.bearer)
         IN  Answer(IF IsAuthenticated(verdict) THEN ListVault(w, io) ELSE Reply(401, Says(verdict.why)),
                    w.stored)

(* route_vault: who asks, before anything about the device or its files;    *)
(* then the listing, a name, and what is asked of it.                       *)
RouteVault(request, read, w, io) ==
    LET verdict == Verify(w.entries, read.bearer)
        wrong   == NewName(request.path)
        name    == Unslashed(request.path)[1].name
        reads   == request.method \in {"GET", "HEAD"}
        told(response) == Answer(response, w.stored)
    IN  IF ~IsAuthenticated(verdict) THEN told(Reply(401, Says(verdict.why)))
        ELSE IF Names(request.path) = <<"">>
        THEN told(IF reads THEN ListVault(w, io) ELSE Reply(405, Says("the listing is read")))
        ELSE IF wrong # Sound THEN told(Reply(400, Says(wrong)))
        ELSE IF reads THEN told(ReadStored(w, name))
        ELSE IF request.method = "PUT" THEN PutStored(w, name, read.body, io)
        ELSE RemoveStored(w, name, io)

-----------------------------------------------------------------------------
(* handle: one connection; a request that is refused before it is routed is *)
(* answered as a GET would be.                                              *)

Routed(surface, request, read, w, io) ==
    CASE surface = "panel" -> Answer(Route(request), w.stored)
      [] surface = "site"  -> Answer(RouteSite(request, w.machine, w.site, w.level, w.stage), w.stored)
      [] surface = "vault" -> RouteVault(request, read, w, io)

Handle(surface, line, stream, w, nonce, io) ==
    LET request == ParseRequestLine(line)
        read    == ReadHeadersAndBody(stream)
        why     == IF request.why # Sound THEN request.why ELSE read.why
        answer  == IF why # Sound THEN Answer(RefuseBad(why), w.stored)
                   ELSE Routed(surface, request, read, w, io)
    IN  [sent   |-> Sent(answer.response, surface, nonce,
                         IF why # Sound THEN "GET" ELSE request.method),
         log    |-> answer.response.log,
         stored |-> answer.stored]
=============================================================================
