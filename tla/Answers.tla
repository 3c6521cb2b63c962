------------------------------- MODULE Answers -------------------------------
(***************************************************************************)
(* The surfaces of a cell as somebody outside sees them: one connection     *)
(* after another, whole (Http), against what the cell is like and holds.    *)
(***************************************************************************)
EXTENDS Http

CONSTANTS
    Worlds,         \* what a cell may be like: level, stage, quota, files, devices
    Elsewhere,      \* another cell, with the same devices enrolled
    RequestLines,   \* what a connection may begin with
    Streams,        \* what may follow it
    StorageOutcomes     \* what may come of a storage call

(* What a stranger may learn is told by cells that would let nobody else in.*)
ASSUME WorldsAssumption ==
    \A w \in Worlds :
        /\ DOMAIN w = {"level", "stage", "quota", "stored", "entries", "machine", "site"}
        /\ w.entries = Elsewhere.entries

VARIABLES
    here,           \* this cell
    exchange        \* the connection that is open and what it was sent, if any

answerVars == <<here, exchange>>

Nonce == "a nonce"

AnswersInit ==
    /\ here \in Worlds
    /\ exchange = {}

Connection(surface) ==
    /\ exchange = {}
    /\ \E line \in RequestLines, stream \in Streams, io \in StorageOutcomes :
          LET answer == Handle(surface, line, stream, here, Nonce, io)
          IN  /\ here' = [here EXCEPT !.stored = answer.stored]
              /\ exchange' = {[surface |-> surface, line |-> line, stream |-> stream,
                               io |-> io, sent |-> answer.sent]}

Closes ==
    /\ exchange # {}
    /\ exchange' = {}
    /\ UNCHANGED here

AnswersNext == (\E surface \in {"panel", "site", "vault"} : Connection(surface)) \/ Closes

AnswersSpec == AnswersInit /\ [][AnswersNext]_answerVars

-----------------------------------------------------------------------------
SentElsewhere(e) == Handle(e.surface, e.line, e.stream, Elsewhere, Nonce, e.io).sent

(* A stranger to the vault is sent the same by every cell it asks: not by   *)
(* the answer, its length or its status does it learn the battery's level,  *)
(* the outage, how full the vault is or what it holds.  And a visitor of    *)
(* the site cannot tell, of two cells that both publish nothing at a path,  *)
(* what lies there.  (route_vault, not_published, Response::render)         *)
StrangersLearnNothing ==
    \A e \in exchange :
        LET stranger == ~IsAuthenticated(Verify(here.entries, ReadHeadersAndBody(e.stream).bearer))
            elsewhere == SentElsewhere(e)
        IN  \/ e.surface = "vault" /\ stranger
            \/ e.surface = "site" /\ e.sent.status = 404 /\ elsewhere.status = 404
            => e.sent = elsewhere
=============================================================================
