----------------------------- MODULE HttpServing -----------------------------
(***************************************************************************)
(* The HTTP layer under the routes: one kept-alive connection, on which a  *)
(* client asks, uploads a body chunk by chunk and may go away; the router  *)
(* or the Express adapter, which decides whether and how far the body is   *)
(* read; and the spooling of an uploaded blob.                             *)
(*                                                                         *)
(* Abstracted: sizes are counted in chunks; a handler with its whole body  *)
(* answers 200 or an error; headers other than content-length, and what    *)
(* an answer says, are left out.  External: Node's stream and connection   *)
(* behaviour, as the comments in http.ts and upload.ts rely on it.         *)
(***************************************************************************)
EXTENDS Integers

CONSTANTS
  DefaultLimit,  \* DEFAULT_MAX_BODY_BYTES
  AdminLimit,    \* maxAdminBodyBytes
  BlobLimit,     \* maxBlobBytes
  MaxLength,     \* bound: chunks of a body
  Window,        \* chunks a client may send before they are read
  MaxRequests,   \* bound: requests on the connection
  Networked,     \* the database and the blob store are behind a network
  None

ASSUME LimitAssumption ==
  /\ {DefaultLimit, AdminLimit, BlobLimit, MaxLength, MaxRequests} \subseteq Nat
  /\ Window \in Nat \ {0}
  /\ DefaultLimit <= AdminLimit
ASSUME DeploymentAssumption == Networked \in BOOLEAN

Routes == {"malformed", "unrouted", "json", "upload"}

\* consumed: a parser in front of the Express adapter has read the body already.
Requests ==
  [route : Routes, admin : BOOLEAN, length : 0..MaxLength, sized : BOOLEAN, consumed : BOOLEAN]

ASSUME RequestAssumption == None \notin Requests

VARIABLES
  open,      \* the connection is there
  request,   \* the request being served
  stage,     \* where its handling is
  verdict,   \* the answer that waits for the body to end, or None
  left,      \* chunks the client still has to send
  arrived,   \* chunks sent and not read
  flow,      \* the body: "unread", "flowing" or "paused"
  kept,      \* chunks in memory
  written,   \* chunks counted by the spooler
  over,      \* the body is over its limit
  temp,      \* the temporary directory exists
  answer, closing, asked

body == <<left, arrived, flow>>
vars == <<open, request, stage, verdict, body, kept, written, over, temp, answer, closing, asked>>

Init ==
  /\ open = TRUE
  /\ request = None
  /\ stage = "idle"
  /\ verdict = None
  /\ left = 0 /\ arrived = 0 /\ flow = "unread"
  /\ kept = 0 /\ written = 0 /\ over = FALSE
  /\ temp = FALSE
  /\ answer = None /\ closing = FALSE
  /\ asked = 0

-----------------------------------------------------------------------------
(* The client *)

Ask(r) ==
  /\ open
  /\ stage = "idle"
  /\ asked < MaxRequests
  /\ r.length = 0 => r.sized
  /\ r.consumed => r.route = "json" /\ r.length > 0
  /\ request' = r
  /\ stage' = "routing"
  /\ left' = IF r.consumed THEN 0 ELSE r.length
  /\ arrived' = 0 /\ flow' = "unread"
  /\ kept' = 0 /\ written' = 0 /\ over' = FALSE
  /\ verdict' = None /\ answer' = None
  /\ asked' = asked + 1
  /\ UNCHANGED <<open, temp, closing>>

Send ==
  /\ open
  /\ left > 0
  /\ arrived < Window
  /\ left' = left - 1
  /\ arrived' = arrived + 1
  /\ UNCHANGED <<open, request, stage, verdict, flow, kept, written, over, temp, answer, closing,
                 asked>>

\* The client goes away, or Node ends a request that does not arrive.  Whoever listens to the body
\* then hears an error; nobody does while the store is asked about an upload.
Disconnect ==
  /\ open
  /\ stage \in {"looking", "reading", "draining", "discarding", "spooling", "answered"}
  /\ stage = "looking" => Networked
  /\ open' = FALSE
  /\ stage' = IF stage = "looking" THEN "looking" ELSE "idle"
  /\ temp' = FALSE
  /\ UNCHANGED <<request, verdict, body, kept, written, over, answer, closing, asked>>

-----------------------------------------------------------------------------
(* Answers *)

AnswerNow(status, closes) ==
  /\ answer' = status
  /\ closing' = closes
  /\ stage' = "answered"

BodyDone == left = 0 /\ arrived = 0

\* The response is out: the connection is closed, or waits for what follows the body.
Finish ==
  /\ stage = "answered"
  /\ closing \/ BodyDone
  /\ open' = ~closing
  /\ stage' = "idle"
  /\ UNCHANGED <<request, verdict, body, kept, written, over, temp, answer, closing, asked>>

\* A request no route takes: a short body is discarded first, a long or unsized one closes.
AnswerUnread ==
  /\ stage = "routing"
  /\ request.route \in {"malformed", "unrouted"}
  /\ \/ /\ request.length = 0
        /\ AnswerNow(404, FALSE)
        /\ UNCHANGED <<verdict, flow>>
     \/ /\ request.length > 0
        /\ request.sized
        /\ request.length <= DefaultLimit
        /\ flow' = "flowing"
        /\ stage' = "discarding"
        /\ verdict' = 404
        /\ UNCHANGED <<answer, closing>>
     \/ /\ request.length > 0
        /\ ~request.sized \/ request.length > DefaultLimit
        /\ AnswerNow(404, TRUE)
        /\ UNCHANGED <<verdict, flow>>
  /\ UNCHANGED <<open, request, left, arrived, kept, written, over, temp, asked>>

-----------------------------------------------------------------------------
(* Buffered routes *)

\* bodyLimit with adminBodyLimit: the large cap only with the admin token.
Limit == IF request.admin THEN AdminLimit ELSE DefaultLimit

\* readRawBody of the Express adapter with a body that was read before.
TakeConsumed ==
  /\ stage = "routing"
  /\ request.route = "json"
  /\ request.consumed
  /\ IF request.length > Limit
       THEN AnswerNow(413, TRUE)
       ELSE stage' = "handling" /\ UNCHANGED <<answer, closing>>
  /\ UNCHANGED <<open, request, verdict, body, kept, written, over, temp, asked>>

ReadBody ==
  /\ stage = "routing"
  /\ request.route = "json"
  /\ ~request.consumed
  /\ stage' = "reading"
  /\ flow' = "flowing"
  /\ over' = (request.sized /\ request.length > Limit)
  /\ UNCHANGED <<open, request, verdict, left, arrived, kept, written, temp, answer, closing, asked>>

\* Variant with a bug: the cap is compared with what the client declares, and not with what comes.
BufferChunkDeclared ==
  /\ stage = "reading"
  /\ arrived > 0
  /\ arrived' = arrived - 1
  /\ kept' = IF over THEN kept ELSE kept + 1
  /\ UNCHANGED <<open, request, stage, verdict, left, flow, written, over, temp, answer, closing,
                 asked>>

\* readBody's data handler: past the limit everything is dropped, and the rest discarded.
BufferChunk ==
  /\ stage = "reading"
  /\ arrived > 0
  /\ arrived' = arrived - 1
  /\ IF over
       THEN UNCHANGED <<kept, over>>
       ELSE /\ over' = (kept + 1 > Limit)
            /\ kept' = IF over' THEN 0 ELSE kept + 1
  /\ UNCHANGED <<open, request, stage, verdict, left, flow, written, temp, answer, closing, asked>>

BodyEnds ==
  /\ stage = "reading"
  /\ BodyDone
  /\ IF over
       THEN AnswerNow(413, TRUE)
       ELSE stage' = "handling" /\ UNCHANGED <<answer, closing>>
  /\ UNCHANGED <<open, request, verdict, body, kept, written, over, temp, asked>>

\* run(): the handler's result, or errorResult of what it threw.
Handle ==
  /\ stage = "handling"
  /\ \E status \in {200, 401, 500} : AnswerNow(status, FALSE)
  /\ UNCHANGED <<open, request, verdict, body, kept, written, over, temp, asked>>

-----------------------------------------------------------------------------
(* Blob uploads *)

Drain(status) ==
  /\ stage' = "draining"
  /\ verdict' = status
  /\ flow' = "flowing"

Upload ==
  /\ stage = "routing"
  /\ request.route = "upload"
  /\ CASE ~request.admin -> Drain(401)
       [] request.admin /\ request.sized /\ request.length > BlobLimit -> Drain(413)
       [] OTHER -> stage' = "looking" /\ UNCHANGED <<verdict, flow>>
  /\ UNCHANGED <<open, request, left, arrived, kept, written, over, temp, answer, closing, asked>>

\* stageBlob before it spools: no such release or blob, or the blob is there already.
Spared ==
  /\ stage = "looking"
  /\ \E status \in {200, 404} : Drain(status)
  /\ UNCHANGED <<open, request, left, arrived, kept, written, over, temp, answer, closing, asked>>

Spool ==
  /\ stage = "looking"
  /\ stage' = "spooling"
  /\ temp' = TRUE
  /\ flow' = "flowing"
  /\ UNCHANGED <<open, request, verdict, left, arrived, kept, written, over, answer, closing, asked>>

\* spoolToTemp's data handler; a full write buffer pauses the body.
SpoolChunk ==
  /\ open
  /\ stage = "spooling"
  /\ flow = "flowing"
  /\ arrived > 0
  /\ arrived' = arrived - 1
  /\ IF over
       THEN UNCHANGED <<written, over, flow>>
       ELSE /\ written' = written + 1
            /\ over' = (written + 1 > BlobLimit)
            /\ flow' \in IF over' THEN {"flowing"} ELSE {"flowing", "paused"}
  /\ UNCHANGED <<open, request, stage, verdict, left, kept, temp, answer, closing, asked>>

\* Variant with a bug: the body is resumed only if more of it is to come.
DrainedIfMore ==
  /\ open
  /\ stage = "spooling"
  /\ flow = "paused"
  /\ left > 0
  /\ flow' = "flowing"
  /\ UNCHANGED <<open, request, stage, verdict, left, arrived, kept, written, over, temp, answer,
                 closing, asked>>

\* The write buffer is empty again.
Drained ==
  /\ open
  /\ stage = "spooling"
  /\ flow = "paused"
  /\ flow' = "flowing"
  /\ UNCHANGED <<open, request, stage, verdict, left, arrived, kept, written, over, temp, answer,
                 closing, asked>>

\* The body's end: too large, not the announced bytes, or stored; the file goes in every case.
SpoolEnds ==
  /\ open
  /\ stage = "spooling"
  /\ flow = "flowing"
  /\ BodyDone
  /\ temp' = FALSE
  /\ IF over THEN AnswerNow(413, TRUE) ELSE \E status \in {200, 400} : AnswerNow(status, FALSE)
  /\ UNCHANGED <<open, request, verdict, body, kept, written, over, asked>>

-----------------------------------------------------------------------------
(* drain, and answerUnread's resume *)

DiscardChunk ==
  /\ open
  /\ stage \in {"draining", "discarding"}
  /\ arrived > 0
  /\ arrived' = arrived - 1
  /\ UNCHANGED <<open, request, stage, verdict, left, flow, kept, written, over, temp, answer,
                 closing, asked>>

DiscardEnds ==
  /\ open
  /\ stage \in {"draining", "discarding"}
  /\ BodyDone
  /\ AnswerNow(verdict, verdict = 413)
  /\ UNCHANGED <<open, request, verdict, body, kept, written, over, temp, asked>>

-----------------------------------------------------------------------------
Server ==
  \/ Finish \/ AnswerUnread
  \/ TakeConsumed \/ ReadBody \/ BufferChunk \/ BodyEnds \/ Handle
  \/ Upload \/ Spared \/ Spool \/ SpoolChunk \/ Drained \/ SpoolEnds
  \/ DiscardChunk \/ DiscardEnds

Next == (\E r \in Requests : Ask(r)) \/ Send \/ Disconnect \/ Server

Spec == Init /\ [][Next]_vars

\* The server keeps working; while a request still arrives, a client that stops sending is
\* disconnected (Node's request timeout).
FairSpec == Spec /\ WF_vars(Server) /\ WF_vars(Send \/ (left > 0 /\ Disconnect))

-----------------------------------------------------------------------------
(* Properties *)

Statuses == {200, 400, 401, 404, 413, 500}

TypeOK ==
  /\ {open, over, temp, closing} \subseteq BOOLEAN
  /\ request \in Requests \cup {None}
  /\ stage \in {"idle", "routing", "reading", "handling", "looking", "spooling", "draining",
                "discarding", "answered"}
  /\ stage # "idle" => request # None
  /\ {verdict, answer} \subseteq Statuses \cup {None}
  /\ {left, written, kept} \subseteq 0..MaxLength
  /\ arrived \in 0..Window
  /\ flow \in {"unread", "flowing", "paused"}
  /\ asked \in 0..MaxRequests

BufferIsBounded ==
  kept <= IF request = None \/ ~request.admin THEN DefaultLimit ELSE AdminLimit

TooLargeIsHeard == stage = "answered" /\ answer = 413 => BodyDone

KeptConnectionIsRead == stage = "answered" /\ ~closing => BodyDone

\* However a body is framed and wherever its handling breaks off: a caller without the admin token
\* never has more than the default cap buffered, nor a holder of it more than the admin cap (the
\* comment at adminBodyLimit); a 413 is sent only when the client has nothing left to upload, so that
\* it reads the answer and not a reset connection (payloadTooLarge); and a connection that is kept
\* never holds a body nobody reads, behind which the next request would wait (answerUnread, drain).
BodiesStayWithinBounds == BufferIsBounded /\ TooLargeIsHeard /\ KeptConnectionIsRead

\* Every request is answered or its connection ends, whatever its client stops doing, and leaves
\* nothing behind: the connection can take the next one, and what was spooled to disk is gone.
RequestsLeaveNothing == (stage # "idle" ~> stage = "idle") /\ (temp ~> ~temp)
=============================================================================
