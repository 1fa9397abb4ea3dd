----------------------------- MODULE StreamWire -----------------------------
(***************************************************************************)
(* The answers of append, create, head and remove at the other end of      *)
(* HTTP.  The server turns the answer of the protocol into a status and    *)
(* headers (packages/core/src/http), the remote client turns those into an *)
(* answer again (packages/core/src/remote).  Nothing else is sent: what    *)
(* the client tells its caller, it has from the status, the headers and    *)
(* its own request.                                                        *)
(***************************************************************************)
EXTENDS StreamProtocol

Answer(tag) ==
  [tag |-> tag, offset |-> None, epoch |-> None, seq |-> None, expectedSeq |-> None,
   closed |-> FALSE, contentType |-> None, ttl |-> None, expiresAt |-> None, reason |-> None]

\* The answer of a call to an id with no stream, or with one that only forks still read.
Absent(record) == Answer(IF record = None THEN "StreamNotFound" ELSE "StreamGone")

\* The answer of append to a call that reads record and state (protocol/append.ts).
Answered(record, state, req) ==
  LET verdict == Verdict(record, state, req)
  IN  CASE verdict = "Missing" -> Absent(record)
        [] verdict = "Duplicate" ->
             [Answer("Duplicate") EXCEPT !.offset = record.offset, !.epoch = state.epoch,
                                         !.seq = state.lastSeq, !.closed = record.closed]
        [] verdict = "StaleEpoch" -> [Answer("StaleEpoch") EXCEPT !.epoch = state.epoch]
        [] verdict = "ProducerGap" ->
             [Answer("ProducerGap") EXCEPT !.seq = req.position.seq,
                !.expectedSeq = IF state = None THEN 0 ELSE state.lastSeq + 1]
        [] verdict = "AlreadyClosed" ->
             [Answer("Appended") EXCEPT !.offset = record.offset, !.closed = TRUE]
        [] verdict = "StreamClosed" ->
             [Answer("StreamClosed") EXCEPT !.offset = record.offset]
        [] verdict = "OffsetMismatch" ->
             [Answer("OffsetMismatch") EXCEPT !.offset = record.offset]
        [] verdict = "Planned" ->
             [Answer("Appended") EXCEPT
                !.offset = record.offset + req.count, !.closed = req.close,
                !.epoch = IF req.position = None THEN None ELSE req.position.epoch,
                !.seq = IF req.position = None THEN None ELSE req.position.seq]
        [] OTHER -> Answer(verdict)

\* The expiry that a stream was created with; a TTL has its deadline from the clock.
Configured(record) == IF record.ttl = None THEN record.expiresAt ELSE None

ConfigMatches(record, req) ==
  /\ record.contentType = req.contentType /\ record.closed = req.close
  /\ record.ttl = req.ttl /\ Configured(record) = req.expiresAt

\* The answer of create, without a fork source, to a call that finds this record.
CreateAnswer(record, req) ==
  IF record = None
  THEN [Answer("Created") EXCEPT !.offset = req.count, !.contentType = req.contentType,
                                 !.closed = req.close]
  ELSE IF record.softDeleted THEN [Answer("CreateConflict") EXCEPT !.reason = "soft-deleted"]
  ELSE IF ~ConfigMatches(record, req)
  THEN [Answer("CreateConflict") EXCEPT !.reason = "config-mismatch"]
  ELSE [Answer("Exists") EXCEPT !.offset = record.offset, !.contentType = record.contentType,
                                !.closed = record.closed]

HeadAnswer(record) ==
  IF ~Live(record) THEN Absent(record)
  ELSE [Answer("Head") EXCEPT
          !.offset = record.offset, !.contentType = record.contentType, !.ttl = record.ttl,
          !.expiresAt = Configured(record), !.closed = record.closed]

RemoveAnswer(record) == IF Live(record) THEN Answer("Removed") ELSE Absent(record)

-----------------------------------------------------------------------------
Response(status) ==
  [status |-> status, nextOffset |-> None, closed |-> FALSE, epoch |-> None, seq |-> None,
   expectedSeq |-> None, receivedSeq |-> None, contentType |-> None, ttl |-> None,
   expiresAt |-> None]

Status409 == Response(409)

\* A successful append; a body that stored messages of a producer is told by 200.
AppendResponse(req, a) ==
  [Response(IF a.tag = "Appended" /\ req.position # None /\ req.bytes THEN 200 ELSE 204)
     EXCEPT !.nextOffset = a.offset, !.closed = a.closed, !.epoch = a.epoch, !.seq = a.seq]

\* A slip: a closed stream is told like a lost race on the offset.
ErrorWithoutClose(a) ==
  CASE a.tag = "StreamNotFound" -> Response(404)
    [] a.tag = "StreamGone" -> Response(410)
    [] a.tag \in {"StreamClosed", "OffsetMismatch"} -> [Status409 EXCEPT !.nextOffset = a.offset]
    [] a.tag \in {"AppendConflict", "CreateConflict"} -> Status409
    [] a.tag = "ProducerGap" ->
         [Status409 EXCEPT !.expectedSeq = a.expectedSeq, !.receivedSeq = a.seq]
    [] a.tag = "StaleEpoch" -> [Response(403) EXCEPT !.epoch = a.epoch]
    [] a.tag = "StreamBusy" -> Response(503)
    [] OTHER -> Response(400)

ErrorResponse(a) ==
  CASE a.tag = "StreamNotFound" -> Response(404)
    [] a.tag = "StreamGone" -> Response(410)
    [] a.tag = "StreamClosed" ->
         [Status409 EXCEPT !.nextOffset = a.offset, !.closed = TRUE]
    [] a.tag = "OffsetMismatch" -> [Status409 EXCEPT !.nextOffset = a.offset]
    [] a.tag \in {"AppendConflict", "CreateConflict"} -> Status409
    [] a.tag = "ProducerGap" ->
         [Status409 EXCEPT !.expectedSeq = a.expectedSeq, !.receivedSeq = a.seq]
    [] a.tag = "StaleEpoch" -> [Response(403) EXCEPT !.epoch = a.epoch]
    [] a.tag = "StreamBusy" -> Response(503)
    [] OTHER -> Response(400)

\* POST: a body of no bytes that does not close is refused before the append.
Post(req, a) ==
  IF ~req.bytes /\ ~req.close THEN Response(400)
  ELSE IF a.tag \in {"Appended", "Duplicate"} THEN AppendResponse(req, a)
  ELSE ErrorResponse(a)

\* PUT
CreateResponse(a) ==
  IF a.tag \in {"Created", "Exists"}
  THEN [Response(IF a.tag = "Created" THEN 201 ELSE 200) EXCEPT
          !.contentType = a.contentType, !.nextOffset = a.offset, !.closed = a.closed]
  ELSE ErrorResponse(a)

\* HEAD
HeadResponse(a) ==
  IF a.tag = "Head"
  THEN [Response(200) EXCEPT !.contentType = a.contentType, !.nextOffset = a.offset,
          !.closed = a.closed, !.ttl = IF a.ttl = 0 THEN None ELSE a.ttl, !.expiresAt = a.expiresAt]
  ELSE ErrorResponse(a)

\* DELETE
RemoveResponse(a) == IF a.tag = "Removed" THEN Response(204) ELSE ErrorResponse(a)

-----------------------------------------------------------------------------
\* Four rejections share a status; their headers tell them apart.
Conflict(req, r) ==
  IF r.expectedSeq # None /\ r.receivedSeq # None
  THEN [Answer("ProducerGap") EXCEPT !.expectedSeq = r.expectedSeq, !.seq = r.receivedSeq]
  ELSE IF r.closed /\ r.nextOffset # None
  THEN [Answer("StreamClosed") EXCEPT !.offset = r.nextOffset]
  ELSE IF ~r.closed /\ r.nextOffset # None /\ req.expected # None
  THEN [Answer("OffsetMismatch") EXCEPT !.offset = r.nextOffset]
  ELSE Answer("AppendConflict")

\* The state of the producer on a 204 means a Duplicate.
Decoded(req, r) ==
  CASE r.status = 200 ->
         [Answer("Appended") EXCEPT !.offset = r.nextOffset, !.closed = r.closed,
                                    !.epoch = r.epoch, !.seq = r.seq]
    [] r.status = 204 ->
         IF req.position = None \/ r.epoch = None
         THEN [Answer("Appended") EXCEPT !.offset = r.nextOffset, !.closed = r.closed]
         ELSE [Answer("Duplicate") EXCEPT !.offset = r.nextOffset, !.closed = r.closed,
                                          !.epoch = r.epoch, !.seq = r.seq]
    [] r.status = 404 -> Answer("StreamNotFound")
    [] r.status = 410 -> Answer("StreamGone")
    [] r.status = 503 -> Answer("StreamBusy")
    [] r.status = 403 -> [Answer("StaleEpoch") EXCEPT !.epoch = r.epoch]
    [] r.status = 400 -> Answer("InvalidAppendRequest")
    [] r.status = 409 -> Conflict(req, r)

DecodedCreate(r) ==
  CASE r.status \in {200, 201} ->
         [Answer(IF r.status = 201 THEN "Created" ELSE "Exists") EXCEPT
            !.offset = r.nextOffset, !.contentType = r.contentType, !.closed = r.closed]
    [] r.status = 400 -> Answer("InvalidCreateRequest")
    [] r.status = 404 -> Answer("ForkSourceNotFound")
    [] r.status = 409 -> Answer("CreateConflict")

DecodedHead(r) ==
  CASE r.status = 200 ->
         [Answer("Head") EXCEPT !.offset = r.nextOffset, !.contentType = r.contentType,
            !.ttl = r.ttl, !.expiresAt = r.expiresAt, !.closed = r.closed]
    [] r.status = 404 -> Answer("StreamNotFound")
    [] r.status = 410 -> Answer("StreamGone")

DecodedRemove(r) ==
  CASE r.status = 204 -> Answer("Removed")
    [] r.status = 404 -> Answer("StreamNotFound")
    [] r.status = 410 -> Answer("StreamGone")
    [] r.status = 503 -> Answer("StreamBusy")

-----------------------------------------------------------------------------
(***************************************************************************)
(* What the wire does not carry: that an epoch has to begin with seq 0     *)
(* (remote/response.ts, append), whether this call or an earlier one       *)
(* closed the stream (remote.test.ts, close-only producer append), and     *)
(* why a create conflicts.                                                 *)
(***************************************************************************)
Carried(req, a) ==
  IF a.tag = "InvalidEpochSeq" THEN Answer("InvalidAppendRequest")
  ELSE IF a.tag = "Appended" /\ CloseOnly(req) /\ a.epoch # None
  THEN [a EXCEPT !.tag = "Duplicate"]
  ELSE [a EXCEPT !.reason = None]

AppendIsTold(record, req) ==
  LET state == IF req.position = None THEN None ELSE producers[req.position.id]
      a == Answered(record, state, req)
  IN  req.bytes \/ req.close => Decoded(req, Post(req, a)) = Carried(req, a)

CreateIsTold(record, req) ==
  LET a == CreateAnswer(record, req) IN DecodedCreate(CreateResponse(a)) = Carried(req, a)

HeadIsTold(record) ==
  LET a == HeadAnswer(record) IN DecodedHead(HeadResponse(a)) = a

RemoveIsTold ==
  LET a == RemoveAnswer(stream) IN DecodedRemove(RemoveResponse(a)) = a

(***************************************************************************)
(* Whatever the stream and its producers have become when a call takes its *)
(* decision, a remote caller is told what a local one is: it retries,      *)
(* skips, bumps its epoch or gives up for the right reason ("Its errors    *)
(* map to the same typed errors as local storage", servers/remote.mdx).    *)
(***************************************************************************)
RemoteIsTold ==
  \A c \in Calls :
    LET f == fiber[c] IN
      /\ At(c, "plan") => AppendIsTold(f.seen, f.req)
      /\ At(c, "clock") =>
           IF f.req.kind = "read" THEN HeadIsTold(f.seen) ELSE CreateIsTold(f.seen, f.req)
      /\ At(c, "create") => CreateIsTold(stream, f.req)
      /\ At(c, "remove") => RemoveIsTold
=============================================================================
