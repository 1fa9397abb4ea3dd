--------------------------- MODULE StreamProtocol ---------------------------
(***************************************************************************)
(* One durable stream, the storage that holds it and the protocol calls    *)
(* that run against it at the same time (packages/core/src/protocol over   *)
(* packages/core/src/storage/memory).                                      *)
(*                                                                         *)
(* The protocol is not atomic.  An append reads the stream record, then    *)
(* the state of its producer, decides, and only then asks the storage to   *)
(* commit, under preconditions; when the storage rejects the commit the    *)
(* append plans again from the start.  Every call also begins by expiring  *)
(* the stream when it is due, with the same read-then-commit gap, and a    *)
(* read renews the deadline of a stream with a TTL.  Each read of the      *)
(* storage, each read of the clock on which something depends and each     *)
(* commit is a step of its own here; the calls interleave in any order and *)
(* a caller may be interrupted between any two steps.                      *)
(*                                                                         *)
(* Left out: the forks of a stream (only whether it has any matters here), *)
(* the messages a read returns, and what callers do with their answers.    *)
(***************************************************************************)
EXTENDS StreamRequests

CONSTANTS Calls,         \* fibers that run one protocol call at a time
          Requests,      \* the requests they may make
          ReplanLimit,   \* APPEND_REPLAN_LIMIT
          MaxCalls,      \* bound on the calls made in a behaviour
          MaxTime        \* bound on the clock

ASSUME RequestsAssumption ==
  /\ Requests \subseteq Request /\ None \notin Requests
  /\ \A req \in Requests : req.kind = "append" /\ ~req.bytes => req.count = 0
ASSUME LimitAssumption ==
  ReplanLimit \in Nat \ {0} /\ MaxCalls \in Nat /\ MaxTime \in Nat

VARIABLES
  stream,      \* the stored record, or None when the id is free
  log,         \* the stored messages
  producers,   \* the stored producer states
  dependents,  \* whether a fork reads the stream's messages
  now,         \* the clock
  fiber,       \* the locals of each call
  \* History, read by no action that models code:
  started,     \* calls begun
  commits,     \* changes committed that a later plan depends on
  landed,      \* the positions the present stream accepted, and in which commit
  acks,        \* the acknowledgements given since the last purge
  born,        \* the commit that created the last stream
  stray        \* whether the present stream has an append planned on an earlier one

store == <<stream, log, producers, dependents>>
history == <<commits, landed, acks, born, stray>>
vars == <<store, now, fiber, started, history>>
-----------------------------------------------------------------------------
StreamRecord ==
  [offset : Nat, closed : BOOLEAN, softDeleted : BOOLEAN, lastSeq : Nat,
   expiresAt : Optional(Nat), contentType : ContentTypes, ttl : Optional(Nat)]

ASSUME RecordAssumption == None \notin StreamRecord

Labels == {"idle", "record", "judge", "expire", "reread", "deadline",
           "plan", "commit", "clock", "touch", "create", "remove"}

(***************************************************************************)
(* A call: where it is, its request, the record and the producer state it  *)
(* read last, the time it goes by, and how often an append replanned.      *)
(* began is the value of commits when the call began, life that of born    *)
(* when it read the record.                                                *)
(***************************************************************************)
Fiber ==
  [pc : Labels, req : Optional(Requests), seen : Optional(StreamRecord),
   saved : Optional(ProducerState), at : Nat, attempt : Nat, began : Nat, life : Nat]

Idle == [pc |-> "idle", req |-> None, seen |-> None, saved |-> None,
         at |-> 0, attempt |-> 0, began |-> 0, life |-> 0]

Landing == [position : Position, stamp : Nat]

\* stamp 0 acknowledges an append that wrote nothing.
Ack == [req : Requests, status : {"Appended", "Duplicate"}, offset : Nat, stamp : Nat]

TypeOK ==
  /\ stream \in Optional(StreamRecord)
  /\ log \in Seq(Message)
  /\ producers \in [ProducerIds -> Optional(ProducerState)]
  /\ dependents \in BOOLEAN
  /\ now \in Nat
  /\ fiber \in [Calls -> Fiber]
  /\ started \in Nat
  /\ commits \in Nat
  /\ landed \subseteq Landing
  /\ acks \subseteq Ack
  /\ born \in Nat
  /\ stray \in BOOLEAN

NoProducers == [p \in ProducerIds |-> None]

Init ==
  /\ stream = None /\ log = <<>> /\ producers = NoProducers /\ dependents = FALSE
  /\ now = 0
  /\ fiber = [c \in Calls |-> Idle]
  /\ started = 0 /\ commits = 0
  /\ landed = {} /\ acks = {} /\ born = 0 /\ stray = FALSE
-----------------------------------------------------------------------------
Live(record) == record # None /\ ~record.softDeleted

Expired(record, time) == record.expiresAt # None /\ record.expiresAt <= time

(***************************************************************************)
(* The decision of an append from the record and the producer state it     *)
(* read, in the order of the early returns.                                *)
(***************************************************************************)
Verdict(record, state, req) ==
  LET position == IF req.position = None THEN "Accepted"
                  ELSE ValidateProducer(state, req.position)
  IN  IF ~Live(record) THEN "Missing"
      ELSE IF position # "Accepted" THEN position
      ELSE IF ~req.bytes /\ ~req.close THEN "InvalidAppendRequest"
      ELSE IF CloseOnly(req) /\ record.closed THEN "AlreadyClosed"
      ELSE IF record.closed THEN "StreamClosed"
      ELSE IF ~CloseOnly(req) /\ req.contentType # record.contentType
           THEN "AppendConflict"
      ELSE IF ~CloseOnly(req) /\ req.streamSeq # 0 /\ req.streamSeq <= record.lastSeq
           THEN "AppendConflict"
      ELSE IF req.expected # None /\ req.expected # record.offset
           THEN "OffsetMismatch"
      ELSE IF ~CloseOnly(req) /\ req.count = 0 THEN "InvalidAppendRequest"
      ELSE "Planned"

\* Slips in the preconditions: nothing but the close is checked, the tail is
\* not, the close is not.
RejectedIfClosed(f) == ~Live(stream) \/ stream.closed
TailUnchecked(f) ==
  \/ ~Live(stream) \/ stream.closed
  \/ f.req.position # None /\ producers[f.req.position.id] # f.saved
CloseUnchecked(f) ==
  \/ ~Live(stream) \/ stream.offset # f.seen.offset
  \/ f.req.position # None /\ producers[f.req.position.id] # f.saved

\* The preconditions of the planned Append operation, against the store.
AppendRejected(f) ==
  \/ ~Live(stream)
  \/ stream.offset # f.seen.offset
  \/ stream.closed
  \/ f.req.position # None /\ producers[f.req.position.id] # f.saved
-----------------------------------------------------------------------------
Purge ==
  /\ stream' = None /\ log' = <<>> /\ producers' = NoProducers
  /\ landed' = {} /\ acks' = {} /\ stray' = FALSE

\* The Delete operation: a stream whose messages forks read stays, soft-deleted.
Delete ==
  /\ IF dependents
     THEN /\ stream' = [stream EXCEPT !.softDeleted = TRUE]
          /\ UNCHANGED <<log, producers, landed, acks, stray>>
     ELSE Purge
  /\ commits' = commits + 1
  /\ UNCHANGED <<dependents, born>>

At(c, label) == fiber[c].pc = label

Finish(c) == fiber' = [fiber EXCEPT ![c] = Idle]

\* Where the operation goes on once its record is read and not overdue.
Body(kind) == CASE kind = "append" -> "plan"
                [] kind = "remove" -> "remove"
                [] OTHER           -> "clock"
-----------------------------------------------------------------------------
Start(c, req) ==
  /\ At(c, "idle") /\ started < MaxCalls
  /\ fiber' = [fiber EXCEPT ![c] = [Idle EXCEPT
                 !.pc = IF req.kind = "sweep" THEN "deadline" ELSE "record",
                 !.at = IF req.kind = "sweep" THEN now ELSE 0,
                 !.req = req, !.began = commits]]
  /\ started' = started + 1
  /\ UNCHANGED <<store, now, history>>

\* expireIfNeeded, first read of the record.
ReadRecord(c) ==
  /\ At(c, "record")
  /\ fiber' = [fiber EXCEPT ![c].pc = "judge", ![c].seen = stream,
                            ![c].life = born]
  /\ UNCHANGED <<store, now, started, history>>

\* expireIfNeeded, the clock is read after the record.
Judge(c) ==
  /\ At(c, "judge")
  /\ fiber' = [fiber EXCEPT
       ![c].pc = IF Live(fiber[c].seen) /\ Expired(fiber[c].seen, now)
                 THEN "expire" ELSE Body(fiber[c].req.kind)]
  /\ UNCHANGED <<store, now, started, history>>

\* A slip: the deadline that was read is not a precondition.
ExpireAnyway(c) ==
  /\ At(c, "expire")
  /\ fiber' = [fiber EXCEPT
       ![c].pc = IF fiber[c].req.kind = "sweep" THEN "deadline" ELSE "reread"]
  /\ IF Live(stream) THEN Delete ELSE UNCHANGED <<store, history>>
  /\ UNCHANGED <<now, started>>

\* The conditional Delete of expireIfNeeded and of expireDue: it loses to
\* whatever moved the deadline since it was read.
Expire(c) ==
  /\ At(c, "expire")
  /\ fiber' = [fiber EXCEPT
       ![c].pc = IF fiber[c].req.kind = "sweep" THEN "deadline" ELSE "reread"]
  /\ IF Live(stream) /\ stream.expiresAt = fiber[c].seen.expiresAt
     THEN Delete ELSE UNCHANGED <<store, history>>
  /\ UNCHANGED <<now, started>>

\* expireIfNeeded, second read, whoever won the deletion.
Reread(c) ==
  /\ At(c, "reread")
  /\ fiber' = [fiber EXCEPT ![c].pc = Body(fiber[c].req.kind),
                            ![c].seen = stream, ![c].life = born]
  /\ UNCHANGED <<store, now, started, history>>

\* expireDue: one turn of the sweep, against the time read when it began.
NextDeadline(c) ==
  /\ At(c, "deadline")
  /\ IF Live(stream) /\ Expired(stream, fiber[c].at)
     THEN fiber' = [fiber EXCEPT ![c].pc = "expire", ![c].seen = stream,
                                 ![c].life = born]
     ELSE Finish(c)
  /\ UNCHANGED <<store, now, started, history>>

(***************************************************************************)
(* append: the producer state is read after the record, then the decision  *)
(* is taken.  Duplicate and a repeated close answer without writing.       *)
(***************************************************************************)
Plan(c) ==
  LET f == fiber[c]
      state == IF f.req.position = None THEN None ELSE producers[f.req.position.id]
      verdict == Verdict(f.seen, state, f.req)
  IN  /\ At(c, "plan")
      /\ IF verdict = "Planned"
         THEN fiber' = [fiber EXCEPT ![c].pc = "commit", ![c].saved = state,
                                     ![c].at = now]
         ELSE Finish(c)
      /\ acks' = IF verdict \in {"Duplicate", "AlreadyClosed"}
                 THEN acks \cup {[req |-> f.req, offset |-> f.seen.offset, stamp |-> 0,
                                  status |-> IF verdict = "Duplicate"
                                             THEN "Duplicate" ELSE "Appended"]}
                 ELSE acks
      /\ UNCHANGED <<store, now, started, commits, landed, born, stray>>

(***************************************************************************)
(* append: the Append operation.  Messages, tail, close, Stream-Seq,       *)
(* deadline and producer state change together; the new values come from   *)
(* the record that was read.                                               *)
(***************************************************************************)
Accept(c) ==
  LET f == fiber[c]
      req == f.req
      stamp == commits + 1
      tail == f.seen.offset + req.count
  IN  /\ log' = log \o Batch(req, stamp)
      /\ stream' = [stream EXCEPT
           !.offset = tail,
           !.closed = req.close \/ @,
           !.lastSeq = IF req.streamSeq # 0 THEN req.streamSeq ELSE @,
           !.expiresAt = IF f.seen.ttl = None THEN @ ELSE f.at + f.seen.ttl]
      /\ IF req.position = None
         THEN UNCHANGED <<producers, landed>>
         ELSE /\ producers' = [producers EXCEPT
                   ![req.position.id] = ProposedState(req.position)]
              /\ landed' = landed \cup {[position |-> req.position, stamp |-> stamp]}
      /\ acks' = acks \cup {[req |-> req, status |-> "Appended",
                              offset |-> tail, stamp |-> stamp]}
      /\ commits' = stamp
      /\ stray' = (stray \/ f.life # born)
      /\ UNCHANGED <<dependents, born>>
      /\ Finish(c)

\* A slip: plan again from the record already read.
ReplanStale(c) ==
  /\ IF fiber[c].attempt + 1 < ReplanLimit
     THEN fiber' = [fiber EXCEPT ![c].pc = "plan", ![c].attempt = @ + 1]
     ELSE Finish(c)
  /\ UNCHANGED <<store, history>>

\* MutationRejected: plan again from the record, or give up with StreamBusy.
Replan(c) ==
  /\ IF fiber[c].attempt + 1 < ReplanLimit
     THEN fiber' = [fiber EXCEPT ![c].pc = "record", ![c].attempt = @ + 1]
     ELSE Finish(c)
  /\ UNCHANGED <<store, history>>

Commit(c) ==
  /\ At(c, "commit")
  /\ IF AppendRejected(fiber[c]) THEN Replan(c) ELSE Accept(c)
  /\ UNCHANGED <<now, started>>

\* read and create: the early returns, then the clock, read once more.
ReadClock(c) ==
  LET f == fiber[c]
  IN  /\ At(c, "clock")
      /\ IF f.req.kind = "read"
         THEN IF Live(f.seen) /\ f.seen.ttl # None
              THEN fiber' = [fiber EXCEPT ![c].pc = "touch", ![c].at = now]
              ELSE Finish(c)
         ELSE IF f.seen = None
              THEN fiber' = [fiber EXCEPT ![c].pc = "create", ![c].at = now]
              ELSE Finish(c)
      /\ UNCHANGED <<store, now, started, history>>

(***************************************************************************)
(* read: renew the deadline of a stream with a TTL.  The Append operation  *)
(* carries only the tail as a precondition and a lost one is ignored.      *)
(***************************************************************************)
Touch(c) ==
  LET f == fiber[c]
  IN  /\ At(c, "touch")
      /\ IF Live(stream) /\ stream.offset = f.seen.offset
         THEN stream' = [stream EXCEPT !.expiresAt = f.at + f.seen.ttl]
         ELSE UNCHANGED stream
      /\ Finish(c)
      /\ UNCHANGED <<log, producers, dependents, now, started, history>>

\* create, without a fork source: an existing stream is only compared.
Create(c) ==
  LET f == fiber[c]
      stamp == commits + 1
  IN  /\ At(c, "create")
      /\ IF stream # None
         THEN UNCHANGED <<store, history>>
         ELSE /\ stream' = [offset |-> f.req.count, closed |-> f.req.close,
                            softDeleted |-> FALSE, lastSeq |-> 0,
                            expiresAt |-> IF f.req.ttl = None THEN f.req.expiresAt
                                          ELSE f.at + f.req.ttl,
                            contentType |-> f.req.contentType, ttl |-> f.req.ttl]
              /\ log' = Batch(f.req, stamp)
              /\ commits' = stamp /\ born' = stamp
              /\ UNCHANGED <<producers, dependents, landed, acks, stray>>
      /\ Finish(c)
      /\ UNCHANGED <<now, started>>

\* remove: an unconditional Delete.
Remove(c) ==
  /\ At(c, "remove")
  /\ IF Live(stream) THEN Delete ELSE UNCHANGED <<store, history>>
  /\ Finish(c)
  /\ UNCHANGED <<now, started>>

\* The caller is interrupted, or goes away: only a commit is uninterruptible.
Interrupt(c) ==
  /\ ~At(c, "idle")
  /\ Finish(c)
  /\ UNCHANGED <<store, now, started, history>>
-----------------------------------------------------------------------------
\* Another stream becomes a fork of this one.
Fork ==
  /\ Live(stream) /\ ~dependents
  /\ dependents' = TRUE
  /\ UNCHANGED <<stream, log, producers, now, fiber, started, history>>

\* The last fork is purged, and a soft-deleted stream with it.
Unfork ==
  /\ dependents
  /\ dependents' = FALSE
  /\ IF stream.softDeleted
     THEN Purge /\ commits' = commits + 1 /\ UNCHANGED born
     ELSE UNCHANGED <<stream, log, producers, history>>
  /\ UNCHANGED <<now, fiber, started>>

Tick ==
  /\ now < MaxTime
  /\ now' = now + 1
  /\ UNCHANGED <<store, fiber, started, history>>

Next ==
  \/ \E c \in Calls :
       \/ \E req \in Requests : Start(c, req)
       \/ ReadRecord(c) \/ Judge(c) \/ Expire(c) \/ Reread(c) \/ NextDeadline(c)
       \/ ReadClock(c) \/ Plan(c) \/ Commit(c) \/ Touch(c) \/ Create(c) \/ Remove(c)
       \/ Interrupt(c)
  \/ Fork \/ Unfork \/ Tick

Spec == Init /\ [][Next]_vars
-----------------------------------------------------------------------------
(***************************************************************************)
(* A position is stored once: whatever the retries, the interleavings and  *)
(* the interruptions, the messages stored under one producer position come *)
(* from a single commit, and so do two acceptances of it.  append.ts       *)
(* relies on the producer precondition for it, not on its earlier read.    *)
(***************************************************************************)
ExactlyOnce ==
  /\ \A x, y \in landed : x.position = y.position => x.stamp = y.stamp
  /\ \A i, j \in 1..Len(log) :
       /\ log[i].position # None
       /\ log[i].position = log[j].position
       => log[i].stamp = log[j].stamp

(***************************************************************************)
(* A Duplicate answer tells the truth: the position it acknowledges was    *)
(* accepted by the stream that is there now.  A writer advances on it.     *)
(***************************************************************************)
DuplicateIsTruthful ==
  \A a \in acks : a.status = "Duplicate" =>
    \E x \in landed : x.position = a.req.position

(***************************************************************************)
(* Acknowledged messages stay where the answer said: the batch ends at the *)
(* offset of the answer, whole and in order, for as long as the stream is  *)
(* there, and starts at the expected offset when the request gave one: of  *)
(* the appends that expect one offset, one wins (Streams.decide).          *)
(***************************************************************************)
AcknowledgedIsStored ==
  \A a \in acks : a.stamp # 0 =>
    /\ a.req.count <= a.offset /\ a.offset <= Len(log)
    /\ \A i \in 1..a.req.count :
         log[a.offset - a.req.count + i] = Framed(a.req, a.stamp)
    /\ a.req.expected # None => a.offset = a.req.expected + a.req.count

(***************************************************************************)
(* A closed stream is final: no append planned before the close lands      *)
(* after it, whether or not the close moved the tail.                      *)
(***************************************************************************)
ClosedIsFinal ==
  [][ stream # None /\ stream.closed /\ stream' # None
        => log' = log /\ producers' = producers /\ stream'.closed ]_vars

(***************************************************************************)
(* A stream leaves because somebody removed it, or when the deadline it    *)
(* has at that very moment is over: a renewal that got in before the       *)
(* deletion of an expired stream saves it.                                 *)
(***************************************************************************)
ExpiresOnlyWhenDue ==
  [][ Live(stream) /\ ~Live(stream')
        => \/ \E c \in Calls : At(c, "remove") /\ At(c, "idle")'
           \/ Expired(stream, now) ]_vars

(***************************************************************************)
(* A commit is rejected only because another one got in since the append   *)
(* last read the record: "each round has one winner" (append.ts).  So      *)
(* StreamBusy means that ReplanLimit other commits went through meanwhile. *)
(***************************************************************************)
RejectionMeansContention ==
  \A c \in Calls : At(c, "commit") /\ AppendRejected(fiber[c])
                    => fiber[c].began + fiber[c].attempt < commits

(***************************************************************************)
(* What an append compared with a record that may be stale holds of the    *)
(* stream it lands on: every message has the content type of the stream,   *)
(* and the Stream-Seq numbers strictly increase from batch to batch, none  *)
(* beyond the one that an open stream has on record.  The tail, which is a *)
(* precondition, stands for all of the record as long as it is that of the *)
(* same stream: one that was removed and created again may have the tail   *)
(* that was read (append.ts:123), and then none of this holds.             *)
(***************************************************************************)
BatchesFit ==
  stream # None /\ ~stray =>
    /\ \A i \in 1..Len(log) : /\ log[i].contentType = stream.contentType
                              /\ stream.closed \/ log[i].streamSeq <= stream.lastSeq
    /\ \A i, j \in 1..Len(log) :
         /\ i < j
         /\ log[i].stamp # log[j].stamp
         /\ log[i].streamSeq # 0 /\ log[j].streamSeq # 0
         => log[i].streamSeq < log[j].streamSeq

-----------------------------------------------------------------------------
(***************************************************************************)
(* A call is at a label of its own operation, with the reads that label    *)
(* comes after; an append about to commit planned it from those reads.     *)
(***************************************************************************)
FiberOK(f) ==
  /\ f.pc # "idle" => f.req \in Requests
  /\ f.pc \in {"record", "judge", "reread"} => f.req.kind # "sweep"
  /\ f.pc \in {"plan", "commit"} => f.req.kind = "append"
  /\ f.pc = "clock" => f.req.kind \in {"read", "create"}
  /\ f.pc = "create" => f.req.kind = "create"
  /\ f.pc = "touch" => f.seen # None /\ f.seen.ttl # None
  /\ f.pc = "expire" => f.seen # None
  /\ f.pc = "commit" => /\ f.seen # None
                        /\ Verdict(f.seen, f.saved, f.req) = "Planned"

\* A free id stores nothing; the tail of a stream counts its messages.
StoreOK ==
  /\ stream = None => /\ log = <<>> /\ producers = NoProducers /\ ~dependents
                      /\ landed = {} /\ \A a \in acks : a.stamp = 0
  /\ stream # None => stream.offset = Len(log)

\* The stored state of a producer is its last accepted position: it accepted
\* every position of the epoch up to that one, and none beyond.
LandedOK ==
  /\ \A x \in landed :
       LET state == producers[x.position.id]
       IN  /\ x.stamp <= commits
           /\ state # None
           /\ \/ x.position.epoch < state.epoch
              \/ x.position.epoch = state.epoch /\ x.position.seq <= state.lastSeq
  /\ \A p \in ProducerIds : producers[p] # None =>
       \A q \in 0..producers[p].lastSeq :
         \E x \in landed :
           x.position = [id |-> p, epoch |-> producers[p].epoch, seq |-> q]

\* A message is of a past commit, and a landing of its own if it has a position.
LogOK ==
  \A i \in 1..Len(log) :
    /\ log[i].stamp <= commits
    /\ log[i].position # None =>
         [position |-> log[i].position, stamp |-> log[i].stamp] \in landed
-----------------------------------------------------------------------------
(***************************************************************************)
(* The stream implements DurableStream: planning on old reads and          *)
(* committing under preconditions is as good as checking and writing in    *)
(* one step.  Renewals of the deadline, and every read, are stutters.      *)
(***************************************************************************)
Status ==
  IF stream = None THEN "absent"
  ELSE IF stream.softDeleted THEN "gone"
  ELSE IF stream.closed THEN "closed" ELSE "open"

DS == INSTANCE DurableStream WITH status <- Status

ImplementsDurableStream == DS!Spec
=============================================================================
