------------------------ MODULE StreamProtocolProofs ------------------------
(***************************************************************************)
(* Proofs about StreamProtocol, and about what StreamWire tells a remote   *)
(* caller of it, for any set of calls, requests, producers and content     *)
(* types and any bounds.                                                   *)
(***************************************************************************)
EXTENDS StreamWire, SequenceTheorems, TLAPS

Fibers == \A c \in Calls : FiberOK(fiber[c])

Typed == TypeOK /\ Fibers
-----------------------------------------------------------------------------
(***************************************************************************)
(* Type correctness.  The label and the request of a call must be          *)
(* consistent for a commit to write values of the right type, so the two   *)
(* are proved together.                                                    *)
(***************************************************************************)
LEMMA BatchType ==
  ASSUME NEW req \in Requests, req.kind \in {"append", "create"}, NEW stamp \in Nat
  PROVE  /\ Framed(req, stamp) \in Message
         /\ Batch(req, stamp) \in Seq(Message)
         /\ req.count \in Nat
         /\ Len(Batch(req, stamp)) = req.count
         /\ \A i \in 1..req.count : Batch(req, stamp)[i] = Framed(req, stamp)
<1>1. req \in AppendRequest \cup CreateRequest
  BY RequestsAssumption DEF Request, PlainRequest
<1>2. req.count \in Nat /\ Framed(req, stamp) \in Message
  BY <1>1 DEF Framed, Message, AppendRequest, CreateRequest, Optional
<1>3. Batch(req, stamp) \in Seq(Message) /\ Len(Batch(req, stamp)) = req.count
  BY <1>2 DEF Batch
<1>4. QED
  BY <1>2, <1>3 DEF Batch

LEMMA IdleType == Idle \in Fiber /\ FiberOK(Idle)
BY DEF Fiber, Idle, Labels, Optional, FiberOK

LEMMA TypedInit == Init => Typed
<1> SUFFICES ASSUME Init PROVE Typed
  OBVIOUS
<1>1. fiber \in [Calls -> Fiber] /\ Fibers
  BY IdleType DEF Init, Fibers
<1>2. stream \in Optional(StreamRecord) /\ dependents \in BOOLEAN
  BY DEF Init, Optional
<1>3. log \in Seq(Message)
  BY DEF Init
<1>4. producers \in [ProducerIds -> Optional(ProducerState)]
  BY DEF Init, NoProducers, Optional
<1>5. QED
  BY <1>1, <1>2, <1>3, <1>4 DEF Init, Typed, TypeOK

LEMMA StartedFiber ==
  ASSUME NEW req \in Requests, NEW at \in Nat, NEW began \in Nat,
         NEW pc, IF req.kind = "sweep" THEN pc = "deadline" ELSE pc = "record"
  PROVE  LET f == [Idle EXCEPT !.pc = pc, !.at = at, !.req = req, !.began = began]
         IN  f \in Fiber /\ FiberOK(f)
<1>1. pc \in Labels /\ pc \in {"deadline", "record"}
  BY DEF Labels
<1>2. Idle = [pc |-> "idle", req |-> None, seen |-> None, saved |-> None,
              at |-> 0, attempt |-> 0, began |-> 0, life |-> 0]
  BY DEF Idle
<1>3. QED
  BY <1>1, <1>2 DEF Fiber, Optional, FiberOK

LEMMA TypedStart ==
  ASSUME Typed, NEW c \in Calls, NEW req \in Requests, Start(c, req)
  PROVE  Typed'
<1> DEFINE pc == IF req.kind = "sweep" THEN "deadline" ELSE "record"
           at == IF req.kind = "sweep" THEN now ELSE 0
           f == [Idle EXCEPT !.pc = pc, !.at = at, !.req = req, !.began = commits]
<1>1. fiber' = [fiber EXCEPT ![c] = f]
  BY DEF Start
<1>2. at \in Nat /\ commits \in Nat
  BY DEF Typed, TypeOK
<1>3. IF req.kind = "sweep" THEN pc = "deadline" ELSE pc = "record"
  OBVIOUS
<1> HIDE DEF pc, at
<1>4. f \in Fiber /\ FiberOK(f)
  BY <1>2, <1>3, StartedFiber
<1> HIDE DEF f
<1>5. fiber' \in [Calls -> Fiber] /\ Fibers'
  BY <1>1, <1>4 DEF Typed, TypeOK, Fibers
<1>6. QED
  BY <1>5 DEF Start, store, history, Typed, TypeOK

LEMMA TypedFinish ==
  ASSUME fiber \in [Calls -> Fiber], Fibers, NEW c \in Calls, Finish(c)
  PROVE  fiber' \in [Calls -> Fiber] /\ Fibers'
BY IdleType DEF Finish, Fibers

LEMMA BodyLabel ==
  ASSUME NEW req \in Requests, req.kind # "sweep"
  PROVE  \/ Body(req.kind) = "plan" /\ req.kind = "append"
         \/ Body(req.kind) = "clock" /\ req.kind \in {"read", "create"}
         \/ Body(req.kind) = "remove"
BY RequestsAssumption DEF Body, Request, AppendRequest, CreateRequest, PlainRequest

LEMMA TypedMove ==
  ASSUME fiber \in [Calls -> Fiber], Fibers, NEW c \in Calls, 
         ReadRecord(c) \/ Judge(c) \/ Reread(c) \/ NextDeadline(c) \/ ReadClock(c),
         stream \in Optional(StreamRecord), now \in Nat, born \in Nat
  PROVE  fiber' \in [Calls -> Fiber] /\ Fibers'
<1> USE DEF Fibers
<1>1. fiber[c] \in Fiber /\ FiberOK(fiber[c])
  OBVIOUS
<1>2. CASE Finish(c)
  BY <1>2, TypedFinish
<1>3. CASE ~Finish(c)
  <2>1. fiber' = [fiber EXCEPT ![c] = fiber'[c]] /\ fiber'[c] \in Fiber /\ FiberOK(fiber'[c])
    <3>1. CASE ReadRecord(c)
      BY <1>1, <3>1 DEF ReadRecord, At, Fiber, Labels, FiberOK
    <3>2. CASE Judge(c)
      <4>1. CASE /\ fiber' = [fiber EXCEPT ![c].pc = "expire"]
                 /\ fiber[c].seen # None
        BY <1>1, <3>2, <4>1 DEF Judge, At, Fiber, Labels, FiberOK
      <4>2. CASE fiber' = [fiber EXCEPT ![c].pc = Body(fiber[c].req.kind)]
        <5>1. fiber[c].req \in Requests /\ fiber[c].req.kind # "sweep"
          BY <1>1, <3>2 DEF Judge, At, FiberOK
        <5>2. QED
          BY <1>1, <3>2, <4>2, <5>1, BodyLabel DEF Judge, At, Fiber, Labels, FiberOK
      <4>3. QED
        BY <3>2, <4>1, <4>2 DEF Judge, Live
    <3>3. CASE Reread(c)
      <4>1. fiber[c].req \in Requests /\ fiber[c].req.kind # "sweep"
        BY <1>1, <3>3 DEF Reread, At, FiberOK
      <4>2. QED
        BY <1>1, <3>3, <4>1, BodyLabel DEF Reread, At, Fiber, Labels, FiberOK
    <3>4. CASE NextDeadline(c)
      <4>1. /\ fiber' = [fiber EXCEPT ![c].pc = "expire", ![c].seen = stream,
                                      ![c].life = born]
            /\ stream # None
        BY <1>3, <3>4 DEF NextDeadline, Live
      <4>2. QED
        BY <1>1, <3>4, <4>1 DEF NextDeadline, At, Fiber, Labels, FiberOK
    <3>5. CASE ReadClock(c)
      <4>1. CASE /\ fiber' = [fiber EXCEPT ![c].pc = "touch", ![c].at = now]
                 /\ fiber[c].seen # None /\ fiber[c].seen.ttl # None
        BY <1>1, <3>5, <4>1 DEF ReadClock, At, Fiber, Labels, FiberOK
      <4>2. CASE /\ fiber' = [fiber EXCEPT ![c].pc = "create", ![c].at = now]
                 /\ fiber[c].req.kind # "read"
        BY <1>1, <3>5, <4>2 DEF ReadClock, At, Fiber, Labels, FiberOK
      <4>3. QED
        BY <1>3, <3>5, <4>1, <4>2 DEF ReadClock, Live
    <3>6. QED
      BY <3>1, <3>2, <3>3, <3>4, <3>5
  <2>2. QED
    BY <2>1
<1>4. QED
  BY <1>2, <1>3

LEMMA TypedPurge ==
  ASSUME Purge
  PROVE  /\ stream' \in Optional(StreamRecord) /\ log' \in Seq(Message)
         /\ producers' \in [ProducerIds -> Optional(ProducerState)]
         /\ landed' \subseteq Landing /\ acks' \subseteq Ack /\ stray' \in BOOLEAN
<1>1. producers' \in [ProducerIds -> Optional(ProducerState)]
  BY DEF Purge, NoProducers, Optional
<1>2. stray' \in BOOLEAN
  BY DEF Purge
<1>3. QED
  BY <1>1, <1>2 DEF Purge, Optional

LEMMA TypedDelete ==
  ASSUME TypeOK, Live(stream), Delete
  PROVE  /\ stream' \in Optional(StreamRecord) /\ log' \in Seq(Message)
         /\ producers' \in [ProducerIds -> Optional(ProducerState)]
         /\ dependents' \in BOOLEAN /\ commits' \in Nat /\ born' \in Nat
         /\ landed' \subseteq Landing /\ acks' \subseteq Ack /\ stray' \in BOOLEAN
<1>1. CASE dependents
  <2>1. stream \in StreamRecord
    BY DEF TypeOK, Live, Optional
  <2>2. stream' = [stream EXCEPT !.softDeleted = TRUE]
    BY <1>1 DEF Delete
  <2>3. stream' \in StreamRecord
    BY <2>1, <2>2 DEF StreamRecord
  <2>4. QED
    BY <1>1, <2>3 DEF TypeOK, Delete, Optional
<1>2. CASE ~dependents
  BY <1>2, TypedPurge DEF TypeOK, Delete
<1>3. QED
  BY <1>1, <1>2 DEF TypeOK

LEMMA TypedExpire ==
  ASSUME Typed, NEW c \in Calls, Expire(c)
  PROVE  Typed'
<1>1. fiber' \in [Calls -> Fiber] /\ Fibers'
  <2>1. fiber[c] \in Fiber /\ FiberOK(fiber[c])
    BY DEF Typed, TypeOK, Fibers
  <2>2. fiber' = [fiber EXCEPT ![c] = fiber'[c]] /\ fiber'[c] \in Fiber /\ FiberOK(fiber'[c])
    BY <2>1 DEF Expire, At, Fiber, Labels, FiberOK, Typed, TypeOK
  <2>3. QED
    BY <2>2 DEF Typed, TypeOK, Fibers
<1>2. CASE Live(stream) /\ Delete
  BY <1>1, <1>2, TypedDelete DEF Typed, TypeOK, Expire
<1>3. CASE UNCHANGED <<store, history>>
  BY <1>1, <1>3 DEF Typed, TypeOK, Expire, store, history
<1>4. QED
  BY <1>2, <1>3 DEF Expire

LEMMA TypedRemove ==
  ASSUME Typed, NEW c \in Calls, Remove(c)
  PROVE  Typed'
<1>1. fiber' \in [Calls -> Fiber] /\ Fibers'
  BY TypedFinish DEF Typed, TypeOK, Remove
<1>2. CASE Live(stream) /\ Delete
  BY <1>1, <1>2, TypedDelete DEF Typed, TypeOK, Remove
<1>3. CASE UNCHANGED <<store, history>>
  BY <1>1, <1>3 DEF Typed, TypeOK, Remove, store, history
<1>4. QED
  BY <1>2, <1>3 DEF Remove

LEMMA TypedPlan ==
  ASSUME Typed, NEW c \in Calls, Plan(c)
  PROVE  Typed'
<1> DEFINE f == fiber[c]
           state == IF f.req.position = None THEN None ELSE producers[f.req.position.id]
           verdict == Verdict(f.seen, state, f.req)
<1>1. f \in Fiber /\ f.req \in AppendRequest /\ f.req \in Requests /\ f.pc = "plan"
  BY RequestsAssumption DEF Typed, TypeOK, Fibers, FiberOK, Plan, At, Request, CreateRequest, PlainRequest
<1>2. state \in Optional(ProducerState)
  BY <1>1 DEF Typed, TypeOK, AppendRequest, Optional, Position
<1>3. fiber' \in [Calls -> Fiber] /\ Fibers'
  <2>1. CASE verdict # "Planned"
    BY <2>1, TypedFinish DEF Typed, TypeOK, Plan
  <2>2. CASE verdict = "Planned"
    <3>1. f.seen # None
      BY <2>2 DEF Verdict, Live
    <3>2. fiber' = [fiber EXCEPT ![c].pc = "commit", ![c].saved = state, ![c].at = now]
      BY <2>2 DEF Plan
    <3>3. fiber'[c] \in Fiber
      BY <1>1, <1>2, <3>2 DEF Typed, TypeOK, Fiber, Labels
    <3>4. /\ fiber'[c].req = f.req /\ fiber'[c].seen = f.seen
          /\ fiber'[c].saved = state /\ fiber'[c].pc = "commit"
      BY <1>1, <3>2 DEF Typed, TypeOK, Fiber
    <3>5. FiberOK(fiber'[c])
      BY <1>1, <2>2, <3>1, <3>4 DEF FiberOK, AppendRequest
    <3>6. QED
      BY <3>2, <3>3, <3>5 DEF Typed, TypeOK, Fibers
  <2>3. QED
    BY <2>1, <2>2
<1>4. acks' \subseteq Ack
  <2>1. CASE verdict \in {"Duplicate", "AlreadyClosed"}
    <3>1. f.seen # None
      BY <2>1 DEF Verdict, Live
    <3>2. f.seen.offset \in Nat
      BY <1>1, <3>1 DEF Fiber, Optional, StreamRecord
    <3>3. QED
      BY <1>1, <2>1, <3>2 DEF Plan, Ack, Typed, TypeOK
  <2>2. CASE verdict \notin {"Duplicate", "AlreadyClosed"}
    BY <2>2 DEF Plan, Typed, TypeOK
  <2>3. QED
    BY <2>1, <2>2
<1>5. QED
  BY <1>3, <1>4 DEF Typed, TypeOK, Plan, store

LEMMA TypedAccept ==
  ASSUME Typed, NEW c \in Calls, At(c, "commit"), ~AppendRejected(fiber[c]), Accept(c)
  PROVE  /\ stream' \in StreamRecord /\ log' \in Seq(Message)
         /\ producers' \in [ProducerIds -> Optional(ProducerState)]
         /\ fiber' \in [Calls -> Fiber] /\ Fibers' /\ commits' \in Nat
         /\ landed' \subseteq Landing /\ acks' \subseteq Ack
         /\ born' \in Nat /\ stray' \in BOOLEAN
<1> DEFINE f == fiber[c]
           stamp == commits + 1
<1>1. f \in Fiber /\ f.req \in AppendRequest /\ f.req \in Requests
  BY RequestsAssumption DEF Typed, TypeOK, Fibers, FiberOK, At, Request, CreateRequest, PlainRequest
<1>2. stream \in StreamRecord /\ f.seen \in StreamRecord
  BY <1>1 DEF Typed, TypeOK, Fibers, FiberOK, At, AppendRejected, Live, Optional, Fiber
<1>3. /\ f.req.count \in Nat /\ f.req.close \in BOOLEAN /\ f.req.streamSeq \in Nat
      /\ f.req.position \in Optional(Position) /\ f.req.kind = "append"
  BY <1>1 DEF AppendRequest
<1>4. stream' \in StreamRecord
  <2>1. stream' = [stream EXCEPT
           !.offset = f.seen.offset + f.req.count,
           !.closed = f.req.close \/ @,
           !.lastSeq = IF f.req.streamSeq # 0 THEN f.req.streamSeq ELSE @,
           !.expiresAt = IF f.seen.ttl = None THEN @ ELSE f.at + f.seen.ttl]
    BY DEF Accept
  <2>2. /\ f.seen.offset + f.req.count \in Nat
        /\ f.seen.ttl # None => f.at + f.seen.ttl \in Nat
    BY <1>1, <1>2, <1>3 DEF StreamRecord, Optional, Fiber
  <2>3. QED
    BY <1>2, <1>3, <2>1, <2>2 DEF StreamRecord, Optional
<1>5. log' \in Seq(Message)
  <2>1. Batch(f.req, stamp) \in Seq(Message)
    BY <1>1, <1>3, BatchType DEF Typed, TypeOK
  <2>2. QED
    BY <2>1 DEF Accept, Typed, TypeOK
<1>6. /\ producers' \in [ProducerIds -> Optional(ProducerState)]
      /\ landed' \subseteq Landing
  <2>1. CASE f.req.position = None
    BY <2>1 DEF Accept, Typed, TypeOK
  <2>2. CASE f.req.position # None
    <3>1. f.req.position \in Position
      BY <1>3, <2>2 DEF Optional
    <3>2. ProposedState(f.req.position) \in Optional(ProducerState)
      BY <3>1 DEF ProposedState, ProducerState, Position, Optional
    <3>3. [position |-> f.req.position, stamp |-> stamp] \in Landing
      BY <3>1 DEF Landing, Typed, TypeOK
    <3>4. QED
      BY <2>2, <3>2, <3>3 DEF Accept, Typed, TypeOK
  <2>3. QED
    BY <2>1, <2>2
<1>7. acks' \subseteq Ack
  <2>1. f.seen.offset + f.req.count \in Nat /\ stamp \in Nat
    BY <1>2, <1>3 DEF StreamRecord, Typed, TypeOK
  <2>2. [req |-> f.req, status |-> "Appended",
         offset |-> f.seen.offset + f.req.count, stamp |-> stamp] \in Ack
    BY <1>1, <2>1 DEF Ack
  <2>3. QED
    BY <2>2 DEF Accept, Typed, TypeOK
<1>8. fiber' \in [Calls -> Fiber] /\ Fibers'
  BY TypedFinish DEF Accept, Typed, TypeOK
<1>9. QED
  BY <1>4, <1>5, <1>6, <1>7, <1>8 DEF Accept, Typed, TypeOK

LEMMA TypedCommit ==
  ASSUME Typed, NEW c \in Calls, Commit(c)
  PROVE  Typed'
<1>1. CASE AppendRejected(fiber[c])
  <2>1. Replan(c)
    BY <1>1 DEF Commit
  <2>2. fiber' \in [Calls -> Fiber] /\ Fibers'
    <3>1. CASE Finish(c)
      BY <3>1, TypedFinish DEF Typed, TypeOK
    <3>2. CASE ~Finish(c)
      <4>1. fiber' = [fiber EXCEPT ![c].pc = "record", ![c].attempt = @ + 1]
        BY <2>1, <3>2 DEF Replan
      <4>2. fiber[c] \in Fiber /\ FiberOK(fiber[c]) /\ fiber[c].pc = "commit"
        BY DEF Typed, TypeOK, Fibers, Commit, At
      <4>3. fiber[c].req \in Requests /\ fiber[c].req.kind = "append"
        BY <4>2 DEF FiberOK
      <4>4. fiber'[c] \in Fiber /\ FiberOK(fiber'[c])
        <5>1. fiber \in [Calls -> Fiber]
          BY DEF Typed, TypeOK
        <5>2. /\ fiber'[c] = [fiber[c] EXCEPT !.pc = "record",
                                              !.attempt = fiber[c].attempt + 1]
              /\ fiber'[c] \in Fiber
          BY <4>1, <4>2, <5>1 DEF Fiber, Labels
        <5>3. fiber'[c].pc = "record" /\ fiber'[c].req = fiber[c].req
          BY <4>2, <5>2 DEF Fiber
        <5>4. QED
          BY <4>3, <5>2, <5>3 DEF FiberOK
      <4>5. QED
        BY <4>1, <4>4 DEF Typed, TypeOK, Fibers
    <3>3. QED
      BY <3>1, <3>2
  <2>3. QED
    BY <2>1, <2>2 DEF Typed, TypeOK, Commit, Replan, store, history
<1>2. CASE ~AppendRejected(fiber[c])
  <2>1. Accept(c) /\ At(c, "commit") /\ UNCHANGED <<now, started, dependents>>
    BY <1>2 DEF Commit, Accept
  <2>2. QED
    BY <1>2, <2>1, TypedAccept DEF Typed, TypeOK, Optional
<1>3. QED
  BY <1>1, <1>2

LEMMA TypedTouch ==
  ASSUME Typed, NEW c \in Calls, Touch(c)
  PROVE  Typed'
<1>1. fiber' \in [Calls -> Fiber] /\ Fibers'
  BY TypedFinish DEF Typed, TypeOK, Touch
<1>2. stream' \in Optional(StreamRecord)
  <2>1. CASE UNCHANGED stream
    BY <2>1 DEF Typed, TypeOK
  <2>2. CASE ~UNCHANGED stream
    <3>1. /\ stream # None /\ fiber[c].seen # None /\ fiber[c].seen.ttl # None
          /\ stream' = [stream EXCEPT !.expiresAt = fiber[c].at + fiber[c].seen.ttl]
      BY <2>2 DEF Touch, Live, At, Typed, Fibers, FiberOK
    <3>2. fiber[c].at + fiber[c].seen.ttl \in Nat
      BY <3>1 DEF Typed, TypeOK, Fiber, Optional, StreamRecord
    <3>3. QED
      BY <3>1, <3>2 DEF Typed, TypeOK, Optional, StreamRecord
  <2>3. QED
    BY <2>1, <2>2
<1>3. QED
  BY <1>1, <1>2 DEF Typed, TypeOK, Touch, history

LEMMA CreatedRecord ==
  ASSUME Typed, NEW c \in Calls, Create(c), stream = None
  PROVE  stream' \in StreamRecord
<1> DEFINE f == fiber[c]
<1>1. f \in Fiber /\ f.req \in CreateRequest
  BY RequestsAssumption
  DEF Typed, TypeOK, Fibers, FiberOK, Create, At, Request, AppendRequest, PlainRequest
<1>2. f.req.ttl # None => f.at + f.req.ttl \in Nat
  BY <1>1 DEF Fiber, CreateRequest, Optional
<1>3. stream' = [offset |-> f.req.count, closed |-> f.req.close,
                 softDeleted |-> FALSE, lastSeq |-> 0,
                 expiresAt |-> IF f.req.ttl = None THEN f.req.expiresAt
                               ELSE f.at + f.req.ttl,
                 contentType |-> f.req.contentType, ttl |-> f.req.ttl]
  BY DEF Create
<1>4. QED
  BY <1>1, <1>2, <1>3 DEF CreateRequest, StreamRecord, Optional

LEMMA TypedCreate ==
  ASSUME Typed, NEW c \in Calls, Create(c)
  PROVE  Typed'
<1> DEFINE f == fiber[c]
           stamp == commits + 1
<1>1. fiber' \in [Calls -> Fiber] /\ Fibers'
  BY TypedFinish DEF Typed, TypeOK, Create
<1>2. CASE stream # None
  BY <1>1, <1>2 DEF Typed, TypeOK, Create, store, history
<1>3. CASE stream = None
  <2>1. f \in Fiber /\ f.req \in CreateRequest /\ f.req \in Requests
    BY RequestsAssumption
    DEF Typed, TypeOK, Fibers, FiberOK, Create, At, Request, AppendRequest, PlainRequest
  <2>2. log' = Batch(f.req, stamp) /\ commits' = stamp /\ born' = stamp
    BY <1>3 DEF Create
  <2>3. log' \in Seq(Message) /\ commits' \in Nat /\ born' \in Nat
    BY <2>1, <2>2, BatchType DEF CreateRequest, Typed, TypeOK
  <2>4. stream' \in StreamRecord
    BY <1>3, CreatedRecord
  <2>5. QED
    BY <1>1, <1>3, <2>3, <2>4 DEF Typed, TypeOK, Create, Optional
<1>4. QED
  BY <1>2, <1>3

LEMMA TypedOthers ==
  ASSUME Typed, \/ \E c \in Calls : Interrupt(c)
                \/ Fork \/ Unfork \/ Tick
  PROVE  Typed'
<1>1. CASE \E c \in Calls : Interrupt(c)
  BY <1>1, TypedFinish DEF Typed, TypeOK, Interrupt, store, history
<1>2. CASE Fork
  BY <1>2 DEF Typed, TypeOK, Fibers, Fork, history
<1>3. CASE Unfork
  <2>1. CASE UNCHANGED <<stream, log, producers, history>>
    BY <1>3, <2>1 DEF Typed, TypeOK, Fibers, Unfork, history
  <2>2. CASE Purge /\ commits' = commits + 1 /\ UNCHANGED born
    <3>1. /\ dependents' = FALSE /\ commits' = commits + 1
          /\ UNCHANGED <<now, fiber, started, born>>
      BY <1>3, <2>2 DEF Unfork
    <3>2. /\ stream' \in Optional(StreamRecord) /\ log' \in Seq(Message)
          /\ producers' \in [ProducerIds -> Optional(ProducerState)]
          /\ landed' \subseteq Landing /\ acks' \subseteq Ack /\ stray' \in BOOLEAN
      BY <2>2, TypedPurge
    <3>3. commits' \in Nat /\ born' \in Nat /\ Fibers'
      BY <3>1 DEF Typed, TypeOK, Fibers
    <3>4. QED
      BY <3>1, <3>2, <3>3 DEF Typed, TypeOK
  <2>3. QED
    BY <1>3, <2>1, <2>2 DEF Unfork
<1>4. CASE Tick
  BY <1>4 DEF Typed, TypeOK, Fibers, Tick, store, history
<1>5. QED
  BY <1>1, <1>2, <1>3, <1>4

LEMMA TypedNext == Typed /\ [Next]_vars => Typed'
<1> SUFFICES ASSUME Typed, [Next]_vars PROVE Typed'
  OBVIOUS
<1>1. CASE UNCHANGED vars
  BY <1>1 DEF Typed, TypeOK, Fibers, vars, store, history
<1>2. ASSUME NEW c \in Calls,
             ReadRecord(c) \/ Judge(c) \/ Reread(c) \/ NextDeadline(c) \/ ReadClock(c)
      PROVE  Typed'
  <2>1. fiber' \in [Calls -> Fiber] /\ Fibers'
    BY <1>2, TypedMove DEF Typed, TypeOK
  <2>2. UNCHANGED <<store, now, started, history>>
    BY <1>2 DEF ReadRecord, Judge, Reread, NextDeadline, ReadClock
  <2>3. QED
    BY <2>1, <2>2 DEF Typed, TypeOK, store, history
<1>3. QED
  BY <1>1, <1>2, TypedStart, TypedExpire, TypedPlan, TypedCommit, TypedTouch,
     TypedCreate, TypedRemove, TypedOthers DEF Next

(***************************************************************************)
(* Every variable keeps its type, whatever the interleaving of the calls.  *)
(***************************************************************************)
THEOREM TypeCorrect == Spec => []TypeOK
<1>1. Typed => TypeOK
  BY DEF Typed
<1>2. QED
  BY <1>1, TypedInit, TypedNext, PTL DEF Spec
-----------------------------------------------------------------------------
(***************************************************************************)
(* The invariant of the store: what a stream stores about its producers    *)
(* agrees with the positions it accepted.  Only a change of the store can  *)
(* disturb it, so the steps are grouped by what they do to the store.      *)
(***************************************************************************)
Stored == StoreOK /\ LandedOK /\ LogOK /\ ExactlyOnce

LEMMA StoredInit == Init => Stored
BY DEF Init, Stored, StoreOK, LandedOK, LogOK, ExactlyOnce, NoProducers

LEMMA StoredUnchanged ==
  ASSUME Stored, UNCHANGED <<log, producers, commits, landed>>,
         stream = None <=> stream' = None,
         stream # None => stream'.offset = stream.offset,
         stream' = None => ~dependents' /\ \A a \in acks' : a.stamp = 0
  PROVE  Stored'
BY DEF Stored, StoreOK, LandedOK, LogOK, ExactlyOnce, NoProducers

LEMMA StoredPurge ==
  ASSUME Purge, ~dependents'
  PROVE  Stored'
BY DEF Purge, Stored, StoreOK, LandedOK, LogOK, ExactlyOnce, NoProducers

LEMMA StoredDelete ==
  ASSUME Typed, Stored, Live(stream), Delete
  PROVE  Stored'
<1>1. CASE dependents
  <2>1. stream \in StreamRecord
    BY DEF Typed, TypeOK, Live, Optional
  <2>2. /\ stream' = [stream EXCEPT !.softDeleted = TRUE]
        /\ UNCHANGED <<log, producers, landed, acks>>
        /\ commits' = commits + 1 /\ commits \in Nat
    BY <1>1 DEF Delete, Typed, TypeOK
  <2>3. stream' \in StreamRecord /\ stream'.offset = stream.offset
    BY <2>1, <2>2 DEF StreamRecord
  <2>4. stream' # None /\ stream # None
    BY <2>1, <2>3, RecordAssumption
  <2>5. StoreOK' /\ ExactlyOnce'
    BY <2>2, <2>3, <2>4 DEF Stored, StoreOK, ExactlyOnce
  <2>6. LandedOK'
    <3>1. \A x \in landed : x.stamp \in Nat
      BY DEF Typed, TypeOK, Landing
    <3>2. QED
      BY <2>2, <3>1 DEF Stored, LandedOK
  <2>7. LogOK'
    <3>1. \A i \in 1..Len(log) : log[i] \in Message
      BY DEF Typed, TypeOK
    <3>2. \A i \in 1..Len(log) : log[i].stamp \in Nat
      BY <3>1 DEF Message
    <3>3. QED
      BY <2>2, <3>2 DEF Stored, LogOK
  <2>8. QED
    BY <2>5, <2>6, <2>7 DEF Stored
<1>2. CASE ~dependents
  BY <1>2, StoredPurge DEF Delete
<1>3. QED
  BY <1>1, <1>2

LEMMA StoredCreate ==
  ASSUME Typed, Stored, NEW c \in Calls, Create(c)
  PROVE  Stored'
<1> DEFINE req == fiber[c].req
           stamp == commits + 1
<1>1. CASE stream # None
  BY <1>1, StoredUnchanged DEF Create, store, history, Stored, StoreOK
<1>2. CASE stream = None
  <2>1. req \in CreateRequest /\ req \in Requests
    BY RequestsAssumption
    DEF Typed, TypeOK, Fibers, FiberOK, Create, At, Request, AppendRequest, PlainRequest
  <2>2. /\ log' = Batch(req, stamp) /\ commits' = stamp /\ commits \in Nat
        /\ UNCHANGED <<producers, landed, acks>>
        /\ stream'.offset = req.count
    BY <1>2 DEF Create, Typed, TypeOK
  <2>3. producers = NoProducers /\ landed = {}
    BY <1>2 DEF Stored, StoreOK
  <2>4. /\ Len(log') = req.count /\ req.count \in Nat
        /\ \A i \in 1..req.count : log'[i] = Framed(req, stamp)
    BY <2>1, <2>2, BatchType DEF CreateRequest
  <2>5. Framed(req, stamp).position = None /\ Framed(req, stamp).stamp = stamp
    BY <2>1 DEF Framed, CreateRequest
  <2>6. stream' # None
    BY <1>2, CreatedRecord, RecordAssumption
  <2>7. StoreOK'
    BY <2>2, <2>4, <2>6 DEF StoreOK
  <2>8. LandedOK'
    BY <2>2, <2>3 DEF LandedOK, NoProducers
  <2>9. LogOK' /\ ExactlyOnce'
    BY <2>2, <2>3, <2>4, <2>5 DEF LogOK, ExactlyOnce
  <2>10. QED
    BY <2>7, <2>8, <2>9 DEF Stored
<1>3. QED
  BY <1>1, <1>2

(***************************************************************************)
(* A position that passes the check against the stored state was never     *)
(* accepted before: this is where planning on an earlier read of that      *)
(* state is made good by the precondition of the commit.                   *)
(***************************************************************************)
LEMMA AcceptedIsNew ==
  ASSUME Typed, Stored, NEW p \in Position,
         ValidateProducer(producers[p.id], p) = "Accepted",
         NEW x \in landed
  PROVE  x.position # p
<1>1. x.position \in Position /\ x \in Landing
  BY DEF Typed, TypeOK, Landing
<1>2. SUFFICES ASSUME x.position = p PROVE FALSE
  OBVIOUS
<1>3. producers[p.id] # None /\ producers[p.id] \in ProducerState
  BY <1>2 DEF Stored, LandedOK, Typed, TypeOK, Optional, Position
<1>4. \/ p.epoch < producers[p.id].epoch
      \/ p.epoch = producers[p.id].epoch /\ p.seq <= producers[p.id].lastSeq
  BY <1>2 DEF Stored, LandedOK
<1>5. QED
  BY <1>3, <1>4 DEF ValidateProducer, Position, ProducerState

\* What a concatenation holds, element by element.
LEMMA Concatenation ==
  ASSUME NEW S, NEW s \in Seq(S), NEW t \in Seq(S)
  PROVE  /\ Len(s \o t) = Len(s) + Len(t)
         /\ \A i \in 1..Len(s) : (s \o t)[i] = s[i]
         /\ \A i \in 1..Len(t) : (s \o t)[Len(s) + i] = t[i]
BY ConcatProperties

\* Old messages keep what LogOK says of them when positions are only added.
LEMMA LogKept ==
  ASSUME Typed, Stored, landed \subseteq landed', commits' = commits + 1,
         NEW i \in 1..Len(log)
  PROVE  /\ log[i].stamp <= commits'
         /\ log[i].position # None =>
              [position |-> log[i].position, stamp |-> log[i].stamp] \in landed'
<1>1. log[i] \in Message /\ commits \in Nat
  BY DEF Typed, TypeOK
<1>2. log[i].stamp \in Nat
  BY <1>1 DEF Message
<1>3. /\ log[i].stamp <= commits
      /\ log[i].position # None =>
           [position |-> log[i].position, stamp |-> log[i].stamp] \in landed
  BY DEF Stored, LogOK
<1>4. QED
  BY <1>1, <1>2, <1>3

LEMMA StoredAccept ==
  ASSUME Typed, Stored, NEW c \in Calls, At(c, "commit"),
         ~AppendRejected(fiber[c]), Accept(c)
  PROVE  Stored'
<1> DEFINE f == fiber[c]
           req == f.req
           p == req.position
           stamp == commits + 1
           new == [position |-> p, stamp |-> stamp]
<1>1. f \in Fiber /\ req \in AppendRequest /\ req \in Requests
  BY RequestsAssumption DEF Typed, TypeOK, Fibers, FiberOK, At, Request, CreateRequest, PlainRequest
<1>2. stream # None /\ stream.offset = f.seen.offset /\ stream.offset = Len(log)
  BY DEF AppendRejected, Live, Stored, StoreOK
<1>3. /\ stream' \in StreamRecord /\ stream' # None /\ commits' = stamp
      /\ stream'.offset = Len(log) + req.count
  <2>1. stream \in StreamRecord
    BY <1>2 DEF Typed, TypeOK, Optional
  <2>2. stream'.offset = f.seen.offset + req.count
    BY <2>1 DEF Accept, StreamRecord
  <2>3. QED
    BY <1>2, <2>2, TypedAccept, RecordAssumption DEF Accept
<1>4. /\ log \in Seq(Message) /\ commits \in Nat /\ stamp \in Nat
      /\ \A i \in 1..Len(log) : log[i] \in Message
      /\ landed \subseteq Landing
  BY DEF Typed, TypeOK
<1>5. /\ req.count \in Nat
      /\ Len(log') = Len(log) + req.count
      /\ \A i \in 1..Len(log') :
           \/ i \in 1..Len(log) /\ log'[i] = log[i]
           \/ i > Len(log) /\ log'[i] = Framed(req, stamp)
  <2>1. /\ Batch(req, stamp) \in Seq(Message) /\ Len(Batch(req, stamp)) = req.count
        /\ req.count \in Nat
        /\ \A i \in 1..req.count : Batch(req, stamp)[i] = Framed(req, stamp)
    BY <1>1, <1>4, BatchType DEF AppendRequest
  <2>2. log' = log \o Batch(req, stamp)
    BY DEF Accept
  <2>3. /\ Len(log') = Len(log) + req.count
        /\ \A i \in 1..Len(log) : log'[i] = log[i]
        /\ \A i \in 1..req.count : log'[Len(log) + i] = Framed(req, stamp)
    <3> DEFINE B == Batch(req, stamp)
    <3> HIDE DEF B
    <3>1. log \in Seq(Message) /\ B \in Seq(Message)
      BY <1>4, <2>1 DEF B
    <3>2. /\ Len(log \o B) = Len(log) + Len(B)
          /\ \A i \in 1..Len(log) : (log \o B)[i] = log[i]
          /\ \A i \in 1..Len(B) : (log \o B)[Len(log) + i] = B[i]
      BY <3>1, Concatenation
    <3>3. /\ log' = log \o B /\ Len(B) = req.count
          /\ \A i \in 1..req.count : B[i] = Framed(req, stamp)
      BY <2>1, <2>2 DEF B
    <3>4. QED
      BY <3>2, <3>3
  <2>4. ASSUME NEW i \in 1..Len(log'), i \notin 1..Len(log)
        PROVE  i > Len(log) /\ log'[i] = Framed(req, stamp)
    <3>1. Len(log) \in Nat /\ i \in Nat /\ i - Len(log) \in 1..req.count
      BY <1>4, <2>1, <2>3, <2>4
    <3>2. log'[Len(log) + (i - Len(log))] = Framed(req, stamp)
      BY <2>3, <3>1
    <3>3. Len(log) + (i - Len(log)) = i
      BY <3>1
    <3>4. QED
      BY <3>1, <3>2, <3>3
  <2>5. QED
    BY <2>1, <2>3, <2>4
<1>6. Framed(req, stamp).position = p /\ Framed(req, stamp).stamp = stamp
  BY <1>1 DEF Framed, AppendRequest
<1>7. StoreOK'
  BY <1>3, <1>5 DEF StoreOK
<1>8. CASE p = None
  <2>1. UNCHANGED <<producers, landed>>
    BY <1>8 DEF Accept
  <2>2. LandedOK'
    BY <1>3, <1>4, <2>1 DEF Stored, LandedOK, Landing
  <2>3. LogOK'
    <3>1. SUFFICES ASSUME NEW i \in 1..Len(log')
                   PROVE  /\ log'[i].stamp <= commits'
                          /\ log'[i].position # None =>
                               [position |-> log'[i].position,
                                stamp |-> log'[i].stamp] \in landed'
      BY DEF LogOK
    <3>2. CASE i \in 1..Len(log) /\ log'[i] = log[i]
      BY <1>3, <2>1, <3>2, LogKept
    <3>3. CASE log'[i] = Framed(req, stamp)
      BY <1>3, <1>4, <1>6, <1>8, <3>3
    <3>4. QED
      BY <1>5, <3>2, <3>3
  <2>4. ExactlyOnce'
    BY <1>5, <1>6, <1>8, <2>1 DEF Stored, ExactlyOnce
  <2>5. QED
    BY <1>7, <2>2, <2>3, <2>4 DEF Stored
<1>9. CASE p # None
  <2>1. p \in Position
    BY <1>1, <1>9 DEF AppendRequest, Optional
  <2>2. /\ producers' = [producers EXCEPT ![p.id] = ProposedState(p)]
        /\ landed' = landed \cup {new}
    BY <1>9 DEF Accept
  <2>3. ValidateProducer(producers[p.id], p) = "Accepted"
    <3>1. Verdict(f.seen, f.saved, req) = "Planned"
      BY DEF Typed, Fibers, FiberOK, At
    <3>2. ValidateProducer(f.saved, p) # "Planned"
      BY DEF ValidateProducer
    <3>3. ValidateProducer(f.saved, p) = "Accepted"
      BY <1>9, <3>1, <3>2 DEF Verdict
    <3>4. producers[p.id] = f.saved
      BY <1>9 DEF AppendRejected
    <3>5. QED
      BY <3>3, <3>4
  <2>4. \A x \in landed : x.position # p
    BY <2>1, <2>3, AcceptedIsNew
  <2>5. LandedOK'
    <3> DEFINE old == producers[p.id]
    <3>1. /\ p.id \in ProducerIds /\ p.epoch \in Nat /\ p.seq \in Nat
          /\ p = [id |-> p.id, epoch |-> p.epoch, seq |-> p.seq]
      BY <2>1 DEF Position
    <3>2. producers \in [ProducerIds -> Optional(ProducerState)]
      BY DEF Typed, TypeOK
    <3>3. /\ producers'[p.id] = [epoch |-> p.epoch, lastSeq |-> p.seq]
          /\ producers'[p.id] # None
          /\ \A q \in ProducerIds : q # p.id => producers'[q] = producers[q]
      BY <2>2, <3>1, <3>2, NoneAssumption DEF ProposedState, ProducerState
    <3>4. \/ old = None /\ p.seq = 0
          \/ /\ old # None /\ old \in ProducerState
             /\ \/ p.epoch > old.epoch /\ p.seq = 0
                \/ p.epoch = old.epoch /\ p.seq = old.lastSeq + 1
      BY <2>3, <3>1, <3>2 DEF ValidateProducer, Optional, ProducerState
    <3>5. ASSUME NEW x \in landed'
          PROVE  /\ x.stamp <= commits'
                 /\ producers'[x.position.id] # None
                 /\ \/ x.position.epoch < producers'[x.position.id].epoch
                    \/ /\ x.position.epoch = producers'[x.position.id].epoch
                       /\ x.position.seq <= producers'[x.position.id].lastSeq
      <4>1. CASE x = new
        BY <1>3, <1>4, <3>1, <3>3, <4>1
      <4>2. CASE x \in landed
        <5>1. x.position \in Position /\ x.stamp \in Nat
          BY <1>4, <4>2 DEF Landing
        <5>2. /\ x.position.id \in ProducerIds
              /\ x.position.epoch \in Nat /\ x.position.seq \in Nat
          BY <5>1 DEF Position
        <5>3. /\ x.stamp <= commits
              /\ producers[x.position.id] # None
              /\ \/ x.position.epoch < producers[x.position.id].epoch
                 \/ /\ x.position.epoch = producers[x.position.id].epoch
                    /\ x.position.seq <= producers[x.position.id].lastSeq
          BY <4>2 DEF Stored, LandedOK
        <5>4. x.stamp <= commits'
          BY <1>3, <1>4, <5>1, <5>3
        <5>5. CASE x.position.id # p.id
          BY <3>3, <5>2, <5>3, <5>4, <5>5
        <5>6. CASE x.position.id = p.id
          <6>1. producers'[x.position.id] = [epoch |-> p.epoch, lastSeq |-> p.seq]
            BY <3>3, <5>6
          <6>2. old \in ProducerState /\ old.epoch \in Nat /\ old.lastSeq \in Nat
            BY <3>4, <5>3, <5>6 DEF ProducerState
          <6>3. \/ x.position.epoch < p.epoch
                \/ x.position.epoch = p.epoch /\ x.position.seq <= p.seq
            BY <3>1, <3>4, <5>2, <5>3, <5>6, <6>2
          <6>4. QED
            BY <3>3, <5>4, <5>6, <6>1, <6>3
        <5>7. QED
          BY <5>5, <5>6
      <4>3. QED
        BY <2>2, <4>1, <4>2
    <3>6. ASSUME NEW r \in ProducerIds, producers'[r] # None,
                 NEW q \in 0..producers'[r].lastSeq
          PROVE  \E x \in landed' :
                   x.position = [id |-> r, epoch |-> producers'[r].epoch, seq |-> q]
      <4>1. CASE r # p.id
        BY <2>2, <3>3, <3>6, <4>1 DEF Stored, LandedOK
      <4>2. CASE r = p.id
        <5>1. /\ producers'[r].epoch = p.epoch /\ producers'[r].lastSeq = p.seq
              /\ q \in 0..p.seq
          BY <3>3, <3>6, <4>2
        <5>2. CASE q = p.seq
          <6>1. new \in landed' /\ new.position = p
            BY <2>2
          <6>2. QED
            BY <3>1, <4>2, <5>1, <5>2, <6>1
        <5>3. CASE q # p.seq
          <6>1. q \in 0..(p.seq - 1) /\ p.seq # 0
            BY <3>1, <5>1, <5>3
          <6>2. old # None /\ old.epoch = p.epoch /\ q \in 0..old.lastSeq
            BY <3>1, <3>4, <6>1 DEF ProducerState
          <6>3. \E x \in landed :
                  x.position = [id |-> p.id, epoch |-> old.epoch, seq |-> q]
            BY <3>1, <6>2 DEF Stored, LandedOK
          <6>4. QED
            BY <2>2, <4>2, <5>1, <6>2, <6>3
        <5>4. QED
          BY <5>2, <5>3
      <4>3. QED
        BY <4>1, <4>2
    <3>7. QED
      BY <3>5, <3>6 DEF LandedOK
  <2>6. LogOK'
    <3>1. SUFFICES ASSUME NEW i \in 1..Len(log')
                   PROVE  /\ log'[i].stamp <= commits'
                          /\ log'[i].position # None =>
                               [position |-> log'[i].position,
                                stamp |-> log'[i].stamp] \in landed'
      BY DEF LogOK
    <3>2. CASE i \in 1..Len(log) /\ log'[i] = log[i]
      <4>1. landed \subseteq landed'
        BY <2>2
      <4>2. QED
        BY <1>3, <3>2, <4>1, LogKept
    <3>3. CASE log'[i] = Framed(req, stamp)
      <4>1. log'[i].position = p /\ log'[i].stamp = stamp
        BY <1>6, <3>3
      <4>2. QED
        BY <1>3, <1>4, <2>2, <4>1
    <3>4. QED
      BY <1>5, <3>2, <3>3
  <2>7. ExactlyOnce'
    <3>1. \A x, y \in landed' : x.position = y.position => x.stamp = y.stamp
      BY <2>2, <2>4 DEF Stored, ExactlyOnce
    <3>2. \A i \in 1..Len(log) : log[i].position # p
      <4>1. SUFFICES ASSUME NEW i \in 1..Len(log), log[i].position = p PROVE FALSE
        OBVIOUS
      <4>2. [position |-> log[i].position, stamp |-> log[i].stamp] \in landed
        BY <1>9, <4>1 DEF Stored, LogOK
      <4>3. QED
        BY <2>4, <4>1, <4>2
    <3>3. \A i, j \in 1..Len(log') :
            log'[i].position # None /\ log'[i].position = log'[j].position
            => log'[i].stamp = log'[j].stamp
      <4>1. SUFFICES ASSUME NEW i \in 1..Len(log'), NEW j \in 1..Len(log'),
                            log'[i].position # None,
                            log'[i].position = log'[j].position
                     PROVE  log'[i].stamp = log'[j].stamp
        OBVIOUS
      <4>2. CASE /\ i \in 1..Len(log) /\ log'[i] = log[i]
                 /\ j \in 1..Len(log) /\ log'[j] = log[j]
        BY <4>1, <4>2 DEF Stored, ExactlyOnce
      <4>3. CASE /\ i \in 1..Len(log) /\ log'[i] = log[i]
                 /\ log'[j] = Framed(req, stamp)
        BY <1>6, <3>2, <4>1, <4>3
      <4>4. CASE /\ j \in 1..Len(log) /\ log'[j] = log[j]
                 /\ log'[i] = Framed(req, stamp)
        BY <1>6, <3>2, <4>1, <4>4
      <4>5. CASE log'[i] = Framed(req, stamp) /\ log'[j] = Framed(req, stamp)
        BY <4>5
      <4>6. QED
        BY <1>5, <4>2, <4>3, <4>4, <4>5
    <3>4. QED
      BY <3>1, <3>3 DEF ExactlyOnce
  <2>8. QED
    BY <1>7, <2>5, <2>6, <2>7 DEF Stored
<1>10. QED
  BY <1>8, <1>9

LEMMA StoredNext == Typed /\ Stored /\ [Next]_vars => Stored'
<1> SUFFICES ASSUME Typed, Stored, [Next]_vars PROVE Stored'
  OBVIOUS
<1>1. ASSUME UNCHANGED <<store, history>> PROVE Stored'
  BY <1>1, StoredUnchanged DEF store, history, Stored, StoreOK
<1>2. CASE UNCHANGED vars
  BY <1>1, <1>2 DEF vars
<1>3. ASSUME NEW c \in Calls, Expire(c) \/ Remove(c) PROVE Stored'
  <2>1. (Live(stream) /\ Delete) \/ UNCHANGED <<store, history>>
    BY <1>3 DEF Expire, Remove
  <2>2. QED
    BY <1>1, <2>1, StoredDelete
<1>4. ASSUME NEW c \in Calls, Plan(c) PROVE Stored'
  <2>1. UNCHANGED <<stream, log, producers, dependents, commits, landed>>
    BY <1>4 DEF Plan, store
  <2>2. \A a \in acks' : a \in acks \/ a.stamp = 0
    BY <1>4 DEF Plan
  <2>3. QED
    BY <2>1, <2>2, StoredUnchanged DEF Stored, StoreOK
<1>5. ASSUME NEW c \in Calls, Commit(c) PROVE Stored'
  <2>1. CASE AppendRejected(fiber[c])
    BY <1>1, <1>5, <2>1 DEF Commit, Replan
  <2>2. CASE ~AppendRejected(fiber[c])
    BY <1>5, <2>2, StoredAccept DEF Commit
  <2>3. QED
    BY <2>1, <2>2
<1>6. ASSUME NEW c \in Calls, Touch(c) PROVE Stored'
  <2>1. UNCHANGED <<log, producers, dependents, history>>
    BY <1>6 DEF Touch
  <2>2. CASE UNCHANGED stream
    BY <1>1, <2>1, <2>2 DEF store
  <2>3. CASE stream' # stream
    <3>1. /\ stream # None /\ fiber[c].seen # None /\ fiber[c].seen.ttl # None
          /\ stream' = [stream EXCEPT !.expiresAt = fiber[c].at + fiber[c].seen.ttl]
      BY <1>6, <2>3 DEF Touch, Live, At, Typed, Fibers, FiberOK
    <3>2. stream \in StreamRecord
      BY <3>1 DEF Typed, TypeOK, Optional
    <3>3. stream'.offset = stream.offset
      BY <3>1, <3>2 DEF StreamRecord
    <3>4. stream' # None
      <4>1. fiber[c].at + fiber[c].seen.ttl \in Nat
        BY <3>1 DEF Typed, TypeOK, Fiber, Optional, StreamRecord
      <4>2. stream' \in StreamRecord
        BY <3>1, <3>2, <4>1 DEF StreamRecord, Optional
      <4>3. QED
        BY <4>2, RecordAssumption
    <3>5. QED
      BY <2>1, <3>1, <3>3, <3>4, StoredUnchanged DEF history
  <2>4. QED
    BY <2>2, <2>3
<1>7. CASE Fork
  BY <1>7, StoredUnchanged DEF Fork, Live, history, Stored, StoreOK
<1>8. CASE Unfork
  <2>1. CASE stream.softDeleted
    BY <1>8, <2>1, StoredPurge DEF Unfork
  <2>2. CASE ~stream.softDeleted
    BY <1>8, <2>2, StoredUnchanged DEF Unfork, history, Stored, StoreOK
  <2>3. QED
    BY <2>1, <2>2
<1>9. ASSUME NEW c \in Calls,
             \/ \E req \in Requests : Start(c, req)
             \/ ReadRecord(c) \/ Judge(c) \/ Reread(c) \/ NextDeadline(c) \/ ReadClock(c)
             \/ Interrupt(c)
      PROVE  Stored'
  BY <1>1, <1>9 DEF Start, ReadRecord, Judge, Reread, NextDeadline, ReadClock, Interrupt
<1>10. CASE Tick
  BY <1>1, <1>10 DEF Tick
<1>11. QED
  BY <1>2, <1>3, <1>4, <1>5, <1>6, <1>7, <1>8, <1>9, <1>10, StoredCreate DEF Next

(***************************************************************************)
(* No position is stored twice, whatever the retries and interleavings:    *)
(* the producer precondition of the commit is enough.                      *)
(***************************************************************************)
THEOREM ExactlyOnceHolds == Spec => []ExactlyOnce
<1>1. Typed /\ Stored => ExactlyOnce
  BY DEF Stored
<1>2. Init => Typed /\ Stored
  BY TypedInit, StoredInit
<1>3. Typed /\ Stored /\ [Next]_vars => (Typed /\ Stored)'
  BY TypedNext, StoredNext
<1>4. QED
  BY <1>1, <1>2, <1>3, PTL DEF Spec
-----------------------------------------------------------------------------
LEMMA DuplicateNext ==
  Typed /\ Stored /\ DuplicateIsTruthful /\ [Next]_vars => DuplicateIsTruthful'
<1> SUFFICES ASSUME Typed, Stored, DuplicateIsTruthful, [Next]_vars
             PROVE  DuplicateIsTruthful'
  OBVIOUS
<1>1. ASSUME acks' = {} PROVE DuplicateIsTruthful'
  BY <1>1 DEF DuplicateIsTruthful
<1>2. ASSUME landed \subseteq landed',
             \A a \in acks' : a \in acks \/ a.status # "Duplicate"
      PROVE  DuplicateIsTruthful'
  BY <1>2 DEF DuplicateIsTruthful
<1>3. CASE UNCHANGED <<landed, acks>>
  BY <1>2, <1>3
<1>4. ASSUME NEW c \in Calls, Expire(c) \/ Remove(c) PROVE DuplicateIsTruthful'
  <2>1. acks' = {} \/ UNCHANGED <<landed, acks>>
    BY <1>4 DEF Expire, Remove, Delete, Purge, history
  <2>2. QED
    BY <1>1, <1>3, <2>1
<1>5. ASSUME NEW c \in Calls, Plan(c) PROVE DuplicateIsTruthful'
  <2> DEFINE f == fiber[c]
             p == f.req.position
             state == IF p = None THEN None ELSE producers[p.id]
             new == [req |-> f.req, offset |-> f.seen.offset, stamp |-> 0,
                     status |-> IF Verdict(f.seen, state, f.req) = "Duplicate"
                                THEN "Duplicate" ELSE "Appended"]
  <2>1. landed' = landed /\ (acks' = acks \/ acks' = acks \cup {new})
    BY <1>5 DEF Plan
  <2>2. CASE new.status # "Duplicate"
    BY <1>2, <2>1, <2>2
  <2>3. CASE new.status = "Duplicate"
    <3>1. Verdict(f.seen, state, f.req) = "Duplicate"
      BY <2>3
    <3>2. p # None /\ ValidateProducer(producers[p.id], p) = "Duplicate"
      BY <3>1 DEF Verdict
    <3>3. p \in Position
      <4>1. f.req \in AppendRequest
        BY <1>5, RequestsAssumption
        DEF Typed, Fibers, FiberOK, Plan, At, Request, CreateRequest, PlainRequest
      <4>2. QED
        BY <3>2, <4>1 DEF AppendRequest, Optional
    <3>4. /\ p.id \in ProducerIds /\ p.epoch \in Nat /\ p.seq \in Nat
          /\ p = [id |-> p.id, epoch |-> p.epoch, seq |-> p.seq]
      BY <3>3 DEF Position
    <3>5. /\ producers[p.id] # None /\ producers[p.id] \in ProducerState
      BY <3>2, <3>4 DEF Typed, TypeOK, Optional, ValidateProducer
    <3>6. p.epoch = producers[p.id].epoch /\ p.seq \in 0..producers[p.id].lastSeq
      BY <3>2, <3>4, <3>5 DEF ValidateProducer, ProducerState
    <3>7. \E x \in landed : x.position = p
      BY <3>4, <3>5, <3>6 DEF Stored, LandedOK
    <3>8. QED
      BY <2>1, <3>7 DEF DuplicateIsTruthful
  <2>4. QED
    BY <2>2, <2>3
<1>6. ASSUME NEW c \in Calls, Commit(c) PROVE DuplicateIsTruthful'
  <2>1. CASE UNCHANGED history
    BY <1>3, <2>1 DEF history
  <2>2. CASE Accept(c)
    <3>1. landed \subseteq landed'
      BY <2>2 DEF Accept
    <3>2. \A a \in acks' : a \in acks \/ a.status # "Duplicate"
      BY <2>2 DEF Accept
    <3>3. QED
      BY <1>2, <3>1, <3>2
  <2>3. QED
    BY <1>6, <2>1, <2>2 DEF Commit, Replan
<1>7. CASE Unfork
  <2>1. acks' = {} \/ UNCHANGED <<landed, acks>>
    BY <1>7 DEF Unfork, Purge, history
  <2>2. QED
    BY <1>1, <1>3, <2>1
<1>8. ASSUME NEW c \in Calls,
             \/ \E req \in Requests : Start(c, req)
             \/ ReadRecord(c) \/ Judge(c) \/ Reread(c) \/ NextDeadline(c) \/ ReadClock(c)
             \/ Touch(c) \/ Create(c) \/ Interrupt(c)
      PROVE  UNCHANGED <<landed, acks>>
  BY <1>8 DEF Start, ReadRecord, Judge, Reread, NextDeadline, ReadClock, Touch, Create,
              Interrupt, history
<1>9. CASE Fork \/ Tick \/ UNCHANGED vars
  BY <1>3, <1>9 DEF Fork, Tick, history, vars
<1>10. QED
  BY <1>3, <1>4, <1>5, <1>6, <1>7, <1>8, <1>9 DEF Next

(***************************************************************************)
(* A Duplicate answer acknowledges a position the stream accepted: the     *)
(* stored state covers all the positions that came before it.              *)
(***************************************************************************)
THEOREM DuplicateTruthful == Spec => []DuplicateIsTruthful
<1>1. Init => Typed /\ Stored /\ DuplicateIsTruthful
  BY TypedInit, StoredInit DEF Init, DuplicateIsTruthful
<1>2. Typed /\ Stored /\ DuplicateIsTruthful /\ [Next]_vars
      => (Typed /\ Stored /\ DuplicateIsTruthful)'
  BY TypedNext, StoredNext, DuplicateNext
<1>3. QED
  BY <1>1, <1>2, PTL DEF Spec
-----------------------------------------------------------------------------
(***************************************************************************)
(* The refinement: each step is a step of DurableStream or changes nothing *)
(* it can see.                                                             *)
(***************************************************************************)
\* Both modules compute with the same operators on requests and positions.
LEMMA SameOperators ==
  /\ \A state, p : DS!ValidateProducer(state, p) = ValidateProducer(state, p)
  /\ \A p : DS!ProposedState(p) = ProposedState(p)
  /\ \A req, stamp : DS!Batch(req, stamp) = Batch(req, stamp)
BY DEF DS!ValidateProducer, ValidateProducer, DS!ProposedState, ProposedState,
       DS!Batch, Batch, DS!Framed, Framed

LEMMA StatusUnchanged ==
  ASSUME UNCHANGED <<stream, log, producers, commits>>
  PROVE  UNCHANGED DS!vars
BY DEF DS!vars, Status

LEMMA DeleteImplements ==
  ASSUME Typed, Live(stream), Delete
  PROVE  DS!Purge \/ DS!SoftDelete
<1>1. CASE dependents
  <2>1. stream \in StreamRecord /\ ~stream.softDeleted
    BY DEF Typed, TypeOK, Live, Optional
  <2>2. stream' = [stream EXCEPT !.softDeleted = TRUE]
    BY <1>1 DEF Delete
  <2>3. stream' \in StreamRecord /\ stream'.softDeleted
    BY <2>1, <2>2 DEF StreamRecord
  <2>4. Status \in {"open", "closed"} /\ Status' = "gone"
    BY <2>1, <2>3, RecordAssumption DEF Status
  <2>5. QED
    BY <1>1, <2>4 DEF Delete, DS!SoftDelete
<1>2. CASE ~dependents
  BY <1>2 DEF Delete, Purge, Live, Status, DS!Purge, DS!NoProducers, NoProducers
<1>3. QED
  BY <1>1, <1>2

LEMMA AcceptImplements ==
  ASSUME Typed, Stored, NEW c \in Calls, At(c, "commit"),
         ~AppendRejected(fiber[c]), Accept(c)
  PROVE  DS!Write
<1> DEFINE f == fiber[c]
           req == f.req
           p == req.position
<1>1. req \in Requests /\ req.kind = "append" /\ f.seen # None
      /\ Verdict(f.seen, f.saved, req) = "Planned"
  BY DEF Typed, Fibers, FiberOK, At
<1>2. /\ stream # None /\ ~stream.softDeleted /\ ~stream.closed
      /\ f.seen.offset = Len(log)
  BY DEF AppendRejected, Live, Stored, StoreOK
<1>3. stream \in StreamRecord /\ req \in AppendRequest
  BY <1>1, <1>2, RequestsAssumption
  DEF Typed, TypeOK, Optional, Request, CreateRequest, PlainRequest
<1>4. ValidateProducer(f.saved, p) # "Planned"
  BY DEF ValidateProducer
<1>5. /\ p # None => ValidateProducer(f.saved, p) = "Accepted"
      /\ req.expected # None => req.expected = f.seen.offset
      /\ req.count > 0 \/ req.close
  BY <1>1, <1>3, <1>4 DEF Verdict, CloseOnly, AppendRequest
<1>6. p # None => producers[p.id] = f.saved
  BY DEF AppendRejected
<1>7. /\ stream' # None /\ ~stream'.softDeleted /\ stream'.closed = req.close
  <2>1. stream' \in StreamRecord
    BY TypedAccept
  <2>2. stream'.softDeleted = stream.softDeleted
        /\ stream'.closed = (req.close \/ stream.closed)
    BY <1>3 DEF Accept, StreamRecord
  <2>3. QED
    BY <1>2, <1>3, <2>1, <2>2, RecordAssumption DEF StreamRecord, AppendRequest
<1>8. Status = "open" /\ Status' = IF req.close THEN "closed" ELSE "open"
  BY <1>2, <1>7 DEF Status
<1>9. /\ commits' = commits + 1 /\ log' = log \o Batch(req, commits')
      /\ IF p = None
         THEN UNCHANGED producers
         ELSE producers' = [producers EXCEPT ![p.id] = ProposedState(p)]
  BY DEF Accept
<1>10. req.expected # None => req.expected = Len(log)
  BY <1>2, <1>5
<1>11. IF p = None
       THEN UNCHANGED producers
       ELSE /\ ValidateProducer(producers[p.id], p) = "Accepted"
            /\ producers' = [producers EXCEPT ![p.id] = ProposedState(p)]
  BY <1>5, <1>6, <1>9
<1>12. /\ log' = log \o Batch(req, commits') /\ commits' = commits + 1
       /\ req.count > 0 \/ req.close
  BY <1>5, <1>9
<1>13. SUFFICES \E r \in Requests :
         /\ r.kind = "append"
         /\ Status = "open"
         /\ commits' = commits + 1
         /\ r.expected # None => r.expected = Len(log)
         /\ IF r.position = None
            THEN UNCHANGED producers
            ELSE /\ ValidateProducer(producers[r.position.id], r.position) = "Accepted"
                 /\ producers' = [producers EXCEPT
                                    ![r.position.id] = ProposedState(r.position)]
         /\ r.count > 0 \/ r.close
         /\ log' = log \o Batch(r, commits')
         /\ Status' = IF r.close THEN "closed" ELSE "open"
  BY SameOperators, Zenon DEF DS!Write
<1> USE <1>1
<1>14. WITNESS req \in Requests
<1>15. QED
  BY <1>1, <1>8, <1>10, <1>11, <1>12

LEMMA CreateImplements ==
  ASSUME Typed, Stored, NEW c \in Calls, Create(c)
  PROVE  DS!Create \/ UNCHANGED DS!vars
<1> DEFINE req == fiber[c].req
<1>1. CASE stream # None
  BY <1>1, StatusUnchanged DEF Create, store, history
<1>2. CASE stream = None
  <2>1. req \in Requests /\ req.kind = "create"
    BY DEF Typed, Fibers, FiberOK, Create, At
  <2>2. /\ log' = Batch(req, commits') /\ commits' = commits + 1
        /\ producers' = NoProducers
        /\ ~stream'.softDeleted /\ stream'.closed = req.close
    BY <1>2 DEF Create, Stored, StoreOK
  <2>3. stream' # None
    BY <1>2, CreatedRecord, RecordAssumption
  <2>4. Status = "absent"
    BY <1>2 DEF Status
  <2>5. Status' = IF req.close THEN "closed" ELSE "open"
    BY <2>2, <2>3 DEF Status
  <2>6. SUFFICES \E r \in Requests :
           /\ r.kind = "create"
           /\ Status = "absent"
           /\ commits' = commits + 1
           /\ log' = Batch(r, commits')
           /\ Status' = IF r.close THEN "closed" ELSE "open"
           /\ producers' = NoProducers
    BY SameOperators, Zenon DEF DS!Create, DS!NoProducers, NoProducers
  <2> USE <2>1
  <2>7. WITNESS req \in Requests
  <2>8. QED
    BY <2>1, <2>2, <2>4, <2>5
<1>3. QED
  BY <1>1, <1>2

LEMMA StepImplements == Typed /\ Stored /\ [Next]_vars => [DS!Next]_(DS!vars)
<1> SUFFICES ASSUME Typed, Stored, [Next]_vars
             PROVE  DS!Next \/ UNCHANGED DS!vars
  OBVIOUS
<1>1. ASSUME NEW c \in Calls, Expire(c) \/ Remove(c)
      PROVE  DS!Next \/ UNCHANGED DS!vars
  <2>1. (Live(stream) /\ Delete) \/ UNCHANGED <<store, history>>
    BY <1>1 DEF Expire, Remove
  <2>2. QED
    BY <2>1, DeleteImplements, StatusUnchanged DEF DS!Next, store, history
<1>2. ASSUME NEW c \in Calls, Commit(c)
      PROVE  DS!Next \/ UNCHANGED DS!vars
  <2>1. CASE AppendRejected(fiber[c])
    BY <1>2, <2>1, StatusUnchanged DEF Commit, Replan, store, history
  <2>2. CASE ~AppendRejected(fiber[c])
    BY <1>2, <2>2, AcceptImplements DEF Commit, DS!Next
  <2>3. QED
    BY <2>1, <2>2
<1>3. ASSUME NEW c \in Calls, Touch(c)
      PROVE  UNCHANGED DS!vars
  <2>1. UNCHANGED <<log, producers, commits>>
    BY <1>3 DEF Touch, history
  <2>2. CASE UNCHANGED stream
    BY <2>1, <2>2, StatusUnchanged
  <2>3. CASE stream' # stream
    <3>1. /\ stream # None /\ fiber[c].seen # None /\ fiber[c].seen.ttl # None
          /\ stream' = [stream EXCEPT !.expiresAt = fiber[c].at + fiber[c].seen.ttl]
      BY <1>3, <2>3 DEF Touch, Live, At, Typed, Fibers, FiberOK
    <3>2. stream \in StreamRecord /\ fiber[c].at + fiber[c].seen.ttl \in Nat
      BY <3>1 DEF Typed, TypeOK, Fiber, Optional, StreamRecord
    <3>3. /\ stream' \in StreamRecord
          /\ stream'.softDeleted = stream.softDeleted
          /\ stream'.closed = stream.closed
      BY <3>1, <3>2 DEF StreamRecord, Optional
    <3>4. stream' # None
      BY <3>3, RecordAssumption
    <3>5. Status' = Status
      BY <3>1, <3>3, <3>4 DEF Status
    <3>6. QED
      BY <2>1, <3>5 DEF DS!vars
  <2>4. QED
    BY <2>2, <2>3
<1>4. CASE Unfork
  <2>1. CASE stream.softDeleted
    <3>1. stream # None
      BY <1>4 DEF Unfork, Stored, StoreOK
    <3>2. QED
      BY <1>4, <2>1, <3>1
      DEF Unfork, Purge, Status, DS!Next, DS!Purge, DS!NoProducers, NoProducers
  <2>2. CASE ~stream.softDeleted
    BY <1>4, <2>2, StatusUnchanged DEF Unfork, history
  <2>3. QED
    BY <2>1, <2>2
<1>5. ASSUME NEW c \in Calls,
             \/ \E req \in Requests : Start(c, req)
             \/ ReadRecord(c) \/ Judge(c) \/ Reread(c) \/ NextDeadline(c) \/ ReadClock(c)
             \/ Plan(c) \/ Interrupt(c)
      PROVE  UNCHANGED DS!vars
  BY <1>5, StatusUnchanged
  DEF Start, ReadRecord, Judge, Reread, NextDeadline, ReadClock, Plan, Interrupt, store, history
<1>6. CASE Fork \/ Tick \/ UNCHANGED vars
  BY <1>6, StatusUnchanged DEF Fork, Tick, vars, store, history
<1>7. QED
  BY <1>1, <1>2, <1>3, <1>4, <1>5, <1>6, CreateImplements DEF Next, DS!Next

(***************************************************************************)
(* Planning on old reads and committing under preconditions implements the *)
(* stream whose operations are checked and applied in one step.            *)
(***************************************************************************)
THEOREM Refinement == Spec => ImplementsDurableStream
<1>1. Init => DS!Init
  BY DEF Init, DS!Init, Status, NoProducers, DS!NoProducers
<1>2. Init => Typed /\ Stored
  BY TypedInit, StoredInit
<1>3. Typed /\ Stored /\ [Next]_vars => (Typed /\ Stored)'
  BY TypedNext, StoredNext
<1>4. QED
  BY <1>1, <1>2, <1>3, StepImplements, PTL DEF Spec, ImplementsDurableStream, DS!Spec
-----------------------------------------------------------------------------
(***************************************************************************)
(* The safety of StreamProtocol beyond exactly-once: what is acknowledged, *)
(* what is final, what a stale read is still good for, and what a lost     *)
(* commit means.                                                           *)
(***************************************************************************)

(***************************************************************************)
(* What a step does to the store.  Most only move a call; those that touch *)
(* the record otherwise renew its deadline and give answers about nothing. *)
(***************************************************************************)
Agrees(record, other) ==
  /\ record = None <=> other = None
  /\ record # None => /\ other.offset = record.offset /\ other.closed = record.closed
                      /\ other.softDeleted = record.softDeleted
                      /\ other.lastSeq = record.lastSeq
                      /\ other.contentType = record.contentType
                      /\ other.ttl = record.ttl

Quiet ==
  /\ UNCHANGED <<log, producers, commits, landed, born, stray>>
  /\ \A a \in acks' : a \in acks \/ a.stamp = 0
  /\ Agrees(stream, stream')

Withdraws == Live(stream) /\ Delete /\ \E c \in Calls : Expire(c) \/ Remove(c)

Collects == /\ dependents /\ stream # None /\ stream.softDeleted
            /\ Purge /\ commits' = commits + 1 /\ born' = born

Creates(c) == Create(c) /\ stream = None

Lands(c) == At(c, "commit") /\ ~AppendRejected(fiber[c]) /\ Accept(c)

LEMMA QuietTouch ==
  ASSUME Typed, NEW c \in Calls, Touch(c)
  PROVE  Quiet
<1>1. UNCHANGED <<log, producers, history>>
  BY DEF Touch
<1>2. CASE UNCHANGED stream
  BY <1>1, <1>2 DEF Quiet, Agrees, history
<1>3. CASE stream' # stream
  <2>1. /\ stream # None /\ fiber[c].seen # None /\ fiber[c].seen.ttl # None
        /\ stream' = [stream EXCEPT !.expiresAt = fiber[c].at + fiber[c].seen.ttl]
    BY <1>3 DEF Touch, Live, At, Typed, Fibers, FiberOK
  <2>2. stream \in StreamRecord
    BY <2>1 DEF Typed, TypeOK, Optional
  <2>3. fiber[c].at + fiber[c].seen.ttl \in Nat
    BY <2>1 DEF Typed, TypeOK, Fiber, Optional, StreamRecord
  <2>4. stream' \in StreamRecord
    BY <2>1, <2>2, <2>3 DEF StreamRecord, Optional
  <2>5. stream' # None
    BY <2>4, RecordAssumption
  <2>6. Agrees(stream, stream')
    BY <2>1, <2>2, <2>5 DEF StreamRecord, Agrees
  <2>7. QED
    BY <1>1, <2>6 DEF Quiet, history
<1>4. QED
  BY <1>2, <1>3

LEMMA StoreStep ==
  ASSUME Typed, Stored, [Next]_vars
  PROVE  \/ Quiet \/ Withdraws \/ Collects
         \/ \E c \in Calls : Creates(c) \/ Lands(c)
<1>1. ASSUME UNCHANGED <<store, history>> PROVE Quiet
  BY <1>1 DEF Quiet, Agrees, store, history
<1>2. CASE UNCHANGED vars
  BY <1>1, <1>2 DEF vars
<1>3. ASSUME NEW c \in Calls, Expire(c) \/ Remove(c) PROVE Quiet \/ Withdraws
  <2>1. Withdraws \/ UNCHANGED <<store, history>>
    BY <1>3 DEF Expire, Remove, Withdraws
  <2>2. QED
    BY <1>1, <2>1
<1>4. ASSUME NEW c \in Calls, Plan(c) PROVE Quiet
  <2>1. UNCHANGED <<store, commits, landed, born, stray>>
    BY <1>4 DEF Plan
  <2>2. \A a \in acks' : a \in acks \/ a.stamp = 0
    BY <1>4 DEF Plan
  <2>3. QED
    BY <2>1, <2>2 DEF Quiet, Agrees, store
<1>5. ASSUME NEW c \in Calls, Commit(c) PROVE Quiet \/ Lands(c)
  <2>1. CASE AppendRejected(fiber[c])
    BY <1>1, <1>5, <2>1 DEF Commit, Replan
  <2>2. CASE ~AppendRejected(fiber[c])
    BY <1>5, <2>2 DEF Commit, Lands
  <2>3. QED
    BY <2>1, <2>2
<1>6. ASSUME NEW c \in Calls, Create(c) PROVE Quiet \/ Creates(c)
  BY <1>1, <1>6 DEF Create, Creates
<1>7. CASE Fork
  BY <1>7 DEF Fork, history, Quiet, Agrees
<1>8. CASE Unfork
  <2>1. CASE stream.softDeleted
    BY <1>8, <2>1 DEF Unfork, Collects, Stored, StoreOK
  <2>2. CASE ~stream.softDeleted
    BY <1>8, <2>2 DEF Unfork, history, Quiet, Agrees
  <2>3. QED
    BY <2>1, <2>2
<1>9. ASSUME NEW c \in Calls,
             \/ \E req \in Requests : Start(c, req)
             \/ ReadRecord(c) \/ Judge(c) \/ Reread(c) \/ NextDeadline(c) \/ ReadClock(c)
             \/ Interrupt(c)
      PROVE  Quiet
  BY <1>1, <1>9 DEF Start, ReadRecord, Judge, Reread, NextDeadline, ReadClock, Interrupt
<1>10. CASE Tick
  BY <1>1, <1>10 DEF Tick
<1>11. QED
  BY <1>2, <1>3, <1>4, <1>5, <1>6, <1>7, <1>8, <1>9, <1>10, QuietTouch DEF Next

\* A deletion purges, or leaves everything but the mark that it is deleted.
LEMMA Withdrawn ==
  ASSUME Typed, Withdraws
  PROVE  /\ commits \in Nat /\ commits' = commits + 1 /\ born' = born
         /\ \/ Purge
            \/ /\ UNCHANGED <<log, producers, landed, acks, stray>>
               /\ stream \in StreamRecord /\ stream' \in StreamRecord
               /\ stream' = [stream EXCEPT !.softDeleted = TRUE]
<1>1. commits \in Nat /\ commits' = commits + 1 /\ born' = born
  BY DEF Typed, TypeOK, Withdraws, Delete
<1>2. stream \in StreamRecord
  BY DEF Typed, TypeOK, Withdraws, Live, Optional
<1>3. CASE dependents
  BY <1>1, <1>2, <1>3 DEF Withdraws, Delete, StreamRecord
<1>4. CASE ~dependents
  BY <1>1, <1>4 DEF Withdraws, Delete
<1>5. QED
  BY <1>3, <1>4

\* What a planned append was compared with.
LEMMA PlannedMeans ==
  ASSUME NEW record, NEW state, NEW req, Verdict(record, state, req) = "Planned"
  PROVE  /\ Live(record) /\ ~record.closed
         /\ req.expected # None => req.expected = record.offset
         /\ ~CloseOnly(req) => /\ req.contentType = record.contentType
                               /\ req.count # 0
                               /\ req.streamSeq # 0 => ~(req.streamSeq <= record.lastSeq)
<1>1. \A p : ValidateProducer(state, p) # "Planned"
  BY DEF ValidateProducer
<1>2. QED
  BY <1>1 DEF Verdict

(***************************************************************************)
(* An append that lands: its request, and what its commit leaves.          *)
(***************************************************************************)
LEMMA Landed ==
  ASSUME Typed, Stored, NEW c \in Calls, Lands(c)
  PROVE  LET f == fiber[c]
             req == f.req
             stamp == commits + 1
         IN  /\ f \in Fiber /\ req \in AppendRequest /\ req \in Requests
             /\ stream \in StreamRecord /\ f.seen \in StreamRecord
             /\ f.seen.offset = stream.offset /\ stream.offset = Len(log)
             /\ ~stream.closed /\ ~stream.softDeleted
             /\ Verdict(f.seen, f.saved, req) = "Planned"
             /\ commits \in Nat /\ commits' = stamp /\ born' = born
             /\ stray' = (stray \/ f.life # born)
             /\ stream' \in StreamRecord
             /\ stream'.offset = Len(log) + req.count
             /\ stream'.closed = req.close
             /\ stream'.softDeleted = FALSE
             /\ stream'.contentType = stream.contentType
             /\ stream'.lastSeq = IF req.streamSeq # 0 THEN req.streamSeq ELSE stream.lastSeq
             /\ acks' = acks \cup {[req |-> req, status |-> "Appended",
                                    offset |-> Len(log) + req.count, stamp |-> stamp]}
             /\ log \in Seq(Message) /\ log' \in Seq(Message)
             /\ Len(log') = Len(log) + req.count
             /\ \A i \in 1..Len(log) : log'[i] = log[i]
             /\ \A i \in 1..req.count : log'[Len(log) + i] = Framed(req, stamp)
<1> DEFINE f == fiber[c]
           req == f.req
           stamp == commits + 1
<1>1. f \in Fiber /\ req \in AppendRequest /\ req \in Requests
  BY RequestsAssumption
  DEF Typed, TypeOK, Fibers, FiberOK, Lands, At, Request, CreateRequest, PlainRequest
<1>2. stream \in StreamRecord /\ f.seen \in StreamRecord
  BY <1>1 DEF Typed, TypeOK, Fibers, FiberOK, Lands, At, AppendRejected, Live, Optional, Fiber
<1>3. /\ f.seen.offset = stream.offset /\ stream.offset = Len(log)
      /\ ~stream.closed /\ ~stream.softDeleted
      /\ Verdict(f.seen, f.saved, req) = "Planned"
  <2>1. stream # None
    BY <1>2, RecordAssumption
  <2>2. QED
    BY <2>1 DEF Lands, AppendRejected, Live, Stored, StoreOK, Typed, Fibers, FiberOK, At
<1>4. /\ commits \in Nat /\ commits' = stamp /\ born' = born
      /\ stray' = (stray \/ f.life # born)
  BY DEF Typed, TypeOK, Lands, Accept
<1>5. /\ req.count \in Nat /\ req.close \in BOOLEAN /\ req.streamSeq \in Nat
      /\ req.kind = "append"
  BY <1>1 DEF AppendRequest
<1>6. /\ stream' \in StreamRecord
      /\ stream'.offset = Len(log) + req.count /\ stream'.closed = req.close
      /\ stream'.softDeleted = FALSE
      /\ stream'.contentType = stream.contentType
      /\ stream'.lastSeq = IF req.streamSeq # 0 THEN req.streamSeq ELSE stream.lastSeq
  <2>1. stream' = [stream EXCEPT
           !.offset = f.seen.offset + req.count,
           !.closed = req.close \/ @,
           !.lastSeq = IF req.streamSeq # 0 THEN req.streamSeq ELSE @,
           !.expiresAt = IF f.seen.ttl = None THEN @ ELSE f.at + f.seen.ttl]
    BY DEF Lands, Accept
  <2>2. stream' \in StreamRecord
    BY TypedAccept DEF Lands
  <2>3. QED
    BY <1>2, <1>3, <1>5, <2>1, <2>2 DEF StreamRecord
<1>7. acks' = acks \cup {[req |-> req, status |-> "Appended",
                          offset |-> Len(log) + req.count, stamp |-> stamp]}
  BY <1>3 DEF Lands, Accept
<1>8. /\ log \in Seq(Message) /\ log' \in Seq(Message)
      /\ Len(log') = Len(log) + req.count
      /\ \A i \in 1..Len(log) : log'[i] = log[i]
      /\ \A i \in 1..req.count : log'[Len(log) + i] = Framed(req, stamp)
  <2> DEFINE batch == Batch(req, stamp)
  <2>1. /\ batch \in Seq(Message) /\ Len(batch) = req.count
        /\ \A i \in 1..req.count : batch[i] = Framed(req, stamp)
    BY <1>1, <1>4, <1>5, BatchType
  <2>2. log \in Seq(Message) /\ log' = log \o batch
    BY DEF Typed, TypeOK, Lands, Accept
  <2> HIDE DEF batch
  <2>3. /\ Len(log') = Len(log) + req.count
        /\ \A i \in 1..Len(log) : log'[i] = log[i]
        /\ \A i \in 1..req.count : log'[Len(log) + i] = Framed(req, stamp)
    <3>1. /\ Len(log \o batch) = Len(log) + Len(batch)
          /\ \A i \in 1..Len(log) : (log \o batch)[i] = log[i]
          /\ \A i \in 1..Len(batch) : (log \o batch)[Len(log) + i] = batch[i]
      BY <2>1, <2>2, Concatenation
    <3>2. QED
      BY <2>1, <2>2, <3>1
  <2>4. log' \in Seq(Message)
    BY <2>1, <2>2
  <2>5. QED
    BY <2>2, <2>3, <2>4
<1>9. QED
  BY <1>1, <1>2, <1>3, <1>4, <1>6, <1>7, <1>8
-----------------------------------------------------------------------------
(***************************************************************************)
(* A closed stream takes no more messages and no more producer states, and *)
(* stays closed: a close needs no change of the tail to be seen by the     *)
(* commits that were planned before it.                                    *)
(***************************************************************************)
THEOREM ClosedStaysClosed == Spec => ClosedIsFinal
<1>1. ASSUME Typed, Stored, [Next]_vars,
             stream # None, stream.closed, stream' # None
      PROVE  log' = log /\ producers' = producers /\ stream'.closed
  <2>1. CASE Quiet
    BY <1>1, <2>1 DEF Quiet, Agrees
  <2>2. CASE Withdraws
    <3>1. CASE Purge
      BY <1>1, <3>1 DEF Purge
    <3>2. CASE ~Purge
      BY <1>1, <2>2, <3>2, Withdrawn DEF StreamRecord
    <3>3. QED
      BY <3>1, <3>2
  <2>3. CASE Collects
    BY <1>1, <2>3 DEF Collects, Purge
  <2>4. ASSUME NEW c \in Calls, Creates(c) PROVE FALSE
    BY <1>1, <2>4 DEF Creates
  <2>5. ASSUME NEW c \in Calls, Lands(c) PROVE FALSE
    BY <1>1, <2>5 DEF Lands, AppendRejected
  <2>6. QED
    BY <1>1, <2>1, <2>2, <2>3, <2>4, <2>5, StoreStep
<1>2. Typed /\ Stored /\ [Next]_vars
        => [stream # None /\ stream.closed /\ stream' # None
              => log' = log /\ producers' = producers /\ stream'.closed]_vars
  BY <1>1
<1>3. Init => Typed /\ Stored
  BY TypedInit, StoredInit
<1>4. Typed /\ Stored /\ [Next]_vars => (Typed /\ Stored)'
  BY TypedNext, StoredNext
<1>5. QED
  BY <1>2, <1>3, <1>4, PTL DEF Spec, ClosedIsFinal
-----------------------------------------------------------------------------
(***************************************************************************)
(* The acknowledgement of a commit names where its batch is: whatever      *)
(* lands afterwards lands behind it, and a purge takes both away.          *)
(***************************************************************************)
Acknowledged ==
  /\ AcknowledgedIsStored
  /\ \A a \in acks : a.stamp # 0 => a.req.kind = "append"

LEMMA AcknowledgedLands ==
  ASSUME Typed, Stored, Acknowledged, NEW c \in Calls, Lands(c)
  PROVE  Acknowledged'
<1> DEFINE f == fiber[c]
           req == f.req
           stamp == commits + 1
           new == [req |-> req, status |-> "Appended",
                   offset |-> Len(log) + req.count, stamp |-> stamp]
<1>1. SUFFICES ASSUME NEW a \in acks', a.stamp # 0
               PROVE  /\ a.req.count <= a.offset /\ a.offset <= Len(log')
                      /\ \A i \in 1..a.req.count :
                           log'[a.offset - a.req.count + i] = Framed(a.req, a.stamp)
                      /\ a.req.expected # None => a.offset = a.req.expected + a.req.count
                      /\ a.req.kind = "append"
  BY DEF Acknowledged, AcknowledgedIsStored
<1>2. /\ req \in AppendRequest /\ f.seen.offset = Len(log)
      /\ Verdict(f.seen, f.saved, req) = "Planned"
      /\ acks' = acks \cup {new} /\ log \in Seq(Message)
      /\ Len(log') = Len(log) + req.count
      /\ \A i \in 1..Len(log) : log'[i] = log[i]
      /\ \A i \in 1..req.count : log'[Len(log) + i] = Framed(req, stamp)
  BY Landed
<1>3. req.count \in Nat /\ Len(log) \in Nat /\ req.kind = "append"
  BY <1>2 DEF AppendRequest
<1>4. CASE a = new
  <2>1. a.req = req /\ a.offset = Len(log) + req.count /\ a.stamp = stamp
    BY <1>4
  <2>2. req.expected # None => req.expected = Len(log)
    BY <1>2, PlannedMeans
  <2>3. a.offset - a.req.count = Len(log)
    BY <1>3, <2>1
  <2>4. \A i \in 1..a.req.count :
          log'[a.offset - a.req.count + i] = Framed(a.req, a.stamp)
    BY <1>2, <2>1, <2>3
  <2> HIDE DEF req
  <2>5. a.req.expected # None => a.offset = a.req.expected + a.req.count
    BY <2>1, <2>2
  <2>6. a.req.count <= a.offset /\ a.offset <= Len(log')
    BY <1>2, <1>3, <2>1
  <2>7. QED
    BY <1>3, <2>1, <2>4, <2>5, <2>6
<1>5. CASE a \in acks
  <2>1. a \in Ack /\ a.req \in Requests /\ a.offset \in Nat
    BY <1>5 DEF Typed, TypeOK, Ack
  <2>2. /\ a.req.count <= a.offset /\ a.offset <= Len(log)
        /\ \A i \in 1..a.req.count :
             log[a.offset - a.req.count + i] = Framed(a.req, a.stamp)
        /\ a.req.expected # None => a.offset = a.req.expected + a.req.count
        /\ a.req.kind = "append"
    BY <1>1, <1>5 DEF Acknowledged, AcknowledgedIsStored
  <2>3. a.req.count \in Nat
    BY <2>1, <2>2, RequestsAssumption
    DEF Request, AppendRequest, CreateRequest, PlainRequest
  <2>4. \A i \in 1..a.req.count : a.offset - a.req.count + i \in 1..Len(log)
    BY <1>3, <2>1, <2>2, <2>3
  <2>5. \A i \in 1..a.req.count :
          log'[a.offset - a.req.count + i] = Framed(a.req, a.stamp)
    BY <1>2, <2>2, <2>4
  <2>6. a.offset <= Len(log')
    BY <1>2, <1>3, <2>1, <2>2
  <2>7. QED
    BY <2>2, <2>5, <2>6
<1>6. QED
  BY <1>2, <1>4, <1>5

LEMMA AcknowledgedNext == Typed /\ Stored /\ Acknowledged /\ [Next]_vars => Acknowledged'
<1> SUFFICES ASSUME Typed, Stored, Acknowledged, [Next]_vars PROVE Acknowledged'
  OBVIOUS
<1>1. ASSUME \A a \in acks' : a.stamp = 0 PROVE Acknowledged'
  BY <1>1 DEF Acknowledged, AcknowledgedIsStored
<1>2. ASSUME log' = log, \A a \in acks' : a \in acks \/ a.stamp = 0 PROVE Acknowledged'
  BY <1>2 DEF Acknowledged, AcknowledgedIsStored
<1>3. CASE Quiet
  BY <1>2, <1>3 DEF Quiet
<1>4. CASE Withdraws
  <2>1. CASE Purge
    BY <1>1, <2>1 DEF Purge
  <2>2. CASE ~Purge
    BY <1>2, <1>4, <2>2, Withdrawn
  <2>3. QED
    BY <2>1, <2>2
<1>5. CASE Collects
  BY <1>1, <1>5 DEF Collects, Purge
<1>6. ASSUME NEW c \in Calls, Creates(c) PROVE Acknowledged'
  BY <1>1, <1>6 DEF Creates, Create, Stored, StoreOK
<1>7. QED
  BY <1>3, <1>4, <1>5, <1>6, AcknowledgedLands, StoreStep

(***************************************************************************)
(* What an append was told it stored is where it was told, whole and in    *)
(* order, and an expected offset was met.                                  *)
(***************************************************************************)
THEOREM AcknowledgedStays == Spec => []AcknowledgedIsStored
<1>1. Init => Typed /\ Stored /\ Acknowledged
  BY TypedInit, StoredInit DEF Init, Acknowledged, AcknowledgedIsStored
<1>2. Typed /\ Stored /\ Acknowledged /\ [Next]_vars => (Typed /\ Stored /\ Acknowledged)'
  BY TypedNext, StoredNext, AcknowledgedNext
<1>3. Acknowledged => AcknowledgedIsStored
  BY DEF Acknowledged
<1>4. QED
  BY <1>1, <1>2, <1>3, PTL DEF Spec
-----------------------------------------------------------------------------
(***************************************************************************)
(* What a record that was read is good for.  As long as the stream is the  *)
(* one it was read from, it has the content type; and as long as the tail  *)
(* is the one that was read and the stream is open, the Stream-Seq too: an *)
(* append that leaves the tail where it was closes the stream.             *)
(***************************************************************************)
StillGood(f) ==
  f.seen # None /\ f.life = born /\ stream # None =>
    /\ f.seen.contentType = stream.contentType
    /\ f.seen.offset <= stream.offset
    /\ f.seen.offset = stream.offset /\ ~stream.closed => f.seen.lastSeq = stream.lastSeq

Lives ==
  /\ born <= commits
  /\ \A c \in Calls : fiber[c].life <= born

Readers == \A c \in Calls : StillGood(fiber[c])

\* A call keeps what it read, or reads the record there is, or ends.
LEMMA ReadStep ==
  ASSUME Typed, [Next]_vars, NEW c \in Calls
  PROVE  \/ fiber'[c].seen = fiber[c].seen /\ fiber'[c].life = fiber[c].life
         \/ /\ fiber'[c].seen = stream /\ fiber'[c].life = born
            /\ UNCHANGED <<store, history>>
         \/ fiber'[c].seen = None /\ fiber'[c].life = 0
<1> DEFINE Kept == fiber'[c].seen = fiber[c].seen /\ fiber'[c].life = fiber[c].life
           Done == fiber'[c].seen = None /\ fiber'[c].life = 0
<1>1. fiber \in [Calls -> Fiber] /\ fiber[c] \in Fiber
  BY DEF Typed, TypeOK
<1>2. ASSUME UNCHANGED fiber PROVE Kept
  BY <1>2
<1>3. ASSUME NEW d \in Calls, Finish(d) PROVE Kept \/ Done
  BY <1>1, <1>3 DEF Finish, Idle
<1>4. ASSUME NEW d \in Calls, NEW req \in Requests, Start(d, req) PROVE Kept \/ Done
  BY <1>1, <1>4 DEF Start, Idle
<1>5. ASSUME NEW d \in Calls, ReadRecord(d) \/ Reread(d)
      PROVE  \/ Kept
             \/ /\ fiber'[c].seen = stream /\ fiber'[c].life = born
                /\ UNCHANGED <<store, history>>
  BY <1>1, <1>5 DEF ReadRecord, Reread, Fiber
<1>6. ASSUME NEW d \in Calls, Judge(d) \/ Expire(d) \/ ReadClock(d) \/ Plan(d)
      PROVE  Kept \/ Done
  BY <1>1, <1>3, <1>6 DEF Judge, Expire, ReadClock, Plan, Fiber
<1>7. ASSUME NEW d \in Calls, NextDeadline(d)
      PROVE  \/ Kept \/ Done
             \/ /\ fiber'[c].seen = stream /\ fiber'[c].life = born
                /\ UNCHANGED <<store, history>>
  BY <1>1, <1>3, <1>7 DEF NextDeadline, Fiber
<1>8. ASSUME NEW d \in Calls, Commit(d) PROVE Kept \/ Done
  BY <1>1, <1>3, <1>8 DEF Commit, Replan, Accept, Fiber
<1>9. ASSUME NEW d \in Calls, Touch(d) \/ Create(d) \/ Remove(d) \/ Interrupt(d)
      PROVE  Kept \/ Done
  BY <1>3, <1>9 DEF Touch, Create, Remove, Interrupt
<1>10. CASE Fork \/ Unfork \/ Tick \/ UNCHANGED vars
  BY <1>2, <1>10 DEF Fork, Unfork, Tick, vars
<1>11. QED
  BY <1>4, <1>5, <1>6, <1>7, <1>8, <1>9, <1>10 DEF Next

LEMMA LivesNext == Typed /\ Stored /\ Lives /\ [Next]_vars => Lives'
<1> SUFFICES ASSUME Typed, Stored, Lives, [Next]_vars PROVE Lives'
  OBVIOUS
<1>1. commits \in Nat /\ born \in Nat /\ \A c \in Calls : fiber[c].life \in Nat
  BY DEF Typed, TypeOK, Fiber
<1>2. born <= born' /\ born' <= commits'
  <2>1. CASE Quiet
    BY <1>1, <2>1 DEF Quiet, Lives
  <2>2. CASE Withdraws
    BY <1>1, <2>2, Withdrawn DEF Lives
  <2>3. CASE Collects
    BY <1>1, <2>3 DEF Collects, Lives
  <2>4. ASSUME NEW c \in Calls, Creates(c) PROVE born' = commits + 1 /\ commits' = commits + 1
    BY <2>4 DEF Creates, Create
  <2>5. ASSUME NEW c \in Calls, Lands(c) PROVE born' = born /\ commits' = commits + 1
    BY <2>5, Landed
  <2>6. QED
    BY <1>1, <2>1, <2>2, <2>3, <2>4, <2>5, StoreStep DEF Lives
<1>3. ASSUME NEW c \in Calls PROVE fiber'[c].life <= born'
  <2>1. fiber'[c].life \in {fiber[c].life, born, 0}
    BY ReadStep
  <2>2. fiber[c].life <= born /\ born' \in Int
    BY <1>1, TypedNext DEF Lives, Typed, TypeOK
  <2>3. QED
    BY <1>1, <1>2, <2>1, <2>2
<1>4. QED
  BY <1>2, <1>3 DEF Lives

\* The record changes, and what was read before stays good or belongs to an
\* earlier stream.
LEMMA ReadersKeep ==
  ASSUME Typed, Stored, Lives, [Next]_vars, NEW c \in Calls, StillGood(fiber[c]),
         fiber'[c].seen = fiber[c].seen, fiber'[c].life = fiber[c].life
  PROVE  StillGood(fiber[c])'
<1> DEFINE seen == fiber[c].seen
<1>1. SUFFICES ASSUME seen # None, fiber[c].life = born', stream' # None
               PROVE  /\ seen.contentType = stream'.contentType
                      /\ seen.offset <= stream'.offset
                      /\ seen.offset = stream'.offset /\ ~stream'.closed
                           => seen.lastSeq = stream'.lastSeq
  BY DEF StillGood
<1>2. commits \in Nat /\ born \in Nat /\ fiber[c].life \in Nat /\ seen \in StreamRecord
  BY <1>1 DEF Typed, TypeOK, Fiber, Optional
<1>3. CASE Quiet
  BY <1>1, <1>3 DEF Quiet, Agrees, StillGood
<1>4. CASE Withdraws
  <2>1. ~Purge
    BY <1>1 DEF Purge
  <2>2. /\ stream \in StreamRecord /\ stream' = [stream EXCEPT !.softDeleted = TRUE]
        /\ born' = born
    BY <1>4, <2>1, Withdrawn
  <2>3. stream # None
    BY <2>2, RecordAssumption
  <2>4. /\ stream'.offset = stream.offset /\ stream'.closed = stream.closed
        /\ stream'.lastSeq = stream.lastSeq /\ stream'.contentType = stream.contentType
    BY <2>2 DEF StreamRecord
  <2>5. QED
    BY <1>1, <2>2, <2>3, <2>4 DEF StillGood
<1>5. CASE Collects
  BY <1>1, <1>5 DEF Collects, Purge
<1>6. ASSUME NEW d \in Calls, Creates(d) PROVE FALSE
  <2>1. born' = commits + 1
    BY <1>6 DEF Creates, Create
  <2>2. QED
    BY <1>1, <1>2, <2>1 DEF Lives
<1>7. ASSUME NEW d \in Calls, Lands(d)
      PROVE  /\ seen.contentType = stream'.contentType
             /\ seen.offset <= stream'.offset
             /\ seen.offset = stream'.offset /\ ~stream'.closed
                  => seen.lastSeq = stream'.lastSeq
  <2> DEFINE req == fiber[d].req
  <2>1. /\ req \in AppendRequest /\ req \in Requests
        /\ Verdict(fiber[d].seen, fiber[d].saved, req) = "Planned"
        /\ stream \in StreamRecord /\ stream' \in StreamRecord
        /\ stream.offset = Len(log) /\ stream'.offset = Len(log) + req.count
        /\ stream'.closed = req.close /\ born' = born
        /\ stream'.contentType = stream.contentType
    BY <1>7, Landed
  <2>2. req.count \in Nat /\ Len(log) \in Nat /\ stream # None
    BY <2>1, RecordAssumption DEF AppendRequest, StreamRecord
  <2>3. seen.contentType = stream.contentType /\ seen.offset <= stream.offset
    BY <1>1, <2>1, <2>2 DEF StillGood
  <2>4. req.close \/ req.count # 0
    BY <2>1, PlannedMeans DEF CloseOnly
  <2>5. seen.offset \in Nat
    BY <1>2 DEF StreamRecord
  <2> HIDE DEF req, seen
  <2>6. seen.offset <= stream'.offset
    BY <2>1, <2>2, <2>3, <2>5
  <2>7. seen.offset = stream'.offset => req.count = 0
    BY <2>1, <2>2, <2>3, <2>5
  <2>8. QED
    BY <2>1, <2>3, <2>4, <2>6, <2>7
<1>8. QED
  BY <1>3, <1>4, <1>5, <1>6, <1>7, StoreStep

LEMMA ReadersNext == Typed /\ Stored /\ Lives /\ Readers /\ [Next]_vars => Readers'
<1> SUFFICES ASSUME Typed, Stored, Lives, Readers, [Next]_vars, NEW c \in Calls
             PROVE  StillGood(fiber[c])'
  BY DEF Readers
<1>1. CASE fiber'[c].seen = fiber[c].seen /\ fiber'[c].life = fiber[c].life
  BY <1>1, ReadersKeep DEF Readers
<1>2. CASE /\ fiber'[c].seen = stream /\ fiber'[c].life = born
           /\ UNCHANGED <<store, history>>
  <2>1. stream' # None => stream'.offset <= stream'.offset
    BY <1>2 DEF Typed, TypeOK, Optional, StreamRecord, store
  <2>2. QED
    BY <1>2, <2>1 DEF StillGood, store
<1>3. CASE fiber'[c].seen = None
  BY <1>3 DEF StillGood
<1>4. QED
  BY <1>1, <1>2, <1>3, ReadStep

Fitting == BatchesFit /\ Lives /\ Readers

LEMMA FitsLands ==
  ASSUME Typed, Stored, Fitting, NEW c \in Calls, Lands(c)
  PROVE  BatchesFit'
<1> DEFINE f == fiber[c]
           req == f.req
           stamp == commits + 1
           new == Framed(req, stamp)
<1>1. SUFFICES ASSUME ~stray'
               PROVE  /\ \A i \in 1..Len(log') :
                           /\ log'[i].contentType = stream'.contentType
                           /\ stream'.closed \/ log'[i].streamSeq <= stream'.lastSeq
                      /\ \A i, j \in 1..Len(log') :
                           /\ i < j
                           /\ log'[i].stamp # log'[j].stamp
                           /\ log'[i].streamSeq # 0 /\ log'[j].streamSeq # 0
                           => log'[i].streamSeq < log'[j].streamSeq
  BY DEF BatchesFit
<1>2. /\ req \in AppendRequest /\ req \in Requests
      /\ stream \in StreamRecord /\ f.seen \in StreamRecord
      /\ f.seen.offset = stream.offset /\ ~stream.closed
      /\ Verdict(f.seen, f.saved, req) = "Planned"
      /\ stray' = (stray \/ f.life # born)
      /\ stream'.closed = req.close
      /\ stream'.contentType = stream.contentType
      /\ stream'.lastSeq = IF req.streamSeq # 0 THEN req.streamSeq ELSE stream.lastSeq
      /\ log \in Seq(Message) /\ Len(log') = Len(log) + req.count
      /\ \A i \in 1..Len(log) : log'[i] = log[i]
      /\ \A i \in 1..req.count : log'[Len(log) + i] = new
  BY Landed
<1>3. /\ req.count \in Nat /\ req.streamSeq \in Nat /\ Len(log) \in Nat
      /\ req.kind = "append" /\ stream.lastSeq \in Nat
  BY <1>2 DEF AppendRequest, StreamRecord
<1>4. stream # None /\ f.seen # None /\ ~stray /\ f.life = born
  BY <1>1, <1>2, RecordAssumption DEF Typed, TypeOK
<1>5. f.seen.contentType = stream.contentType /\ f.seen.lastSeq = stream.lastSeq
  BY <1>2, <1>4 DEF Fitting, Readers, StillGood
<1>6. new.streamSeq = req.streamSeq /\ new.stamp = stamp /\ new.contentType = req.contentType
  BY <1>3 DEF Framed
<1>7. req.count # 0 => /\ req.contentType = stream.contentType
                       /\ req.streamSeq # 0 => stream.lastSeq < req.streamSeq
  <2>1. SUFFICES ASSUME req.count # 0
                 PROVE  /\ req.contentType = stream.contentType
                        /\ req.streamSeq # 0 => stream.lastSeq < req.streamSeq
    OBVIOUS
  <2>2. ~CloseOnly(req)
    BY <1>2, <1>3, <2>1, RequestsAssumption DEF CloseOnly
  <2>3. /\ req.contentType = f.seen.contentType
        /\ req.streamSeq # 0 => ~(req.streamSeq <= f.seen.lastSeq)
    BY <1>2, <2>2, PlannedMeans
  <2> HIDE DEF req, f
  <2>4. QED
    BY <1>3, <1>5, <2>3
<1>8. \A i \in 1..Len(log) : /\ log[i] \in Message /\ log[i].streamSeq \in Nat
                             /\ log[i].contentType = stream.contentType
                             /\ log[i].streamSeq <= stream.lastSeq
  <2>1. \A i \in 1..Len(log) : log[i] \in Message
    BY <1>2
  <2>2. \A i \in 1..Len(log) : /\ log[i].contentType = stream.contentType
                               /\ log[i].streamSeq <= stream.lastSeq
    BY <1>2, <1>4 DEF Fitting, BatchesFit
  <2>3. QED
    BY <2>1, <2>2 DEF Message
<1> DEFINE old(i) == i \in 1..Len(log) /\ log'[i] = log[i]
           fresh(i) == i > Len(log) /\ log'[i] = new /\ req.count # 0
<1>9. \A i \in 1..Len(log') : old(i) \/ fresh(i)
  <2>1. SUFFICES ASSUME NEW i \in 1..Len(log'), i > Len(log) PROVE fresh(i)
    BY <1>2, <1>3
  <2>2. i - Len(log) \in 1..req.count
    BY <1>2, <1>3, <2>1
  <2>3. log'[Len(log) + (i - Len(log))] = new
    BY <1>2, <2>2
  <2>4. Len(log) + (i - Len(log)) = i /\ req.count # 0
    BY <1>3, <2>1, <2>2
  <2>5. QED
    BY <2>1, <2>3, <2>4
<1>10. stream'.closed \/ req.count # 0
  BY <1>2, PlannedMeans DEF CloseOnly
<1> HIDE DEF new, req, f, stamp
<1>11. ASSUME NEW i \in 1..Len(log')
       PROVE  /\ log'[i].contentType = stream'.contentType
              /\ stream'.closed \/ log'[i].streamSeq <= stream'.lastSeq
  <2>1. CASE old(i)
    <3>1. /\ log'[i].contentType = stream.contentType
          /\ log'[i].streamSeq \in Nat /\ log'[i].streamSeq <= stream.lastSeq
      BY <1>8, <2>1
    <3>2. stream'.closed \/ stream.lastSeq <= stream'.lastSeq
      BY <1>2, <1>3, <1>7, <1>10
    <3>3. QED
      BY <1>2, <1>3, <3>1, <3>2
  <2>2. CASE fresh(i)
    BY <1>2, <1>3, <1>6, <1>7, <2>2
  <2>3. QED
    BY <1>9, <1>11, <2>1, <2>2
<1>12. ASSUME NEW i \in 1..Len(log'), NEW j \in 1..Len(log'), i < j,
              log'[i].stamp # log'[j].stamp,
              log'[i].streamSeq # 0, log'[j].streamSeq # 0
       PROVE  log'[i].streamSeq < log'[j].streamSeq
  <2>1. CASE old(i) /\ old(j)
    BY <1>4, <1>12, <2>1 DEF Fitting, BatchesFit
  <2>2. CASE old(i) /\ fresh(j)
    <3>1. log[i].streamSeq <= stream.lastSeq /\ stream.lastSeq < req.streamSeq
      BY <1>6, <1>7, <1>8, <1>12, <2>2
    <3>2. QED
      BY <1>3, <1>6, <1>8, <2>2, <3>1
  <2>3. CASE fresh(i) /\ old(j)
    BY <1>3, <1>12, <2>3
  <2>4. CASE fresh(i) /\ fresh(j)
    BY <1>12, <2>4
  <2>5. QED
    BY <1>9, <1>12, <2>1, <2>2, <2>3, <2>4
<1>13. QED
  BY <1>11, <1>12

LEMMA FitsCreated ==
  ASSUME Typed, Stored, NEW c \in Calls, Creates(c)
  PROVE  BatchesFit'
<1> DEFINE req == fiber[c].req
           stamp == commits + 1
<1>1. req \in CreateRequest /\ req \in Requests
  BY RequestsAssumption
  DEF Typed, TypeOK, Fibers, FiberOK, Creates, Create, At, Request, AppendRequest, PlainRequest
<1>2. /\ log' = Batch(req, stamp) /\ commits \in Nat
      /\ stream'.contentType = req.contentType /\ stream'.lastSeq = 0
  BY DEF Creates, Create, Typed, TypeOK
<1>3. /\ Len(log') = req.count
      /\ \A i \in 1..req.count : log'[i] = Framed(req, stamp)
  BY <1>1, <1>2, BatchType DEF CreateRequest
<1>4. Framed(req, stamp).contentType = req.contentType /\ Framed(req, stamp).streamSeq = 0
  BY <1>1 DEF Framed, CreateRequest
<1>5. QED
  BY <1>2, <1>3, <1>4 DEF BatchesFit

LEMMA FittingNext == Typed /\ Stored /\ Fitting /\ [Next]_vars => Fitting'
<1> SUFFICES ASSUME Typed, Stored, Fitting, [Next]_vars PROVE BatchesFit'
  BY LivesNext, ReadersNext DEF Fitting
<1>1. BatchesFit
  BY DEF Fitting
<1>2. CASE Quiet
  BY <1>1, <1>2 DEF Quiet, Agrees, BatchesFit
<1>3. CASE Withdraws
  <2>1. CASE Purge
    BY <2>1 DEF Purge, BatchesFit
  <2>2. CASE ~Purge
    <3>1. /\ log' = log /\ stray' = stray /\ stream \in StreamRecord
          /\ stream' = [stream EXCEPT !.softDeleted = TRUE]
      BY <1>3, <2>2, Withdrawn
    <3>2. /\ stream # None /\ stream'.contentType = stream.contentType
          /\ stream'.closed = stream.closed /\ stream'.lastSeq = stream.lastSeq
      BY <3>1, RecordAssumption DEF StreamRecord
    <3>3. QED
      BY <1>1, <3>1, <3>2 DEF BatchesFit
  <2>3. QED
    BY <2>1, <2>2
<1>4. CASE Collects
  BY <1>4 DEF Collects, Purge, BatchesFit
<1>5. QED
  BY <1>2, <1>3, <1>4, FitsCreated, FitsLands, StoreStep

(***************************************************************************)
(* The comparisons of an append with a record that may be stale hold of    *)
(* the stream its messages land on, unless that is another stream under    *)
(* the same id.                                                            *)
(***************************************************************************)
THEOREM StaleChecksHold == Spec => []BatchesFit
<1>1. Init => Typed /\ Stored /\ Fitting
  <2>1. ASSUME Init, NEW c \in Calls PROVE fiber[c] = Idle
    BY <2>1 DEF Init
  <2>2. Init => Lives /\ Readers
    BY <2>1 DEF Init, Lives, Readers, StillGood, Idle
  <2>3. QED
    BY <2>2, TypedInit, StoredInit DEF Init, Fitting, BatchesFit
<1>2. Typed /\ Stored /\ Fitting /\ [Next]_vars => (Typed /\ Stored /\ Fitting)'
  BY TypedNext, StoredNext, FittingNext
<1>3. Fitting => BatchesFit
  BY DEF Fitting
<1>4. QED
  BY <1>1, <1>2, <1>3, PTL DEF Spec
-----------------------------------------------------------------------------
\* A step moves the call that takes it and no other.
LEMMA OneMoves ==
  ASSUME Typed, NEW c \in Calls, [Next]_vars
  PROVE  \/ fiber'[c] = fiber[c]
         \/ \E req \in Requests : Start(c, req)
         \/ ReadRecord(c) \/ Judge(c) \/ Expire(c) \/ Reread(c) \/ NextDeadline(c)
         \/ ReadClock(c) \/ Plan(c) \/ Commit(c) \/ Touch(c) \/ Create(c) \/ Remove(c)
         \/ Interrupt(c)
<1>1. fiber \in [Calls -> Fiber]
  BY DEF Typed, TypeOK
<1>2. ASSUME NEW d \in Calls, d # c,
             \/ \E req \in Requests : Start(d, req)
             \/ ReadRecord(d) \/ Judge(d) \/ Expire(d) \/ Reread(d) \/ NextDeadline(d)
             \/ ReadClock(d) \/ Plan(d) \/ Commit(d) \/ Touch(d) \/ Create(d) \/ Remove(d)
             \/ Interrupt(d)
      PROVE  fiber'[c] = fiber[c]
  <2>1. Finish(d) => fiber'[c] = fiber[c]
    BY <1>1, <1>2 DEF Finish
  <2>2. ASSUME NEW req \in Requests, Start(d, req) PROVE fiber'[c] = fiber[c]
    BY <1>1, <1>2, <2>2 DEF Start
  <2>3. CASE ReadRecord(d) \/ Judge(d) \/ Expire(d) \/ Reread(d)
    BY <1>1, <1>2, <2>3 DEF ReadRecord, Judge, Expire, Reread
  <2>4. CASE NextDeadline(d) \/ ReadClock(d) \/ Plan(d)
    BY <1>1, <1>2, <2>1, <2>4 DEF NextDeadline, ReadClock, Plan
  <2>5. CASE Commit(d)
    BY <1>1, <1>2, <2>1, <2>5 DEF Commit, Replan, Accept
  <2>6. CASE Touch(d) \/ Create(d) \/ Remove(d) \/ Interrupt(d)
    BY <2>1, <2>6 DEF Touch, Create, Remove, Interrupt
  <2>7. QED
    BY <1>2, <2>2, <2>3, <2>4, <2>5, <2>6
<1>3. CASE Fork \/ Unfork \/ Tick \/ UNCHANGED vars
  BY <1>3 DEF Fork, Unfork, Tick, vars
<1>4. QED
  BY <1>2, <1>3 DEF Next

\* Every commit counts, and what does not count leaves the record as it was.
LEMMA CommitsCount ==
  ASSUME Typed, Stored, [Next]_vars
  PROVE  Quiet \/ commits' = commits + 1
<1>1. Withdraws => commits' = commits + 1
  BY Withdrawn
<1>2. Collects => commits' = commits + 1
  BY DEF Collects
<1>3. ASSUME NEW c \in Calls, Creates(c) PROVE commits' = commits + 1
  BY <1>3 DEF Creates, Create
<1>4. ASSUME NEW c \in Calls, Lands(c) PROVE commits' = commits + 1
  BY <1>4, Landed
<1>5. QED
  BY <1>1, <1>2, <1>3, <1>4, StoreStep

(***************************************************************************)
(* As many commits as rounds were lost, at least, since the call began;    *)
(* and if it is exactly as many, nothing was committed since the round     *)
(* began, so what the round read is what there is.                         *)
(***************************************************************************)
Round(f) == f.began + f.attempt

Fresh(f) ==
  /\ Round(f) <= commits
  /\ f.pc \in {"judge", "plan", "commit"} /\ Round(f) = commits => Agrees(f.seen, stream)
  /\ f.pc = "commit" /\ Round(f) = commits /\ f.req.position # None
       => producers[f.req.position.id] = f.saved

AllFresh == \A c \in Calls : Fresh(fiber[c])

LEMMA FreshWins ==
  ASSUME Typed, AllFresh
  PROVE  RejectionMeansContention
<1> SUFFICES ASSUME NEW c \in Calls, At(c, "commit"), AppendRejected(fiber[c]),
                    ~(Round(fiber[c]) < commits)
             PROVE  FALSE
  BY DEF RejectionMeansContention, Round
<1> DEFINE f == fiber[c]
<1>1. f \in Fiber /\ commits \in Nat /\ f.pc = "commit"
  BY DEF Typed, TypeOK, At
<1>2. Round(f) \in Nat
  BY <1>1 DEF Fiber, Round
<1>3. Round(f) = commits
  BY <1>1, <1>2 DEF AllFresh, Fresh
<1>4. /\ Agrees(f.seen, stream)
      /\ f.req.position # None => producers[f.req.position.id] = f.saved
  BY <1>1, <1>3 DEF AllFresh, Fresh
<1>5. Live(f.seen) /\ ~f.seen.closed
  BY <1>1, PlannedMeans DEF Typed, Fibers, FiberOK
<1>6. QED
  BY <1>4, <1>5 DEF AppendRejected, Agrees, Live

LEMMA FreshNext == Typed /\ Stored /\ AllFresh /\ [Next]_vars => AllFresh'
<1> SUFFICES ASSUME Typed, Stored, AllFresh, [Next]_vars, NEW c \in Calls
             PROVE  Fresh(fiber[c])'
  BY DEF AllFresh
<1> DEFINE f == fiber[c]
<1>1. /\ f \in Fiber /\ fiber \in [Calls -> Fiber]
      /\ commits \in Nat /\ Fresh(f) /\ Round(f) \in Nat
  BY DEF Typed, TypeOK, AllFresh, Fiber, Round
<1>2. commits' \in Nat /\ commits <= commits'
  BY <1>1, CommitsCount DEF Quiet
<1>3. CASE fiber'[c] = f
  <2>1. CASE Quiet
    BY <1>1, <1>3, <2>1 DEF Quiet, Agrees, Fresh, Round
  <2>2. CASE commits' = commits + 1
    BY <1>1, <1>3, <2>2 DEF Fresh, Round
  <2>3. QED
    BY <2>1, <2>2, CommitsCount
<1>4. ASSUME Finish(c) PROVE Fresh(fiber[c])'
  <2>1. fiber'[c] = Idle
    BY <1>1, <1>4 DEF Finish
  <2>2. QED
    BY <1>2, <2>1 DEF Fresh, Round, Idle
<1>5. ASSUME NEW req \in Requests, Start(c, req) PROVE Fresh(fiber[c])'
  <2>1. /\ fiber'[c].began = commits /\ fiber'[c].attempt = 0
        /\ fiber'[c].pc \in {"deadline", "record"} /\ commits' = commits
    BY <1>1, <1>5 DEF Start, Idle, history
  <2>2. QED
    BY <1>1, <2>1 DEF Fresh, Round
<1>6. CASE ReadRecord(c) \/ Reread(c)
  <2>1. /\ fiber'[c].began = f.began /\ fiber'[c].attempt = f.attempt
        /\ fiber'[c].seen = stream /\ fiber'[c].pc # "commit"
        /\ stream' = stream /\ commits' = commits
    <3>1. Body(f.req.kind) # "commit"
      BY DEF Body
    <3>2. QED
      BY <1>1, <1>6, <3>1 DEF ReadRecord, Reread, Fiber, store, history
  <2>2. QED
    BY <1>1, <2>1 DEF Fresh, Round, Agrees
<1>7. CASE Judge(c)
  <2>1. /\ fiber'[c].began = f.began /\ fiber'[c].attempt = f.attempt
        /\ fiber'[c].seen = f.seen /\ f.pc = "judge" /\ fiber'[c].pc # "commit"
        /\ stream' = stream /\ commits' = commits
    <3>1. Body(f.req.kind) # "commit"
      BY DEF Body
    <3>2. QED
      BY <1>1, <1>7, <3>1 DEF Judge, At, Fiber, store, history
  <2>2. QED
    BY <1>1, <2>1 DEF Fresh, Round
<1>8. CASE Expire(c)
  <2>1. /\ fiber'[c].began = f.began /\ fiber'[c].attempt = f.attempt
        /\ fiber'[c].pc \in {"deadline", "reread"}
    BY <1>1, <1>8 DEF Expire, Fiber
  <2>2. QED
    BY <1>1, <1>2, <2>1 DEF Fresh, Round
<1>9. CASE NextDeadline(c) \/ ReadClock(c)
  <2>1. CASE ~Finish(c)
    <3>1. /\ fiber'[c].began = f.began /\ fiber'[c].attempt = f.attempt
          /\ fiber'[c].pc \in {"expire", "touch", "create"} /\ commits' = commits
      BY <1>1, <1>9, <2>1 DEF NextDeadline, ReadClock, Fiber, history
    <3>2. QED
      BY <1>1, <3>1 DEF Fresh, Round
  <2>2. QED
    BY <1>4, <2>1
<1>10. CASE Plan(c)
  <2> DEFINE state == IF f.req.position = None THEN None ELSE producers[f.req.position.id]
  <2>1. CASE ~Finish(c)
    <3>1. fiber' = [fiber EXCEPT ![c].pc = "commit", ![c].saved = state, ![c].at = now]
      BY <1>10, <2>1 DEF Plan
    <3>2. /\ fiber'[c].began = f.began /\ fiber'[c].attempt = f.attempt
          /\ fiber'[c].seen = f.seen /\ fiber'[c].req = f.req
          /\ fiber'[c].saved = state /\ f.pc = "plan"
          /\ UNCHANGED <<stream, producers, commits>>
      BY <1>1, <1>10, <3>1 DEF Plan, At, Fiber, store
    <3>3. QED
      BY <1>1, <3>2 DEF Fresh, Round
  <2>2. QED
    BY <1>4, <2>1
<1>11. CASE Commit(c)
  <2>1. CASE ~Finish(c)
    <3>1. /\ AppendRejected(f) /\ At(c, "commit")
          /\ fiber' = [fiber EXCEPT ![c].pc = "record", ![c].attempt = @ + 1]
          /\ commits' = commits
      BY <1>11, <2>1 DEF Commit, Replan, Accept, history
    <3>2. Round(f) < commits
      BY <3>1, FreshWins DEF RejectionMeansContention, Round
    <3>3. /\ fiber'[c].began = f.began /\ fiber'[c].attempt = f.attempt + 1
          /\ fiber'[c].pc = "record"
      BY <1>1, <3>1 DEF Fiber
    <3>4. f.began \in Nat /\ f.attempt \in Nat
      BY <1>1 DEF Fiber
    <3>5. QED
      BY <1>1, <3>1, <3>2, <3>3, <3>4 DEF Fresh, Round
  <2>2. QED
    BY <1>4, <2>1
<1>12. CASE Touch(c) \/ Create(c) \/ Remove(c) \/ Interrupt(c)
  BY <1>4, <1>12 DEF Touch, Create, Remove, Interrupt
<1>13. QED
  BY <1>3, <1>5, <1>6, <1>7, <1>8, <1>9, <1>10, <1>11, <1>12, OneMoves

(***************************************************************************)
(* A round is lost only to a commit made since it began, so StreamBusy     *)
(* after ReplanLimit rounds means that as many commits got in.             *)
(***************************************************************************)
THEOREM LossMeansContention == Spec => []RejectionMeansContention
<1>1. Init => Typed /\ Stored /\ AllFresh
  <2>1. ASSUME Init, NEW c \in Calls PROVE Fresh(fiber[c])
    <3>1. fiber[c] = Idle /\ commits = 0
      BY <2>1 DEF Init
    <3>2. QED
      BY <3>1 DEF Fresh, Round, Idle
  <2>2. QED
    BY <2>1, TypedInit, StoredInit DEF AllFresh
<1>2. Typed /\ Stored /\ AllFresh /\ [Next]_vars => (Typed /\ Stored /\ AllFresh)'
  BY TypedNext, StoredNext, FreshNext
<1>3. Typed /\ Stored /\ AllFresh => RejectionMeansContention
  BY FreshWins
<1>4. QED
  BY <1>1, <1>2, <1>3, PTL DEF Spec
-----------------------------------------------------------------------------
(***************************************************************************)
(* A call that is about to delete an expired stream read a deadline that   *)
(* is over: times that were read are not in the future.                    *)
(***************************************************************************)
DueOK(f) ==
  /\ f.at <= now
  /\ f.pc = "expire" => Expired(f.seen, now)

AllDue == \A c \in Calls : DueOK(fiber[c])

LEMMA StaysDue ==
  ASSUME NEW record \in StreamRecord, NEW time \in Nat, NEW later \in Nat,
         time <= later, Expired(record, time)
  PROVE  Expired(record, later)
<1>1. record.expiresAt \in Nat
  BY DEF Expired, StreamRecord, Optional
<1>2. QED
  BY <1>1 DEF Expired

LEMMA DueNext == Typed /\ AllDue /\ [Next]_vars => AllDue'
<1> SUFFICES ASSUME Typed, AllDue, [Next]_vars, NEW c \in Calls
             PROVE  DueOK(fiber[c])'
  BY DEF AllDue
<1> DEFINE f == fiber[c]
<1>1. /\ f \in Fiber /\ fiber \in [Calls -> Fiber] /\ FiberOK(f)
      /\ f.at \in Nat /\ now \in Nat /\ DueOK(f)
  BY DEF Typed, TypeOK, AllDue, Fiber, Fibers
<1>2. now' \in Nat /\ now <= now'
  <2>1. now' = now \/ now' = now + 1
    BY DEF Next, vars, Start, ReadRecord, Judge, Expire, Reread, NextDeadline, ReadClock,
           Plan, Commit, Touch, Create, Remove, Interrupt, Fork, Unfork, Tick
  <2>2. QED
    BY <1>1, <2>1
<1>3. CASE fiber'[c] = f
  <2>1. f.pc = "expire" => Expired(f.seen, now')
    <3>1. f.pc = "expire" => f.seen \in StreamRecord
      BY <1>1 DEF FiberOK, Fiber, Optional
    <3>2. QED
      BY <1>1, <1>2, <3>1, StaysDue DEF DueOK
  <2>2. QED
    BY <1>1, <1>2, <1>3, <2>1 DEF DueOK
<1>4. ASSUME fiber'[c].at \in {f.at, now, 0}, fiber'[c].pc # "expire"
      PROVE  DueOK(fiber[c])'
  BY <1>1, <1>2, <1>4 DEF DueOK
<1>5. ASSUME Finish(c) PROVE DueOK(fiber[c])'
  BY <1>1, <1>4, <1>5 DEF Finish, Idle
<1>6. ASSUME NEW req \in Requests, Start(c, req) PROVE DueOK(fiber[c])'
  BY <1>1, <1>4, <1>6 DEF Start, Idle
<1>7. CASE ReadRecord(c) \/ Reread(c)
  <2>1. Body(f.req.kind) # "expire"
    BY DEF Body
  <2>2. QED
    BY <1>1, <1>4, <1>7, <2>1 DEF ReadRecord, Reread, Fiber
<1>8. CASE Judge(c)
  <2>1. /\ fiber'[c].at = f.at /\ fiber'[c].seen = f.seen /\ now' = now
        /\ fiber'[c].pc = IF Live(f.seen) /\ Expired(f.seen, now)
                          THEN "expire" ELSE Body(f.req.kind)
    BY <1>1, <1>8 DEF Judge, Fiber
  <2>2. Body(f.req.kind) # "expire"
    BY DEF Body
  <2>3. QED
    BY <1>1, <2>1, <2>2 DEF DueOK
<1>9. CASE Expire(c)
  BY <1>1, <1>4, <1>9 DEF Expire, Fiber
<1>10. CASE NextDeadline(c)
  <2>1. CASE ~Finish(c)
    <3>1. /\ fiber'[c].at = f.at /\ fiber'[c].seen = stream /\ now' = now
          /\ Live(stream) /\ Expired(stream, f.at)
      BY <1>1, <1>10, <2>1 DEF NextDeadline, Fiber
    <3>2. stream \in StreamRecord
      BY <3>1 DEF Live, Typed, TypeOK, Optional
    <3>3. Expired(stream, now)
      BY <1>1, <3>1, <3>2, StaysDue DEF DueOK
    <3>4. QED
      BY <1>1, <3>1, <3>3 DEF DueOK
  <2>2. QED
    BY <1>5, <2>1
<1>11. CASE ReadClock(c)
  <2>1. CASE ~Finish(c)
    BY <1>1, <1>4, <1>11, <2>1 DEF ReadClock, Fiber
  <2>2. QED
    BY <1>5, <2>1
<1>12. CASE Plan(c)
  <2>1. CASE ~Finish(c)
    BY <1>1, <1>4, <1>12, <2>1 DEF Plan, Fiber
  <2>2. QED
    BY <1>5, <2>1
<1>13. CASE Commit(c)
  <2>1. CASE ~Finish(c)
    BY <1>1, <1>4, <1>13, <2>1 DEF Commit, Replan, Accept, Fiber
  <2>2. QED
    BY <1>5, <2>1
<1>14. CASE Touch(c) \/ Create(c) \/ Remove(c) \/ Interrupt(c)
  BY <1>5, <1>14 DEF Touch, Create, Remove, Interrupt
<1>15. QED
  BY <1>3, <1>6, <1>7, <1>8, <1>9, <1>10, <1>11, <1>12, <1>13, <1>14, OneMoves

(***************************************************************************)
(* A stream leaves by a removal, or when its deadline of that moment is    *)
(* over: the deadline that was read is a precondition of its deletion.     *)
(***************************************************************************)
THEOREM LeavesWhenDue == Spec => ExpiresOnlyWhenDue
<1>1. ASSUME Typed, Stored, AllDue, [Next]_vars, Live(stream), ~Live(stream')
      PROVE  \/ \E c \in Calls : At(c, "remove") /\ At(c, "idle")'
             \/ Expired(stream, now)
  <2>1. ASSUME Quiet PROVE FALSE
    BY <1>1, <2>1 DEF Quiet, Agrees, Live
  <2>2. ASSUME Collects PROVE FALSE
    BY <1>1, <2>2 DEF Collects, Live
  <2>3. ASSUME NEW c \in Calls, Creates(c) PROVE FALSE
    BY <1>1, <2>3 DEF Creates, Live
  <2>4. ASSUME NEW c \in Calls, Lands(c) PROVE FALSE
    <3>1. stream' \in StreamRecord /\ stream'.softDeleted = FALSE
      BY <1>1, <2>4, Landed
    <3>2. QED
      BY <1>1, <3>1, RecordAssumption DEF Live
  <2>5. ASSUME NEW c \in Calls, Remove(c) PROVE At(c, "remove") /\ At(c, "idle")'
    BY <1>1, <2>5 DEF Remove, At, Finish, Idle, Typed, TypeOK
  <2>6. ASSUME NEW c \in Calls, Expire(c) PROVE Expired(stream, now)
    <3>1. stream.expiresAt = fiber[c].seen.expiresAt
      BY <1>1, <2>6 DEF Expire, store
    <3>2. Expired(fiber[c].seen, now)
      BY <1>1, <2>6 DEF Expire, At, AllDue, DueOK
    <3>3. QED
      BY <3>1, <3>2 DEF Expired
  <2>7. QED
    BY <1>1, <2>1, <2>2, <2>3, <2>4, <2>5, <2>6, StoreStep DEF Withdraws
<1>2. Typed /\ Stored /\ AllDue /\ [Next]_vars
        => [Live(stream) /\ ~Live(stream')
              => \/ \E c \in Calls : At(c, "remove") /\ At(c, "idle")'
                 \/ Expired(stream, now)]_vars
  BY <1>1
<1>3. Init => Typed /\ Stored /\ AllDue
  <2>1. ASSUME Init, NEW c \in Calls PROVE DueOK(fiber[c])
    <3>1. fiber[c] = Idle /\ now = 0
      BY <2>1 DEF Init
    <3>2. QED
      BY <3>1 DEF DueOK, Idle
  <2>2. QED
    BY <2>1, TypedInit, StoredInit DEF AllDue
<1>4. Typed /\ Stored /\ AllDue /\ [Next]_vars => (Typed /\ Stored /\ AllDue)'
  BY TypedNext, StoredNext, DueNext
<1>5. QED
  BY <1>2, <1>3, <1>4, PTL DEF Spec, ExpiresOnlyWhenDue
-----------------------------------------------------------------------------
(***************************************************************************)
(* The answers over HTTP.  A status and the headers tell a remote caller   *)
(* what a local one is told; for a TTL of 0, which HEAD does not send,     *)
(* they do not.                                                            *)
(***************************************************************************)
SomeTTL == \A req \in Requests : req.kind = "create" => req.ttl # 0

Lasting(record) == record # None => record.ttl # 0

AllLast == Lasting(stream) /\ \A c \in Calls : Lasting(fiber[c].seen)

Fields == {"tag", "offset", "epoch", "seq", "expectedSeq", "closed", "contentType", "ttl",
           "expiresAt", "reason"}

IsAnswer(a) == a = [field \in Fields |-> a[field]]

\* All of an answer to an append.
Says(a, tag, offset, epoch, seq, expectedSeq, closed) ==
  /\ IsAnswer(a) /\ a.tag = tag /\ a.offset = offset /\ a.epoch = epoch /\ a.seq = seq
  /\ a.expectedSeq = expectedSeq /\ a.closed = closed
  /\ a.contentType = None /\ a.ttl = None /\ a.expiresAt = None /\ a.reason = None

LEMMA BlankAnswer ==
  ASSUME NEW tag
  PROVE  IsAnswer(Answer(tag)) /\ Says(Answer(tag), tag, None, None, None, None, FALSE)
<1>1. IsAnswer(Answer(tag))
  BY DEF Answer, IsAnswer, Fields
<1>2. QED
  BY <1>1 DEF Says, Answer

LEMMA AnswersEqual ==
  ASSUME NEW a, NEW b, IsAnswer(a), IsAnswer(b),
         a.tag = b.tag, a.offset = b.offset, a.epoch = b.epoch, a.seq = b.seq,
         a.expectedSeq = b.expectedSeq, a.closed = b.closed, a.contentType = b.contentType,
         a.ttl = b.ttl, a.expiresAt = b.expiresAt, a.reason = b.reason
  PROVE  a = b
<1>1. \A field \in Fields : a[field] = b[field]
  BY DEF Fields
<1>2. QED
  BY <1>1 DEF IsAnswer

LEMMA SaysAll ==
  ASSUME NEW a, NEW b, NEW tag, NEW offset, NEW epoch, NEW seq, NEW expectedSeq, NEW closed,
         Says(a, tag, offset, epoch, seq, expectedSeq, closed),
         Says(b, tag, offset, epoch, seq, expectedSeq, closed)
  PROVE  a = b
BY AnswersEqual DEF Says

LEMMA NoReason ==
  ASSUME NEW a, IsAnswer(a), a.reason = None
  PROVE  [a EXCEPT !.reason = None] = a
BY DEF IsAnswer

LEMMA SaysAppended ==
  ASSUME NEW a, NEW tag, NEW offset, NEW epoch, NEW seq, NEW closed
  PROVE  /\ a = [Answer(tag) EXCEPT !.offset = offset, !.closed = closed] =>
              Says(a, tag, offset, None, None, None, closed)
         /\ a = [Answer(tag) EXCEPT !.offset = offset, !.closed = closed, !.epoch = epoch,
                                    !.seq = seq] =>
              Says(a, tag, offset, epoch, seq, None, closed)
<1>1. ASSUME a = [Answer(tag) EXCEPT !.offset = offset, !.closed = closed]
      PROVE  Says(a, tag, offset, None, None, None, closed)
  BY <1>1, BlankAnswer DEF Says, Answer, IsAnswer
<1>2. ASSUME a = [Answer(tag) EXCEPT !.offset = offset, !.closed = closed, !.epoch = epoch,
                                    !.seq = seq]
      PROVE  Says(a, tag, offset, epoch, seq, None, closed)
  BY <1>2, BlankAnswer DEF Says, Answer, IsAnswer
<1>3. QED
  BY <1>1, <1>2

LEMMA NoneOrNat == ASSUME NEW n \in Nat PROVE n # None
BY NoneAssumption

LEMMA AppendTold ==
  ASSUME NEW record \in Optional(StreamRecord), NEW req \in AppendRequest,
         producers \in [ProducerIds -> Optional(ProducerState)]
  PROVE  AppendIsTold(record, req)
<1> DEFINE state == IF req.position = None THEN None ELSE producers[req.position.id]
           a == Answered(record, state, req)
           r == Post(req, a)
           verdict == Verdict(record, state, req)
<1> SUFFICES ASSUME req.bytes \/ req.close
             PROVE  Decoded(req, r) = Carried(req, a)
  BY DEF AppendIsTold
<1>1. /\ req.bytes \in BOOLEAN /\ req.close \in BOOLEAN /\ req.count \in Nat
      /\ req.position \in Optional(Position) /\ req.expected \in Optional(Nat)
  BY DEF AppendRequest
<1>2. state \in Optional(ProducerState)
  BY <1>1 DEF Optional, Position
<1>3. state # None => state.epoch \in Nat /\ state.lastSeq \in Nat
  BY <1>2 DEF Optional, ProducerState
<1>4. req.position # None => req.position.epoch \in Nat /\ req.position.seq \in Nat
  BY <1>1 DEF Optional, Position
<1>5. record # None => record.offset \in Nat /\ record.closed \in BOOLEAN
  BY DEF Optional, StreamRecord
<1> HIDE DEF state
<1>6. CASE verdict = "Missing"
  <2>1. PICK tag \in {"StreamNotFound", "StreamGone"} : a = Answer(tag)
    BY <1>6 DEF Answered, Absent
  <2> HIDE DEF a
  <2>2. a.tag = tag /\ a.reason = None /\ IsAnswer(a)
    BY <2>1, BlankAnswer DEF Says
  <2>3. /\ tag = "StreamNotFound" => r.status = 404
        /\ tag = "StreamGone" => r.status = 410
    BY <2>2 DEF Post, ErrorResponse, Response
  <2> HIDE DEF r
  <2>4. Decoded(req, r) = a
    BY <2>1, <2>3 DEF Decoded
  <2>5. Carried(req, a) = a
    BY <2>2, NoReason DEF Carried
  <2>6. QED
    BY <2>4, <2>5
<1>7. CASE verdict = "Duplicate"
  <2>1. record # None /\ state # None /\ req.position # None
    BY <1>7 DEF Verdict, Live, ValidateProducer
  <2>2. a = [Answer("Duplicate") EXCEPT !.offset = record.offset, !.epoch = state.epoch,
                                        !.seq = state.lastSeq, !.closed = record.closed]
    BY <1>7 DEF Answered
  <2> HIDE DEF a
  <2>3. Says(a, "Duplicate", record.offset, state.epoch, state.lastSeq, None, record.closed)
    BY <2>2, BlankAnswer DEF Says, Answer, IsAnswer
  <2>4. /\ r.status = 204 /\ r.nextOffset = record.offset /\ r.closed = record.closed
        /\ r.epoch = state.epoch /\ r.seq = state.lastSeq
    BY <2>3 DEF Post, AppendResponse, Response, Says
  <2> HIDE DEF r
  <2>5. Decoded(req, r) = [Answer("Duplicate") EXCEPT
          !.offset = r.nextOffset, !.closed = r.closed, !.epoch = r.epoch, !.seq = r.seq]
    BY <1>3, <2>1, <2>4, NoneOrNat DEF Decoded
  <2>6. Says(Decoded(req, r), "Duplicate", r.nextOffset, r.epoch, r.seq, None, r.closed)
    BY <2>5, SaysAppended
  <2>7. Carried(req, a) = a
    BY <2>3, NoReason DEF Carried, Says
  <2>8. QED
    BY <2>3, <2>4, <2>6, <2>7, SaysAll
<1>8. CASE verdict = "StaleEpoch"
  <2>1. a = [Answer("StaleEpoch") EXCEPT !.epoch = state.epoch]
    BY <1>8 DEF Answered
  <2> HIDE DEF a
  <2>2. Says(a, "StaleEpoch", None, state.epoch, None, None, FALSE)
    BY <2>1, BlankAnswer DEF Says, Answer, IsAnswer
  <2>3. r.status = 403 /\ r.epoch = state.epoch
    BY <2>2 DEF Post, ErrorResponse, Response, Says
  <2> HIDE DEF r
  <2>4. Decoded(req, r) = a
    BY <2>1, <2>3 DEF Decoded
  <2>5. QED
    BY <2>2, <2>4, NoReason DEF Carried, Says
<1>9. CASE verdict = "ProducerGap"
  <2>1. record # None /\ req.position # None
    BY <1>9 DEF Verdict, Live
  <2>2. PICK n \in Nat, m \in Nat :
          a = [Answer("ProducerGap") EXCEPT !.seq = n, !.expectedSeq = m]
    <3>1. (IF state = None THEN 0 ELSE state.lastSeq + 1) \in Nat
      BY <1>3
    <3>2. QED
      BY <1>4, <1>9, <2>1, <3>1 DEF Answered
  <2> HIDE DEF a
  <2>3. Says(a, "ProducerGap", None, None, n, m, FALSE)
    BY <2>2, BlankAnswer DEF Says, Answer, IsAnswer
  <2>4. r.status = 409 /\ r.expectedSeq = m /\ r.receivedSeq = n
    BY <2>3 DEF Post, ErrorResponse, Status409, Response, Says
  <2> HIDE DEF r
  <2>5. Decoded(req, r) = [Answer("ProducerGap") EXCEPT !.expectedSeq = m, !.seq = n]
    BY <2>4, NoneOrNat DEF Decoded, Conflict
  <2>6. Says(Decoded(req, r), "ProducerGap", None, None, n, m, FALSE)
    BY <2>5, BlankAnswer DEF Says, Answer, IsAnswer
  <2>7. Carried(req, a) = a
    BY <2>3, NoReason DEF Carried, Says
  <2>8. QED
    BY <2>3, <2>6, <2>7, SaysAll
<1>10. CASE verdict = "AlreadyClosed"
  <2>1. a = [Answer("Appended") EXCEPT !.offset = record.offset, !.closed = TRUE]
    BY <1>10 DEF Answered
  <2>2. CloseOnly(req) /\ ~req.bytes
    BY <1>10 DEF Verdict, ValidateProducer, CloseOnly
  <2> HIDE DEF a
  <2>3. Says(a, "Appended", record.offset, None, None, None, TRUE)
    BY <2>1, SaysAppended
  <2>4. Says(a, "Appended", record.offset, None, None, None, a.closed)
    BY <2>3 DEF Says
  <2>5. r.status = 204 /\ r.nextOffset = record.offset /\ r.closed = a.closed /\ r.epoch = None
    BY <2>2, <2>4 DEF Post, AppendResponse, Response, Says
  <2> HIDE DEF r
  <2>6. Decoded(req, r) = [Answer("Appended") EXCEPT !.offset = r.nextOffset, !.closed = r.closed]
    BY <2>5 DEF Decoded
  <2>7. Says(Decoded(req, r), "Appended", r.nextOffset, None, None, None, r.closed)
    BY <2>6, SaysAppended
  <2>8. Decoded(req, r) = a
    BY <2>4, <2>5, <2>7, SaysAll
  <2>9. QED
    BY <2>4, <2>8, NoReason DEF Carried, Says
<1>11. CASE verdict \in {"StreamClosed", "OffsetMismatch"}
  <2>1. record # None /\ (verdict = "OffsetMismatch" => req.expected # None)
    BY <1>11 DEF Verdict, Live, ValidateProducer
  <2>2. a = [Answer(verdict) EXCEPT !.offset = record.offset]
    BY <1>11 DEF Answered
  <2> HIDE DEF a, verdict
  <2>3. Says(a, verdict, record.offset, None, None, None, FALSE)
    BY <2>2, BlankAnswer DEF Says, Answer, IsAnswer
  <2>4. /\ r.status = 409 /\ r.nextOffset = record.offset /\ r.expectedSeq = None
        /\ verdict = "StreamClosed" => r.closed
        /\ verdict = "OffsetMismatch" => ~r.closed
    BY <1>11, <2>3 DEF Post, ErrorResponse, Status409, Response, Says
  <2> HIDE DEF r
  <2>5. Decoded(req, r) = a
    <3>1. r.nextOffset # None
      BY <1>5, <2>1, <2>4, NoneOrNat
    <3>2. QED
      BY <1>11, <2>1, <2>2, <2>4, <3>1 DEF Decoded, Conflict
  <2>6. QED
    BY <1>11, <2>3, <2>5, NoReason DEF Carried, Says
<1>12. CASE verdict = "Planned"
  <2> DEFINE epoch == IF req.position = None THEN None ELSE req.position.epoch
             seq == IF req.position = None THEN None ELSE req.position.seq
             tail == record.offset + req.count
  <2>1. a = [Answer("Appended") EXCEPT !.offset = tail, !.closed = req.close,
                                       !.epoch = epoch, !.seq = seq]
    BY <1>12 DEF Answered
  <2>2. epoch = None <=> req.position = None
    BY <1>4, NoneOrNat
  <2>3. req.position = None => seq = None
    OBVIOUS
  <2> HIDE DEF a, tail, epoch, seq
  <2>4. Says(a, "Appended", tail, epoch, seq, None, req.close)
    BY <2>1, BlankAnswer DEF Says, Answer, IsAnswer
  <2>5. /\ r.status = IF req.position # None /\ req.bytes THEN 200 ELSE 204
        /\ r.nextOffset = tail /\ r.closed = req.close /\ r.epoch = epoch /\ r.seq = seq
    BY <2>4 DEF Post, AppendResponse, Response, Says
  <2> HIDE DEF r
  <2>6. CASE req.position = None
    <3>1. Decoded(req, r) = [Answer("Appended") EXCEPT !.offset = r.nextOffset, !.closed = r.closed]
      BY <2>5, <2>6 DEF Decoded
    <3>2. Says(Decoded(req, r), "Appended", r.nextOffset, None, None, None, r.closed)
      BY <3>1, SaysAppended
    <3>3. Carried(req, a) = a
      BY <2>2, <2>4, <2>6, NoReason DEF Carried, Says
    <3>4. QED
      BY <2>2, <2>3, <2>4, <2>5, <2>6, <3>2, <3>3, SaysAll
  <2>7. CASE req.position # None /\ req.bytes
    <3>1. Decoded(req, r) = [Answer("Appended") EXCEPT !.offset = r.nextOffset,
                               !.closed = r.closed, !.epoch = r.epoch, !.seq = r.seq]
      BY <2>5, <2>7 DEF Decoded
    <3>2. Says(Decoded(req, r), "Appended", r.nextOffset, r.epoch, r.seq, None, r.closed)
      BY <3>1, SaysAppended
    <3>3. Carried(req, a) = a
      BY <2>4, <2>7, NoReason DEF Carried, Says, CloseOnly
    <3>4. QED
      BY <2>4, <2>5, <3>2, <3>3, SaysAll
  <2>8. CASE req.position # None /\ ~req.bytes
    <3>1. Decoded(req, r) = [Answer("Duplicate") EXCEPT !.offset = r.nextOffset,
                               !.closed = r.closed, !.epoch = r.epoch, !.seq = r.seq]
      BY <2>2, <2>5, <2>8 DEF Decoded
    <3>2. Says(Decoded(req, r), "Duplicate", r.nextOffset, r.epoch, r.seq, None, r.closed)
      BY <3>1, SaysAppended
    <3>3. Carried(req, a) = [a EXCEPT !.tag = "Duplicate"]
      BY <2>2, <2>4, <2>8 DEF Carried, Says, CloseOnly
    <3>4. Says(Carried(req, a), "Duplicate", tail, epoch, seq, None, req.close)
      BY <2>4, <3>3 DEF Says, IsAnswer, Fields
    <3>5. QED
      BY <2>5, <3>2, <3>4, SaysAll
  <2>9. QED
    BY <2>6, <2>7, <2>8, <1>1
<1>13. CASE verdict \in {"InvalidEpochSeq", "InvalidAppendRequest", "AppendConflict"}
  <2>1. a = Answer(verdict)
    BY <1>13 DEF Answered
  <2> HIDE DEF a, verdict
  <2>2. Says(a, verdict, None, None, None, None, FALSE)
    BY <2>1, BlankAnswer
  <2>3. CASE verdict = "AppendConflict"
    <3>1. r.status = 409 /\ r.expectedSeq = None /\ r.nextOffset = None
      BY <2>2, <2>3 DEF Post, ErrorResponse, Status409, Response, Says
    <3>2. Decoded(req, r) = a
      BY <2>1, <2>3, <3>1 DEF Decoded, Conflict
    <3>3. QED
      BY <2>2, <2>3, <3>2, NoReason DEF Carried, Says
  <2>4. CASE verdict # "AppendConflict"
    <3>1. r.status = 400
      BY <1>13, <2>2, <2>4 DEF Post, ErrorResponse, Response, Says
    <3>2. Decoded(req, r) = Answer("InvalidAppendRequest")
      BY <3>1 DEF Decoded
    <3>3. QED
      BY <1>13, <2>1, <2>2, <2>4, <3>2, NoReason DEF Carried, Says
  <2>5. QED
    BY <2>3, <2>4
<1>14. verdict \in {"Missing", "Duplicate", "StaleEpoch", "ProducerGap", "AlreadyClosed",
                    "StreamClosed", "OffsetMismatch", "Planned", "InvalidEpochSeq",
                    "InvalidAppendRequest", "AppendConflict"}
  BY DEF Verdict, ValidateProducer
<1>15. QED
  BY <1>6, <1>7, <1>8, <1>9, <1>10, <1>11, <1>12, <1>13, <1>14

LEMMA CreateTold ==
  ASSUME NEW record, NEW req
  PROVE  CreateIsTold(record, req)
<1> DEFINE a == CreateAnswer(record, req)
           r == CreateResponse(a)
<1>1. CASE a.tag \in {"Created", "Exists"}
  <2>0. PICK tag \in {"Created", "Exists"} : \E offset, type, closed :
          a = [Answer(tag) EXCEPT !.offset = offset, !.contentType = type, !.closed = closed]
    BY <1>1 DEF CreateAnswer, Answer
  <2>1. PICK offset, type, closed :
          a = [Answer(tag) EXCEPT !.offset = offset, !.contentType = type, !.closed = closed]
    BY <2>0
  <2> HIDE DEF a
  <2>2. /\ IsAnswer(a) /\ a.tag = tag /\ a.offset = offset /\ a.contentType = type
        /\ a.closed = closed /\ a.reason = None
    BY <2>1, BlankAnswer DEF Says, Answer, IsAnswer
  <2>3. /\ r.status = (IF tag = "Created" THEN 201 ELSE 200) /\ r.nextOffset = offset
        /\ r.contentType = type /\ r.closed = closed
    BY <2>2 DEF CreateResponse, Response
  <2> HIDE DEF r
  <2>4. DecodedCreate(r) = [Answer(tag) EXCEPT
          !.offset = r.nextOffset, !.contentType = r.contentType, !.closed = r.closed]
    <3>1. CASE tag = "Created"
      BY <2>3, <3>1 DEF DecodedCreate
    <3>2. CASE tag = "Exists"
      BY <2>3, <3>2 DEF DecodedCreate
    <3>3. QED
      BY <3>1, <3>2
  <2>5. DecodedCreate(r) = a
    BY <2>1, <2>3, <2>4
  <2>6. Carried(req, a) = a
    BY <2>2, NoReason DEF Carried
  <2>7. DecodedCreate(CreateResponse(CreateAnswer(record, req))) =
        Carried(req, CreateAnswer(record, req))
    BY <2>5, <2>6 DEF r, a
  <2>8. QED
    BY <2>7 DEF CreateIsTold
<1>2. CASE a.tag \notin {"Created", "Exists"}
  <2>1. PICK reason : a = [Answer("CreateConflict") EXCEPT !.reason = reason]
    BY <1>2 DEF CreateAnswer, Answer
  <2> HIDE DEF a
  <2>2. a.tag = "CreateConflict"
    BY <2>1 DEF Answer
  <2>3. r.status = 409
    BY <2>2 DEF CreateResponse, ErrorResponse, Status409, Response
  <2> HIDE DEF r
  <2>4. DecodedCreate(r) = Answer("CreateConflict")
    BY <2>3 DEF DecodedCreate
  <2>5. Says(Carried(req, a), "CreateConflict", None, None, None, None, FALSE)
    BY <2>1, <2>2, BlankAnswer DEF Carried, Says, Answer, IsAnswer
  <2>6. DecodedCreate(CreateResponse(CreateAnswer(record, req))) =
        Carried(req, CreateAnswer(record, req))
    BY <2>4, <2>5, BlankAnswer, SaysAll DEF r, a
  <2>7. QED
    BY <2>6 DEF CreateIsTold
<1>3. QED
  BY <1>1, <1>2

LEMMA HeadTold ==
  ASSUME NEW record, Lasting(record)
  PROVE  HeadIsTold(record)
<1> DEFINE a == HeadAnswer(record)
           r == HeadResponse(a)
<1>1. CASE Live(record)
  <2>1. a = [Answer("Head") EXCEPT
          !.offset = record.offset, !.contentType = record.contentType, !.ttl = record.ttl,
          !.expiresAt = Configured(record), !.closed = record.closed]
    BY <1>1 DEF HeadAnswer
  <2>2. record.ttl # 0
    BY <1>1 DEF Lasting, Live
  <2> HIDE DEF a
  <2>3. /\ a.tag = "Head" /\ a.offset = record.offset /\ a.contentType = record.contentType
        /\ a.ttl = record.ttl /\ a.expiresAt = Configured(record) /\ a.closed = record.closed
        /\ IsAnswer(a) /\ a.epoch = None /\ a.seq = None /\ a.expectedSeq = None
        /\ a.reason = None
    BY <2>1, BlankAnswer DEF Answer, IsAnswer
  <2>4. /\ r.status = 200 /\ r.nextOffset = a.offset /\ r.contentType = a.contentType
        /\ r.ttl = a.ttl /\ r.expiresAt = a.expiresAt /\ r.closed = a.closed
    BY <2>2, <2>3 DEF HeadResponse, Response
  <2> HIDE DEF r
  <2>5. DecodedHead(r) = [Answer("Head") EXCEPT !.offset = r.nextOffset,
            !.contentType = r.contentType, !.ttl = r.ttl, !.expiresAt = r.expiresAt,
            !.closed = r.closed]
    BY <2>4 DEF DecodedHead
  <2> DEFINE b == DecodedHead(r)
  <2>6. /\ b.tag = "Head" /\ b.offset = r.nextOffset /\ b.contentType = r.contentType
        /\ b.ttl = r.ttl /\ b.expiresAt = r.expiresAt /\ b.closed = r.closed
        /\ IsAnswer(b) /\ b.epoch = None /\ b.seq = None /\ b.expectedSeq = None
        /\ b.reason = None
    BY <2>5, BlankAnswer DEF Answer, IsAnswer
  <2> HIDE DEF b
  <2>7. b = a
    BY <2>3, <2>4, <2>6, AnswersEqual
  <2>8. QED
    BY <2>7 DEF HeadIsTold, b, r, a
<1>2. CASE ~Live(record)
  <2>1. PICK tag \in {"StreamNotFound", "StreamGone"} : a = Answer(tag)
    BY <1>2 DEF HeadAnswer, Absent
  <2> HIDE DEF a
  <2>2. a.tag = tag
    BY <2>1, BlankAnswer DEF Says
  <2>3. /\ tag = "StreamNotFound" => r.status = 404
        /\ tag = "StreamGone" => r.status = 410
    BY <2>2 DEF HeadResponse, ErrorResponse, Response
  <2> HIDE DEF r
  <2>4. DecodedHead(r) = a
    BY <2>1, <2>3 DEF DecodedHead
  <2>5. QED
    BY <2>4 DEF HeadIsTold, r, a
<1>3. QED
  BY <1>1, <1>2

LEMMA RemoveTold == RemoveIsTold
<1> DEFINE a == RemoveAnswer(stream)
           r == RemoveResponse(a)
<1>1. PICK tag \in {"Removed", "StreamNotFound", "StreamGone"} : a = Answer(tag)
  BY DEF RemoveAnswer, Absent
<1> HIDE DEF a
<1>2. a.tag = tag
  BY <1>1, BlankAnswer DEF Says
<1>3. /\ tag = "Removed" => r.status = 204
      /\ tag = "StreamNotFound" => r.status = 404
      /\ tag = "StreamGone" => r.status = 410
  BY <1>2 DEF RemoveResponse, ErrorResponse, Response
<1> HIDE DEF r
<1>4. DecodedRemove(r) = a
  BY <1>1, <1>3 DEF DecodedRemove
<1>5. QED
  BY <1>4 DEF RemoveIsTold, r, a

\* A stream keeps the TTL it was created with, and calls see streams only.
LEMMA LastNext == SomeTTL /\ Typed /\ Stored /\ AllLast /\ [Next]_vars => AllLast'
<1> SUFFICES ASSUME SomeTTL, Typed, Stored, AllLast, [Next]_vars PROVE AllLast'
  OBVIOUS
<1>1. Lasting(stream')
  <2>1. CASE Quiet
    BY <2>1 DEF Quiet, Agrees, AllLast, Lasting
  <2>2. CASE Withdraws
    <3>1. CASE Purge
      BY <3>1 DEF Purge, Lasting
    <3>2. CASE ~Purge
      <4>1. /\ stream \in StreamRecord /\ stream # None
            /\ stream' = [stream EXCEPT !.softDeleted = TRUE]
        BY <2>2, <3>2, Withdrawn, RecordAssumption
      <4>2. stream'.ttl = stream.ttl
        BY <4>1 DEF StreamRecord
      <4>3. QED
        BY <4>1, <4>2 DEF AllLast, Lasting
    <3>3. QED
      BY <3>1, <3>2
  <2>3. CASE Collects
    BY <2>3 DEF Collects, Purge, Lasting
  <2>4. ASSUME NEW c \in Calls, Creates(c) PROVE Lasting(stream')
    <3>1. fiber[c].req \in Requests /\ fiber[c].req.kind = "create"
      BY <2>4 DEF Creates, Create, At, Typed, Fibers, FiberOK
    <3>2. stream'.ttl = fiber[c].req.ttl
      BY <2>4 DEF Creates, Create
    <3>3. QED
      BY <3>1, <3>2 DEF SomeTTL, Lasting
  <2>5. ASSUME NEW c \in Calls, Lands(c) PROVE Lasting(stream')
    <3>1. stream \in StreamRecord /\ stream # None
      BY <2>5 DEF Lands, AppendRejected, Live, Typed, TypeOK, Optional
    <3>2. stream'.ttl = stream.ttl
      BY <2>5, <3>1 DEF Lands, Accept, StreamRecord
    <3>3. QED
      BY <3>1, <3>2 DEF AllLast, Lasting
  <2>6. QED
    BY <2>1, <2>2, <2>3, <2>4, <2>5, StoreStep
<1>2. ASSUME NEW c \in Calls PROVE Lasting(fiber'[c].seen)
  BY ReadStep DEF AllLast, Lasting
<1>3. QED
  BY <1>1, <1>2 DEF AllLast

LEMMA AllAreTold == Typed /\ AllLast => RemoteIsTold
<1> SUFFICES ASSUME Typed, AllLast, NEW c \in Calls
             PROVE  LET f == fiber[c] IN
                      /\ At(c, "plan") => AppendIsTold(f.seen, f.req)
                      /\ At(c, "clock") =>
                           IF f.req.kind = "read" THEN HeadIsTold(f.seen)
                                                  ELSE CreateIsTold(f.seen, f.req)
                      /\ At(c, "create") => CreateIsTold(stream, f.req)
                      /\ At(c, "remove") => RemoveIsTold
  BY DEF RemoteIsTold
<1>1. CASE At(c, "plan")
  <2>1. fiber[c].req \in Requests /\ fiber[c].req.kind = "append"
    BY <1>1 DEF At, Typed, Fibers, FiberOK
  <2>2. fiber[c].req \in AppendRequest
    BY <2>1, RequestsAssumption DEF Request, CreateRequest, PlainRequest
  <2>3. /\ fiber[c].seen \in Optional(StreamRecord)
        /\ producers \in [ProducerIds -> Optional(ProducerState)]
    BY DEF Typed, TypeOK, Fiber
  <2>4. AppendIsTold(fiber[c].seen, fiber[c].req)
    BY <2>2, <2>3, AppendTold
  <2>5. QED
    BY <1>1, <2>4 DEF At
<1>2. HeadIsTold(fiber[c].seen)
  BY HeadTold DEF AllLast
<1>3. CASE ~At(c, "plan")
  BY <1>2, <1>3, CreateTold, RemoveTold
<1>4. QED
  BY <1>1, <1>3

(***************************************************************************)
(* Whatever a call has read when it decides, the status and the headers of *)
(* its answer tell a remote caller all that a local one is told, if no     *)
(* stream is created with a TTL of 0.                                      *)
(***************************************************************************)
THEOREM RemoteCallersAreTold == SomeTTL => (Spec => []RemoteIsTold)
<1>1. Init => Typed /\ Stored /\ AllLast
  <2>1. ASSUME Init, NEW c \in Calls PROVE Lasting(fiber[c].seen)
    BY <2>1 DEF Init, Idle, Lasting
  <2>2. QED
    BY <2>1, TypedInit, StoredInit DEF Init, AllLast, Lasting
<1> SUFFICES ASSUME SomeTTL PROVE Spec => []RemoteIsTold
  OBVIOUS
<1>2. Typed /\ Stored /\ AllLast /\ [Next]_vars => (Typed /\ Stored /\ AllLast)'
  BY TypedNext, StoredNext, LastNext
<1>3. Typed /\ AllLast => RemoteIsTold
  BY AllAreTold
<1>4. QED
  BY <1>1, <1>2, <1>3, PTL DEF Spec
=============================================================================
