----------------------------- MODULE LiveReads ------------------------------
(***************************************************************************)
(* Readers and deciders of one stream: Streams.follow and Streams.decide   *)
(* (packages/core/src/toolkit/streams.ts) over read and readNext of the    *)
(* protocol (protocol/read.ts), woken by the changes of a storage          *)
(* (storage/memory/changes.ts, notifier.ts; packages/storage/src/          *)
(* boundary.ts).  A read takes the record and then the messages, and       *)
(* whatever else happens, happens in between.                              *)
(*                                                                         *)
(* A reader is in the process of the storage or at the other end of HTTP   *)
(* (packages/core/src/http, remote), where it polls or holds a body of     *)
(* events; there its host may drain and be replaced.                       *)
(***************************************************************************)
EXTENDS Naturals, Sequences

CONSTANTS Followers, Deciders,
          Clients,    \* the kinds of followers considered, see client
          Hosts,      \* the storages considered, see host
          ReadLimit,  \* messages a page of read holds
          Races,      \* how often decide is retried after it lost a race
          MaxTail,    \* bound: messages of a stream
          MaxFaults   \* bound: failed reads, expired bodies and drains

ASSUME LiveAssumption ==
  /\ Hosts \subseteq {"push", "sql", "poll"}
  /\ Clients \subseteq {"direct", "poll", "session", "sse"} \X {"start", "now"}
  /\ ReadLimit \in Nat \ {0} /\ Races \in Nat
  /\ MaxTail \in Nat /\ MaxFaults \in Nat

VARIABLES
  host,        \* how changes are noticed: "push" publishes every commit, "sql" may
               \* fail to and repairs, "poll" looks again and again
  client,      \* how followers read: "direct", over HTTP by catch-up reads and long
               \* polls ("poll") or by long polls only ("session"), or from a body of
               \* events ("sse"); and from where, the start of the stream or its end
  draining,    \* the HTTP host is about to stop
  present,     \* whether the stream is there; once removed it does not come back
  log,         \* its messages: a number each, none twice
  closed, softDeleted,
  unpublished, \* a commit has not been published yet
  follower, decider,
  stale,       \* history: an append was decided from another state than it was made on
  faults       \* history: faults so far

vars == <<host, client, draining, present, log, closed, softDeleted, unpublished,
          follower, decider, stale, faults>>
stream == <<present, log, closed, softDeleted, unpublished>>
setting == <<host, client, draining>>
rest == <<setting, stale, faults>>

How == client[1]
Remote == How # "direct"

CurrentOffset == Len(log)

\* A ChangeSnapshot, which is also what a reader keeps of a record.
Snapshot == [present |-> present, tail |-> CurrentOffset, closed |-> closed, softDeleted |-> softDeleted]
Nothing == [present |-> FALSE, tail |-> 0, closed |-> FALSE, softDeleted |-> FALSE]
Found == present /\ ~softDeleted

\* A reader: where it is and what its present read has seen; signal is its queue
\* of wakes, which holds one.  now says that it has no offset yet and asks for the
\* end of the stream.  got and base are history: the messages it yielded, and the
\* offset they begin after.
Start ==
  [pc |-> IF How = "sse" THEN "connect" ELSE "record", live |-> How = "session",
   now |-> client[2] = "now", offset |-> 0, seen |-> Nothing, signal |-> FALSE,
   got |-> <<>>, base |-> 0]

Begin == [pc |-> "idle", offset |-> 0, seen |-> Nothing, state |-> <<>>, tries |-> 0]

Init ==
  /\ host \in Hosts /\ client \in Clients /\ draining = FALSE
  /\ present = TRUE /\ log = <<>>
  /\ closed = FALSE /\ softDeleted = FALSE /\ unpublished = FALSE
  /\ follower = [f \in Followers |-> Start]
  /\ decider = [d \in Deciders |-> Begin]
  /\ stale = FALSE /\ faults = 0

-----------------------------------------------------------------------------
(* Commits and their publication.                                          *)

Commit(new, close) ==
  /\ log' = log \o new
  /\ closed' = (closed \/ close)
  /\ unpublished' = TRUE
  /\ UNCHANGED <<present, softDeleted>>

Write ==
  /\ Found /\ ~closed
  /\ \E n \in 0..1, close \in BOOLEAN :
       /\ n = 1 \/ close
       /\ CurrentOffset + n <= MaxTail
       /\ Commit([k \in 1..n |-> CurrentOffset + k], close)
  /\ UNCHANGED <<rest, follower, decider>>

Remove ==
  /\ Found
  /\ \/ softDeleted' = TRUE /\ UNCHANGED <<present, log, closed>>
     \/ present' = FALSE /\ log' = <<>> /\ closed' = FALSE /\ UNCHANGED softDeleted
  /\ unpublished' = TRUE
  /\ UNCHANGED <<rest, follower, decider>>

\* A wake for every subscription; a full queue keeps the one it has.
Wake(fs) == [f \in Followers |-> IF f \in fs /\ follower[f].pc \in {"first", "waiting"}
                                 THEN [follower[f] EXCEPT !.signal = TRUE] ELSE follower[f]]

Publish ==
  /\ unpublished /\ unpublished' = FALSE
  /\ follower' = Wake(IF host = "poll" THEN {} ELSE Followers)
  /\ UNCHANGED <<rest, present, log, closed, softDeleted, decider>>

\* A SQL transaction interrupted after its COMMIT is never published ...
CutOff ==
  /\ host = "sql" /\ unpublished /\ unpublished' = FALSE
  /\ UNCHANGED <<rest, present, log, closed, softDeleted, follower, decider>>

\* ... so each subscription also wakes by itself from time to time, which is all
\* that a storage that is polled does.
Repair(f) ==
  /\ host # "push" /\ follower[f].pc = "waiting" /\ ~follower[f].signal
  /\ follower' = Wake({f})
  /\ UNCHANGED <<rest, stream, decider>>

-----------------------------------------------------------------------------
(* read and readNext for a follower.                                       *)

At(f, pc) == follower[f].pc = pc
Goto(f, pc) == follower' = [follower EXCEPT ![f].pc = pc]
FollowerOnly == UNCHANGED <<rest, stream, decider>>

\* GET with live=sse: the head of the stream is the start of the body.
Connect(f) ==
  LET r == follower[f]
      from == IF r.now THEN CurrentOffset ELSE r.offset
  IN  /\ At(f, "connect")
      /\ IF ~Found THEN Goto(f, "failed")
         ELSE follower' = [follower EXCEPT ![f].pc = "record", ![f].live = FALSE,
                ![f].offset = from, ![f].base = IF r.now THEN from ELSE @]
      /\ FollowerOnly

\* The record, at the start of a read or after the wait of readNext.  A follower
\* that finds no stream fails; a body of events ends.
ReadRecord(f) ==
  LET fromEnd == At(f, "record") /\ How # "sse" /\ follower[f].now
  IN  /\ At(f, "record") \/ At(f, "latest")
      /\ IF ~Found THEN Goto(f, IF How = "sse" THEN "connect" ELSE "failed")
         ELSE follower' = [follower EXCEPT
                ![f].seen = Snapshot,
                ![f].offset = IF fromEnd THEN CurrentOffset ELSE @,
                ![f].base = IF fromEnd THEN CurrentOffset ELSE @,
                ![f].pc = IF At(f, "latest") THEN "result" ELSE "messages"]
      /\ FollowerOnly

Messages(offset, limit) ==
  SubSeq(log, offset + 1,
         IF offset + limit < CurrentOffset THEN offset + limit ELSE CurrentOffset)

\* The batch is yielded if there is something in it.  The next read begins after
\* it; a closed batch is the last one.  In a body of events the pages end with the
\* first one.  The answer 204 to a long poll carries no content type: the remote
\* reader asks for it before it goes on.
Yields(f, messages, next, upToDate, end) ==
  LET unnamed == messages = <<>> /\ follower[f].live /\ How \in {"poll", "session"}
  IN  follower' = [follower EXCEPT
        ![f].got = @ \o messages, ![f].offset = next,
        ![f].now = @ /\ unnamed,
        ![f].live = upToDate \/ How \in {"session", "sse"},
        ![f].signal = FALSE, ![f].seen = Nothing,
        ![f].pc = IF unnamed THEN IF end THEN "last type" ELSE "type"
                  ELSE IF end THEN "closed" ELSE "record"]

\* A page of the stream, which may have grown, or gone, since its record was read.
ReadPage(f) ==
  LET r == follower[f]
      messages == Messages(r.offset, ReadLimit)
      next == IF messages = <<>> THEN r.seen.tail ELSE r.offset + Len(messages)
      upToDate == next = r.seen.tail
  IN  /\ At(f, "messages") /\ ~r.live /\ ~(How = "poll" /\ r.now)
      /\ Yields(f, messages, next, upToDate, r.seen.closed /\ upToDate)
      /\ FollowerOnly

\* GET with offset=now and no live mode: an empty body, at the offset a read gives.
ReadNow(f) ==
  LET r == follower[f]
      messages == Messages(r.offset, ReadLimit)
      next == IF messages = <<>> THEN r.seen.tail ELSE r.offset + Len(messages)
  IN  /\ At(f, "messages") /\ ~r.live /\ How = "poll" /\ r.now
      /\ follower' = [follower EXCEPT
           ![f].offset = next, ![f].base = next, ![f].now = FALSE, ![f].live = TRUE,
           ![f].seen = Nothing,
           ![f].pc = IF r.seen.closed /\ next = r.seen.tail THEN "closed" ELSE "record"]
      /\ FollowerOnly

ContentType(f) ==
  /\ At(f, "type") \/ At(f, "last type")
  /\ IF ~Found THEN Goto(f, "failed")
     ELSE follower' = [follower EXCEPT ![f].now = FALSE,
            ![f].pc = IF At(f, "type") THEN "record" ELSE "closed"]
  /\ FollowerOnly

\* A slip: the end of the stream is waited for like a message.
ReadLiveOpen(f) ==
  LET r == follower[f]
      messages == Messages(r.offset, MaxTail)
  IN  /\ At(f, "messages") /\ r.live
      /\ IF messages = <<>> THEN Goto(f, "subscribe")
         ELSE Yields(f, messages, r.offset + Len(messages), TRUE, FALSE)
      /\ FollowerOnly

\* readNext answers at once with what is there, or with the end of the stream.
ReadLive(f) ==
  LET r == follower[f]
      messages == Messages(r.offset, MaxTail)
      next == IF messages = <<>> THEN r.seen.tail ELSE r.offset + Len(messages)
  IN  /\ At(f, "messages") /\ r.live
      /\ IF messages = <<>> /\ ~r.seen.closed THEN Goto(f, "subscribe")
         ELSE Yields(f, messages, next, TRUE, r.seen.closed /\ next = r.seen.tail)
      /\ FollowerOnly

\* Otherwise it subscribes, ...
Subscribe(f) ==
  /\ At(f, "subscribe") /\ Goto(f, "first")
  /\ FollowerOnly

\* A slip: it looks for a wake only.
LookWhenWoken(f) ==
  /\ \/ At(f, "first") /\ Goto(f, "waiting")
     \/ /\ At(f, "waiting") /\ follower[f].signal
        /\ follower' = [follower EXCEPT
             ![f].signal = FALSE,
             ![f].pc = IF Snapshot # follower[f].seen THEN "latest" ELSE "waiting"]
  /\ FollowerOnly

\* ... and looks: at once, and for every wake.
Look(f) ==
  /\ \/ At(f, "first")
     \/ At(f, "waiting") /\ follower[f].signal
  /\ follower' = [follower EXCEPT
       ![f].signal = IF At(f, "waiting") THEN FALSE ELSE @,
       ![f].pc = IF Snapshot # follower[f].seen THEN "latest" ELSE "waiting"]
  /\ FollowerOnly

TimeOut(f) ==
  /\ follower[f].pc \in {"subscribe", "first", "waiting"} /\ Goto(f, "latest")
  /\ FollowerOnly

\* The tail a reader was woken by may show before its messages do: then it stays
\* where it is (liveResult).
ReadResult(f) ==
  LET r == follower[f]
      messages == Messages(r.offset, MaxTail)
      next == IF messages # <<>> THEN r.offset + Len(messages)
              ELSE IF r.offset < r.seen.tail THEN r.offset ELSE r.seen.tail
  IN  /\ At(f, "result")
      /\ Yields(f, messages, next, TRUE, r.seen.closed /\ next = r.seen.tail)
      /\ FollowerOnly

\* A read that failed, on the storage or on its way, is repeated from the same
\* offset; the reader of a body that broke off connects again.
Again(f) ==
  [follower[f] EXCEPT !.pc = IF How = "sse" THEN "connect" ELSE "record",
                      !.signal = FALSE, !.seen = Nothing]

Ended(f) == follower[f].pc \in {"closed", "failed"}

Retry(f) ==
  /\ ~Ended(f) /\ faults < MaxFaults
  /\ faults' = faults + 1
  /\ follower' = [follower EXCEPT ![f] = Again(f)]
  /\ UNCHANGED <<setting, stale, stream, decider>>

-----------------------------------------------------------------------------
(* The HTTP host drains before it stops: a live read that is under way, or *)
(* arrives, is answered at once.                                           *)

\* Not a host that keeps the streams in its memory.
Drain ==
  /\ Remote /\ host # "push" /\ ~draining /\ faults < MaxFaults
  /\ draining' = TRUE /\ faults' = faults + 1
  /\ UNCHANGED <<host, client, stale, stream, follower, decider>>

\* A long poll is answered with no messages and the offset it asked for; one that
\* asked for the end of the stream, with the tail there is then.
DrainReply(f) ==
  /\ draining /\ How \in {"poll", "session"} /\ follower[f].live
  /\ follower[f].pc \in {"messages", "subscribe", "first", "waiting", "latest", "result"}
  /\ IF ~Found THEN Goto(f, "failed")
     ELSE Yields(f, <<>>, IF follower[f].now THEN CurrentOffset ELSE follower[f].offset,
                 TRUE, FALSE)
  /\ FollowerOnly

\* A slip: the body ends after the messages of a batch, before the event that moves
\* the reader's offset past them.
EndBodyInBatch(f) ==
  LET r == follower[f]
  IN  /\ How = "sse" /\ draining /\ r.pc \notin {"connect", "closed", "failed"}
      /\ follower' = [follower EXCEPT ![f] = [Again(f) EXCEPT
           !.got = IF r.pc = "messages" /\ ~r.live THEN @ \o Messages(r.offset, ReadLimit)
                   ELSE @]]
      /\ FollowerOnly

\* A body of events ends, whatever its next batch was about to be; the reader
\* connects again.
EndBody(f) ==
  /\ How = "sse" /\ draining /\ follower[f].pc \notin {"connect", "closed", "failed"}
  /\ follower' = [follower EXCEPT ![f] = Again(f)]
  /\ FollowerOnly

\* The requests that the host has not answered by then are cut off; another host
\* takes its place.
Stop ==
  /\ draining /\ draining' = FALSE
  /\ follower' = [f \in Followers |-> IF Ended(f) THEN follower[f] ELSE Again(f)]
  /\ UNCHANGED <<host, client, stale, faults, stream, decider>>

-----------------------------------------------------------------------------
(* decide: fold the stream to its tail, decide, append on that tail.       *)

DeciderOnly == UNCHANGED <<setting, faults, follower>>
Ends(d) == decider' = [decider EXCEPT ![d] = [Begin EXCEPT !.pc = "end"]]
Goes(d, pc) == decider' = [decider EXCEPT ![d].pc = pc]

Decide(d) ==
  /\ decider[d].pc = "idle" /\ Goes(d, "record")
  /\ DeciderOnly /\ UNCHANGED <<stale, stream>>

FoldRecord(d) ==
  /\ decider[d].pc = "record"
  /\ IF ~Found THEN Ends(d)
     ELSE decider' = [decider EXCEPT
            ![d].seen = Snapshot, ![d].pc = "messages"]
  /\ DeciderOnly /\ UNCHANGED <<stale, stream>>

FoldPage(d) ==
  LET r == decider[d]
      messages == Messages(r.offset, ReadLimit)
      next == IF messages = <<>> THEN r.seen.tail ELSE r.offset + Len(messages)
  IN  /\ r.pc = "messages"
      /\ decider' = [decider EXCEPT
           ![d].state = @ \o messages, ![d].offset = next,
           ![d].pc = IF next = r.seen.tail THEN "append" ELSE "record"]
      /\ DeciderOnly /\ UNCHANGED <<stale, stream>>

\* A slip: after a lost race the state is kept and the offset taken from the stream.
AppendAfterRace(d) ==
  LET r == decider[d]
  IN  /\ r.pc = "append" /\ Found /\ ~closed /\ CurrentOffset < MaxTail
      /\ Commit(<<CurrentOffset + 1>>, FALSE)
      /\ Ends(d)
      /\ stale' = (stale \/ r.state # log)
      /\ DeciderOnly

\* The decision: to append a message made from the state, or none.  The append may
\* find the stream closed or gone.  Only a lost race is tried again, on from the
\* state that was folded.
AppendDecided(d) ==
  LET r == decider[d]
  IN  /\ r.pc = "append"
      /\ \/ Ends(d) /\ UNCHANGED <<stale, stream>>
         \/ /\ Found /\ ~closed /\ r.offset # CurrentOffset
            /\ IF r.tries < Races
               THEN decider' = [decider EXCEPT ![d].tries = r.tries + 1, ![d].pc = "record"]
               ELSE Ends(d)
            /\ UNCHANGED <<stale, stream>>
         \/ /\ Found /\ ~closed /\ r.offset = CurrentOffset /\ CurrentOffset < MaxTail
            /\ Commit(<<CurrentOffset + 1>>, FALSE)
            /\ Ends(d)
            /\ stale' = (stale \/ r.state # log)
      /\ DeciderOnly

-----------------------------------------------------------------------------
Reads(f) ==
  \/ Connect(f) \/ ReadRecord(f) \/ ReadPage(f) \/ ReadNow(f) \/ ReadLive(f)
  \/ Subscribe(f) \/ Look(f) \/ ReadResult(f) \/ ContentType(f) \/ Repair(f)

Next ==
  \/ Write \/ Remove \/ Publish \/ CutOff \/ Drain \/ Stop
  \/ \E f \in Followers :
       Reads(f) \/ TimeOut(f) \/ Retry(f) \/ DrainReply(f) \/ EndBody(f)
  \/ \E d \in Deciders : Decide(d) \/ FoldRecord(d) \/ FoldPage(d) \/ AppendDecided(d)

\* A read goes on, a commit is published or cut off, and a repair comes; a drain has
\* a timeout.  That a wait times out is not assumed: messages arrive without it.
Spec == Init /\ [][Next]_vars
Fairness ==
  WF_vars(Publish) /\ WF_vars(Stop) /\ \A f \in Followers : WF_vars(Reads(f))
-----------------------------------------------------------------------------
(* Properties.                                                             *)

TypeOK ==
  /\ host \in Hosts /\ present \in BOOLEAN /\ log \in Seq(1..MaxTail) /\ CurrentOffset <= MaxTail
  /\ \A f \in Followers : follower[f].offset \in 0..MaxTail /\ follower[f].got \in Seq(1..MaxTail)
  /\ \A d \in Deciders : decider[d].tries \in 0..Races /\ decider[d].offset \in 0..MaxTail

\* Of a stream that is still there, a follower has yielded each message from where
\* it began up to its offset once and in order, whatever was appended or failed
\* between the record and the messages of a read (streams.ts follow), and however
\* often its host stopped (process.mdx, Clean shutdown).
YieldsInOrder ==
  present => \A f \in Followers : LET r == follower[f]
    IN  r.offset = r.base + Len(r.got) /\ r.got = SubSeq(log, r.base + 1, r.offset)

\* A follower stops at a closed batch with everything: no message is behind it
\* (read.ts readRecord, liveResult).
ClosedIsTheEnd ==
  present => \A f \in Followers : At(f, "closed") => closed /\ follower[f].offset = CurrentOffset

\* What a follower yields is what the stream holds, once, in order and, when it is
\* told that this was all, all of it (streams.ts follow).
YieldsEachOnce == TypeOK /\ YieldsInOrder /\ ClosedIsTheEnd

\* What decide appended was decided from exactly the messages before it
\* (streams.ts decide).
DecidedOnTheState == ~stale

\* Every message of a stream that stays is yielded, without waiting for a timeout:
\* also when its commit was not published, or the read failed.
MessagesArrive ==
  \A f \in Followers, n \in 1..MaxTail :
    (Found /\ CurrentOffset >= n) ~> (follower[f].offset >= n \/ ~Found)

\* So does the end of the stream, and its removal: the follower ends.
EndArrives ==
  \A f \in Followers : (closed \/ ~Found) ~> (follower[f].pc \in {"closed", "failed"})
=============================================================================
