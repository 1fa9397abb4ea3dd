--------------------------- MODULE ToolkitProofs ----------------------------
(***************************************************************************)
(* What the toolkit of the core promises.                                  *)
(*                                                                         *)
(* Readers and deciders of a stream, for any number of them, any page size *)
(* and any faults: a reader yields each message once and in order, up to   *)
(* the end when it is told so, and a decision is made on exactly the       *)
(* messages before it.  A long poll from the end of the stream that is     *)
(* answered because its host drains is left out: a message can pass it by. *)
(*                                                                         *)
(* Wake streams, for any sources and pages: a consumer that follows only   *)
(* the rows reads every source without a gap, and at the end of the rows   *)
(* it has what they amount to.                                             *)
(***************************************************************************)
EXTENDS LiveReads, WakeState, SequenceTheorems, FiniteSetTheorems, WellFoundedInduction, TLAPS

T == INSTANCE WakeStreams

-----------------------------------------------------------------------------
(***************************************************************************)
(* The inductive invariant.                                                *)
(***************************************************************************)
Labels == {"connect", "record", "messages", "subscribe", "first", "waiting", "latest",
           "result", "type", "last type", "closed", "failed"}

Snapshots == [present : BOOLEAN, tail : 0..MaxTail, closed : BOOLEAN, softDeleted : BOOLEAN]

Reader == [pc : Labels, live : BOOLEAN, now : BOOLEAN, offset : 0..MaxTail, seen : Snapshots,
           signal : BOOLEAN, got : Seq(1..MaxTail), base : 0..MaxTail]

Folder == [pc : {"idle", "record", "messages", "append", "end"}, offset : 0..MaxTail,
           seen : Snapshots, state : Seq(1..MaxTail), tries : 0..Races]

Types ==
  /\ host \in Hosts /\ client \in Clients
  /\ present \in BOOLEAN /\ closed \in BOOLEAN /\ softDeleted \in BOOLEAN
  /\ follower \in [Followers -> Reader] /\ decider \in [Deciders -> Folder]

\* Messages are numbered as they come, and go with the stream.
LogOK ==
  /\ log \in Seq(1..MaxTail) /\ Len(log) <= MaxTail
  /\ \A k \in 1..Len(log) : log[k] = k
  /\ ~present => log = <<>>

\* Messages that follow each other from an offset on.
NumberedFrom(s, offset) == \A k \in 1..Len(s) : s[k] = offset + k

\* What was seen of a stream is still true: it has no fewer messages, and no more if
\* it was closed.
SeenOK(seen) ==
  present => /\ seen.tail <= Len(log)
             /\ seen.closed => closed /\ seen.tail = Len(log)

FromTheEndOfSession == client = <<"session", "now">>

\* A reader has what is between its base and its offset, and reads a page of a stream
\* that it has seen to reach that far.
ReaderOK(r) ==
  present /\ ~FromTheEndOfSession =>
    /\ r.offset = r.base + Len(r.got) /\ r.offset <= Len(log)
    /\ NumberedFrom(r.got, r.base)
    /\ r.now => r.got = <<>>
    /\ r.pc \in {"messages", "result"} => r.offset <= r.seen.tail
    /\ r.pc \in {"closed", "last type"} => closed /\ r.offset = Len(log)
    /\ How = "poll" /\ r.now => ~r.live
    /\ How = "session" => ~r.now

\* A decider has folded the messages before its offset.
FolderOK(d) ==
  present => /\ Len(d.state) = d.offset /\ d.offset <= Len(log)
             /\ NumberedFrom(d.state, 0)
             /\ d.pc = "messages" => d.offset <= d.seen.tail

Inv ==
  /\ Types /\ LogOK /\ ~stale
  /\ \A f \in Followers : SeenOK(follower[f].seen) /\ ReaderOK(follower[f])
  /\ \A d \in Deciders : SeenOK(decider[d].seen) /\ FolderOK(decider[d])

-----------------------------------------------------------------------------
(***************************************************************************)
(* The pages of a read.                                                    *)
(***************************************************************************)
LEMMA MessagesMeans ==
    ASSUME LogOK, NEW offset \in Nat, NEW most \in Nat, NEW m, m = Messages(offset, most)
    PROVE  /\ m \in Seq(1..MaxTail) /\ Len(m) \in Nat /\ Len(log) \in Nat
           /\ m = <<>> \/ offset + Len(m) <= Len(log)
           /\ NumberedFrom(m, offset)
           /\ m = <<>> /\ most > 0 => Len(log) <= offset
<1> DEFINE to == IF offset + most < Len(log) THEN offset + most ELSE Len(log)
<1>1. /\ log \in Seq(1..MaxTail) /\ Len(log) \in Nat /\ \A k \in 1..Len(log) : log[k] = k
  BY LenProperties DEF LogOK
<1>2. m = SubSeq(log, offset + 1, to) /\ to \in Nat /\ to <= Len(log)
  BY <1>1 DEF Messages, CurrentOffset
<1>3. most > 0 => to > offset \/ Len(log) <= offset
  BY <1>1
<1> HIDE DEF to
<1>4. \A k \in offset + 1..to : k \in 1..Len(log)
  BY <1>1, <1>2
<1>5. \A k \in offset + 1..to : log[k] \in 1..MaxTail
  BY <1>1, <1>4, ElementOfSeq
<1>6. /\ m \in Seq(1..MaxTail)
      /\ Len(m) = IF offset + 1 <= to THEN to - (offset + 1) + 1 ELSE 0
      /\ \A k \in 1..to - (offset + 1) + 1 : m[k] = log[offset + 1 + k - 1]
  BY <1>2, <1>5, SubSeqProperties
<1>7. Len(m) \in Nat
  BY <1>6, LenProperties
<1>8. CASE offset + 1 <= to
  <2>1. Len(m) = to - offset /\ offset + Len(m) <= Len(log) /\ Len(m) # 0
    BY <1>1, <1>2, <1>6, <1>8
  <2>2. \A k \in 1..Len(m) : k \in 1..to - (offset + 1) + 1 /\ offset + 1 + k - 1 = offset + k
                             /\ offset + k \in 1..Len(log)
    BY <1>1, <1>2, <2>1
  <2>3. NumberedFrom(m, offset)
    BY <1>1, <1>6, <2>2 DEF NumberedFrom
  <2>4. m # <<>>
    BY <2>1
  <2> QED
    BY <1>1, <1>6, <1>7, <2>1, <2>3, <2>4
<1>9. CASE ~(offset + 1 <= to)
  <2>1. m = <<>> /\ Len(m) = 0
    BY <1>6, <1>9, EmptySeq
  <2>2. most > 0 => Len(log) <= offset
    BY <1>2, <1>3, <1>9
  <2>3. NumberedFrom(m, offset)
    BY <2>1 DEF NumberedFrom
  <2> QED
    BY <1>1, <1>6, <1>7, <2>1, <2>2, <2>3
<1> QED
  BY <1>8, <1>9

\* A batch joins what was yielded before.
LEMMA BatchJoins ==
    ASSUME NEW got \in Seq(1..MaxTail), NEW m \in Seq(1..MaxTail), NEW base \in Nat,
           NEW more, more = got \o m
    PROVE  /\ more \in Seq(1..MaxTail) /\ Len(more) = Len(got) + Len(m)
           /\ Len(got) \in Nat /\ Len(m) \in Nat
           /\ m = <<>> => more = got
           /\ NumberedFrom(got, base) => (NumberedFrom(m, base + Len(got)) => NumberedFrom(more, base))
<1>1. /\ more \in Seq(1..MaxTail) /\ Len(more) = Len(got) + Len(m)
      /\ \A k \in 1..Len(got) + Len(m) :
           more[k] = IF k <= Len(got) THEN got[k] ELSE m[k - Len(got)]
  BY ConcatProperties
<1>2. Len(got) \in Nat /\ Len(m) \in Nat
  BY LenProperties
<1>3. m = <<>> => more = got
  BY ConcatEmptySeq
<1>4. ASSUME \A k \in 1..Len(got) : got[k] = base + k,
             \A k \in 1..Len(m) : m[k] = base + Len(got) + k,
             NEW k \in 1..Len(more)
      PROVE  more[k] = base + k
  <2>1. k \in 1..Len(got) + Len(m)
    BY <1>1
  <2>2. CASE k <= Len(got)
    <3>1. k \in 1..Len(got)
      BY <1>2, <2>1, <2>2
    <3> QED
      BY <1>1, <1>4, <2>1, <2>2, <3>1
  <2>3. CASE ~(k <= Len(got))
    <3>1. k - Len(got) \in 1..Len(m) /\ base + Len(got) + (k - Len(got)) = base + k
      BY <1>2, <2>1, <2>3
    <3> QED
      BY <1>1, <1>4, <2>1, <2>3, <3>1
  <2> QED
    BY <2>2, <2>3
<1> QED
  BY <1>1, <1>2, <1>3, <1>4 DEF NumberedFrom

-----------------------------------------------------------------------------
(***************************************************************************)
(* A step of one reader.                                                   *)
(***************************************************************************)
LEMMA SnapshotMeans ==
    ASSUME Types, LogOK
    PROVE  /\ Snapshot \in Snapshots /\ Snapshot.tail = Len(log) /\ Snapshot.closed = closed
           /\ SeenOK(Snapshot)
           /\ Nothing \in Snapshots /\ SeenOK(Nothing)
           /\ Len(log) \in 0..MaxTail
<1>1. Len(log) \in Nat /\ MaxTail \in Nat /\ Len(log) <= MaxTail
  BY LiveAssumption, LenProperties DEF LogOK
<1>2. Snapshot \in Snapshots /\ Snapshot.tail = Len(log) /\ Snapshot.closed = closed
  BY <1>1 DEF Snapshot, Snapshots, CurrentOffset, Types
<1>3. Nothing \in Snapshots /\ Nothing.tail = 0 /\ ~Nothing.closed
  BY <1>1 DEF Nothing, Snapshots
<1> QED
  BY <1>1, <1>2, <1>3 DEF SeenOK

LEMMA OffsetIsNat == MaxTail \in Nat /\ \A n \in 0..MaxTail : n \in Nat
BY LiveAssumption

LEMMA ReadersStep ==
    ASSUME Inv, NEW next \in [Followers -> Reader], follower' = next,
           \A q \in Followers : SeenOK(next[q].seen) /\ ReaderOK(next[q]),
           UNCHANGED <<host, client, stale, present, log, closed, softDeleted, decider>>
    PROVE  Inv'
<1>1. /\ host' = host /\ client' = client /\ stale' = stale /\ decider' = decider
      /\ present' = present /\ log' = log /\ closed' = closed /\ softDeleted' = softDeleted
  OBVIOUS
<1>2. Types' /\ LogOK' /\ ~stale'
  BY <1>1 DEF Inv, Types, LogOK
<1>3. ASSUME NEW q \in Followers PROVE SeenOK(follower[q].seen)' /\ ReaderOK(follower[q])'
  <2>1. PICK g \in Reader : g = next[q] /\ SeenOK(g.seen) /\ ReaderOK(g)
    OBVIOUS
  <2>2. SeenOK(g.seen)'
    BY ONLY <1>1, <2>1 DEF SeenOK
  <2>3. ReaderOK(g)'
    BY ONLY <1>1, <2>1 DEF ReaderOK, FromTheEndOfSession, How
  <2> QED
    BY <2>1, <2>2, <2>3
<1>4. ASSUME NEW d \in Deciders PROVE SeenOK(decider[d].seen)' /\ FolderOK(decider[d])'
  BY <1>1 DEF Inv, SeenOK, FolderOK
<1> QED
  BY <1>2, <1>3, <1>4 DEF Inv

LEMMA ReaderStep ==
    ASSUME Inv, NEW f \in Followers, NEW h \in Reader, SeenOK(h.seen), ReaderOK(h),
           follower' = [follower EXCEPT ![f] = h],
           UNCHANGED <<host, client, stale, present, log, closed, softDeleted, decider>>
    PROVE  Inv'
<1>1. PICK next : next = [follower EXCEPT ![f] = h]
  OBVIOUS
<1>2. next \in [Followers -> Reader] /\ follower' = next
      /\ \A q \in Followers : next[q] = IF q = f THEN h ELSE follower[q]
  BY <1>1 DEF Inv, Types
<1>3. \A q \in Followers : SeenOK(next[q].seen) /\ ReaderOK(next[q])
  BY <1>2 DEF Inv
<1> QED
  BY <1>2, <1>3, ReadersStep

\* What is known of a reader does not depend on its wakes, nor on where it is as long
\* as it neither reads a page nor has ended.
LEMMA SameReader ==
    ASSUME NEW r \in Reader, NEW h \in Reader, ReaderOK(r),
           h.live = r.live, h.now = r.now, h.offset = r.offset, h.got = r.got,
           h.base = r.base,
           (h.pc = r.pc /\ h.seen = r.seen)
             \/ h.pc \notin {"messages", "result", "closed", "last type"}
    PROVE  ReaderOK(h)
BY DEF ReaderOK

\* A reader that goes on to a step for which nothing has to be known.
LEMMA GotoKeeps ==
    ASSUME Inv, NEW f \in Followers, 
           NEW pc \in Labels \ {"messages", "result", "closed", "last type"},
           Goto(f, pc), UNCHANGED <<host, client, stale, present, log, closed, softDeleted, decider>>
    PROVE  Inv'
<1>1. PICK r \in Reader : r = follower[f] /\ SeenOK(r.seen) /\ ReaderOK(r)
  BY DEF Inv, Types
<1>2. PICK h : h = [r EXCEPT !.pc = pc]
  OBVIOUS
<1>3. /\ h \in Reader /\ h.pc = pc /\ h.live = r.live /\ h.now = r.now /\ h.offset = r.offset
      /\ h.seen = r.seen /\ h.got = r.got /\ h.base = r.base
  BY <1>2 DEF Reader
<1>4. follower' = [follower EXCEPT ![f] = h]
  BY <1>1, <1>2 DEF Goto, Inv, Types
<1>5. SeenOK(h.seen) /\ ReaderOK(h)
  BY <1>1, <1>3, SameReader
<1> QED
  BY <1>3, <1>4, <1>5, ReaderStep

LEMMA SumsAgree ==
    ASSUME NEW base \in Nat, NEW had \in Nat, NEW has \in Nat
    PROVE  (base + had) + has = base + (had + has)
OBVIOUS

\* A batch follows what the reader has, and is the last one only at the end.
BatchOK(r, m, next, end) ==
  present /\ ~FromTheEndOfSession =>
    /\ next = r.offset + Len(m) /\ next <= Len(log)
    /\ NumberedFrom(m, r.offset)
    /\ end => closed /\ next = Len(log)

LEMMA YieldsKeeps ==
    ASSUME Inv, NEW f \in Followers, NEW r \in Reader, r = follower[f],
           NEW m, m \in Seq(1..MaxTail), NEW next \in 0..MaxTail,
           NEW upToDate \in BOOLEAN, NEW end \in BOOLEAN,
           BatchOK(r, m, next, end),
           Yields(f, m, next, upToDate, end),
           UNCHANGED <<host, client, stale, present, log, closed, softDeleted, decider>>
    PROVE  Inv'
<1>1. Types /\ LogOK /\ ReaderOK(r)
  BY DEF Inv
<1>2. PICK unnamed \in BOOLEAN :
         unnamed = (m = <<>> /\ r.live /\ How \in {"poll", "session"})
  BY DEF Reader
<1>3. PICK got : got = r.got \o m
  OBVIOUS
<1>4. PICK pc \in {"last type", "type", "closed", "record"} :
         pc = IF unnamed THEN IF end THEN "last type" ELSE "type"
              ELSE IF end THEN "closed" ELSE "record"
  OBVIOUS
<1>5. PICK live \in BOOLEAN : live = (upToDate \/ How \in {"session", "sse"})
  OBVIOUS
<1>6. PICK now \in BOOLEAN : now = (r.now /\ unnamed)
  OBVIOUS
<1>7. PICK h : h = [r EXCEPT !.got = got, !.offset = next, !.now = now, !.live = live,
                             !.signal = FALSE, !.seen = Nothing, !.pc = pc]
  OBVIOUS
<1>8. r.got \in Seq(1..MaxTail) /\ r.base \in Nat /\ r.offset \in Nat /\ next \in Nat
      /\ r.now \in BOOLEAN
  BY OffsetIsNat DEF Reader
<1>9. /\ got \in Seq(1..MaxTail) /\ Len(got) = Len(r.got) + Len(m)
      /\ Len(r.got) \in Nat /\ Len(m) \in Nat
      /\ m = <<>> => got = r.got
      /\ NumberedFrom(r.got, r.base) /\ NumberedFrom(m, r.base + Len(r.got))
           => NumberedFrom(got, r.base)
  <2>1. PICK old \in Seq(1..MaxTail), base \in Nat : old = r.got /\ base = r.base
    BY <1>8
  <2>3. got = old \o m
    BY <1>3, <2>1
  <2>4. /\ got \in Seq(1..MaxTail) /\ Len(got) = Len(old) + Len(m)
        /\ Len(old) \in Nat /\ Len(m) \in Nat
        /\ m = <<>> => got = old
        /\ NumberedFrom(old, base) => (NumberedFrom(m, base + Len(old)) => NumberedFrom(got, base))
    <3>1. old \in Seq(1..MaxTail) /\ m \in Seq(1..MaxTail) /\ base \in Nat
      OBVIOUS
    <3> QED
      BY ONLY <2>3, <3>1, BatchJoins
  <2> QED
    BY <2>1, <2>4
<1>10. Nothing \in Snapshots /\ SeenOK(Nothing) /\ FALSE \in BOOLEAN /\ pc \in Labels
  BY <1>1, SnapshotMeans DEF Labels
<1>11. /\ h \in Reader /\ h.pc = pc /\ h.live = live /\ h.now = now /\ h.offset = next
       /\ h.seen = Nothing /\ h.got = got /\ h.base = r.base
  BY <1>7, <1>9, <1>10 DEF Reader
<1>12. follower' = [follower EXCEPT ![f] = h]
  <2>1. follower' = [follower EXCEPT
           ![f].got = got, ![f].offset = next, ![f].now = now, ![f].live = live,
           ![f].signal = FALSE, ![f].seen = Nothing, ![f].pc = pc]
    BY <1>2, <1>3, <1>4, <1>5, <1>6 DEF Yields
  <2>2. follower[f] = r /\ follower \in [Followers -> Reader]
    BY <1>1 DEF Types
  <2> QED
    BY ONLY <1>7, <2>1, <2>2, f \in Followers
<1>13. ReaderOK(h)
  <2> SUFFICES ASSUME present, ~FromTheEndOfSession
               PROVE  /\ h.offset = h.base + Len(h.got) /\ h.offset <= Len(log)
                      /\ NumberedFrom(h.got, h.base)
                      /\ h.now => h.got = <<>>
                      /\ h.pc \in {"messages", "result"} => h.offset <= h.seen.tail
                      /\ h.pc \in {"closed", "last type"} => closed /\ h.offset = Len(log)
                      /\ How = "poll" /\ h.now => ~h.live
                      /\ How = "session" => ~h.now
    BY DEF ReaderOK
  <2>1. /\ r.offset = r.base + Len(r.got)
        /\ NumberedFrom(r.got, r.base)
        /\ r.now => r.got = <<>>
        /\ How = "poll" /\ r.now => ~r.live
        /\ How = "session" => ~r.now
    BY <1>1 DEF ReaderOK
  <2>2. /\ next = r.offset + Len(m) /\ next <= Len(log)
        /\ NumberedFrom(m, r.offset)
        /\ end => closed /\ next = Len(log)
    BY DEF BatchOK
  <2>3. h.offset = h.base + Len(h.got) /\ h.offset <= Len(log)
    <3>1. Len(h.got) = Len(r.got) + Len(m) /\ Len(r.got) \in Nat /\ Len(m) \in Nat
          /\ h.offset = next /\ h.base = r.base /\ r.base \in Nat
      BY <1>8, <1>9, <1>11
    <3>2. r.base \in Nat /\ r.offset \in Nat
      BY <1>8
    <3>3. r.offset = r.base + Len(r.got) /\ next = r.offset + Len(m)
      BY <2>1, <2>2
    <3>4. next = r.base + (Len(r.got) + Len(m))
      <4>1. PICK had \in Nat : had = Len(r.got)
        BY <3>1, Zenon
      <4>2. PICK more \in Nat : more = Len(m)
        BY <3>1, Zenon
      <4>3. next = (r.base + had) + more
        BY <3>3, <4>1, <4>2, Zenon
      <4>4. PICK base \in Nat : base = r.base
        BY <3>2, Zenon
      <4>5. next = (base + had) + more
        BY <4>3, <4>4, Zenon
      <4>6. (base + had) + more = base + (had + more)
        BY SumsAgree, Zenon
      <4> QED
        BY <4>1, <4>2, <4>4, <4>5, <4>6, Zenon
    <3> QED
      BY <2>2, <3>1, <3>4
  <2>4. NumberedFrom(got, r.base)
    BY <1>9, <2>1, <2>2
  <2>5. ~now
    BY <1>2, <1>6, <2>1
  <2>6. pc \in {"closed", "last type"} => end
    BY <1>4
  <2> QED
    BY <1>4, <1>11, <2>2, <2>3, <2>4, <2>5, <2>6
<1> QED
  BY <1>10, <1>11, <1>12, <1>13, ReaderStep

\* A reader that begins its read anew.
LEMMA AgainKeeps ==
    ASSUME Inv, NEW f \in Followers
    PROVE  Again(f) \in Reader /\ SeenOK(Again(f).seen) /\ ReaderOK(Again(f))
<1>1. PICK r \in Reader : r = follower[f] /\ SeenOK(r.seen) /\ ReaderOK(r)
  BY DEF Inv, Types
<1>2. PICK pc \in {"connect", "record"} : pc = IF How = "sse" THEN "connect" ELSE "record"
  OBVIOUS
<1>3. PICK h : h = [r EXCEPT !.pc = pc, !.signal = FALSE, !.seen = Nothing]
  OBVIOUS
<1>4. Nothing \in Snapshots /\ SeenOK(Nothing) /\ pc \in Labels
  BY SnapshotMeans DEF Inv, Labels
<1>5. /\ h \in Reader /\ h.pc = pc /\ h.live = r.live /\ h.now = r.now /\ h.offset = r.offset
      /\ h.seen = Nothing /\ h.got = r.got /\ h.base = r.base
  BY <1>3, <1>4 DEF Reader
<1>6. h = Again(f)
  BY <1>1, <1>2, <1>3 DEF Again
<1>7. ReaderOK(h)
  BY <1>1, <1>5, SameReader
<1> QED
  BY <1>4, <1>5, <1>6, <1>7

LEMMA RetryKeeps == ASSUME Inv, NEW f \in Followers, Retry(f) PROVE Inv'
BY AgainKeeps, ReaderStep DEF Retry, setting, stream

LEMMA EndBodyKeeps == ASSUME Inv, NEW f \in Followers, EndBody(f) PROVE Inv'
BY AgainKeeps, ReaderStep DEF EndBody, FollowerOnly, rest, setting, stream

LEMMA StopKeeps == ASSUME Inv, Stop PROVE Inv'
<1>1. PICK next : next = [f \in Followers |-> IF Ended(f) THEN follower[f] ELSE Again(f)]
  OBVIOUS
<1>2. ASSUME NEW f \in Followers
      PROVE  next[f] \in Reader /\ SeenOK(next[f].seen) /\ ReaderOK(next[f])
  BY <1>1, AgainKeeps DEF Inv, Types
<1>3. next \in [Followers -> Reader]
  BY <1>1, <1>2
<1> QED
  BY <1>1, <1>2, <1>3, ReadersStep DEF Stop, stream

\* A wake changes nothing of what a reader knows.
LEMMA WakeKeeps ==
    ASSUME Inv, NEW fs, follower' = Wake(fs),
           UNCHANGED <<host, client, stale, present, log, closed, softDeleted, decider>>
    PROVE  Inv'
<1>1. PICK next : next = Wake(fs)
  OBVIOUS
<1>2. ASSUME NEW f \in Followers
      PROVE  next[f] \in Reader /\ SeenOK(next[f].seen) /\ ReaderOK(next[f])
  <2>1. PICK r \in Reader : r = follower[f] /\ SeenOK(r.seen) /\ ReaderOK(r)
    BY DEF Inv, Types
  <2>2. PICK h : h = [r EXCEPT !.signal = TRUE]
    OBVIOUS
  <2>3. /\ h \in Reader /\ h.pc = r.pc /\ h.live = r.live /\ h.now = r.now
        /\ h.offset = r.offset /\ h.seen = r.seen /\ h.got = r.got /\ h.base = r.base
    BY <2>2 DEF Reader
  <2>4. ReaderOK(h)
    BY <2>1, <2>3, SameReader
  <2>5. next[f] = r \/ next[f] = h
    BY <1>1, <2>1, <2>2 DEF Wake
  <2> QED
    BY <2>1, <2>3, <2>4, <2>5
<1>3. next \in [Followers -> Reader]
  BY <1>1, <1>2 DEF Wake
<1> QED
  BY <1>1, <1>2, <1>3, ReadersStep

LEMMA PublishKeeps == ASSUME Inv, Publish PROVE Inv'
BY WakeKeeps DEF Publish, rest, setting

LEMMA RepairKeeps == ASSUME Inv, NEW f \in Followers, Repair(f) PROVE Inv'
BY WakeKeeps DEF Repair, rest, setting, stream

LEMMA SubscribeKeeps == ASSUME Inv, NEW f \in Followers, Subscribe(f) PROVE Inv'
BY GotoKeeps DEF Subscribe, Labels, FollowerOnly, rest, setting, stream

LEMMA TimeOutKeeps == ASSUME Inv, NEW f \in Followers, TimeOut(f) PROVE Inv'
BY GotoKeeps DEF TimeOut, Labels, FollowerOnly, rest, setting, stream

LEMMA LookKeeps == ASSUME Inv, NEW f \in Followers, Look(f) PROVE Inv'
<1>1. PICK r \in Reader : r = follower[f] /\ SeenOK(r.seen) /\ ReaderOK(r)
  BY DEF Inv, Types
<1>2. PICK pc \in {"latest", "waiting"} :
         pc = IF Snapshot # follower[f].seen THEN "latest" ELSE "waiting"
  OBVIOUS
<1>3. PICK signal \in BOOLEAN : signal = IF At(f, "waiting") THEN FALSE ELSE r.signal
  BY DEF Reader
<1>4. PICK h : h = [r EXCEPT !.signal = signal, !.pc = pc]
  OBVIOUS
<1>5. /\ h \in Reader /\ h.pc = pc /\ h.live = r.live /\ h.now = r.now
      /\ h.offset = r.offset /\ h.seen = r.seen /\ h.got = r.got /\ h.base = r.base
  BY <1>4 DEF Reader, Labels
<1>6. follower' = [follower EXCEPT ![f] = h]
  BY <1>1, <1>2, <1>3, <1>4 DEF Look, Inv, Types
<1>7. ReaderOK(h)
  BY <1>1, <1>5, SameReader
<1> QED
  BY <1>1, <1>5, <1>6, <1>7, ReaderStep DEF Look, FollowerOnly, rest, setting, stream

-----------------------------------------------------------------------------
(***************************************************************************)
(* The steps of a read.                                                    *)
(***************************************************************************)
LEMMA ConnectKeeps == ASSUME Inv, NEW f \in Followers, Connect(f) PROVE Inv'
<1>1. PICK r \in Reader : r = follower[f] /\ SeenOK(r.seen) /\ ReaderOK(r)
  BY DEF Inv, Types
<1>2. Types /\ LogOK /\ Len(log) \in 0..MaxTail
  BY SnapshotMeans DEF Inv
<1>3. CASE ~Found
  BY <1>3, GotoKeeps DEF Connect, Labels, FollowerOnly, rest, setting, stream
<1>4. CASE Found
  <2>1. PICK from \in 0..MaxTail : from = IF r.now THEN Len(log) ELSE r.offset
    BY <1>2 DEF Reader
  <2>2. PICK base \in 0..MaxTail : base = IF r.now THEN from ELSE r.base
    BY DEF Reader
  <2>3. PICK h : h = [r EXCEPT !.pc = "record", !.live = FALSE, !.offset = from, !.base = base]
    OBVIOUS
  <2>4. /\ h \in Reader /\ h.pc = "record" /\ h.live = FALSE /\ h.now = r.now
        /\ h.offset = from /\ h.seen = r.seen /\ h.got = r.got /\ h.base = base
    BY <2>3 DEF Reader, Labels
  <2>5. follower' = [follower EXCEPT ![f] = h]
    BY <1>1, <1>2, <1>4, <2>1, <2>2, <2>3 DEF Connect, Types, CurrentOffset
  <2>6. ReaderOK(h)
    <3> SUFFICES ASSUME present, ~FromTheEndOfSession PROVE ReaderOK(h)
      BY DEF ReaderOK
    <3>1. r.offset = r.base + Len(r.got) /\ r.offset <= Len(log)
          /\ NumberedFrom(r.got, r.base) /\ (r.now => r.got = <<>>)
          /\ (How = "session" => ~r.now)
      BY <1>1 DEF ReaderOK
    <3>2. CASE r.now
      <4>1. h.got = <<>> /\ h.offset = Len(log) /\ h.base = Len(log)
        BY <2>1, <2>2, <2>4, <3>1, <3>2
      <4>2. Len(h.got) = 0 /\ NumberedFrom(h.got, h.base) /\ Len(log) \in Nat
        BY <1>2, <4>1, LenProperties DEF NumberedFrom, LogOK
      <4>3. h.offset = h.base + Len(h.got) /\ h.offset <= Len(log)
        BY <4>1, <4>2
      <4> QED
        BY <2>4, <3>1, <4>1, <4>2, <4>3 DEF ReaderOK
    <3>3. CASE ~r.now
      BY <2>1, <2>2, <2>4, <3>1, <3>3 DEF ReaderOK
    <3> QED
      BY <3>2, <3>3
  <2> QED
    BY <1>1, <2>4, <2>5, <2>6, ReaderStep DEF Connect, FollowerOnly, rest, setting, stream
<1> QED
  BY <1>3, <1>4

LEMMA ReadRecordKeeps == ASSUME Inv, NEW f \in Followers, ReadRecord(f) PROVE Inv'
<1>1. PICK r \in Reader : r = follower[f] /\ SeenOK(r.seen) /\ ReaderOK(r)
  BY DEF Inv, Types
<1>2. /\ Types /\ LogOK /\ Len(log) \in 0..MaxTail /\ Len(log) \in Nat
      /\ Snapshot \in Snapshots /\ SeenOK(Snapshot) /\ Snapshot.tail = Len(log)
  BY SnapshotMeans, OffsetIsNat DEF Inv
<1>3. CASE ~Found
  BY <1>3, GotoKeeps DEF ReadRecord, Labels, FollowerOnly, rest, setting, stream
<1>4. CASE Found
  <2>1. PICK fromEnd \in BOOLEAN : fromEnd = (At(f, "record") /\ How # "sse" /\ r.now)
    BY DEF Reader
  <2>2. PICK offset \in 0..MaxTail : offset = IF fromEnd THEN Len(log) ELSE r.offset
    BY <1>2 DEF Reader
  <2>3. PICK base \in 0..MaxTail : base = IF fromEnd THEN Len(log) ELSE r.base
    BY <1>2 DEF Reader
  <2>4. PICK pc \in {"result", "messages"} :
           pc = IF At(f, "latest") THEN "result" ELSE "messages"
    OBVIOUS
  <2>5. PICK h : h = [r EXCEPT !.seen = Snapshot, !.offset = offset, !.base = base, !.pc = pc]
    OBVIOUS
  <2>6. /\ h \in Reader /\ h.pc = pc /\ h.live = r.live /\ h.now = r.now
        /\ h.offset = offset /\ h.seen = Snapshot /\ h.got = r.got /\ h.base = base
    BY <1>2, <2>5 DEF Reader, Labels
  <2>7. follower' = [follower EXCEPT ![f] = h]
    BY <1>1, <1>2, <1>4, <2>1, <2>2, <2>3, <2>4, <2>5 DEF ReadRecord, Types, CurrentOffset
  <2>8. ReaderOK(h)
    <3> SUFFICES ASSUME present, ~FromTheEndOfSession PROVE ReaderOK(h)
      BY DEF ReaderOK
    <3>1. /\ r.offset = r.base + Len(r.got) /\ r.offset <= Len(log)
          /\ NumberedFrom(r.got, r.base) /\ (r.now => r.got = <<>>)
          /\ How = "poll" /\ r.now => ~r.live
          /\ How = "session" => ~r.now
      BY <1>1 DEF ReaderOK
    <3>2. h.offset = h.base + Len(h.got) /\ h.offset <= Len(log) /\ NumberedFrom(h.got, h.base)
      <4>1. CASE fromEnd
        <5>1. h.got = <<>> /\ h.offset = Len(log) /\ h.base = Len(log)
          BY <2>1, <2>2, <2>3, <2>6, <3>1, <4>1
        <5>2. Len(h.got) = 0 /\ NumberedFrom(h.got, h.base)
          BY <5>1 DEF NumberedFrom
        <5> QED
          BY <1>2, <5>1, <5>2
      <4>2. CASE ~fromEnd
        BY <2>2, <2>3, <2>6, <3>1, <4>2
      <4> QED
        BY <4>1, <4>2
    <3>3. h.offset <= h.seen.tail /\ h.pc \notin {"closed", "last type"}
      BY <1>2, <2>6, <3>2
    <3> QED
      BY <2>6, <3>1, <3>2, <3>3 DEF ReaderOK
  <2> QED
    BY <1>1, <1>2, <2>6, <2>7, <2>8, ReaderStep
    DEF ReadRecord, FollowerOnly, rest, setting, stream
<1> QED
  BY <1>3, <1>4

\* The messages after a reader's offset follow what it has; when there are none, its
\* offset is the tail it has seen.
LEMMA BatchFollows ==
    ASSUME Inv, NEW f \in Followers, NEW r \in Reader, r = follower[f],
           r.pc \in {"messages", "result"},
           NEW most \in Nat, most > 0 \/ most = MaxTail,
           NEW m, m = Messages(r.offset, most)
    PROVE  /\ m \in Seq(1..MaxTail) /\ r.seen.tail \in 0..MaxTail
           /\ m # <<>> => r.offset + Len(m) \in 0..MaxTail
           /\ NumberedFrom(m, r.offset)
           /\ present => (r.seen.closed => closed /\ r.seen.tail = Len(log))
           /\ present /\ ~FromTheEndOfSession =>
                /\ m = <<>> => r.seen.tail = r.offset + Len(m) /\ r.seen.tail <= Len(log)
                               /\ r.seen.tail = r.offset
                /\ m # <<>> => r.offset + Len(m) <= Len(log)
<1>1. LogOK /\ SeenOK(r.seen) /\ ReaderOK(r)
  BY DEF Inv
<1>2. PICK offset \in 0..MaxTail, tail \in 0..MaxTail : offset = r.offset /\ tail = r.seen.tail
  BY DEF Reader, Snapshots
<1>3. MaxTail \in Nat /\ offset \in Nat /\ tail \in Nat
  BY OffsetIsNat
<1>4. PICK size : size = Len(log)
  OBVIOUS
<1>5. PICK n : n = Len(m)
  OBVIOUS
<1>6. m = Messages(offset, most)
  BY <1>2
<1>7. /\ m \in Seq(1..MaxTail) /\ n \in Nat /\ size \in Nat
      /\ m = <<>> \/ offset + n <= size
      /\ NumberedFrom(m, offset)
      /\ m = <<>> /\ most > 0 => size <= offset
  BY <1>1, <1>3, <1>4, <1>5, <1>6, MessagesMeans
<1>8. size <= MaxTail
  BY <1>1, <1>4 DEF LogOK
<1>9. m = <<>> => n = 0 /\ size <= offset
  <2>1. m = <<>> => n = 0
    BY <1>5
  <2>2. ~(most > 0) => size <= offset
    BY <1>3, <1>7, <1>8
  <2> QED
    BY <1>7, <2>1, <2>2
<1>10. present => tail <= size /\ (r.seen.closed => closed /\ tail = size)
  BY <1>1, <1>2, <1>4 DEF SeenOK
<1>11. present /\ ~FromTheEndOfSession => offset <= tail
  BY <1>1, <1>2 DEF ReaderOK
<1>12. m # <<>> => offset + n \in 0..MaxTail
  BY <1>3, <1>7, <1>8
<1>13. present /\ ~FromTheEndOfSession /\ m = <<>> => tail = offset /\ tail = offset + n
  BY <1>3, <1>7, <1>9, <1>10, <1>11
<1>14. NumberedFrom(m, r.offset)
  BY <1>2, <1>7, Zenon
<1> QED
  BY <1>2, <1>4, <1>5, <1>7, <1>10, <1>12, <1>13, <1>14

\* So a batch that the reader yields, and the offset it goes on from, are right.
LEMMA BatchIsOK ==
    ASSUME Inv, NEW f \in Followers, NEW r \in Reader, r = follower[f],
           r.pc \in {"messages", "result"},
           NEW most \in Nat, most > 0 \/ most = MaxTail,
           NEW m, m = Messages(r.offset, most),
           NEW next, m # <<>> => next = r.offset + Len(m),
           m = <<>> => next = r.seen.tail \/ next = r.offset,
           NEW end \in BOOLEAN, end => r.seen.closed /\ next = r.seen.tail
    PROVE  m \in Seq(1..MaxTail) /\ next \in 0..MaxTail /\ BatchOK(r, m, next, end)
<1>1. /\ m \in Seq(1..MaxTail) /\ r.seen.tail \in 0..MaxTail
      /\ m # <<>> => r.offset + Len(m) \in 0..MaxTail
      /\ NumberedFrom(m, r.offset)
      /\ present => (r.seen.closed => closed /\ r.seen.tail = Len(log))
      /\ present /\ ~FromTheEndOfSession =>
           /\ m = <<>> => r.seen.tail = r.offset + Len(m) /\ r.seen.tail <= Len(log)
                          /\ r.seen.tail = r.offset
           /\ m # <<>> => r.offset + Len(m) <= Len(log)
  BY BatchFollows
<1>2. next \in 0..MaxTail
  BY <1>1 DEF Reader
<1>3. ASSUME present, ~FromTheEndOfSession
      PROVE  /\ next = r.offset + Len(m) /\ next <= Len(log)
             /\ end => closed /\ next = Len(log)
  <2>1. next = r.offset + Len(m) /\ next <= Len(log)
    <3>1. CASE m = <<>>
      BY <1>1, <1>3, <3>1, Zenon
    <3>2. CASE m # <<>>
      BY <1>1, <1>3, <3>2, Zenon
    <3> QED
      BY <3>1, <3>2
  <2>2. end => closed /\ next = Len(log)
    BY <1>1, <1>3, Zenon
  <2> QED
    BY <2>1, <2>2
<1>4. BatchOK(r, m, next, end)
  BY <1>1, <1>3 DEF BatchOK
<1> QED
  BY <1>1, <1>2, <1>4, Zenon

LEMMA ReadPageKeeps == ASSUME Inv, NEW f \in Followers, ReadPage(f) PROVE Inv'
<1>1. PICK r \in Reader : r = follower[f] /\ r.pc = "messages"
  BY DEF Inv, Types, ReadPage, At
<1>2. PICK m : m = Messages(r.offset, ReadLimit)
  OBVIOUS
<1>3. PICK next : next = IF m = <<>> THEN r.seen.tail ELSE r.offset + Len(m)
  OBVIOUS
<1>4. PICK upToDate \in BOOLEAN : upToDate = (next = r.seen.tail)
  OBVIOUS
<1>5. PICK end \in BOOLEAN : end = (r.seen.closed /\ upToDate)
  BY DEF Reader, Snapshots
<1>6. ReadLimit \in Nat /\ ReadLimit > 0
  BY LiveAssumption
<1>7. m \in Seq(1..MaxTail) /\ next \in 0..MaxTail /\ BatchOK(r, m, next, end)
  BY <1>1, <1>2, <1>3, <1>4, <1>5, <1>6, BatchIsOK
<1>8. Yields(f, m, next, upToDate, end)
  BY <1>1, <1>2, <1>3, <1>4, <1>5 DEF ReadPage
<1> QED
  BY <1>1, <1>7, <1>8, YieldsKeeps DEF ReadPage, FollowerOnly, rest, setting, stream

LEMMA ReadLiveKeeps == ASSUME Inv, NEW f \in Followers, ReadLive(f) PROVE Inv'
<1>1. PICK r \in Reader : r = follower[f] /\ r.pc = "messages"
  BY DEF Inv, Types, ReadLive, At
<1>2. PICK m : m = Messages(r.offset, MaxTail)
  OBVIOUS
<1>3. PICK next : next = IF m = <<>> THEN r.seen.tail ELSE r.offset + Len(m)
  OBVIOUS
<1>4. PICK end \in BOOLEAN : end = (r.seen.closed /\ next = r.seen.tail)
  BY DEF Reader, Snapshots
<1>5. MaxTail \in Nat
  BY LiveAssumption
<1>6. m \in Seq(1..MaxTail) /\ next \in 0..MaxTail /\ BatchOK(r, m, next, end)
  BY <1>1, <1>2, <1>3, <1>4, <1>5, BatchIsOK
<1>7. IF m = <<>> /\ ~r.seen.closed THEN Goto(f, "subscribe")
      ELSE Yields(f, m, next, TRUE, end)
  BY <1>1, <1>2, <1>3, <1>4 DEF ReadLive
<1>8. CASE m = <<>> /\ ~r.seen.closed
  BY <1>7, <1>8, GotoKeeps DEF ReadLive, Labels, FollowerOnly, rest, setting, stream
<1>9. CASE ~(m = <<>> /\ ~r.seen.closed)
  BY <1>1, <1>6, <1>7, <1>9, YieldsKeeps DEF ReadLive, FollowerOnly, rest, setting, stream
<1> QED
  BY <1>8, <1>9

LEMMA ReadResultKeeps == ASSUME Inv, NEW f \in Followers, ReadResult(f) PROVE Inv'
<1>1. PICK r \in Reader : r = follower[f] /\ r.pc = "result"
  BY DEF Inv, Types, ReadResult, At
<1>2. PICK m : m = Messages(r.offset, MaxTail)
  OBVIOUS
<1>3. PICK next : next = IF m # <<>> THEN r.offset + Len(m)
                         ELSE IF r.offset < r.seen.tail THEN r.offset ELSE r.seen.tail
  OBVIOUS
<1>4. PICK end \in BOOLEAN : end = (r.seen.closed /\ next = r.seen.tail)
  BY DEF Reader, Snapshots
<1>5. MaxTail \in Nat
  BY LiveAssumption
<1>6. m \in Seq(1..MaxTail) /\ next \in 0..MaxTail /\ BatchOK(r, m, next, end)
  BY <1>1, <1>2, <1>3, <1>4, <1>5, BatchIsOK
<1>7. Yields(f, m, next, TRUE, end)
  BY <1>1, <1>2, <1>3, <1>4 DEF ReadResult
<1> QED
  BY <1>1, <1>6, <1>7, YieldsKeeps DEF ReadResult, FollowerOnly, rest, setting, stream

LEMMA ReadNowKeeps == ASSUME Inv, NEW f \in Followers, ReadNow(f) PROVE Inv'
<1>1. PICK r \in Reader : r = follower[f] /\ ReaderOK(r) /\ r.pc = "messages" /\ r.now
                          /\ How = "poll"
  BY DEF Inv, Types, ReadNow, At
<1>2. PICK m : m = Messages(r.offset, ReadLimit)
  OBVIOUS
<1>3. PICK next : next = IF m = <<>> THEN r.seen.tail ELSE r.offset + Len(m)
  OBVIOUS
<1>4. PICK end \in BOOLEAN : end = (r.seen.closed /\ next = r.seen.tail)
  BY DEF Reader, Snapshots
<1>5. ReadLimit \in Nat /\ ReadLimit > 0
  BY LiveAssumption
<1>6. next \in 0..MaxTail /\ BatchOK(r, m, next, end)
  BY <1>1, <1>2, <1>3, <1>4, <1>5, BatchIsOK
<1>7. PICK pc \in {"closed", "record"} : pc = IF end THEN "closed" ELSE "record"
  OBVIOUS
<1>8. PICK h : h = [r EXCEPT !.offset = next, !.base = next, !.now = FALSE, !.live = TRUE,
                             !.seen = Nothing, !.pc = pc]
  OBVIOUS
<1>9. Nothing \in Snapshots /\ SeenOK(Nothing) /\ pc \in Labels
  BY SnapshotMeans DEF Inv, Labels
<1>10. /\ h \in Reader /\ h.pc = pc /\ h.live = TRUE /\ h.now = FALSE /\ h.offset = next
       /\ h.seen = Nothing /\ h.got = r.got /\ h.base = next
  BY <1>6, <1>8, <1>9 DEF Reader
<1>11. follower' = [follower EXCEPT ![f] = h]
  <2>1. PICK g : g = [r EXCEPT !.offset = next, !.base = next, !.now = FALSE]
    OBVIOUS
  <2>2. PICK moved : moved = [follower EXCEPT ![f].offset = next, ![f].base = next,
                                              ![f].now = FALSE]
    OBVIOUS
  <2>3. moved = [follower EXCEPT ![f] = g]
    BY <1>1, <2>1, <2>2
  <2>4. follower' = [moved EXCEPT ![f].live = TRUE, ![f].seen = Nothing, ![f].pc = pc]
    BY <1>1, <1>2, <1>3, <1>4, <1>7, <2>2 DEF ReadNow
  <2>5. g \in Reader /\ h = [g EXCEPT !.live = TRUE, !.seen = Nothing, !.pc = pc]
    BY <1>6, <1>8, <2>1 DEF Reader
  <2> QED
    BY <1>1, <2>3, <2>4, <2>5 DEF Inv, Types
<1>12. ReaderOK(h)
  <2> SUFFICES ASSUME present, ~FromTheEndOfSession PROVE ReaderOK(h)
    BY DEF ReaderOK
  <2>1. next <= Len(log) /\ (end => closed /\ next = Len(log))
    BY <1>6 DEF BatchOK
  <2>2. h.got = <<>>
    BY <1>1, <1>10 DEF ReaderOK
  <2>3. Len(h.got) = 0 /\ NumberedFrom(h.got, h.base)
    BY <2>2 DEF NumberedFrom
  <2>4. next \in Nat
    BY <1>6, OffsetIsNat
  <2>5. h.offset = h.base + Len(h.got)
    BY <1>10, <2>3, <2>4
  <2>6. pc = "closed" => end
    BY <1>7
  <2> QED
    BY <1>7, <1>10, <2>1, <2>2, <2>3, <2>5, <2>6 DEF ReaderOK
<1> QED
  BY <1>9, <1>10, <1>11, <1>12, ReaderStep DEF ReadNow, FollowerOnly, rest, setting, stream

LEMMA ContentTypeKeeps == ASSUME Inv, NEW f \in Followers, ContentType(f) PROVE Inv'
<1>1. PICK r \in Reader : r = follower[f] /\ SeenOK(r.seen) /\ ReaderOK(r)
                          /\ r.pc \in {"type", "last type"}
  BY DEF Inv, Types, ContentType, At
<1>2. CASE ~Found
  BY <1>2, GotoKeeps DEF ContentType, Labels, FollowerOnly, rest, setting, stream
<1>3. CASE Found
  <2>1. PICK pc \in {"record", "closed"} : pc = IF r.pc = "type" THEN "record" ELSE "closed"
    OBVIOUS
  <2>2. PICK h : h = [r EXCEPT !.now = FALSE, !.pc = pc]
    OBVIOUS
  <2>3. /\ h \in Reader /\ h.pc = pc /\ h.live = r.live /\ h.now = FALSE
        /\ h.offset = r.offset /\ h.seen = r.seen /\ h.got = r.got /\ h.base = r.base
    BY <2>2 DEF Reader, Labels
  <2>4. follower' = [follower EXCEPT ![f] = h]
    BY <1>1, <1>3, <2>1, <2>2 DEF ContentType, At, Inv, Types
  <2>5. ReaderOK(h)
    BY <1>1, <2>1, <2>3 DEF ReaderOK
  <2> QED
    BY <1>1, <2>3, <2>4, <2>5, ReaderStep DEF ContentType, FollowerOnly, rest, setting, stream
<1> QED
  BY <1>2, <1>3

LEMMA DrainReplyKeeps == ASSUME Inv, NEW f \in Followers, DrainReply(f) PROVE Inv'
<1>1. PICK r \in Reader : r = follower[f] /\ ReaderOK(r) /\ r.live
                          /\ How \in {"poll", "session"}
  BY DEF Inv, Types, DrainReply
<1>2. Types /\ LogOK /\ Len(log) \in 0..MaxTail
  BY SnapshotMeans DEF Inv
<1>3. CASE ~Found
  BY <1>3, GotoKeeps DEF DrainReply, Labels, FollowerOnly, rest, setting, stream
<1>4. CASE Found
  <2>1. PICK next \in 0..MaxTail : next = IF r.now THEN Len(log) ELSE r.offset
    BY <1>2 DEF Reader
  <2>2. PICK m \in Seq(1..MaxTail) : m = <<>>
    BY EmptySeq
  <2>3. PICK end \in BOOLEAN : end = FALSE
    OBVIOUS
  <2>4. Yields(f, m, next, TRUE, end)
    BY <1>1, <1>4, <2>1, <2>2, <2>3 DEF DrainReply, CurrentOffset
  <2>5. ASSUME present, ~FromTheEndOfSession
        PROVE  /\ next = r.offset + Len(m) /\ next <= Len(log)
               /\ NumberedFrom(m, r.offset)
    <3>1. ~r.now /\ r.offset <= Len(log)
      BY <1>1, <2>5 DEF ReaderOK
    <3>2. next = r.offset /\ Len(m) = 0 /\ r.offset \in Nat
      BY <2>1, <2>2, <3>1, OffsetIsNat DEF Reader
    <3>3. NumberedFrom(m, r.offset)
      BY <3>2 DEF NumberedFrom
    <3> QED
      BY <3>1, <3>2, <3>3
  <2>6. BatchOK(r, m, next, end)
    BY <2>3, <2>5 DEF BatchOK
  <2> QED
    BY <1>1, <2>4, <2>6, YieldsKeeps DEF DrainReply, FollowerOnly, rest, setting, stream
<1> QED
  BY <1>3, <1>4

-----------------------------------------------------------------------------
(***************************************************************************)
(* Commits, and the deciders.                                              *)
(***************************************************************************)
\* What readers and deciders know of the stream stays true when messages are added to
\* an open stream, or its end, and is not asked for once the stream is gone.
StreamGoesOn ==
  present' => /\ present
              /\ closed => closed' /\ log' = log
              /\ Len(log) \in Nat /\ Len(log') \in Nat /\ Len(log) <= Len(log')

LEMMA KnowledgeStays ==
    ASSUME StreamGoesOn, client' = client
    PROVE  /\ \A s \in Snapshots : SeenOK(s) => SeenOK(s)'
           /\ \A d \in Folder : FolderOK(d) => FolderOK(d)'
           /\ \A r \in Reader : ReaderOK(r) => ReaderOK(r)'
<1>1. ASSUME present'
      PROVE  /\ present /\ (closed => closed' /\ Len(log') = Len(log))
             /\ \A n \in Nat : n <= Len(log) => n <= Len(log')
  <2>1. PICK a \in Nat, b \in Nat : a = Len(log) /\ b = Len(log') /\ a <= b
    BY <1>1 DEF StreamGoesOn
  <2>2. \A n \in Nat : n <= a => n <= b
    BY <2>1
  <2> QED
    BY <1>1, <2>1, <2>2 DEF StreamGoesOn
<1>2. ASSUME NEW s \in Snapshots, SeenOK(s) PROVE SeenOK(s)'
  <2>1. s.tail \in Nat
    BY OffsetIsNat DEF Snapshots
  <2> QED
    BY <1>1, <1>2, <2>1 DEF SeenOK
<1>3. ASSUME NEW d \in Folder, FolderOK(d) PROVE FolderOK(d)'
  <2>1. d.offset \in Nat
    BY OffsetIsNat DEF Folder
  <2> QED
    BY <1>1, <1>3, <2>1 DEF FolderOK
<1>4. ASSUME NEW r \in Reader, ReaderOK(r) PROVE ReaderOK(r)'
  <2> SUFFICES ASSUME present', ~FromTheEndOfSession' PROVE ReaderOK(r)'
    BY DEF ReaderOK
  <2>1. r.offset \in Nat
    BY OffsetIsNat DEF Reader
  <2>2. ~FromTheEndOfSession /\ How' = How
    BY DEF FromTheEndOfSession, How
  <2> QED
    BY <1>1, <1>4, <2>1, <2>2 DEF ReaderOK
<1> QED
  BY <1>2, <1>3, <1>4

LEMMA StreamStep ==
    ASSUME Inv, StreamGoesOn, UNCHANGED <<host, client, follower>>,
           present' \in BOOLEAN, closed' \in BOOLEAN, softDeleted' \in BOOLEAN,
           LogOK', ~stale',
           NEW next \in [Deciders -> Folder], decider' = next,
           \A d \in Deciders : SeenOK(next[d].seen) /\ FolderOK(next[d])
    PROVE  Inv'
<1>1. /\ \A s \in Snapshots : SeenOK(s) => SeenOK(s)'
      /\ \A d \in Folder : FolderOK(d) => FolderOK(d)'
      /\ \A r \in Reader : ReaderOK(r) => ReaderOK(r)'
  BY KnowledgeStays
<1>2. Types'
  BY DEF Inv, Types
<1>3. ASSUME NEW f \in Followers PROVE SeenOK(follower[f].seen)' /\ ReaderOK(follower[f])'
  <2>1. PICK r \in Reader : r = follower[f] /\ SeenOK(r.seen) /\ ReaderOK(r)
    BY DEF Inv, Types
  <2>2. PICK s \in Snapshots : s = r.seen
    BY DEF Reader
  <2>3. r = follower'[f]
    BY <2>1
  <2>4. SeenOK(s)' /\ ReaderOK(r)'
    BY <1>1, <2>1, <2>2
  <2> QED
    BY <2>2, <2>3, <2>4
<1>4. ASSUME NEW d \in Deciders PROVE SeenOK(decider[d].seen)' /\ FolderOK(decider[d])'
  <2>1. PICK r \in Folder : r = next[d] /\ SeenOK(r.seen) /\ FolderOK(r)
    OBVIOUS
  <2>2. PICK s \in Snapshots : s = r.seen
    BY DEF Folder
  <2>3. r = decider'[d]
    BY <2>1
  <2>4. SeenOK(s)' /\ FolderOK(r)'
    BY <1>1, <2>1, <2>2
  <2> QED
    BY <2>2, <2>3, <2>4
<1> QED
  BY <1>2, <1>3, <1>4 DEF Inv

\* A commit adds messages numbered on from the tail.
LEMMA CommitMeans ==
    ASSUME LogOK, NEW new \in Seq(1..MaxTail), NumberedFrom(new, Len(log)),
           NEW next, next = log \o new, Len(log) + Len(new) <= MaxTail
    PROVE  /\ next \in Seq(1..MaxTail) /\ Len(next) <= MaxTail
           /\ \A k \in 1..Len(next) : next[k] = k
           /\ Len(log) \in Nat /\ Len(next) \in Nat /\ Len(log) <= Len(next)
<1>1. PICK old \in Seq(1..MaxTail) : old = log
  BY DEF LogOK
<1>2. NumberedFrom(old, 0)
  <2>1. \A k \in 1..Len(old) : old[k] = k /\ k \in Nat
    BY <1>1 DEF LogOK
  <2> QED
    BY <2>1 DEF NumberedFrom
<1>3. /\ next \in Seq(1..MaxTail) /\ Len(next) = Len(old) + Len(new)
      /\ Len(old) \in Nat /\ Len(new) \in Nat
      /\ NumberedFrom(old, 0) => (NumberedFrom(new, 0 + Len(old)) => NumberedFrom(next, 0))
  <2>1. /\ old \in Seq(1..MaxTail) /\ new \in Seq(1..MaxTail) /\ 0 \in Nat
        /\ next = old \o new
    BY <1>1
  <2> QED
    BY ONLY <2>1, BatchJoins
<1>4. 0 + Len(old) = Len(log)
  BY <1>1, <1>3
<1>5. NumberedFrom(next, 0)
  BY <1>2, <1>3, <1>4, Zenon
<1>6. \A k \in 1..Len(next) : next[k] = k
  BY <1>5 DEF NumberedFrom
<1>7. Len(next) \in Nat /\ Len(next) <= MaxTail /\ Len(old) <= Len(next)
  BY <1>1, <1>3
<1> QED
  BY <1>1, <1>3, <1>6, <1>7

LEMMA WriteKeeps == ASSUME Inv, Write PROVE Inv'
<1>1. PICK n \in 0..1, close \in BOOLEAN :
         /\ CurrentOffset + n <= MaxTail
         /\ Commit([k \in 1..n |-> CurrentOffset + k], close)
  BY DEF Write
<1>2. Types /\ LogOK /\ ~stale /\ Len(log) \in Nat /\ MaxTail \in Nat /\ present /\ ~closed
  BY SnapshotMeans, OffsetIsNat DEF Inv, Write, Found
<1>3. PICK new : new = [k \in 1..n |-> Len(log) + k]
  OBVIOUS
<1>4. \A k \in 1..n : Len(log) + k \in 1..MaxTail
  BY <1>1, <1>2 DEF CurrentOffset
<1>5. new \in Seq(1..MaxTail) /\ Len(new) = n
  BY <1>3, <1>4
<1>6. NumberedFrom(new, Len(log))
  BY <1>3, <1>5 DEF NumberedFrom
<1>7. /\ log' = log \o new /\ present' = present /\ softDeleted' = softDeleted
      /\ closed' = (closed \/ close)
  BY <1>1, <1>3 DEF Commit, CurrentOffset
<1>8. Len(log) + Len(new) <= MaxTail
  BY <1>1, <1>5 DEF CurrentOffset
<1>9. /\ log' \in Seq(1..MaxTail) /\ Len(log') <= MaxTail
      /\ \A k \in 1..Len(log') : log'[k] = k
      /\ Len(log) \in Nat /\ Len(log') \in Nat /\ Len(log) <= Len(log')
  BY <1>2, <1>5, <1>6, <1>7, <1>8, CommitMeans
<1>10. LogOK' /\ StreamGoesOn
  BY <1>2, <1>7, <1>9 DEF LogOK, StreamGoesOn
<1> QED
  BY <1>1, <1>2, <1>7, <1>10, StreamStep DEF Write, rest, setting, Inv, Types

LEMMA RemoveKeeps == ASSUME Inv, Remove PROVE Inv'
<1>1. /\ Types /\ LogOK /\ ~stale /\ Len(log) \in Nat
      /\ decider \in [Deciders -> Folder]
      /\ \A d \in Deciders : SeenOK(decider[d].seen) /\ FolderOK(decider[d])
  BY SnapshotMeans, OffsetIsNat DEF Inv, Types
<1>2. /\ host' = host /\ client' = client /\ follower' = follower /\ decider' = decider
      /\ stale' = stale /\ present
  BY DEF Remove, rest, setting, Found
<1>3. CASE softDeleted' = TRUE /\ UNCHANGED <<present, log, closed>>
  <2>1. LogOK' /\ StreamGoesOn
    BY <1>1, <1>2, <1>3 DEF LogOK, StreamGoesOn
  <2>2. present' \in BOOLEAN /\ closed' \in BOOLEAN /\ softDeleted' \in BOOLEAN
    BY <1>1, <1>3 DEF Types
  <2> QED
    BY <1>1, <1>2, <2>1, <2>2, StreamStep
<1>4. CASE present' = FALSE /\ log' = <<>> /\ closed' = FALSE /\ UNCHANGED softDeleted
  <2>1. <<>> \in Seq(1..MaxTail) /\ Len(<<>>) = 0 /\ MaxTail \in Nat
    BY EmptySeq, OffsetIsNat
  <2>2. LogOK' /\ StreamGoesOn
    BY <1>4, <2>1 DEF LogOK, StreamGoesOn
  <2>3. present' \in BOOLEAN /\ closed' \in BOOLEAN /\ softDeleted' \in BOOLEAN
    BY <1>1, <1>4 DEF Types
  <2> QED
    BY <1>1, <1>2, <2>2, <2>3, StreamStep
<1> QED
  BY <1>3, <1>4 DEF Remove

\* A step of one decider.
LEMMA FolderStep ==
    ASSUME Inv, NEW d \in Deciders, NEW h \in Folder, SeenOK(h.seen), FolderOK(h),
           decider' = [decider EXCEPT ![d] = h],
           UNCHANGED <<host, client, follower>>, StreamGoesOn, LogOK', ~stale',
           present' \in BOOLEAN, closed' \in BOOLEAN, softDeleted' \in BOOLEAN
    PROVE  Inv'
<1>1. PICK next : next = [decider EXCEPT ![d] = h]
  OBVIOUS
<1>2. /\ next \in [Deciders -> Folder] /\ decider' = next
      /\ \A q \in Deciders : next[q] = IF q = d THEN h ELSE decider[q]
  BY <1>1 DEF Inv, Types
<1>3. \A q \in Deciders : SeenOK(next[q].seen) /\ FolderOK(next[q])
  BY <1>2 DEF Inv
<1> QED
  BY <1>2, <1>3, StreamStep

\* ... while the stream is as it was.
LEMMA QuietFolderStep ==
    ASSUME Inv, NEW d \in Deciders, NEW h \in Folder, SeenOK(h.seen), FolderOK(h),
           decider' = [decider EXCEPT ![d] = h], DeciderOnly, UNCHANGED <<stale, stream>>
    PROVE  Inv'
<1>1. Types /\ LogOK /\ ~stale /\ Len(log) \in Nat
  BY SnapshotMeans, OffsetIsNat DEF Inv
<1>2. LogOK' /\ StreamGoesOn /\ ~stale'
      /\ present' \in BOOLEAN /\ closed' \in BOOLEAN /\ softDeleted' \in BOOLEAN
  BY <1>1 DEF LogOK, StreamGoesOn, stream, Types
<1> QED
  BY <1>2, FolderStep DEF DeciderOnly, setting

\* A decision that is done forgets what it folded.
LEMMA EndMeans ==
    ASSUME Inv, NEW h, h = [Begin EXCEPT !.pc = "end"]
    PROVE  h \in Folder /\ SeenOK(h.seen) /\ FolderOK(h)
<1>1. Nothing \in Snapshots /\ SeenOK(Nothing) /\ MaxTail \in Nat /\ Races \in Nat
      /\ Len(log) \in Nat
  BY SnapshotMeans, OffsetIsNat, LiveAssumption DEF Inv
<1>2. <<>> \in Seq(1..MaxTail) /\ Len(<<>>) = 0 /\ NumberedFrom(<<>>, 0)
  BY EmptySeq DEF NumberedFrom
<1>3. /\ h.pc = "end" /\ h.offset = 0 /\ h.seen = Nothing /\ h.state = <<>> /\ h.tries = 0
      /\ h = [pc |-> "end", offset |-> 0, seen |-> Nothing, state |-> <<>>, tries |-> 0]
  BY DEF Begin
<1>4. 0 \in 0..MaxTail /\ 0 \in 0..Races
  BY <1>1
<1>5. h \in Folder
  BY <1>1, <1>2, <1>3, <1>4 DEF Folder
<1>6. FolderOK(h)
  BY <1>1, <1>2, <1>3 DEF FolderOK
<1> QED
  BY <1>1, <1>3, <1>5, <1>6

LEMMA EndsKeeps ==
    ASSUME Inv, NEW d \in Deciders, Ends(d), DeciderOnly, UNCHANGED <<stale, stream>>
    PROVE  Inv'
<1>1. PICK h : h = [Begin EXCEPT !.pc = "end"]
  OBVIOUS
<1> QED
  BY <1>1, EndMeans, QuietFolderStep DEF Ends

LEMMA DecideKeeps == ASSUME Inv, NEW d \in Deciders, Decide(d) PROVE Inv'
<1>1. PICK r \in Folder : r = decider[d] /\ SeenOK(r.seen) /\ FolderOK(r)
  BY DEF Inv, Types
<1>2. PICK h : h = [r EXCEPT !.pc = "record"]
  OBVIOUS
<1>3. /\ h \in Folder /\ h.pc = "record" /\ h.offset = r.offset /\ h.seen = r.seen
      /\ h.state = r.state
  BY <1>2 DEF Folder
<1>4. decider' = [decider EXCEPT ![d] = h]
  BY <1>1, <1>2 DEF Decide, Goes, Inv, Types
<1>5. FolderOK(h)
  BY <1>1, <1>3 DEF FolderOK
<1> QED
  BY <1>1, <1>3, <1>4, <1>5, QuietFolderStep DEF Decide

LEMMA FoldRecordKeeps == ASSUME Inv, NEW d \in Deciders, FoldRecord(d) PROVE Inv'
<1>1. CASE ~Found
  BY <1>1, EndsKeeps DEF FoldRecord
<1>2. CASE Found
  <2>1. PICK r \in Folder : r = decider[d] /\ SeenOK(r.seen) /\ FolderOK(r)
    BY DEF Inv, Types
  <2>2. PICK h : h = [r EXCEPT !.seen = Snapshot, !.pc = "messages"]
    OBVIOUS
  <2>3. Snapshot \in Snapshots /\ SeenOK(Snapshot) /\ Snapshot.tail = Len(log)
    BY SnapshotMeans DEF Inv
  <2>4. /\ h \in Folder /\ h.pc = "messages" /\ h.offset = r.offset /\ h.seen = Snapshot
        /\ h.state = r.state
    BY <2>2, <2>3 DEF Folder
  <2>5. decider' = [decider EXCEPT ![d] = h]
    BY <1>2, <2>1, <2>2 DEF FoldRecord, Inv, Types
  <2>6. FolderOK(h)
    BY <2>1, <2>3, <2>4 DEF FolderOK
  <2> QED
    BY <2>3, <2>4, <2>5, <2>6, QuietFolderStep DEF FoldRecord
<1> QED
  BY <1>1, <1>2

LEMMA FoldPageKeeps == ASSUME Inv, NEW d \in Deciders, FoldPage(d) PROVE Inv'
<1>1. PICK r \in Folder : r = decider[d] /\ SeenOK(r.seen) /\ FolderOK(r) /\ r.pc = "messages"
  BY DEF Inv, Types, FoldPage
<1>2. PICK m : m = Messages(r.offset, ReadLimit)
  OBVIOUS
<1>3. PICK offset \in 0..MaxTail, tail \in 0..MaxTail : offset = r.offset /\ tail = r.seen.tail
  BY DEF Folder, Snapshots
<1>4. PICK old \in Seq(1..MaxTail) : old = r.state
  BY DEF Folder
<1>5. PICK next : next = IF m = <<>> THEN tail ELSE offset + Len(m)
  OBVIOUS
<1>6. PICK state : state = old \o m
  OBVIOUS
<1>7. PICK pc \in {"append", "record"} : pc = IF next = tail THEN "append" ELSE "record"
  OBVIOUS
<1>8. PICK h : h = [r EXCEPT !.state = state, !.offset = next, !.pc = pc]
  OBVIOUS
<1>9. /\ LogOK /\ ReadLimit \in Nat /\ ReadLimit > 0 /\ MaxTail \in Nat /\ offset \in Nat
      /\ tail \in Nat /\ m = Messages(offset, ReadLimit) /\ Len(log) <= MaxTail
  BY <1>2, <1>3, OffsetIsNat, LiveAssumption DEF Inv, LogOK
<1>10. /\ m \in Seq(1..MaxTail) /\ Len(m) \in Nat /\ Len(log) \in Nat
       /\ m = <<>> \/ offset + Len(m) <= Len(log)
       /\ NumberedFrom(m, offset)
       /\ m = <<>> => Len(log) <= offset
  BY <1>9, MessagesMeans
<1>11. PICK n \in Nat, size \in Nat : n = Len(m) /\ size = Len(log)
  BY <1>10
<1>12. next \in 0..MaxTail
  BY <1>5, <1>9, <1>10, <1>11
<1>13. /\ state \in Seq(1..MaxTail) /\ Len(state) = Len(old) + Len(m)
       /\ NumberedFrom(old, 0) => (NumberedFrom(m, 0 + Len(old)) => NumberedFrom(state, 0))
       /\ Len(old) \in Nat
  <2>1. /\ old \in Seq(1..MaxTail) /\ m \in Seq(1..MaxTail) /\ 0 \in Nat
        /\ state = old \o m
    BY <1>6, <1>10
  <2> QED
    BY ONLY <2>1, BatchJoins
<1>14. /\ h \in Folder /\ h.pc = pc /\ h.offset = next /\ h.seen = r.seen /\ h.state = state
  BY <1>8, <1>12, <1>13 DEF Folder
<1>15. decider' = [decider EXCEPT ![d] = h]
  BY <1>1, <1>2, <1>3, <1>4, <1>5, <1>6, <1>7, <1>8 DEF FoldPage, Inv, Types
<1>16. ASSUME present
       PROVE  Len(state) = next /\ next <= Len(log) /\ NumberedFrom(state, 0)
  <2>1. Len(old) = offset /\ offset <= size /\ NumberedFrom(old, 0) /\ offset <= tail
    BY <1>1, <1>3, <1>4, <1>11, <1>16 DEF FolderOK
  <2>2. tail <= size
    BY <1>1, <1>3, <1>11, <1>16 DEF SeenOK
  <2>3. 0 + Len(old) = offset
    BY <1>9, <2>1
  <2>4. NumberedFrom(state, 0)
    BY <1>10, <1>13, <2>1, <2>3, Zenon
  <2>5. next = offset + n /\ next <= size
    <3>1. CASE m = <<>>
      <4>1. n = 0 /\ next = tail /\ size <= offset
        BY <1>5, <1>10, <1>11, <3>1
      <4> QED
        BY <1>9, <2>1, <2>2, <4>1
    <3>2. CASE m # <<>>
      BY <1>5, <1>10, <1>11, <3>2
    <3> QED
      BY <3>1, <3>2
  <2>6. Len(state) = offset + n
    BY <1>11, <1>13, <2>1
  <2> QED
    BY <1>11, <2>4, <2>5, <2>6
<1>17. FolderOK(h)
  BY <1>7, <1>14, <1>16 DEF FolderOK
<1> QED
  BY <1>1, <1>14, <1>15, <1>17, QuietFolderStep DEF FoldPage

\* What is appended on the offset that the fold reached was decided from all of the
\* stream: the state and the stream hold as many messages, numbered alike.
LEMMA AppendDecidedKeeps == ASSUME Inv, NEW d \in Deciders, AppendDecided(d) PROVE Inv'
<1>1. PICK r \in Folder : r = decider[d] /\ SeenOK(r.seen) /\ FolderOK(r)
  BY DEF Inv, Types
<1>2. DeciderOnly
  BY DEF AppendDecided
<1>3. CASE Ends(d) /\ UNCHANGED <<stale, stream>>
  BY <1>2, <1>3, EndsKeeps
<1>4. CASE /\ Found /\ ~closed /\ r.offset # CurrentOffset
           /\ IF r.tries < Races
              THEN decider' = [decider EXCEPT ![d].tries = r.tries + 1, ![d].pc = "record"]
              ELSE Ends(d)
           /\ UNCHANGED <<stale, stream>>
  <2>1. CASE ~(r.tries < Races)
    BY <1>2, <1>4, <2>1, EndsKeeps
  <2>2. CASE r.tries < Races
    <3>1. PICK tries \in 0..Races : tries = r.tries + 1
      BY <2>2, LiveAssumption DEF Folder
    <3>2. PICK h : h = [r EXCEPT !.tries = tries, !.pc = "record"]
      OBVIOUS
    <3>3. /\ h \in Folder /\ h.pc = "record" /\ h.offset = r.offset /\ h.seen = r.seen
          /\ h.state = r.state
      BY <3>2 DEF Folder
    <3>4. decider' = [decider EXCEPT ![d] = h]
      BY <1>1, <1>4, <2>2, <3>1, <3>2 DEF Inv, Types
    <3>5. FolderOK(h)
      BY <1>1, <3>3 DEF FolderOK
    <3> QED
      BY <1>1, <1>2, <1>4, <3>3, <3>4, <3>5, QuietFolderStep
  <2> QED
    BY <2>1, <2>2
<1>5. CASE /\ Found /\ ~closed /\ r.offset = CurrentOffset /\ CurrentOffset < MaxTail
           /\ Commit(<<CurrentOffset + 1>>, FALSE)
           /\ Ends(d)
           /\ stale' = (stale \/ r.state # log)
  <2>1. /\ Types /\ LogOK /\ ~stale /\ Len(log) \in Nat /\ MaxTail \in Nat /\ present
        /\ ~closed /\ Len(log) < MaxTail
    BY <1>5, SnapshotMeans, OffsetIsNat DEF Inv, Found, CurrentOffset
  <2>2. PICK new : new = <<Len(log) + 1>>
    OBVIOUS
  <2>3. new \in Seq(1..MaxTail) /\ Len(new) = 1 /\ new[1] = Len(log) + 1
    <3>1. Len(log) + 1 \in 1..MaxTail
      BY <2>1
    <3> QED
      BY <2>2, <3>1
  <2>4. NumberedFrom(new, Len(log)) /\ Len(log) + Len(new) <= MaxTail
    BY <2>1, <2>3 DEF NumberedFrom
  <2>5. /\ log' = log \o new /\ present' = present /\ softDeleted' = softDeleted
        /\ closed' = closed
    <3>1. Commit(new, FALSE) /\ closed = FALSE
      BY <1>5, <2>1, <2>2 DEF CurrentOffset, Types
    <3> QED
      BY <3>1 DEF Commit
  <2>6. /\ log' \in Seq(1..MaxTail) /\ Len(log') <= MaxTail
        /\ \A k \in 1..Len(log') : log'[k] = k
        /\ Len(log) \in Nat /\ Len(log') \in Nat /\ Len(log) <= Len(log')
    BY <2>1, <2>3, <2>4, <2>5, CommitMeans
  <2>7. LogOK' /\ StreamGoesOn
    BY <2>1, <2>5, <2>6 DEF LogOK, StreamGoesOn
  <2>8. r.state = log
    <3>1. PICK state \in Seq(1..MaxTail), messages \in Seq(1..MaxTail) :
             state = r.state /\ messages = log
      BY <2>1 DEF Folder, LogOK
    <3>2. Len(state) = Len(messages) /\ NumberedFrom(state, 0)
      BY <1>1, <1>5, <2>1, <3>1 DEF FolderOK, CurrentOffset
    <3>3. \A k \in 1..Len(state) : state[k] = k
      <4>1. \A k \in 1..Len(state) : state[k] = 0 + k
        BY <3>2 DEF NumberedFrom
      <4>2. Len(state) \in Nat
        BY <3>1, LenProperties
      <4> QED
        BY <4>1, <4>2
    <3>4. \A k \in 1..Len(messages) : messages[k] = k
      BY <2>1, <3>1 DEF LogOK
    <3>5. \A k \in 1..Len(state) : state[k] = messages[k]
      BY <3>2, <3>3, <3>4
    <3>6. state = messages
      BY <3>2, <3>5, SeqEqual
    <3> QED
      BY <3>1, <3>6
  <2>9. ~stale'
    BY <1>5, <2>1, <2>8
  <2>10. PICK h : h = [Begin EXCEPT !.pc = "end"]
    OBVIOUS
  <2>11. h \in Folder /\ SeenOK(h.seen) /\ FolderOK(h) /\ decider' = [decider EXCEPT ![d] = h]
    BY <1>5, <2>10, EndMeans DEF Ends
  <2>12. present' \in BOOLEAN /\ closed' \in BOOLEAN /\ softDeleted' \in BOOLEAN
    BY <2>1, <2>5 DEF Types
  <2> QED
    BY <1>2, <2>7, <2>9, <2>11, <2>12, FolderStep DEF DeciderOnly, setting
<1> QED
  BY <1>1, <1>3, <1>4, <1>5 DEF AppendDecided

-----------------------------------------------------------------------------
(***************************************************************************)
(* The invariant holds, and means what is promised.                        *)
(***************************************************************************)
LEMMA InvInitially == Init => Inv
<1> SUFFICES ASSUME Init PROVE Inv
  OBVIOUS
<1>1. /\ host \in Hosts /\ client \in Clients /\ present = TRUE /\ log = <<>>
      /\ closed = FALSE /\ softDeleted = FALSE /\ stale = FALSE
      /\ follower = [f \in Followers |-> Start] /\ decider = [d \in Deciders |-> Begin]
  BY DEF Init
<1>2. <<>> \in Seq(1..MaxTail) /\ Len(<<>>) = 0 /\ NumberedFrom(<<>>, 0)
  BY EmptySeq DEF NumberedFrom
<1>3. MaxTail \in Nat /\ Races \in Nat /\ 0 \in 0..MaxTail /\ 0 \in 0..Races
  BY LiveAssumption
<1>4. LogOK
  BY <1>1, <1>2, <1>3 DEF LogOK
<1>5. Nothing \in Snapshots /\ SeenOK(Nothing)
  BY <1>1, <1>2, <1>3 DEF Nothing, Snapshots, SeenOK
<1>6. Start \in Reader /\ SeenOK(Start.seen) /\ ReaderOK(Start)
  <2>1. PICK pc \in {"connect", "record"} : pc = IF How = "sse" THEN "connect" ELSE "record"
    OBVIOUS
  <2>2. PICK live \in BOOLEAN : live = (How = "session")
    OBVIOUS
  <2>3. PICK now \in BOOLEAN : now = (client[2] = "now")
    OBVIOUS
  <2>4. PICK h : h = [pc |-> pc, live |-> live, now |-> now, offset |-> 0, seen |-> Nothing,
                      signal |-> FALSE, got |-> <<>>, base |-> 0]
    OBVIOUS
  <2>5. h = Start
    BY <2>1, <2>2, <2>3, <2>4 DEF Start
  <2>6. /\ h.pc = pc /\ h.live = live /\ h.now = now /\ h.offset = 0 /\ h.seen = Nothing
        /\ h.got = <<>> /\ h.base = 0 /\ h \in Reader
    BY <1>2, <1>3, <1>5, <2>4 DEF Reader, Labels
  <2>7. How = "session" /\ now => FromTheEndOfSession
    <3>1. client \in {"direct", "poll", "session", "sse"} \X {"start", "now"}
      BY <1>1, LiveAssumption
    <3>2. PICK how, from : client = <<how, from>>
      BY <3>1
    <3>3. client[1] = how /\ client[2] = from
      BY <3>2
    <3>4. How = "session" /\ now => how = "session" /\ from = "now"
      BY <2>3, <3>3 DEF How
    <3> QED
      BY <3>2, <3>4 DEF FromTheEndOfSession
  <2>8. ReaderOK(h)
    <3>1. Len(log) = 0 /\ h.offset = h.base + Len(h.got) /\ h.offset <= Len(log)
      BY <1>1, <1>2, <2>6
    <3>2. NumberedFrom(h.got, h.base) /\ h.pc \notin {"messages", "result", "closed", "last type"}
      BY <1>2, <2>6
    <3>3. How = "poll" => ~h.live
      BY <2>2, <2>6
    <3>4. ~FromTheEndOfSession /\ How = "session" => ~h.now
      BY <2>6, <2>7
    <3> QED
      BY <2>6, <3>1, <3>2, <3>3, <3>4 DEF ReaderOK
  <2> QED
    BY <1>5, <2>5, <2>6, <2>8
<1>7. Begin \in Folder /\ SeenOK(Begin.seen) /\ FolderOK(Begin)
  <2>1. /\ Begin.pc = "idle" /\ Begin.offset = 0 /\ Begin.seen = Nothing
        /\ Begin.state = <<>> /\ Begin.tries = 0
    BY DEF Begin
  <2>2. Begin \in Folder
    BY <1>2, <1>3, <1>5 DEF Begin, Folder
  <2> QED
    BY <1>1, <1>2, <1>5, <2>1, <2>2 DEF FolderOK
<1>8. Types
  BY <1>1, <1>6, <1>7 DEF Types
<1> QED
  BY <1>1, <1>4, <1>6, <1>7, <1>8 DEF Inv

LEMMA NextKeeps == Inv /\ [Next]_vars => Inv'
<1> SUFFICES ASSUME Inv, [Next]_vars PROVE Inv'
  OBVIOUS
<1>1. CASE UNCHANGED vars
  BY <1>1 DEF vars, Inv, Types, LogOK, SeenOK, ReaderOK, FolderOK, FromTheEndOfSession, How
<1>2. CASE CutOff \/ Drain
  <2>1. UNCHANGED <<host, client, present, log, closed, softDeleted, follower, decider, stale>>
    BY <1>2 DEF CutOff, Drain, rest, setting, stream
  <2> QED
    BY <2>1 DEF Inv, Types, LogOK, SeenOK, ReaderOK, FolderOK, FromTheEndOfSession, How
<1>3. CASE Write \/ Remove \/ Publish \/ Stop
  BY <1>3, WriteKeeps, RemoveKeeps, PublishKeeps, StopKeeps
<1>4. ASSUME NEW f \in Followers, Reads(f) PROVE Inv'
  BY <1>4, ConnectKeeps, ReadRecordKeeps, ReadPageKeeps, ReadNowKeeps, ReadLiveKeeps,
     SubscribeKeeps, LookKeeps, ReadResultKeeps, ContentTypeKeeps, RepairKeeps DEF Reads
<1>5. ASSUME NEW f \in Followers, TimeOut(f) \/ Retry(f) \/ DrainReply(f) \/ EndBody(f)
      PROVE  Inv'
  BY <1>5, TimeOutKeeps, RetryKeeps, DrainReplyKeeps, EndBodyKeeps
<1>6. ASSUME NEW d \in Deciders,
             Decide(d) \/ FoldRecord(d) \/ FoldPage(d) \/ AppendDecided(d)
      PROVE  Inv'
  BY <1>6, DecideKeeps, FoldRecordKeeps, FoldPageKeeps, AppendDecidedKeeps
<1> QED
  BY <1>1, <1>2, <1>3, <1>4, <1>5, <1>6 DEF Next

\* A behaviour has one kind of client.
LEMMA ClientStays == ASSUME [Next]_vars PROVE client' = client
<1>1. ASSUME NEW f \in Followers, Reads(f) PROVE client' = client
  BY <1>1 DEF Reads, Connect, ReadRecord, ReadPage, ReadNow, ReadLive, Subscribe, Look,
     ReadResult, ContentType, Repair, FollowerOnly, rest, setting
<1>2. ASSUME NEW f \in Followers, TimeOut(f) \/ Retry(f) \/ DrainReply(f) \/ EndBody(f)
      PROVE  client' = client
  BY <1>2 DEF TimeOut, Retry, DrainReply, EndBody, FollowerOnly, rest, setting
<1>3. ASSUME NEW d \in Deciders,
             Decide(d) \/ FoldRecord(d) \/ FoldPage(d) \/ AppendDecided(d)
      PROVE  client' = client
  BY <1>3 DEF Decide, FoldRecord, FoldPage, AppendDecided, DeciderOnly, setting
<1>4. CASE Write \/ Remove \/ Publish \/ CutOff \/ Drain \/ Stop
  BY <1>4 DEF Write, Remove, Publish, CutOff, Drain, Stop, rest, setting
<1>5. CASE UNCHANGED vars
  BY <1>5 DEF vars
<1> QED
  BY <1>1, <1>2, <1>3, <1>4, <1>5 DEF Next

LEMMA InvAlways == Spec => []Inv
BY InvInitially, NextKeeps, PTL DEF Spec

LEMMA InvMeans == ASSUME Inv PROVE TypeOK /\ (~FromTheEndOfSession => YieldsEachOnce)
<1>1. Types /\ LogOK /\ Len(log) \in Nat /\ MaxTail \in Nat
  BY SnapshotMeans, OffsetIsNat DEF Inv
<1>2. TypeOK
  BY <1>1 DEF TypeOK, Types, LogOK, Reader, Folder, CurrentOffset
<1>3. ASSUME ~FromTheEndOfSession, present, NEW f \in Followers
      PROVE  /\ follower[f].offset = follower[f].base + Len(follower[f].got)
             /\ follower[f].got = SubSeq(log, follower[f].base + 1, follower[f].offset)
             /\ At(f, "closed") => closed /\ follower[f].offset = CurrentOffset
  <2>1. PICK r \in Reader : r = follower[f] /\ ReaderOK(r)
    BY DEF Inv, Types
  <2>2. PICK got \in Seq(1..MaxTail), base \in Nat, offset \in Nat, all \in Seq(1..MaxTail) :
           got = r.got /\ base = r.base /\ offset = r.offset /\ all = log
    BY <1>1, OffsetIsNat DEF Reader, LogOK
  <2>3. PICK n \in Nat, size \in Nat : n = Len(got) /\ size = Len(all)
    BY <2>2, LenProperties
  <2>4. /\ offset = base + n /\ offset <= size
        /\ NumberedFrom(got, base)
        /\ r.pc = "closed" => closed /\ offset = size
    BY <1>3, <2>1, <2>2, <2>3 DEF ReaderOK
  <2>5. \A k \in 1..size : all[k] = k /\ all[k] \in 1..MaxTail
    BY <1>1, <2>2, <2>3, ElementOfSeq DEF LogOK
  <2>6. \A k \in base + 1..offset : all[k] \in 1..MaxTail
    BY <2>4, <2>5
  <2>7. PICK page : page = SubSeq(all, base + 1, offset)
    OBVIOUS
  <2>8. /\ page \in Seq(1..MaxTail)
        /\ Len(page) = IF base + 1 <= offset THEN offset - (base + 1) + 1 ELSE 0
        /\ \A k \in 1..offset - (base + 1) + 1 : page[k] = all[base + 1 + k - 1]
    BY <2>6, <2>7, SubSeqProperties
  <2>9. Len(page) = n
    BY <2>4, <2>8
  <2>10. \A k \in 1..n : page[k] = base + k
    BY <2>4, <2>5, <2>8
  <2>11. \A k \in 1..n : got[k] = base + k
    BY <2>3, <2>4 DEF NumberedFrom
  <2>12. got = page
    BY <2>3, <2>8, <2>9, <2>10, <2>11, SeqEqual
  <2> QED
    BY <2>1, <2>2, <2>3, <2>4, <2>7, <2>12 DEF At, CurrentOffset
<1>4. ~FromTheEndOfSession => YieldsInOrder /\ ClosedIsTheEnd
  BY <1>3 DEF YieldsInOrder, ClosedIsTheEnd
<1> QED
  BY <1>2, <1>4 DEF YieldsEachOnce

-----------------------------------------------------------------------------
(***************************************************************************)
(* What is proved.                                                         *)
(***************************************************************************)

\* What decide appends was decided from exactly the messages before it, whoever else
\* appends and however its reads and races go (streams.ts decide).
THEOREM DecisionsSeeTheStream == Spec => []DecidedOnTheState
<1>1. Inv => DecidedOnTheState
  BY DEF Inv, DecidedOnTheState
<1> QED
  BY <1>1, InvAlways, PTL

\* A follower yields each message once and in order, and when it ends with the stream,
\* all of them (streams.ts follow; read.ts; http/live.ts).  A session of long polls
\* that begins at the end of the stream is excepted: the answer of a host that drains
\* lets it skip messages (run drain).
THEOREM FollowersYieldEachOnce ==
  Spec /\ client # <<"session", "now">> => []YieldsEachOnce
<1>1. Inv /\ client # <<"session", "now">> => YieldsEachOnce
  BY InvMeans DEF FromTheEndOfSession
<1>2. client # <<"session", "now">> /\ [Next]_vars => (client # <<"session", "now">>)'
  BY ClientStays
<1> QED
  BY <1>1, <1>2, InvAlways, PTL DEF Spec

-----------------------------------------------------------------------------
(***************************************************************************)
(* Wake streams.  The invariant: the writers keep the rows in order and a  *)
(* compaction says what they amount to; the consumer's cursors are what    *)
(* the rows up to its wake cursor ask for, but for what an unfinished      *)
(* batch has done already and will do again; and what is left of a batch   *)
(* leads to what the rows up to its end ask for.                           *)
(***************************************************************************)
\* What the rows amount to after the first n.
M(n) == Materialized(rows, n)
Live(n, s) == M(n).rows[s] # None

UpsertAt(p, s) == rows[p].kind = "upsert" /\ rows[p].stream = s
DeleteAt(p, s) == rows[p].kind = "delete" /\ rows[p].stream = s
EndAt(p) == rows[p].kind = "snapshot-end"

\* In the rows after a up to b.
ResetIn(a, b) == \E p \in a + 1..b : rows[p].kind = "reset"
UpsertIn(a, b, s) == \E p \in a + 1..b : UpsertAt(p, s)
DeleteIn(a, b, s) == \E p \in a + 1..b : DeleteAt(p, s)

(***************************************************************************)
(* The writers and the wake stream.                                        *)
(***************************************************************************)
UpsertRows == [kind : {"upsert"}, stream : Sources, offset : Nat, closed : BOOLEAN]

Events == UpsertRows \cup [kind : {"delete"}, stream : Sources]
                     \cup [kind : {"reset", "snapshot-start", "snapshot-end"}]

WriterTypes ==
  /\ source \in [Sources -> [tail : Nat, closed : BOOLEAN, gone : BOOLEAN]]
  /\ binding \in [Sources -> [offset : Nat \cup {Unread}, closed : BOOLEAN, ended : BOOLEAN]]
  /\ rows \in Seq(Events) /\ limit \in Nat \ {0} /\ lapsed \in BOOLEAN

\* A binding is not ahead of its source, has no closed row of an open one, and ends with a
\* delete.
Behind ==
  \A s \in Sources :
    /\ binding[s].offset <= source[s].tail
    /\ binding[s].closed => source[s].closed
    /\ binding[s].ended => source[s].gone /\ DeleteIn(0, Len(rows), s)

\* No row is ahead of its binding, and the rows of a source only grow.
RowsGrow ==
  \A p \in 1..Len(rows), s \in Sources :
    /\ UpsertAt(p, s) => /\ rows[p].offset <= binding[s].offset
                         /\ rows[p].closed => binding[s].closed
                         /\ \A q \in p + 1..Len(rows) :
                              UpsertAt(q, s) => /\ rows[p].offset <= rows[q].offset
                                                /\ rows[p].closed => rows[q].closed
    /\ DeleteAt(p, s) => /\ binding[s].ended
                         /\ \A q \in p + 1..Len(rows) : ~UpsertAt(q, s)

\* A snapshot that ends has begun, and names every stream that has rows and was not removed.
SnapshotsName ==
  \A q \in 1..Len(rows) :
    EndAt(q) => /\ M(q - 1).snapshot # None
                /\ \A s \in Sources : UpsertIn(0, q - 1, s) /\ ~DeleteIn(0, q - 1, s) =>
                                        s \in M(q - 1).snapshot

Written(s) == binding[s].offset # Unread /\ ~binding[s].ended

\* All the rows amount to what the bindings have written last.
RowsAreBindings ==
  M(Len(rows)) =
    [rows |-> [s \in Sources |->
                 IF Written(s) THEN UpsertRow(s, binding[s].offset, binding[s].closed)
                 ELSE None],
     snapshot |-> None]

WritersOK == WriterTypes /\ Behind /\ RowsGrow /\ SnapshotsName /\ RowsAreBindings

(***************************************************************************)
(* What is saved of the consumer.                                          *)
(***************************************************************************)
SavedTypes ==
  /\ cursors \in [Sources -> Nat \cup {Unread}]
  /\ held \in [Sources -> SUBSET Nat]
  /\ complete \subseteq Sources
  /\ wakeCursor \in 0..Len(rows)

\* What is held of a source has no gap.
Joined ==
  \A s \in Sources :
    IF cursors[s] = Unread THEN held[s] = {}
    ELSE \E n \in cursors[s]..source[s].tail : held[s] = 1..n

\* A source that is complete is read, and a row has said that it is closed.
Told == \A s \in complete : cursors[s] # Unread /\ binding[s].closed

\* As far as a batch can have come that was not finished.
Reach == IF wakeCursor + limit < Len(rows) THEN wakeCursor + limit ELSE Len(rows)

\* A source is read as far as its row says.
ReadTo(s, row) == cursors[s] >= row.offset /\ (row.closed => s \in complete)

\* The cursors are those of the wake cursor, but for what a batch that is not finished has
\* done already and will do again.
Covered ==
  ~ResetIn(wakeCursor, Reach) =>
    \A s \in Sources :
      /\ cursors[s] # Unread =>
           \/ Live(wakeCursor, s)
           \/ \E p \in wakeCursor + 1..Reach :
                UpsertAt(p, s) /\ \A q \in wakeCursor + 1..p - 1 : ~EndAt(q)
      /\ Live(wakeCursor, s) =>
           \/ source[s].gone \/ ReadTo(s, M(wakeCursor).rows[s])
           \/ DeleteIn(wakeCursor, Reach, s)

(***************************************************************************)
(* The batch of the consumer.                                              *)
(***************************************************************************)
Asks(item, s) == item.tag = "dirty" /\ item.stream = s
Drops(item, s) ==
  \/ item.tag = "removed" /\ item.stream = s
  \/ item.tag = "reset"
  \/ item.tag = "snapshot" /\ s \notin item.streams
Concerns(item, s) == Asks(item, s) \/ Drops(item, s)

\* Which rows between a and b an item is from.
FromRows(item, a, b) ==
  \/ /\ item.tag = "dirty" /\ item.stream \in Sources
     /\ item.from \in Nat \cup {Unread}
     /\ \E p \in a + 1..b : UpsertAt(p, item.stream) /\ item = DirtyItem(p, rows[p], item.from)
  \/ /\ item.tag = "removed" /\ item.stream \in Sources
     /\ \E p \in a + 1..b : DeleteAt(p, item.stream) /\ item = RemovedItem(p, item.stream)
  \/ item.tag = "reset" /\ \E p \in a + 1..b : rows[p].kind = "reset" /\ item = ResetItem(p)
  \/ item.tag = "snapshot" /\ \E p \in a + 1..b :
                                EndAt(p) /\ item = SnapshotItem(p, M(p - 1).snapshot)

\* Every snapshot that ended is among the items.
SnapshotsKept(items, a, b) ==
  ~ResetIn(a, b) => \A p \in a + 1..b : EndAt(p) => SnapshotItem(p, M(p - 1).snapshot) \in items

SameFrom(items) ==
  \A i, j \in items : i.tag = "dirty" /\ j.tag = "dirty" /\ i.stream = j.stream => i.from = j.from

\* A stream that is read on from its cursor has it, and is not dropped before.
ReadsOn(items) ==
  \A i \in items : i.tag = "dirty" /\ i.from # Unread =>
    /\ cursors[i.stream] # Unread /\ i.from <= cursors[i.stream]
    /\ \A j \in items : Drops(j, i.stream) => i.order < j.order

\* A stream with a row at n is read to it, or there is an item for that, the last about it.
ReadsAll(items, n, s) ==
  LET row == M(n).rows[s] IN
    \/ source[s].gone
    \/ \E i \in items : /\ Asks(i, s) /\ i.offset = row.offset /\ i.closed = row.closed
                        /\ \A j \in items : Concerns(j, s) => j.order <= i.order
    \/ ReadTo(s, row) /\ \A j \in items : ~Concerns(j, s)

\* One without a row is dropped, or there is an item for that, after all its reads.
DropsAll(items, s) ==
  \/ \E j \in items : Drops(j, s) /\ \A i \in items : Asks(i, s) => i.order < j.order
  \/ cursors[s] = Unread /\ \A i \in items : ~Asks(i, s)

Todo == {item \in consumer.items : item.order > consumer.turn}

WakeBatchOK ==
  /\ consumer.next \in wakeCursor..Reach /\ consumer.turn \in Nat
  /\ consumer.after = M(consumer.next).snapshot
  /\ \A item \in consumer.items : FromRows(item, wakeCursor, consumer.next)
  /\ SnapshotsKept(consumer.items, wakeCursor, consumer.next)
  /\ SameFrom(consumer.items)
  /\ ReadsOn(Todo)
  /\ \A s \in Sources :
       IF Live(consumer.next, s) THEN ReadsAll(Todo, consumer.next, s) ELSE DropsAll(Todo, s)

\* A read after a snapshot: a stop loses the names.
ReadsPast ==
  \E i, j \in consumer.items :
    i.order < j.order /\ j.order <= consumer.turn /\ i.tag = "snapshot" /\ j.tag = "dirty"

ConsumerOK ==
  /\ SavedTypes /\ Joined /\ Told
  /\ consumer = [at |-> consumer.at, items |-> consumer.items, turn |-> consumer.turn,
                 next |-> consumer.next, snapshot |-> consumer.snapshot, after |-> consumer.after]
  /\ consumer.at \in {"down", "follow", "handle"}
  /\ IF consumer.at = "down" THEN M(wakeCursor).snapshot = None
     ELSE consumer.snapshot = M(wakeCursor).snapshot
  /\ IF consumer.at = "handle" THEN WakeBatchOK ELSE consumer.items = {}
  /\ ~ReadsPast => Covered

WakeInv == WritersOK /\ (~lapsed => ConsumerOK)

-----------------------------------------------------------------------------
(***************************************************************************)
(* The recursions have their functions, and what holds at the beginning of *)
(* one and from step to step holds throughout.                             *)
(***************************************************************************)
LEMMA LeastOf ==
    ASSUME NEW S \in SUBSET Nat, S # {}
    PROVE  \E m \in S : \A n \in S : m <= n
<1>1. PICK m \in S : \A n \in S : ~(<<n, m>> \in OpToRel(<, Nat))
  BY NatLessThanWellFounded, WFMin, Zenon
<1>2. \A n \in S : ~(n < m)
  BY <1>1 DEF OpToRel
<1> QED
  BY <1>2

\* Good says of which numbers something holds.
LEMMA StepByStep ==
    ASSUME NEW a \in Nat, NEW b \in Nat, a <= b, NEW Good,
           a \in Good,
           \A n \in a + 1..b : n - 1 \in Good => n \in Good
    PROVE  \A n \in a..b : n \in Good
<1> DEFINE bad == {n \in a..b : n \notin Good}
<1>1. SUFFICES ASSUME bad # {} PROVE FALSE
  OBVIOUS
<1>2. PICK m \in bad : \A n \in bad : m <= n
  <2>1. bad \in SUBSET Nat
    OBVIOUS
  <2> HIDE DEF bad
  <2> QED
    BY <1>1, <2>1, LeastOf
<1>3. m \in a + 1..b /\ m - 1 \in a..b
  OBVIOUS
<1>4. m - 1 \in Good
  BY <1>2, <1>3
<1> QED
  BY <1>3, <1>4

LEMMA OnlyOne == ASSUME NEW x PROVE Only({x}) = x
BY DEF Only

\* A function that is built from a on: its value at n by step from the one at n - 1.
Builds(g, base, step, a, b) ==
  g = [n \in a..b |-> IF n = a THEN base ELSE step[<<g[n - 1], n>>]]

LEMMA Built ==
    ASSUME NEW a \in Nat, NEW b \in Nat, a <= b, NEW D, NEW base \in D,
           NEW step \in [D \X (a + 1..b) -> D]
    PROVE  \E g \in [a..b -> D] : Builds(g, base, step, a, b)
<1> DEFINE Good == {n \in Nat : \E g \in [a..n -> D] : Builds(g, base, step, a, n)}
<1>1. a \in Good
  <2> DEFINE g == [n \in a..a |-> base]
  <2>1. g \in [a..a -> D] /\ Builds(g, base, step, a, a)
    BY DEF Builds
  <2> QED
    BY <2>1
<1>2. ASSUME NEW n \in a + 1..b, n - 1 \in Good PROVE n \in Good
  <2>1. PICK g \in [a..n - 1 -> D] : Builds(g, base, step, a, n - 1)
    BY <1>2
  <2> DEFINE h == [k \in a..n |-> IF k < n THEN g[k] ELSE step[<<g[n - 1], n>>]]
  <2>2. n \in Nat /\ n - 1 \in Nat /\ n - 1 \in a..n - 1 /\ n \in a..n /\ n > a
    OBVIOUS
  <2>3. g[n - 1] \in D /\ step[<<g[n - 1], n>>] \in D
    BY <2>2
  <2>4. h \in [a..n -> D]
    BY <2>2, <2>3
  <2>5. ASSUME NEW k \in a..n PROVE h[k] = IF k = a THEN base ELSE step[<<h[k - 1], k>>]
    <3>1. CASE k = n
      <4>1. h[n] = step[<<g[n - 1], n>>]
        BY <2>2
      <4>2. h[n - 1] = g[n - 1]
        BY <2>2
      <4>3. n # a
        BY <2>2
      <4> HIDE DEF h
      <4>4. h[n] = IF n = a THEN base ELSE step[<<h[n - 1], n>>]
        BY <4>1, <4>2, <4>3
      <4> QED
        BY <3>1, <4>4
    <3>2. CASE k # n
      <4>1. k \in a..n - 1 /\ k < n
        BY <2>2, <3>2
      <4>2. g[k] = IF k = a THEN base ELSE step[<<g[k - 1], k>>]
        BY <2>1, <4>1 DEF Builds
      <4>3. h[k] = g[k] /\ (k # a => h[k - 1] = g[k - 1])
        BY <2>2, <4>1
      <4> HIDE DEF h
      <4> QED
        BY <4>2, <4>3
    <3> QED
      BY <3>1, <3>2
  <2>6. Builds(h, base, step, a, n)
    <3>1. h = [k \in a..n |-> h[k]]
      OBVIOUS
    <3> HIDE DEF h
    <3> QED
      BY <2>5, <3>1 DEF Builds
  <2> HIDE DEF h
  <2> QED
    BY <2>2, <2>4, <2>6
<1>3. b \in Good
  <2> HIDE DEF Good
  <2> QED
    BY <1>1, <1>2, StepByStep
<1> QED
  BY <1>3

-----------------------------------------------------------------------------
(***************************************************************************)
(* What the rows amount to.                                                *)
(***************************************************************************)
Amounts == [rows : [Sources -> UpsertRows \cup {None}], snapshot : (SUBSET Sources) \cup {None}]

LEMMA NoneIsNone == None \notin UpsertRows /\ None \notin SUBSET Sources /\ NoRows \in Amounts
<1>1. None \notin UpsertRows /\ None \notin SUBSET Sources
  BY WakeAssumption DEF UpsertRows
<1> QED
  BY <1>1 DEF NoRows, Amounts

LEMMA EventMeans ==
    ASSUME NEW event \in Events
    PROVE  /\ event.kind \in {"upsert", "delete", "reset", "snapshot-start", "snapshot-end"}
           /\ event.kind = "upsert" =>
                /\ event \in UpsertRows
                /\ event.stream \in Sources /\ event.offset \in Nat /\ event.closed \in BOOLEAN
           /\ event.kind = "delete" => event.stream \in Sources
BY DEF Events, UpsertRows

LEMMA AppliedType ==
    ASSUME NEW state \in Amounts, NEW event \in Events
    PROVE  Applied(state, event) \in Amounts
<1>1. CASE event.kind = "reset"
  BY <1>1, NoneIsNone DEF Applied
<1>2. CASE event.kind = "snapshot-start"
  BY <1>2 DEF Applied, Amounts
<1>3. CASE event.kind = "snapshot-end"
  BY <1>3 DEF Applied, Amounts
<1>4. CASE event.kind = "upsert"
  BY <1>4, EventMeans DEF Applied, Amounts, Noted
<1>5. CASE event.kind = "delete"
  BY <1>5, EventMeans DEF Applied, Amounts, Noted
<1> QED
  BY <1>1, <1>2, <1>3, <1>4, <1>5, EventMeans

AmountsAs(f, events, n) ==
  f = [k \in 0..n |->
        IF k = 0 THEN NoRows ELSE Only({Applied(state, events[k]) : state \in {f[k - 1]}})]

LEMMA AmountsHave ==
    ASSUME NEW events \in Seq(Events), NEW n \in 0..Len(events)
    PROVE  \E f \in [0..n -> Amounts] : AmountsAs(f, events, n)
<1> DEFINE step == [x \in Amounts \X (1..n) |-> Applied(x[1], events[x[2]])]
<1>1. step \in [Amounts \X (0 + 1..n) -> Amounts]
  <2>1. ASSUME NEW x \in Amounts \X (1..n) PROVE Applied(x[1], events[x[2]]) \in Amounts
    <3>1. x[1] \in Amounts /\ x[2] \in 1..n /\ events[x[2]] \in Events
      OBVIOUS
    <3> QED
      BY <3>1, AppliedType
  <2>2. 0 + 1 = 1
    OBVIOUS
  <2> QED
    BY <2>1, <2>2
<1>2. PICK f \in [0..n -> Amounts] : Builds(f, NoRows, step, 0, n)
  <2>1. n \in Nat /\ 0 <= n /\ NoRows \in Amounts
    BY NoneIsNone
  <2> HIDE DEF step
  <2> QED
    BY <1>1, <2>1, Built
<1>3. ASSUME NEW k \in 0..n
      PROVE  f[k] = IF k = 0 THEN NoRows
                    ELSE Only({Applied(state, events[k]) : state \in {f[k - 1]}})
  <2>1. f[k] = IF k = 0 THEN NoRows ELSE step[<<f[k - 1], k>>]
    BY <1>2 DEF Builds
  <2>2. CASE k # 0
    <3>1. f[k - 1] \in Amounts /\ k \in 1..n
      BY <2>2
    <3>2. step[<<f[k - 1], k>>] = Applied(f[k - 1], events[k])
      BY <3>1
    <3>3. {Applied(state, events[k]) : state \in {f[k - 1]}} = {Applied(f[k - 1], events[k])}
      OBVIOUS
    <3> QED
      BY <2>1, <2>2, <3>2, <3>3, OnlyOne
  <2> QED
    BY <2>1, <2>2
<1>4. f = [k \in 0..n |-> f[k]]
  OBVIOUS
<1> QED
  BY <1>3, <1>4 DEF AmountsAs

LEMMA AmountsStep ==
    ASSUME NEW events, NEW n \in Nat, NEW f, AmountsAs(f, events, n), NEW k \in 0..n
    PROVE  f[k] = IF k = 0 THEN NoRows ELSE Applied(f[k - 1], events[k])
<1>1. {Applied(state, events[k]) : state \in {f[k - 1]}} = {Applied(f[k - 1], events[k])}
  OBVIOUS
<1> QED
  BY <1>1, OnlyOne DEF AmountsAs

\* Two that begin alike amount to the same.
BeginAlike(events, others, m) == \A k \in 1..m : events[k] = others[k]

LEMMA AmountsAgree ==
    ASSUME NEW events, NEW others, NEW n \in Nat, NEW m \in Nat, m <= n,
           BeginAlike(events, others, m),
           NEW f, AmountsAs(f, events, n), NEW g, AmountsAs(g, others, m)
    PROVE  \A k \in 0..m : f[k] = g[k]
<1> DEFINE Good == {k \in 0..m : f[k] = g[k]}
<1>1. 0 \in Good
  <2>1. 0 \in 0..n /\ 0 \in 0..m
    OBVIOUS
  <2>2. f[0] = NoRows /\ g[0] = NoRows
    BY <2>1, AmountsStep
  <2> QED
    BY <2>1, <2>2
<1>2. ASSUME NEW k \in 1..m, k - 1 \in Good PROVE k \in Good
  <2>1. k \in 0..n /\ k \in 0..m /\ k # 0
    OBVIOUS
  <2>2. f[k] = Applied(f[k - 1], events[k]) /\ g[k] = Applied(g[k - 1], others[k])
    BY <2>1, AmountsStep
  <2>3. events[k] = others[k]
    BY DEF BeginAlike
  <2> QED
    BY <1>2, <2>1, <2>2, <2>3
<1>3. \A k \in 0..m : k \in Good
  <2>1. 0 \in Nat /\ 0 <= m /\ \A k \in 0 + 1..m : k - 1 \in Good => k \in Good
    BY <1>2
  <2> HIDE DEF Good
  <2> QED
    BY <1>1, <2>1, StepByStep
<1> QED
  BY <1>3

LEMMA MaterializedAs ==
    ASSUME NEW events \in Seq(Events), NEW n \in 0..Len(events)
    PROVE  \E f \in [0..n -> Amounts] : AmountsAs(f, events, n) /\ Materialized(events, n) = f[n]
<1> DEFINE after == CHOOSE f : AmountsAs(f, events, n)
<1>1. AmountsAs(after, events, n) /\ Materialized(events, n) = after[n]
  <2>1. \E f : AmountsAs(f, events, n)
    BY AmountsHave
  <2>2. AmountsAs(after, events, n)
    BY <2>1
  <2>3. Materialized(events, n) = after[n]
    BY DEF Materialized, AmountsAs
  <2> QED
    BY <2>2, <2>3
<1>2. PICK g \in [0..n -> Amounts] : AmountsAs(g, events, n)
  BY AmountsHave
<1> HIDE DEF after
<1>3. n \in Nat /\ n <= n
  OBVIOUS
<1>4. after[n] = g[n]
  BY <1>1, <1>2, <1>3, AmountsAgree DEF BeginAlike
<1> QED
  BY <1>1, <1>2, <1>4

LEMMA MaterializedSteps ==
    ASSUME NEW events \in Seq(Events), NEW n \in 0..Len(events)
    PROVE  /\ Materialized(events, n) \in Amounts
           /\ Materialized(events, 0) = NoRows
           /\ n # 0 => Materialized(events, n) = Applied(Materialized(events, n - 1), events[n])
<1>1. PICK f \in [0..n -> Amounts] : AmountsAs(f, events, n) /\ Materialized(events, n) = f[n]
  BY MaterializedAs
<1>2. PICK g \in [0..0 -> Amounts] : AmountsAs(g, events, 0) /\ Materialized(events, 0) = g[0]
  <2>1. 0 \in 0..Len(events)
    OBVIOUS
  <2> QED
    BY <2>1, MaterializedAs
<1>3. Materialized(events, 0) = NoRows
  BY <1>2, AmountsStep
<1>4. ASSUME n # 0
      PROVE  Materialized(events, n) = Applied(Materialized(events, n - 1), events[n])
  <2>1. n - 1 \in 0..Len(events) /\ n - 1 \in Nat /\ n - 1 <= n /\ n \in Nat
    BY <1>4
  <2>2. PICK h \in [0..n - 1 -> Amounts] :
          AmountsAs(h, events, n - 1) /\ Materialized(events, n - 1) = h[n - 1]
    BY <2>1, MaterializedAs
  <2>3. \A k \in 0..n - 1 : f[k] = h[k]
    BY <1>1, <2>1, <2>2, AmountsAgree DEF BeginAlike
  <2>4. f[n - 1] = h[n - 1]
    BY <2>1, <2>3
  <2>5. f[n] = Applied(f[n - 1], events[n])
    BY <1>1, <1>4, <2>1, AmountsStep
  <2> QED
    BY <1>1, <2>2, <2>4, <2>5
<1> QED
  BY <1>1, <1>3, <1>4

\* What is written after them changes nothing of the first rows.
LEMMA MaterializedPrefix ==
    ASSUME NEW events \in Seq(Events), NEW others \in Seq(Events), NEW n \in 0..Len(events),
           n <= Len(others), BeginAlike(events, others, n)
    PROVE  Materialized(others, n) = Materialized(events, n)
<1>1. n \in Nat /\ n <= n /\ n \in 0..Len(others) /\ n \in 0..n
  OBVIOUS
<1>2. PICK f \in [0..n -> Amounts] : AmountsAs(f, events, n) /\ Materialized(events, n) = f[n]
  BY MaterializedAs
<1>3. PICK g \in [0..n -> Amounts] : AmountsAs(g, others, n) /\ Materialized(others, n) = g[n]
  BY <1>1, MaterializedAs
<1>4. \A k \in 0..n : f[k] = g[k]
  BY <1>1, <1>2, <1>3, AmountsAgree
<1> QED
  BY <1>1, <1>2, <1>3, <1>4

\* What an event makes of a state.
Effect(new, state, event) ==
  /\ event.kind = "reset" => new = NoRows
  /\ event.kind = "snapshot-start" => new.rows = state.rows /\ new.snapshot = {}
  /\ event.kind = "snapshot-end" =>
       /\ new.snapshot = None
       /\ \A s \in Sources :
            new.rows[s] = IF state.snapshot = None \/ s \in state.snapshot
                          THEN state.rows[s] ELSE None
  /\ event.kind = "upsert" =>
       /\ new.snapshot = Noted(state.snapshot, state.snapshot \cup {event.stream})
       /\ \A s \in Sources :
            new.rows[s] = IF s = event.stream THEN event ELSE state.rows[s]
  /\ event.kind = "delete" =>
       /\ new.snapshot = Noted(state.snapshot, state.snapshot \ {event.stream})
       /\ \A s \in Sources :
            new.rows[s] = IF s = event.stream THEN None ELSE state.rows[s]

LEMMA AppliedIs ==
    ASSUME NEW state \in Amounts, NEW event \in Events
    PROVE  Effect(Applied(state, event), state, event)
<1>1. CASE event.kind = "reset"
  BY <1>1 DEF Applied, Effect
<1>2. CASE event.kind = "snapshot-start"
  BY <1>2 DEF Applied, Amounts, Effect
<1>3. CASE event.kind = "snapshot-end"
  BY <1>3 DEF Applied, Amounts, Effect
<1>4. CASE event.kind = "upsert"
  BY <1>4, EventMeans DEF Applied, Amounts, Effect
<1>5. CASE event.kind = "delete"
  BY <1>5, EventMeans DEF Applied, Amounts, Effect
<1> QED
  BY <1>1, <1>2, <1>3, <1>4, <1>5, EventMeans

LEMMA NothingLives == (\A s \in Sources : NoRows.rows[s] = None) /\ NoRows.snapshot = None
BY DEF NoRows

\* A latest row that is not the event's was there before.
LEMMA AppliedKeeps ==
    ASSUME NEW state \in Amounts, NEW event \in Events, NEW new \in Amounts,
           Effect(new, state, event), NEW s \in Sources,
           new.rows[s] # None, ~(event.kind = "upsert" /\ event.stream = s)
    PROVE  /\ new.rows[s] = state.rows[s]
           /\ ~(event.kind = "delete" /\ event.stream = s)
<1>1. CASE event.kind = "reset"
  BY <1>1, NothingLives DEF Effect
<1>2. CASE event.kind = "snapshot-start"
  BY <1>2 DEF Effect
<1>3. CASE event.kind = "snapshot-end"
  BY <1>3 DEF Effect
<1>4. CASE event.kind = "upsert"
  BY <1>4 DEF Effect
<1>5. CASE event.kind = "delete"
  BY <1>5 DEF Effect
<1> QED
  BY <1>1, <1>2, <1>3, <1>4, <1>5, EventMeans

LEMMA RowsMean ==
    ASSUME WriterTypes, NEW n \in 1..Len(rows)
    PROVE  rows[n] \in Events
BY DEF WriterTypes

LEMMA MSteps ==
    ASSUME WriterTypes, NEW n \in 0..Len(rows)
    PROVE  /\ M(n) \in Amounts /\ M(0) = NoRows
           /\ n # 0 => /\ M(n - 1) \in Amounts /\ rows[n] \in Events
                      /\ Effect(M(n), M(n - 1), rows[n])
<1>1. rows \in Seq(Events)
  BY DEF WriterTypes
<1>2. n # 0 => n - 1 \in 0..Len(rows)
  BY <1>1
<1>3. M(n) \in Amounts /\ M(0) = NoRows
  BY <1>1, MaterializedSteps DEF M
<1>4. ASSUME n # 0
      PROVE  M(n - 1) \in Amounts /\ rows[n] \in Events /\ Effect(M(n), M(n - 1), rows[n])
  <2>1. M(n - 1) \in Amounts /\ rows[n] \in Events
    BY <1>1, <1>2, <1>4, MaterializedSteps DEF M
  <2>2. M(n) = Applied(M(n - 1), rows[n])
    BY <1>1, <1>4, MaterializedSteps DEF M
  <2> QED
    BY <2>1, <2>2, AppliedIs
<1> QED
  BY <1>3, <1>4

\* A latest row is one of the rows, and no delete of its stream is before it or after.
LEMMA LivesByARow ==
    ASSUME WriterTypes, RowsGrow, NEW s \in Sources
    PROVE  \A n \in 0..Len(rows) :
             Live(n, s) => /\ \E p \in 1..n : UpsertAt(p, s) /\ M(n).rows[s] = rows[p]
                           /\ ~DeleteIn(0, n, s)
<1> DEFINE Good == {n \in 0..Len(rows) :
                      Live(n, s) => /\ \E p \in 1..n : UpsertAt(p, s) /\ M(n).rows[s] = rows[p]
                                    /\ ~DeleteIn(0, n, s)}
<1>0. Len(rows) \in Nat
  BY DEF WriterTypes
<1>1. 0 \in Good
  <2>1. 0 \in 0..Len(rows)
    BY <1>0
  <2>2. ~Live(0, s)
    BY <2>1, MSteps, NothingLives DEF Live
  <2> QED
    BY <2>1, <2>2
<1>2. ASSUME NEW n \in 0 + 1..Len(rows), n - 1 \in Good PROVE n \in Good
  <2>1. n \in 1..Len(rows) /\ n \in 0..Len(rows) /\ n # 0 /\ n \in Nat
    BY <1>0
  <2>2. /\ rows[n] \in Events /\ M(n - 1) \in Amounts /\ M(n) \in Amounts
        /\ Effect(M(n), M(n - 1), rows[n])
    BY <2>1, MSteps
  <2> SUFFICES ASSUME Live(n, s)
               PROVE  /\ \E p \in 1..n : UpsertAt(p, s) /\ M(n).rows[s] = rows[p]
                      /\ ~DeleteIn(0, n, s)
    BY <2>1
  <2>3. CASE UpsertAt(n, s)
    <3>1. M(n).rows[s] = rows[n]
      BY <2>2, <2>3 DEF UpsertAt, Effect
    <3>2. ~DeleteIn(0, n, s)
      <4> SUFFICES ASSUME NEW d \in 0 + 1..n, DeleteAt(d, s) PROVE FALSE
        BY DEF DeleteIn
      <4>1. d # n
        BY <2>3 DEF UpsertAt, DeleteAt
      <4>2. d \in 1..Len(rows) /\ n \in d + 1..Len(rows)
        BY <2>1, <4>1
      <4> QED
        BY <2>3, <4>2 DEF RowsGrow
    <3> QED
      BY <2>1, <2>3, <3>1, <3>2
  <2>4. CASE ~UpsertAt(n, s)
    <3>1. M(n).rows[s] = M(n - 1).rows[s] /\ ~DeleteAt(n, s)
      BY <2>2, <2>4, AppliedKeeps DEF Live, UpsertAt, DeleteAt
    <3>2. Live(n - 1, s)
      BY <3>1 DEF Live
    <3>3. PICK p \in 1..n - 1 : UpsertAt(p, s) /\ M(n - 1).rows[s] = rows[p]
      BY <1>2, <3>2
    <3>4. ~DeleteIn(0, n - 1, s)
      BY <1>2, <3>2
    <3>5. ~DeleteIn(0, n, s)
      BY <2>1, <3>1, <3>4 DEF DeleteIn
    <3> QED
      BY <2>1, <3>1, <3>3, <3>5
  <2> QED
    BY <2>3, <2>4
<1> QED
  <2>1. \A n \in 0..Len(rows) : n \in Good
    <3>1. 0 \in Nat /\ 0 <= Len(rows)
      BY <1>0
    <3>2. \A n \in 0 + 1..Len(rows) : n - 1 \in Good => n \in Good
      BY <1>2
    <3> HIDE DEF Good
    <3> QED
      BY <1>0, <1>1, <3>1, <3>2, StepByStep
  <2> QED
    BY <2>1

-----------------------------------------------------------------------------
(***************************************************************************)
(* What a batch asks for.                                                  *)
(***************************************************************************)
Cursors == [Sources -> Nat \cup {Unread}]
OpenSnapshots == (SUBSET Sources) \cup {None}

Items ==
  [tag : {"dirty"}, order : Nat, stream : Sources, from : Nat \cup {Unread}, offset : Nat,
   closed : BOOLEAN]
  \cup [tag : {"removed"}, order : Nat, stream : Sources]
  \cup [tag : {"reset"}, order : Nat]
  \cup [tag : {"snapshot"}, order : Nat, streams : SUBSET Sources]

Works == [items : SUBSET Items, pending : SUBSET Items, reset : BOOLEAN, open : OpenSnapshots]

\* What a row makes of the work so far.
WorkEffect(new, acc, n, known) ==
  /\ rows[n].kind = "reset" =>
       /\ new.items = {ResetItem(n)} /\ new.pending = {} /\ new.reset = TRUE /\ new.open = None
  /\ rows[n].kind # "reset" => new.reset = acc.reset
  /\ rows[n].kind = "snapshot-start" =>
       new.items = acc.items /\ new.pending = acc.pending /\ new.open = {}
  /\ rows[n].kind = "snapshot-end" =>
       /\ new.open = None
       /\ acc.open = None => new.items = acc.items /\ new.pending = acc.pending
       /\ acc.open # None => /\ new.items = acc.items \cup acc.pending
                                              \cup {SnapshotItem(n, acc.open)}
                             /\ new.pending = {}
  /\ rows[n].kind = "upsert" =>
       LET s == rows[n].stream
           base == Base(acc, s, known)
       IN  /\ new.items = acc.items
           /\ new.pending = Others(acc, s)
                \cup (IF WasRemoved(acc, s) THEN {RemovedItem(n, s)} ELSE {})
                \cup (IF Wants(rows[n], base) THEN {DirtyItem(n, rows[n], base)} ELSE {})
           /\ new.open = Noted(acc.open, acc.open \cup {s})
  /\ rows[n].kind = "delete" =>
       LET s == rows[n].stream IN
         /\ new.items = acc.items
         /\ new.pending = Others(acc, s) \cup {RemovedItem(n, s)}
         /\ new.open = Noted(acc.open, acc.open \ {s})

LEMMA OnEventIs ==
    ASSUME WriterTypes, NEW acc \in Works, NEW n \in 1..Len(rows), NEW known
    PROVE  WorkEffect(OnEvent(acc, n, known), acc, n, known)
<1>0. rows[n].kind \in {"upsert", "delete", "reset", "snapshot-start", "snapshot-end"}
  BY RowsMean, EventMeans
<1>1. CASE rows[n].kind = "reset"
  BY <1>1 DEF OnEvent, WorkEffect
<1>2. CASE rows[n].kind = "snapshot-start"
  BY <1>2 DEF OnEvent, WorkEffect, Works
<1>3. CASE rows[n].kind = "snapshot-end"
  BY <1>3 DEF OnEvent, OnSnapshotEnd, Flushed, WorkEffect, Works
<1>4. CASE rows[n].kind = "upsert"
  BY <1>4 DEF OnEvent, OnUpsert, WorkEffect, Works
<1>5. CASE rows[n].kind = "delete"
  BY <1>5 DEF OnEvent, OnDelete, WorkEffect, Works
<1> QED
  BY <1>0, <1>1, <1>2, <1>3, <1>4, <1>5

LEMMA ItemTypes ==
    ASSUME NEW n \in Nat
    PROVE  /\ ResetItem(n) \in Items
           /\ \A s \in Sources : RemovedItem(n, s) \in Items
           /\ \A streams \in SUBSET Sources : SnapshotItem(n, streams) \in Items
           /\ \A row \in UpsertRows, from \in Nat \cup {Unread} : DirtyItem(n, row, from) \in Items
<1>1. 2 * n \in Nat /\ 2 * n + 1 \in Nat
  OBVIOUS
<1> QED
  BY <1>1 DEF ResetItem, RemovedItem, SnapshotItem, DirtyItem, Items, UpsertRows

LEMMA OnEventType ==
    ASSUME WriterTypes, NEW acc \in Works, NEW n \in 1..Len(rows), NEW known \in Cursors
    PROVE  OnEvent(acc, n, known) \in Works
<1>0. /\ rows[n].kind \in {"upsert", "delete", "reset", "snapshot-start", "snapshot-end"}
      /\ rows[n].kind = "upsert" => rows[n] \in UpsertRows /\ rows[n].stream \in Sources
      /\ rows[n].kind = "delete" => rows[n].stream \in Sources
      /\ n \in Nat
  BY RowsMean, EventMeans
<1>1. CASE rows[n].kind = "reset"
  BY <1>0, <1>1, ItemTypes DEF OnEvent, Works, OpenSnapshots
<1>2. CASE rows[n].kind = "snapshot-start"
  BY <1>2 DEF OnEvent, Works, OpenSnapshots
<1>3. CASE rows[n].kind = "snapshot-end"
  <2>1. CASE acc.open = None
    BY <1>3, <2>1 DEF OnEvent, OnSnapshotEnd
  <2>2. CASE acc.open # None
    <3>1. acc.open \in SUBSET Sources
      BY <2>2 DEF Works, OpenSnapshots
    <3>2. SnapshotItem(n, acc.open) \in Items
      BY <1>0, <3>1, ItemTypes
    <3> QED
      BY <1>3, <2>2, <3>2 DEF OnEvent, OnSnapshotEnd, Flushed, Works, OpenSnapshots
  <2> QED
    BY <2>1, <2>2
<1>4. CASE rows[n].kind = "upsert"
  <2> DEFINE s == rows[n].stream
             base == Base(acc, s, known)
  <2>1. base \in Nat \cup {Unread}
    BY <1>0, <1>4 DEF Base, Cursors
  <2>2. RemovedItem(n, s) \in Items /\ DirtyItem(n, rows[n], base) \in Items
    BY <1>0, <1>4, <2>1, ItemTypes
  <2>3. Noted(acc.open, acc.open \cup {s}) \in OpenSnapshots
    BY <1>0, <1>4 DEF Noted, Works, OpenSnapshots
  <2>4. Others(acc, s) \in SUBSET Items
    BY DEF Others, Works
  <2> QED
    BY <1>4, <2>2, <2>3, <2>4 DEF OnEvent, OnUpsert, Works
<1>5. CASE rows[n].kind = "delete"
  <2> DEFINE s == rows[n].stream
  <2>1. RemovedItem(n, s) \in Items
    BY <1>0, <1>5, ItemTypes
  <2>2. Noted(acc.open, acc.open \ {s}) \in OpenSnapshots
    BY <1>0, <1>5 DEF Noted, Works, OpenSnapshots
  <2>3. Others(acc, s) \in SUBSET Items
    BY DEF Others, Works
  <2> QED
    BY <1>5, <2>1, <2>2, <2>3 DEF OnEvent, OnDelete, Works
<1> QED
  BY <1>0, <1>1, <1>2, <1>3, <1>4, <1>5

NoWork(snapshot) == [items |-> {}, pending |-> {}, reset |-> FALSE, open |-> snapshot]

WorksAs(f, first, last, known, snapshot) ==
  f = [n \in first..last |->
        IF n = first THEN [items |-> {}, pending |-> {}, reset |-> FALSE, open |-> snapshot]
        ELSE Only({OnEvent(acc, n, known) : acc \in {f[n - 1]}})]

\* The work is done row by row.
\* Row by row to what the items of a batch are.
WorksUp(f, first, last, known, snapshot) ==
  /\ f[first] = NoWork(snapshot)
  /\ \A n \in first + 1..last : WorkEffect(f[n], f[n - 1], n, known)
  /\ Worked(first, last, known, snapshot) = f[last]

LEMMA WorkedSteps ==
    ASSUME WriterTypes, NEW first \in Nat, NEW last \in first..Len(rows),
           NEW known \in Cursors, NEW snapshot \in OpenSnapshots
    PROVE  \E f \in [first..last -> Works] : WorksUp(f, first, last, known, snapshot)
<1>0. Len(rows) \in Nat /\ first <= last /\ last \in Nat
  BY DEF WriterTypes
<1> DEFINE step == [x \in Works \X (first + 1..last) |-> OnEvent(x[1], x[2], known)]
           after == CHOOSE f : WorksAs(f, first, last, known, snapshot)
<1>1. step \in [Works \X (first + 1..last) -> Works]
  <2>1. ASSUME NEW x \in Works \X (first + 1..last) PROVE OnEvent(x[1], x[2], known) \in Works
    <3>1. x[1] \in Works /\ x[2] \in 1..Len(rows)
      BY <1>0
    <3> QED
      BY <3>1, OnEventType
  <2> QED
    BY <2>1
<1>2. NoWork(snapshot) \in Works
  BY DEF NoWork, Works
<1>3. PICK g \in [first..last -> Works] : Builds(g, NoWork(snapshot), step, first, last)
  <2> HIDE DEF step
  <2> QED
    BY <1>0, <1>1, <1>2, Built
<1>4. WorksAs(g, first, last, known, snapshot)
  <2>1. ASSUME NEW n \in first..last
        PROVE  g[n] = IF n = first THEN NoWork(snapshot)
                      ELSE Only({OnEvent(acc, n, known) : acc \in {g[n - 1]}})
    <3>1. g[n] = IF n = first THEN NoWork(snapshot) ELSE step[<<g[n - 1], n>>]
      BY <1>3 DEF Builds
    <3>2. CASE n # first
      <4>1. g[n - 1] \in Works /\ n \in first + 1..last
        BY <1>0, <3>2
      <4>2. step[<<g[n - 1], n>>] = OnEvent(g[n - 1], n, known)
        BY <4>1
      <4>3. {OnEvent(acc, n, known) : acc \in {g[n - 1]}} = {OnEvent(g[n - 1], n, known)}
        OBVIOUS
      <4> QED
        BY <3>1, <3>2, <4>2, <4>3, OnlyOne
    <3> QED
      BY <3>1, <3>2
  <2>2. g = [n \in first..last |-> g[n]]
    OBVIOUS
  <2> QED
    BY <2>1, <2>2 DEF WorksAs, NoWork
<1>5. WorksAs(after, first, last, known, snapshot)
  BY <1>4
<1>6. Worked(first, last, known, snapshot) = after[last]
  BY DEF Worked, WorksAs
<1> HIDE DEF after, step
<1>7. ASSUME NEW n \in first..last
      PROVE  after[n] = IF n = first THEN NoWork(snapshot) ELSE OnEvent(after[n - 1], n, known)
  <2>1. {OnEvent(acc, n, known) : acc \in {after[n - 1]}} = {OnEvent(after[n - 1], n, known)}
    OBVIOUS
  <2> QED
    BY <1>5, <2>1, OnlyOne DEF WorksAs, NoWork
<1>8. \A n \in first..last : after[n] \in Works
  <2> DEFINE Good == {n \in first..last : after[n] \in Works}
  <2>1. first \in Good
    BY <1>0, <1>2, <1>7
  <2>2. \A n \in first + 1..last : n - 1 \in Good => n \in Good
    <3> SUFFICES ASSUME NEW n \in first + 1..last, n - 1 \in Good PROVE n \in Good
      OBVIOUS
    <3>1. n \in 1..Len(rows) /\ n \in first..last /\ n # first /\ after[n - 1] \in Works
      BY <1>0
    <3> QED
      BY <1>7, <3>1, OnEventType
  <2>3. \A n \in first..last : n \in Good
    <3> HIDE DEF Good
    <3> QED
      BY <1>0, <2>1, <2>2, StepByStep
  <2> QED
    BY <2>3
<1>9. after \in [first..last -> Works]
  <2>1. after = [n \in first..last |-> after[n]]
    BY <1>5 DEF WorksAs
  <2> QED
    BY <1>8, <2>1
<1>10. ASSUME NEW n \in first + 1..last PROVE WorkEffect(after[n], after[n - 1], n, known)
  <2>1. n \in 1..Len(rows) /\ n \in first..last /\ n # first /\ n - 1 \in first..last
    BY <1>0
  <2> QED
    BY <1>7, <1>8, <2>1, OnEventIs
<1>11. /\ after[first] = NoWork(snapshot)
       /\ Worked(first, last, known, snapshot) = after[last]
  BY <1>0, <1>6, <1>7
<1>12. \A n \in first + 1..last : WorkEffect(after[n], after[n - 1], n, known)
  BY <1>10
<1>13. WorksUp(after, first, last, known, snapshot)
  BY <1>11, <1>12 DEF WorksUp
<1> HIDE DEF after
<1> QED
  BY <1>9, <1>13

\* Each item comes from its rows, and none is forgotten that a snapshot made.
Traced(acc, first, n, known) ==
  /\ acc.open = M(n).snapshot
  /\ acc.reset <=> ResetIn(first, n)
  /\ \A item \in acc.pending : item.tag \in {"dirty", "removed"}
  /\ \A item \in Flushed(acc) :
       /\ FromRows(item, first, n)
       /\ item.tag = "dirty" => /\ item.from = IF acc.reset THEN Unread ELSE known[item.stream]
                                /\ Wants(item, item.from)
       /\ item.tag = "reset" => acc.reset
  /\ SnapshotsKept(acc.items, first, n)

LEMMA FromMore ==
    ASSUME NEW a \in Nat, NEW n \in Nat, n > a, NEW item, FromRows(item, a, n - 1)
    PROVE  FromRows(item, a, n)
<1>1. \A p \in a + 1..n - 1 : p \in a + 1..n
  OBVIOUS
<1> QED
  BY <1>1 DEF FromRows

\* A stream that a row is added for was not removed before.
LEMMA NotRemoved ==
    ASSUME WritersOK, NEW first \in Nat, NEW n \in first + 1..Len(rows), NEW s \in Sources,
           UpsertAt(n, s), NEW item, FromRows(item, first, n - 1), item.tag = "removed"
    PROVE  item.stream # s
<1> SUFFICES ASSUME item.stream = s PROVE FALSE
  OBVIOUS
<1>1. PICK p \in first + 1..n - 1 : DeleteAt(p, s)
  BY DEF FromRows
<1>2. Len(rows) \in Nat
  BY DEF WritersOK, WriterTypes
<1>3. p \in 1..Len(rows) /\ n \in p + 1..Len(rows)
  BY <1>2
<1> QED
  BY <1>1, <1>3 DEF WritersOK, RowsGrow

LEMMA TraceStep ==
    ASSUME WritersOK, NEW first \in Nat, NEW n \in first + 1..Len(rows), NEW known \in Cursors,
           NEW acc \in Works, NEW new \in Works, WorkEffect(new, acc, n, known),
           Traced(acc, first, n - 1, known)
    PROVE  Traced(new, first, n, known)
<1>0. /\ Len(rows) \in Nat /\ n \in Nat /\ n > first /\ n \in 1..Len(rows) /\ n \in 0..Len(rows)
      /\ n # 0 /\ n \in first + 1..n /\ WriterTypes
  BY DEF WritersOK, WriterTypes
<1>1. /\ M(n - 1) \in Amounts /\ rows[n] \in Events /\ Effect(M(n), M(n - 1), rows[n])
  BY <1>0, MSteps
<1>2. /\ rows[n].kind \in {"upsert", "delete", "reset", "snapshot-start", "snapshot-end"}
      /\ rows[n].kind = "upsert" => rows[n] \in UpsertRows /\ rows[n].stream \in Sources
      /\ rows[n].kind = "delete" => rows[n].stream \in Sources
  BY <1>1, EventMeans
<1>3. ASSUME rows[n].kind # "reset"
      PROVE  /\ ResetIn(first, n) <=> ResetIn(first, n - 1)
             /\ new.reset <=> ResetIn(first, n)
             /\ new.reset = acc.reset
  <2>1. ResetIn(first, n) <=> ResetIn(first, n - 1)
    BY <1>0, <1>3 DEF ResetIn
  <2>2. new.reset = acc.reset
    BY <1>3 DEF WorkEffect
  <2> QED
    BY <2>1, <2>2 DEF Traced
<1>4. ASSUME NEW item \in Flushed(acc), rows[n].kind # "reset"
      PROVE  /\ FromRows(item, first, n)
             /\ item.tag = "dirty" => /\ item.from = IF new.reset THEN Unread ELSE known[item.stream]
                                      /\ Wants(item, item.from)
             /\ item.tag = "reset" => new.reset
  <2>1. FromRows(item, first, n)
    BY <1>0, FromMore DEF Traced
  <2> QED
    BY <1>3, <1>4, <2>1 DEF Traced
<1>5. ASSUME rows[n].kind # "reset", rows[n].kind # "snapshot-end", new.items = acc.items
      PROVE  SnapshotsKept(new.items, first, n)
  <2> SUFFICES ASSUME ~ResetIn(first, n), NEW p \in first + 1..n, EndAt(p)
               PROVE  SnapshotItem(p, M(p - 1).snapshot) \in new.items
    BY DEF SnapshotsKept
  <2>1. ~ResetIn(first, n - 1)
    BY <1>3, <1>5
  <2>2. p # n
    BY <1>5 DEF EndAt
  <2>3. p \in first + 1..n - 1
    BY <1>0, <2>2
  <2>4. SnapshotItem(p, M(p - 1).snapshot) \in acc.items
    BY <2>1, <2>3 DEF Traced, SnapshotsKept
  <2> QED
    BY <1>5, <2>4
<1>6. CASE rows[n].kind = "reset"
  <2>1. /\ new.items = {ResetItem(n)} /\ new.pending = {} /\ new.reset = TRUE /\ new.open = None
    BY <1>6 DEF WorkEffect
  <2>2. M(n).snapshot = None
    BY <1>1, <1>6 DEF Effect, NoRows
  <2>3. ResetIn(first, n)
    BY <1>0, <1>6 DEF ResetIn
  <2>4. FromRows(ResetItem(n), first, n) /\ ResetItem(n).tag = "reset"
    BY <1>0, <1>6 DEF FromRows, ResetItem
  <2> QED
    BY <2>1, <2>2, <2>3, <2>4 DEF Traced, Flushed, SnapshotsKept
<1>7. CASE rows[n].kind = "snapshot-start"
  <2>1. new.items = acc.items /\ new.pending = acc.pending /\ new.open = {}
    BY <1>7 DEF WorkEffect
  <2>2. M(n).snapshot = {}
    BY <1>1, <1>7 DEF Effect
  <2>3. Flushed(new) = Flushed(acc)
    BY <2>1 DEF Flushed
  <2>4. \A item \in new.pending : item.tag \in {"dirty", "removed"}
    BY <2>1 DEF Traced
  <2> QED
    BY <1>3, <1>4, <1>5, <1>7, <2>1, <2>2, <2>3, <2>4 DEF Traced
<1>8. CASE rows[n].kind = "snapshot-end"
  <2>1. M(n - 1).snapshot # None /\ acc.open = M(n - 1).snapshot
    BY <1>0, <1>8 DEF WritersOK, SnapshotsName, EndAt, Traced
  <2> DEFINE added == SnapshotItem(n, M(n - 1).snapshot)
  <2>2. /\ new.open = None /\ new.pending = {}
        /\ new.items = Flushed(acc) \cup {added}
    BY <1>8, <2>1 DEF WorkEffect, Flushed
  <2>3. M(n).snapshot = None
    BY <1>1, <1>8 DEF Effect
  <2>4. FromRows(added, first, n) /\ added.tag = "snapshot"
    <3>1. added.tag = "snapshot"
      BY DEF SnapshotItem
    <3> HIDE DEF added
    <3>2. EndAt(n) /\ added = SnapshotItem(n, M(n - 1).snapshot)
      BY <1>8 DEF EndAt, added
    <3> QED
      BY <1>0, <3>1, <3>2 DEF FromRows
  <2>5. SnapshotsKept(new.items, first, n)
    <3> SUFFICES ASSUME ~ResetIn(first, n), NEW p \in first + 1..n, EndAt(p)
                 PROVE  SnapshotItem(p, M(p - 1).snapshot) \in new.items
      BY DEF SnapshotsKept
    <3>1. CASE p = n
      BY <2>2, <3>1
    <3>2. CASE p # n
      <4>1. p \in first + 1..n - 1 /\ ~ResetIn(first, n - 1)
        BY <1>0, <1>3, <1>8, <3>2
      <4>2. SnapshotItem(p, M(p - 1).snapshot) \in acc.items
        BY <4>1 DEF Traced, SnapshotsKept
      <4> QED
        BY <2>2, <4>2 DEF Flushed
    <3> QED
      BY <3>1, <3>2
  <2>6. Flushed(new) = Flushed(acc) \cup {added}
    BY <2>2 DEF Flushed
  <2> HIDE DEF added
  <2>7. \A item \in Flushed(new) :
          /\ FromRows(item, first, n)
          /\ item.tag = "dirty" => /\ item.from = IF new.reset THEN Unread ELSE known[item.stream]
                                   /\ Wants(item, item.from)
          /\ item.tag = "reset" => new.reset
    BY <1>4, <1>8, <2>4, <2>6
  <2> QED
    BY <1>3, <1>8, <2>2, <2>3, <2>5, <2>7 DEF Traced
<1>9. CASE rows[n].kind = "upsert"
  <2> DEFINE s == rows[n].stream
             base == Base(acc, s, known)
             added == DirtyItem(n, rows[n], base)
  <2>1. ~WasRemoved(acc, s)
    <3> SUFFICES ASSUME NEW item \in acc.pending, item.stream = s, item.tag = "removed"
                 PROVE  FALSE
      BY DEF WasRemoved
    <3>1. FromRows(item, first, n - 1)
      BY DEF Traced, Flushed
    <3>2. s \in Sources /\ UpsertAt(n, s)
      BY <1>2, <1>9 DEF UpsertAt
    <3> QED
      BY <3>1, <3>2, NotRemoved
  <2>2. base = IF new.reset THEN Unread ELSE known[s]
    BY <1>3, <1>9, <2>1 DEF Base
  <2>3. /\ new.items = acc.items
        /\ new.pending = Others(acc, s) \cup (IF Wants(rows[n], base) THEN {added} ELSE {})
        /\ new.open = Noted(acc.open, acc.open \cup {s})
    BY <1>9, <2>1 DEF WorkEffect
  <2>4. M(n).snapshot = new.open
    BY <1>1, <1>9, <2>3 DEF Effect, Traced
  <2>5. /\ added.tag = "dirty" /\ added.stream = s /\ added.from = base
        /\ added.offset = rows[n].offset /\ added.closed = rows[n].closed
    BY DEF DirtyItem
  <2>6. FromRows(added, first, n)
    <3>1. s \in Sources /\ UpsertAt(n, s) /\ base \in Nat \cup {Unread}
      BY <1>2, <1>9, <2>2 DEF UpsertAt, Cursors
    <3>2. added = DirtyItem(n, rows[n], added.from)
      BY <2>5
    <3> HIDE DEF added, s, base
    <3> QED
      BY <1>0, <2>5, <3>1, <3>2 DEF FromRows
  <2>7. ASSUME NEW item \in Flushed(new)
        PROVE  item \in Flushed(acc) \/ (item = added /\ Wants(rows[n], base))
    BY <2>3 DEF Flushed, Others
  <2> HIDE DEF added, base
  <2>8. \A item \in new.pending : item.tag \in {"dirty", "removed"}
    BY <2>3, <2>5 DEF Traced, Others
  <2>9. ASSUME Wants(rows[n], base) PROVE Wants(added, added.from)
    BY <2>5, <2>9 DEF Wants
  <2>10. \A item \in Flushed(new) :
           /\ FromRows(item, first, n)
           /\ item.tag = "dirty" => /\ item.from = IF new.reset THEN Unread ELSE known[item.stream]
                                    /\ Wants(item, item.from)
           /\ item.tag = "reset" => new.reset
    BY <1>4, <1>9, <2>2, <2>5, <2>6, <2>7, <2>9
  <2>11. SnapshotsKept(new.items, first, n)
    BY <1>5, <1>9, <2>3
  <2> QED
    BY <1>3, <1>9, <2>4, <2>8, <2>10, <2>11 DEF Traced
<1>10. CASE rows[n].kind = "delete"
  <2> DEFINE s == rows[n].stream
             added == RemovedItem(n, s)
  <2>1. /\ new.items = acc.items /\ new.pending = Others(acc, s) \cup {added}
        /\ new.open = Noted(acc.open, acc.open \ {s})
    BY <1>10 DEF WorkEffect
  <2>2. M(n).snapshot = new.open
    BY <1>1, <1>10, <2>1 DEF Effect, Traced
  <2>3. added.tag = "removed" /\ added.stream = s
    BY DEF RemovedItem
  <2>4. FromRows(added, first, n)
    <3>1. s \in Sources /\ DeleteAt(n, s)
      BY <1>2, <1>10 DEF DeleteAt
    <3>2. added = RemovedItem(n, added.stream)
      BY <2>3
    <3> HIDE DEF added, s
    <3> QED
      BY <1>0, <2>3, <3>1, <3>2 DEF FromRows
  <2>5. ASSUME NEW item \in Flushed(new)
        PROVE  item \in Flushed(acc) \/ item = added
    BY <2>1 DEF Flushed, Others
  <2> HIDE DEF added
  <2>6. \A item \in new.pending : item.tag \in {"dirty", "removed"}
    BY <2>1, <2>3 DEF Traced, Others
  <2>7. \A item \in Flushed(new) :
          /\ FromRows(item, first, n)
          /\ item.tag = "dirty" => /\ item.from = IF new.reset THEN Unread ELSE known[item.stream]
                                   /\ Wants(item, item.from)
          /\ item.tag = "reset" => new.reset
    BY <1>4, <1>10, <2>3, <2>4, <2>5
  <2>8. SnapshotsKept(new.items, first, n)
    BY <1>5, <1>10, <2>1
  <2> QED
    BY <1>3, <1>10, <2>2, <2>6, <2>7, <2>8 DEF Traced
<1> QED
  BY <1>2, <1>6, <1>7, <1>8, <1>9, <1>10

-----------------------------------------------------------------------------
(***************************************************************************)
(* The items do all that is due.                                           *)
(***************************************************************************)
LEMMA OrdersOf ==
    ASSUME NEW a \in Nat, NEW b \in Nat, NEW item, FromRows(item, a, b)
    PROVE  /\ item.order \in Nat /\ 2 * a < item.order /\ item.order < 2 * (b + 1)
           /\ item.tag \in {"dirty", "removed", "reset", "snapshot"}
<1>1. PICK p \in a + 1..b : item.order = 2 * p \/ item.order = 2 * p + 1
  BY DEF FromRows, DirtyItem, RemovedItem, ResetItem, SnapshotItem
<1>2. p \in Nat /\ a < p /\ p < b + 1
  OBVIOUS
<1>3. item.tag \in {"dirty", "removed", "reset", "snapshot"}
  BY DEF FromRows
<1> QED
  BY <1>1, <1>2, <1>3

\* What is done for a stream is told by the items about it.
LEMMA OnlyWhatConcerns ==
    ASSUME NEW A, NEW B, NEW s,
           \A item \in A : Concerns(item, s) => item \in B,
           \A item \in B : Concerns(item, s) => item \in A
    PROVE  /\ DropsAll(A, s) => DropsAll(B, s)
           /\ \A n, m : M(n).rows[s] = M(m).rows[s] /\ ReadsAll(A, m, s) => ReadsAll(B, n, s)
BY DEF DropsAll, ReadsAll, Concerns

\* A snapshot does not drop a stream that has a cursor and gets rows after it.
LEMMA NotDropped ==
    ASSUME WritersOK, SavedTypes, Covered, ~ResetIn(wakeCursor, Reach),
           NEW s \in Sources, cursors[s] # Unread,
           NEW q \in wakeCursor + 1..Reach, EndAt(q), s \notin M(q - 1).snapshot,
           NEW p \in q + 1..Len(rows), UpsertAt(p, s)
    PROVE  FALSE
<1>0. /\ Len(rows) \in Nat /\ limit \in Nat /\ wakeCursor \in 0..Len(rows) /\ Reach <= Len(rows)
      /\ Reach \in Nat
  BY DEF WritersOK, WriterTypes, SavedTypes, Reach
<1>1. \E u \in 1..q - 1 : UpsertAt(u, s)
  <2>1. CASE Live(wakeCursor, s)
    <3>1. PICK u \in 1..wakeCursor : UpsertAt(u, s)
      BY <1>0, <2>1, LivesByARow DEF WritersOK
    <3>2. u \in 1..q - 1
      BY <1>0
    <3> QED
      BY <3>1, <3>2
  <2>2. CASE ~Live(wakeCursor, s)
    <3>1. PICK u \in wakeCursor + 1..Reach :
            UpsertAt(u, s) /\ \A e \in wakeCursor + 1..u - 1 : ~EndAt(e)
      BY <2>2 DEF Covered
    <3>2. u # q
      BY <3>1 DEF UpsertAt, EndAt
    <3>3. ~(q < u)
      BY <1>0, <3>1
    <3>4. u \in 1..q - 1
      BY <1>0, <3>2, <3>3
    <3> QED
      BY <3>1, <3>4
  <2> QED
    BY <2>1, <2>2
<1>2. UpsertIn(0, q - 1, s)
  BY <1>1 DEF UpsertIn
<1>3. q \in 1..Len(rows)
  BY <1>0
<1>4. DeleteIn(0, q - 1, s)
  BY <1>2, <1>3 DEF WritersOK, SnapshotsName
<1>5. PICK d \in 0 + 1..q - 1 : DeleteAt(d, s)
  BY <1>4 DEF DeleteIn
<1>6. d \in 1..Len(rows) /\ p \in d + 1..Len(rows)
  BY <1>0
<1> QED
  BY <1>5, <1>6 DEF WritersOK, RowsGrow

\* Up to row n of the batch all is due that is not undone by a row to come.
Settled(acc, n, last) ==
  ~ResetIn(n, last) =>
    \A s \in Sources :
      IF Live(n, s) THEN ReadsAll(Flushed(acc), n, s) \/ DeleteIn(n, last, s)
      ELSE DropsAll(Flushed(acc), s) \/ UpsertIn(n, last, s)

LEMMA SettleStep ==
    ASSUME WritersOK, SavedTypes, Covered, NEW n \in wakeCursor + 1..Reach,
           NEW acc \in Works, NEW new \in Works, WorkEffect(new, acc, n, cursors),
           Traced(acc, wakeCursor, n - 1, cursors), Traced(new, wakeCursor, n, cursors),
           Settled(acc, n - 1, Reach)
    PROVE  Settled(new, n, Reach)
<1>0. /\ Len(rows) \in Nat /\ wakeCursor \in Nat /\ Reach \in Nat /\ Reach <= Len(rows)
      /\ n \in Nat /\ n \in 1..Len(rows) /\ n \in 0..Len(rows) /\ n # 0 /\ WriterTypes
      /\ n \in wakeCursor + 1..Len(rows) /\ wakeCursor < n /\ n <= Reach
  BY DEF WritersOK, WriterTypes, SavedTypes, Reach
<1>1. /\ M(n - 1) \in Amounts /\ rows[n] \in Events /\ Effect(M(n), M(n - 1), rows[n])
  BY <1>0, MSteps
<1>2. /\ rows[n].kind \in {"upsert", "delete", "reset", "snapshot-start", "snapshot-end"}
      /\ rows[n].kind = "upsert" => /\ rows[n].stream \in Sources /\ rows[n].offset \in Nat
                                    /\ rows[n].closed \in BOOLEAN
      /\ rows[n].kind = "delete" => rows[n].stream \in Sources
  BY <1>1, EventMeans
<1> SUFFICES ASSUME ~ResetIn(n, Reach), NEW s \in Sources
             PROVE  IF Live(n, s) THEN ReadsAll(Flushed(new), n, s) \/ DeleteIn(n, Reach, s)
                    ELSE DropsAll(Flushed(new), s) \/ UpsertIn(n, Reach, s)
  BY DEF Settled
<1>3. ASSUME NEW item \in Flushed(acc)
      PROVE  item.order \in Nat /\ item.order < 2 * n
  <2>1. FromRows(item, wakeCursor, n - 1)
    BY DEF Traced
  <2>2. n - 1 \in Nat /\ (n - 1) + 1 = n
    BY <1>0
  <2>3. item.order \in Nat /\ item.order < 2 * ((n - 1) + 1)
    BY <1>0, <2>1, <2>2, OrdersOf
  <2> QED
    BY <2>2, <2>3
<1>4. ASSUME rows[n].kind # "reset"
      PROVE  IF Live(n - 1, s) THEN ReadsAll(Flushed(acc), n - 1, s) \/ DeleteIn(n - 1, Reach, s)
             ELSE DropsAll(Flushed(acc), s) \/ UpsertIn(n - 1, Reach, s)
  <2>1. ~ResetIn(n - 1, Reach)
    BY <1>0, <1>4 DEF ResetIn
  <2> QED
    BY <2>1 DEF Settled
\* A row that is not about s, and nothing new about it.
<1>5. ASSUME rows[n].kind # "reset", ~UpsertAt(n, s), ~DeleteAt(n, s),
             M(n).rows[s] = M(n - 1).rows[s],
             \A item \in Flushed(new) : Concerns(item, s) => item \in Flushed(acc),
             \A item \in Flushed(acc) : Concerns(item, s) => item \in Flushed(new)
      PROVE  IF Live(n, s) THEN ReadsAll(Flushed(new), n, s) \/ DeleteIn(n, Reach, s)
             ELSE DropsAll(Flushed(new), s) \/ UpsertIn(n, Reach, s)
  <2>1. Live(n, s) <=> Live(n - 1, s)
    BY <1>5 DEF Live
  <2>2. DeleteIn(n - 1, Reach, s) => DeleteIn(n, Reach, s)
    BY <1>0, <1>5 DEF DeleteIn
  <2>3. UpsertIn(n - 1, Reach, s) => UpsertIn(n, Reach, s)
    BY <1>0, <1>5 DEF UpsertIn
  <2>4. ReadsAll(Flushed(acc), n - 1, s) => ReadsAll(Flushed(new), n, s)
    BY <1>5, OnlyWhatConcerns
  <2>5. DropsAll(Flushed(acc), s) => DropsAll(Flushed(new), s)
    BY <1>5, OnlyWhatConcerns
  <2> QED
    BY <1>4, <1>5, <2>1, <2>2, <2>3, <2>4, <2>5
<1>6. CASE rows[n].kind = "reset"
  <2>1. ~Live(n, s)
    BY <1>1, <1>6, NothingLives DEF Effect, Live
  <2>2. Flushed(new) = {ResetItem(n)}
    BY <1>6 DEF WorkEffect, Flushed
  <2>3. Drops(ResetItem(n), s) /\ ~Asks(ResetItem(n), s)
    BY DEF ResetItem, Drops, Asks
  <2> QED
    BY <2>1, <2>2, <2>3 DEF DropsAll
<1>7. CASE rows[n].kind = "snapshot-start"
  <2>1. Flushed(new) = Flushed(acc) /\ M(n).rows[s] = M(n - 1).rows[s]
    BY <1>1, <1>7 DEF WorkEffect, Flushed, Effect
  <2> QED
    BY <1>5, <1>7, <2>1 DEF UpsertAt, DeleteAt
<1>8. CASE rows[n].kind = "snapshot-end"
  <2>1. M(n - 1).snapshot # None /\ acc.open = M(n - 1).snapshot
    BY <1>0, <1>8 DEF WritersOK, SnapshotsName, EndAt, Traced
  <2> DEFINE added == SnapshotItem(n, M(n - 1).snapshot)
  <2>2. Flushed(new) = Flushed(acc) \cup {added}
    BY <1>8, <2>1 DEF WorkEffect, Flushed
  <2>3. added.tag = "snapshot" /\ added.streams = M(n - 1).snapshot /\ added.order = 2 * n
    BY DEF SnapshotItem
  <2>4. M(n).rows[s] = IF s \in M(n - 1).snapshot THEN M(n - 1).rows[s] ELSE None
    BY <1>1, <1>8, <2>1 DEF Effect
  <2> HIDE DEF added
  <2>5. CASE s \in M(n - 1).snapshot
    <3>1. ~Concerns(added, s)
      BY <2>3, <2>5 DEF Concerns, Asks, Drops
    <3> QED
      BY <1>5, <1>8, <2>2, <2>4, <2>5, <3>1 DEF UpsertAt, DeleteAt
  <2>6. CASE s \notin M(n - 1).snapshot
    <3>1. ~Live(n, s)
      BY <2>4, <2>6 DEF Live
    <3>2. Drops(added, s) /\ ~Asks(added, s) /\ added \in Flushed(new)
      BY <2>2, <2>3, <2>6 DEF Drops, Asks
    <3>3. \A i \in Flushed(new) : Asks(i, s) => i.order < added.order
      BY <1>3, <2>2, <2>3, <3>2
    <3> QED
      BY <3>1, <3>2, <3>3 DEF DropsAll
  <2> QED
    BY <2>5, <2>6
<1>9. CASE rows[n].kind = "upsert"
  <2> DEFINE t == rows[n].stream
             base == Base(acc, t, cursors)
             added == DirtyItem(n, rows[n], base)
  <2>1. /\ new.items = acc.items /\ new.reset = acc.reset
        /\ new.pending = Others(acc, t)
             \cup (IF WasRemoved(acc, t) THEN {RemovedItem(n, t)} ELSE {})
             \cup (IF Wants(rows[n], base) THEN {added} ELSE {})
    BY <1>9 DEF WorkEffect
  <2>2. /\ added.tag = "dirty" /\ added.stream = t /\ added.order = 2 * n + 1 /\ added.from = base
        /\ added.offset = rows[n].offset /\ added.closed = rows[n].closed
    BY DEF DirtyItem
  <2>3. RemovedItem(n, t).tag = "removed" /\ RemovedItem(n, t).stream = t
    BY DEF RemovedItem
  <2>4. M(n).rows[s] = IF s = t THEN rows[n] ELSE M(n - 1).rows[s]
    BY <1>1, <1>9 DEF Effect
  <2>5. CASE s # t
    <3>1. ~UpsertAt(n, s) /\ ~DeleteAt(n, s)
      BY <1>9, <2>5 DEF UpsertAt, DeleteAt
    <3>2. ~Concerns(added, s) /\ ~Concerns(RemovedItem(n, t), s)
      BY <2>2, <2>3, <2>5 DEF Concerns, Asks, Drops
    <3>3. ASSUME NEW item \in acc.pending, Concerns(item, s) PROVE item \in Others(acc, t)
      <4>1. item.tag \in {"dirty", "removed"}
        BY DEF Traced
      <4>2. item.stream = s
        BY <3>3, <4>1 DEF Concerns, Asks, Drops
      <4> QED
        BY <2>5, <4>2 DEF Others
    <3> HIDE DEF added, base, t
    <3>4. \A item \in Flushed(new) : Concerns(item, s) => item \in Flushed(acc)
      BY <2>1, <3>2 DEF Flushed, Others
    <3>5. \A item \in Flushed(acc) : Concerns(item, s) => item \in Flushed(new)
      BY <2>1, <3>3 DEF Flushed
    <3> QED
      BY <1>5, <1>9, <2>4, <2>5, <3>1, <3>4, <3>5
  <2>6. CASE s = t
    <3>1. UpsertAt(n, s) /\ M(n).rows[s] = rows[n] /\ rows[n] # None
      <4>1. rows[n] \in UpsertRows
        BY <1>1, <1>9, EventMeans
      <4> QED
        BY <1>9, <2>4, <2>6, <4>1, NoneIsNone DEF UpsertAt
    <3>2. Live(n, s)
      BY <3>1 DEF Live
    <3>3. ASSUME NEW item \in Flushed(acc), item.tag = "removed" PROVE item.stream # s
      <4>1. FromRows(item, wakeCursor, n - 1)
        BY DEF Traced
      <4> QED
        BY <1>0, <3>1, <3>3, <4>1, NotRemoved
    <3>4. ~WasRemoved(acc, t)
      BY <2>6, <3>3 DEF WasRemoved, Flushed
    <3>5. base = IF acc.reset THEN Unread ELSE cursors[s]
      BY <2>6, <3>4 DEF Base
    <3> HIDE DEF base, added, t
    <3>6. ASSUME NEW item \in Flushed(new)
          PROVE  \/ item \in Flushed(acc)
                 \/ item = added /\ Wants(rows[n], base)
      BY <2>1, <3>4 DEF Flushed, Others
    <3>7. CASE Wants(rows[n], base)
      <4>1. added \in Flushed(new) /\ Asks(added, s)
        BY <2>1, <2>2, <2>6, <3>7 DEF Flushed, Asks
      <4>2. \A item \in Flushed(new) : item.order <= added.order
        <5> SUFFICES ASSUME NEW item \in Flushed(new) PROVE item.order <= added.order
          OBVIOUS
        <5>1. added.order \in Nat
          BY <1>0, <2>2
        <5>2. CASE item \in Flushed(acc)
          BY <1>0, <1>3, <2>2, <5>2
        <5> QED
          BY <3>6, <5>1, <5>2
      <4>3. ReadsAll(Flushed(new), n, s)
        BY <2>2, <3>1, <4>1, <4>2 DEF ReadsAll
      <4> QED
        BY <3>2, <4>3
    <3>8. CASE ~Wants(rows[n], base)
      <4>1. /\ ~acc.reset /\ base = cursors[s] /\ cursors[s] # Unread
            /\ cursors[s] \in Nat /\ rows[n].offset <= cursors[s] /\ ~rows[n].closed
        <5>1. rows[n].offset \in Nat /\ cursors[s] \in Nat \cup {Unread}
          BY <1>2, <1>9 DEF SavedTypes
        <5> QED
          BY <3>5, <3>8, <5>1 DEF Wants, Unread
      <4>2. ~ResetIn(wakeCursor, Reach)
        <5>1. ~ResetIn(wakeCursor, n)
          BY <2>1, <4>1 DEF Traced
        <5> QED
          BY <1>0, <5>1 DEF ResetIn
      <4>3. ASSUME NEW item \in Flushed(acc) PROVE ~Concerns(item, s)
        <5>1. /\ FromRows(item, wakeCursor, n - 1)
              /\ item.tag = "dirty" => item.from = cursors[item.stream] /\ Wants(item, item.from)
              /\ item.tag # "reset"
          BY <4>1 DEF Traced
        <5>2. ~Asks(item, s)
          <6> SUFFICES ASSUME item.tag = "dirty", item.stream = s PROVE FALSE
            BY DEF Asks
          <6>1. PICK p \in wakeCursor + 1..n - 1 :
                  UpsertAt(p, s) /\ item = DirtyItem(p, rows[p], item.from)
            BY <5>1 DEF FromRows
          <6>2. item.offset = rows[p].offset /\ item.closed = rows[p].closed
            BY <6>1 DEF DirtyItem
          <6>3. p \in 1..Len(rows) /\ n \in p + 1..Len(rows)
            BY <1>0
          <6>4. rows[p].offset <= rows[n].offset /\ (rows[p].closed => rows[n].closed)
            BY <3>1, <6>1, <6>3 DEF WritersOK, RowsGrow
          <6>5. rows[p].offset \in Nat /\ rows[n].offset \in Nat
            BY <1>0, <1>2, <1>9, <6>1, <6>3, RowsMean, EventMeans DEF UpsertAt
          <6> QED
            BY <4>1, <5>1, <6>2, <6>4, <6>5 DEF Wants
        <5>3. ~Drops(item, s)
          <6>1. CASE item.tag = "snapshot"
            <7>1. PICK q \in wakeCursor + 1..n - 1 :
                    EndAt(q) /\ item = SnapshotItem(q, M(q - 1).snapshot)
              BY <5>1, <6>1 DEF FromRows
            <7>2. item.streams = M(q - 1).snapshot
              BY <7>1 DEF SnapshotItem
            <7>3. q \in wakeCursor + 1..Reach /\ n \in q + 1..Len(rows)
              BY <1>0
            <7>4. s \in M(q - 1).snapshot
              BY <3>1, <4>1, <4>2, <7>1, <7>3, NotDropped
            <7> QED
              BY <6>1, <7>2, <7>4 DEF Drops
          <6> QED
            BY <3>3, <5>1, <6>1 DEF Drops
        <5> QED
          BY <5>2, <5>3 DEF Concerns
      <4>4. ReadTo(s, M(n).rows[s])
        <5>1. cursors[s] >= rows[n].offset
          BY <1>2, <1>9, <4>1
        <5> QED
          BY <3>1, <4>1, <5>1 DEF ReadTo
      <4>5. ReadsAll(Flushed(new), n, s)
        BY <3>6, <3>8, <4>3, <4>4 DEF ReadsAll
      <4> QED
        BY <3>2, <4>5
    <3> QED
      BY <3>7, <3>8
  <2> QED
    BY <2>5, <2>6
<1>10. CASE rows[n].kind = "delete"
  <2> DEFINE t == rows[n].stream
             added == RemovedItem(n, t)
  <2>1. new.items = acc.items /\ new.pending = Others(acc, t) \cup {added}
    BY <1>10 DEF WorkEffect
  <2>2. added.tag = "removed" /\ added.stream = t /\ added.order = 2 * n
    BY DEF RemovedItem
  <2>3. M(n).rows[s] = IF s = t THEN None ELSE M(n - 1).rows[s]
    BY <1>1, <1>10 DEF Effect
  <2> HIDE DEF added, t
  <2>4. CASE s # t
    <3>1. ~UpsertAt(n, s) /\ ~DeleteAt(n, s)
      BY <1>10, <2>4 DEF UpsertAt, DeleteAt, t
    <3>2. ~Concerns(added, s)
      BY <2>2, <2>4 DEF Concerns, Asks, Drops
    <3>3. ASSUME NEW item \in acc.pending, Concerns(item, s) PROVE item \in Others(acc, t)
      <4>1. item.tag \in {"dirty", "removed"}
        BY DEF Traced
      <4>2. item.stream = s
        BY <3>3, <4>1 DEF Concerns, Asks, Drops
      <4> QED
        BY <2>4, <4>2 DEF Others
    <3>4. \A item \in Flushed(new) : Concerns(item, s) => item \in Flushed(acc)
      BY <2>1, <3>2 DEF Flushed, Others
    <3>5. \A item \in Flushed(acc) : Concerns(item, s) => item \in Flushed(new)
      BY <2>1, <3>3 DEF Flushed
    <3> QED
      BY <1>5, <1>10, <2>3, <2>4, <3>1, <3>4, <3>5
  <2>5. CASE s = t
    <3>1. ~Live(n, s)
      BY <2>3, <2>5 DEF Live
    <3>2. added \in Flushed(new) /\ Drops(added, s) /\ ~Asks(added, s)
      BY <2>1, <2>2, <2>5 DEF Flushed, Drops, Asks
    <3>3. \A i \in Flushed(new) : Asks(i, s) => i.order < added.order
      <4>1. \A i \in Flushed(new) : i \in Flushed(acc) \/ i = added
        BY <2>1 DEF Flushed, Others
      <4> QED
        BY <1>3, <2>2, <3>2, <4>1
    <3> QED
      BY <3>1, <3>2, <3>3 DEF DropsAll
  <2> QED
    BY <2>4, <2>5
<1> QED
  BY <1>2, <1>6, <1>7, <1>8, <1>9, <1>10

LEMMA SettledAtFirst ==
    ASSUME WritersOK, SavedTypes, Covered, NEW snapshot
    PROVE  Settled(NoWork(snapshot), wakeCursor, Reach)
<1> SUFFICES ASSUME ~ResetIn(wakeCursor, Reach), NEW s \in Sources
             PROVE  IF Live(wakeCursor, s)
                    THEN \/ ReadsAll(Flushed(NoWork(snapshot)), wakeCursor, s)
                         \/ DeleteIn(wakeCursor, Reach, s)
                    ELSE \/ DropsAll(Flushed(NoWork(snapshot)), s)
                         \/ UpsertIn(wakeCursor, Reach, s)
  BY DEF Settled
<1>1. Flushed(NoWork(snapshot)) = {}
  BY DEF Flushed, NoWork
<1>2. CASE Live(wakeCursor, s)
  BY <1>1, <1>2 DEF Covered, ReadsAll
<1>3. CASE ~Live(wakeCursor, s)
  BY <1>1, <1>3 DEF Covered, DropsAll, UpsertIn
<1> QED
  BY <1>2, <1>3

\* What a batch asks for, from the saved cursors on.
LEMMA Planned ==
    ASSUME WritersOK, SavedTypes, Covered, NEW batch,
           batch = WakeActions(wakeCursor, Reach, cursors, M(wakeCursor).snapshot)
    PROVE  /\ batch.snapshot = M(Reach).snapshot
           /\ \A item \in batch.items : FromRows(item, wakeCursor, Reach)
           /\ SnapshotsKept(batch.items, wakeCursor, Reach)
           /\ SameFrom(batch.items)
           /\ ReadsOn(batch.items)
           /\ \A s \in Sources : IF Live(Reach, s) THEN ReadsAll(batch.items, Reach, s)
                                 ELSE DropsAll(batch.items, s)
<1>0. /\ Len(rows) \in Nat /\ wakeCursor \in Nat /\ Reach \in wakeCursor..Len(rows)
      /\ Reach \in Nat /\ WriterTypes /\ wakeCursor \in 0..Len(rows) /\ cursors \in Cursors
  BY DEF WritersOK, WriterTypes, SavedTypes, Reach, Cursors
<1>1. M(wakeCursor).snapshot \in OpenSnapshots
  BY <1>0, MSteps DEF Amounts, OpenSnapshots
<1>2. PICK f \in [wakeCursor..Reach -> Works] :
        /\ f[wakeCursor] = NoWork(M(wakeCursor).snapshot)
        /\ \A n \in wakeCursor + 1..Reach : WorkEffect(f[n], f[n - 1], n, cursors)
        /\ Worked(wakeCursor, Reach, cursors, M(wakeCursor).snapshot) = f[Reach]
  <2>1. PICK f \in [wakeCursor..Reach -> Works] :
          WorksUp(f, wakeCursor, Reach, cursors, M(wakeCursor).snapshot)
    BY <1>0, <1>1, WorkedSteps
  <2> QED
    BY <2>1 DEF WorksUp
<1> DEFINE Good == {n \in wakeCursor..Reach :
                      Traced(f[n], wakeCursor, n, cursors) /\ Settled(f[n], n, Reach)}
<1>3. wakeCursor \in Good
  <2>1. Settled(f[wakeCursor], wakeCursor, Reach)
    BY <1>2, SettledAtFirst
  <2>2. Traced(f[wakeCursor], wakeCursor, wakeCursor, cursors)
    <3>1. wakeCursor + 1..wakeCursor = {}
      BY <1>0
    <3> QED
      BY <1>2, <3>1 DEF Traced, NoWork, ResetIn, Flushed, SnapshotsKept
  <2>3. wakeCursor \in wakeCursor..Reach
    BY <1>0
  <2> QED
    BY <2>1, <2>2, <2>3
<1>4. \A n \in wakeCursor + 1..Reach : n - 1 \in Good => n \in Good
  <2> SUFFICES ASSUME NEW n \in wakeCursor + 1..Reach, n - 1 \in Good PROVE n \in Good
    OBVIOUS
  <2>1. /\ n \in wakeCursor..Reach /\ n - 1 \in wakeCursor..Reach
        /\ n \in wakeCursor + 1..Len(rows)
    BY <1>0
  <2>2. f[n] \in Works /\ f[n - 1] \in Works /\ WorkEffect(f[n], f[n - 1], n, cursors)
    BY <1>2, <2>1
  <2>3. Traced(f[n - 1], wakeCursor, n - 1, cursors) /\ Settled(f[n - 1], n - 1, Reach)
    OBVIOUS
  <2> HIDE DEF Good
  <2>4. Traced(f[n], wakeCursor, n, cursors)
    BY <1>0, <2>1, <2>2, <2>3, TraceStep
  <2>5. Settled(f[n], n, Reach)
    BY <2>2, <2>3, <2>4, SettleStep
  <2> QED
    BY <2>1, <2>4, <2>5 DEF Good
<1>5. \A n \in wakeCursor..Reach : n \in Good
  <2> HIDE DEF Good
  <2>1. wakeCursor <= Reach
    BY <1>0
  <2> QED
    BY <1>0, <1>3, <1>4, <2>1, StepByStep
<1> DEFINE acc == f[Reach]
<1>6. Traced(acc, wakeCursor, Reach, cursors) /\ Settled(acc, Reach, Reach) /\ acc \in Works
  <2>1. Reach \in wakeCursor..Reach
    BY <1>0
  <2> QED
    BY <1>2, <1>5, <2>1
<1>7. batch.items = Flushed(acc) /\ batch.snapshot = acc.open
  BY <1>2 DEF WakeActions
<1> HIDE DEF acc, Good
<1>8. Reach + 1..Reach = {}
  BY <1>0
<1>9. batch.snapshot = M(Reach).snapshot
  BY <1>6, <1>7 DEF Traced
<1>10. \A item \in batch.items : FromRows(item, wakeCursor, Reach)
  BY <1>6, <1>7 DEF Traced
<1>11. SnapshotsKept(batch.items, wakeCursor, Reach)
  BY <1>6, <1>7 DEF Traced, SnapshotsKept, Flushed
<1>12. SameFrom(batch.items)
  BY <1>6, <1>7 DEF Traced, SameFrom
<1>13. \A s \in Sources : IF Live(Reach, s) THEN ReadsAll(batch.items, Reach, s)
                          ELSE DropsAll(batch.items, s)
  BY <1>6, <1>7, <1>8 DEF Settled, ResetIn, DeleteIn, UpsertIn
<1>14. ReadsOn(batch.items)
  <2> SUFFICES ASSUME NEW i \in batch.items, i.tag = "dirty", i.from # Unread
               PROVE  /\ cursors[i.stream] # Unread /\ i.from <= cursors[i.stream]
                      /\ \A j \in batch.items : Drops(j, i.stream) => i.order < j.order
    BY DEF ReadsOn
  <2> DEFINE s == i.stream
  <2>1. s \in Sources /\ ~acc.reset /\ i.from = cursors[s]
    BY <1>6, <1>7, <1>10 DEF Traced, FromRows
  <2>2. cursors[s] # Unread /\ cursors[s] \in Nat
    BY <1>0, <2>1 DEF Cursors
  <2>3. ~ResetIn(wakeCursor, Reach)
    BY <1>6, <2>1 DEF Traced
  <2>4. PICK p \in wakeCursor + 1..Reach : UpsertAt(p, s) /\ i.order = 2 * p + 1
    <3>1. PICK p \in wakeCursor + 1..Reach :
            UpsertAt(p, s) /\ i = DirtyItem(p, rows[p], i.from)
      BY <1>10 DEF FromRows
    <3>2. i.order = 2 * p + 1
      BY <3>1 DEF DirtyItem
    <3> QED
      BY <3>1, <3>2
  <2> HIDE DEF s
  <2>5. ASSUME NEW j \in batch.items, Drops(j, s) PROVE i.order < j.order
    <3>1. FromRows(j, wakeCursor, Reach) /\ j.tag # "reset"
      BY <1>6, <1>7, <1>10, <2>1 DEF Traced
    <3>2. CASE j.tag = "removed"
      <4>1. j.stream = s
        BY <2>5, <3>2 DEF Drops
      <4>2. PICK d \in wakeCursor + 1..Reach : DeleteAt(d, s) /\ j = RemovedItem(d, s)
        BY <3>1, <3>2, <4>1 DEF FromRows
      <4>3. j.order = 2 * d
        BY <4>2 DEF RemovedItem
      <4>4. d # p
        BY <2>4, <4>2 DEF UpsertAt, DeleteAt
      <4>5. ~(d < p)
        <5> SUFFICES ASSUME d < p PROVE FALSE
          OBVIOUS
        <5>1. d \in 1..Len(rows) /\ p \in d + 1..Len(rows)
          BY <1>0
        <5> QED
          BY <2>1, <2>4, <4>2, <5>1 DEF WritersOK, RowsGrow
      <4>6. p \in Nat /\ d \in Nat
        BY <1>0
      <4> QED
        BY <2>4, <4>3, <4>4, <4>5, <4>6
    <3>3. CASE j.tag = "snapshot"
      <4>1. PICK q \in wakeCursor + 1..Reach :
              EndAt(q) /\ j = SnapshotItem(q, M(q - 1).snapshot)
        BY <3>1, <3>3 DEF FromRows
      <4>2. j.order = 2 * q /\ j.streams = M(q - 1).snapshot
        BY <4>1 DEF SnapshotItem
      <4>3. s \notin M(q - 1).snapshot
        BY <2>5, <3>3, <4>2 DEF Drops
      <4>4. q # p
        BY <2>4, <4>1 DEF UpsertAt, EndAt
      <4>5. ~(q < p)
        <5> SUFFICES ASSUME q < p PROVE FALSE
          OBVIOUS
        <5>1. p \in q + 1..Len(rows)
          BY <1>0
        <5> QED
          BY <2>1, <2>2, <2>3, <2>4, <4>1, <4>3, <5>1, NotDropped
      <4>6. p \in Nat /\ q \in Nat
        BY <1>0
      <4> QED
        BY <2>4, <4>2, <4>4, <4>5, <4>6
    <3> QED
      BY <2>5, <3>1, <3>2, <3>3 DEF Drops
  <2>6. i.from <= cursors[s]
    BY <2>1, <2>2
  <2> QED
    BY <2>2, <2>5, <2>6 DEF s
<1> QED
  BY <1>9, <1>10, <1>11, <1>12, <1>13, <1>14

-----------------------------------------------------------------------------
(***************************************************************************)
(* More rows.                                                              *)
(***************************************************************************)
LEMMA EffectOf ==
    ASSUME NEW events \in Seq(Events), NEW n \in 1..Len(events)
    PROVE  /\ Materialized(events, n) \in Amounts /\ Materialized(events, n - 1) \in Amounts
           /\ events[n] \in Events
           /\ Effect(Materialized(events, n), Materialized(events, n - 1), events[n])
<1>1. n \in 0..Len(events) /\ n - 1 \in 0..Len(events) /\ n # 0 /\ events[n] \in Events
  OBVIOUS
<1>2. Materialized(events, n) \in Amounts /\ Materialized(events, n - 1) \in Amounts
  BY <1>1, MaterializedSteps
<1>3. Materialized(events, n) = Applied(Materialized(events, n - 1), events[n])
  BY <1>1, MaterializedSteps
<1> QED
  BY <1>1, <1>2, <1>3, AppliedIs

LEMMA WrittenRow ==
    ASSUME WritersOK, NEW s \in Sources
    PROVE  /\ M(Len(rows)).rows[s] = IF Written(s)
                                     THEN UpsertRow(s, binding[s].offset, binding[s].closed)
                                     ELSE None
           /\ Written(s) => /\ UpsertRow(s, binding[s].offset, binding[s].closed) \in UpsertRows
                            /\ M(Len(rows)).rows[s] # None
           /\ M(Len(rows)).snapshot = None
<1>1. Written(s) => UpsertRow(s, binding[s].offset, binding[s].closed) \in UpsertRows
  BY DEF WritersOK, WriterTypes, Written, UpsertRow, UpsertRows
<1>2. /\ M(Len(rows)).rows[s] = IF Written(s)
                                THEN UpsertRow(s, binding[s].offset, binding[s].closed)
                                ELSE None
      /\ M(Len(rows)).snapshot = None
  BY DEF WritersOK, RowsAreBindings
<1> QED
  BY <1>1, <1>2, NoneIsNone

LEMMA BeforeTheNew ==
    ASSUME WriterTypes, NEW events \in Seq(Events), Len(rows) <= Len(events),
           BeginAlike(rows, events, Len(rows)), NEW n \in 0..Len(rows)
    PROVE  Materialized(events, n) = M(n)
<1>1. rows \in Seq(Events) /\ n <= Len(events) /\ BeginAlike(rows, events, n)
  BY DEF WriterTypes, BeginAlike
<1> QED
  BY <1>1, MaterializedPrefix DEF M

\* What all amounts to when a compactor has written k of its rows.
HasWritten(events, list, control, k) ==
  /\ Materialized(events, Len(rows) + 1 + k).snapshot =
       IF control = "reset" THEN None ELSE {list[j] : j \in 1..k}
  /\ \A s \in Sources :
       Materialized(events, Len(rows) + 1 + k).rows[s] =
         IF control = "reset" /\ s \notin {list[j] : j \in 1..k} THEN None
         ELSE M(Len(rows)).rows[s]

LEMMA Compacted ==
    ASSUME WritersOK, NEW m \in Nat, NEW list \in [1..m -> Sources],
           \A k \in 1..m : Written(list[k]),
           NEW control \in {"reset", "snapshot-start"},
           NEW events \in Seq(Events), Len(rows) + 1 + m <= Len(events),
           BeginAlike(rows, events, Len(rows)),
           events[Len(rows) + 1].kind = control,
           \A k \in 1..m : events[Len(rows) + 1 + k] = M(Len(rows)).rows[list[k]]
    PROVE  \A k \in 0..m : HasWritten(events, list, control, k)
<1> DEFINE L == Len(rows)
           Named(k) == {list[j] : j \in 1..k}
           Stage(k) ==
             /\ Materialized(events, L + 1 + k).snapshot =
                  IF control = "reset" THEN None ELSE Named(k)
             /\ \A s \in Sources :
                  Materialized(events, L + 1 + k).rows[s] =
                    IF control = "reset" /\ s \notin Named(k) THEN None ELSE M(L).rows[s]
           Good == {k \in 0..m : Stage(k)}
<1>0. L \in Nat /\ L + 1 \in 1..Len(events) /\ L + 1 + 0 = L + 1 /\ (L + 1) - 1 = L
      /\ L <= Len(events) /\ L \in 0..L /\ WriterTypes
  BY DEF WritersOK, WriterTypes
<1>1. Stage(0)
  <2>1. Materialized(events, L) = M(L)
    BY <1>0, BeforeTheNew
  <2>2. Effect(Materialized(events, L + 1), M(L), events[L + 1])
    BY <1>0, <2>1, EffectOf
  <2>3. Named(0) = {}
    OBVIOUS
  <2>4. CASE control = "reset"
    <3>1. Materialized(events, L + 1) = NoRows
      BY <2>2, <2>4 DEF Effect
    <3>2. Materialized(events, L + 1 + 0) = NoRows
      BY <1>0, <3>1
    <3>3. /\ Materialized(events, L + 1 + 0).snapshot = None
          /\ \A s \in Sources : Materialized(events, L + 1 + 0).rows[s] = None
      BY <3>2, NothingLives
    <3> HIDE DEF Named, L
    <3> QED
      BY <2>3, <2>4, <3>3
  <2>5. CASE control = "snapshot-start"
    <3>1. /\ Materialized(events, L + 1).rows = M(L).rows
          /\ Materialized(events, L + 1).snapshot = {}
      BY <2>2, <2>5 DEF Effect
    <3>2. Materialized(events, L + 1 + 0) = Materialized(events, L + 1)
      BY <1>0
    <3> HIDE DEF Named, L
    <3> QED
      BY <2>3, <2>5, <3>1, <3>2
  <2> QED
    BY <2>4, <2>5
<1>2. ASSUME NEW k \in 0 + 1..m, Stage(k - 1) PROVE Stage(k)
  <2>1. /\ k \in 1..m /\ L + 1 + k \in 1..Len(events) /\ (L + 1 + k) - 1 = L + 1 + (k - 1)
        /\ list[k] \in Sources /\ Written(list[k])
    <3>1. k \in 1..m
      OBVIOUS
    <3>2. Len(events) \in Nat /\ L + 1 + m <= Len(events)
      OBVIOUS
    <3>3. L + 1 + k \in 1..Len(events) /\ (L + 1 + k) - 1 = L + 1 + (k - 1)
      <4> HIDE DEF L
      <4> QED
        BY <1>0, <3>1, <3>2
    <3> QED
      BY <3>1, <3>3
  <2> DEFINE t == list[k]
             old == Materialized(events, L + 1 + (k - 1))
             new == Materialized(events, L + 1 + k)
  <2>2. /\ events[L + 1 + k] = M(L).rows[t] /\ events[L + 1 + k].kind = "upsert"
        /\ events[L + 1 + k].stream = t
    <3>1. events[L + 1 + k] = M(L).rows[t]
      BY <2>1
    <3>2. M(L).rows[t] = UpsertRow(t, binding[t].offset, binding[t].closed)
      BY <2>1, WrittenRow
    <3> HIDE DEF L, t
    <3> QED
      BY <3>1, <3>2 DEF UpsertRow
  <2>3. Effect(new, old, events[L + 1 + k])
    BY <2>1, EffectOf
  <2>4. Named(k) = Named(k - 1) \cup {t}
    <3>1. 1..k = (1..k - 1) \cup {k}
      BY <2>1
    <3> QED
      BY <3>1
  <2>5. /\ old.snapshot = IF control = "reset" THEN None ELSE Named(k - 1)
        /\ \A s \in Sources :
             old.rows[s] = IF control = "reset" /\ s \notin Named(k - 1) THEN None ELSE M(L).rows[s]
    BY <1>2
  <2>6. Named(k - 1) # None
    <3>1. Named(k - 1) \in SUBSET Sources
      BY <2>1
    <3> HIDE DEF Named
    <3> QED
      BY <3>1, NoneIsNone
  <2> HIDE DEF Named, old, new
  <2>7. new.snapshot = IF control = "reset" THEN None ELSE Named(k)
    BY <2>2, <2>3, <2>4, <2>5, <2>6 DEF Effect, Noted
  <2>8. ASSUME NEW s \in Sources
        PROVE  new.rows[s] = IF control = "reset" /\ s \notin Named(k) THEN None ELSE M(L).rows[s]
    <3>1. new.rows[s] = IF s = t THEN M(L).rows[t] ELSE old.rows[s]
      BY <2>2, <2>3 DEF Effect
    <3> HIDE DEF t, L
    <3> QED
      BY <2>4, <2>5, <3>1
  <2> QED
    BY <2>7, <2>8 DEF new
<1> HIDE DEF Stage
<1>3. \A k \in 0..m : k \in Good
  <2>1. 0 \in Good /\ 0 \in Nat /\ 0 <= m
    BY <1>1
  <2>2. \A k \in 0 + 1..m : k - 1 \in Good => k \in Good
    BY <1>2
  <2> HIDE DEF Good
  <2> QED
    BY <2>1, <2>2, StepByStep
<1> QED
  BY <1>3 DEF Stage, HasWritten

-----------------------------------------------------------------------------
(***************************************************************************)
(* What others do leaves the consumer as it is.                            *)
(***************************************************************************)
WritesOn ==
  /\ rows' \in Seq(Events) /\ Len(rows) <= Len(rows')
  /\ BeginAlike(rows, rows', Len(rows))
  /\ source' \in [Sources -> [tail : Nat, closed : BOOLEAN, gone : BOOLEAN]]
  /\ limit' = limit
  /\ \A s \in Sources : /\ source[s].tail <= source'[s].tail
                        /\ source[s].gone => source'[s].gone
                        /\ binding[s].closed => binding'[s].closed

LEMMA OldRowsStay ==
    ASSUME WritersOK, WritesOn
    PROVE  /\ \A n \in 0..Len(rows) : M(n)' = M(n)
           /\ \A p \in 1..Len(rows) : rows'[p] = rows[p]
           /\ Len(rows) \in Nat /\ Len(rows') \in Nat
<1>1. ASSUME NEW n \in 0..Len(rows) PROVE M(n)' = M(n)
  <2>1. M(n)' = Materialized(rows', n)
    BY DEF M
  <2>2. Materialized(rows', n) = M(n)
    BY BeforeTheNew DEF WritersOK, WritesOn
  <2> QED
    BY <2>1, <2>2
<1>2. Len(rows) \in Nat /\ Len(rows') \in Nat
  BY DEF WritersOK, WriterTypes, WritesOn
<1> QED
  BY <1>1, <1>2 DEF WritesOn, BeginAlike

LEMMA ReachGrows ==
    ASSUME WritersOK, WritesOn, wakeCursor' = wakeCursor, wakeCursor \in 0..Len(rows)
    PROVE  /\ Reach \in wakeCursor..Len(rows) /\ Reach' \in Nat /\ Reach <= Reach'
           /\ Reach' <= Len(rows')
<1>1. Len(rows) \in Nat /\ Len(rows') \in Nat /\ Len(rows) <= Len(rows') /\ limit \in Nat
      /\ limit' = limit /\ wakeCursor \in Nat
  BY OldRowsStay DEF WritersOK, WriterTypes, WritesOn
<1> QED
  BY <1>1 DEF Reach

LEMMA BatchStays ==
    ASSUME WritersOK, SavedTypes, WakeBatchOK, WritesOn,
           UNCHANGED <<cursors, held, complete, wakeCursor, consumer>>
    PROVE  WakeBatchOK'
<1>0. /\ Len(rows) \in Nat /\ wakeCursor \in 0..Len(rows) /\ wakeCursor \in Nat
      /\ consumer.next \in wakeCursor..Reach /\ consumer.next \in 0..Len(rows)
      /\ Reach <= Len(rows) /\ Reach \in Nat /\ Reach' \in Nat /\ Reach <= Reach'
      /\ consumer.next \in Nat
  BY ReachGrows, OldRowsStay DEF SavedTypes, WakeBatchOK
<1>1. /\ \A n \in wakeCursor..consumer.next : M(n)' = M(n)
      /\ \A p \in wakeCursor + 1..consumer.next : rows'[p] = rows[p] /\ M(p - 1)' = M(p - 1)
  <2>1. \A n \in wakeCursor..consumer.next : n \in 0..Len(rows)
    BY <1>0
  <2>2. \A p \in wakeCursor + 1..consumer.next : p \in 1..Len(rows) /\ p - 1 \in 0..Len(rows)
    BY <1>0
  <2> QED
    BY <2>1, <2>2, OldRowsStay
<1>2. consumer.next' \in wakeCursor'..Reach' /\ consumer.turn' \in Nat
  BY <1>0 DEF WakeBatchOK
<1>3. consumer.after' = M(consumer.next)'.snapshot
  <2>1. M(consumer.next)' = M(consumer.next)
    BY <1>0, <1>1
  <2> QED
    BY <2>1 DEF WakeBatchOK
<1>4. \A item \in consumer'.items : FromRows(item, wakeCursor, consumer.next)'
  <2> SUFFICES ASSUME NEW item \in consumer.items
               PROVE  FromRows(item, wakeCursor, consumer.next)'
    OBVIOUS
  <2>1. FromRows(item, wakeCursor, consumer.next)
    BY DEF WakeBatchOK
  <2>2. CASE item.tag = "dirty"
    BY <1>1, <2>1, <2>2 DEF FromRows, UpsertAt
  <2>3. CASE item.tag = "removed"
    BY <1>1, <2>1, <2>3 DEF FromRows, DeleteAt
  <2>4. CASE item.tag = "reset"
    BY <1>1, <2>1, <2>4 DEF FromRows
  <2>5. CASE item.tag = "snapshot"
    BY <1>1, <2>1, <2>5 DEF FromRows, EndAt
  <2> QED
    BY <2>1, <2>2, <2>3, <2>4, <2>5 DEF FromRows
<1>5. SnapshotsKept(consumer.items, wakeCursor, consumer.next)'
  <2>1. SnapshotsKept(consumer.items, wakeCursor, consumer.next)
    BY DEF WakeBatchOK
  <2>2. ResetIn(wakeCursor, consumer.next)' <=> ResetIn(wakeCursor, consumer.next)
    BY <1>1 DEF ResetIn
  <2>3. \A p \in wakeCursor + 1..consumer.next : EndAt(p)' <=> EndAt(p)
    BY <1>1 DEF EndAt
  <2> QED
    BY <1>1, <2>1, <2>2, <2>3 DEF SnapshotsKept
<1>6. SameFrom(consumer.items)' /\ ReadsOn(Todo)' /\ Todo' = Todo
  BY DEF WakeBatchOK, SameFrom, ReadsOn, Todo
<1>7. ASSUME NEW s \in Sources
      PROVE  IF Live(consumer.next, s)' THEN ReadsAll(Todo, consumer.next, s)'
             ELSE DropsAll(Todo, s)'
  <2>1. M(consumer.next)' = M(consumer.next)
    BY <1>0, <1>1
  <2>2. Live(consumer.next, s)' <=> Live(consumer.next, s)
    BY <2>1 DEF Live
  <2>3. IF Live(consumer.next, s) THEN ReadsAll(Todo, consumer.next, s) ELSE DropsAll(Todo, s)
    BY DEF WakeBatchOK
  <2>4. DropsAll(Todo, s) => DropsAll(Todo, s)'
    BY <1>6 DEF DropsAll
  <2>5. ReadsAll(Todo, consumer.next, s) => ReadsAll(Todo, consumer.next, s)'
    BY <1>6, <2>1 DEF ReadsAll, ReadTo, WritesOn
  <2> QED
    BY <2>2, <2>3, <2>4, <2>5
<1> QED
  BY <1>2, <1>3, <1>4, <1>5, <1>6, <1>7 DEF WakeBatchOK

LEMMA CoverStays ==
    ASSUME WritersOK, SavedTypes, Covered, WritesOn,
           UNCHANGED <<cursors, complete, wakeCursor>>
    PROVE  Covered'
<1>0. /\ Len(rows) \in Nat /\ wakeCursor \in 0..Len(rows) /\ wakeCursor \in Nat
      /\ Reach <= Len(rows) /\ Reach \in Nat /\ Reach' \in Nat /\ Reach <= Reach'
      /\ wakeCursor' = wakeCursor
  BY ReachGrows, OldRowsStay DEF SavedTypes
<1>1. /\ M(wakeCursor)' = M(wakeCursor)
      /\ \A p \in wakeCursor + 1..Reach : rows'[p] = rows[p] /\ p \in wakeCursor + 1..Reach'
  <2>1. \A p \in wakeCursor + 1..Reach : p \in 1..Len(rows)
    BY <1>0
  <2>2. \A p \in wakeCursor + 1..Reach : p \in wakeCursor + 1..Reach'
    BY <1>0
  <2>3. \A p \in wakeCursor + 1..Reach : rows'[p] = rows[p]
    BY <2>1, OldRowsStay
  <2>4. M(wakeCursor)' = Materialized(rows', wakeCursor)
    BY <1>0 DEF M
  <2>5. Materialized(rows', wakeCursor) = M(wakeCursor)
    BY <1>0, BeforeTheNew DEF WritersOK, WritesOn
  <2> QED
    BY <2>2, <2>3, <2>4, <2>5
<1> SUFFICES ASSUME ~ResetIn(wakeCursor, Reach)', NEW s \in Sources
             PROVE  /\ cursors[s] # Unread =>
                         \/ Live(wakeCursor, s)
                         \/ \E p \in wakeCursor + 1..Reach' :
                              UpsertAt(p, s)' /\ \A q \in wakeCursor + 1..p - 1 : ~EndAt(q)'
                    /\ Live(wakeCursor, s) =>
                         \/ source[s].gone \/ ReadTo(s, M(wakeCursor).rows[s])
                         \/ DeleteIn(wakeCursor, Reach, s)'
  <2>1. \A s \in Sources : Live(wakeCursor, s)' <=> Live(wakeCursor, s)
    BY <1>1 DEF Live
  <2>2. \A s \in Sources :
          ReadTo(s, M(wakeCursor).rows[s]) => ReadTo(s, M(wakeCursor).rows[s])'
    BY <1>1 DEF ReadTo
  <2>3. \A s \in Sources : source[s].gone => source'[s].gone
    BY DEF WritesOn
  <2> QED
    BY <1>0, <2>1, <2>2, <2>3 DEF Covered
<1>2. ~ResetIn(wakeCursor, Reach)
  <2> SUFFICES ASSUME NEW p \in wakeCursor + 1..Reach, rows[p].kind = "reset" PROVE FALSE
    BY DEF ResetIn
  <2>1. p \in wakeCursor + 1..Reach' /\ rows'[p].kind = "reset"
    BY <1>1
  <2> QED
    BY <1>0, <2>1 DEF ResetIn
<1>3. DeleteIn(wakeCursor, Reach, s) => DeleteIn(wakeCursor, Reach, s)'
  <2> SUFFICES ASSUME NEW p \in wakeCursor + 1..Reach, DeleteAt(p, s)
               PROVE  DeleteIn(wakeCursor, Reach, s)'
    BY DEF DeleteIn
  <2>1. p \in wakeCursor + 1..Reach' /\ DeleteAt(p, s)'
    BY <1>1 DEF DeleteAt
  <2> QED
    BY <1>0, <2>1 DEF DeleteIn
<1>4. ASSUME NEW p \in wakeCursor + 1..Reach,
             UpsertAt(p, s), \A q \in wakeCursor + 1..p - 1 : ~EndAt(q)
      PROVE  /\ p \in wakeCursor + 1..Reach' /\ UpsertAt(p, s)'
             /\ \A q \in wakeCursor + 1..p - 1 : ~EndAt(q)'
  <2>1. \A q \in wakeCursor + 1..p - 1 : q \in wakeCursor + 1..Reach
    BY <1>0
  <2> QED
    BY <1>1, <1>4, <2>1 DEF UpsertAt, EndAt
<1> QED
  BY <1>2, <1>3, <1>4 DEF Covered

LEMMA ConsumerStays ==
    ASSUME WritersOK, ConsumerOK, WritesOn,
           UNCHANGED <<cursors, held, complete, wakeCursor, consumer>>
    PROVE  ConsumerOK'
<1>0. /\ SavedTypes /\ Len(rows) \in Nat /\ Len(rows') \in Nat /\ Len(rows) <= Len(rows')
      /\ wakeCursor \in 0..Len(rows)
  BY OldRowsStay DEF ConsumerOK, SavedTypes, WritesOn
<1>1. SavedTypes'
  BY <1>0 DEF SavedTypes
<1>2. Joined'
  <2> SUFFICES ASSUME NEW s \in Sources, cursors[s] # Unread
               PROVE  \E n \in cursors[s]..source'[s].tail : held[s] = 1..n
    BY DEF ConsumerOK, Joined
  <2>1. PICK n \in cursors[s]..source[s].tail : held[s] = 1..n
    BY DEF ConsumerOK, Joined
  <2>2. /\ source[s].tail \in Nat /\ source'[s].tail \in Nat /\ source[s].tail <= source'[s].tail
        /\ cursors[s] \in Nat
    BY <1>0 DEF WritersOK, WriterTypes, WritesOn, SavedTypes
  <2>3. n \in cursors[s]..source'[s].tail
    BY <2>2
  <2> QED
    BY <2>1, <2>3
<1>3. Told'
  BY <1>0 DEF ConsumerOK, Told, WritesOn, SavedTypes
<1>4. M(wakeCursor)' = M(wakeCursor)
  <2>1. M(wakeCursor)' = Materialized(rows', wakeCursor)
    BY DEF M
  <2>2. Materialized(rows', wakeCursor) = M(wakeCursor)
    BY <1>0, BeforeTheNew DEF WritersOK, WritesOn
  <2> QED
    BY <2>1, <2>2
<1>5. IF consumer'.at = "down" THEN M(wakeCursor)'.snapshot = None
      ELSE consumer'.snapshot = M(wakeCursor)'.snapshot
  BY <1>4 DEF ConsumerOK
<1>6. IF consumer'.at = "handle" THEN WakeBatchOK' ELSE consumer'.items = {}
  BY <1>0, BatchStays DEF ConsumerOK
<1>7. ~ReadsPast' => Covered'
  BY <1>0, CoverStays DEF ConsumerOK, ReadsPast
<1> QED
  BY <1>1, <1>2, <1>3, <1>5, <1>6, <1>7 DEF ConsumerOK

-----------------------------------------------------------------------------
(***************************************************************************)
(* What the writers append.                                                *)
(***************************************************************************)
LEMMA Appended ==
    ASSUME WriterTypes, NEW messages \in Seq(Events), rows' = rows \o messages
    PROVE  /\ rows' \in Seq(Events) /\ Len(rows') = Len(rows) + Len(messages)
           /\ Len(rows) \in Nat /\ Len(rows') \in Nat /\ Len(rows) <= Len(rows')
           /\ BeginAlike(rows, rows', Len(rows))
           /\ \A k \in 1..Len(messages) : rows'[Len(rows) + k] = messages[k]
BY DEF WriterTypes, BeginAlike

BindingTypes ==
  binding \in [Sources -> [offset : Nat \cup {Unread}, closed : BOOLEAN, ended : BOOLEAN]]

\* A binding only advances, or ends.
BindingsGo ==
  \A s \in Sources : /\ binding[s].offset <= binding'[s].offset
                     /\ binding[s].closed => binding'[s].closed
                     /\ binding[s].ended => binding'[s].ended

\* A row that is added at p says where its binding is by then.
NewRow(p) ==
  \A s \in Sources :
    /\ UpsertAt(p, s)' => /\ rows'[p].offset = binding'[s].offset
                          /\ rows'[p].closed => binding'[s].closed
                          /\ binding'[s].closed => rows'[p].closed
                          /\ ~binding[s].ended
    /\ DeleteAt(p, s)' => binding'[s].ended /\ Len(rows') = p

LEMMA OldRowsSay ==
    ASSUME WritersOK, WritesOn, NEW p \in 1..Len(rows)
    PROVE  /\ \A s \in Sources : /\ UpsertAt(p, s)' <=> UpsertAt(p, s)
                                 /\ DeleteAt(p, s)' <=> DeleteAt(p, s)
           /\ EndAt(p)' <=> EndAt(p)
           /\ rows'[p] = rows[p]
<1>1. rows'[p] = rows[p]
  BY OldRowsStay
<1> QED
  BY <1>1 DEF UpsertAt, DeleteAt, EndAt

LEMMA RowsGrowOn ==
    ASSUME WritersOK, WritesOn, BindingTypes', BindingsGo,
           \A p \in Len(rows) + 1..Len(rows') : NewRow(p)
    PROVE  RowsGrow'
<1>0. Len(rows) \in Nat /\ Len(rows') \in Nat /\ Len(rows) <= Len(rows')
  BY OldRowsStay DEF WritesOn
<1> SUFFICES ASSUME NEW p \in 1..Len(rows'), NEW s \in Sources
             PROVE  /\ UpsertAt(p, s)' =>
                         /\ rows'[p].offset <= binding'[s].offset
                         /\ rows'[p].closed => binding'[s].closed
                         /\ \A q \in p + 1..Len(rows') :
                              UpsertAt(q, s)' => /\ rows'[p].offset <= rows'[q].offset
                                                 /\ rows'[p].closed => rows'[q].closed
                    /\ DeleteAt(p, s)' => /\ binding'[s].ended
                                          /\ \A q \in p + 1..Len(rows') : ~UpsertAt(q, s)'
  BY DEF RowsGrow
<1>1. binding'[s].offset \in Int /\ binding[s].offset \in Int
  <2>1. Nat \cup {Unread} \subseteq Int
    BY DEF Unread
  <2> QED
    BY <2>1 DEF BindingTypes, WritersOK, WriterTypes
<1>2. /\ binding[s].offset <= binding'[s].offset /\ (binding[s].closed => binding'[s].closed)
      /\ (binding[s].ended => binding'[s].ended)
  BY DEF BindingsGo
<1>3. CASE p \in Len(rows) + 1..Len(rows')
  <2>1. \A q \in p + 1..Len(rows') : NewRow(q)
    BY <1>0, <1>3
  <2>2. NewRow(p)
    BY <1>3
  <2>3. ASSUME UpsertAt(p, s)'
        PROVE  /\ rows'[p].offset <= binding'[s].offset
               /\ rows'[p].closed => binding'[s].closed
               /\ \A q \in p + 1..Len(rows') :
                    UpsertAt(q, s)' => /\ rows'[p].offset <= rows'[q].offset
                                       /\ rows'[p].closed => rows'[q].closed
    BY <1>1, <2>1, <2>2, <2>3 DEF NewRow
  <2>4. ASSUME DeleteAt(p, s)'
        PROVE  binding'[s].ended /\ \A q \in p + 1..Len(rows') : ~UpsertAt(q, s)'
    BY <1>0, <2>2, <2>4 DEF NewRow
  <2> QED
    BY <2>3, <2>4
<1>4. CASE p \in 1..Len(rows)
  <2>1. /\ UpsertAt(p, s)' <=> UpsertAt(p, s)
        /\ DeleteAt(p, s)' <=> DeleteAt(p, s)
        /\ rows'[p] = rows[p] /\ rows[p] \in Events
    BY <1>4, OldRowsSay, RowsMean DEF WritersOK
  <2>2. ASSUME NEW q \in p + 1..Len(rows')
        PROVE  \/ NewRow(q)
               \/ /\ q \in p + 1..Len(rows) /\ rows'[q] = rows[q]
                  /\ UpsertAt(q, s)' <=> UpsertAt(q, s)
    <3>1. CASE q \in Len(rows) + 1..Len(rows')
      BY <3>1
    <3>2. CASE q \notin Len(rows) + 1..Len(rows')
      <4>1. q \in p + 1..Len(rows) /\ q \in 1..Len(rows)
        BY <1>0, <3>2
      <4> QED
        BY <4>1, OldRowsSay
    <3> QED
      BY <3>1, <3>2
  <2>3. ASSUME UpsertAt(p, s)
        PROVE  /\ rows[p].offset <= binding'[s].offset
               /\ rows[p].closed => binding'[s].closed
               /\ \A q \in p + 1..Len(rows') :
                    UpsertAt(q, s)' => /\ rows[p].offset <= rows'[q].offset
                                       /\ rows[p].closed => rows'[q].closed
    <3>1. rows[p].offset \in Nat
      BY <2>1, <2>3, EventMeans DEF UpsertAt
    <3>2. /\ rows[p].offset <= binding[s].offset
          /\ rows[p].closed => binding[s].closed
          /\ \A q \in p + 1..Len(rows) :
               UpsertAt(q, s) => /\ rows[p].offset <= rows[q].offset
                                 /\ rows[p].closed => rows[q].closed
      BY <1>4, <2>3 DEF WritersOK, RowsGrow
    <3>3. rows[p].offset <= binding'[s].offset /\ (rows[p].closed => binding'[s].closed)
      BY <1>1, <1>2, <3>1, <3>2
    <3>4. ASSUME NEW q \in p + 1..Len(rows'), UpsertAt(q, s)'
          PROVE  rows[p].offset <= rows'[q].offset /\ (rows[p].closed => rows'[q].closed)
      BY <2>2, <3>2, <3>3, <3>4 DEF NewRow
    <3> QED
      BY <3>3, <3>4
  <2>4. ASSUME DeleteAt(p, s)
        PROVE  binding'[s].ended /\ \A q \in p + 1..Len(rows') : ~UpsertAt(q, s)'
    <3>1. binding[s].ended /\ \A q \in p + 1..Len(rows) : ~UpsertAt(q, s)
      BY <1>4, <2>4 DEF WritersOK, RowsGrow
    <3>2. ASSUME NEW q \in p + 1..Len(rows'), UpsertAt(q, s)' PROVE FALSE
      BY <2>2, <3>1, <3>2 DEF NewRow
    <3> QED
      BY <1>2, <3>1, <3>2
  <2> QED
    BY <2>1, <2>3, <2>4
<1> QED
  BY <1>0, <1>3, <1>4

\* What a snapshot that ends at q names.
Names(q) ==
  /\ M(q - 1).snapshot # None
  /\ \A s \in Sources : UpsertIn(0, q - 1, s) /\ ~DeleteIn(0, q - 1, s) => s \in M(q - 1).snapshot

LEMMA NamesStay ==
    ASSUME WritersOK, WritesOn,
           \A q \in Len(rows) + 1..Len(rows') : EndAt(q)' => Names(q)'
    PROVE  SnapshotsName'
<1>0. Len(rows) \in Nat /\ Len(rows') \in Nat /\ Len(rows) <= Len(rows')
  BY OldRowsStay DEF WritesOn
<1> SUFFICES ASSUME NEW q \in 1..Len(rows'), EndAt(q)' PROVE Names(q)'
  BY DEF SnapshotsName, Names
<1>1. CASE q \in Len(rows) + 1..Len(rows')
  BY <1>1
<1>2. CASE q \in 1..Len(rows)
  <2>1. Names(q)
    BY <1>2, OldRowsSay DEF WritersOK, SnapshotsName, Names
  <2>2. q - 1 \in 0..Len(rows) /\ \A p \in 0 + 1..q - 1 : p \in 1..Len(rows)
    BY <1>0, <1>2
  <2>3. M(q - 1)' = M(q - 1)
    BY <2>2, OldRowsStay
  <2>4. ASSUME NEW s \in Sources
        PROVE  /\ UpsertIn(0, q - 1, s)' <=> UpsertIn(0, q - 1, s)
               /\ DeleteIn(0, q - 1, s)' <=> DeleteIn(0, q - 1, s)
    <3>1. \A p \in 0 + 1..q - 1 : /\ UpsertAt(p, s)' <=> UpsertAt(p, s)
                                  /\ DeleteAt(p, s)' <=> DeleteAt(p, s)
      BY <2>2, OldRowsSay
    <3> QED
      BY <3>1 DEF UpsertIn, DeleteIn
  <2> QED
    BY <2>1, <2>3, <2>4 DEF Names
<1> QED
  BY <1>0, <1>1, <1>2

\* What all the rows amount to, stream by stream.
LEMMA StreamByStream ==
    ASSUME rows' \in Seq(Events), M(Len(rows))'.snapshot = None,
           \A s \in Sources :
             M(Len(rows))'.rows[s] =
               IF Written(s)' THEN UpsertRow(s, binding'[s].offset, binding'[s].closed) ELSE None
    PROVE  RowsAreBindings'
<1> DEFINE m == M(Len(rows))'
           latest == [s \in Sources |-> IF Written(s)'
                                        THEN UpsertRow(s, binding'[s].offset, binding'[s].closed)
                                        ELSE None]
<1>1. m \in Amounts
  <2>1. Len(rows') \in 0..Len(rows')
    OBVIOUS
  <2> QED
    BY <2>1, MaterializedSteps DEF M
<1>2. \A s \in Sources : m.rows[s] = latest[s]
  OBVIOUS
<1> HIDE DEF latest
<1>3. DOMAIN latest = Sources /\ latest = [s \in Sources |-> latest[s]]
  BY DEF latest
<1>4. m.snapshot = None
  OBVIOUS
<1> HIDE DEF m
<1>5. m.rows = [s \in Sources |-> m.rows[s]] /\ m = [rows |-> m.rows, snapshot |-> m.snapshot]
  BY <1>1 DEF Amounts
<1>6. m.rows = latest
  BY <1>2, <1>3, <1>5
<1> QED
  BY <1>4, <1>5, <1>6 DEF RowsAreBindings, m, latest

ConsumerUnchanged == UNCHANGED <<cursors, held, complete, wakeCursor, consumer>>

\* Nothing is written.
LEMMA NothingWritten ==
    ASSUME WritersOK, WritesOn, rows' = rows, binding' = binding, lapsed' \in BOOLEAN,
           \A s \in Sources : source[s].closed => source'[s].closed
    PROVE  WritersOK'
<1>1. WriterTypes'
  BY DEF WritersOK, WriterTypes, WritesOn
<1>2. Behind'
  <2>1. \A s \in Sources : /\ source[s].tail \in Nat /\ source'[s].tail \in Nat
                           /\ binding[s].offset \in Int
    <3>1. Nat \cup {Unread} \subseteq Int
      BY DEF Unread
    <3> QED
      BY <3>1 DEF WritersOK, WriterTypes, WritesOn
  <2>2. \A s \in Sources : DeleteIn(0, Len(rows), s)' <=> DeleteIn(0, Len(rows), s)
    BY DEF DeleteIn, DeleteAt
  <2>3. ASSUME NEW s \in Sources
        PROVE  /\ binding'[s].offset <= source'[s].tail
               /\ binding'[s].closed => source'[s].closed
               /\ binding'[s].ended => source'[s].gone /\ DeleteIn(0, Len(rows), s)'
    BY <2>1, <2>2 DEF WritersOK, Behind, WritesOn
  <2> QED
    BY <2>3 DEF Behind
<1>3. RowsGrow'
  BY DEF WritersOK, RowsGrow, UpsertAt, DeleteAt
<1>4. SnapshotsName'
  <2>1. \A q \in Len(rows) + 1..Len(rows') : EndAt(q)' => Names(q)'
    BY DEF WritersOK, WriterTypes
  <2> QED
    BY <2>1, NamesStay
<1>5. RowsAreBindings'
  BY DEF WritersOK, RowsAreBindings, M, Written
<1> QED
  BY <1>1, <1>2, <1>3, <1>4, <1>5 DEF WritersOK

LEMMA SourceSteps ==
    ASSUME WritersOK, NEW s \in Sources, T!Produce(s) \/ T!Close(s) \/ T!RemoveSource(s)
    PROVE  WritersOK' /\ WritesOn /\ ConsumerUnchanged /\ lapsed' = lapsed
<1>0. UNCHANGED <<binding, rows, limit, cursors, held, complete, wakeCursor, consumer, lapsed>>
  BY DEF T!Produce, T!Close, T!RemoveSource, T!Change, T!saved
<1>1. /\ source' \in [Sources -> [tail : Nat, closed : BOOLEAN, gone : BOOLEAN]]
      /\ \A t \in Sources : /\ source[t].tail <= source'[t].tail
                            /\ source[t].gone => source'[t].gone
                            /\ source[t].closed => source'[t].closed
  <2>1. source \in [Sources -> [tail : Nat, closed : BOOLEAN, gone : BOOLEAN]]
    BY DEF WritersOK, WriterTypes
  <2>2. CASE T!Produce(s)
    <3>1. source' = [source EXCEPT ![s] = [source[s] EXCEPT !.tail = source[s].tail + 1]]
      BY <2>2 DEF T!Produce, T!Change
    <3> QED
      BY <2>1, <3>1
  <2>3. CASE T!Close(s)
    <3>1. source' = [source EXCEPT ![s] = [source[s] EXCEPT !.closed = TRUE]]
      BY <2>3 DEF T!Close, T!Change
    <3>2. source' \in [Sources -> [tail : Nat, closed : BOOLEAN, gone : BOOLEAN]]
      BY <2>1, <3>1
    <3>3. /\ source'[s].tail = source[s].tail /\ source'[s].gone = source[s].gone
          /\ source'[s].closed = TRUE
          /\ \A t \in Sources \ {s} : source'[t] = source[t]
      BY <2>1, <3>1
    <3>4. \A t \in Sources : source[t].tail \in Nat
      BY <2>1
    <3> QED
      BY <3>2, <3>3, <3>4
  <2>4. CASE T!RemoveSource(s)
    <3>1. source' = [source EXCEPT ![s] = [source[s] EXCEPT !.gone = TRUE]]
      BY <2>4 DEF T!RemoveSource, T!Change
    <3>2. source' \in [Sources -> [tail : Nat, closed : BOOLEAN, gone : BOOLEAN]]
      BY <2>1, <3>1
    <3>3. /\ source'[s].tail = source[s].tail /\ source'[s].closed = source[s].closed
          /\ source'[s].gone = TRUE
          /\ \A t \in Sources \ {s} : source'[t] = source[t]
      BY <2>1, <3>1
    <3>4. \A t \in Sources : source[t].tail \in Nat
      BY <2>1
    <3> QED
      BY <3>2, <3>3, <3>4
  <2> QED
    BY <2>2, <2>3, <2>4
<1>2. WritesOn
  BY <1>0, <1>1 DEF WritesOn, WritersOK, WriterTypes, BeginAlike
<1>3. WritersOK'
  BY <1>0, <1>1, <1>2, NothingWritten DEF WritersOK, WriterTypes
<1> QED
  BY <1>0, <1>2, <1>3 DEF ConsumerUnchanged

LEMMA DeletesStay ==
    ASSUME WritersOK, WritesOn, NEW s \in Sources, DeleteIn(0, Len(rows), s)
    PROVE  DeleteIn(0, Len(rows), s)'
<1>1. PICK d \in 0 + 1..Len(rows) : DeleteAt(d, s)
  BY DEF DeleteIn
<1>2. d \in 1..Len(rows) /\ d \in 0 + 1..Len(rows')
  BY OldRowsStay DEF WritesOn
<1>3. DeleteAt(d, s)'
  BY <1>1, <1>2, OldRowsSay
<1> QED
  BY <1>2, <1>3 DEF DeleteIn

\* One event more.
LEMMA OneMore ==
    ASSUME WritersOK, NEW event \in Events, rows' = rows \o <<event>>
    PROVE  /\ rows' \in Seq(Events) /\ Len(rows') = Len(rows) + 1
           /\ Len(rows) \in Nat /\ BeginAlike(rows, rows', Len(rows))
           /\ rows'[Len(rows')] = event
           /\ M(Len(rows))' \in Amounts
           /\ Effect(M(Len(rows))', M(Len(rows)), event)
<1>1. <<event>> \in Seq(Events) /\ Len(<<event>>) = 1 /\ <<event>>[1] = event /\ 1 \in 1..1
  OBVIOUS
<1>2. /\ rows' \in Seq(Events) /\ Len(rows') = Len(rows) + 1 /\ Len(rows) \in Nat
      /\ BeginAlike(rows, rows', Len(rows)) /\ rows'[Len(rows) + 1] = event
  BY <1>1, Appended DEF WritersOK
<1>3. /\ Len(rows') \in 1..Len(rows') /\ Len(rows') - 1 = Len(rows) /\ Len(rows) <= Len(rows')
      /\ Len(rows) \in 0..Len(rows)
  BY <1>2
<1>4. /\ Materialized(rows', Len(rows')) \in Amounts
      /\ Effect(Materialized(rows', Len(rows')), Materialized(rows', Len(rows') - 1), event)
  BY <1>2, <1>3, EffectOf
<1>5. Materialized(rows', Len(rows') - 1) = M(Len(rows))
  BY <1>2, <1>3, BeforeTheNew DEF WritersOK
<1>6. M(Len(rows))' = Materialized(rows', Len(rows'))
  BY DEF M
<1> QED
  BY <1>2, <1>4, <1>5, <1>6

LEMMA AdvanceStep ==
    ASSUME WritersOK, NEW s \in Sources, T!Unit(s), T!Advance(s)
    PROVE  WritersOK' /\ WritesOn /\ ConsumerUnchanged /\ lapsed' = lapsed
<1> DEFINE row == UpsertRow(s, source[s].tail, source[s].closed)
<1>0. /\ UNCHANGED <<source, limit, cursors, held, complete, wakeCursor, consumer, lapsed>>
      /\ ~binding[s].ended /\ rows' = rows \o <<row>>
      /\ binding' = [binding EXCEPT ![s].offset = source[s].tail, ![s].closed = source[s].closed]
  BY DEF T!Unit, T!Advance, T!Write, T!saved, T!UpsertRow, UpsertRow
<1>1. /\ source[s].tail \in Nat /\ source[s].closed \in BOOLEAN
      /\ \A t \in Sources : /\ binding[t].offset \in Nat \cup {Unread} /\ binding[t].offset \in Int
                            /\ binding[t].closed \in BOOLEAN /\ binding[t].ended \in BOOLEAN
                            /\ binding[t].offset <= source[t].tail
                            /\ binding[t].closed => source[t].closed
                            /\ binding[t].ended => source[t].gone /\ DeleteIn(0, Len(rows), t)
                            /\ source[t].tail \in Nat
  <2>1. Nat \cup {Unread} \subseteq Int
    BY DEF Unread
  <2> QED
    BY <2>1 DEF WritersOK, WriterTypes, Behind
<1>2. /\ binding' \in [Sources -> [offset : Nat \cup {Unread}, closed : BOOLEAN, ended : BOOLEAN]]
      /\ binding'[s].offset = source[s].tail /\ binding'[s].closed = source[s].closed
      /\ binding'[s].ended = binding[s].ended
      /\ \A t \in Sources \ {s} : binding'[t] = binding[t]
  BY <1>0, <1>1 DEF WritersOK, WriterTypes
<1>3. /\ row \in Events /\ row.kind = "upsert" /\ row.stream = s /\ row.offset = source[s].tail
      /\ row.closed = source[s].closed
  BY <1>1 DEF UpsertRow, Events, UpsertRows
<1> HIDE DEF row
<1>4. /\ rows' \in Seq(Events) /\ Len(rows') = Len(rows) + 1 /\ Len(rows) \in Nat
      /\ BeginAlike(rows, rows', Len(rows)) /\ rows'[Len(rows')] = row
      /\ M(Len(rows))' \in Amounts /\ Effect(M(Len(rows))', M(Len(rows)), row)
  BY <1>0, <1>3, OneMore
<1>5. BindingsGo
  BY <1>1, <1>2 DEF BindingsGo
<1>6. WritesOn
  BY <1>0, <1>1, <1>4, <1>5 DEF WritesOn, BindingsGo, WritersOK, WriterTypes
<1>7. WriterTypes'
  BY <1>0, <1>2, <1>4 DEF WritersOK, WriterTypes
<1>8. Behind'
  <2> SUFFICES ASSUME NEW t \in Sources
               PROVE  /\ binding'[t].offset <= source'[t].tail
                      /\ binding'[t].closed => source'[t].closed
                      /\ binding'[t].ended => source'[t].gone /\ DeleteIn(0, Len(rows), t)'
    BY DEF Behind
  <2>1. DeleteIn(0, Len(rows), t) => DeleteIn(0, Len(rows), t)'
    BY <1>6, DeletesStay
  <2>2. CASE t = s
    BY <1>0, <1>1, <1>2, <2>1, <2>2
  <2>3. CASE t # s
    BY <1>0, <1>1, <1>2, <2>1, <2>3
  <2> QED
    BY <2>2, <2>3
<1>9. \A p \in Len(rows) + 1..Len(rows') : p = Len(rows') /\ rows'[p] = row
  BY <1>4
<1>10. ASSUME NEW p \in Len(rows) + 1..Len(rows') PROVE NewRow(p)
  BY <1>0, <1>2, <1>3, <1>9 DEF NewRow, UpsertAt, DeleteAt
<1>11. RowsGrow'
  BY <1>2, <1>5, <1>6, <1>10, RowsGrowOn DEF BindingTypes
<1>12. SnapshotsName'
  <2>1. ASSUME NEW p \in Len(rows) + 1..Len(rows') PROVE ~EndAt(p)'
    BY <1>3, <1>9 DEF EndAt
  <2> QED
    BY <1>6, <2>1, NamesStay
<1>13. RowsAreBindings'
  <2>1. /\ M(Len(rows)).snapshot = None
        /\ \A t \in Sources : M(Len(rows)).rows[t] =
             IF Written(t) THEN UpsertRow(t, binding[t].offset, binding[t].closed) ELSE None
    BY WrittenRow DEF WritersOK, RowsAreBindings
  <2>2. M(Len(rows))'.snapshot = None
    BY <1>3, <1>4, <2>1 DEF Effect, Noted
  <2>3. ASSUME NEW t \in Sources
        PROVE  M(Len(rows))'.rows[t] =
                 IF Written(t)' THEN UpsertRow(t, binding'[t].offset, binding'[t].closed) ELSE None
    <3>1. M(Len(rows))'.rows[t] = IF t = s THEN row ELSE M(Len(rows)).rows[t]
      BY <1>3, <1>4 DEF Effect
    <3>2. CASE t = s
      <4>1. Written(t)'
        BY <1>0, <1>1, <1>2, <3>2 DEF Written, Unread
      <4>2. row = UpsertRow(t, binding'[t].offset, binding'[t].closed)
        BY <1>2, <3>2 DEF row
      <4> QED
        BY <3>1, <3>2, <4>1, <4>2
    <3>3. CASE t # s
      <4>1. binding'[t] = binding[t] /\ (Written(t)' <=> Written(t))
        BY <1>2, <3>3 DEF Written
      <4> QED
        BY <2>1, <3>1, <3>3, <4>1
    <3> QED
      BY <3>2, <3>3
  <2> QED
    BY <1>4, <2>2, <2>3, StreamByStream
<1> QED
  BY <1>0, <1>6, <1>7, <1>8, <1>11, <1>12, <1>13 DEF WritersOK, ConsumerUnchanged

LEMMA EndStep ==
    ASSUME WritersOK, NEW s \in Sources, T!Unit(s), T!End(s)
    PROVE  WritersOK' /\ WritesOn /\ ConsumerUnchanged /\ lapsed' = lapsed
<1>0. /\ UNCHANGED <<source, limit, cursors, held, complete, wakeCursor, consumer, lapsed>>
      /\ source[s].gone /\ rows' = rows \o <<DeleteRow(s)>>
      /\ binding' = [binding EXCEPT ![s].ended = TRUE]
  BY DEF T!Unit, T!End, T!Write, T!saved, T!DeleteRow, DeleteRow
<1>1. \A t \in Sources : /\ binding[t].offset \in Int
                         /\ binding[t].offset <= source[t].tail
                         /\ binding[t].closed => source[t].closed
                         /\ binding[t].ended => source[t].gone /\ DeleteIn(0, Len(rows), t)
                         /\ source[t].tail \in Nat
  <2>1. Nat \cup {Unread} \subseteq Int
    BY DEF Unread
  <2> QED
    BY <2>1 DEF WritersOK, WriterTypes, Behind
<1>2. /\ binding' \in [Sources -> [offset : Nat \cup {Unread}, closed : BOOLEAN, ended : BOOLEAN]]
      /\ binding'[s].offset = binding[s].offset /\ binding'[s].closed = binding[s].closed
      /\ binding'[s].ended
      /\ \A t \in Sources \ {s} : binding'[t] = binding[t]
  BY <1>0 DEF WritersOK, WriterTypes
<1>3. DeleteRow(s) \in Events /\ DeleteRow(s).kind = "delete" /\ DeleteRow(s).stream = s
  BY DEF DeleteRow, Events
<1>4. /\ rows' \in Seq(Events) /\ Len(rows') = Len(rows) + 1 /\ Len(rows) \in Nat
      /\ BeginAlike(rows, rows', Len(rows)) /\ rows'[Len(rows')] = DeleteRow(s)
      /\ M(Len(rows))' \in Amounts /\ Effect(M(Len(rows))', M(Len(rows)), DeleteRow(s))
  BY <1>0, <1>3, OneMore
<1>5. BindingsGo
  BY <1>1, <1>2 DEF BindingsGo
<1>6. WritesOn
  BY <1>0, <1>1, <1>4, <1>5 DEF WritesOn, BindingsGo, WritersOK, WriterTypes
<1>7. WriterTypes'
  BY <1>0, <1>2, <1>4 DEF WritersOK, WriterTypes
<1>8. Behind'
  <2> SUFFICES ASSUME NEW t \in Sources
               PROVE  /\ binding'[t].offset <= source'[t].tail
                      /\ binding'[t].closed => source'[t].closed
                      /\ binding'[t].ended => source'[t].gone /\ DeleteIn(0, Len(rows), t)'
    BY DEF Behind
  <2>1. CASE t = s
    <3>1. PICK p \in Len(rows) + 1..Len(rows') : rows'[p] = DeleteRow(s)
      BY <1>4
    <3>2. DeleteAt(p, s)' /\ p \in 0 + 1..Len(rows')
      BY <1>3, <1>4, <3>1 DEF DeleteAt
    <3>3. DeleteIn(0, Len(rows), s)'
      BY <3>2 DEF DeleteIn
    <3> QED
      BY <1>0, <1>1, <1>2, <2>1, <3>3
  <2>2. CASE t # s
    <3>1. DeleteIn(0, Len(rows), t) => DeleteIn(0, Len(rows), t)'
      BY <1>6, DeletesStay
    <3> QED
      BY <1>0, <1>1, <1>2, <2>2, <3>1
  <2> QED
    BY <2>1, <2>2
<1>9. \A p \in Len(rows) + 1..Len(rows') : p = Len(rows') /\ rows'[p] = DeleteRow(s)
  BY <1>4
<1>10. ASSUME NEW p \in Len(rows) + 1..Len(rows') PROVE NewRow(p)
  BY <1>2, <1>3, <1>9 DEF NewRow, UpsertAt, DeleteAt
<1>11. RowsGrow'
  BY <1>2, <1>5, <1>6, <1>10, RowsGrowOn DEF BindingTypes
<1>12. SnapshotsName'
  <2>1. ASSUME NEW p \in Len(rows) + 1..Len(rows') PROVE ~EndAt(p)'
    BY <1>3, <1>9 DEF EndAt
  <2> QED
    BY <1>6, <2>1, NamesStay
<1>13. RowsAreBindings'
  <2>1. /\ M(Len(rows)).snapshot = None
        /\ \A t \in Sources : M(Len(rows)).rows[t] =
             IF Written(t) THEN UpsertRow(t, binding[t].offset, binding[t].closed) ELSE None
    BY WrittenRow DEF WritersOK, RowsAreBindings
  <2>2. M(Len(rows))'.snapshot = None
    BY <1>3, <1>4, <2>1 DEF Effect, Noted
  <2>3. ASSUME NEW t \in Sources
        PROVE  M(Len(rows))'.rows[t] =
                 IF Written(t)' THEN UpsertRow(t, binding'[t].offset, binding'[t].closed) ELSE None
    <3>1. M(Len(rows))'.rows[t] = IF t = s THEN None ELSE M(Len(rows)).rows[t]
      BY <1>3, <1>4 DEF Effect
    <3>2. CASE t = s
      <4>1. ~Written(t)'
        BY <1>2, <3>2 DEF Written
      <4> QED
        BY <3>1, <3>2, <4>1
    <3>3. CASE t # s
      <4>1. binding'[t] = binding[t] /\ (Written(t)' <=> Written(t))
        BY <1>2, <3>3 DEF Written
      <4> QED
        BY <2>1, <3>1, <3>3, <4>1
    <3> QED
      BY <3>2, <3>3
  <2> QED
    BY <1>4, <2>2, <2>3, StreamByStream
<1> QED
  BY <1>0, <1>6, <1>7, <1>8, <1>11, <1>12, <1>13 DEF WritersOK, ConsumerUnchanged

\* What a compactor appends: control says in which of the two forms.
Compaction(list, m, control) ==
  /\ rows' \in Seq(Events) /\ BeginAlike(rows, rows', Len(rows))
  /\ Len(rows') = Len(rows) + 1 + m + (IF control = "reset" THEN 0 ELSE 1)
  /\ rows'[Len(rows) + 1].kind = control
  /\ \A k \in 1..m : rows'[Len(rows) + 1 + k] = M(Len(rows)).rows[list[k]]
  /\ control = "snapshot-start" => rows'[Len(rows')].kind = "snapshot-end"

Listed(list, m) ==
  /\ list \in [1..m -> Sources]
  /\ \A s \in Sources : Written(s) <=> \E k \in 1..m : list[k] = s

LEMMA SameAmounts == \A events, n : T!Materialized(events, n) = Materialized(events, n)
BY DEF T!Materialized, Materialized, T!Only, Only, T!Applied, Applied, T!NoRows, NoRows,
       T!Noted, Noted

LEMMA SameCardinality == \A S : T!Cardinality(S) = Cardinality(S)
BY DEF T!Cardinality, Cardinality

LEMMA CompactWrites ==
    ASSUME WritersOK, T!Compact
    PROVE  \E m \in Nat, control \in {"reset", "snapshot-start"} :
             \E list : Listed(list, m) /\ Compaction(list, m, control)
<1> DEFINE L == Len(rows)
           latest == M(L).rows
           live == {s \in Sources : latest[s] # None}
           m == Cardinality(live)
<1>1. T!Materialize(rows).rows = latest
  BY SameAmounts DEF T!Materialize, M
<1> HIDE DEF latest
<1>2. m \in Nat
  <2>1. IsFiniteSet(live)
    BY WakeAssumption, FS_Subset
  <2> QED
    BY <2>1, FS_CardinalityType
<1>3. PICK list \in T!Listings(live) :
        \/ rows' = rows \o (<<T!ControlRow("reset")>> \o [k \in DOMAIN list |-> latest[list[k]]])
        \/ rows' = rows \o (<<T!ControlRow("snapshot-start")>>
                             \o [k \in DOMAIN list |-> latest[list[k]]]
                             \o <<T!ControlRow("snapshot-end")>>)
  BY <1>1 DEF T!Compact, T!Write
<1>4. list \in [1..m -> live] /\ \A s \in live : \E k \in 1..m : list[k] = s
  <2> HIDE DEF live
  <2>1. list \in [1..Cardinality(live) -> live]
        /\ \A s \in live : \E k \in DOMAIN list : list[k] = s
    BY <1>3, SameCardinality DEF T!Listings
  <2> QED
    BY <2>1
<1> HIDE DEF m
<1>5. \A s \in Sources : Written(s) <=> s \in live
  BY WrittenRow DEF latest
<1>6. Listed(list, m)
  BY <1>4, <1>5 DEF Listed
<1> DEFINE upserts == [k \in 1..m |-> latest[list[k]]]
<1>7. upserts \in Seq(Events) /\ Len(upserts) = m /\ \A k \in 1..m : upserts[k] = latest[list[k]]
  <2>1. ASSUME NEW k \in 1..m PROVE latest[list[k]] \in Events
    <3>1. list[k] \in Sources /\ Written(list[k])
      BY <1>4, <1>5
    <3>2. latest[list[k]] \in UpsertRows
      BY <3>1, WrittenRow DEF latest
    <3> QED
      BY <3>2 DEF Events
  <2> QED
    BY <1>2, <2>1
<1>8. DOMAIN list = 1..m
  BY <1>4
<1>9. /\ T!ControlRow("reset") \in Events /\ T!ControlRow("reset").kind = "reset"
      /\ T!ControlRow("snapshot-start") \in Events
      /\ T!ControlRow("snapshot-start").kind = "snapshot-start"
      /\ T!ControlRow("snapshot-end") \in Events
      /\ T!ControlRow("snapshot-end").kind = "snapshot-end"
  BY DEF T!ControlRow, Events
<1>10. /\ [k \in DOMAIN list |-> latest[list[k]]] = upserts
       /\ L \in Nat
  BY <1>8 DEF WritersOK, WriterTypes
<1> HIDE DEF upserts, live
<1>11. CASE rows' = rows \o (<<T!ControlRow("reset")>> \o upserts)
  <2> DEFINE messages == <<T!ControlRow("reset")>> \o upserts
  <2>1. /\ messages \in Seq(Events) /\ Len(messages) = m + 1 /\ messages[1].kind = "reset"
        /\ \A k \in 1..m : messages[1 + k] = upserts[k]
    BY <1>2, <1>7, <1>9
  <2>2. rows' = rows \o messages
    BY <1>11
  <2> HIDE DEF messages
  <2>3. /\ rows' \in Seq(Events) /\ BeginAlike(rows, rows', L)
        /\ Len(rows') = L + Len(messages)
        /\ \A k \in 1..Len(messages) : rows'[L + k] = messages[k]
    BY <2>1, <2>2, Appended DEF WritersOK
  <2>4. rows'[L + 1].kind = "reset" /\ Len(rows') = L + 1 + m + 0
    BY <1>2, <1>10, <2>1, <2>3
  <2>5. ASSUME NEW k \in 1..m PROVE rows'[L + 1 + k] = latest[list[k]]
    <3>1. 1 + k \in 1..Len(messages) /\ L + (1 + k) = L + 1 + k
      BY <1>2, <1>10, <2>1
    <3> QED
      BY <1>7, <2>1, <2>3, <3>1
  <2>6. Compaction(list, m, "reset")
    BY <2>3, <2>4, <2>5 DEF Compaction, latest
  <2> QED
    BY <1>2, <1>6, <2>6
<1>12. CASE rows' = rows \o (<<T!ControlRow("snapshot-start")>> \o upserts
                               \o <<T!ControlRow("snapshot-end")>>)
  <2> DEFINE messages == <<T!ControlRow("snapshot-start")>> \o upserts
                           \o <<T!ControlRow("snapshot-end")>>
  <2>1. /\ messages \in Seq(Events) /\ Len(messages) = m + 2
        /\ messages[1].kind = "snapshot-start" /\ messages[m + 2].kind = "snapshot-end"
        /\ \A k \in 1..m : messages[1 + k] = upserts[k]
    <3> DEFINE front == <<T!ControlRow("snapshot-start")>> \o upserts
    <3>1. /\ front \in Seq(Events) /\ Len(front) = m + 1 /\ front[1].kind = "snapshot-start"
          /\ \A k \in 1..m : front[1 + k] = upserts[k]
      BY <1>2, <1>7, <1>9
    <3> HIDE DEF front
    <3>2. /\ front \o <<T!ControlRow("snapshot-end")>> \in Seq(Events)
          /\ Len(front \o <<T!ControlRow("snapshot-end")>>) = m + 2
          /\ (front \o <<T!ControlRow("snapshot-end")>>)[m + 2] = T!ControlRow("snapshot-end")
          /\ \A k \in 1..m + 1 : (front \o <<T!ControlRow("snapshot-end")>>)[k] = front[k]
      BY <1>2, <1>9, <3>1
    <3>3. messages = front \o <<T!ControlRow("snapshot-end")>>
      BY DEF front
    <3> HIDE DEF messages
    <3>4. 1 \in 1..m + 1 /\ \A k \in 1..m : 1 + k \in 1..m + 1
      BY <1>2
    <3> QED
      BY <1>9, <3>1, <3>2, <3>3, <3>4
  <2>2. rows' = rows \o messages
    BY <1>12
  <2> HIDE DEF messages
  <2>3. /\ rows' \in Seq(Events) /\ BeginAlike(rows, rows', L)
        /\ Len(rows') = L + Len(messages)
        /\ \A k \in 1..Len(messages) : rows'[L + k] = messages[k]
    BY <2>1, <2>2, Appended DEF WritersOK
  <2>4. Len(rows') = L + 1 + m + 1 /\ Len(rows') = L + (m + 2)
    BY <1>2, <1>10, <2>1, <2>3
  <2>5. 1 \in 1..Len(messages) /\ m + 2 \in 1..Len(messages)
    BY <1>2, <2>1
  <2>6. rows'[L + 1].kind = "snapshot-start" /\ rows'[Len(rows')].kind = "snapshot-end"
    BY <2>1, <2>3, <2>4, <2>5
  <2>7. ASSUME NEW k \in 1..m PROVE rows'[L + 1 + k] = latest[list[k]]
    <3>1. 1 + k \in 1..Len(messages) /\ L + (1 + k) = L + 1 + k
      BY <1>2, <1>10, <2>1
    <3> QED
      BY <1>7, <2>1, <2>3, <3>1
  <2>8. Compaction(list, m, "snapshot-start")
    BY <2>3, <2>4, <2>6, <2>7 DEF Compaction, latest
  <2> QED
    BY <1>2, <1>6, <2>8
<1> QED
  BY <1>3, <1>10, <1>11, <1>12

LEMMA CompactedStep ==
    ASSUME WritersOK, NEW m \in Nat, NEW list, NEW control \in {"reset", "snapshot-start"},
           Listed(list, m), Compaction(list, m, control),
           UNCHANGED <<source, binding, limit, lapsed>>
    PROVE  WritersOK' /\ WritesOn
<1> DEFINE L == Len(rows)
           Q == L + 1 + m
<1>0. /\ L \in Nat /\ Q \in Nat /\ L + 1 + m <= Len(rows') /\ L <= Len(rows') /\ Len(rows') \in Nat
      /\ Q \in 0..Len(rows')
      /\ control = "reset" => Len(rows') = Q
      /\ control = "snapshot-start" => Len(rows') = Q + 1
      /\ rows' \in Seq(Events) /\ BeginAlike(rows, rows', L)
      /\ list \in [1..m -> Sources] /\ \A k \in 1..m : Written(list[k])
      /\ rows'[L + 1].kind = control
      /\ \A k \in 1..m : rows'[L + 1 + k] = M(L).rows[list[k]]
  <2>1. L \in Nat /\ rows' \in Seq(Events) /\ BeginAlike(rows, rows', L)
    BY DEF WritersOK, WriterTypes, Compaction
  <2>2. Len(rows') = L + 1 + m + (IF control = "reset" THEN 0 ELSE 1)
    BY DEF Compaction
  <2>3. list \in [1..m -> Sources] /\ \A k \in 1..m : Written(list[k])
    BY DEF Listed
  <2>4. /\ rows'[L + 1].kind = control
        /\ \A k \in 1..m : rows'[L + 1 + k] = M(L).rows[list[k]]
    BY DEF Compaction
  <2> HIDE DEF L
  <2>5. CASE control = "reset"
    BY <2>1, <2>2, <2>3, <2>4, <2>5
  <2>6. CASE control = "snapshot-start"
    BY <2>1, <2>2, <2>3, <2>4, <2>6
  <2> QED
    BY <2>5, <2>6
<1>1. WritesOn
  <2>1. \A s \in Sources : source'[s].tail = source[s].tail /\ source[s].tail \in Nat
    BY DEF WritersOK, WriterTypes
  <2>2. source' \in [Sources -> [tail : Nat, closed : BOOLEAN, gone : BOOLEAN]]
    BY DEF WritersOK, WriterTypes
  <2>3. \A s \in Sources : /\ source[s].tail <= source'[s].tail
                           /\ source[s].gone => source'[s].gone
                           /\ binding[s].closed => binding'[s].closed
    BY <2>1
  <2> HIDE DEF Q
  <2> QED
    BY <1>0, <2>2, <2>3 DEF WritesOn
<1>2. WriterTypes'
  BY <1>0 DEF WritersOK, WriterTypes
<1>3. Behind'
  BY <1>1, DeletesStay DEF WritersOK, Behind
<1>4. ASSUME NEW p \in L + 1..Len(rows')
      PROVE  \/ rows'[p].kind \in {"reset", "snapshot-start", "snapshot-end"}
             \/ \E k \in 1..m : rows'[p] = M(L).rows[list[k]]
  <2>1. CASE p = L + 1
    BY <2>1 DEF Compaction
  <2>2. CASE p \in L + 2..Q
    <3>1. p - L - 1 \in 1..m /\ L + 1 + (p - L - 1) = p
      BY <1>0, <2>2
    <3>2. rows'[L + 1 + (p - L - 1)] = M(L).rows[list[p - L - 1]]
      BY <3>1 DEF Compaction
    <3> QED
      BY <3>1, <3>2
  <2>3. CASE p > Q
    <3>1. p = Len(rows') /\ control = "snapshot-start"
      BY <1>0, <2>3
    <3> QED
      BY <3>1 DEF Compaction
  <2> QED
    BY <1>0, <2>1, <2>2, <2>3
<1>5. ASSUME NEW k \in 1..m
      PROVE  M(L).rows[list[k]] = UpsertRow(list[k], binding[list[k]].offset, binding[list[k]].closed)
  BY <1>0, WrittenRow
<1> HIDE DEF Q
<1>6. ASSUME NEW p \in L + 1..Len(rows') PROVE NewRow(p)
  <2>1. CASE rows'[p].kind \in {"reset", "snapshot-start", "snapshot-end"}
    BY <2>1 DEF NewRow, UpsertAt, DeleteAt
  <2>2. ASSUME NEW k \in 1..m, rows'[p] = M(L).rows[list[k]] PROVE NewRow(p)
    <3>0. rows'[p] = UpsertRow(list[k], binding[list[k]].offset, binding[list[k]].closed)
      BY <1>5, <2>2
    <3>1. /\ rows'[p].kind = "upsert" /\ rows'[p].stream = list[k]
          /\ rows'[p].offset = binding[list[k]].offset /\ rows'[p].closed = binding[list[k]].closed
      BY <3>0 DEF UpsertRow
    <3>2. ~binding[list[k]].ended
      BY <1>0 DEF Written
    <3> QED
      BY <3>1, <3>2 DEF NewRow, UpsertAt, DeleteAt
  <2> QED
    BY <1>4, <2>1, <2>2
<1>7. BindingsGo
  <2>1. \A s \in Sources : binding[s].offset \in Int
    <3>1. Nat \cup {Unread} \subseteq Int
      BY DEF Unread
    <3> QED
      BY <3>1 DEF WritersOK, WriterTypes
  <2> QED
    BY <2>1 DEF BindingsGo
<1>8. RowsGrow'
  BY <1>1, <1>2, <1>6, <1>7, RowsGrowOn DEF WriterTypes, BindingTypes
<1>9. /\ Materialized(rows', Q).snapshot =
           IF control = "reset" THEN None ELSE {list[j] : j \in 1..m}
      /\ \A s \in Sources :
           Materialized(rows', Q).rows[s] =
             IF control = "reset" /\ s \notin {list[j] : j \in 1..m} THEN None ELSE M(L).rows[s]
  <2>1. \A k \in 0..m : HasWritten(rows', list, control, k)
    <3>1. Len(rows) + 1 + m <= Len(rows') /\ rows'[Len(rows) + 1].kind = control
          /\ BeginAlike(rows, rows', Len(rows)) /\ rows' \in Seq(Events)
          /\ \A k \in 1..m : rows'[Len(rows) + 1 + k] = M(Len(rows)).rows[list[k]]
      BY <1>0
    <3> QED
      BY <1>0, <3>1, Compacted
  <2>2. m \in 0..m
    OBVIOUS
  <2> QED
    BY <2>1, <2>2 DEF Q, HasWritten
<1> DEFINE live == {list[j] : j \in 1..m}
<1>10. /\ \A s \in Sources : s \in live <=> Written(s)
       /\ live # None
  <2>1. \A s \in Sources : s \in live <=> Written(s)
    BY DEF Listed
  <2>2. live \in SUBSET Sources
    BY <1>0
  <2> HIDE DEF live
  <2> QED
    BY <2>1, <2>2, NoneIsNone
<1> HIDE DEF live
<1>11. SnapshotsName'
  <2> SUFFICES ASSUME NEW q \in L + 1..Len(rows'), EndAt(q)' PROVE Names(q)'
    BY <1>1, NamesStay
  <2>1. rows'[q].kind = "snapshot-end"
    BY DEF EndAt
  <2>2. ASSUME NEW k \in 1..m PROVE rows'[q] # M(L).rows[list[k]]
    <3>1. UpsertRow(list[k], binding[list[k]].offset, binding[list[k]].closed).kind = "upsert"
      BY DEF UpsertRow
    <3>2. M(L).rows[list[k]].kind = "upsert"
      BY <1>5, <3>1
    <3> QED
      BY <2>1, <3>2
  <2>3. q # L + 1
    BY <2>1 DEF Compaction
  <2>4. ~(q \in L + 2..Q)
    <3> SUFFICES ASSUME q \in L + 2..Q PROVE FALSE
      OBVIOUS
    <3>1. q - L - 1 \in 1..m /\ L + 1 + (q - L - 1) = q
      BY <1>0 DEF Q
    <3>2. rows'[L + 1 + (q - L - 1)] = M(L).rows[list[q - L - 1]]
      BY <3>1 DEF Compaction
    <3> QED
      BY <2>2, <3>1, <3>2
  <2>5. q - 1 = Q /\ control = "snapshot-start"
    BY <1>0, <2>3, <2>4
  <2>6. M(q - 1)' = Materialized(rows', Q)
    BY <2>5 DEF M
  <2>7. M(q - 1)'.snapshot = live
    BY <1>9, <2>5, <2>6 DEF live
  <2>8. ASSUME NEW s \in Sources, UpsertIn(0, q - 1, s)', ~DeleteIn(0, q - 1, s)'
        PROVE  s \in live
    <3>1. ~binding[s].ended
      <4> SUFFICES ASSUME binding[s].ended PROVE FALSE
        OBVIOUS
      <4>1. PICK d \in 0 + 1..L : DeleteAt(d, s)
        BY DEF WritersOK, Behind, DeleteIn
      <4>2. d \in 1..L /\ d \in 0 + 1..q - 1
        BY <1>0, <2>5 DEF Q
      <4>3. DeleteAt(d, s)'
        BY <1>1, <4>1, <4>2, OldRowsSay
      <4> QED
        BY <2>8, <4>2, <4>3 DEF DeleteIn
    <3>2. PICK p \in 0 + 1..q - 1 : UpsertAt(p, s)'
      BY <2>8 DEF UpsertIn
    <3>3. p \in 1..Len(rows')
      BY <1>0, <2>5
    <3>4. rows'[p].offset <= binding[s].offset
      BY <1>8, <3>2, <3>3 DEF RowsGrow
    <3>5. rows'[p].offset \in Nat
      BY <1>0, <3>2, <3>3, EventMeans DEF UpsertAt
    <3>6. Written(s)
      BY <3>1, <3>4, <3>5 DEF Written, Unread
    <3> QED
      BY <1>10, <3>6
  <2> QED
    BY <1>10, <2>7, <2>8 DEF Names
<1>12. RowsAreBindings'
  <2>1. \A s \in Sources : Materialized(rows', Q).rows[s] =
          IF Written(s) THEN UpsertRow(s, binding[s].offset, binding[s].closed) ELSE None
    BY <1>9, <1>10, WrittenRow DEF live
  <2>2. \A s \in Sources : Written(s)' <=> Written(s)
    BY DEF Written
  <2>3. M(Len(rows))' = Materialized(rows', Len(rows'))
    BY DEF M
  <2>4. CASE control = "reset"
    <3>1. M(Len(rows))' = Materialized(rows', Q)
      BY <1>0, <2>3, <2>4
    <3>2. M(Len(rows))'.snapshot = None
      BY <1>9, <2>4, <3>1
    <3> QED
      BY <1>0, <2>1, <2>2, <3>1, <3>2, StreamByStream
  <2>5. CASE control = "snapshot-start"
    <3>0. rows'[Len(rows')].kind = "snapshot-end"
      BY <2>5 DEF Compaction
    <3>1. Len(rows') \in 1..Len(rows') /\ Len(rows') - 1 = Q
          /\ rows'[Len(rows')].kind = "snapshot-end"
      BY <1>0, <2>5, <3>0
    <3>2. Effect(Materialized(rows', Len(rows')), Materialized(rows', Len(rows') - 1),
                 rows'[Len(rows')])
      BY <1>0, <3>1, EffectOf
    <3>3. Effect(M(Len(rows))', Materialized(rows', Q), rows'[Len(rows')])
      BY <2>3, <3>1, <3>2
    <3>4. Materialized(rows', Q).snapshot = live
      BY <1>9, <2>5 DEF live
    <3>5. M(Len(rows))'.snapshot = None
      BY <3>1, <3>3 DEF Effect
    <3>6. \A s \in Sources :
            M(Len(rows))'.rows[s] = IF s \in live THEN Materialized(rows', Q).rows[s] ELSE None
      BY <1>10, <3>1, <3>3, <3>4 DEF Effect
    <3>7. \A s \in Sources : M(Len(rows))'.rows[s] =
            IF Written(s)' THEN UpsertRow(s, binding'[s].offset, binding'[s].closed) ELSE None
      BY <1>10, <2>1, <2>2, <3>6
    <3> QED
      BY <1>0, <3>5, <3>7, StreamByStream
  <2> QED
    BY <2>4, <2>5
<1> QED
  BY <1>1, <1>2, <1>3, <1>8, <1>11, <1>12 DEF WritersOK

LEMMA CompactStep ==
    ASSUME WritersOK, T!Compact
    PROVE  WritersOK' /\ WritesOn /\ ConsumerUnchanged /\ lapsed' = lapsed
<1>1. UNCHANGED <<source, binding, limit, cursors, held, complete, wakeCursor, consumer, lapsed>>
  BY DEF T!Compact, T!saved
<1>2. PICK m \in Nat, control \in {"reset", "snapshot-start"} :
        \E list : Listed(list, m) /\ Compaction(list, m, control)
  BY CompactWrites
<1>3. PICK list : Listed(list, m) /\ Compaction(list, m, control)
  BY <1>2
<1>4. WritersOK' /\ WritesOn
  BY <1>1, <1>3, CompactedStep
<1> QED
  BY <1>1, <1>4 DEF ConsumerUnchanged

-----------------------------------------------------------------------------
(***************************************************************************)
(* The steps of the consumer.                                              *)
(***************************************************************************)
LEMMA WritersIdle ==
    ASSUME WritersOK, UNCHANGED <<source, binding, rows, limit>>, lapsed' \in BOOLEAN
    PROVE  WritersOK' /\ WritesOn
<1>1. \A s \in Sources : source[s].tail <= source'[s].tail
  BY DEF WritersOK, WriterTypes
<1>2. WritesOn
  BY <1>1 DEF WritesOn, WritersOK, WriterTypes, BeginAlike
<1>3. WritersOK'
  BY <1>2, NothingWritten
<1> QED
  BY <1>2, <1>3

\* What does not depend on the consumer's memory.
LEMMA SavedStays ==
    ASSUME UNCHANGED <<source, binding, rows, limit, cursors, held, complete, wakeCursor>>
    PROVE  /\ SavedTypes => SavedTypes'
           /\ Joined => Joined'
           /\ Told => Told'
           /\ Covered => Covered'
           /\ M(wakeCursor)' = M(wakeCursor)
<1>1. Reach' = Reach /\ M(wakeCursor)' = M(wakeCursor)
  BY DEF Reach, M
<1>2. /\ SavedTypes => SavedTypes'
      /\ Joined => Joined'
      /\ Told => Told'
  BY DEF SavedTypes, Joined, Told
<1>3. Covered => Covered'
  BY <1>1 DEF Covered, ResetIn, DeleteIn, Live, ReadTo, UpsertAt, DeleteAt, EndAt
<1> QED
  BY <1>1, <1>2, <1>3

LEMMA BeginStep ==
    ASSUME WritersOK, ConsumerOK, T!Begin
    PROVE  ConsumerOK'
<1>1. /\ UNCHANGED <<source, binding, rows, limit, cursors, held, complete, wakeCursor>>
      /\ consumer.at = "down" /\ consumer' = [T!Down EXCEPT !.at = "follow"]
  BY DEF T!Begin, T!saved
<1>2. consumer' = [at |-> "follow", items |-> {}, turn |-> 0, next |-> 0, snapshot |-> None,
                   after |-> None]
  BY <1>1 DEF T!Down
<1>3. ~ReadsPast
  BY <1>1 DEF ConsumerOK, ReadsPast
<1>4. SavedTypes' /\ Joined' /\ Told' /\ Covered' /\ M(wakeCursor)' = M(wakeCursor)
  BY <1>1, <1>3, SavedStays DEF ConsumerOK
<1>5. consumer'.snapshot = M(wakeCursor)'.snapshot
  BY <1>1, <1>2, <1>4 DEF ConsumerOK
<1> QED
  BY <1>2, <1>4, <1>5 DEF ConsumerOK

LEMMA StopStep ==
    ASSUME WritersOK, ConsumerOK, T!Stop, ~lapsed'
    PROVE  ConsumerOK'
<1>1. /\ UNCHANGED <<source, binding, rows, limit, cursors, held, complete, wakeCursor>>
      /\ consumer.at # "down" /\ consumer' = T!Down /\ ~T!Lapses
  BY DEF T!Stop, T!saved
<1>2. consumer' = [at |-> "down", items |-> {}, turn |-> 0, next |-> 0, snapshot |-> None,
                   after |-> None]
  BY <1>1 DEF T!Down
<1>3. consumer.snapshot = None /\ ~ReadsPast
  BY <1>1 DEF T!Lapses, ReadsPast
<1>4. SavedTypes' /\ Joined' /\ Told' /\ Covered' /\ M(wakeCursor)' = M(wakeCursor)
  BY <1>1, <1>3, SavedStays DEF ConsumerOK
<1>5. M(wakeCursor)'.snapshot = None
  BY <1>1, <1>3, <1>4 DEF ConsumerOK
<1> QED
  BY <1>2, <1>4, <1>5 DEF ConsumerOK

LEMMA SameActions ==
    /\ \A first, last, known, snapshot :
         T!WakeActions(first, last, known, snapshot) = WakeActions(first, last, known, snapshot)
    /\ T!Unread = Unread
<1>1. T!Unread = Unread
  BY DEF T!Unread, Unread
<1>2. \A first, last, known, snapshot :
        T!Worked(first, last, known, snapshot) = Worked(first, last, known, snapshot)
  BY DEF T!Worked, Worked, T!Only, Only, T!OnEvent, OnEvent, T!OnUpsert, OnUpsert,
         T!Base, Base, T!WasRemoved, WasRemoved, T!Others, Others, T!Unread, Unread,
         T!Wants, Wants, T!DirtyItem, DirtyItem, T!RemovedItem, RemovedItem, T!Noted, Noted,
         T!OnDelete, OnDelete, T!OnSnapshotEnd, OnSnapshotEnd, T!Flushed, Flushed,
         T!SnapshotItem, SnapshotItem, T!ResetItem, ResetItem
<1>3. \A first, last, known, snapshot :
        T!WakeActions(first, last, known, snapshot) = WakeActions(first, last, known, snapshot)
  BY <1>2 DEF T!WakeActions, WakeActions, T!Flushed, Flushed
<1> QED
  BY <1>1, <1>3

LEMMA FromTheSameRows ==
    ASSUME rows' = rows, wakeCursor' = wakeCursor, NEW b, consumer'.next = b,
           NEW item, FromRows(item, wakeCursor, b)
    PROVE  FromRows(item, wakeCursor, consumer.next)'
<1>1. \A p : M(p)' = M(p)
  BY DEF M
<1>2. \A p : (EndAt(p)' <=> EndAt(p)) /\ M(p - 1)' = M(p - 1)
  BY <1>1 DEF EndAt
<1>3. \A p, s : (UpsertAt(p, s)' <=> UpsertAt(p, s)) /\ (DeleteAt(p, s)' <=> DeleteAt(p, s))
  BY DEF UpsertAt, DeleteAt
<1>4. CASE item.tag = "dirty"
  BY <1>3, <1>4 DEF FromRows
<1>5. CASE item.tag = "removed"
  BY <1>3, <1>5 DEF FromRows
<1>6. CASE item.tag = "reset"
  BY <1>6 DEF FromRows
<1>7. CASE item.tag = "snapshot"
  BY <1>2, <1>7 DEF FromRows
<1> QED
  BY <1>4, <1>5, <1>6, <1>7 DEF FromRows

LEMMA KeptInTheSameRows ==
    ASSUME rows' = rows, wakeCursor' = wakeCursor, NEW b, consumer'.next = b, NEW items,
           SnapshotsKept(items, wakeCursor, b), consumer'.items = items
    PROVE  SnapshotsKept(consumer.items, wakeCursor, consumer.next)'
<1>1. \A p : M(p)' = M(p)
  BY DEF M
<1>2. \A p : (EndAt(p)' <=> EndAt(p)) /\ M(p - 1)' = M(p - 1)
  BY <1>1 DEF EndAt
<1> QED
  BY <1>2 DEF SnapshotsKept, ResetIn

LEMMA FollowStep ==
    ASSUME WritersOK, ConsumerOK, T!Follow
    PROVE  ConsumerOK'
<1> DEFINE batch == WakeActions(wakeCursor, Reach, cursors, consumer.snapshot)
<1>0. /\ Len(rows) \in Nat /\ wakeCursor \in 0..Len(rows) /\ limit \in Nat /\ wakeCursor \in Nat
      /\ Reach \in wakeCursor..Len(rows) /\ Reach \in Nat
  BY DEF WritersOK, WriterTypes, ConsumerOK, SavedTypes, Reach
<1>1. /\ UNCHANGED <<source, binding, rows, limit, cursors, held, complete, wakeCursor>>
      /\ consumer.at = "follow"
      /\ consumer' = [consumer EXCEPT !.at = "handle", !.items = batch.items, !.turn = 0,
                                      !.next = Reach, !.after = batch.snapshot]
  <2>1. T!Min2(wakeCursor + limit, Len(rows)) = Reach
    BY <1>0 DEF T!Min2, Reach
  <2> QED
    BY <2>1, SameActions DEF T!Follow, T!saved
<1>2. consumer.snapshot = M(wakeCursor).snapshot /\ Covered
  BY <1>1 DEF ConsumerOK, ReadsPast
<1>3. /\ batch.snapshot = M(Reach).snapshot
      /\ \A item \in batch.items : FromRows(item, wakeCursor, Reach)
      /\ SnapshotsKept(batch.items, wakeCursor, Reach)
      /\ SameFrom(batch.items)
      /\ ReadsOn(batch.items)
      /\ \A s \in Sources : IF Live(Reach, s) THEN ReadsAll(batch.items, Reach, s)
                            ELSE DropsAll(batch.items, s)
  BY <1>2, Planned DEF ConsumerOK
<1> HIDE DEF batch
<1>4. /\ consumer'.at = "handle" /\ consumer'.items = batch.items /\ consumer'.turn = 0
      /\ consumer'.next = Reach /\ consumer'.after = batch.snapshot
      /\ consumer'.snapshot = consumer.snapshot
      /\ consumer' = [at |-> consumer'.at, items |-> consumer'.items, turn |-> consumer'.turn,
                      next |-> consumer'.next, snapshot |-> consumer'.snapshot,
                      after |-> consumer'.after]
  <2>1. consumer = [at |-> consumer.at, items |-> consumer.items, turn |-> consumer.turn,
                    next |-> consumer.next, snapshot |-> consumer.snapshot,
                    after |-> consumer.after]
    BY DEF ConsumerOK
  <2>2. consumer' = [at |-> "handle", items |-> batch.items, turn |-> 0, next |-> Reach,
                     snapshot |-> consumer.snapshot, after |-> batch.snapshot]
    BY <1>1, <2>1
  <2> QED
    BY <2>2
<1>5. SavedTypes' /\ Joined' /\ Told' /\ Covered' /\ M(wakeCursor)' = M(wakeCursor)
  BY <1>1, <1>2, SavedStays DEF ConsumerOK
<1>6. Reach' = Reach /\ \A n : M(n)' = M(n)
  BY <1>1 DEF Reach, M
<1>7. \A item \in batch.items : item.order \in Nat /\ item.order > 0
  <2> SUFFICES ASSUME NEW item \in batch.items PROVE item.order \in Nat /\ item.order > 0
    OBVIOUS
  <2>1. item.order \in Nat /\ 2 * wakeCursor < item.order
    BY <1>0, <1>3, OrdersOf
  <2> QED
    BY <1>0, <2>1
<1>8. Todo' = batch.items
  BY <1>4, <1>7 DEF Todo
<1>9. WakeBatchOK'
  <2>1. consumer'.next \in wakeCursor'..Reach' /\ consumer'.turn \in Nat
    BY <1>0, <1>1, <1>4, <1>6
  <2>2. consumer'.after = M(consumer.next)'.snapshot
    BY <1>1, <1>3, <1>4 DEF M
  <2>3. \A item \in consumer'.items : FromRows(item, wakeCursor, consumer.next)'
    BY <1>1, <1>3, <1>4, FromTheSameRows
  <2>4. SnapshotsKept(consumer.items, wakeCursor, consumer.next)'
    BY <1>1, <1>3, <1>4, KeptInTheSameRows
  <2>5. SameFrom(consumer.items)'
    BY <1>3, <1>4 DEF SameFrom
  <2>6. ReadsOn(Todo)'
    BY <1>1, <1>3, <1>8 DEF ReadsOn
  <2>7. ASSUME NEW s \in Sources
        PROVE  IF Live(consumer.next, s)' THEN ReadsAll(Todo, consumer.next, s)'
               ELSE DropsAll(Todo, s)'
    <3>1. M(consumer.next)' = M(Reach)
      BY <1>1, <1>4 DEF M
    <3>2. Live(consumer.next, s)' <=> Live(Reach, s)
      BY <3>1 DEF Live
    <3>3. ReadsAll(batch.items, Reach, s) => ReadsAll(Todo, consumer.next, s)'
      BY <1>1, <1>8, <3>1 DEF ReadsAll, ReadTo
    <3>4. DropsAll(batch.items, s) => DropsAll(Todo, s)'
      BY <1>1, <1>8 DEF DropsAll
    <3> QED
      BY <1>3, <3>2, <3>3, <3>4
  <2> QED
    BY <2>1, <2>2, <2>3, <2>4, <2>5, <2>6, <2>7 DEF WakeBatchOK
<1>10. consumer'.snapshot = M(wakeCursor)'.snapshot
  BY <1>2, <1>4, <1>5
<1> QED
  BY <1>4, <1>5, <1>9, <1>10 DEF ConsumerOK

LEMMA SaveStep ==
    ASSUME WritersOK, ConsumerOK, T!Save
    PROVE  ConsumerOK'
<1>1. /\ UNCHANGED <<source, binding, rows, limit, cursors, held, complete>>
      /\ consumer.at = "handle" /\ ~\E item \in consumer.items : T!IsNext(item)
      /\ wakeCursor' = consumer.next
      /\ consumer' = [T!Down EXCEPT !.at = "follow", !.snapshot = consumer.after]
  BY DEF T!Save
<1>2. consumer' = [at |-> "follow", items |-> {}, turn |-> 0, next |-> 0,
                   snapshot |-> consumer.after, after |-> None]
  BY <1>1 DEF T!Down
<1>3. WakeBatchOK /\ Len(rows) \in Nat /\ wakeCursor \in 0..Len(rows) /\ wakeCursor \in Nat
      /\ limit \in Nat /\ Reach \in wakeCursor..Len(rows) /\ Reach \in Nat
      /\ consumer.next \in 0..Len(rows) /\ consumer.next \in Nat
  <2>1. WakeBatchOK
    BY <1>1 DEF ConsumerOK
  <2>2. Len(rows) \in Nat /\ wakeCursor \in 0..Len(rows) /\ wakeCursor \in Nat
        /\ limit \in Nat /\ Reach \in wakeCursor..Len(rows) /\ Reach \in Nat
    BY DEF WritersOK, WriterTypes, ConsumerOK, SavedTypes, Reach
  <2> QED
    BY <2>1, <2>2 DEF WakeBatchOK
<1>4. Todo = {}
  <2> SUFFICES ASSUME Todo # {} PROVE FALSE
    OBVIOUS
  <2> DEFINE orders == {item.order : item \in Todo}
  <2>1. orders \in SUBSET Nat /\ orders # {}
    <3>1. \A item \in consumer.items : item.order \in Nat
      BY <1>3, OrdersOf DEF WakeBatchOK
    <3> QED
      BY <3>1 DEF Todo
  <2> HIDE DEF orders
  <2>2. PICK m \in orders : \A n \in orders : m <= n
    BY <2>1, LeastOf
  <2>3. PICK item \in Todo : item.order = m
    BY <2>2 DEF orders
  <2>4. \A other \in Todo : item.order <= other.order
    BY <2>2, <2>3 DEF orders
  <2>5. T!IsNext(item) /\ item \in consumer.items
    BY <2>3, <2>4 DEF T!IsNext, Todo
  <2> QED
    BY <1>1, <2>5
<1>5. SavedTypes' /\ Joined' /\ Told'
  BY <1>1, <1>3 DEF ConsumerOK, SavedTypes, Joined, Told
<1>6. M(wakeCursor)' = M(consumer.next)
  BY <1>1 DEF M
<1>7. consumer'.snapshot = M(wakeCursor)'.snapshot
  BY <1>2, <1>3, <1>6 DEF WakeBatchOK
<1>8. Covered'
  <2> SUFFICES ASSUME NEW s \in Sources
               PROVE  /\ cursors'[s] # Unread => Live(wakeCursor, s)'
                      /\ Live(wakeCursor, s)' =>
                           source'[s].gone \/ ReadTo(s, M(wakeCursor).rows[s])'
    BY DEF Covered
  <2>1. Live(wakeCursor, s)' <=> Live(consumer.next, s)
    BY <1>6 DEF Live
  <2>2. ReadTo(s, M(wakeCursor).rows[s])' <=> ReadTo(s, M(consumer.next).rows[s])
    BY <1>1, <1>6 DEF ReadTo
  <2>3. IF Live(consumer.next, s) THEN ReadsAll(Todo, consumer.next, s) ELSE DropsAll(Todo, s)
    BY <1>3 DEF WakeBatchOK
  <2>4. CASE Live(consumer.next, s)
    <3>1. source[s].gone \/ ReadTo(s, M(consumer.next).rows[s])
      BY <1>4, <2>3, <2>4 DEF ReadsAll
    <3> QED
      BY <1>1, <2>1, <2>2, <2>4, <3>1
  <2>5. CASE ~Live(consumer.next, s)
    BY <1>1, <1>4, <2>1, <2>3, <2>5 DEF DropsAll
  <2> QED
    BY <2>4, <2>5
<1> QED
  BY <1>2, <1>5, <1>7, <1>8 DEF ConsumerOK

\* An order has one item.
LEMMA OneOrder ==
    ASSUME WriterTypes, NEW a \in Nat, NEW b \in 0..Len(rows), NEW items, SameFrom(items),
           NEW i \in items, FromRows(i, a, b), NEW j \in items, FromRows(j, a, b),
           i.order = j.order
    PROVE  i = j
<1>0. Len(rows) \in Nat /\ b \in Nat
  BY DEF WriterTypes
<1>1. PICK p \in a + 1..b :
        \/ i.tag = "dirty" /\ i.order = 2 * p + 1 /\ UpsertAt(p, i.stream)
             /\ i = DirtyItem(p, rows[p], i.from)
        \/ i.tag = "removed" /\ i.order = 2 * p /\ DeleteAt(p, i.stream)
             /\ i = RemovedItem(p, i.stream)
        \/ i.tag = "reset" /\ i.order = 2 * p /\ rows[p].kind = "reset" /\ i = ResetItem(p)
        \/ i.tag = "snapshot" /\ i.order = 2 * p /\ EndAt(p)
             /\ i = SnapshotItem(p, M(p - 1).snapshot)
  BY DEF FromRows, DirtyItem, RemovedItem, ResetItem, SnapshotItem
<1>2. PICK q \in a + 1..b :
        \/ j.tag = "dirty" /\ j.order = 2 * q + 1 /\ UpsertAt(q, j.stream)
             /\ j = DirtyItem(q, rows[q], j.from)
        \/ j.tag = "removed" /\ j.order = 2 * q /\ DeleteAt(q, j.stream)
             /\ j = RemovedItem(q, j.stream)
        \/ j.tag = "reset" /\ j.order = 2 * q /\ rows[q].kind = "reset" /\ j = ResetItem(q)
        \/ j.tag = "snapshot" /\ j.order = 2 * q /\ EndAt(q)
             /\ j = SnapshotItem(q, M(q - 1).snapshot)
  BY DEF FromRows, DirtyItem, RemovedItem, ResetItem, SnapshotItem
<1>3. /\ p \in Nat /\ q \in Nat
      /\ i.order = 2 * p \/ i.order = 2 * p + 1
      /\ j.order = 2 * q \/ j.order = 2 * q + 1
  BY <1>0, <1>1, <1>2
<1>4. p = q
  BY <1>3
<1>5. i.tag = "dirty" <=> j.tag = "dirty"
  <2>1. 2 * p # 2 * p + 1
    BY <1>3
  <2> QED
    BY <1>1, <1>2, <1>4, <2>1
<1>6. CASE i.tag = "dirty"
  <2>1. i.stream = j.stream
    BY <1>1, <1>2, <1>4, <1>5, <1>6 DEF UpsertAt
  <2>2. i.from = j.from
    BY <1>5, <1>6, <2>1 DEF SameFrom
  <2>3. i = DirtyItem(p, rows[p], i.from) /\ j = DirtyItem(p, rows[p], j.from)
    BY <1>1, <1>2, <1>4, <1>5, <1>6
  <2> QED
    BY <2>2, <2>3
<1>7. CASE i.tag # "dirty"
  BY <1>1, <1>2, <1>4, <1>5, <1>7 DEF DeleteAt, EndAt
<1> QED
  BY <1>6, <1>7

\* A read of a source that is there.
ReadsTo(item, s, tail) ==
  /\ cursors'[s] = tail
  /\ held'[s] = (IF item.from = Unread THEN {} ELSE held[s])
                  \cup ((IF item.from > 0 THEN item.from ELSE 0) + 1)..tail
  /\ s \in complete' <=> s \in complete \/ item.closed

\* What the handling of an item does to a source.
Treated(item, s) ==
  /\ Drops(item, s) => cursors'[s] = Unread /\ held'[s] = {} /\ s \notin complete'
  /\ Asks(item, s) /\ ~source[s].gone =>
       \E tail \in {IF item.from > item.offset THEN item.from ELSE item.offset, source[s].tail} :
         ReadsTo(item, s, tail)
  /\ ~Drops(item, s) /\ (Asks(item, s) => source[s].gone) =>
       cursors'[s] = cursors[s] /\ held'[s] = held[s] /\ (s \in complete' <=> s \in complete)

LEMMA Treats ==
    ASSUME SavedTypes, NEW item,
           \/ item.tag = "dirty" /\ item.stream \in Sources /\ T!Read(item)
           \/ item.tag = "removed" /\ T!Drop({item.stream})
           \/ item.tag = "reset" /\ T!Drop(Sources)
           \/ item.tag = "snapshot" /\ T!Drop(Sources \ item.streams)
    PROVE  \A s \in Sources : Treated(item, s)
<1> SUFFICES ASSUME NEW s \in Sources PROVE Treated(item, s)
  OBVIOUS
<1>1. T!Unread = Unread
  BY SameActions
<1>2. ASSUME NEW streams, T!Drop(streams)
      PROVE  /\ s \in streams => cursors'[s] = Unread /\ held'[s] = {} /\ s \notin complete'
             /\ s \notin streams => /\ cursors'[s] = cursors[s] /\ held'[s] = held[s]
                                    /\ s \in complete' <=> s \in complete
  BY <1>1, <1>2 DEF T!Drop
<1>3. CASE item.tag = "removed" /\ T!Drop({item.stream})
  BY <1>2, <1>3 DEF Treated, Drops, Asks
<1>4. CASE item.tag = "reset" /\ T!Drop(Sources)
  BY <1>2, <1>4 DEF Treated, Drops, Asks
<1>5. CASE item.tag = "snapshot" /\ T!Drop(Sources \ item.streams)
  BY <1>2, <1>5 DEF Treated, Drops, Asks
<1>6. CASE item.tag = "dirty" /\ item.stream \in Sources /\ T!Read(item)
  <2>1. ~Drops(item, s) /\ (Asks(item, s) <=> item.stream = s)
    BY <1>6 DEF Drops, Asks
  <2>2. CASE source[item.stream].gone
    <3>1. UNCHANGED <<cursors, held, complete>>
      BY <1>6, <2>2 DEF T!Read
    <3> QED
      BY <2>1, <2>2, <3>1 DEF Treated
  <2>3. CASE ~source[item.stream].gone
    <3>1. PICK tail \in {T!Max2(item.from, item.offset), source[item.stream].tail} :
            /\ cursors' = [cursors EXCEPT ![item.stream] = tail]
            /\ held' = [held EXCEPT ![item.stream] =
                          (IF item.from = T!Unread THEN {} ELSE @)
                            \cup (T!Max2(item.from, 0) + 1)..tail]
            /\ complete' = IF item.closed THEN complete \cup {item.stream} ELSE complete
      BY <1>6, <2>3 DEF T!Read
    <3>2. CASE item.stream = s
      <4>1. tail \in {IF item.from > item.offset THEN item.from ELSE item.offset, source[s].tail}
        BY <3>1, <3>2 DEF T!Max2
      <4>2. cursors'[s] = tail
        BY <3>1, <3>2 DEF SavedTypes
      <4>3. held'[s] = (IF item.from = Unread THEN {} ELSE held[s])
                         \cup ((IF item.from > 0 THEN item.from ELSE 0) + 1)..tail
        BY <1>1, <3>1, <3>2 DEF SavedTypes, T!Max2
      <4>4. s \in complete' <=> s \in complete \/ item.closed
        BY <3>1, <3>2
      <4>5. ReadsTo(item, s, tail)
        BY <4>2, <4>3, <4>4 DEF ReadsTo
      <4> QED
        BY <2>1, <2>3, <3>2, <4>1, <4>5 DEF Treated
    <3>3. CASE item.stream # s
      <4>1. cursors'[s] = cursors[s] /\ held'[s] = held[s]
        BY <3>1, <3>3 DEF SavedTypes
      <4>2. s \in complete' <=> s \in complete
        BY <3>1, <3>3
      <4> QED
        BY <2>1, <3>3, <4>1, <4>2 DEF Treated
    <3> QED
      BY <3>2, <3>3
  <2> QED
    BY <2>2, <2>3
<1> QED
  BY <1>3, <1>4, <1>5, <1>6

LEMMA TreatsAll ==
    ASSUME SavedTypes, NEW item,
           \/ item.tag = "dirty" /\ item.stream \in Sources /\ T!Read(item)
           \/ item.tag = "removed" /\ T!Drop({item.stream})
           \/ item.tag = "reset" /\ T!Drop(Sources)
           \/ item.tag = "snapshot" /\ T!Drop(Sources \ item.streams)
    PROVE  /\ cursors' = [s \in Sources |-> cursors'[s]]
           /\ held' = [s \in Sources |-> held'[s]]
           /\ complete' \subseteq Sources
<1>1. /\ cursors = [s \in Sources |-> cursors[s]] /\ held = [s \in Sources |-> held[s]]
      /\ complete \subseteq Sources
  BY DEF SavedTypes
<1>2. ASSUME NEW streams, T!Drop(streams)
      PROVE  /\ cursors' = [s \in Sources |-> cursors'[s]]
             /\ held' = [s \in Sources |-> held'[s]]
             /\ complete' \subseteq Sources
  BY <1>1, <1>2 DEF T!Drop
<1>3. ASSUME item.stream \in Sources, T!Read(item)
      PROVE  /\ cursors' = [s \in Sources |-> cursors'[s]]
             /\ held' = [s \in Sources |-> held'[s]]
             /\ complete' \subseteq Sources
  <2>1. CASE source[item.stream].gone
    BY <1>1, <1>3, <2>1 DEF T!Read
  <2>2. CASE ~source[item.stream].gone
    <3>1. PICK tail \in {T!Max2(item.from, item.offset), source[item.stream].tail} :
            /\ cursors' = [cursors EXCEPT ![item.stream] = tail]
            /\ held' = [held EXCEPT ![item.stream] =
                          (IF item.from = T!Unread THEN {} ELSE @)
                            \cup (T!Max2(item.from, 0) + 1)..tail]
            /\ complete' = IF item.closed THEN complete \cup {item.stream} ELSE complete
      BY <1>3, <2>2 DEF T!Read
    <3>2. complete' \subseteq Sources
      BY <1>1, <1>3, <3>1
    <3>3. cursors' = [s \in Sources |-> cursors'[s]]
      BY <1>1, <3>1
    <3> DEFINE more == (IF item.from = T!Unread THEN {} ELSE held[item.stream])
                         \cup (T!Max2(item.from, 0) + 1)..tail
    <3>4. held' = [held EXCEPT ![item.stream] = more]
      BY <3>1
    <3> HIDE DEF more
    <3>5. held' = [s \in Sources |-> held'[s]]
      BY <1>1, <3>4
    <3> QED
      BY <3>2, <3>3, <3>5
  <2> QED
    BY <2>1, <2>2
<1> QED
  BY <1>2, <1>3

\* The row of an item that asks for a read.
LEMMA AskedBy ==
    ASSUME WritersOK, SavedTypes, WakeBatchOK, NEW item \in consumer.items, NEW s \in Sources,
           Asks(item, s)
    PROVE  /\ source[s].tail \in Nat /\ item.offset \in Nat /\ item.closed \in BOOLEAN
           /\ item.from \in Nat \cup {Unread}
           /\ item.offset <= source[s].tail
           /\ item.closed => binding[s].closed
           /\ \E p \in wakeCursor + 1..consumer.next :
                /\ UpsertAt(p, s) /\ item.order = 2 * p + 1
                /\ item.offset = rows[p].offset /\ item.closed = rows[p].closed
<1>0. /\ Len(rows) \in Nat /\ wakeCursor \in Nat /\ wakeCursor \in 0..Len(rows)
      /\ Reach \in Nat /\ Reach <= Len(rows) /\ consumer.next \in wakeCursor..Reach
  BY DEF WritersOK, WriterTypes, SavedTypes, Reach, WakeBatchOK
<1>1. FromRows(item, wakeCursor, consumer.next) /\ item.tag = "dirty" /\ item.stream = s
  BY DEF WakeBatchOK, Asks
<1>2. PICK p \in wakeCursor + 1..consumer.next :
        UpsertAt(p, s) /\ item = DirtyItem(p, rows[p], item.from)
  BY <1>1 DEF FromRows
<1>3. /\ item.order = 2 * p + 1 /\ item.offset = rows[p].offset /\ item.closed = rows[p].closed
  BY <1>2 DEF DirtyItem
<1>4. p \in 1..Len(rows)
  BY <1>0
<1>5. rows[p].offset \in Nat /\ rows[p].closed \in BOOLEAN
  BY <1>2, <1>4, RowsMean, EventMeans DEF UpsertAt, WritersOK
<1>6. rows[p].offset <= binding[s].offset /\ (rows[p].closed => binding[s].closed)
  BY <1>2, <1>4 DEF WritersOK, RowsGrow
<1>7. binding[s].offset <= source[s].tail /\ binding[s].offset \in Int /\ source[s].tail \in Nat
  <2>1. Nat \cup {Unread} \subseteq Int
    BY DEF Unread
  <2> QED
    BY <2>1 DEF WritersOK, WriterTypes, Behind
<1>8. item.from \in Nat \cup {Unread}
  BY <1>1 DEF FromRows
<1>9. item.offset <= source[s].tail
  BY <1>3, <1>5, <1>6, <1>7
<1>10. item.closed => binding[s].closed
  BY <1>3, <1>6
<1> QED
  BY <1>2, <1>3, <1>5, <1>7, <1>8, <1>9, <1>10

\* How far it reads, and from where.
LEMMA ReadOf ==
    ASSUME WritersOK, ConsumerOK, WakeBatchOK, NEW item \in Todo, NEW s \in Sources,
           Asks(item, s), ~source[s].gone, Treated(item, s)
    PROVE  /\ \E tail \in item.offset..source[s].tail :
                ReadsTo(item, s, tail) /\ item.from <= tail
           /\ item.from # Unread =>
                cursors[s] \in Nat /\ item.from \in Nat /\ item.from <= cursors[s]
<1>1. item \in consumer.items
  BY DEF Todo
<1>2. /\ source[s].tail \in Nat /\ item.offset \in Nat /\ item.from \in Nat \cup {Unread}
      /\ item.offset <= source[s].tail
  BY <1>1, AskedBy DEF ConsumerOK
<1>3. ASSUME item.from # Unread
      PROVE  /\ cursors[s] \in Nat /\ item.from \in Nat /\ item.from <= cursors[s]
             /\ cursors[s] <= source[s].tail
  <2>1. cursors[s] # Unread /\ item.from <= cursors[s]
    BY <1>3 DEF WakeBatchOK, ReadsOn, Asks
  <2>2. cursors[s] \in Nat
    BY <2>1 DEF ConsumerOK, SavedTypes
  <2>3. PICK n \in cursors[s]..source[s].tail : TRUE
    BY <2>1 DEF ConsumerOK, Joined
  <2> QED
    BY <1>2, <1>3, <2>1, <2>2, <2>3
<1>4. item.from <= source[s].tail /\ item.from \in Int
  BY <1>2, <1>3 DEF Unread
<1>5. PICK tail \in {IF item.from > item.offset THEN item.from ELSE item.offset,
                     source[s].tail} : ReadsTo(item, s, tail)
  BY DEF Treated
<1>6. tail \in item.offset..source[s].tail /\ item.from <= tail
  BY <1>2, <1>4, <1>5
<1> QED
  BY <1>3, <1>5, <1>6

LEMMA HandleSaved ==
    ASSUME WritersOK, ConsumerOK, WakeBatchOK, NEW item \in Todo,
           \A s \in Sources : Treated(item, s),
           UNCHANGED <<source, binding, rows, limit, wakeCursor>>,
           cursors' = [s \in Sources |-> cursors'[s]], held' = [s \in Sources |-> held'[s]],
           complete' \subseteq Sources
    PROVE  SavedTypes' /\ Joined' /\ Told'
<1>0. item \in consumer.items /\ SavedTypes
  BY DEF Todo, ConsumerOK
\* Of a source, what is saved is as it was, dropped, or read on.
<1>1. ASSUME NEW s \in Sources
      PROVE  \/ /\ cursors'[s] = cursors[s] /\ held'[s] = held[s]
                /\ s \in complete' <=> s \in complete
             \/ cursors'[s] = Unread /\ held'[s] = {} /\ s \notin complete'
             \/ /\ Asks(item, s)
                /\ \E tail \in item.offset..source[s].tail :
                     ReadsTo(item, s, tail) /\ item.from <= tail
                /\ item.from # Unread =>
                     cursors[s] \in Nat /\ item.from \in Nat /\ item.from <= cursors[s]
  <2>1. CASE Asks(item, s) /\ ~source[s].gone
    BY <2>1, ReadOf
  <2>2. CASE ~(Asks(item, s) /\ ~source[s].gone)
    BY <2>2 DEF Treated
  <2> QED
    BY <2>1, <2>2
<1>2. ASSUME NEW s \in Sources
      PROVE  /\ cursors'[s] \in Nat \cup {Unread} /\ held'[s] \in SUBSET Nat
             /\ IF cursors'[s] = Unread THEN held'[s] = {}
                ELSE \E n \in cursors'[s]..source[s].tail : held'[s] = 1..n
             /\ s \in complete' => cursors'[s] # Unread /\ binding[s].closed
  <2>1. /\ cursors[s] \in Nat \cup {Unread} /\ held[s] \in SUBSET Nat
        /\ IF cursors[s] = Unread THEN held[s] = {}
           ELSE \E n \in cursors[s]..source[s].tail : held[s] = 1..n
        /\ s \in complete => cursors[s] # Unread /\ binding[s].closed
    BY <1>0 DEF SavedTypes, ConsumerOK, Joined, Told
  <2>2. CASE cursors'[s] = cursors[s] /\ held'[s] = held[s] /\ (s \in complete' <=> s \in complete)
    BY <2>1, <2>2
  <2>3. CASE cursors'[s] = Unread /\ held'[s] = {} /\ s \notin complete'
    BY <2>3
  <2>4. CASE /\ Asks(item, s)
             /\ \E tail \in item.offset..source[s].tail :
                  ReadsTo(item, s, tail) /\ item.from <= tail
             /\ item.from # Unread =>
                  cursors[s] \in Nat /\ item.from \in Nat /\ item.from <= cursors[s]
    <3>1. /\ source[s].tail \in Nat /\ item.offset \in Nat /\ item.from \in Nat \cup {Unread}
          /\ item.closed => binding[s].closed
      BY <1>0, <2>4, AskedBy
    <3>2. PICK tail \in item.offset..source[s].tail :
            ReadsTo(item, s, tail) /\ item.from <= tail
      BY <2>4
    <3>3. tail \in Nat /\ tail <= source[s].tail /\ tail # Unread
      BY <3>1, <3>2 DEF Unread
    <3>4. cursors'[s] = tail /\ (s \in complete' <=> s \in complete \/ item.closed)
      BY <3>2 DEF ReadsTo
    <3>5. s \in complete' => cursors'[s] # Unread /\ binding[s].closed
      BY <2>1, <3>1, <3>3, <3>4
    <3>6. \E n \in tail..source[s].tail : held'[s] = 1..n
      <4>1. CASE item.from = Unread
        <5>1. held'[s] = 1..tail
          BY <3>2, <4>1 DEF ReadsTo, Unread
        <5> QED
          BY <3>1, <3>3, <5>1
      <4>2. CASE item.from # Unread
        <5>1. cursors[s] \in Nat /\ item.from \in Nat /\ item.from <= cursors[s]
          BY <2>4, <4>2
        <5>2. PICK n \in cursors[s]..source[s].tail : held[s] = 1..n
          BY <2>1, <5>1 DEF Unread
        <5>3. held'[s] = (1..n) \cup (item.from + 1..tail)
          <6>1. (IF item.from > 0 THEN item.from ELSE 0) = item.from
            BY <5>1
          <6> QED
            BY <3>2, <4>2, <5>2, <6>1 DEF ReadsTo
        <5>4. n \in Nat /\ item.from <= n /\ n <= source[s].tail
          BY <3>1, <5>1, <5>2
        <5>5. CASE n <= tail
          <6>1. held'[s] = 1..tail
            BY <3>3, <5>1, <5>3, <5>4, <5>5
          <6> QED
            BY <3>1, <3>3, <6>1
        <5>6. CASE tail < n
          <6>1. held'[s] = 1..n
            BY <3>3, <5>1, <5>3, <5>4, <5>6
          <6> QED
            BY <3>1, <3>3, <5>4, <5>6, <6>1
        <5> QED
          BY <3>3, <5>4, <5>5, <5>6
      <4> QED
        BY <4>1, <4>2
    <3>7. held'[s] \in SUBSET Nat
      BY <3>6
    <3> QED
      BY <3>3, <3>4, <3>5, <3>6, <3>7
  <2> QED
    BY <1>1, <2>2, <2>3, <2>4
<1>3. SavedTypes'
  BY <1>0, <1>2 DEF SavedTypes
<1>4. Joined' /\ Told'
  BY <1>2 DEF Joined, Told
<1> QED
  BY <1>3, <1>4

LEMMA HandleCovered ==
    ASSUME WritersOK, ConsumerOK, WakeBatchOK, NEW item \in Todo,
           \A s \in Sources : Treated(item, s),
           UNCHANGED <<source, binding, rows, limit, wakeCursor>>,
           consumer'.items = consumer.items, consumer'.turn = item.order, ~ReadsPast'
    PROVE  Covered'
<1>0. /\ Len(rows) \in Nat /\ wakeCursor \in Nat /\ wakeCursor \in 0..Len(rows)
      /\ Reach \in Nat /\ Reach <= Len(rows) /\ consumer.next \in wakeCursor..Reach
      /\ consumer.next \in Nat /\ WriterTypes /\ SavedTypes
  BY DEF WritersOK, WriterTypes, ConsumerOK, SavedTypes, Reach, WakeBatchOK
<1>1. /\ item \in consumer.items /\ item.order \in Nat /\ consumer.turn \in Nat
      /\ consumer.turn < item.order /\ FromRows(item, wakeCursor, consumer.next)
  BY <1>0, OrdersOf DEF Todo, WakeBatchOK
<1>2. ~ReadsPast /\ Covered
  <2>1. ~ReadsPast
    <3> SUFFICES ASSUME NEW i \in consumer.items, NEW j \in consumer.items,
                        i.order < j.order, j.order <= consumer.turn,
                        i.tag = "snapshot", j.tag = "dirty"
                 PROVE  FALSE
      BY DEF ReadsPast
    <3>1. j.order \in Nat
      BY <1>0, OrdersOf DEF WakeBatchOK
    <3>2. j.order <= item.order
      BY <1>1, <3>1
    <3> QED
      BY <3>2 DEF ReadsPast
  <2> QED
    BY <2>1 DEF ConsumerOK
<1>3. /\ Reach' = Reach /\ M(wakeCursor)' = M(wakeCursor)
      /\ \A p : EndAt(p)' <=> EndAt(p)
      /\ \A p, s : (UpsertAt(p, s)' <=> UpsertAt(p, s)) /\ (DeleteAt(p, s)' <=> DeleteAt(p, s))
  BY DEF Reach, M, EndAt, UpsertAt, DeleteAt
<1> SUFFICES ASSUME ~ResetIn(wakeCursor, Reach), NEW s \in Sources
             PROVE  /\ cursors'[s] # Unread =>
                         \/ Live(wakeCursor, s)
                         \/ \E p \in wakeCursor + 1..Reach :
                              UpsertAt(p, s) /\ \A q \in wakeCursor + 1..p - 1 : ~EndAt(q)
                    /\ Live(wakeCursor, s) =>
                         \/ source[s].gone \/ ReadTo(s, M(wakeCursor).rows[s])'
                         \/ DeleteIn(wakeCursor, Reach, s)
  <2>1. ResetIn(wakeCursor, Reach)' <=> ResetIn(wakeCursor, Reach)
    BY <1>3 DEF ResetIn
  <2>2. \A s \in Sources : /\ Live(wakeCursor, s)' <=> Live(wakeCursor, s)
                           /\ DeleteIn(wakeCursor, Reach, s)' <=> DeleteIn(wakeCursor, Reach, s)
    BY <1>3 DEF Live, DeleteIn
  <2> QED
    BY <1>3, <2>1, <2>2 DEF Covered
<1>4. /\ cursors[s] # Unread =>
           \/ Live(wakeCursor, s)
           \/ \E p \in wakeCursor + 1..Reach :
                UpsertAt(p, s) /\ \A q \in wakeCursor + 1..p - 1 : ~EndAt(q)
      /\ Live(wakeCursor, s) =>
           \/ source[s].gone \/ ReadTo(s, M(wakeCursor).rows[s])
           \/ DeleteIn(wakeCursor, Reach, s)
  BY <1>2 DEF Covered
<1>5. ASSUME Live(wakeCursor, s)
      PROVE  /\ \E u \in 1..wakeCursor : UpsertAt(u, s) /\ M(wakeCursor).rows[s] = rows[u]
             /\ ~DeleteIn(0, wakeCursor, s)
  BY <1>0, <1>5, LivesByARow DEF WritersOK
<1>6. CASE Asks(item, s) /\ ~source[s].gone
  <2>1. PICK p \in wakeCursor + 1..consumer.next :
          /\ UpsertAt(p, s) /\ item.order = 2 * p + 1
          /\ item.offset = rows[p].offset /\ item.closed = rows[p].closed
    BY <1>0, <1>1, <1>6, AskedBy
  <2>2. p \in wakeCursor + 1..Reach /\ p \in 1..Len(rows) /\ p \in Nat
    BY <1>0
  <2>3. ASSUME NEW q \in wakeCursor + 1..p - 1 PROVE ~EndAt(q)
    <3> SUFFICES ASSUME EndAt(q) PROVE FALSE
      OBVIOUS
    <3>1. q \in wakeCursor + 1..consumer.next /\ q \in Nat
      BY <1>0, <2>2
    <3>2. ~ResetIn(wakeCursor, consumer.next)
      BY <1>0 DEF ResetIn
    <3> DEFINE i == SnapshotItem(q, M(q - 1).snapshot)
    <3>3. i \in consumer.items
      BY <3>1, <3>2 DEF WakeBatchOK, SnapshotsKept
    <3>4. i.order = 2 * q /\ i.tag = "snapshot"
      BY DEF SnapshotItem
    <3>5. i.order < item.order /\ item.order <= item.order
      BY <1>1, <2>1, <2>2, <3>1, <3>4
    <3> HIDE DEF i
    <3>6. item.tag = "dirty"
      BY <1>6 DEF Asks
    <3> QED
      BY <1>1, <3>3, <3>4, <3>5, <3>6 DEF ReadsPast
  <2>4. ASSUME Live(wakeCursor, s) PROVE ReadTo(s, M(wakeCursor).rows[s])'
    <3>1. PICK u \in 1..wakeCursor : UpsertAt(u, s) /\ M(wakeCursor).rows[s] = rows[u]
      BY <1>5, <2>4
    <3>2. u \in 1..Len(rows) /\ p \in u + 1..Len(rows)
      BY <1>0, <2>2
    <3>3. rows[u].offset <= rows[p].offset /\ (rows[u].closed => rows[p].closed)
      BY <2>1, <3>1, <3>2 DEF WritersOK, RowsGrow
    <3>4. rows[u].offset \in Nat /\ rows[p].offset \in Nat
      BY <1>0, <2>1, <2>2, <3>1, <3>2, RowsMean, EventMeans DEF UpsertAt
    <3>5. PICK tail \in item.offset..source[s].tail : ReadsTo(item, s, tail)
      BY <1>6, ReadOf
    <3>6. source[s].tail \in Nat
      BY <1>0, <1>1, <1>6, AskedBy
    <3>7. cursors'[s] = tail /\ (item.closed => s \in complete')
      BY <3>5 DEF ReadsTo
    <3>8. tail >= rows[u].offset
      BY <2>1, <3>3, <3>4, <3>6
    <3>9. M(wakeCursor)'.rows[s] = rows[u]
      BY <1>3, <3>1
    <3> QED
      BY <2>1, <3>3, <3>7, <3>8, <3>9 DEF ReadTo
  <2> QED
    BY <2>1, <2>2, <2>3, <2>4
<1>7. CASE Drops(item, s)
  <2>1. cursors'[s] = Unread
    BY <1>7 DEF Treated
  <2>2. ASSUME Live(wakeCursor, s) PROVE DeleteIn(wakeCursor, Reach, s)
    <3>1. CASE item.tag = "removed"
      <4>1. PICK p \in wakeCursor + 1..consumer.next : DeleteAt(p, s)
        BY <1>1, <1>7, <3>1 DEF FromRows, Drops
      <4>2. p \in wakeCursor + 1..Reach
        BY <1>0
      <4> QED
        BY <4>1, <4>2 DEF DeleteIn
    <3>2. CASE item.tag = "reset"
      <4>1. PICK p \in wakeCursor + 1..consumer.next : rows[p].kind = "reset"
        BY <1>1, <3>2 DEF FromRows
      <4>2. p \in wakeCursor + 1..Reach
        BY <1>0
      <4> QED
        BY <4>1, <4>2 DEF ResetIn
    <3>3. CASE item.tag = "snapshot" /\ s \notin item.streams
      <4>1. PICK q \in wakeCursor + 1..consumer.next :
              EndAt(q) /\ item = SnapshotItem(q, M(q - 1).snapshot)
        BY <1>1, <3>3 DEF FromRows
      <4>2. s \notin M(q - 1).snapshot
        <5>1. item.streams = M(q - 1).snapshot
          BY <4>1 DEF SnapshotItem
        <5> QED
          BY <3>3, <5>1
      <4>3. q \in 1..Len(rows) /\ q \in Nat
        BY <1>0
      <4>4. UpsertIn(0, q - 1, s)
        <5>1. PICK u \in 1..wakeCursor : UpsertAt(u, s)
          BY <1>5, <2>2
        <5>2. u \in 0 + 1..q - 1
          BY <1>0
        <5> QED
          BY <5>1, <5>2 DEF UpsertIn
      <4>5. DeleteIn(0, q - 1, s)
        BY <4>1, <4>2, <4>3, <4>4 DEF WritersOK, SnapshotsName
      <4>6. PICK d \in 0 + 1..q - 1 : DeleteAt(d, s)
        BY <4>5 DEF DeleteIn
      <4>7. d \notin 0 + 1..wakeCursor
        BY <1>5, <2>2, <4>6 DEF DeleteIn
      <4>8. d \in wakeCursor + 1..Reach
        BY <1>0, <4>7
      <4> QED
        BY <4>6, <4>8 DEF DeleteIn
    <3> QED
      BY <1>7, <3>1, <3>2, <3>3 DEF Drops
  <2> QED
    BY <2>1, <2>2
<1>8. CASE ~Drops(item, s) /\ (Asks(item, s) => source[s].gone)
  <2>1. cursors'[s] = cursors[s] /\ (s \in complete' <=> s \in complete)
    BY <1>8 DEF Treated
  <2>2. ReadTo(s, M(wakeCursor).rows[s]) => ReadTo(s, M(wakeCursor).rows[s])'
    BY <1>3, <2>1 DEF ReadTo
  <2> QED
    BY <1>4, <2>1, <2>2
<1> QED
  BY <1>6, <1>7, <1>8

LEMMA HandleBatch ==
    ASSUME WritersOK, ConsumerOK, WakeBatchOK, NEW item \in Todo,
           \A other \in Todo : item.order <= other.order,
           \A s \in Sources : Treated(item, s),
           UNCHANGED <<source, binding, rows, limit, wakeCursor>>,
           consumer'.items = consumer.items, consumer'.turn = item.order,
           consumer'.next = consumer.next, consumer'.after = consumer.after
    PROVE  WakeBatchOK'
<1>0. /\ Len(rows) \in Nat /\ wakeCursor \in Nat /\ wakeCursor \in 0..Len(rows)
      /\ Reach \in Nat /\ Reach <= Len(rows) /\ consumer.next \in wakeCursor..Reach
      /\ consumer.next \in Nat /\ WriterTypes /\ SavedTypes /\ consumer.next \in 0..Len(rows)
  BY DEF WritersOK, WriterTypes, ConsumerOK, SavedTypes, Reach, WakeBatchOK
<1>1. /\ item \in consumer.items /\ consumer.turn \in Nat /\ consumer.turn < item.order
      /\ \A i \in consumer.items : i.order \in Nat /\ FromRows(i, wakeCursor, consumer.next)
      /\ item.order \in Nat
  <2>1. \A i \in consumer.items : FromRows(i, wakeCursor, consumer.next)
    BY DEF WakeBatchOK
  <2>2. \A i \in consumer.items : i.order \in Nat
    BY <1>0, <2>1, OrdersOf
  <2> QED
    BY <2>1, <2>2 DEF Todo, WakeBatchOK
<1>2. \A i \in Todo : i.order # item.order \/ i = item
  <2> SUFFICES ASSUME NEW i \in Todo, i.order = item.order PROVE i = item
    OBVIOUS
  <2>1. i \in consumer.items /\ SameFrom(consumer.items)
    BY DEF Todo, WakeBatchOK
  <2> QED
    BY <1>0, <1>1, <2>1, OneOrder
<1>3. Todo' = {i \in Todo : i # item} /\ \A i \in Todo' : item.order < i.order
  <2>1. Todo' = {i \in consumer.items : i.order > item.order}
    BY DEF Todo
  <2>2. \A i \in Todo : i \in consumer.items /\ i.order \in Nat /\ item.order <= i.order
    BY <1>1 DEF Todo
  <2>3. \A i \in consumer.items : i.order > item.order => i \in Todo
    BY <1>1 DEF Todo
  <2> QED
    BY <1>1, <1>2, <2>1, <2>2, <2>3
<1>4. consumer'.next \in wakeCursor'..Reach' /\ consumer'.turn \in Nat
  BY <1>0, <1>1 DEF Reach
<1>5. consumer'.after = M(consumer.next)'.snapshot
  BY DEF WakeBatchOK, M
<1>6. \A i \in consumer'.items : FromRows(i, wakeCursor, consumer.next)'
  BY <1>1, FromTheSameRows
<1>7. SnapshotsKept(consumer.items, wakeCursor, consumer.next)'
  BY KeptInTheSameRows DEF WakeBatchOK
<1>8. SameFrom(consumer.items)'
  BY DEF WakeBatchOK, SameFrom
<1>9. ReadsOn(Todo)'
  <2> SUFFICES ASSUME NEW i \in Todo', i.tag = "dirty", i.from # Unread
               PROVE  /\ cursors'[i.stream] # Unread /\ i.from <= cursors'[i.stream]
                      /\ \A j \in Todo' : Drops(j, i.stream) => i.order < j.order
    BY DEF ReadsOn
  <2> DEFINE s == i.stream
  <2>1. i \in Todo /\ i \in consumer.items /\ item.order < i.order
    BY <1>3 DEF Todo
  <2>2. /\ cursors[s] # Unread /\ i.from <= cursors[s]
        /\ \A j \in Todo : Drops(j, s) => i.order < j.order
    BY <2>1 DEF WakeBatchOK, ReadsOn
  <2>3. s \in Sources /\ Asks(i, s)
    BY <1>1, <2>1 DEF FromRows, Asks
  <2>4. ~Drops(item, s)
    BY <1>1, <2>1, <2>2
  <2>5. \A j \in Todo' : Drops(j, s) => i.order < j.order
    BY <1>3, <2>2
  <2> HIDE DEF s
  <2>6. CASE Asks(item, s) /\ ~source[s].gone
    <3>1. PICK tail \in item.offset..source[s].tail :
            ReadsTo(item, s, tail) /\ item.from <= tail
      BY <2>3, <2>6, ReadOf
    <3>2. item.offset \in Nat /\ source[s].tail \in Nat
      BY <1>0, <1>1, <2>3, <2>6, AskedBy
    <3>3. i.from = item.from
      BY <1>1, <2>1, <2>3, <2>6 DEF WakeBatchOK, SameFrom, Asks
    <3>4. tail # Unread /\ cursors'[s] = tail
      BY <3>1, <3>2 DEF Unread, ReadsTo
    <3> QED
      BY <2>5, <3>1, <3>3, <3>4 DEF s
  <2>7. CASE ~(Asks(item, s) /\ ~source[s].gone)
    <3>1. cursors'[s] = cursors[s]
      BY <2>3, <2>4, <2>7 DEF Treated
    <3> QED
      BY <2>2, <2>5, <3>1 DEF s
  <2> QED
    BY <2>6, <2>7
<1>10. ASSUME NEW s \in Sources
       PROVE  IF Live(consumer.next, s)' THEN ReadsAll(Todo, consumer.next, s)'
              ELSE DropsAll(Todo, s)'
  <2>1. M(consumer.next)' = M(consumer.next)
    BY DEF M
  <2>2. Live(consumer.next, s)' <=> Live(consumer.next, s)
    BY <2>1 DEF Live
  <2>3. IF Live(consumer.next, s) THEN ReadsAll(Todo, consumer.next, s) ELSE DropsAll(Todo, s)
    BY DEF WakeBatchOK
  <2> DEFINE row == M(consumer.next).rows[s]
  <2>4. ASSUME ReadsAll(Todo, consumer.next, s)
        PROVE  \/ source[s].gone
               \/ \E i \in Todo' : /\ Asks(i, s) /\ i.offset = row.offset /\ i.closed = row.closed
                                   /\ \A j \in Todo' : Concerns(j, s) => j.order <= i.order
               \/ /\ cursors'[s] >= row.offset /\ (row.closed => s \in complete')
                  /\ \A j \in Todo' : ~Concerns(j, s)
    <3>1. CASE source[s].gone
      BY <3>1
    <3>2. ASSUME ~source[s].gone, NEW i \in Todo, Asks(i, s), i.offset = row.offset,
                 i.closed = row.closed, \A j \in Todo : Concerns(j, s) => j.order <= i.order
          PROVE  \/ \E k \in Todo' : /\ Asks(k, s) /\ k.offset = row.offset /\ k.closed = row.closed
                                     /\ \A j \in Todo' : Concerns(j, s) => j.order <= k.order
                 \/ /\ cursors'[s] >= row.offset /\ (row.closed => s \in complete')
                    /\ \A j \in Todo' : ~Concerns(j, s)
      <4>1. CASE i # item
        <5>1. i \in Todo' /\ \A j \in Todo' : j \in Todo
          BY <1>3, <4>1
        <5> QED
          BY <3>2, <5>1
      <4>2. CASE i = item
        <5>1. \A j \in Todo' : j \in Todo /\ item.order < j.order /\ j.order \in Nat
          BY <1>1, <1>3 DEF Todo
        <5>2. \A j \in Todo' : ~Concerns(j, s)
          BY <1>1, <3>2, <4>2, <5>1
        <5>3. PICK tail \in item.offset..source[s].tail : ReadsTo(item, s, tail)
          BY <3>2, <4>2, ReadOf
        <5>4. cursors'[s] = tail /\ (item.closed => s \in complete')
          BY <5>3 DEF ReadsTo
        <5>5. item.offset \in Nat /\ source[s].tail \in Nat
          BY <1>0, <1>1, <3>2, <4>2, AskedBy
        <5>6. cursors'[s] >= row.offset
          BY <3>2, <4>2, <5>3, <5>4, <5>5
        <5> QED
          BY <3>2, <4>2, <5>2, <5>4, <5>6
      <4> QED
        BY <4>1, <4>2
    <3>3. ASSUME ReadTo(s, row), \A j \in Todo : ~Concerns(j, s)
          PROVE  /\ cursors'[s] >= row.offset /\ (row.closed => s \in complete')
                 /\ \A j \in Todo' : ~Concerns(j, s)
      <4>1. cursors'[s] = cursors[s] /\ (s \in complete' <=> s \in complete)
        BY <3>3 DEF Treated, Concerns
      <4>2. \A j \in Todo' : j \in Todo
        BY <1>3
      <4> QED
        BY <3>3, <4>1, <4>2 DEF ReadTo
    <3> QED
      BY <2>4, <3>1, <3>2, <3>3 DEF ReadsAll
  <2>5. ReadsAll(Todo, consumer.next, s) => ReadsAll(Todo, consumer.next, s)'
    BY <2>1, <2>4 DEF ReadsAll, ReadTo
  <2>6. ASSUME DropsAll(Todo, s)
        PROVE  \/ \E j \in Todo' : Drops(j, s) /\ \A i \in Todo' : Asks(i, s) => i.order < j.order
               \/ cursors'[s] = Unread /\ \A i \in Todo' : ~Asks(i, s)
    <3>1. ASSUME NEW j \in Todo, Drops(j, s), \A i \in Todo : Asks(i, s) => i.order < j.order
          PROVE  \/ \E k \in Todo' : Drops(k, s) /\ \A i \in Todo' : Asks(i, s) => i.order < k.order
                 \/ cursors'[s] = Unread /\ \A i \in Todo' : ~Asks(i, s)
      <4>1. CASE j # item
        <5>1. j \in Todo' /\ \A i \in Todo' : i \in Todo
          BY <1>3, <4>1
        <5> QED
          BY <3>1, <5>1
      <4>2. CASE j = item
        <5>1. \A i \in Todo' : i \in Todo /\ item.order < i.order /\ i.order \in Nat
          BY <1>1, <1>3 DEF Todo
        <5>2. \A i \in Todo' : ~Asks(i, s)
          BY <1>1, <3>1, <4>2, <5>1
        <5>3. cursors'[s] = Unread
          BY <3>1, <4>2 DEF Treated
        <5> QED
          BY <5>2, <5>3
      <4> QED
        BY <4>1, <4>2
    <3>2. ASSUME cursors[s] = Unread, \A i \in Todo : ~Asks(i, s)
          PROVE  cursors'[s] = Unread /\ \A i \in Todo' : ~Asks(i, s)
      <4>1. cursors'[s] = Unread
        BY <3>2 DEF Treated
      <4> QED
        BY <1>3, <3>2, <4>1
    <3> QED
      BY <2>6, <3>1, <3>2 DEF DropsAll
  <2>7. DropsAll(Todo, s) => DropsAll(Todo, s)'
    BY <2>6 DEF DropsAll
  <2> QED
    BY <2>2, <2>3, <2>5, <2>7
<1> QED
  BY <1>4, <1>5, <1>6, <1>7, <1>8, <1>9, <1>10 DEF WakeBatchOK

LEMMA HandleStep ==
    ASSUME WritersOK, ConsumerOK, T!Handle
    PROVE  ConsumerOK'
<1>1. /\ UNCHANGED <<source, binding, rows, limit, wakeCursor>> /\ consumer.at = "handle"
      /\ WakeBatchOK
  BY DEF T!Handle, ConsumerOK
<1>2. PICK item \in consumer.items :
        /\ T!IsNext(item)
        /\ \/ item.tag = "dirty" /\ T!Read(item)
           \/ item.tag = "removed" /\ T!Drop({item.stream})
           \/ item.tag = "reset" /\ T!Drop(Sources)
           \/ item.tag = "snapshot" /\ T!Drop(Sources \ item.streams)
        /\ consumer' = [consumer EXCEPT !.turn = item.order]
  BY DEF T!Handle
<1>3. item \in Todo /\ \A other \in Todo : item.order <= other.order
  BY <1>2 DEF T!IsNext, Todo
<1>4. item.tag = "dirty" => item.stream \in Sources
  BY <1>1, <1>2 DEF WakeBatchOK, FromRows
<1>5. SavedTypes
  BY DEF ConsumerOK
<1>6. \A s \in Sources : Treated(item, s)
  BY <1>2, <1>4, <1>5, Treats
<1>7. /\ cursors' = [s \in Sources |-> cursors'[s]] /\ held' = [s \in Sources |-> held'[s]]
      /\ complete' \subseteq Sources
  BY <1>2, <1>4, <1>5, TreatsAll
<1>8. /\ consumer'.at = "handle" /\ consumer'.items = consumer.items /\ consumer'.turn = item.order
      /\ consumer'.next = consumer.next /\ consumer'.after = consumer.after
      /\ consumer'.snapshot = consumer.snapshot
      /\ consumer' = [at |-> consumer'.at, items |-> consumer'.items, turn |-> consumer'.turn,
                      next |-> consumer'.next, snapshot |-> consumer'.snapshot,
                      after |-> consumer'.after]
  <2>1. consumer = [at |-> consumer.at, items |-> consumer.items, turn |-> consumer.turn,
                    next |-> consumer.next, snapshot |-> consumer.snapshot,
                    after |-> consumer.after]
    BY DEF ConsumerOK
  <2>2. consumer' = [at |-> "handle", items |-> consumer.items, turn |-> item.order,
                     next |-> consumer.next, snapshot |-> consumer.snapshot,
                     after |-> consumer.after]
    BY <1>1, <1>2, <2>1
  <2> QED
    BY <2>2
<1>9. SavedTypes' /\ Joined' /\ Told'
  BY <1>1, <1>3, <1>6, <1>7, HandleSaved
<1>10. WakeBatchOK'
  BY <1>1, <1>3, <1>6, <1>8, HandleBatch
<1>11. ~ReadsPast' => Covered'
  BY <1>1, <1>3, <1>6, <1>8, HandleCovered
<1>12. consumer'.snapshot = M(wakeCursor)'.snapshot
  BY <1>1, <1>8 DEF ConsumerOK, M
<1> QED
  BY <1>8, <1>9, <1>10, <1>11, <1>12 DEF ConsumerOK

-----------------------------------------------------------------------------
LEMMA WakeInvAtFirst == ASSUME T!Init PROVE WakeInv
<1>1. /\ source = [s \in Sources |-> [tail |-> 0, closed |-> FALSE, gone |-> FALSE]]
      /\ binding = [s \in Sources |-> [offset |-> Unread, closed |-> FALSE, ended |-> FALSE]]
      /\ rows = <<>> /\ limit \in Limits
      /\ cursors = [s \in Sources |-> Unread] /\ held = [s \in Sources |-> {}]
      /\ complete = {} /\ wakeCursor = 0 /\ lapsed = FALSE
      /\ consumer = [at |-> "down", items |-> {}, turn |-> 0, next |-> 0, snapshot |-> None,
                     after |-> None]
  BY SameActions DEF T!Init, T!Down
<1>2. Len(rows) = 0 /\ 1..Len(rows) = {}
  BY <1>1
<1>3. WriterTypes
  <2>1. rows \in Seq(Events)
    BY <1>1
  <2>2. limit \in Nat \ {0}
    BY <1>1, WakeAssumption
  <2>3. binding \in [Sources -> [offset : Nat \cup {Unread}, closed : BOOLEAN, ended : BOOLEAN]]
    BY <1>1
  <2> QED
    BY <1>1, <2>1, <2>2, <2>3 DEF WriterTypes
<1>4. M(0) = NoRows
  BY <1>2, <1>3, MSteps
<1>5. Behind
  BY <1>1 DEF Behind, Unread
<1>6. RowsGrow /\ SnapshotsName
  BY <1>2 DEF RowsGrow, SnapshotsName
<1>7. RowsAreBindings
  <2>1. \A s \in Sources : ~Written(s)
    BY <1>1 DEF Written
  <2>2. M(Len(rows)) = [rows |-> [s \in Sources |-> None], snapshot |-> None]
    BY <1>2, <1>4 DEF NoRows
  <2> QED
    BY <2>1, <2>2 DEF RowsAreBindings
<1>8. SavedTypes /\ Joined /\ Told
  BY <1>1, <1>2 DEF SavedTypes, Joined, Told
<1>9. Covered
  <2>1. \A s \in Sources : ~Live(wakeCursor, s)
    BY <1>1, <1>4, NothingLives DEF Live
  <2> QED
    BY <1>1, <2>1 DEF Covered
<1>10. M(wakeCursor).snapshot = None
  BY <1>1, <1>4, NothingLives
<1>11. ConsumerOK
  BY <1>1, <1>8, <1>9, <1>10 DEF ConsumerOK
<1> QED
  BY <1>3, <1>5, <1>6, <1>7, <1>11 DEF WakeInv, WritersOK

LEMMA WakeInvStays == ASSUME WakeInv, [T!Next]_T!vars PROVE WakeInv'
<1>1. WritersOK /\ (~lapsed => ConsumerOK) /\ lapsed \in BOOLEAN
  BY DEF WakeInv, WritersOK, WriterTypes
<1>2. ASSUME WritersOK', WritesOn, ConsumerUnchanged, lapsed' = lapsed
      PROVE  WakeInv'
  BY <1>1, <1>2, ConsumerStays DEF WakeInv, ConsumerUnchanged
<1>3. ASSUME NEW s \in Sources, T!Produce(s) \/ T!Close(s) \/ T!RemoveSource(s)
      PROVE  WakeInv'
  BY <1>1, <1>2, <1>3, SourceSteps
<1>4. ASSUME NEW s \in Sources, T!Unit(s)
      PROVE  WakeInv'
  <2>1. T!Advance(s) \/ T!End(s)
    BY <1>4 DEF T!Unit
  <2> QED
    BY <1>1, <1>2, <1>4, <2>1, AdvanceStep, EndStep
<1>5. CASE T!Compact
  BY <1>1, <1>2, <1>5, CompactStep
<1>6. ASSUME UNCHANGED <<source, binding, rows, limit, lapsed>>, ~lapsed => ConsumerOK'
      PROVE  WakeInv'
  BY <1>1, <1>6, WritersIdle DEF WakeInv
<1>7. CASE T!Begin
  BY <1>1, <1>6, <1>7, BeginStep DEF T!Begin
<1>8. CASE T!Follow
  BY <1>1, <1>6, <1>8, FollowStep DEF T!Follow
<1>9. CASE T!Handle
  BY <1>1, <1>6, <1>9, HandleStep DEF T!Handle
<1>10. CASE T!Save
  BY <1>1, <1>6, <1>10, SaveStep DEF T!Save
<1>11. CASE T!Stop
  <2>1. UNCHANGED <<source, binding, rows, limit>> /\ lapsed' = (lapsed \/ T!Lapses)
    BY <1>11 DEF T!Stop
  <2>2. lapsed' \in BOOLEAN /\ (~lapsed' => ~lapsed)
    BY <1>1, <2>1
  <2>3. WritersOK'
    BY <1>1, <2>1, <2>2, WritersIdle
  <2>4. ~lapsed' => ConsumerOK'
    BY <1>1, <1>11, <2>2, StopStep
  <2> QED
    BY <2>3, <2>4 DEF WakeInv
<1>12. CASE UNCHANGED T!vars
  <2>1. UNCHANGED <<source, binding, rows, limit, cursors, held, complete, wakeCursor, consumer,
                    lapsed>>
    BY <1>12 DEF T!vars, T!saved
  <2>2. WritersOK' /\ WritesOn
    BY <1>1, <2>1, WritersIdle
  <2> QED
    BY <1>2, <2>1, <2>2 DEF ConsumerUnchanged
<1> QED
  BY <1>3, <1>4, <1>5, <1>7, <1>8, <1>9, <1>10, <1>11, <1>12 DEF T!Next, T!Consumes

LEMMA WakeInvSays == ASSUME WakeInv PROVE ReadsJoinUp /\ Mirrors
<1>1. ReadsJoinUp
  BY DEF WakeInv, ConsumerOK, Joined, ReadsJoinUp
<1>2. Mirrors
  <2> SUFFICES ASSUME consumer.at = "follow", wakeCursor = Len(rows), ~lapsed,
                      NEW s \in Sources
               PROVE  IF M(Len(rows)).rows[s] = None THEN cursors[s] = Unread
                      ELSE \/ source[s].gone
                           \/ /\ cursors[s] >= M(Len(rows)).rows[s].offset
                              /\ M(Len(rows)).rows[s].closed = (s \in complete)
    BY DEF Mirrors, Materialize, M
  <2>1. WritersOK /\ ConsumerOK
    BY DEF WakeInv
  <2>2. Covered /\ Told
    BY <2>1 DEF ConsumerOK, ReadsPast
  <2>3. Len(rows) \in Nat /\ limit \in Nat
    BY <2>1 DEF WritersOK, WriterTypes
  <2>4. Reach = wakeCursor /\ wakeCursor + 1..Reach = {}
    BY <2>3 DEF Reach
  <2>5. /\ cursors[s] # Unread => Live(wakeCursor, s)
        /\ Live(wakeCursor, s) => source[s].gone \/ ReadTo(s, M(wakeCursor).rows[s])
    BY <2>2, <2>4 DEF Covered, ResetIn, DeleteIn
  <2>6. CASE M(Len(rows)).rows[s] = None
    BY <2>5, <2>6 DEF Live
  <2>7. CASE M(Len(rows)).rows[s] # None
    <3>1. M(Len(rows)).rows[s] = UpsertRow(s, binding[s].offset, binding[s].closed)
      BY <2>1, <2>7, WrittenRow
    <3>2. M(Len(rows)).rows[s].closed = binding[s].closed /\ binding[s].closed \in BOOLEAN
      <4>1. M(Len(rows)).rows[s].closed = binding[s].closed
        BY <3>1 DEF UpsertRow
      <4> QED
        BY <2>1, <4>1 DEF WritersOK, WriterTypes
    <3>3. source[s].gone \/ ReadTo(s, M(Len(rows)).rows[s])
      BY <2>5, <2>7 DEF Live
    <3>4. s \in complete => binding[s].closed
      BY <2>2 DEF Told
    <3>5. ASSUME ReadTo(s, M(Len(rows)).rows[s])
          PROVE  /\ cursors[s] >= M(Len(rows)).rows[s].offset
                 /\ M(Len(rows)).rows[s].closed = (s \in complete)
      <4>1. /\ cursors[s] >= M(Len(rows)).rows[s].offset
            /\ binding[s].closed => s \in complete
        BY <3>2, <3>5 DEF ReadTo
      <4>2. binding[s].closed = (s \in complete)
        BY <3>2, <3>4, <4>1
      <4> QED
        BY <3>2, <4>1, <4>2
    <3> QED
      BY <2>7, <3>3, <3>5
  <2> QED
    BY <2>6, <2>7
<1> QED
  BY <1>1, <1>2

(***************************************************************************)
(* For any sources, any page limits and any number of changes, compactions *)
(* and stops, as long as no stop lost a snapshot: the reads that a wake    *)
(* consumer makes of a source join up (wake.ts: wakeActions, from), and at *)
(* the end of the wake stream it has what the rows of a State stream       *)
(* amount to (durable-state.ts: materialize).                              *)
(***************************************************************************)
THEOREM WakeReadsJoinUp == T!Spec => []ReadsJoinUp
<1>1. T!Init => WakeInv
  BY WakeInvAtFirst
<1>2. WakeInv /\ [T!Next]_T!vars => WakeInv'
  BY WakeInvStays
<1>3. WakeInv => ReadsJoinUp
  BY WakeInvSays
<1> QED
  BY <1>1, <1>2, <1>3, PTL DEF T!Spec

THEOREM WakeCopyMirrors == T!Spec => []Mirrors
<1>1. T!Init => WakeInv
  BY WakeInvAtFirst
<1>2. WakeInv /\ [T!Next]_T!vars => WakeInv'
  BY WakeInvStays
<1>3. WakeInv => Mirrors
  BY WakeInvSays
<1> QED
  BY <1>1, <1>2, <1>3, PTL DEF T!Spec
=============================================================================
