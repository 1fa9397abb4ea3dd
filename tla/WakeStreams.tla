----------------------------- MODULE WakeStreams -----------------------------
(***************************************************************************)
(* Wake streams (packages/core/src/toolkit/wake.ts, durable-state.ts and   *)
(* packages/projection/src/wake.ts): a family of source streams, one State *)
(* stream whose rows are their tails, written by one projection binding    *)
(* for each source, and a consumer that keeps a copy of every source by    *)
(* following the wake stream only.                                         *)
(*                                                                         *)
(* A unit of a binding is one step: ProjectionPass shows that its output   *)
(* gets it once.  A compactor may write the rows again behind a reset or   *)
(* as a snapshot: none is in the repository, the consumer is ready for     *)
(* one.  The consumer handles the items of a batch one after the other,    *)
(* saves what each changed, then saves the wake cursor, and may stop       *)
(* between any two.  Sources are not created again: the documentation      *)
(* forbids it.                                                             *)
(***************************************************************************)
EXTENDS WakeState

saved == <<cursors, held, complete, wakeCursor>>
counters == <<changes, compactions, stops>>
vars == <<source, binding, rows, limit, saved, consumer, lapsed, counters>>

Max2(a, b) == IF a > b THEN a ELSE b
Min2(a, b) == IF a < b THEN a ELSE b
-----------------------------------------------------------------------------
\* turn: the order of the last item that was handled.
Down == [at |-> "down", items |-> {}, turn |-> 0, next |-> 0, snapshot |-> None, after |-> None]

Init ==
  /\ source = [s \in Sources |-> [tail |-> 0, closed |-> FALSE, gone |-> FALSE]]
  /\ binding = [s \in Sources |-> [offset |-> Unread, closed |-> FALSE, ended |-> FALSE]]
  /\ rows = <<>> /\ limit \in Limits
  /\ cursors = [s \in Sources |-> Unread] /\ held = [s \in Sources |-> {}]
  /\ complete = {} /\ wakeCursor = 0
  /\ consumer = Down /\ lapsed = FALSE
  /\ changes = 0 /\ compactions = 0 /\ stops = 0

(***************************************************************************)
(* The sources, written, closed and removed by others.                     *)
(***************************************************************************)
Change(s, to) ==
  /\ changes < MaxChanges /\ changes' = changes + 1
  /\ source' = [source EXCEPT ![s] = to]
  /\ UNCHANGED <<binding, rows, limit, saved, consumer, lapsed, compactions, stops>>

Produce(s) == ~source[s].gone /\ ~source[s].closed /\ Change(s, [source[s] EXCEPT !.tail = @ + 1])
Close(s) == ~source[s].gone /\ ~source[s].closed /\ Change(s, [source[s] EXCEPT !.closed = TRUE])
RemoveSource(s) == ~source[s].gone /\ Change(s, [source[s] EXCEPT !.gone = TRUE])

(***************************************************************************)
(* A unit of the binding of a source: one row with the tail it read to, or *)
(* a delete and the end of a binding that had a record.                    *)
(***************************************************************************)
Write(messages) == rows' = rows \o messages

Advance(s) ==
  /\ ~source[s].gone
  /\ Max2(binding[s].offset, 0) < source[s].tail \/ (source[s].closed /\ ~binding[s].closed)
  /\ Write(<<UpsertRow(s, source[s].tail, source[s].closed)>>)
  /\ binding' = [binding EXCEPT ![s].offset = source[s].tail, ![s].closed = source[s].closed]

End(s) ==
  /\ source[s].gone /\ binding[s].offset # Unread
  /\ Write(<<DeleteRow(s)>>)
  /\ binding' = [binding EXCEPT ![s].ended = TRUE]

Unit(s) ==
  /\ ~binding[s].ended
  /\ Advance(s) \/ End(s)
  /\ UNCHANGED <<source, limit, saved, consumer, lapsed, counters>>

(***************************************************************************)
(* A compactor: what the rows amount to, behind a reset or as a snapshot,  *)
(* in one append to the wake stream it has read.                           *)
(***************************************************************************)
Listings(live) ==
  {list \in [1..Cardinality(live) -> live] : \A s \in live : \E k \in DOMAIN list : list[k] = s}

Compact ==
  LET latest == Materialize(rows).rows IN
  /\ compactions < MaxCompactions /\ rows # <<>>
  /\ compactions' = compactions + 1
  /\ \E list \in Listings({s \in Sources : latest[s] # None}) :
       LET upserts == [k \in DOMAIN list |-> latest[list[k]]] IN
         \/ Write(<<ControlRow("reset")>> \o upserts)
         \/ Write(<<ControlRow("snapshot-start")>> \o upserts \o <<ControlRow("snapshot-end")>>)
  /\ UNCHANGED <<source, binding, limit, saved, consumer, lapsed, changes, stops>>
-----------------------------------------------------------------------------
(***************************************************************************)
(* The consumer: followWake from the saved wake cursor, with no snapshot   *)
(* open at first.                                                          *)
(***************************************************************************)
Begin ==
  /\ consumer.at = "down"
  /\ consumer' = [Down EXCEPT !.at = "follow"]
  /\ UNCHANGED <<source, binding, rows, limit, saved, lapsed, counters>>

Follow ==
  /\ consumer.at = "follow" /\ wakeCursor < Len(rows)
  /\ LET next == Min2(wakeCursor + limit, Len(rows))
         batch == WakeActions(wakeCursor, next, cursors, consumer.snapshot)
     IN  consumer' = [consumer EXCEPT !.at = "handle", !.items = batch.items, !.turn = 0,
                                      !.next = next, !.after = batch.snapshot]
  /\ UNCHANGED <<source, binding, rows, limit, saved, lapsed, counters>>

\* Forget sources: the cursor, with it what was read up to there.
Drop(streams) ==
  /\ cursors' = [s \in Sources |-> IF s \in streams THEN Unread ELSE cursors[s]]
  /\ held' = [s \in Sources |-> IF s \in streams THEN {} ELSE held[s]]
  /\ complete' = complete \ streams

\* Read a source from an offset up to at least that of the row, then save its cursor.  A
\* source that is gone by then has nothing to read.
Read(item) ==
  LET s == item.stream IN
    IF source[s].gone THEN UNCHANGED <<cursors, held, complete>>
    ELSE \E tail \in {Max2(item.from, item.offset), source[s].tail} :
           /\ cursors' = [cursors EXCEPT ![s] = tail]
           /\ held' = [held EXCEPT
                ![s] = (IF item.from = Unread THEN {} ELSE @) \union (Max2(item.from, 0) + 1)..tail]
           /\ complete' = IF item.closed THEN complete \union {s} ELSE complete

IsNext(item) ==
  /\ item.order > consumer.turn
  /\ \A other \in consumer.items : other.order > consumer.turn => item.order <= other.order

Handle ==
  /\ consumer.at = "handle"
  /\ \E item \in consumer.items :
       /\ IsNext(item)
       /\ \/ item.tag = "dirty" /\ Read(item)
          \/ item.tag = "removed" /\ Drop({item.stream})
          \/ item.tag = "reset" /\ Drop(Sources)
          \/ item.tag = "snapshot" /\ Drop(Sources \ item.streams)
       /\ consumer' = [consumer EXCEPT !.turn = item.order]
  /\ UNCHANGED <<source, binding, rows, limit, wakeCursor, lapsed, counters>>

Save ==
  /\ consumer.at = "handle" /\ ~\E item \in consumer.items : IsNext(item)
  /\ wakeCursor' = consumer.next
  /\ consumer' = [Down EXCEPT !.at = "follow", !.snapshot = consumer.after]
  /\ UNCHANGED <<source, binding, rows, limit, cursors, held, complete, lapsed, counters>>

(***************************************************************************)
(* The consumer stops, or fails.  An open snapshot is in memory only; and  *)
(* a batch that is handled again from a snapshot on finds cursors saved    *)
(* past the rows after it, drops them and does not read those rows again.  *)
(***************************************************************************)
Lapses ==
  \/ consumer.snapshot # None
  \/ \E i, j \in consumer.items :
       /\ i.order < j.order /\ j.order <= consumer.turn
       /\ i.tag = "snapshot" /\ j.tag = "dirty"

Stop ==
  /\ consumer.at # "down" /\ stops < MaxStops
  /\ stops' = stops + 1
  /\ consumer' = Down
  /\ lapsed' = (lapsed \/ Lapses)
  /\ UNCHANGED <<source, binding, rows, limit, saved, changes, compactions>>
-----------------------------------------------------------------------------
Consumes == Begin \/ Follow \/ Handle \/ Save

Next ==
  \/ \E s \in Sources : Produce(s) \/ Close(s) \/ RemoveSource(s) \/ Unit(s)
  \/ Compact \/ Consumes \/ Stop

Spec == Init /\ [][Next]_vars

\* An attached runner runs the bindings, and whoever runs the consumer starts it again.
Fairness == WF_vars(Consumes) /\ \A s \in Sources : WF_vars(Unit(s))

FairSpec == Spec /\ Fairness
-----------------------------------------------------------------------------
(***************************************************************************)
(* A consumer that reads only the sources that rows name ends up with all  *)
(* of them, and with nothing of those that are gone.                       *)
(***************************************************************************)
UpToDate(s) ==
  /\ held[s] = IF source[s].gone THEN {} ELSE 1..source[s].tail
  /\ (s \in complete) = (source[s].closed /\ ~source[s].gone)

CopyConverges == <>[](lapsed \/ \A s \in Sources : UpToDate(s))
=============================================================================
