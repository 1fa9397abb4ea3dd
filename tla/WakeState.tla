------------------------------ MODULE WakeState ------------------------------
(***************************************************************************)
(* Wake streams (packages/core/src/toolkit/wake.ts, durable-state.ts): what*)
(* their messages amount to, what a batch of them asks of a consumer       *)
(* (wakeActions), and what the consumer's copy of the sources promises.    *)
(* WakeStreams has the actions.                                            *)
(*                                                                         *)
(* An offset is a count of messages; Unread is "-1".                       *)
(***************************************************************************)
EXTENDS Integers, Sequences, FiniteSets

CONSTANTS
  Sources,         \* the source streams
  None,            \* no row, no open snapshot
  Limits,          \* how many messages a page of the wake stream may hold
  MaxChanges,      \* bound on the messages, closes and removals of sources
  MaxCompactions,  \* bound on how often the wake stream is compacted
  MaxStops         \* bound on how often the consumer stops

ASSUME WakeAssumption ==
  /\ IsFiniteSet(Sources)
  /\ Limits \subseteq Nat \ {0}
  /\ \A streams \in SUBSET Sources : None # streams
  /\ None \notin [kind : {"upsert"}, stream : Sources, offset : Nat, closed : BOOLEAN]

VARIABLES
  source,    \* the source streams
  binding,   \* the checkpoint of each binding
  rows,      \* the messages of the wake stream
  limit,     \* the page limit of the wake stream's storage
  cursors,   \* consumer, saved: how far each source is read, Unread for no entry
  held,      \* consumer, saved: the messages it holds of each source
  complete,  \* consumer, saved: the sources it was told are closed
  wakeCursor,\* consumer, saved: how much of the wake stream is handled
  consumer,  \* consumer, in memory: the batch it handles, the open snapshot
  \* Counters and history:
  lapsed,    \* a stop lost what a snapshot has to say
  changes, compactions, stops
-----------------------------------------------------------------------------
Unread == -1

\* A recursion binds the result before it to a variable, so that TLC computes it once.
Only(S) == CHOOSE x \in S : TRUE

(***************************************************************************)
(* The messages of a wake stream.                                          *)
(***************************************************************************)
UpsertRow(s, offset, isClosed) ==
  [kind |-> "upsert", stream |-> s, offset |-> offset, closed |-> isClosed]
DeleteRow(s) == [kind |-> "delete", stream |-> s]
ControlRow(name) == [kind |-> name]

\* materialize: the latest row of each stream; the end of a snapshot removes the rows that
\* no change since its start named.
NoRows == [rows |-> [s \in Sources |-> None], snapshot |-> None]

Noted(snapshot, names) == IF snapshot = None THEN None ELSE names

Applied(state, event) ==
  CASE event.kind = "reset" -> NoRows
    [] event.kind = "snapshot-start" -> [state EXCEPT !.snapshot = {}]
    [] event.kind = "snapshot-end" ->
         IF state.snapshot = None THEN state
         ELSE [rows |-> [s \in Sources |-> IF s \in state.snapshot THEN state.rows[s] ELSE None],
               snapshot |-> None]
    [] event.kind = "upsert" ->
         [rows |-> [state.rows EXCEPT ![event.stream] = event],
          snapshot |-> Noted(state.snapshot, state.snapshot \union {event.stream})]
    [] event.kind = "delete" ->
         [rows |-> [state.rows EXCEPT ![event.stream] = None],
          snapshot |-> Noted(state.snapshot, state.snapshot \ {event.stream})]

\* What the first n messages amount to.
Materialized(events, n) ==
  LET after[k \in 0..n] ==
        IF k = 0 THEN NoRows ELSE Only({Applied(state, events[k]) : state \in {after[k - 1]}})
  IN  after[n]

Materialize(events) == Materialized(events, Len(events))

(***************************************************************************)
(* wakeActions: what a batch asks of a consumer with these cursors and     *)
(* this open snapshot.  The rows of a stream collapse to one entry of      *)
(* "pending", which is its items; they are due at the end of the batch or  *)
(* of a snapshot, in the order of the last rows of their streams, which    *)
(* "order" has: 2n for the row at n, 2n + 1 for what is read after a drop. *)
(***************************************************************************)
DirtyItem(n, row, from) ==
  [tag |-> "dirty", order |-> 2 * n + 1, stream |-> row.stream, from |-> from,
   offset |-> row.offset, closed |-> row.closed]
RemovedItem(n, s) == [tag |-> "removed", order |-> 2 * n, stream |-> s]
ResetItem(n) == [tag |-> "reset", order |-> 2 * n]
SnapshotItem(n, streams) == [tag |-> "snapshot", order |-> 2 * n, streams |-> streams]

Flushed(acc) == acc.items \union acc.pending

\* Pending without stream s, and whether s was removed in this batch.
Others(acc, s) == {item \in acc.pending : item.stream # s}
WasRemoved(acc, s) == \E item \in acc.pending : item.stream = s /\ item.tag = "removed"

\* A slip: a stream is read on from its saved cursor although the batch drops that.
BaseSaved(acc, s, known) == known[s]

\* Where the reads of a stream start over or go on.
Base(acc, s, known) == IF WasRemoved(acc, s) \/ acc.reset THEN Unread ELSE known[s]

\* A slip: a row at the saved cursor says nothing new.
WantsNews(row, base) == row.offset > base

Wants(row, base) == row.offset > base \/ row.closed

OnUpsert(acc, n, known) ==
  LET row == rows[n]
      s == row.stream
      base == Base(acc, s, known)
  IN  [acc EXCEPT
         !.pending = Others(acc, s)
           \union (IF WasRemoved(acc, s) THEN {RemovedItem(n, s)} ELSE {})
           \union (IF Wants(row, base) THEN {DirtyItem(n, row, base)} ELSE {}),
         !.open = Noted(@, @ \union {s})]

OnDelete(acc, n, s) ==
  [acc EXCEPT !.pending = Others(acc, s) \union {RemovedItem(n, s)}, !.open = Noted(@, @ \ {s})]

\* A slip: the streams that the snapshot names are not worked through before its end.
OnSnapshotEndUnflushed(acc, n) ==
  IF acc.open = None THEN acc
  ELSE [acc EXCEPT !.items = @ \union {SnapshotItem(n, acc.open)}, !.pending = {}, !.open = None]

OnSnapshotEnd(acc, n) ==
  IF acc.open = None THEN acc
  ELSE [acc EXCEPT !.items = Flushed(acc) \union {SnapshotItem(n, acc.open)}, !.pending = {},
                   !.open = None]

OnEvent(acc, n, known) ==
  CASE rows[n].kind = "reset" ->
         [items |-> {ResetItem(n)}, pending |-> {}, reset |-> TRUE, open |-> None]
    [] rows[n].kind = "snapshot-start" -> [acc EXCEPT !.open = {}]
    [] rows[n].kind = "snapshot-end" -> OnSnapshotEnd(acc, n)
    [] rows[n].kind = "upsert" -> OnUpsert(acc, n, known)
    [] rows[n].kind = "delete" -> OnDelete(acc, n, rows[n].stream)

\* The items of the rows after the first ones, up to the last.
Worked(first, last, known, snapshot) ==
  LET after[n \in first..last] ==
        IF n = first THEN [items |-> {}, pending |-> {}, reset |-> FALSE, open |-> snapshot]
        ELSE Only({OnEvent(acc, n, known) : acc \in {after[n - 1]}})
  IN  after[last]

WakeActions(first, last, known, snapshot) ==
  LET acc == Worked(first, last, known, snapshot)
  IN  [items |-> Flushed(acc), snapshot |-> acc.open]
-----------------------------------------------------------------------------
(***************************************************************************)
(* The reads that the items ask for join up: whatever was dropped, stopped *)
(* or repeated, what is held of a source has no gap and a saved cursor is  *)
(* not past it; without a cursor nothing is held (wake.ts: from).  More    *)
(* may be held: two items of a batch may read from the same saved cursor,  *)
(* the first of them further than the second.                              *)
(***************************************************************************)
ReadsJoinUp ==
  ~lapsed => \A s \in Sources :
    IF cursors[s] = Unread THEN held[s] = {}
    ELSE \E n \in cursors[s]..source[s].tail : held[s] = 1..n

(***************************************************************************)
(* At the end of the wake stream the consumer has what the rows amount to  *)
(* by the rules of a State stream (durable-state.ts: materialize): a       *)
(* cursor for each stream with a row and for no other, at or past its row, *)
(* and it knows which are closed.                                          *)
(***************************************************************************)
Mirrors ==
  (consumer.at = "follow" /\ wakeCursor = Len(rows) /\ ~lapsed) =>
    LET latest == Materialize(rows).rows IN
      \A s \in Sources :
        IF latest[s] = None THEN cursors[s] = Unread
        ELSE source[s].gone \/ /\ cursors[s] >= latest[s].offset
                               /\ latest[s].closed = (s \in complete)
=============================================================================
