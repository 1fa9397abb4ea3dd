----------------------------- MODULE StreamTree -----------------------------
(***************************************************************************)
(* The table of streams that forks make a forest of, and what both         *)
(* storages do with it (packages/core/src/storage/memory, packages/        *)
(* storage/src/storage.ts).  A fork names its parent and the offset up to  *)
(* which it reads the parent's messages instead of holding its own.        *)
(***************************************************************************)
EXTENDS Naturals, FiniteSets

CONSTANTS Ids,  \* the ids of streams
          None  \* no stream, no parent

ASSUME NoneAssumption == None \notin Ids

(***************************************************************************)
(* A message: its offset, and what it says, which is which stream of all   *)
(* that ever were it was first written to, and where.  Offsets count       *)
(* messages.                                                               *)
(***************************************************************************)
Message == [offset : Nat, data : Nat \X Nat]

Entry == [parent : Ids \cup {None}, at : Nat, tail : Nat, softDeleted : BOOLEAN,
          log : SUBSET Message]

ASSUME EntryAssumption == None \notin Entry

Table == [Ids -> Entry \cup {None}]

Present(table) == {id \in Ids : table[id] # None}
Live(table) == {id \in Present(table) : ~table[id].softDeleted}

UpTo(messages, at) == {m \in messages : m.offset <= at}
After(messages, at) == {m \in messages : m.offset > at}

\* The forks that read a stream.
Dependents(table, id) == {c \in Present(table) : table[c].parent = id}

\* The source of a fork, if it names one, must still be what it was planned on.
SourceGone(table, source, at) ==
  source # None /\ (source \notin Live(table) \/ table[source].tail < at)

\* n new messages of the stream whose number is origin, after offset tail.
Written(tail, n, origin) ==
  {[offset |-> tail + k, data |-> <<origin, tail + k>>] : k \in 1..n}

(***************************************************************************)
(* What a purge of id takes along: every soft-deleted stream all of whose  *)
(* forks go.  The code walks from id up to the first parent that stays.    *)
(***************************************************************************)
Freed(table, children, gone, x) ==
  /\ x \in Present(table) /\ table[x].softDeleted
  /\ children[x] # {} /\ children[x] \subseteq gone

Reclaims(table, children, id, gone) ==
  /\ id \in gone
  /\ \A x \in Ids : x \in gone <=> x = id \/ Freed(table, children, gone, x)

Without(table, gone) == [id \in Ids |-> IF id \in gone THEN None ELSE table[id]]

\* The messages of every stream, inherited ones included, as the memory storage
\* composes them.
Composed(table) ==
  LET messages[id \in Ids] ==
        IF table[id] = None THEN {}
        ELSE table[id].log
             \cup (IF table[id].parent = None THEN {}
                   ELSE UpTo(messages[table[id].parent], table[id].at))
  IN  messages

(***************************************************************************)
(* The same as the SQL storage reads them.  It walks up the parents and    *)
(* bounds each by the fork offset of the child just below it, whatever the *)
(* bounds further down.                                                    *)
(***************************************************************************)
SqlComposed(table) ==
  LET segments[id \in Ids] ==
        IF table[id] = None THEN {}
        ELSE table[id].log
             \cup (IF table[id].parent \notin Present(table) THEN {}
                   ELSE UpTo(table[table[id].parent].log, table[id].at)
                        \cup (segments[table[id].parent] \ table[table[id].parent].log))
  IN  segments
=============================================================================
