---------------------------- MODULE SqlMutations ----------------------------
(***************************************************************************)
(* Mutations of the SQL storage as transactions (packages/storage/src/     *)
(* storage.ts applyMutation, boundary.ts ownedTransaction and mutation,    *)
(* transaction-retry.ts), on Postgres at READ COMMITTED: every statement   *)
(* is a step, sees what is committed when it runs and what its own         *)
(* transaction wrote, and waits for the rows another transaction locked.   *)
(* A mutation comes from a plan of the protocol, as old as it likes.       *)
(***************************************************************************)
EXTENDS StreamTree

CONSTANTS Callers,
          Order,        \* how ids sort
          Forests,      \* the streams the database may hold at the start
          Reuse,        \* whether the id of a purged stream is created again
          Attempts,     \* transactionRetryAttempts
          MaxMutations, \* bound: mutations in a behaviour
          MaxTail       \* bound: messages of a stream

\* What mutations leave behind: a fork's parent is there and has the messages, a
\* soft-deleted stream has forks, and a stream was given what it wrote and its part of
\* what its parent was given.
Sound(forest, given) ==
  /\ \A id \in Ids : forest[id] = None => given[id] = {}
  /\ \A id \in Present(forest) :
       LET row == forest[id]
       IN  /\ row.softDeleted => Dependents(forest, id) # {}
           /\ \A m \in row.log : m.offset <= row.tail
           /\ row.parent = None => given[id] = row.log
           /\ row.parent # None =>
                /\ row.parent \in Present(forest) /\ row.at <= forest[row.parent].tail
                /\ row.at <= row.tail
                /\ \A m \in row.log : m.offset > row.at
                /\ given[id] = row.log \cup UpTo(given[row.parent], row.at)

\* A stream is older than its forks.
Aged(forest, ages) ==
  \E age \in [Ids -> ages] :
    \A id \in Present(forest) : forest[id].parent # None => age[forest[id].parent] < age[id]

ASSUME SqlAssumption ==
  /\ None \notin Callers
  /\ Reuse \in BOOLEAN /\ Attempts \in Nat \ {0}
  /\ MaxMutations \in Nat /\ MaxTail \in Nat

ASSUME OrderAssumption ==
  /\ IsFiniteSet(Ids) /\ Order \in [Ids -> 1..Cardinality(Ids)]
  /\ \A x, y \in Ids : Order[x] = Order[y] => x = y

ASSUME ForestAssumption ==
  \A forest \in Forests :
    /\ forest \in Table /\ Composed(forest) \in [Ids -> SUBSET Message]
    /\ Sound(forest, Composed(forest)) /\ Aged(forest, 0..Cardinality(Ids))

VARIABLES
  table,    \* the committed rows of streamsy_streams and streamsy_messages
  lock,     \* the transaction that holds each row, None if free
  tx,       \* the mutation each caller runs, None if none
  lied,     \* history: whether an answer was untrue
  held,     \* history: the messages each stream was given (Lineage)
  known,    \* history: the ids that were ever created
  started   \* history: how many mutations were started

vars == <<table, lock, tx, lied, held, known, started>>
committed == <<table, held, known>>

\* touch is the Append of a renewal or a close: it carries no message and so sets
\* no tail, but writes back the tail it read with the rest of the record.
Operations ==
  [tag : {"create"}, id : Ids, source : Ids \cup {None}, at : 0..MaxTail, size : 0..1]
  \cup {op \in [tag : {"append", "touch"}, id : Ids, expected : 0..MaxTail] :
          op.tag = "append" => op.expected < MaxTail}
  \cup [tag : {"delete"}, id : Ids]

Place == {"begin", "lock", "source", "insert", "read", "write", "ascend", "parent", "commit"}

\* A transaction: todo are the rows its present statement is yet to lock, seen
\* and soft what it read, wrote what it has written, None for a deleted row.
Writings == UNION {[ids -> Entry \cup {None}] : ids \in SUBSET Ids}

Transaction ==
  [op : Operations, number : Nat, attempt : Nat, pc : Place, todo : SUBSET Ids,
   seen : Entry \cup {None}, soft : BOOLEAN, parent : Ids \cup {None},
   wrote : Writings, applied : Nat]

ASSUME TransactionAssumption == None \notin Transaction

Wrote(id, row) == [x \in {id} |-> row]
Unwritten == [x \in {} |-> None]

Started(op, number, attempt) ==
  [op |-> op, number |-> number, attempt |-> attempt, pc |-> "begin", todo |-> {},
   seen |-> None, soft |-> FALSE, parent |-> None, wrote |-> Unwritten, applied |-> 0]

Init ==
  /\ table \in Forests
  /\ lock = [id \in Ids |-> None]
  /\ tx = [c \in Callers |-> None]
  /\ lied = FALSE
  /\ held = Composed(table) /\ known = Present(table) /\ started = 0

At(c, pc) == tx[c] # None /\ tx[c].pc = pc

\* c has written the row, and not committed.
Writes(c, id) == IF tx[c] = None THEN FALSE ELSE id \in DOMAIN tx[c].wrote

\* What a statement of c sees.
Seen(c) == [id \in Ids |-> IF id \in DOMAIN tx[c].wrote THEN tx[c].wrote[id] ELSE table[id]]

-----------------------------------------------------------------------------
(* How a transaction ends.                                                 *)

Unlocked(c) == [id \in Ids |-> IF lock[id] = c THEN None ELSE lock[id]]

\* What an answer says of how often the mutation was applied: a mutation that died
\* says nothing but that it was not repeated.
Truthful(outcome, applied) ==
  CASE outcome = "applied" -> applied = 1
    [] outcome \in {"rejected", "fault"} -> applied = 0
    [] outcome = "died" -> applied \in {0, 1}

End(c, outcome, applied) ==
  /\ lock' = Unlocked(c)
  /\ tx' = [tx EXCEPT ![c] = None]
  /\ lied' = (lied \/ ~Truthful(outcome, applied))

\* A failure that is retryable, and known to have been rolled back, starts the
\* mutation again while attempts are left.
RollBack(c) ==
  /\ IF tx[c].attempt < Attempts
     THEN /\ lock' = Unlocked(c)
          /\ tx' = [tx EXCEPT ![c] =
                      [Started(@.op, @.number, @.attempt + 1) EXCEPT !.applied = tx[c].applied]]
          /\ UNCHANGED lied
     ELSE End(c, "fault", tx[c].applied)
  /\ UNCHANGED <<committed, started>>

Reject(c) == End(c, "rejected", tx[c].applied) /\ UNCHANGED <<committed, started>>

-----------------------------------------------------------------------------
(* applyMutation.                                                          *)

\* Another create of the fork, planned with this one, was faster.
Overtaken(op) ==
  /\ op.source # None /\ op.id \in Live(table)
  /\ table[op.id].parent = op.source /\ table[op.id].at = op.at

\* The protocol plans on records it has read, so on streams that were created.
Mutate(c) ==
  /\ tx[c] = None /\ started < MaxMutations
  /\ \E op \in Operations :
       /\ IF op.tag = "create"
          THEN /\ op.source \in known \cup {None} /\ op.source # op.id
               /\ op.source = None => op.at = 0
               /\ op.at + op.size <= MaxTail
               /\ Reuse \/ op.id \notin known \/ Overtaken(op)
          ELSE op.id \in known
       /\ tx' = [tx EXCEPT ![c] = Started(op, started + 1, 1)]
  /\ started' = started + 1
  /\ UNCHANGED <<committed, lock, lied>>

\* A slip: the source of a fork is not locked.
LockTarget(op) == {op.id}

\* The stream, and the source of a fork.
LockIds(op) == {op.id} \cup (IF op.tag = "create" /\ op.source # None THEN {op.source} ELSE {})

\* Those of them that must be there.
Needs(op) == IF op.tag = "create" THEN {op.source} \ {None} ELSE {op.id}

\* lockStreams: the statement locks the rows it finds when it begins.
BeginLock(c) ==
  /\ At(c, "begin")
  /\ tx' = [tx EXCEPT ![c].todo = LockIds(tx[c].op) \cap Present(table), ![c].pc = "lock"]
  /\ UNCHANGED <<committed, lock, lied, started>>

\* A slip: the ids are not sorted.
LockAnyRow(c) ==
  /\ At(c, "lock")
  /\ \E id \in tx[c].todo :
       /\ lock[id] \in {None, c}
       /\ lock' = [lock EXCEPT ![id] = IF table[id] = None THEN None ELSE c]
       /\ tx' = [tx EXCEPT ![c].todo = @ \ {id}]
  /\ UNCHANGED <<committed, lied, started>>

First(ids) == {id \in ids : \A other \in ids : Order[id] <= Order[other]}

\* One row after the other in the order of their ids, waiting for each; a row deleted
\* meanwhile is skipped.
LockRow(c) ==
  /\ At(c, "lock")
  /\ \E id \in First(tx[c].todo) :
       /\ lock[id] \in {None, c}
       /\ lock' = [lock EXCEPT ![id] = IF table[id] = None THEN None ELSE c]
       /\ tx' = [tx EXCEPT ![c].todo = @ \ {id}]
  /\ UNCHANGED <<committed, lied, started>>

\* preflight: the read of the stream itself.
Preflight(c) ==
  LET op == tx[c].op
      row == table[op.id]
      refused == IF op.tag = "create" THEN row # None
                 ELSE IF row = None THEN TRUE
                 ELSE row.softDeleted \/ (op.tag # "delete" /\ op.expected # row.tail)
  IN  /\ At(c, "lock") /\ tx[c].todo = {}
      /\ IF refused THEN Reject(c)
         ELSE /\ tx' = [tx EXCEPT ![c].pc =
                          IF op.tag # "create" THEN "read"
                          ELSE IF op.source = None THEN "insert" ELSE "source"]
              /\ UNCHANGED <<committed, lock, lied, started>>

\* preflight: the read of the source of a fork.
PreflightSource(c) ==
  LET op == tx[c].op
  IN  /\ At(c, "source")
      /\ IF SourceGone(table, op.source, op.at) THEN Reject(c)
         ELSE /\ tx' = [tx EXCEPT ![c].pc = "insert"]
              /\ UNCHANGED <<committed, lock, lied, started>>

Created(op, number) ==
  [parent |-> op.source, at |-> op.at, tail |-> op.at + op.size, softDeleted |-> FALSE,
   log |-> Written(op.at, op.size, number)]

\* insertRecord waits for a transaction that inserted or deleted the same key; a
\* row that is there then is a UniqueViolation, which createFault makes retryable.
Insert(c) ==
  LET id == tx[c].op.id
  IN  /\ At(c, "insert")
      /\ \A d \in Callers \ {c} : ~Writes(d, id)
      /\ IF table[id] # None THEN RollBack(c)
         ELSE /\ tx' = [tx EXCEPT ![c].wrote = Wrote(id, Created(tx[c].op, tx[c].number)),
                                  ![c].pc = "commit"]
              /\ lock' = [lock EXCEPT ![id] = c]
              /\ UNCHANGED <<committed, lied, started>>

\* The record is read again, and for a delete whether forks read the stream.
ReadRow(c) ==
  LET id == tx[c].op.id
  IN  /\ At(c, "read")
      /\ IF table[id] = None THEN End(c, "died", 0) /\ UNCHANGED <<committed, started>>
         ELSE /\ tx' = [tx EXCEPT ![c].seen = table[id], ![c].pc = "write",
                                  ![c].soft = Dependents(table, id) # {}]
              /\ UNCHANGED <<committed, lock, lied, started>>

\* The row is written as it was read, with the patch; log are the messages that
\* are inserted.  None of it deletes a fork's messages: a stream with forks stays.
Patched(c) ==
  LET t == tx[c]
  IN  CASE t.op.tag = "append" -> [t.seen EXCEPT !.tail = t.op.expected + 1,
                                    !.log = Written(t.op.expected, 1, t.number)]
        [] t.op.tag = "touch" -> [t.seen EXCEPT !.log = {}]
        [] t.op.tag = "delete" /\ t.soft -> [t.seen EXCEPT !.softDeleted = TRUE, !.log = {}]
        [] OTHER -> None

\* An UPDATE or DELETE waits for its row.  A message whose key is taken fails the
\* mutation; a row that is gone is not updated.
WriteRow(c) ==
  LET id == tx[c].op.id
      row == Patched(c)
      taken == /\ row # None /\ table[id] # None
               /\ \E m \in row.log, n \in table[id].log : m.offset = n.offset
  IN  /\ At(c, "write") /\ lock[id] \in {None, c}
      /\ IF taken THEN End(c, "fault", tx[c].applied) /\ UNCHANGED <<committed, started>>
         ELSE /\ lock' = [lock EXCEPT ![id] = c]
              /\ tx' = [tx EXCEPT
                   ![c].wrote = IF table[id] = None THEN Unwritten ELSE Wrote(id, row),
                   ![c].parent = IF row = None THEN tx[c].seen.parent ELSE None,
                   ![c].pc = IF row = None /\ tx[c].seen.parent # None
                             THEN "ascend" ELSE "commit"]
              /\ UNCHANGED <<committed, lied, started>>

\* A slip: nothing waits for another fork of the parent that is being purged.
LockNoParent(c) ==
  /\ At(c, "ascend")
  /\ tx' = [tx EXCEPT ![c].pc = "parent"]
  /\ UNCHANGED <<committed, lock, lied, started>>

\* purge: the parent of what was deleted is locked first (waiting for another
\* fork of it that is being purged), ...
LockParent(c) ==
  LET id == tx[c].parent
  IN  /\ At(c, "ascend") /\ lock[id] \in {None, c}
      /\ lock' = [lock EXCEPT ![id] = IF table[id] = None THEN None ELSE c]
      /\ tx' = [tx EXCEPT ![c].pc = "parent"]
      /\ UNCHANGED <<committed, lied, started>>

Unwrite(wrote, id) == [x \in DOMAIN wrote \cup {id} |-> IF x = id THEN None ELSE wrote[x]]

\* ... and goes too if it is soft-deleted and this was its last fork.
PurgeParent(c) ==
  LET id == tx[c].parent
      row == Seen(c)[id]
      stays == IF row = None THEN TRUE
               ELSE ~row.softDeleted \/ Dependents(Seen(c), id) # {}
  IN  /\ At(c, "parent")
      /\ tx' = IF stays THEN [tx EXCEPT ![c].pc = "commit"]
               ELSE [tx EXCEPT ![c].wrote = Unwrite(@, id), ![c].parent = row.parent,
                               ![c].pc = IF row.parent = None THEN "commit" ELSE "ascend"]
      /\ UNCHANGED <<committed, lock, lied, started>>

-----------------------------------------------------------------------------
(* COMMIT, and what can go wrong.                                          *)

\* The rows as the transaction leaves them: a written record replaces the old one,
\* messages are added to those that are there.
Merged(c) ==
  [id \in Ids |->
     IF id \notin DOMAIN tx[c].wrote THEN table[id]
     ELSE LET row == tx[c].wrote[id]
          IN  IF row = None THEN None
              ELSE [row EXCEPT !.log = @ \cup (IF table[id] = None THEN {} ELSE table[id].log)]]

Apply(c) ==
  LET given(row) == IF row.parent = None THEN {} ELSE UpTo(held[row.parent], row.at)
  IN  /\ table' = Merged(c)
      /\ held' = [id \in Ids |->
           IF id \notin DOMAIN tx[c].wrote THEN held[id]
           ELSE LET row == tx[c].wrote[id]
                IN  IF row = None THEN {}
                    ELSE IF table[id] = None THEN row.log \cup given(row)
                    ELSE held[id] \cup row.log]
      /\ known' = known \cup {id \in Ids : table'[id] # None}

Commit(c) ==
  /\ At(c, "commit")
  /\ Apply(c)
  /\ End(c, "applied", tx[c].applied + 1)
  /\ UNCHANGED started

\* A slip: a failed COMMIT is repeated like any other failure.
LoseAndRetry(c) ==
  /\ At(c, "commit") /\ tx[c].attempt < Attempts
  /\ Apply(c)
  /\ lock' = Unlocked(c)
  /\ tx' = [tx EXCEPT ![c] = [Started(@.op, @.number, @.attempt + 1) EXCEPT
                                !.applied = tx[c].applied + 1]]
  /\ UNCHANGED <<lied, started>>

\* The answer of COMMIT is lost: whether or not it took place, the mutation dies
\* and is not repeated.
LoseCommit(c) ==
  /\ At(c, "commit")
  /\ \/ Apply(c) /\ End(c, "died", tx[c].applied + 1)
     \/ UNCHANGED committed /\ End(c, "died", tx[c].applied)
  /\ UNCHANGED started

\* A connection or serialization error before COMMIT.
Fail(c) == tx[c] # None /\ tx[c].pc # "commit" /\ RollBack(c)

\* Whom the present statement of c waits for.
WaitsFor(c) ==
  IF tx[c] = None THEN {}
  ELSE CASE tx[c].pc = "lock" -> {lock[id] : id \in First(tx[c].todo)} \ {None, c}
         [] tx[c].pc = "write" -> {lock[tx[c].op.id]} \ {None, c}
         [] tx[c].pc = "ascend" -> {lock[tx[c].parent]} \ {None, c}
         [] tx[c].pc = "insert" -> {d \in Callers \ {c} : Writes(d, tx[c].op.id)}
         [] OTHER -> {}

Ring(callers) == callers # {} /\ \A c \in callers : WaitsFor(c) \cap callers # {}

\* The database finds transactions that wait for each other and fails one.
BreakDeadlock(c) ==
  /\ \E callers \in SUBSET Callers : c \in callers /\ Ring(callers)
  /\ RollBack(c)

-----------------------------------------------------------------------------
Statement(c) ==
  \/ BeginLock(c) \/ LockRow(c) \/ Preflight(c) \/ PreflightSource(c) \/ Insert(c)
  \/ ReadRow(c) \/ WriteRow(c) \/ LockParent(c) \/ PurgeParent(c) \/ Commit(c)
  \/ BreakDeadlock(c)

Next == \E c \in Callers : Mutate(c) \/ Statement(c) \/ LoseCommit(c) \/ Fail(c)

Spec == Init /\ [][Next]_vars

-----------------------------------------------------------------------------
(* Properties.                                                             *)

TypeOK ==
  /\ table \in Table /\ lock \in [Ids -> Callers \cup {None}]
  /\ held \in [Ids -> SUBSET Message] /\ known \subseteq Ids /\ started \in 0..MaxMutations
  /\ lied \in BOOLEAN
  /\ \A c \in Callers : tx[c] # None => tx[c].attempt \in 1..Attempts

Abstract == INSTANCE Lineage WITH
  chain <- TRUE, children <- [id \in Ids |-> Dependents(table, id)]

\* Row locks and the reads under them make every transaction one step of Lineage,
\* also when a source is deleted under a fork that is being made, or the last two
\* forks of a soft-deleted stream are purged at once (storage.ts lockStreams).
Refinement == Abstract!Spec

\* A row that is not there cannot be locked.  No mutation may find one that was not there
\* when it came to lock it (storage.ts:288).
Misses(c) ==
  At(c, "lock") \/ At(c, "source") =>
    \A id \in Needs(tx[c].op) : table[id] = None => table'[id] = None

NoneReturns == [][\A c \in Callers : Misses(c)]_vars

\* A mutation is applied at most once, and its answer says whether it was: only
\* when COMMIT itself fails it does not (boundary.ts ownedTransaction).
AnswersAreTrue == ~lied

\* Writers wait for each other only when one of them purges and has come to lock a
\* parent, after it locked its own row: what the sorted ids of lockStreams cannot order
\* (storage.ts:570).  Creates, appends and soft deletes alone never do.
OnlyPurgesDeadlock ==
  \A callers \in SUBSET Callers : Ring(callers) => \E c \in callers : At(c, "ascend")

\* No stream is kept for forks that are gone.
NothingLeaks ==
  \A id \in Present(table) : table[id].softDeleted => Dependents(table, id) # {}

\* A fork reads its own fork offset of its parent's messages or less, when it was
\* taken no lower than its parent was from its own.
Nested(id) ==
  LET parent == table[id].parent
  IN  parent # None => table[parent].parent = None \/ table[parent].at <= table[id].at

\* readMessages returns what the stream was given, for forks taken above their
\* source's own fork offset.
ReadsForks ==
  (\A id \in Present(table) : Nested(id)) => \A id \in Ids : SqlComposed(table)[id] = held[id]

\* The tables are what the answers of the mutations say: nothing is left behind, and
\* a fork reads what it was given (storage.ts purge, readMessages).
TablesAreSound == TypeOK /\ NothingLeaks /\ ReadsForks

\* "The fork copies every source message up to and including this offset"
\* (site/content/docs/reference/core/options-and-results.mdx:55), and none after.
ReadsWhatItHolds == \A id \in Ids : SqlComposed(table)[id] = held[id]
=============================================================================
