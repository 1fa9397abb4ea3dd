------------------------- MODULE SqlMutationsProofs -------------------------
(***************************************************************************)
(* What the SQL storage promises of mutations that run statement by        *)
(* statement, for any streams, callers, initial tables and bounds: their   *)
(* answers are true; only where one purges do they wait for each other;    *)
(* and, as long as no row comes back under a mutation that waits for it,   *)
(* each is one step of Lineage, no stream is left behind, and a fork reads *)
(* what it was given.                                                      *)
(***************************************************************************)
EXTENDS SqlMutations, FiniteSetTheorems, WellFoundedInduction, TLAPS

-----------------------------------------------------------------------------
(***************************************************************************)
(* The inductive invariant, first of one transaction t.                    *)
(***************************************************************************)
Types ==
  /\ table \in Table /\ lock \in [Ids -> Callers \cup {None}]
  /\ tx \in [Callers -> Transaction \cup {None}]
  /\ lied \in BOOLEAN /\ held \in [Ids -> SUBSET Message] /\ known \in SUBSET Ids
  /\ started \in 0..MaxMutations

\* A deletion that leaves no soft-deleted stream.
Purges(t) == t.op.tag = "delete" /\ ~t.soft

\* A transaction comes to a statement only with the operation it is for.
PlaceOK(t) ==
  /\ t.attempt \in 1..Attempts
  /\ t.op.tag = "create" => t.op.source # t.op.id
  /\ t.pc \in {"source", "insert"} => t.op.tag = "create"
  /\ t.pc = "source" => t.op.source # None
  /\ t.pc \in {"read", "write"} => t.op.tag # "create"
  /\ t.pc = "write" => t.seen # None
  /\ t.pc \in {"ascend", "parent"} => t.parent # None /\ Purges(t)

Typed ==
  /\ Types
  /\ \A c \in Callers : tx[c] # None => PlaceOK(tx[c])

\* What an answer will say is still true.
Honest == ~lied /\ \A c \in Callers : tx[c] # None => tx[c].applied = 0

\* c holds the row of a stream that is there.
Holds(c, id) == lock[id] = c /\ table[id] # None

\* Before its first write a transaction holds the rows its operation needs, once its
\* statement has come to them, and what it checked of them stays true.
SourceOK(c, op) ==
  op.source # None => Holds(c, op.source) /\ ~SourceGone(table, op.source, op.at)

TargetOK(c, op) ==
  /\ Holds(c, op.id) /\ ~table[op.id].softDeleted
  /\ op.tag # "delete" => op.expected = table[op.id].tail

SeenOK(t) == t.seen = table[t.op.id] /\ (t.soft <=> Dependents(table, t.op.id) # {})

ReadsOK(c, t) ==
  /\ t.pc \in {"begin", "lock", "source", "insert", "read", "write"} => DOMAIN t.wrote = {}
  /\ t.pc = "lock" => \A id \in Needs(t.op) \ t.todo : Holds(c, id) \/ table[id] = None
  /\ t.pc = "source" => Holds(c, t.op.source) \/ table[t.op.source] = None
  /\ t.pc = "insert" => SourceOK(c, t.op)
  /\ t.pc \in {"read", "write"} => TargetOK(c, t.op)
  /\ t.pc = "write" => SeenOK(t)

\* What it has written when it is about to commit.
CreateOK(c, t) ==
  /\ t.wrote = Wrote(t.op.id, Created(t.op, t.number))
  /\ table[t.op.id] = None /\ SourceOK(c, t.op)

PatchOK(c, t) ==
  /\ t.wrote = Wrote(t.op.id, Patched(c)) /\ TargetOK(c, t.op) /\ SeenOK(t)

\* A purge holds what it removes and, when it is through, the parent that stays.
GoneOK(c, t) ==
  /\ t.op.id \in DOMAIN t.wrote
  /\ TargetOK(c, t.op) /\ Dependents(table, t.op.id) = {}
  /\ \A x \in DOMAIN t.wrote :
       /\ t.wrote[x] = None /\ Holds(c, x)
       /\ x # t.op.id =>
            /\ table[x].softDeleted /\ Dependents(table, x) # {}
            /\ Dependents(table, x) \subseteq DOMAIN t.wrote

Stays(c, x, gone) ==
  Holds(c, x) /\ (table[x].softDeleted => Dependents(table, x) \ gone # {})

EdgeOK(c, t) ==
  \A x \in DOMAIN t.wrote :
    LET parent == table[x].parent
    IN  \/ parent \in {None} \cup DOMAIN t.wrote
        \/ t.pc # "commit" /\ parent = t.parent
        \/ t.pc = "commit" /\ Stays(c, parent, DOMAIN t.wrote)

ClimbOK(c, t) ==
  t.pc \in {"ascend", "parent"} =>
    /\ \E x \in DOMAIN t.wrote : table[x].parent = t.parent
    /\ t.pc = "parent" => Holds(c, t.parent)

PurgeOK(c, t) == GoneOK(c, t) /\ EdgeOK(c, t) /\ ClimbOK(c, t)

WritesOK(c, t) ==
  t.pc \in {"ascend", "parent", "commit"} =>
    IF t.op.tag = "create" THEN CreateOK(c, t)
    ELSE IF Purges(t) THEN PurgeOK(c, t) ELSE PatchOK(c, t)

\* A row that is locked is there, or its holder has inserted it; what is written is locked.
LocksOK(c) ==
  \A id \in Ids :
    /\ lock[id] = c => tx[c] # None /\ (table[id] = None => id \in DOMAIN tx[c].wrote)
    /\ tx[c] # None /\ id \in DOMAIN tx[c].wrote => lock[id] = c

CallerOK(c) ==
  /\ LocksOK(c)
  /\ tx[c] # None => ReadsOK(c, tx[c]) /\ WritesOK(c, tx[c])

TreeOK == Sound(table, held) /\ Aged(table, Nat)

Inv == Typed /\ TreeOK /\ \A c \in Callers : CallerOK(c)
-----------------------------------------------------------------------------
(***************************************************************************)
(* Type correctness.                                                       *)
(***************************************************************************)
LEMMA TransactionIs ==
  ASSUME Types, NEW c \in Callers, tx[c] # None
  PROVE  tx[c] \in Transaction
BY DEF Types

\* One transaction moves on and the others stay.
Moves(c, t) == tx' = [tx EXCEPT ![c] = t]

LEMMA MovesOn ==
  ASSUME Types, NEW c \in Callers, NEW t, Moves(c, t)
  PROVE  tx'[c] = t /\ \A d \in Callers \ {c} : tx'[d] = tx[d]
BY DEF Types, Moves

LEMMA TxTyped ==
  ASSUME Typed, NEW c \in Callers, NEW t \in Transaction \cup {None}, Moves(c, t),
         t # None => PlaceOK(t)
  PROVE  /\ tx' \in [Callers -> Transaction \cup {None}]
         /\ \A d \in Callers : tx'[d] # None => PlaceOK(tx'[d])
<1>1. tx' \in [Callers -> Transaction \cup {None}]
  BY DEF Typed, Types, Moves
<1>2. ASSUME NEW d \in Callers, tx'[d] # None
      PROVE  PlaceOK(tx'[d])
  BY <1>2, MovesOn DEF Typed
<1> QED
  BY <1>1, <1>2

\* The fields that a step may set, one lemma for each group.
LEMMA PcSet ==
  ASSUME NEW t \in Transaction, NEW pc \in Place
  PROVE  LET r == [t EXCEPT !.pc = pc]
         IN  /\ r \in Transaction /\ r.pc = pc
             /\ r.op = t.op /\ r.number = t.number /\ r.attempt = t.attempt /\ r.todo = t.todo
             /\ r.seen = t.seen /\ r.soft = t.soft /\ r.parent = t.parent
             /\ r.wrote = t.wrote /\ r.applied = t.applied
BY DEF Transaction

LEMMA TodoSet ==
  ASSUME NEW t \in Transaction, NEW todo \in SUBSET Ids
  PROVE  LET r == [t EXCEPT !.todo = todo]
         IN  /\ r \in Transaction /\ r.todo = todo
             /\ r.op = t.op /\ r.number = t.number /\ r.attempt = t.attempt
             /\ r.pc = t.pc /\ r.seen = t.seen /\ r.soft = t.soft
             /\ r.parent = t.parent /\ r.wrote = t.wrote /\ r.applied = t.applied
BY DEF Transaction

LEMMA SeenSet ==
  ASSUME NEW t \in Transaction, NEW seen \in Entry \cup {None}
  PROVE  LET r == [t EXCEPT !.seen = seen]
         IN  /\ r \in Transaction /\ r.seen = seen
             /\ r.op = t.op /\ r.number = t.number /\ r.attempt = t.attempt
             /\ r.pc = t.pc /\ r.todo = t.todo /\ r.soft = t.soft
             /\ r.parent = t.parent /\ r.wrote = t.wrote /\ r.applied = t.applied
BY DEF Transaction

LEMMA SoftSet ==
  ASSUME NEW t \in Transaction, NEW soft \in BOOLEAN
  PROVE  LET r == [t EXCEPT !.soft = soft]
         IN  /\ r \in Transaction /\ (r.soft <=> soft)
             /\ r.op = t.op /\ r.number = t.number /\ r.attempt = t.attempt
             /\ r.pc = t.pc /\ r.todo = t.todo /\ r.seen = t.seen
             /\ r.parent = t.parent /\ r.wrote = t.wrote /\ r.applied = t.applied
BY DEF Transaction

LEMMA ParentSet ==
  ASSUME NEW t \in Transaction, NEW parent \in Ids \cup {None}
  PROVE  LET r == [t EXCEPT !.parent = parent]
         IN  /\ r \in Transaction /\ r.parent = parent
             /\ r.op = t.op /\ r.number = t.number /\ r.attempt = t.attempt
             /\ r.pc = t.pc /\ r.todo = t.todo /\ r.seen = t.seen
             /\ r.soft = t.soft /\ r.wrote = t.wrote /\ r.applied = t.applied
BY DEF Transaction

LEMMA WroteSet ==
  ASSUME NEW t \in Transaction, NEW wrote \in Writings
  PROVE  LET r == [t EXCEPT !.wrote = wrote]
         IN  /\ r \in Transaction /\ r.wrote = wrote
             /\ r.op = t.op /\ r.number = t.number /\ r.attempt = t.attempt
             /\ r.pc = t.pc /\ r.todo = t.todo /\ r.seen = t.seen
             /\ r.soft = t.soft /\ r.parent = t.parent /\ r.applied = t.applied
BY DEF Transaction

LEMMA UnwrittenTyped == Unwritten \in Writings /\ DOMAIN Unwritten = {}
<1>1. Unwritten \in [{} -> Entry \cup {None}]
  BY DEF Unwritten
<1> QED
  BY <1>1 DEF Unwritten, Writings

LEMMA WroteTyped ==
  ASSUME NEW id \in Ids, NEW row \in Entry \cup {None}
  PROVE  /\ Wrote(id, row) \in Writings
         /\ DOMAIN Wrote(id, row) = {id} /\ Wrote(id, row)[id] = row
<1>1. Wrote(id, row) \in [{id} -> Entry \cup {None}]
  BY DEF Wrote
<1> QED
  BY <1>1 DEF Wrote, Writings

LEMMA UnwriteTyped ==
  ASSUME NEW wrote \in Writings, NEW id \in Ids
  PROVE  /\ Unwrite(wrote, id) \in Writings
         /\ DOMAIN Unwrite(wrote, id) = DOMAIN wrote \cup {id}
         /\ Unwrite(wrote, id)[id] = None
         /\ \A x \in DOMAIN wrote \ {id} : Unwrite(wrote, id)[x] = wrote[x]
<1>1. PICK ids \in SUBSET Ids : wrote \in [ids -> Entry \cup {None}]
  BY DEF Writings
<1>2. Unwrite(wrote, id) \in [ids \cup {id} -> Entry \cup {None}]
  BY <1>1 DEF Unwrite
<1>3. DOMAIN wrote = ids /\ ids \cup {id} \in SUBSET Ids
  BY <1>1
<1>4. Unwrite(wrote, id) \in Writings
  BY <1>2, <1>3 DEF Writings
<1>5. DOMAIN Unwrite(wrote, id) = DOMAIN wrote \cup {id}
  BY DEF Unwrite
<1>6. Unwrite(wrote, id)[id] = None /\ \A x \in DOMAIN wrote \ {id} : Unwrite(wrote, id)[x] = wrote[x]
  BY DEF Unwrite
<1> QED
  BY <1>4, <1>5, <1>6

LEMMA WritingMeans ==
  ASSUME NEW wrote \in Writings
  PROVE  DOMAIN wrote \subseteq Ids /\ \A x \in DOMAIN wrote : wrote[x] \in Entry \cup {None}
BY DEF Writings

LEMMA StartedTyped ==
  ASSUME NEW op \in Operations, NEW number \in Nat, NEW attempt \in Nat, NEW applied \in Nat
  PROVE  LET r == [Started(op, number, attempt) EXCEPT !.applied = applied]
         IN  /\ r \in Transaction /\ r.pc = "begin" /\ r.applied = applied
             /\ r.op = op /\ r.number = number /\ r.attempt = attempt
             /\ DOMAIN r.wrote = {}
<1>1. Started(op, number, attempt) \in Transaction
  BY UnwrittenTyped DEF Started, Transaction, Place
<1> QED
  BY <1>1, UnwrittenTyped DEF Started, Transaction

LEMMA FreshTyped ==
  ASSUME NEW op \in Operations, NEW number \in Nat, NEW attempt \in Nat
  PROVE  LET r == Started(op, number, attempt)
         IN  /\ r \in Transaction /\ r.pc = "begin" /\ r.applied = 0
             /\ r.op = op /\ r.number = number /\ r.attempt = attempt
             /\ DOMAIN r.wrote = {}
BY UnwrittenTyped DEF Started, Transaction, Place
-----------------------------------------------------------------------------
(***************************************************************************)
(* What each step does to its transaction.                                 *)
(***************************************************************************)
LEMMA OpMeans ==
  ASSUME NEW op \in Operations
  PROVE  /\ op.id \in Ids /\ op.tag \in {"create", "append", "touch", "delete"}
         /\ op.tag = "create" => op.source \in Ids \cup {None} /\ op.at \in Nat /\ op.size \in 0..1
         /\ op.tag \in {"append", "touch"} => op.expected \in Nat
BY SqlAssumption DEF Operations

LEMMA TransactionMeans ==
  ASSUME NEW t \in Transaction
  PROVE  /\ t # None /\ t.op \in Operations /\ t.number \in Nat /\ t.attempt \in Nat
         /\ t.pc \in Place /\ t.todo \in SUBSET Ids /\ t.seen \in Entry \cup {None}
         /\ t.soft \in BOOLEAN /\ t.parent \in Ids \cup {None} /\ t.wrote \in Writings
         /\ t.applied \in Nat
BY TransactionAssumption DEF Transaction

\* The operation of a transaction is the same, and its answer will say the same.
Same(t, r) == r.op = t.op /\ r.number = t.number /\ r.attempt = t.attempt /\ r.applied = t.applied

\* The mutation is at its beginning.
Begun(t, applied) == t.pc = "begin" /\ DOMAIN t.wrote = {} /\ t.applied = applied

LEMMA MutateStep ==
  ASSUME Typed, NEW c \in Callers, Mutate(c)
  PROVE  \E r \in Transaction : Moves(c, r) /\ PlaceOK(r) /\ Begun(r, 0)
<1>1. PICK op \in Operations :
        /\ op.tag = "create" => op.source # op.id
        /\ tx' = [tx EXCEPT ![c] = Started(op, started + 1, 1)]
  BY DEF Mutate
<1>2. started + 1 \in Nat
  BY SqlAssumption DEF Typed, Types
<1> DEFINE r == Started(op, started + 1, 1)
<1>3. r \in Transaction /\ r.pc = "begin" /\ r.applied = 0 /\ r.op = op /\ r.attempt = 1
      /\ DOMAIN r.wrote = {}
  BY <1>2, FreshTyped
<1>4. Moves(c, r)
  BY <1>1 DEF Moves
<1> HIDE DEF r
<1>5. PlaceOK(r)
  BY <1>1, <1>3, SqlAssumption DEF PlaceOK
<1> QED
  BY <1>3, <1>4, <1>5 DEF Begun

LEMMA RollBackStep ==
  ASSUME Typed, NEW c \in Callers, tx[c] # None, RollBack(c)
  PROVE  /\ lock' = Unlocked(c) /\ UNCHANGED <<table, held, known, started>>
         /\ \/ /\ \E r \in Transaction : Moves(c, r) /\ PlaceOK(r) /\ Begun(r, tx[c].applied)
               /\ UNCHANGED lied
            \/ Moves(c, None) /\ lied' = (lied \/ ~Truthful("fault", tx[c].applied))
<1> DEFINE t == tx[c]
<1>0. t \in Transaction /\ PlaceOK(t)
  BY TransactionIs DEF Typed
<1>1. CASE t.attempt < Attempts
  <2> DEFINE r == [Started(t.op, t.number, t.attempt + 1) EXCEPT !.applied = t.applied]
  <2>1. tx' = [tx EXCEPT ![c] = r]
    BY <1>1 DEF RollBack
  <2>2. t.op \in Operations /\ t.number \in Nat /\ t.attempt + 1 \in Nat /\ t.applied \in Nat
    BY <1>0, TransactionMeans
  <2> HIDE DEF t
  <2>3. r \in Transaction /\ r.pc = "begin" /\ r.applied = t.applied /\ r.op = t.op
        /\ r.attempt = t.attempt + 1 /\ DOMAIN r.wrote = {}
    BY <2>2, StartedTyped
  <2> HIDE DEF r
  <2>4. t.attempt + 1 \in 1..Attempts
    BY <1>0, <1>1, <2>2, SqlAssumption DEF PlaceOK
  <2>5. PlaceOK(r)
    BY <1>0, <2>3, <2>4 DEF PlaceOK
  <2>6. UNCHANGED lied /\ lock' = Unlocked(c) /\ UNCHANGED <<table, held, known, started>>
    BY <1>1 DEF RollBack, committed, t
  <2> QED
    BY <2>1, <2>3, <2>5, <2>6 DEF Moves, Begun, t
<1>2. CASE ~(t.attempt < Attempts)
  BY <1>2 DEF RollBack, End, Moves, committed
<1> QED
  BY <1>1, <1>2

LEMMA BeginLockStep ==
  ASSUME Typed, NEW c \in Callers, BeginLock(c)
  PROVE  \E r \in Transaction :
           /\ Moves(c, r) /\ PlaceOK(r) /\ Same(tx[c], r)
           /\ r.pc = "lock" /\ r.todo = LockIds(tx[c].op) \cap Present(table)
           /\ r.wrote = tx[c].wrote
<1> DEFINE t == tx[c]
           todo == LockIds(t.op) \cap Present(table)
           q == [t EXCEPT !.todo = todo]
           r == [q EXCEPT !.pc = "lock"]
<1>0. t # None /\ t \in Transaction /\ PlaceOK(t)
  BY TransactionIs DEF Typed, BeginLock, At
<1>1. Moves(c, r)
  BY DEF BeginLock, Moves
<1>2. todo \in SUBSET Ids /\ "lock" \in Place
  BY DEF Present, Place
<1> HIDE DEF todo, t
<1>q. /\ q \in Transaction /\ q.todo = todo /\ q.wrote = t.wrote
      /\ q.op = t.op /\ q.number = t.number
      /\ q.attempt = t.attempt /\ q.applied = t.applied
  BY <1>0, <1>2, TodoSet
<1> HIDE DEF q
<1>3. /\ r \in Transaction /\ r.pc = "lock" /\ r.todo = todo /\ r.op = t.op
      /\ r.number = t.number /\ r.attempt = t.attempt /\ r.applied = t.applied
      /\ r.wrote = t.wrote
  BY <1>0, <1>2, <1>q, PcSet
<1> HIDE DEF r
<1>4. PlaceOK(r)
  BY <1>0, <1>3 DEF PlaceOK
<1> QED
  BY <1>1, <1>3, <1>4 DEF Same, todo, t

LEMMA LockRowStep ==
  ASSUME Typed, NEW c \in Callers, LockRow(c)
  PROVE  \E r \in Transaction, id \in tx[c].todo :
           /\ Moves(c, r) /\ PlaceOK(r) /\ Same(tx[c], r)
           /\ tx[c].pc = "lock" /\ r.pc = "lock" /\ r.todo = tx[c].todo \ {id}
           /\ r.wrote = tx[c].wrote
           /\ id \in First(tx[c].todo) /\ lock[id] \in {None, c}
           /\ lock' = [lock EXCEPT ![id] = IF table[id] = None THEN None ELSE c]
<1>0. tx[c] # None /\ tx[c] \in Transaction /\ PlaceOK(tx[c]) /\ tx[c].pc = "lock"
  BY TransactionIs DEF Typed, LockRow, At
<1>1. PICK id \in tx[c].todo :
        /\ id \in First(tx[c].todo) /\ lock[id] \in {None, c}
        /\ lock' = [lock EXCEPT ![id] = IF table[id] = None THEN None ELSE c]
        /\ tx' = [tx EXCEPT ![c].todo = @ \ {id}]
  BY DEF LockRow, First
<1> DEFINE r == [tx[c] EXCEPT !.todo = tx[c].todo \ {id}]
<1>2. Moves(c, r)
  BY <1>1 DEF Moves
<1>3. /\ r \in Transaction /\ r.pc = "lock" /\ r.todo = tx[c].todo \ {id} /\ r.op = tx[c].op
      /\ r.number = tx[c].number /\ r.attempt = tx[c].attempt /\ r.applied = tx[c].applied
      /\ r.wrote = tx[c].wrote
  <2> DEFINE todo == tx[c].todo \ {id}
             t == tx[c]
  <2>1. t \in Transaction /\ todo \in SUBSET Ids /\ t.pc = "lock"
    BY <1>0, TransactionMeans
  <2> HIDE DEF todo, t
  <2>2. LET s == [t EXCEPT !.todo = todo]
        IN /\ s \in Transaction /\ s.pc = t.pc /\ s.todo = todo /\ s.op = t.op
           /\ s.number = t.number /\ s.attempt = t.attempt /\ s.applied = t.applied
           /\ s.wrote = t.wrote
    BY <2>1 DEF Transaction
  <2> QED
    BY <2>1, <2>2 DEF todo, t
<1> HIDE DEF r
<1>4. PlaceOK(r)
  BY <1>0, <1>3 DEF PlaceOK
<1> QED
  BY <1>0, <1>1, <1>2, <1>3, <1>4 DEF Same

LEMMA RejectStep ==
  ASSUME NEW c \in Callers, Reject(c)
  PROVE  /\ Moves(c, None) /\ lock' = Unlocked(c) /\ UNCHANGED <<table, held, known, started>>
         /\ lied' = (lied \/ ~Truthful("rejected", tx[c].applied))
BY DEF Reject, End, Moves, committed

LEMMA PreflightStep ==
  ASSUME Typed, NEW c \in Callers, Preflight(c), ~Reject(c)
  PROVE  LET op == tx[c].op
             row == table[op.id]
         IN  \E r \in Transaction :
               /\ Moves(c, r) /\ PlaceOK(r) /\ Same(tx[c], r) /\ r.wrote = tx[c].wrote
               /\ tx[c].pc = "lock" /\ tx[c].todo = {}
               /\ r.pc = IF op.tag # "create" THEN "read"
                         ELSE IF op.source = None THEN "insert" ELSE "source"
               /\ op.tag = "create" => row = None
               /\ op.tag # "create" =>
                    row # None /\ ~row.softDeleted /\ (op.tag # "delete" => op.expected = row.tail)
               /\ UNCHANGED <<table, held, known, lock, lied, started>>
<1> DEFINE t == tx[c]
           pc == IF t.op.tag # "create" THEN "read"
                 ELSE IF t.op.source = None THEN "insert" ELSE "source"
           r == [t EXCEPT !.pc = pc]
<1>0. t # None /\ t \in Transaction /\ PlaceOK(t) /\ t.pc = "lock" /\ t.todo = {}
  BY TransactionIs DEF Typed, Preflight, At
<1>1. /\ Moves(c, r) /\ UNCHANGED <<table, held, known, lock, lied, started>>
      /\ t.op.tag = "create" => table[t.op.id] = None
      /\ t.op.tag # "create" =>
           table[t.op.id] # None /\ ~table[t.op.id].softDeleted
           /\ (t.op.tag # "delete" => t.op.expected = table[t.op.id].tail)
  BY DEF Preflight, Moves, committed
<1>2. pc \in Place
  BY DEF Place
<1> HIDE DEF pc, t
<1>3. /\ r \in Transaction /\ r.pc = pc /\ r.op = t.op
      /\ r.number = t.number /\ r.attempt = t.attempt /\ r.applied = t.applied
      /\ r.wrote = t.wrote
  BY <1>0, <1>2, PcSet
<1> HIDE DEF r
<1>4. PlaceOK(r)
  BY <1>0, <1>3 DEF PlaceOK, pc
<1> QED
  BY <1>0, <1>1, <1>3, <1>4 DEF Same, pc, t

LEMMA PreflightSourceStep ==
  ASSUME Typed, NEW c \in Callers, PreflightSource(c), ~Reject(c)
  PROVE  \E r \in Transaction :
           /\ Moves(c, r) /\ PlaceOK(r) /\ Same(tx[c], r) /\ r.wrote = tx[c].wrote
           /\ tx[c].pc = "source" /\ r.pc = "insert"
           /\ ~SourceGone(table, tx[c].op.source, tx[c].op.at)
           /\ UNCHANGED <<table, held, known, lock, lied, started>>
<1> DEFINE t == tx[c]
           r == [t EXCEPT !.pc = "insert"]
<1>0. t # None /\ t \in Transaction /\ PlaceOK(t) /\ t.pc = "source" /\ "insert" \in Place
  BY TransactionIs DEF Typed, PreflightSource, At, Place
<1>1. /\ Moves(c, r) /\ UNCHANGED <<table, held, known, lock, lied, started>>
      /\ ~SourceGone(table, t.op.source, t.op.at)
  BY DEF PreflightSource, Moves, committed
<1> HIDE DEF t
<1>3. /\ r \in Transaction /\ r.pc = "insert" /\ r.op = t.op
      /\ r.number = t.number /\ r.attempt = t.attempt /\ r.applied = t.applied
      /\ r.wrote = t.wrote
  BY <1>0, PcSet
<1> HIDE DEF r
<1>4. PlaceOK(r)
  BY <1>0, <1>3 DEF PlaceOK
<1> QED
  BY <1>0, <1>1, <1>3, <1>4 DEF Same, t

LEMMA CreatedTyped ==
  ASSUME NEW op \in Operations, op.tag = "create", NEW number \in Nat
  PROVE  /\ Created(op, number) \in Entry
         /\ Created(op, number).parent = op.source /\ Created(op, number).at = op.at
         /\ Created(op, number).tail = op.at + op.size /\ ~Created(op, number).softDeleted
         /\ Created(op, number).log = Written(op.at, op.size, number)
         /\ \A m \in Written(op.at, op.size, number) :
              m \in Message /\ m.offset > op.at /\ m.offset <= op.at + op.size
<1>1. op.source \in Ids \cup {None} /\ op.at \in Nat /\ op.size \in 0..1
  BY OpMeans
<1>2. \A m \in Written(op.at, op.size, number) :
        m \in Message /\ m.offset > op.at /\ m.offset <= op.at + op.size
  BY <1>1 DEF Written, Message
<1> HIDE DEF Written
<1> QED
  BY <1>1, <1>2 DEF Created, Entry

LEMMA InsertStep ==
  ASSUME Typed, NEW c \in Callers, Insert(c), table[tx[c].op.id] = None
  PROVE  LET op == tx[c].op
         IN  \E r \in Transaction :
               /\ Moves(c, r) /\ PlaceOK(r) /\ Same(tx[c], r)
               /\ tx[c].pc = "insert" /\ r.pc = "commit"
               /\ r.wrote = Wrote(op.id, Created(op, tx[c].number))
               /\ \A d \in Callers \ {c} : ~Writes(d, op.id)
               /\ lock' = [lock EXCEPT ![op.id] = c]
               /\ UNCHANGED <<table, held, known, lied, started>>
<1> DEFINE t == tx[c]
           wrote == Wrote(t.op.id, Created(t.op, t.number))
           q == [t EXCEPT !.wrote = wrote]
           r == [q EXCEPT !.pc = "commit"]
<1>0. t # None /\ t \in Transaction /\ PlaceOK(t) /\ t.pc = "insert" /\ "commit" \in Place
  BY TransactionIs DEF Typed, Insert, At, Place
<1>1. /\ Moves(c, r) /\ lock' = [lock EXCEPT ![t.op.id] = c]
      /\ UNCHANGED <<table, held, known, lied, started>>
      /\ \A d \in Callers \ {c} : ~Writes(d, t.op.id)
  BY DEF Insert, Moves, committed
<1>2. wrote \in Writings
  <2>1. t.op.id \in Ids /\ t.op.tag = "create" /\ t.op \in Operations /\ t.number \in Nat
    BY <1>0, TransactionMeans, OpMeans DEF PlaceOK
  <2> QED
    BY <2>1, CreatedTyped, WroteTyped
<1> HIDE DEF wrote, t
<1>q. /\ q \in Transaction /\ q.wrote = wrote /\ q.op = t.op /\ q.number = t.number
      /\ q.attempt = t.attempt /\ q.applied = t.applied
  BY <1>0, <1>2, WroteSet
<1> HIDE DEF q
<1>3. /\ r \in Transaction /\ r.pc = "commit" /\ r.op = t.op
      /\ r.number = t.number /\ r.attempt = t.attempt /\ r.applied = t.applied
      /\ r.wrote = wrote
  BY <1>0, <1>q, PcSet
<1> HIDE DEF r
<1>4. PlaceOK(r)
  BY <1>0, <1>3 DEF PlaceOK
<1> QED
  BY <1>0, <1>1, <1>3, <1>4 DEF Same, wrote, t

LEMMA ReadRowStep ==
  ASSUME Typed, NEW c \in Callers, ReadRow(c), table[tx[c].op.id] # None
  PROVE  LET id == tx[c].op.id
         IN  \E r \in Transaction :
               /\ Moves(c, r) /\ PlaceOK(r) /\ Same(tx[c], r) /\ r.wrote = tx[c].wrote
               /\ tx[c].pc = "read" /\ r.pc = "write"
               /\ r.seen = table[id] /\ (r.soft <=> Dependents(table, id) # {})
               /\ UNCHANGED <<table, held, known, lock, lied, started>>
<1> DEFINE t == tx[c]
           soft == Dependents(table, t.op.id) # {}
           seen == table[t.op.id]
           p == [t EXCEPT !.seen = seen]
           q == [p EXCEPT !.pc = "write"]
           r == [q EXCEPT !.soft = soft]
<1>0. t # None /\ t \in Transaction /\ PlaceOK(t) /\ t.pc = "read" /\ "write" \in Place
  BY TransactionIs DEF Typed, ReadRow, At, Place
<1>1. Moves(c, r) /\ UNCHANGED <<table, held, known, lock, lied, started>>
  BY DEF ReadRow, Moves, committed
<1>2. seen \in Entry \cup {None} /\ seen # None /\ soft \in BOOLEAN
  <2>1. t.op.id \in Ids
    BY <1>0, TransactionMeans, OpMeans
  <2> QED
    BY <2>1 DEF Typed, Types, Table
<1> HIDE DEF seen, soft, t
<1>p. /\ p \in Transaction /\ p.seen = seen /\ p.wrote = t.wrote
      /\ p.op = t.op /\ p.number = t.number
      /\ p.attempt = t.attempt /\ p.applied = t.applied
  BY <1>0, <1>2, SeenSet
<1> HIDE DEF p
<1>q. /\ q \in Transaction /\ q.seen = seen /\ q.pc = "write" /\ q.wrote = t.wrote
      /\ q.op = t.op /\ q.number = t.number
      /\ q.attempt = t.attempt /\ q.applied = t.applied
  BY <1>0, <1>p, PcSet
<1> HIDE DEF q
<1>3. /\ r \in Transaction /\ r.pc = "write" /\ r.op = t.op /\ r.seen = seen /\ (r.soft <=> soft)
      /\ r.number = t.number /\ r.attempt = t.attempt /\ r.applied = t.applied
      /\ r.wrote = t.wrote
  BY <1>0, <1>2, <1>q, SoftSet
<1> HIDE DEF r
<1>4. PlaceOK(r)
  BY <1>0, <1>2, <1>3 DEF PlaceOK
<1> QED
  BY <1>0, <1>1, <1>3, <1>4 DEF Same, seen, soft, t

LEMMA EntryMeans ==
  ASSUME NEW e \in Entry
  PROVE  /\ e # None /\ e.parent \in Ids \cup {None} /\ e.at \in Nat /\ e.tail \in Nat
         /\ e.softDeleted \in BOOLEAN /\ e.log \subseteq Message
BY EntryAssumption DEF Entry

LEMMA OneWritten ==
  ASSUME NEW tail \in Nat, NEW number \in Nat
  PROVE  \A m \in Written(tail, 1, number) : m \in Message /\ m.offset = tail + 1
BY DEF Written, Message

\* What a row is written back as, by the kind of mutation.
LEMMA PatchedMeans ==
  ASSUME NEW c \in Callers, NEW t \in Transaction, tx[c] = t,
         t.op.tag # "create", t.seen \in Entry
  PROVE  /\ Purges(t) <=> Patched(c) = None
         /\ ~Purges(t) =>
              /\ Patched(c) \in Entry
              /\ Patched(c).parent = t.seen.parent /\ Patched(c).at = t.seen.at
              /\ Patched(c).tail = IF t.op.tag = "append" THEN t.op.expected + 1 ELSE t.seen.tail
              /\ Patched(c).softDeleted = (t.op.tag = "delete" \/ t.seen.softDeleted)
              /\ Patched(c).log =
                   IF t.op.tag = "append" THEN Written(t.op.expected, 1, t.number) ELSE {}
<1>0. t.op \in Operations /\ t.number \in Nat
  BY TransactionMeans
<1>1. CASE t.op.tag = "append"
  <2> DEFINE log == Written(t.op.expected, 1, t.number)
             tail == t.op.expected + 1
             e == t.seen
  <2>1. tail \in Nat /\ log \subseteq Message
    BY <1>0, <1>1, OpMeans, OneWritten
  <2>2. Patched(c) = [e EXCEPT !.tail = tail, !.log = log]
    BY <1>1 DEF Patched
  <2>3. e \in Entry
    OBVIOUS
  <2> HIDE DEF log, tail, e
  <2>4. Patched(c) = [parent |-> e.parent, at |-> e.at, tail |-> tail,
                      softDeleted |-> e.softDeleted, log |-> log]
    BY <2>2, <2>3 DEF Entry
  <2>5. Patched(c) \in Entry
    BY <2>1, <2>3, <2>4 DEF Entry
  <2>6. ~Purges(t)
    BY <1>1 DEF Purges
  <2>7. Patched(c).parent = e.parent /\ Patched(c).at = e.at /\ Patched(c).tail = tail
        /\ Patched(c).softDeleted = e.softDeleted /\ Patched(c).log = log
    BY <2>4
  <2>8. Patched(c) # None
    BY <2>5, EntryMeans
  <2>9. Patched(c).softDeleted = (t.op.tag = "delete" \/ e.softDeleted)
    BY <1>1, <2>7, <2>3 DEF Entry
  <2> QED
    BY <1>1, <2>5, <2>6, <2>7, <2>8, <2>9 DEF log, tail, e
<1>2. CASE t.op.tag = "touch" \/ (t.op.tag = "delete" /\ t.soft)
  <2> DEFINE e == t.seen
             soft == t.op.tag = "delete" \/ e.softDeleted
  <2>1. e \in Entry
    OBVIOUS
  <2>2. Patched(c) = IF t.op.tag = "touch" THEN [e EXCEPT !.log = {}]
                     ELSE [e EXCEPT !.softDeleted = TRUE, !.log = {}]
    BY <1>2 DEF Patched
  <2>3. Patched(c) = [parent |-> e.parent, at |-> e.at, tail |-> e.tail,
                      softDeleted |-> soft, log |-> {}]
    <3>1. CASE t.op.tag = "touch"
      <4>1. Patched(c) = [e EXCEPT !.log = {}] /\ soft = e.softDeleted
        BY <2>1, <2>2, <3>1 DEF Entry
      <4> HIDE DEF e, soft
      <4> QED
        BY <2>1, <4>1 DEF Entry
    <3>2. CASE t.op.tag = "delete"
      <4>1. Patched(c) = [e EXCEPT !.softDeleted = TRUE, !.log = {}] /\ soft = TRUE
        BY <2>1, <2>2, <3>2 DEF Entry
      <4> HIDE DEF e, soft
      <4> QED
        BY <2>1, <4>1 DEF Entry
    <3> QED
      BY <1>2, <3>1, <3>2
  <2>4. soft \in BOOLEAN /\ ~Purges(t) /\ t.op.tag # "append"
    BY <1>2 DEF Purges
  <2> HIDE DEF e, soft
  <2>5. Patched(c) \in Entry
    BY <2>1, <2>3, <2>4 DEF Entry
  <2>6. Patched(c).parent = e.parent /\ Patched(c).at = e.at /\ Patched(c).tail = e.tail
        /\ Patched(c).softDeleted = soft /\ Patched(c).log = {}
    BY <2>3
  <2>7. Patched(c) # None
    BY <2>5, EntryMeans
  <2> QED
    BY <2>4, <2>5, <2>6, <2>7 DEF e, soft
<1>3. CASE t.op.tag = "delete" /\ ~t.soft
  BY <1>3 DEF Patched, Purges
<1> QED
  BY <1>0, <1>1, <1>2, <1>3, OpMeans

LEMMA WriteRowStep ==
  ASSUME Typed, NEW c \in Callers, WriteRow(c)
  PROVE  LET t == tx[c]
             id == t.op.id
         IN  /\ t # None /\ t.pc = "write" /\ lock[id] \in {None, c}
             /\ UNCHANGED <<table, held, known, started>>
             /\ \/ /\ Moves(c, None) /\ lock' = Unlocked(c)
                   /\ lied' = (lied \/ ~Truthful("fault", t.applied))
                \/ /\ UNCHANGED lied /\ lock' = [lock EXCEPT ![id] = c]
                   /\ \E r \in Transaction :
                        /\ Moves(c, r) /\ PlaceOK(r) /\ Same(t, r)
                        /\ r.seen = t.seen /\ (r.soft <=> t.soft)
                        /\ r.wrote = IF table[id] = None THEN Unwritten ELSE Wrote(id, Patched(c))
                        /\ IF Purges(t) /\ t.seen.parent # None
                           THEN r.pc = "ascend" /\ r.parent = t.seen.parent
                           ELSE r.pc = "commit"
<1> DEFINE t == tx[c]
           row == Patched(c)
           wrote == IF table[t.op.id] = None THEN Unwritten ELSE Wrote(t.op.id, row)
           parent == IF row = None THEN t.seen.parent ELSE None
           pc == IF row = None /\ t.seen.parent # None THEN "ascend" ELSE "commit"
           p == [t EXCEPT !.wrote = wrote]
           q == [p EXCEPT !.parent = parent]
           r == [q EXCEPT !.pc = pc]
           dies == /\ row # None /\ table[t.op.id] # None
                   /\ \E m \in row.log, n \in table[t.op.id].log : m.offset = n.offset
<1>0. t # None /\ t \in Transaction /\ PlaceOK(t) /\ t.pc = "write" /\ pc \in Place
  BY TransactionIs DEF Typed, WriteRow, At, Place
<1>1. lock[t.op.id] \in {None, c} /\ UNCHANGED <<table, held, known, started>>
  BY DEF WriteRow, committed
<1>2. CASE dies
  <2>1. Moves(c, None) /\ lock' = Unlocked(c) /\ lied' = (lied \/ ~Truthful("fault", t.applied))
    BY <1>2 DEF WriteRow, End, Moves
  <2> QED
    BY <1>0, <1>1, <2>1
<1>3. CASE ~dies
  <2>1. Moves(c, r) /\ UNCHANGED lied /\ lock' = [lock EXCEPT ![t.op.id] = c]
    BY <1>3 DEF WriteRow, Moves
  <2>2. t.op.tag # "create" /\ t.seen \in Entry /\ t.op.id \in Ids
    BY <1>0, TransactionMeans, OpMeans DEF PlaceOK
  <2>3. row \in Entry \cup {None} /\ (row = None <=> Purges(t))
    BY <1>0, <2>2, PatchedMeans
  <2>4. wrote \in Writings /\ parent \in Ids \cup {None}
    BY <2>2, <2>3, UnwrittenTyped, WroteTyped, EntryMeans
  <2>5. /\ pc = "ascend" => Purges(t) /\ t.seen.parent # None /\ parent = t.seen.parent
        /\ pc # "ascend" => ~(Purges(t) /\ t.seen.parent # None) /\ pc = "commit"
    BY <2>3
  <2> HIDE DEF wrote, parent, pc, t
  <2>p. /\ p \in Transaction /\ p.wrote = wrote /\ p.op = t.op /\ p.number = t.number
        /\ p.attempt = t.attempt /\ p.applied = t.applied /\ p.seen = t.seen /\ (p.soft <=> t.soft)
    BY <1>0, <2>4, WroteSet
  <2> HIDE DEF p
  <2>q. /\ q \in Transaction /\ q.wrote = wrote /\ q.op = t.op /\ q.number = t.number
        /\ q.attempt = t.attempt /\ q.applied = t.applied /\ q.seen = t.seen /\ (q.soft <=> t.soft)
        /\ q.parent = parent
    BY <2>p, <2>4, ParentSet
  <2> HIDE DEF q
  <2>6. /\ r \in Transaction /\ r.wrote = wrote /\ r.op = t.op /\ r.number = t.number
        /\ r.attempt = t.attempt /\ r.applied = t.applied /\ r.seen = t.seen /\ (r.soft <=> t.soft)
        /\ r.parent = parent /\ r.pc = pc
    BY <2>q, <1>0, PcSet
  <2> HIDE DEF r
  <2>7. PlaceOK(r)
    BY <1>0, <2>2, <2>5, <2>6 DEF PlaceOK, Purges
  <2> QED
    BY <1>0, <1>1, <2>1, <2>5, <2>6, <2>7 DEF Same, wrote, t
<1> QED
  BY <1>2, <1>3

LEMMA LockParentStep ==
  ASSUME Typed, NEW c \in Callers, LockParent(c)
  PROVE  LET t == tx[c]
         IN  \E r \in Transaction :
               /\ Moves(c, r) /\ PlaceOK(r) /\ Same(t, r) /\ r.wrote = t.wrote
               /\ (r.soft <=> t.soft) /\ r.parent = t.parent
               /\ t.pc = "ascend" /\ r.pc = "parent"
               /\ lock[t.parent] \in {None, c}
               /\ lock' = [lock EXCEPT ![t.parent] = IF table[t.parent] = None THEN None ELSE c]
               /\ UNCHANGED <<table, held, known, lied, started>>
<1> DEFINE t == tx[c]
           r == [t EXCEPT !.pc = "parent"]
<1>0. t # None /\ t \in Transaction /\ PlaceOK(t) /\ t.pc = "ascend" /\ "parent" \in Place
  BY TransactionIs DEF Typed, LockParent, At, Place
<1>1. /\ Moves(c, r) /\ UNCHANGED <<table, held, known, lied, started>>
      /\ lock[t.parent] \in {None, c}
      /\ lock' = [lock EXCEPT ![t.parent] = IF table[t.parent] = None THEN None ELSE c]
  BY DEF LockParent, Moves, committed
<1> HIDE DEF t
<1>3. /\ r \in Transaction /\ r.pc = "parent" /\ r.op = t.op /\ r.parent = t.parent
      /\ r.number = t.number /\ r.attempt = t.attempt /\ r.applied = t.applied
      /\ r.wrote = t.wrote /\ (r.soft <=> t.soft)
  BY <1>0, PcSet
<1> HIDE DEF r
<1>4. PlaceOK(r)
  BY <1>0, <1>3 DEF PlaceOK, Purges
<1> QED
  BY <1>0, <1>1, <1>3, <1>4 DEF Same, t

\* Whether a soft-deleted parent stays.
Keeps(c, id) ==
  IF Seen(c)[id] = None THEN TRUE
  ELSE ~Seen(c)[id].softDeleted \/ Dependents(Seen(c), id) # {}

LEMMA SeenTyped ==
  ASSUME Typed, NEW c \in Callers, tx[c] # None
  PROVE  Seen(c) \in Table
<1>1. tx[c].wrote \in Writings
  BY TransactionIs, TransactionMeans DEF Typed
<1> QED
  BY <1>1, WritingMeans DEF Seen, Typed, Types, Table

LEMMA PurgeParentStep ==
  ASSUME Typed, NEW c \in Callers, PurgeParent(c)
  PROVE  LET t == tx[c]
         IN  \E r \in Transaction :
               /\ Moves(c, r) /\ PlaceOK(r) /\ Same(t, r) /\ (r.soft <=> t.soft)
               /\ t.pc = "parent" /\ UNCHANGED <<table, held, known, lock, lied, started>>
               /\ IF Keeps(c, t.parent) THEN r.pc = "commit" /\ r.wrote = t.wrote
                  ELSE LET parent == Seen(c)[t.parent].parent
                       IN  /\ r.wrote = Unwrite(t.wrote, t.parent) /\ r.parent = parent
                           /\ r.pc = IF parent = None THEN "commit" ELSE "ascend"
<1> DEFINE t == tx[c]
<1>0. t # None /\ t \in Transaction /\ PlaceOK(t) /\ t.pc = "parent" /\ t.parent \in Ids
      /\ "commit" \in Place /\ "ascend" \in Place
  BY TransactionIs, TransactionMeans DEF Typed, PurgeParent, At, Place, PlaceOK
<1>1. UNCHANGED <<table, held, known, lock, lied, started>>
  BY DEF PurgeParent, committed
<1>2. CASE Keeps(c, t.parent)
  <2> DEFINE r == [t EXCEPT !.pc = "commit"]
  <2>1. Moves(c, r)
    BY <1>2 DEF PurgeParent, Keeps, Moves
  <2>t. t = tx[c]
    OBVIOUS
  <2> HIDE DEF t
  <2>2. /\ r \in Transaction /\ r.pc = "commit" /\ r.op = t.op /\ r.wrote = t.wrote
        /\ r.number = t.number /\ r.attempt = t.attempt /\ r.applied = t.applied
        /\ (r.soft <=> t.soft)
    BY <1>0, PcSet
  <2> HIDE DEF r
  <2>3. PlaceOK(r)
    BY <1>0, <2>2 DEF PlaceOK
  <2> QED
    BY <1>0, <1>1, <1>2, <2>1, <2>2, <2>3, <2>t DEF Same
<1>3. CASE ~Keeps(c, t.parent)
  <2> DEFINE wrote == Unwrite(t.wrote, t.parent)
             parent == Seen(c)[t.parent].parent
             pc == IF parent = None THEN "commit" ELSE "ascend"
             p == [t EXCEPT !.wrote = wrote]
             q == [p EXCEPT !.parent = parent]
             r == [q EXCEPT !.pc = pc]
  <2>1. Moves(c, r)
    BY <1>3 DEF PurgeParent, Keeps, Moves
  <2>2. Seen(c)[t.parent] \in Entry
    BY <1>0, <1>3, SeenTyped DEF Table, Keeps
  <2>3. wrote \in Writings /\ parent \in Ids \cup {None} /\ pc \in Place
    BY <1>0, <2>2, TransactionMeans, UnwriteTyped, EntryMeans
  <2>4. Purges(t)
    BY <1>0 DEF PlaceOK
  <2>t. t = tx[c]
    OBVIOUS
  <2> HIDE DEF wrote, parent, t
  <2>p. /\ p \in Transaction /\ p.wrote = wrote /\ p.op = t.op /\ p.number = t.number
        /\ p.attempt = t.attempt /\ p.applied = t.applied /\ (p.soft <=> t.soft)
    BY <1>0, <2>3, WroteSet
  <2> HIDE DEF p
  <2>q. /\ q \in Transaction /\ q.wrote = wrote /\ q.op = t.op /\ q.number = t.number
        /\ q.attempt = t.attempt /\ q.applied = t.applied /\ (q.soft <=> t.soft)
        /\ q.parent = parent
    BY <2>p, <2>3, ParentSet
  <2> HIDE DEF q
  <2> HIDE DEF pc
  <2>6. /\ r \in Transaction /\ r.wrote = wrote /\ r.op = t.op /\ r.number = t.number
        /\ r.attempt = t.attempt /\ r.applied = t.applied /\ (r.soft <=> t.soft)
        /\ r.parent = parent /\ r.pc = pc
    BY <2>q, <2>3, PcSet
  <2> HIDE DEF r
  <2>7. PlaceOK(r)
    BY <1>0, <2>4, <2>6 DEF PlaceOK, Purges, pc
  <2> QED
    BY <1>0, <1>1, <1>3, <2>1, <2>6, <2>7, <2>t DEF Same, wrote, parent, pc
<1> QED
  BY <1>2, <1>3

-----------------------------------------------------------------------------
(***************************************************************************)
(* A transaction that commits.                                             *)
(***************************************************************************)
\* The row as it is after c.
LEMMA MergedMeans ==
  ASSUME Typed, NEW c \in Callers, tx[c] # None, NEW id \in Ids
  PROVE  LET wrote == tx[c].wrote
             row == Merged(c)[id]
         IN  /\ id \notin DOMAIN wrote => row = table[id]
             /\ id \in DOMAIN wrote /\ wrote[id] = None => row = None
             /\ id \in DOMAIN wrote /\ wrote[id] # None =>
                  /\ wrote[id] \in Entry /\ row \in Entry
                  /\ row = [parent |-> wrote[id].parent, at |-> wrote[id].at, tail |-> wrote[id].tail,
                            softDeleted |-> wrote[id].softDeleted,
                            log |-> wrote[id].log \cup (IF table[id] = None THEN {} ELSE table[id].log)]
<1> DEFINE wrote == tx[c].wrote
           before == IF table[id] = None THEN {} ELSE table[id].log
<1>1. wrote \in Writings
  BY TransactionIs, TransactionMeans DEF Typed
<1>2. CASE id \notin DOMAIN wrote
  BY <1>2 DEF Merged
<1>3. CASE id \in DOMAIN wrote /\ wrote[id] = None
  BY <1>3 DEF Merged
<1>4. CASE id \in DOMAIN wrote /\ wrote[id] # None
  <2> DEFINE e == wrote[id]
  <2>1. e \in Entry
    BY <1>1, <1>4, WritingMeans
  <2>2. before \subseteq Message
    BY EntryMeans DEF Typed, Types, Table
  <2>3. Merged(c)[id] = [e EXCEPT !.log = @ \cup before]
    BY <1>4 DEF Merged
  <2> HIDE DEF e, before
  <2>4. Merged(c)[id] = [parent |-> e.parent, at |-> e.at, tail |-> e.tail,
                         softDeleted |-> e.softDeleted, log |-> e.log \cup before]
    BY <2>1, <2>3 DEF Entry
  <2>5. Merged(c)[id] \in Entry
    BY <2>1, <2>2, <2>4 DEF Entry
  <2> QED
    BY <1>4, <2>1, <2>4, <2>5 DEF e, before
<1> QED
  BY <1>2, <1>3, <1>4

\* What a new stream is given of its parent's.
GivenTo(row) == IF row.parent = None THEN {} ELSE UpTo(held[row.parent], row.at)

LEMMA HeldMeans ==
  ASSUME Typed, NEW c \in Callers, tx[c] # None, Apply(c)
  PROVE  /\ held' \in [Ids -> SUBSET Message]
         /\ \A id \in Ids :
              LET wrote == tx[c].wrote
              IN  /\ id \notin DOMAIN wrote => held'[id] = held[id]
                  /\ id \in DOMAIN wrote =>
                       /\ wrote[id] = None => held'[id] = {}
                       /\ wrote[id] # None /\ table[id] = None =>
                            held'[id] = wrote[id].log \cup GivenTo(wrote[id])
                       /\ wrote[id] # None /\ table[id] # None =>
                            held'[id] = held[id] \cup wrote[id].log
<1> DEFINE wrote == tx[c].wrote
           new(id) == IF id \notin DOMAIN wrote THEN held[id]
                      ELSE IF wrote[id] = None THEN {}
                      ELSE IF table[id] = None THEN wrote[id].log \cup GivenTo(wrote[id])
                      ELSE held[id] \cup wrote[id].log
<1>1. held' = [id \in Ids |-> new(id)]
  BY DEF Apply, GivenTo
<1>2. ASSUME NEW id \in Ids
      PROVE  new(id) \subseteq Message
  <2>1. held[id] \subseteq Message
    BY DEF Typed, Types
  <2>2. CASE id \notin DOMAIN wrote \/ wrote[id] = None
    BY <2>1, <2>2
  <2>3. CASE id \in DOMAIN wrote /\ wrote[id] # None
    <3>1. wrote[id] \in Entry
      BY <2>3, TransactionIs, TransactionMeans, WritingMeans DEF Typed
    <3>2. wrote[id].log \subseteq Message /\ GivenTo(wrote[id]) \subseteq Message
      BY <3>1, EntryMeans DEF GivenTo, UpTo, Typed, Types
    <3> QED
      BY <2>1, <2>3, <3>2
  <2> QED
    BY <2>2, <2>3
<1>3. held' \in [Ids -> SUBSET Message]
  BY <1>1, <1>2
<1>4. \A id \in Ids : held'[id] = new(id)
  BY <1>1
<1> QED
  BY <1>3, <1>4

LEMMA ApplyTyped ==
  ASSUME Typed, NEW c \in Callers, tx[c] # None, Apply(c)
  PROVE  /\ table' \in Table /\ table' = Merged(c)
         /\ held' \in [Ids -> SUBSET Message] /\ known' \in SUBSET Ids
<1>1. \A id \in Ids : Merged(c)[id] \in Entry \cup {None}
  BY MergedMeans DEF Typed, Types, Table
<1>2. Merged(c) = [id \in Ids |-> Merged(c)[id]]
  BY DEF Merged
<1>3. table' = Merged(c)
  BY DEF Apply
<1>4. table' \in Table
  BY <1>1, <1>2, <1>3 DEF Table
<1>5. known' \in SUBSET Ids
  BY DEF Apply, Typed, Types
<1> QED
  BY <1>3, <1>4, <1>5, HeldMeans

\* A commit, whether or not its answer arrives.
LEMMA CommitStep ==
  ASSUME Typed, NEW c \in Callers, Commit(c) \/ LoseCommit(c)
  PROVE  /\ tx[c] # None /\ tx[c].pc = "commit" /\ Moves(c, None) /\ lock' = Unlocked(c)
         /\ UNCHANGED started
         /\ Apply(c) \/ UNCHANGED <<table, held, known>>
         /\ \/ lied' = (lied \/ ~Truthful("applied", tx[c].applied + 1))
            \/ lied' = (lied \/ ~Truthful("died", tx[c].applied + 1))
            \/ lied' = (lied \/ ~Truthful("died", tx[c].applied))
<1>1. CASE Commit(c)
  BY <1>1 DEF Commit, At, End, Moves
<1>2. CASE LoseCommit(c)
  BY <1>2 DEF LoseCommit, At, End, Moves, committed
<1> QED
  BY <1>1, <1>2

-----------------------------------------------------------------------------
(***************************************************************************)
(* Types and answers.  A step of c that leaves the tables alone is quiet.  *)
(***************************************************************************)
Quiet == UNCHANGED <<table, held, known>>

\* The answer an ending transaction gives, if any, is true.
Answers(c) ==
  lied' = lied \/ \E outcome \in {"applied", "rejected", "fault", "died"}, n \in {0, 1} :
    /\ outcome = "applied" => n = 1
    /\ outcome \in {"rejected", "fault"} => n = 0
    /\ lied' = (lied \/ ~Truthful(outcome, n))

\* What all steps have in common.
Steps(c) ==
  /\ started' \in 0..MaxMutations
  /\ lock' \in [Ids -> Callers \cup {None}]
  /\ lied' \in BOOLEAN /\ ((tx[c] # None /\ tx[c].applied # 0) \/ Answers(c))
  /\ \/ Moves(c, None)
     \/ \E r \in Transaction :
          /\ Moves(c, r) /\ PlaceOK(r)
          /\ r.applied = IF tx[c] = None THEN 0 ELSE tx[c].applied
  /\ Quiet \/ (tx[c] # None /\ tx[c].pc = "commit" /\ Apply(c))

LEMMA UnlockedTyped ==
  ASSUME Typed, NEW c \in Callers
  PROVE  Unlocked(c) \in [Ids -> Callers \cup {None}]
BY DEF Typed, Types, Unlocked

LEMMA RollBackSteps ==
  ASSUME Typed, NEW c \in Callers, tx[c] # None, RollBack(c)
  PROVE  Steps(c)
<1>1. started' \in 0..MaxMutations /\ lock' \in [Ids -> Callers \cup {None}] /\ Quiet
  BY RollBackStep, UnlockedTyped DEF Typed, Types, Quiet
<1>2. lied' \in BOOLEAN /\ (tx[c].applied # 0 \/ Answers(c))
  BY RollBackStep DEF Typed, Types, Answers
<1>3. Moves(c, None) \/ \E r \in Transaction : Moves(c, r) /\ PlaceOK(r) /\ r.applied = tx[c].applied
  BY RollBackStep DEF Begun
<1> QED
  BY <1>1, <1>2, <1>3 DEF Steps

LEMMA RejectSteps ==
  ASSUME Typed, NEW c \in Callers, tx[c] # None, Reject(c)
  PROVE  Steps(c)
<1>1. started' \in 0..MaxMutations /\ lock' \in [Ids -> Callers \cup {None}] /\ Quiet
  BY RejectStep, UnlockedTyped DEF Typed, Types, Quiet
<1>2. lied' \in BOOLEAN /\ (tx[c].applied # 0 \/ Answers(c)) /\ Moves(c, None)
  BY RejectStep DEF Typed, Types, Answers
<1> QED
  BY <1>1, <1>2 DEF Steps

LEMMA EveryStep ==
  ASSUME Typed, NEW c \in Callers, Mutate(c) \/ Statement(c) \/ LoseCommit(c) \/ Fail(c)
  PROVE  Steps(c)
<1> DEFINE t == tx[c]
           Frame == started' \in 0..MaxMutations /\ lock' \in [Ids -> Callers \cup {None}] /\ Quiet
<1>0. /\ started \in 0..MaxMutations /\ lock \in [Ids -> Callers \cup {None}] /\ lied \in BOOLEAN
      /\ Unlocked(c) \in [Ids -> Callers \cup {None}]
  BY UnlockedTyped DEF Typed, Types
<1>1. CASE Mutate(c)
  <2>1. tx[c] = None /\ started' = started + 1 /\ started < MaxMutations
        /\ UNCHANGED <<table, held, known, lock, lied>>
    BY <1>1 DEF Mutate, committed
  <2>2. started' \in 0..MaxMutations
    BY <1>0, <2>1, SqlAssumption
  <2> QED
    BY <1>0, <1>1, <2>1, <2>2, MutateStep DEF Steps, Quiet, Answers, Begun
<1>2. CASE BeginLock(c)
  <2>1. t # None /\ UNCHANGED <<table, held, known, lock, lied, started>>
    BY <1>2 DEF BeginLock, At, committed
  <2> QED
    BY <1>0, <1>2, <2>1, BeginLockStep DEF Steps, Quiet, Answers, Same
<1>3. CASE LockRow(c)
  <2>1. t # None /\ UNCHANGED <<table, held, known, lied, started>>
    BY <1>3 DEF LockRow, At, committed
  <2>2. lock' \in [Ids -> Callers \cup {None}]
    BY <1>0, <1>3, LockRowStep
  <2> QED
    BY <1>0, <1>3, <2>1, <2>2, LockRowStep DEF Steps, Quiet, Answers, Same
<1>4. CASE Preflight(c)
  <2>1. t # None
    BY <1>4 DEF Preflight, At
  <2>2. CASE Reject(c)
    BY <2>1, <2>2, RejectSteps
  <2>3. CASE ~Reject(c)
    BY <1>0, <1>4, <2>1, <2>3, PreflightStep DEF Steps, Quiet, Answers, Same
  <2> QED
    BY <2>2, <2>3
<1>5. CASE PreflightSource(c)
  <2>1. t # None
    BY <1>5 DEF PreflightSource, At
  <2>2. CASE Reject(c)
    BY <2>1, <2>2, RejectSteps
  <2>3. CASE ~Reject(c)
    BY <1>0, <1>5, <2>1, <2>3, PreflightSourceStep DEF Steps, Quiet, Answers, Same
  <2> QED
    BY <2>2, <2>3
<1>6. CASE Insert(c)
  <2>1. t # None
    BY <1>6 DEF Insert, At
  <2>2. CASE table[t.op.id] # None
    <3>1. RollBack(c)
      BY <1>6, <2>2 DEF Insert
    <3> QED
      BY <2>1, <3>1, RollBackSteps
  <2>3. CASE table[t.op.id] = None
    <3>1. lock' \in [Ids -> Callers \cup {None}]
      BY <1>0, <1>6, <2>3, InsertStep
    <3> QED
      BY <1>0, <1>6, <2>1, <2>3, <3>1, InsertStep DEF Steps, Quiet, Answers, Same
  <2> QED
    BY <2>2, <2>3
<1>7. CASE ReadRow(c)
  <2>1. t # None
    BY <1>7 DEF ReadRow, At
  <2>2. CASE table[t.op.id] = None
    <3>1. Moves(c, None) /\ lock' = Unlocked(c) /\ UNCHANGED <<table, held, known, started>>
          /\ lied' = (lied \/ ~Truthful("died", 0))
      BY <1>7, <2>2 DEF ReadRow, End, Moves, committed
    <3> QED
      BY <1>0, <2>1, <3>1 DEF Steps, Quiet, Answers
  <2>3. CASE table[t.op.id] # None
    BY <1>0, <1>7, <2>1, <2>3, ReadRowStep DEF Steps, Quiet, Answers, Same
  <2> QED
    BY <2>2, <2>3
<1>8. CASE WriteRow(c)
  <2>1. t # None /\ UNCHANGED <<table, held, known, started>>
    BY <1>8, WriteRowStep
  <2>2. CASE Moves(c, None) /\ lock' = Unlocked(c) /\ lied' = (lied \/ ~Truthful("fault", t.applied))
    BY <1>0, <2>1, <2>2 DEF Steps, Quiet, Answers
  <2>3. CASE /\ UNCHANGED lied /\ lock' = [lock EXCEPT ![t.op.id] = c]
             /\ \E r \in Transaction : Moves(c, r) /\ PlaceOK(r) /\ Same(t, r)
    BY <1>0, <2>1, <2>3 DEF Steps, Quiet, Answers, Same
  <2> QED
    BY <1>8, <2>2, <2>3, WriteRowStep
<1>9. CASE LockParent(c)
  <2>1. t # None
    BY <1>9 DEF LockParent, At
  <2> QED
    BY <1>0, <1>9, <2>1, LockParentStep DEF Steps, Quiet, Answers, Same
<1>10. CASE PurgeParent(c)
  <2>1. t # None
    BY <1>10 DEF PurgeParent, At
  <2>2. PICK r \in Transaction :
          Moves(c, r) /\ PlaceOK(r) /\ Same(t, r) /\ UNCHANGED <<table, held, known, lock, lied, started>>
    BY <1>10, PurgeParentStep
  <2> QED
    BY <1>0, <2>1, <2>2 DEF Steps, Quiet, Answers, Same
<1>11. CASE Commit(c) \/ LoseCommit(c)
  <2>1. t \in Transaction
    BY <1>11, CommitStep, TransactionIs DEF Typed
  <2>2. t.applied \in Nat
    BY <2>1, TransactionMeans
  <2>3. /\ t # None /\ t.pc = "commit" /\ Moves(c, None) /\ lock' = Unlocked(c) /\ UNCHANGED started
        /\ Apply(c) \/ UNCHANGED <<table, held, known>>
        /\ \/ lied' = (lied \/ ~Truthful("applied", t.applied + 1))
           \/ lied' = (lied \/ ~Truthful("died", t.applied + 1))
           \/ lied' = (lied \/ ~Truthful("died", t.applied))
    BY <1>11, CommitStep
  <2>4. lied' \in BOOLEAN
    BY <1>0, <2>3
  <2>5. ASSUME t.applied = 0
        PROVE  Answers(c)
    <3>1. t.applied + 1 = 1
      BY <2>5
    <3>2. CASE lied' = (lied \/ ~Truthful("applied", t.applied + 1))
      BY <3>1, <3>2 DEF Answers
    <3>3. CASE lied' = (lied \/ ~Truthful("died", t.applied + 1))
      BY <3>1, <3>3 DEF Answers
    <3>4. CASE lied' = (lied \/ ~Truthful("died", t.applied))
      BY <2>5, <3>4 DEF Answers
    <3> QED
      BY <2>3, <3>2, <3>3, <3>4
  <2> QED
    BY <1>0, <2>3, <2>4, <2>5 DEF Steps, Quiet
<1>12. CASE BreakDeadlock(c) \/ Fail(c)
  <2>1. RollBack(c)
    BY <1>12 DEF BreakDeadlock, Fail
  <2>2. t # None
    <3>1. ASSUME BreakDeadlock(c)
          PROVE  t # None
      <4>1. PICK ring \in SUBSET Callers : WaitsFor(c) \cap ring # {}
        BY <3>1 DEF BreakDeadlock, Ring
      <4> QED
        BY <4>1 DEF WaitsFor
    <3> QED
      BY <1>12, <3>1 DEF Fail
  <2> QED
    BY <2>1, <2>2, RollBackSteps
<1> QED
  BY <1>1, <1>2, <1>3, <1>4, <1>5, <1>6, <1>7, <1>8, <1>9, <1>10, <1>11, <1>12 DEF Statement

LEMMA TypedInit ==
  ASSUME Init
  PROVE  Typed /\ Honest
<1>1. table \in Table /\ Composed(table) \in [Ids -> SUBSET Message]
  BY ForestAssumption DEF Init
<1>2. Types
  <2>1. lock \in [Ids -> Callers \cup {None}] /\ tx \in [Callers -> Transaction \cup {None}]
    BY DEF Init
  <2>2. held \in [Ids -> SUBSET Message]
    BY <1>1 DEF Init
  <2>3. lied \in BOOLEAN /\ known \in SUBSET Ids
    BY DEF Init, Present
  <2>4. started \in 0..MaxMutations
    BY SqlAssumption DEF Init
  <2> QED
    BY <1>1, <2>1, <2>2, <2>3, <2>4 DEF Types
<1>3. \A c \in Callers : tx[c] = None
  BY DEF Init
<1> QED
  BY <1>2, <1>3 DEF Typed, Honest, Init

LEMMA TypedNext ==
  ASSUME Typed, [Next]_vars
  PROVE  Typed'
<1>1. ASSUME NEW c \in Callers, Steps(c)
      PROVE  Typed'
  <2>1. PICK t \in Transaction \cup {None} : Moves(c, t) /\ (t # None => PlaceOK(t))
    BY <1>1 DEF Steps
  <2>2. /\ tx' \in [Callers -> Transaction \cup {None}]
        /\ \A d \in Callers : tx'[d] # None => PlaceOK(tx'[d])
    BY <2>1, TxTyped
  <2>3. table' \in Table /\ held' \in [Ids -> SUBSET Message] /\ known' \in SUBSET Ids
    <3>1. CASE Quiet
      BY <3>1 DEF Quiet, Typed, Types
    <3>2. CASE tx[c] # None /\ Apply(c)
      BY <3>2, ApplyTyped
    <3> QED
      BY <1>1, <3>1, <3>2 DEF Steps
  <2> QED
    BY <1>1, <2>2, <2>3 DEF Typed, Types, Steps, PlaceOK
<1>2. CASE UNCHANGED vars
  BY <1>2 DEF vars, Typed, Types, PlaceOK
<1> QED
  BY <1>1, <1>2, EveryStep DEF Next

LEMMA HonestNext ==
  ASSUME Typed, Honest, [Next]_vars
  PROVE  Honest'
<1>1. ASSUME NEW c \in Callers, Steps(c)
      PROVE  Honest'
  <2>1. Answers(c)
    BY <1>1 DEF Steps, Honest
  <2>2. ~lied'
    BY <2>1 DEF Answers, Truthful, Honest
  <2>3. ASSUME NEW d \in Callers, tx'[d] # None
        PROVE  tx'[d].applied = 0
    <3>1. CASE d # c
      BY <1>1, <2>3, <3>1, MovesOn DEF Steps, Typed, Honest
    <3>2. CASE d = c
      <4>1. PICK r \in Transaction :
              Moves(c, r) /\ r.applied = IF tx[c] = None THEN 0 ELSE tx[c].applied
        BY <1>1, <2>3, <3>2, MovesOn DEF Steps, Typed
      <4> QED
        BY <3>2, <4>1, MovesOn DEF Typed, Honest
    <3> QED
      BY <3>1, <3>2
  <2> QED
    BY <2>2, <2>3 DEF Honest
<1>2. CASE UNCHANGED vars
  BY <1>2 DEF vars, Honest
<1> QED
  BY <1>1, <1>2, EveryStep DEF Next

(***************************************************************************)
(* A mutation is applied once at most, and its caller is told the truth of *)
(* it, whatever is retried, deadlocks, fails or loses its connection       *)
(* (boundary.ts ownedTransaction, transaction-retry.ts).                   *)
(***************************************************************************)
THEOREM AnswersStayTrue == Spec => []AnswersAreTrue
<1>1. Init => Typed /\ Honest
  BY TypedInit
<1>2. Typed /\ Honest /\ [Next]_vars => (Typed /\ Honest)'
  BY TypedNext, HonestNext
<1>3. Honest => AnswersAreTrue
  BY DEF Honest, AnswersAreTrue
<1> QED
  BY <1>1, <1>2, <1>3, PTL DEF Spec

-----------------------------------------------------------------------------
(***************************************************************************)
(* Who can wait for whom.  A transaction that has not written yet locks in *)
(* the order of the ids; an append, a touch and a delete have their own    *)
(* row at most until they write it.                                        *)
(***************************************************************************)
Locked(c) == {id \in Ids : lock[id] = c}

InOrder(c, t) ==
  /\ t.pc \in {"begin", "lock", "source", "insert", "read", "write"} => DOMAIN t.wrote = {}
  /\ t.pc = "begin" => Locked(c) = {}
  /\ t.pc = "lock" => /\ t.todo \subseteq LockIds(t.op) /\ Locked(c) \subseteq LockIds(t.op)
                      /\ \A id \in Locked(c), next \in t.todo : Order[id] < Order[next]
  /\ t.pc \in {"read", "write"} => Locked(c) \subseteq {t.op.id}

Sorted(c) == IF tx[c] = None THEN Locked(c) = {} ELSE InOrder(c, tx[c])

Ordered == Typed /\ \A c \in Callers : Sorted(c)

LEMMA OrderMeans ==
  /\ Cardinality(Ids) \in Nat
  /\ \A id \in Ids : Order[id] \in 1..Cardinality(Ids)
  /\ \A x, y \in Ids : Order[x] = Order[y] => x = y
BY OrderAssumption, FS_CardinalityType

LEMMA LatestOf ==
  ASSUME NEW S \in SUBSET Ids, S # {}
  PROVE  \E x \in S : \A y \in S : Order[y] <= Order[x]
<1> DEFINE most == Cardinality(Ids)
           before == {most - Order[x] : x \in S}
<1>1. most \in Nat /\ \A x \in S : Order[x] \in 1..most
  BY OrderMeans
<1> HIDE DEF most
<1>2. before \in SUBSET Nat /\ before # {}
  BY <1>1
<1>3. PICK m \in before : \A n \in before : ~(<<n, m>> \in OpToRel(<, Nat))
  <2> HIDE DEF before
  <2> QED
    BY <1>2, NatLessThanWellFounded, WFMin, Zenon
<1>4. \A n \in before : ~(n < m)
  BY <1>2, <1>3 DEF OpToRel
<1>5. PICK x \in S : m = most - Order[x]
  BY <1>3
<1>6. ASSUME NEW y \in S PROVE Order[y] <= Order[x]
  <2>1. ~(most - Order[y] < most - Order[x])
    BY <1>4, <1>5
  <2> QED
    BY <1>1, <2>1
<1> QED
  BY <1>6

\* What a step of c does to its own locks; it gives none to another.
Frees(c, more) ==
  /\ \A d \in Callers \ {c} : Locked(d)' \subseteq Locked(d)
  /\ Locked(c)' \subseteq Locked(c) \cup more

LEMMA LocksStay ==
  ASSUME Typed, NEW c \in Callers, UNCHANGED lock
  PROVE  Frees(c, {})
BY DEF Frees, Locked

LEMMA LocksGo ==
  ASSUME Typed, NEW c \in Callers, lock' = Unlocked(c)
  PROVE  Frees(c, {}) /\ Locked(c)' = {}
BY SqlAssumption DEF Frees, Locked, Unlocked

LEMMA LockAdded ==
  ASSUME Typed, NEW c \in Callers, NEW id \in Ids, NEW holder \in {c, None},
         lock' = [lock EXCEPT ![id] = holder]
  PROVE  Frees(c, {id})
BY SqlAssumption DEF Frees, Locked, Typed, Types

\* The others have the order they had.
LEMMA OthersSorted ==
  ASSUME Ordered, NEW c \in Callers, NEW t, Moves(c, t), NEW more, Frees(c, more),
         NEW d \in Callers \ {c}
  PROVE  Sorted(d)'
<1>1. tx'[d] = tx[d] /\ Locked(d)' \subseteq Locked(d) /\ Sorted(d)
  BY MovesOn DEF Ordered, Typed, Frees
<1>2. CASE tx[d] = None
  BY <1>1, <1>2 DEF Sorted
<1>3. CASE tx[d] # None
  <2> DEFINE u == tx[d]
  <2>1. InOrder(d, u)
    BY <1>1, <1>3 DEF Sorted
  <2> HIDE DEF u
  <2>2. InOrder(d, u)'
    <3>1. u' = u
      BY <1>1 DEF u
    <3> QED
      BY <1>1, <2>1, <3>1 DEF InOrder
  <2> QED
    BY <1>1, <1>3, <2>2 DEF Sorted, u
<1> QED
  BY <1>2, <1>3

\* The transaction of c after its step.
LEMMA NowSorted ==
  ASSUME Ordered, NEW c \in Callers, NEW t, Moves(c, t),
         t = None => Locked(c)' = {},
         t # None => /\ t.pc \in {"begin", "lock", "source", "insert", "read", "write"} =>
                          DOMAIN t.wrote = {}
                     /\ t.pc = "begin" => Locked(c)' = {}
                     /\ t.pc = "lock" =>
                          /\ t.todo \subseteq LockIds(t.op) /\ Locked(c)' \subseteq LockIds(t.op)
                          /\ \A id \in Locked(c)', next \in t.todo : Order[id] < Order[next]
                     /\ t.pc \in {"read", "write"} => Locked(c)' \subseteq {t.op.id}
  PROVE  Sorted(c)'
<1>1. tx'[c] = t
  BY MovesOn DEF Ordered, Typed
<1> QED
  BY <1>1 DEF Sorted, InOrder

LEMMA EndSorted ==
  ASSUME Ordered, NEW c \in Callers, Moves(c, None), lock' = Unlocked(c)
  PROVE  Sorted(c)' /\ Frees(c, {})
<1>1. Frees(c, {}) /\ Locked(c)' = {}
  BY LocksGo DEF Ordered
<1> QED
  BY <1>1, NowSorted

LEMMA BeginSorted ==
  ASSUME Ordered, NEW c \in Callers, NEW r \in Transaction, NEW applied, Moves(c, r),
         Begun(r, applied), Locked(c)' = {}
  PROVE  Sorted(c)'
BY NowSorted, TransactionMeans DEF Begun

LEMMA RollBackSorted ==
  ASSUME Ordered, NEW c \in Callers, tx[c] # None, RollBack(c)
  PROVE  Sorted(c)' /\ Frees(c, {})
<1>1. Typed /\ lock' = Unlocked(c)
  BY RollBackStep DEF Ordered
<1>2. Frees(c, {}) /\ Locked(c)' = {}
  BY <1>1, LocksGo
<1>3. CASE Moves(c, None)
  BY <1>1, <1>3, EndSorted
<1>4. CASE \E r \in Transaction : Moves(c, r) /\ Begun(r, tx[c].applied)
  BY <1>2, <1>4, BeginSorted
<1> QED
  BY <1>1, <1>2, <1>3, <1>4, RollBackStep

LEMMA LockRowSorted ==
  ASSUME Ordered, NEW c \in Callers, LockRow(c)
  PROVE  Sorted(c)' /\ \E more : Frees(c, more)
<1> DEFINE t == tx[c]
<1>1. PICK r \in Transaction, id \in t.todo :
        /\ Moves(c, r) /\ Same(t, r) /\ t.pc = "lock" /\ r.pc = "lock"
        /\ r.todo = t.todo \ {id} /\ r.wrote = t.wrote /\ id \in First(t.todo)
        /\ lock' = [lock EXCEPT ![id] = IF table[id] = None THEN None ELSE c]
  BY LockRowStep DEF Ordered
<1>2. t # None /\ t \in Transaction /\ InOrder(c, t)
  BY TransactionIs DEF Ordered, Typed, Sorted, LockRow, At
<1>3. t.todo \in SUBSET Ids /\ id \in Ids /\ r # None
  BY <1>2, TransactionMeans
<1>4. Frees(c, {id})
  BY <1>1, <1>3, LockAdded DEF Ordered
<1>5. \A x \in Locked(c)', next \in r.todo : Order[x] < Order[next]
  <2> SUFFICES ASSUME NEW x \in Locked(c)', NEW next \in r.todo
               PROVE  Order[x] < Order[next]
    OBVIOUS
  <2>1. next \in t.todo /\ next # id /\ next \in Ids
    BY <1>1, <1>3
  <2>2. CASE x \in Locked(c)
    BY <1>1, <1>2, <2>1, <2>2 DEF InOrder
  <2>3. CASE x = id
    <3>1. Order[id] <= Order[next] /\ Order[id] # Order[next]
      BY <1>1, <1>3, <2>1, OrderMeans DEF First
    <3>2. Order[id] \in Int /\ Order[next] \in Int
      BY <1>3, <2>1, OrderMeans
    <3> QED
      BY <2>3, <3>1, <3>2
  <2> QED
    BY <1>4, <2>2, <2>3 DEF Frees
<1>6. r.todo \subseteq LockIds(r.op) /\ Locked(c)' \subseteq LockIds(r.op) /\ DOMAIN r.wrote = {}
  BY <1>1, <1>2, <1>4 DEF InOrder, Same, Frees
<1>7. Sorted(c)'
  BY <1>1, <1>3, <1>5, <1>6, NowSorted
<1> QED
  BY <1>4, <1>7

\* Every step keeps the order.
LEMMA StatementSorted ==
  ASSUME Ordered, NEW c \in Callers,
         Mutate(c) \/ Statement(c) \/ LoseCommit(c) \/ Fail(c)
  PROVE  Sorted(c)' /\ \E more : Frees(c, more) /\ \E t : Moves(c, t)
<1> DEFINE t == tx[c]
<1>0. Typed /\ Sorted(c) /\ (t # None => t \in Transaction /\ InOrder(c, t) /\ t.op.id \in Ids)
  BY TransactionIs, TransactionMeans, OpMeans DEF Ordered, Typed, Sorted
<1>a. \E u : Moves(c, u)
  BY <1>0, EveryStep DEF Steps
<1> SUFFICES Sorted(c)' /\ \E more : Frees(c, more)
  BY <1>a
<1>1. CASE Mutate(c)
  <2>1. t = None /\ UNCHANGED lock
    BY <1>1 DEF Mutate
  <2>2. Frees(c, {}) /\ Locked(c) = {}
    BY <1>0, <2>1, LocksStay DEF Sorted
  <2> QED
    BY <1>0, <1>1, <2>2, MutateStep, BeginSorted DEF Frees
<1>2. CASE BeginLock(c)
  <2>1. t # None /\ t.pc = "begin" /\ UNCHANGED lock
    BY <1>2 DEF BeginLock, At
  <2>2. PICK r \in Transaction :
          /\ Moves(c, r) /\ Same(t, r) /\ r.pc = "lock" /\ r.wrote = t.wrote
          /\ r.todo = LockIds(t.op) \cap Present(table)
    BY <1>0, <1>2, BeginLockStep
  <2>3. Frees(c, {}) /\ Locked(c)' = {} /\ DOMAIN r.wrote = {} /\ r # None
    BY <1>0, <2>1, <2>2, LocksStay, TransactionMeans DEF InOrder, Frees
  <2>4. r.todo \subseteq LockIds(r.op)
    BY <2>2 DEF Same
  <2>5. Sorted(c)'
    BY <2>2, <2>3, <2>4, NowSorted
  <2> QED
    BY <2>3, <2>5
<1>3. CASE LockRow(c)
  BY <1>3, LockRowSorted
<1>4. CASE Preflight(c)
  <2>1. CASE Reject(c)
    BY <2>1, RejectStep, EndSorted
  <2>2. CASE ~Reject(c)
    <3>1. PICK r \in Transaction :
            /\ Moves(c, r) /\ PlaceOK(r) /\ Same(t, r) /\ r.wrote = t.wrote /\ t.pc = "lock"
            /\ r.pc \in {"read", "insert", "source"} /\ (r.pc = "read" => t.op.tag # "create")
            /\ UNCHANGED lock
      BY <1>0, <1>4, <2>2, PreflightStep
    <3>2. t # None
      BY <1>4 DEF Preflight, At
    <3>3. Frees(c, {}) /\ DOMAIN r.wrote = {} /\ r # None
      BY <1>0, <3>1, <3>2, LocksStay, TransactionMeans DEF InOrder
    <3>4. r.pc = "read" => Locked(c)' \subseteq {r.op.id}
      BY <1>0, <3>1, <3>2, <3>3 DEF InOrder, LockIds, Same, Frees
    <3>5. Sorted(c)'
      BY <3>1, <3>3, <3>4, NowSorted
    <3> QED
      BY <3>3, <3>5
  <2> QED
    BY <2>1, <2>2
<1>5. CASE PreflightSource(c)
  <2>1. CASE Reject(c)
    BY <2>1, RejectStep, EndSorted
  <2>2. CASE ~Reject(c)
    <3>1. PICK r \in Transaction :
            Moves(c, r) /\ r.wrote = t.wrote /\ t.pc = "source" /\ r.pc = "insert" /\ UNCHANGED lock
      BY <1>0, <1>5, <2>2, PreflightSourceStep
    <3>2. t # None
      BY <1>5 DEF PreflightSource, At
    <3>3. Frees(c, {}) /\ DOMAIN r.wrote = {} /\ r # None
      BY <1>0, <3>1, <3>2, LocksStay, TransactionMeans DEF InOrder
    <3>4. Sorted(c)'
      BY <3>1, <3>3, NowSorted
    <3> QED
      BY <3>3, <3>4
  <2> QED
    BY <2>1, <2>2
<1>6. CASE Insert(c)
  <2>1. t # None
    BY <1>6 DEF Insert, At
  <2>2. CASE table[t.op.id] # None
    <3>1. RollBack(c)
      BY <1>6, <2>2 DEF Insert
    <3> QED
      BY <2>1, <3>1, RollBackSorted
  <2>3. CASE table[t.op.id] = None
    <3>1. PICK r \in Transaction :
            Moves(c, r) /\ r.pc = "commit" /\ lock' = [lock EXCEPT ![t.op.id] = c]
      BY <1>0, <1>6, <2>3, InsertStep
    <3>2. Frees(c, {t.op.id})
      BY <1>0, <2>1, <3>1, LockAdded
    <3>3. Sorted(c)'
      BY <3>1, NowSorted, TransactionMeans
    <3> QED
      BY <3>2, <3>3
  <2> QED
    BY <2>2, <2>3
<1>7. CASE ReadRow(c)
  <2>1. t # None
    BY <1>7 DEF ReadRow, At
  <2>2. CASE table[t.op.id] = None
    BY <1>7, <2>2, EndSorted DEF ReadRow, End, Moves
  <2>3. CASE table[t.op.id] # None
    <3>1. PICK r \in Transaction :
            /\ Moves(c, r) /\ Same(t, r) /\ r.wrote = t.wrote /\ t.pc = "read" /\ r.pc = "write"
            /\ UNCHANGED lock
      BY <1>0, <1>7, <2>3, ReadRowStep
    <3>2. Frees(c, {}) /\ DOMAIN r.wrote = {} /\ r # None
      BY <1>0, <2>1, <3>1, LocksStay, TransactionMeans DEF InOrder
    <3>3. Locked(c)' \subseteq {r.op.id}
      BY <1>0, <2>1, <3>1, <3>2 DEF InOrder, Same, Frees
    <3>4. Sorted(c)'
      BY <3>1, <3>2, <3>3, NowSorted
    <3> QED
      BY <3>2, <3>4
  <2> QED
    BY <2>2, <2>3
<1>8. CASE WriteRow(c)
  <2>1. t # None
    BY <1>0, <1>8, WriteRowStep
  <2>2. CASE Moves(c, None) /\ lock' = Unlocked(c)
    BY <2>2, EndSorted
  <2>3. CASE /\ lock' = [lock EXCEPT ![t.op.id] = c]
             /\ \E r \in Transaction : Moves(c, r) /\ r.pc \in {"ascend", "commit"}
    <3>1. Frees(c, {t.op.id})
      BY <1>0, <2>1, <2>3, LockAdded
    <3>2. Sorted(c)'
      BY <2>3, NowSorted, TransactionMeans
    <3> QED
      BY <3>1, <3>2
  <2> QED
    BY <1>0, <1>8, <2>2, <2>3, WriteRowStep
<1>9. CASE LockParent(c)
  <2>1. PICK r \in Transaction :
          /\ Moves(c, r) /\ PlaceOK(r) /\ r.pc = "parent" /\ r.parent = t.parent
          /\ lock' = [lock EXCEPT ![t.parent] = IF table[t.parent] = None THEN None ELSE c]
    BY <1>0, <1>9, LockParentStep
  <2>2. t.parent \in Ids
    BY <2>1, TransactionMeans DEF PlaceOK
  <2>3. Frees(c, {t.parent})
    BY <1>0, <2>1, <2>2, LockAdded
  <2>4. Sorted(c)'
    BY <2>1, NowSorted, TransactionMeans
  <2> QED
    BY <2>3, <2>4
<1>10. CASE PurgeParent(c)
  <2>1. PICK r \in Transaction : Moves(c, r) /\ r.pc \in {"commit", "ascend"} /\ UNCHANGED lock
    <3>1. PICK r \in Transaction :
            /\ Moves(c, r) /\ UNCHANGED lock
            /\ r.pc = "commit" \/ r.pc = IF Seen(c)[t.parent].parent = None THEN "commit" ELSE "ascend"
      BY <1>0, <1>10, PurgeParentStep
    <3> QED
      BY <3>1
  <2>2. Sorted(c)'
    BY <2>1, NowSorted, TransactionMeans
  <2> QED
    BY <1>0, <2>1, <2>2, LocksStay
<1>11. CASE Commit(c) \/ LoseCommit(c)
  BY <1>0, <1>11, CommitStep, EndSorted
<1>12. CASE BreakDeadlock(c) \/ Fail(c)
  <2>1. RollBack(c) /\ t # None
    <3>1. ASSUME BreakDeadlock(c)
          PROVE  t # None
      <4>1. PICK ring \in SUBSET Callers : WaitsFor(c) \cap ring # {}
        BY <3>1 DEF BreakDeadlock, Ring
      <4> QED
        BY <4>1 DEF WaitsFor
    <3> QED
      BY <1>12, <3>1 DEF BreakDeadlock, Fail
  <2> QED
    BY <2>1, RollBackSorted
<1> QED
  BY <1>1, <1>2, <1>3, <1>4, <1>5, <1>6, <1>7, <1>8, <1>9, <1>10, <1>11, <1>12 DEF Statement

LEMMA OrderedNext ==
  ASSUME Ordered, [Next]_vars
  PROVE  Ordered'
<1>1. Typed'
  BY TypedNext DEF Ordered
<1>2. ASSUME NEW c \in Callers, Mutate(c) \/ Statement(c) \/ LoseCommit(c) \/ Fail(c)
      PROVE  \A d \in Callers : Sorted(d)'
  BY <1>2, StatementSorted, OthersSorted
<1>3. CASE UNCHANGED vars
  <2>1. \A d \in Callers : Sorted(d)'
    BY <1>3 DEF Ordered, Sorted, InOrder, Locked, vars
  <2> QED
    BY <1>1, <2>1 DEF Ordered
<1> QED
  BY <1>1, <1>2, <1>3 DEF Ordered, Next

\* In a ring without a purge everybody waits in the order of the ids, for a row that comes
\* after those it has.
LEMMA OrderBreaksRings ==
  ASSUME Ordered
  PROVE  OnlyPurgesDeadlock
<1> SUFFICES ASSUME NEW callers \in SUBSET Callers, Ring(callers),
                    ~\E c \in callers : At(c, "ascend")
             PROVE  FALSE
  BY DEF OnlyPurgesDeadlock
<1>1. ASSUME NEW c \in callers
      PROVE  /\ tx[c] # None /\ InOrder(c, tx[c]) /\ tx[c] \in Transaction
             /\ tx[c].pc \in {"lock", "write", "insert"} /\ DOMAIN tx[c].wrote = {}
             /\ tx[c].op.id \in Ids
  <2>1. WaitsFor(c) # {} /\ ~At(c, "ascend")
    BY DEF Ring
  <2>2. tx[c] # None /\ tx[c].pc \in {"lock", "write", "insert"}
    BY <2>1 DEF WaitsFor, At
  <2>3. InOrder(c, tx[c]) /\ tx[c] \in Transaction
    BY <2>2, TransactionIs DEF Ordered, Typed, Sorted
  <2> QED
    BY <2>2, <2>3, TransactionMeans, OpMeans DEF InOrder
<1>2. ASSUME NEW c \in callers
      PROVE  \/ tx[c].pc = "lock" /\ \E id \in First(tx[c].todo) : lock[id] \in callers \ {c}
             \/ tx[c].pc = "write" /\ lock[tx[c].op.id] \in callers \ {c}
  <2>1. PICK d \in callers : d \in WaitsFor(c)
    BY DEF Ring
  <2>2. CASE tx[c].pc = "lock"
    BY <1>1, <2>1, <2>2 DEF WaitsFor
  <2>3. CASE tx[c].pc = "write"
    BY <1>1, <2>1, <2>3 DEF WaitsFor
  <2>4. CASE tx[c].pc = "insert"
    <3>1. Writes(d, tx[c].op.id)
      BY <1>1, <2>1, <2>4 DEF WaitsFor
    <3> QED
      BY <1>1, <3>1 DEF Writes
  <2> QED
    BY <1>1, <2>2, <2>3, <2>4
\* Who holds a row that another waits for waits for a row itself, in the order.
<1>3. ASSUME NEW d \in callers, NEW id \in Ids, lock[id] = d
      PROVE  tx[d].pc = "lock"
  <2>1. CASE tx[d].pc = "write"
    <3>1. tx[d].op.id = id
      BY <1>1, <1>3, <2>1 DEF InOrder, Locked
    <3> QED
      BY <1>2, <1>3, <2>1, <3>1
  <2> QED
    BY <1>2, <2>1
<1> DEFINE Awaited == {id \in Ids : \E c \in callers :
                         tx[c].pc = "lock" /\ id \in First(tx[c].todo) /\ lock[id] \in callers \ {c}}
<1>4. ASSUME NEW c \in callers, tx[c].pc = "lock"
      PROVE  \E id \in Awaited : id \in tx[c].todo
  <2>1. PICK id \in First(tx[c].todo) : lock[id] \in callers \ {c}
    BY <1>2, <1>4
  <2>2. id \in tx[c].todo /\ id \in Ids
    BY <1>1, <2>1, TransactionMeans DEF First
  <2> QED
    BY <1>4, <2>1, <2>2
<1>5. Awaited # {}
  <2>1. PICK c \in callers : TRUE
    BY DEF Ring
  <2>2. PICK id \in Ids : lock[id] \in callers
    <3>1. \A id \in First(tx[c].todo) : id \in Ids
      BY <1>1, <2>1, TransactionMeans DEF First
    <3> QED
      BY <1>1, <1>2, <2>1, <3>1
  <2>3. tx[lock[id]].pc = "lock"
    BY <1>3, <2>2
  <2> QED
    BY <1>4, <2>2, <2>3
<1>6. PICK last \in Awaited : \A id \in Awaited : Order[id] <= Order[last]
  BY <1>5, LatestOf
<1>7. last \in Ids /\ lock[last] \in callers
  BY <1>6
<1>8. tx[lock[last]].pc = "lock"
  BY <1>3, <1>7
<1>9. PICK id \in Awaited : id \in tx[lock[last]].todo
  BY <1>4, <1>7, <1>8
<1>10. Order[last] < Order[id]
  BY <1>1, <1>7, <1>8, <1>9 DEF InOrder, Locked
<1>11. Order[last] \in Int /\ Order[id] \in Int /\ Order[id] <= Order[last]
  BY <1>6, <1>7, <1>9, OrderMeans
<1> QED
  BY <1>10, <1>11

(***************************************************************************)
(* Mutations wait for each other only when one of them purges and has come *)
(* to lock a parent (storage.ts lockStreams, purge), for any streams and   *)
(* callers and whatever else they do.                                      *)
(***************************************************************************)
THEOREM LockOrderHolds == Spec => []OnlyPurgesDeadlock
<1>1. Init => Ordered
  BY TypedInit, SqlAssumption DEF Init, Ordered, Sorted, Locked
<1>2. Ordered /\ [Next]_vars => Ordered'
  BY OrderedNext
<1>3. Ordered => OnlyPurgesDeadlock
  BY OrderBreaksRings
<1> QED
  BY <1>1, <1>2, <1>3, PTL DEF Spec

-----------------------------------------------------------------------------
(***************************************************************************)
(* A step of c takes nothing from the others: their transactions, their    *)
(* locks, and of a row that one of them has locked its content and its     *)
(* forks.                                                                  *)
(***************************************************************************)
Spares(d) ==
  /\ tx'[d] = tx[d]
  /\ \A id \in Ids :
       /\ lock'[id] = d <=> lock[id] = d
       /\ lock[id] = d => table'[id] = table[id]
       /\ lock[id] = d /\ table[id] # None => Dependents(table', id) = Dependents(table, id)

LEMMA HeldStays ==
  ASSUME NEW d \in Callers, Spares(d), NEW id \in Ids, Holds(d, id)
  PROVE  Holds(d, id)' /\ table'[id] = table[id] /\ Dependents(table', id) = Dependents(table, id)
BY DEF Spares, Holds

LEMMA SourceStays ==
  ASSUME NEW d \in Callers, Spares(d), NEW op \in Operations, op.tag = "create", SourceOK(d, op)
  PROVE  SourceOK(d, op)'
<1> SUFFICES ASSUME op.source # None
             PROVE  Holds(d, op.source)' /\ ~SourceGone(table', op.source, op.at)
  BY DEF SourceOK
<1>1. op.source \in Ids /\ Holds(d, op.source) /\ ~SourceGone(table, op.source, op.at)
  BY OpMeans DEF SourceOK
<1>2. Holds(d, op.source)' /\ table'[op.source] = table[op.source]
  BY <1>1, HeldStays
<1> QED
  BY <1>1, <1>2 DEF SourceGone, Live, Present

LEMMA TargetStays ==
  ASSUME NEW d \in Callers, Spares(d), NEW op \in Operations, TargetOK(d, op)
  PROVE  TargetOK(d, op)' /\ table'[op.id] = table[op.id]
         /\ Dependents(table', op.id) = Dependents(table, op.id)
<1>1. op.id \in Ids /\ Holds(d, op.id)
  BY OpMeans DEF TargetOK
<1> QED
  BY <1>1, HeldStays DEF TargetOK

LEMMA ReadsStay ==
  ASSUME Typed, NEW d \in Callers, Spares(d), Misses(d), tx[d] # None, ReadsOK(d, tx[d])
  PROVE  ReadsOK(d, tx[d])'
<1> DEFINE t == tx[d]
<1>0. t \in Transaction /\ t.op \in Operations /\ PlaceOK(t) /\ tx'[d] = t
  BY TransactionIs, TransactionMeans DEF Typed, Spares
<1>1. t.pc = "lock" => \A id \in Needs(t.op) \ t.todo : Holds(d, id)' \/ table'[id] = None
  <2>1. \A id \in Needs(t.op) : id \in Ids
    BY <1>0, OpMeans DEF Needs
  <2> QED
    BY <2>1, HeldStays DEF ReadsOK, Misses, At
<1>2. t.pc = "source" => Holds(d, t.op.source)' \/ table'[t.op.source] = None
  <2> SUFFICES ASSUME t.pc = "source"
               PROVE  Holds(d, t.op.source)' \/ table'[t.op.source] = None
    OBVIOUS
  <2>1. t.op.source \in Ids /\ t.op.source \in Needs(t.op)
    BY <1>0, OpMeans DEF PlaceOK, Needs
  <2>2. CASE Holds(d, t.op.source)
    BY <1>0, <2>1, <2>2, HeldStays
  <2>3. CASE table[t.op.source] = None
    BY <2>1, <2>3 DEF Misses, At
  <2> QED
    BY <2>2, <2>3 DEF ReadsOK
<1>3. t.pc = "insert" => SourceOK(d, t.op)'
  BY <1>0, SourceStays DEF ReadsOK, PlaceOK
<1>4. t.pc \in {"read", "write"} => TargetOK(d, t.op)'
  BY <1>0, TargetStays DEF ReadsOK
<1>5. t.pc = "write" => SeenOK(t)'
  BY <1>0, TargetStays DEF ReadsOK, SeenOK
<1> QED
  BY <1>0, <1>1, <1>2, <1>3, <1>4, <1>5 DEF ReadsOK

LEMMA GoneStays ==
  ASSUME Typed, NEW d \in Callers, Spares(d), tx[d] # None, GoneOK(d, tx[d])
  PROVE  GoneOK(d, tx[d])' /\ \A x \in DOMAIN tx[d].wrote : x \in Ids /\ table'[x] = table[x]
<1> DEFINE t == tx[d]
<1>0. t \in Transaction /\ t.op \in Operations /\ tx'[d] = t /\ DOMAIN t.wrote \subseteq Ids
  BY TransactionIs, TransactionMeans, WritingMeans DEF Typed, Spares
<1>1. t.op.id \in DOMAIN t.wrote /\ TargetOK(d, t.op)' /\ Dependents(table', t.op.id) = {}
  BY <1>0, TargetStays DEF GoneOK
<1>2. ASSUME NEW x \in DOMAIN t.wrote
      PROVE  /\ x \in Ids /\ table'[x] = table[x] /\ Holds(d, x)'
             /\ Dependents(table', x) = Dependents(table, x)
  BY <1>0, HeldStays DEF GoneOK
<1> QED
  BY <1>0, <1>1, <1>2 DEF GoneOK

LEMMA WritesStay ==
  ASSUME Typed, NEW d \in Callers, Spares(d), tx[d] # None, LocksOK(d), WritesOK(d, tx[d])
  PROVE  WritesOK(d, tx[d])'
<1> DEFINE t == tx[d]
<1>0. t \in Transaction /\ t.op \in Operations /\ PlaceOK(t) /\ tx'[d] = t
      /\ DOMAIN t.wrote \subseteq Ids
  BY TransactionIs, TransactionMeans, WritingMeans DEF Typed, Spares
<1> SUFFICES ASSUME t.pc \in {"ascend", "parent", "commit"}
             PROVE  IF t.op.tag = "create" THEN CreateOK(d, t)'
                    ELSE IF Purges(t) THEN PurgeOK(d, t)' ELSE PatchOK(d, t)'
  BY <1>0 DEF WritesOK, Purges
<1>1. ASSUME t.op.tag = "create"
      PROVE  CreateOK(d, t)'
  <2>1. CreateOK(d, t)
    BY <1>1 DEF WritesOK
  <2>2. SourceOK(d, t.op)'
    BY <1>0, <1>1, <2>1, SourceStays DEF CreateOK
  <2>3. table'[t.op.id] = None
    <3>1. t.op.id \in Ids /\ t.op.id \in DOMAIN t.wrote
      BY <1>0, <2>1, OpMeans DEF CreateOK, Wrote
    <3>2. lock[t.op.id] = d
      BY <3>1 DEF LocksOK
    <3> QED
      BY <2>1, <3>1, <3>2 DEF Spares, CreateOK
  <2> QED
    BY <1>0, <2>1, <2>2, <2>3 DEF CreateOK
<1>2. ASSUME t.op.tag # "create", ~Purges(t)
      PROVE  PatchOK(d, t)'
  <2>1. PatchOK(d, t)
    BY <1>2 DEF WritesOK
  <2>2. TargetOK(d, t.op)' /\ SeenOK(t)'
    BY <1>0, <2>1, TargetStays DEF PatchOK, SeenOK
  <2>3. Patched(d)' = Patched(d)
    BY <1>0 DEF Patched
  <2> QED
    BY <1>0, <2>1, <2>2, <2>3 DEF PatchOK
<1>3. ASSUME t.op.tag # "create", Purges(t)
      PROVE  PurgeOK(d, t)'
  <2>1. PurgeOK(d, t)
    BY <1>3 DEF WritesOK
  <2>2. GoneOK(d, t)' /\ \A x \in DOMAIN t.wrote : x \in Ids /\ table'[x] = table[x]
    BY <1>0, <2>1, GoneStays DEF PurgeOK
  <2>3. EdgeOK(d, t)'
    <3>1. ASSUME NEW x \in Ids, Stays(d, x, DOMAIN t.wrote)
          PROVE  Stays(d, x, DOMAIN t.wrote)'
      BY <1>0, <3>1, HeldStays DEF Stays
    <3>2. ASSUME NEW x \in DOMAIN t.wrote
          PROVE  table[x].parent \in Ids \cup {None}
      BY <1>0, <2>1, EntryMeans DEF PurgeOK, GoneOK, Holds, Typed, Types, Table
    <3> QED
      BY <1>0, <2>1, <2>2, <3>1, <3>2 DEF PurgeOK, EdgeOK
  <2>4. ClimbOK(d, t)'
    <3>1. t.pc = "parent" => t.parent \in Ids
      BY <1>0, TransactionMeans DEF PlaceOK
    <3> QED
      BY <1>0, <2>1, <2>2, <3>1, HeldStays DEF PurgeOK, ClimbOK
  <2> QED
    BY <2>2, <2>3, <2>4 DEF PurgeOK
<1> QED
  BY <1>1, <1>2, <1>3

LEMMA OthersStay ==
  ASSUME Typed, NEW d \in Callers, Spares(d), Misses(d), CallerOK(d)
  PROVE  CallerOK(d)'
<1>1. LocksOK(d)'
  <2> SUFFICES ASSUME NEW id \in Ids
               PROVE  /\ lock'[id] = d => tx'[d] # None /\ (table'[id] = None => id \in DOMAIN tx'[d].wrote)
                      /\ tx'[d] # None /\ id \in DOMAIN tx'[d].wrote => lock'[id] = d
    BY DEF LocksOK
  <2> QED
    BY DEF CallerOK, LocksOK, Spares
<1>2. ASSUME tx[d] # None
      PROVE  ReadsOK(d, tx[d])' /\ WritesOK(d, tx[d])'
  BY <1>2, ReadsStay, WritesStay DEF CallerOK
<1>3. tx'[d] # None => tx[d] # None
  BY DEF Spares
<1> QED
  BY <1>1, <1>2, <1>3 DEF CallerOK

-----------------------------------------------------------------------------
(***************************************************************************)
(* A step that commits nothing spares the others.                          *)
(***************************************************************************)
LEMMA QuietSpares ==
  ASSUME Typed, NEW c \in Callers, NEW t, Moves(c, t), Quiet,
         \A id \in Ids, d \in Callers \ {c} : lock'[id] = d <=> lock[id] = d
  PROVE  \A d \in Callers \ {c} : Spares(d)
BY MovesOn DEF Typed, Spares, Quiet

\* The ways in which a step of c changes locks.
LEMMA SameLocks ==
  ASSUME NEW c \in Callers, UNCHANGED lock
  PROVE  \A id \in Ids, d \in Callers \ {c} : lock'[id] = d <=> lock[id] = d
OBVIOUS

LEMMA Unlocks ==
  ASSUME Typed, NEW c \in Callers, lock' = Unlocked(c)
  PROVE  /\ \A id \in Ids, d \in Callers \ {c} : lock'[id] = d <=> lock[id] = d
         /\ \A id \in Ids : lock'[id] # c
BY SqlAssumption DEF Unlocked, Typed, Types

LEMMA LockTaken ==
  ASSUME Typed, NEW c \in Callers, NEW id \in Ids, lock[id] \in {None, c},
         lock' = [lock EXCEPT ![id] = c]
  PROVE  /\ \A x \in Ids, d \in Callers \ {c} : lock'[x] = d <=> lock[x] = d
         /\ lock'[id] = c /\ \A x \in Ids \ {id} : lock'[x] = lock[x]
BY SqlAssumption DEF Typed, Types

\* ... and only where a row is there.
LEMMA LockTakenIf ==
  ASSUME Typed, NEW c \in Callers, NEW id \in Ids, lock[id] \in {None, c},
         lock' = [lock EXCEPT ![id] = IF table[id] = None THEN None ELSE c]
  PROVE  /\ \A x \in Ids, d \in Callers \ {c} : lock'[x] = d <=> lock[x] = d
         /\ lock'[id] = (IF table[id] = None THEN None ELSE c)
         /\ \A x \in Ids \ {id} : lock'[x] = lock[x]
BY SqlAssumption DEF Typed, Types

-----------------------------------------------------------------------------
(***************************************************************************)
(* A step that commits nothing, seen by the caller that makes it.          *)
(***************************************************************************)
LEMMA Ended ==
  ASSUME Inv, NEW c \in Callers, Moves(c, None), Quiet, lock' = Unlocked(c)
  PROVE  CallerOK(c)' /\ \A d \in Callers \ {c} : Spares(d)
<1>1. tx'[c] = None /\ \A id \in Ids : lock'[id] # c
  BY MovesOn, Unlocks DEF Inv, Typed
<1> QED
  BY <1>1, QuietSpares, Unlocks DEF Inv, CallerOK, LocksOK

LEMMA Restarted ==
  ASSUME Inv, NEW c \in Callers, NEW r \in Transaction, NEW n, Moves(c, r), Begun(r, n), Quiet,
         lock' = Unlocked(c)
  PROVE  CallerOK(c)' /\ \A d \in Callers \ {c} : Spares(d)
<1>1. tx'[c] = r /\ \A id \in Ids : lock'[id] # c
  BY MovesOn, Unlocks DEF Inv, Typed
<1>2. DOMAIN r.wrote = {} /\ r.pc = "begin"
  BY DEF Begun
<1>3. LocksOK(c)' /\ ReadsOK(c, tx[c])' /\ WritesOK(c, tx[c])'
  BY <1>1, <1>2 DEF LocksOK, ReadsOK, WritesOK
<1> QED
  BY <1>3, QuietSpares, Unlocks DEF Inv, CallerOK

LEMMA RollBackOK ==
  ASSUME Inv, NEW c \in Callers, tx[c] # None, RollBack(c)
  PROVE  Quiet /\ CallerOK(c)' /\ \A d \in Callers \ {c} : Spares(d)
<1>1. Quiet /\ lock' = Unlocked(c)
  BY RollBackStep DEF Inv, Quiet
<1>2. Moves(c, None) \/ \E r \in Transaction : Moves(c, r) /\ Begun(r, tx[c].applied)
  BY RollBackStep DEF Inv
<1> QED
  BY <1>1, <1>2, Ended, Restarted

LEMMA RejectOK ==
  ASSUME Inv, NEW c \in Callers, Reject(c)
  PROVE  Quiet /\ CallerOK(c)' /\ \A d \in Callers \ {c} : Spares(d)
<1>1. Quiet /\ lock' = Unlocked(c) /\ Moves(c, None)
  BY RejectStep DEF Quiet
<1> QED
  BY <1>1, Ended

LEMMA MutateOK ==
  ASSUME Inv, NEW c \in Callers, Mutate(c)
  PROVE  Quiet /\ CallerOK(c)' /\ \A d \in Callers \ {c} : Spares(d)
<1>1. PICK r \in Transaction : Moves(c, r) /\ Begun(r, 0)
  BY MutateStep DEF Inv
<1>2. Quiet /\ UNCHANGED lock /\ tx[c] = None
  BY DEF Mutate, committed, Quiet
<1>3. \A id \in Ids : lock[id] # c
  BY <1>2 DEF Inv, CallerOK, LocksOK
<1>4. lock' = Unlocked(c)
  BY <1>2, <1>3 DEF Unlocked, Inv, Typed, Types
<1> QED
  BY <1>1, <1>2, <1>4, Restarted

\* What c has, when it is not in the middle of writing.
LEMMA Unwritings ==
  ASSUME Inv, NEW c \in Callers, tx[c] # None,
         tx[c].pc \in {"begin", "lock", "source", "insert", "read", "write"}
  PROVE  /\ tx[c] \in Transaction /\ tx[c].op \in Operations /\ PlaceOK(tx[c])
         /\ DOMAIN tx[c].wrote = {} /\ ReadsOK(c, tx[c])
         /\ \A id \in Ids : lock[id] = c => table[id] # None
BY TransactionIs, TransactionMeans DEF Inv, Typed, CallerOK, ReadsOK, LocksOK

LEMMA BeginLockOK ==
  ASSUME Inv, NEW c \in Callers, BeginLock(c)
  PROVE  Quiet /\ CallerOK(c)' /\ \A d \in Callers \ {c} : Spares(d)
<1>1. PICK r \in Transaction :
        /\ Moves(c, r) /\ r.pc = "lock" /\ r.todo = LockIds(tx[c].op) \cap Present(table)
        /\ r.wrote = tx[c].wrote /\ r.op = tx[c].op
  BY BeginLockStep DEF Inv, Same
<1>2. Quiet /\ UNCHANGED lock /\ tx[c] # None /\ tx[c].pc = "begin"
  BY DEF BeginLock, At, committed, Quiet
<1>3. tx[c].op \in Operations /\ DOMAIN tx[c].wrote = {} /\ \A id \in Ids : lock[id] = c => table[id] # None
  BY <1>2, Unwritings
<1>4. tx'[c] = r
  BY <1>1, MovesOn DEF Inv, Typed
<1>5. LocksOK(c)'
  BY <1>1, <1>2, <1>3, <1>4, TransactionMeans DEF LocksOK, Quiet
<1>6. \A id \in Needs(r.op) \ r.todo : table'[id] = None
  BY <1>1, <1>2, <1>3, OpMeans DEF Needs, LockIds, Present, Quiet
<1>7. ReadsOK(c, tx[c])' /\ WritesOK(c, tx[c])'
  BY <1>1, <1>3, <1>4, <1>6 DEF ReadsOK, WritesOK
<1> QED
  BY <1>1, <1>2, <1>5, <1>7, QuietSpares, SameLocks DEF Inv, CallerOK

LEMMA LockRowOK ==
  ASSUME Inv, NEW c \in Callers, LockRow(c)
  PROVE  Quiet /\ CallerOK(c)' /\ \A d \in Callers \ {c} : Spares(d)
<1>1. PICK r \in Transaction, id \in tx[c].todo :
        /\ Moves(c, r) /\ tx[c].pc = "lock" /\ r.pc = "lock" /\ r.todo = tx[c].todo \ {id}
        /\ r.wrote = tx[c].wrote /\ r.op = tx[c].op
        /\ lock[id] \in {None, c}
        /\ lock' = [lock EXCEPT ![id] = IF table[id] = None THEN None ELSE c]
  BY LockRowStep DEF Inv, Same
<1>2. Quiet /\ tx[c] # None
  BY DEF LockRow, At, committed, Quiet
<1>3. /\ tx[c] \in Transaction /\ tx[c].op \in Operations /\ DOMAIN tx[c].wrote = {}
      /\ ReadsOK(c, tx[c]) /\ \A x \in Ids : lock[x] = c => table[x] # None
  BY <1>1, <1>2, Unwritings
<1>4. tx'[c] = r /\ id \in Ids
  BY <1>1, <1>3, MovesOn, TransactionMeans DEF Inv, Typed
<1>5. /\ \A x \in Ids, d \in Callers \ {c} : lock'[x] = d <=> lock[x] = d
      /\ lock'[id] = (IF table[id] = None THEN None ELSE c)
      /\ \A x \in Ids \ {id} : lock'[x] = lock[x]
  BY <1>1, <1>4, LockTakenIf DEF Inv
<1>6. LocksOK(c)'
  <2>1. \A x \in Ids : lock'[x] = c => table[x] # None
    BY <1>3, <1>4, <1>5, SqlAssumption
  <2> QED
    BY <1>1, <1>2, <1>3, <1>4, <2>1, TransactionMeans DEF LocksOK, Quiet
<1>7. \A x \in Needs(r.op) \ r.todo : Holds(c, x)' \/ table'[x] = None
  <2> SUFFICES ASSUME NEW x \in Needs(r.op) \ r.todo
               PROVE  Holds(c, x)' \/ table'[x] = None
    OBVIOUS
  <2>1. x \in Ids
    BY <1>1, <1>3, OpMeans DEF Needs
  <2>2. CASE x = id
    BY <1>2, <1>4, <1>5, <2>2 DEF Holds, Quiet
  <2>3. CASE x # id
    BY <1>1, <1>2, <1>3, <1>5, <2>1, <2>3 DEF Holds, Quiet, ReadsOK
  <2> QED
    BY <2>2, <2>3
<1>8. ReadsOK(c, tx[c])' /\ WritesOK(c, tx[c])'
  BY <1>1, <1>3, <1>4, <1>7 DEF ReadsOK, WritesOK
<1> QED
  BY <1>1, <1>2, <1>4, <1>5, <1>6, <1>8, QuietSpares DEF Inv, CallerOK

LEMMA PreflightOK ==
  ASSUME Inv, NEW c \in Callers, Preflight(c)
  PROVE  Quiet /\ CallerOK(c)' /\ \A d \in Callers \ {c} : Spares(d)
<1>1. CASE Reject(c)
  BY <1>1, RejectOK
<1>2. CASE ~Reject(c)
  <2> DEFINE op == tx[c].op
             row == table[op.id]
  <2>1. PICK r \in Transaction :
          /\ Moves(c, r) /\ r.wrote = tx[c].wrote /\ r.op = op
          /\ tx[c].pc = "lock" /\ tx[c].todo = {}
          /\ r.pc = IF op.tag # "create" THEN "read"
                    ELSE IF op.source = None THEN "insert" ELSE "source"
          /\ op.tag # "create" =>
               row # None /\ ~row.softDeleted /\ (op.tag # "delete" => op.expected = row.tail)
          /\ UNCHANGED <<table, held, known, lock, lied, started>>
    BY <1>2, PreflightStep DEF Inv, Same
  <2>2. Quiet /\ UNCHANGED lock /\ tx[c] # None
    BY <2>1 DEF Preflight, At, Quiet
  <2>3. /\ op \in Operations /\ DOMAIN tx[c].wrote = {} /\ ReadsOK(c, tx[c])
        /\ \A id \in Ids : lock[id] = c => table[id] # None
    BY <2>1, <2>2, Unwritings
  <2>4. tx'[c] = r
    BY <2>1, MovesOn DEF Inv, Typed
  <2>5. LocksOK(c)'
    BY <2>1, <2>2, <2>3, <2>4, TransactionMeans DEF LocksOK, Quiet
  <2>6. \A id \in Needs(op) : Holds(c, id)' \/ table'[id] = None
    BY <2>1, <2>2, <2>3 DEF ReadsOK, Holds, Quiet
  <2>7. op.tag # "create" => TargetOK(c, op)'
    BY <2>1, <2>4, <2>6 DEF TargetOK, Needs
  <2>8. r.pc = "source" => Holds(c, r.op.source)' \/ table'[r.op.source] = None
    BY <2>1, <2>3, <2>4, <2>6, OpMeans DEF Needs
  <2>9. r.pc = "insert" => SourceOK(c, r.op)'
    BY <2>1, <2>4 DEF SourceOK
  <2>10. ReadsOK(c, tx[c])' /\ WritesOK(c, tx[c])'
    BY <2>1, <2>3, <2>4, <2>7, <2>8, <2>9 DEF ReadsOK, WritesOK
  <2> QED
    BY <2>1, <2>2, <2>4, <2>5, <2>10, QuietSpares, SameLocks DEF Inv, CallerOK
<1> QED
  BY <1>1, <1>2

LEMMA PreflightSourceOK ==
  ASSUME Inv, NEW c \in Callers, PreflightSource(c)
  PROVE  Quiet /\ CallerOK(c)' /\ \A d \in Callers \ {c} : Spares(d)
<1>1. CASE Reject(c)
  BY <1>1, RejectOK
<1>2. CASE ~Reject(c)
  <2> DEFINE op == tx[c].op
  <2>1. PICK r \in Transaction :
          /\ Moves(c, r) /\ r.wrote = tx[c].wrote /\ r.op = op
          /\ tx[c].pc = "source" /\ r.pc = "insert" /\ ~SourceGone(table, op.source, op.at)
          /\ UNCHANGED <<table, held, known, lock, lied, started>>
    BY <1>2, PreflightSourceStep DEF Inv, Same
  <2>2. Quiet /\ UNCHANGED lock /\ tx[c] # None
    BY <2>1 DEF PreflightSource, At, Quiet
  <2>3. /\ op \in Operations /\ DOMAIN tx[c].wrote = {} /\ ReadsOK(c, tx[c])
        /\ \A id \in Ids : lock[id] = c => table[id] # None
    BY <2>1, <2>2, Unwritings
  <2>4. tx'[c] = r
    BY <2>1, MovesOn DEF Inv, Typed
  <2>5. LocksOK(c)'
    BY <2>1, <2>2, <2>3, <2>4, TransactionMeans DEF LocksOK, Quiet
  <2>6. SourceOK(c, op)
    BY <2>1, <2>3 DEF ReadsOK, SourceOK, SourceGone, Live, Present
  <2>7. SourceOK(c, r.op)'
    BY <2>1, <2>2, <2>4, <2>6 DEF SourceOK, Holds, Quiet
  <2>8. ReadsOK(c, tx[c])' /\ WritesOK(c, tx[c])'
    BY <2>1, <2>3, <2>4, <2>7 DEF ReadsOK, WritesOK
  <2> QED
    BY <2>1, <2>2, <2>4, <2>5, <2>8, QuietSpares, SameLocks DEF Inv, CallerOK
<1> QED
  BY <1>1, <1>2

LEMMA InsertOK ==
  ASSUME Inv, NEW c \in Callers, Insert(c)
  PROVE  Quiet /\ CallerOK(c)' /\ \A d \in Callers \ {c} : Spares(d)
<1> DEFINE t == tx[c]
           id == t.op.id
<1>0. t # None /\ t.pc = "insert"
  BY DEF Insert, At
<1>1. CASE table[id] # None
  <2>1. RollBack(c)
    BY <1>1 DEF Insert
  <2> QED
    BY <1>0, <2>1, RollBackOK
<1>2. CASE table[id] = None
  <2>1. PICK r \in Transaction :
          /\ Moves(c, r) /\ r.op = t.op /\ r.number = t.number /\ r.pc = "commit"
          /\ r.wrote = Wrote(id, Created(t.op, t.number))
          /\ \A d \in Callers \ {c} : ~Writes(d, id)
          /\ lock' = [lock EXCEPT ![id] = c]
          /\ UNCHANGED <<table, held, known, lied, started>>
    BY <1>2, InsertStep DEF Inv, Same
  <2>2. /\ t \in Transaction /\ t.op \in Operations /\ PlaceOK(t) /\ DOMAIN t.wrote = {}
        /\ ReadsOK(c, t) /\ \A x \in Ids : lock[x] = c => table[x] # None
    BY <1>0, Unwritings
  <2>3. t.op.tag = "create" /\ t.op.source # id /\ id \in Ids /\ t.op.source \in Ids \cup {None}
    BY <1>0, <2>2, OpMeans DEF PlaceOK
  <2>4. lock[id] \in {None, c}
    <3>1. ASSUME NEW d \in Callers \ {c}, lock[id] = d
          PROVE  Writes(d, id)
      BY <1>2, <2>3, <3>1 DEF Inv, CallerOK, LocksOK, Writes
    <3> QED
      BY <2>1, <2>3, <3>1 DEF Inv, Typed, Types
  <2>5. /\ \A x \in Ids, d \in Callers \ {c} : lock'[x] = d <=> lock[x] = d
        /\ lock'[id] = c /\ \A x \in Ids \ {id} : lock'[x] = lock[x]
    BY <2>1, <2>3, <2>4, LockTaken DEF Inv
  <2>6. tx'[c] = r /\ Quiet
    BY <2>1, MovesOn DEF Inv, Typed, Quiet
  <2>7. DOMAIN r.wrote = {id}
    BY <2>1 DEF Wrote
  <2>8. LocksOK(c)'
    BY <2>2, <2>5, <2>6, <2>7, TransactionMeans DEF LocksOK, Quiet
  <2>9. SourceOK(c, t.op)
    BY <1>0, <2>2 DEF ReadsOK
  <2>10. SourceOK(c, r.op)'
    BY <2>1, <2>3, <2>5, <2>6, <2>9 DEF SourceOK, Holds, Quiet
  <2>11. CreateOK(c, tx[c])'
    BY <1>2, <2>1, <2>6, <2>10 DEF CreateOK, Quiet
  <2>12. ReadsOK(c, tx[c])' /\ WritesOK(c, tx[c])'
    BY <2>1, <2>3, <2>6, <2>11 DEF ReadsOK, WritesOK
  <2> QED
    BY <2>1, <2>5, <2>6, <2>8, <2>12, QuietSpares DEF Inv, CallerOK
<1> QED
  BY <1>1, <1>2

LEMMA ReadRowOK ==
  ASSUME Inv, NEW c \in Callers, ReadRow(c)
  PROVE  Quiet /\ CallerOK(c)' /\ \A d \in Callers \ {c} : Spares(d)
<1> DEFINE t == tx[c]
           id == t.op.id
<1>0. t # None /\ t.pc = "read"
  BY DEF ReadRow, At
<1>1. /\ t \in Transaction /\ t.op \in Operations /\ DOMAIN t.wrote = {}
      /\ ReadsOK(c, t) /\ \A x \in Ids : lock[x] = c => table[x] # None
  BY <1>0, Unwritings
<1>2. TargetOK(c, t.op) /\ table[id] # None
  BY <1>0, <1>1 DEF ReadsOK, TargetOK, Holds
<1>3. PICK r \in Transaction :
        /\ Moves(c, r) /\ r.op = t.op /\ r.wrote = t.wrote /\ r.pc = "write"
        /\ r.seen = table[id] /\ (r.soft <=> Dependents(table, id) # {})
        /\ UNCHANGED <<table, held, known, lock, lied, started>>
  BY <1>2, ReadRowStep DEF Inv, Same
<1>4. tx'[c] = r /\ Quiet
  BY <1>3, MovesOn DEF Inv, Typed, Quiet
<1>5. LocksOK(c)'
  BY <1>1, <1>3, <1>4, TransactionMeans DEF LocksOK, Quiet
<1>6. TargetOK(c, r.op)' /\ SeenOK(r)'
  BY <1>2, <1>3, <1>4 DEF TargetOK, Holds, SeenOK, Quiet
<1>7. ReadsOK(c, tx[c])' /\ WritesOK(c, tx[c])'
  BY <1>1, <1>3, <1>4, <1>6 DEF ReadsOK, WritesOK
<1> QED
  BY <1>3, <1>4, <1>5, <1>7, QuietSpares, SameLocks DEF Inv, CallerOK

LEMMA WriteRowOK ==
  ASSUME Inv, NEW c \in Callers, WriteRow(c)
  PROVE  Quiet /\ CallerOK(c)' /\ \A d \in Callers \ {c} : Spares(d)
<1> DEFINE t == tx[c]
           id == t.op.id
<1>0. t # None /\ t.pc = "write" /\ Quiet /\ lock[id] \in {None, c}
  BY WriteRowStep DEF Inv, Quiet
<1>1. CASE Moves(c, None) /\ lock' = Unlocked(c)
  BY <1>0, <1>1, Ended
<1>2. CASE ~(Moves(c, None) /\ lock' = Unlocked(c))
  <2>1. PICK r \in Transaction :
          /\ Moves(c, r) /\ r.op = t.op /\ r.number = t.number
          /\ r.seen = t.seen /\ (r.soft <=> t.soft) /\ lock' = [lock EXCEPT ![id] = c]
          /\ r.wrote = IF table[id] = None THEN Unwritten ELSE Wrote(id, Patched(c))
          /\ IF Purges(t) /\ t.seen.parent # None
             THEN r.pc = "ascend" /\ r.parent = t.seen.parent
             ELSE r.pc = "commit"
    BY <1>2, WriteRowStep DEF Inv, Same
  <2>2. /\ t \in Transaction /\ t.op \in Operations /\ PlaceOK(t) /\ DOMAIN t.wrote = {}
        /\ ReadsOK(c, t) /\ \A x \in Ids : lock[x] = c => table[x] # None
    BY <1>0, Unwritings
  <2>3. TargetOK(c, t.op) /\ SeenOK(t) /\ table[id] # None /\ id \in Ids /\ t.op.tag # "create"
        /\ t.seen \in Entry
    BY <1>0, <2>2, OpMeans, TransactionMeans DEF ReadsOK, TargetOK, Holds, PlaceOK
  <2>4. /\ \A x \in Ids, d \in Callers \ {c} : lock'[x] = d <=> lock[x] = d
        /\ lock'[id] = c /\ \A x \in Ids \ {id} : lock'[x] = lock[x]
    <3>1. Typed /\ id \in Ids /\ lock[id] \in {None, c} /\ lock' = [lock EXCEPT ![id] = c]
      BY <1>0, <2>1, <2>3 DEF Inv
    <3> HIDE DEF id
    <3> QED
      BY <3>1, LockTaken
  <2>5. tx'[c] = r
    BY <2>1, MovesOn DEF Inv, Typed
  <2>6. DOMAIN r.wrote = {id} /\ r.wrote = Wrote(id, Patched(c))
    BY <2>1, <2>3 DEF Wrote
  <2>7. LocksOK(c)'
    BY <1>0, <2>2, <2>4, <2>5, <2>6, TransactionMeans DEF LocksOK, Quiet
  <2>8. TargetOK(c, r.op)' /\ SeenOK(r)'
    BY <1>0, <2>1, <2>3, <2>4, <2>5 DEF TargetOK, Holds, SeenOK, Quiet
  <2>9. r.pc \in {"ascend", "commit"}
    BY <2>1
  <2>10. CASE Purges(t)
    <3>1. Patched(c) = None
      BY <2>2, <2>3, <2>10, PatchedMeans
    <3>2. r.wrote[id] = None
      BY <2>6, <3>1 DEF Wrote
    <3>3. Purges(r)
      BY <2>1, <2>10 DEF Purges
    <3>4. Dependents(table', id) = {}
      BY <1>0, <2>3, <2>10 DEF SeenOK, Purges, Quiet
    <3>5. GoneOK(c, r)'
      BY <2>1, <2>5, <2>6, <2>8, <3>2, <3>4 DEF GoneOK, TargetOK
    <3>6. table'[id].parent = t.seen.parent
      BY <1>0, <2>3 DEF SeenOK, Quiet
    <3>7. EdgeOK(c, r)'
      BY <2>1, <2>5, <2>6, <2>10, <3>6 DEF EdgeOK
    <3>8. ClimbOK(c, r)'
      BY <2>1, <2>5, <2>6, <2>9, <2>10, <3>6 DEF ClimbOK
    <3>9. PurgeOK(c, tx[c])'
      BY <2>5, <3>5, <3>7, <3>8 DEF PurgeOK
    <3> QED
      BY <1>0, <2>1, <2>3, <2>4, <2>5, <2>7, <2>9, <3>3, <3>9, QuietSpares
      DEF Inv, CallerOK, ReadsOK, WritesOK, Purges
  <2>11. CASE ~Purges(t)
    <3>1. Patched(c)' = Patched(c)
      BY <2>1, <2>5 DEF Patched
    <3>2. PatchOK(c, tx[c])'
      BY <2>1, <2>5, <2>6, <2>8, <3>1 DEF PatchOK
    <3>3. r.pc = "commit" /\ ~Purges(r)
      BY <2>1, <2>11 DEF Purges
    <3> QED
      BY <1>0, <2>1, <2>3, <2>4, <2>5, <2>7, <3>2, <3>3, QuietSpares
      DEF Inv, CallerOK, ReadsOK, WritesOK, Purges
  <2> QED
    BY <2>10, <2>11
<1> QED
  BY <1>1, <1>2

\* A transaction that is purging.
LEMMA Purging ==
  ASSUME Inv, NEW c \in Callers, tx[c] # None, tx[c].pc \in {"ascend", "parent"}
  PROVE  LET t == tx[c]
         IN  /\ t \in Transaction /\ t.op \in Operations /\ PlaceOK(t) /\ t.op.tag = "delete"
             /\ Purges(t) /\ GoneOK(c, t) /\ EdgeOK(c, t) /\ ClimbOK(c, t) /\ LocksOK(c)
             /\ t.wrote \in Writings /\ DOMAIN t.wrote \subseteq Ids /\ t.parent \in Ids
             /\ table[t.parent] # None
             /\ \A x \in DOMAIN t.wrote : table[x] \in Entry
<1> DEFINE t == tx[c]
<1>1. t \in Transaction /\ t.op \in Operations /\ PlaceOK(t) /\ t.op.tag = "delete" /\ LocksOK(c)
      /\ WritesOK(c, t) /\ t.parent \in Ids /\ t.wrote \in Writings
  BY TransactionIs, TransactionMeans DEF Inv, Typed, CallerOK, PlaceOK, Purges
<1>2. DOMAIN t.wrote \subseteq Ids
  BY <1>1, WritingMeans
<1>3. Purges(t) /\ PurgeOK(c, t)
  BY <1>1 DEF PlaceOK, WritesOK, Purges
<1>4. \A x \in DOMAIN t.wrote : table[x] # None /\ table[x] \in Entry
  BY <1>2, <1>3 DEF PurgeOK, GoneOK, Holds, Inv, Typed, Types, Table
<1>5. table[t.parent] # None
  <2>1. PICK x \in DOMAIN t.wrote : table[x].parent = t.parent
    BY <1>3 DEF PurgeOK, ClimbOK
  <2> QED
    BY <1>1, <1>2, <1>4, <2>1, NoneAssumption DEF Inv, TreeOK, Sound, Present
<1> QED
  BY <1>1, <1>2, <1>3, <1>4, <1>5 DEF PurgeOK, Purges

LEMMA LockParentOK ==
  ASSUME Inv, NEW c \in Callers, LockParent(c)
  PROVE  Quiet /\ CallerOK(c)' /\ \A d \in Callers \ {c} : Spares(d)
<1> DEFINE t == tx[c]
           id == t.parent
<1>1. PICK r \in Transaction :
        /\ Moves(c, r) /\ r.op = t.op /\ r.number = t.number /\ r.wrote = t.wrote
        /\ (r.soft <=> t.soft) /\ r.parent = id
        /\ t.pc = "ascend" /\ r.pc = "parent"
        /\ lock[id] \in {None, c}
        /\ lock' = [lock EXCEPT ![id] = IF table[id] = None THEN None ELSE c]
        /\ UNCHANGED <<table, held, known, lied, started>>
  BY LockParentStep DEF Inv, Same
<1>2. t # None /\ Quiet
  BY <1>1 DEF LockParent, At, Quiet
<1>3. /\ t.op.tag = "delete" /\ Purges(t) /\ GoneOK(c, t) /\ EdgeOK(c, t) /\ ClimbOK(c, t)
      /\ LocksOK(c) /\ DOMAIN t.wrote \subseteq Ids /\ id \in Ids /\ table[id] # None
  BY <1>1, <1>2, Purging
<1>4. tx'[c] = r
  BY <1>1, MovesOn DEF Inv, Typed
<1>5. /\ \A x \in Ids, d \in Callers \ {c} : lock'[x] = d <=> lock[x] = d
      /\ lock'[id] = (IF table[id] = None THEN None ELSE c)
      /\ \A x \in Ids \ {id} : lock'[x] = lock[x]
  <2>1. Typed /\ id \in Ids /\ lock[id] \in {None, c}
        /\ lock' = [lock EXCEPT ![id] = IF table[id] = None THEN None ELSE c]
    BY <1>1, <1>3 DEF Inv
  <2> HIDE DEF id
  <2> QED
    BY <2>1, LockTakenIf
<1>6. lock'[id] = c /\ \A x \in Ids : lock[x] = c => lock'[x] = c
  BY <1>3, <1>5
<1>7. LocksOK(c)'
  BY <1>1, <1>2, <1>3, <1>4, <1>5, <1>6, TransactionMeans DEF LocksOK, Quiet
<1>8. GoneOK(c, r)'
  BY <1>1, <1>2, <1>3, <1>4, <1>6 DEF GoneOK, TargetOK, Holds, Quiet
<1>9. EdgeOK(c, r)' /\ ClimbOK(c, r)'
  BY <1>1, <1>2, <1>3, <1>4, <1>6 DEF EdgeOK, ClimbOK, Holds, Quiet
<1>10. ReadsOK(c, tx[c])' /\ WritesOK(c, tx[c])'
  BY <1>1, <1>3, <1>4, <1>8, <1>9 DEF ReadsOK, WritesOK, PurgeOK, Purges
<1> QED
  BY <1>1, <1>2, <1>4, <1>5, <1>7, <1>10, QuietSpares DEF Inv, CallerOK

\* What a purge sees is the table without what it deleted.
LEMMA SeenPurged ==
  ASSUME Inv, NEW c \in Callers, tx[c] # None, tx[c].pc = "parent"
  PROVE  /\ \A x \in Ids : Seen(c)[x] = IF x \in DOMAIN tx[c].wrote THEN None ELSE table[x]
         /\ \A y \in Ids : Dependents(Seen(c), y) = Dependents(table, y) \ DOMAIN tx[c].wrote
<1> DEFINE t == tx[c]
<1>1. GoneOK(c, t) /\ DOMAIN t.wrote \subseteq Ids
  BY Purging
<1>2. \A x \in Ids : Seen(c)[x] = IF x \in DOMAIN t.wrote THEN None ELSE table[x]
  BY <1>1 DEF Seen, GoneOK
<1>3. ASSUME NEW y \in Ids
      PROVE  Dependents(Seen(c), y) = Dependents(table, y) \ DOMAIN t.wrote
  BY <1>1, <1>2 DEF Dependents, Present
<1> QED
  BY <1>2, <1>3

LEMMA PurgeParentOK ==
  ASSUME Inv, NEW c \in Callers, PurgeParent(c)
  PROVE  Quiet /\ CallerOK(c)' /\ \A d \in Callers \ {c} : Spares(d)
<1> DEFINE t == tx[c]
           id == t.parent
           gone == DOMAIN t.wrote
<1>1. PICK r \in Transaction :
        /\ Moves(c, r) /\ r.op = t.op /\ r.number = t.number /\ (r.soft <=> t.soft)
        /\ t.pc = "parent" /\ UNCHANGED <<table, held, known, lock, lied, started>>
        /\ IF Keeps(c, id) THEN r.pc = "commit" /\ r.wrote = t.wrote
           ELSE LET parent == Seen(c)[id].parent
                IN  /\ r.wrote = Unwrite(t.wrote, id) /\ r.parent = parent
                    /\ r.pc = IF parent = None THEN "commit" ELSE "ascend"
  BY PurgeParentStep DEF Inv, Same
<1>2. t # None /\ Quiet /\ UNCHANGED lock
  BY <1>1 DEF PurgeParent, At, Quiet
<1>3. /\ t.op.tag = "delete" /\ Purges(t) /\ GoneOK(c, t) /\ EdgeOK(c, t) /\ ClimbOK(c, t)
      /\ LocksOK(c) /\ gone \subseteq Ids /\ id \in Ids /\ table[id] # None /\ t.wrote \in Writings
  BY <1>1, <1>2, Purging
<1>4. tx'[c] = r
  BY <1>1, MovesOn DEF Inv, Typed
<1>5. Holds(c, id) /\ \E x \in gone : table[x].parent = id
  BY <1>1, <1>3 DEF ClimbOK
<1>6. /\ Seen(c)[id] = (IF id \in gone THEN None ELSE table[id])
      /\ Dependents(Seen(c), id) = Dependents(table, id) \ gone
  BY <1>1, <1>2, <1>3, SeenPurged
<1>7. Purges(r)
  BY <1>1, <1>3 DEF Purges
<1>8. SUFFICES LocksOK(c)' /\ PurgeOK(c, r)' /\ r.pc \in {"ascend", "commit"}
  BY <1>1, <1>2, <1>3, <1>4, <1>7, QuietSpares, SameLocks
  DEF Inv, CallerOK, ReadsOK, WritesOK, Purges
<1>9. CASE Keeps(c, id)
  <2>1. r.pc = "commit" /\ r.wrote = t.wrote
    BY <1>1, <1>9
  <2>2. LocksOK(c)'
    BY <1>2, <1>3, <1>4, <2>1, TransactionMeans DEF LocksOK, Quiet
  <2>3. GoneOK(c, r)'
    BY <1>1, <1>2, <1>3, <1>4, <2>1 DEF GoneOK, TargetOK, Holds, Quiet
  <2>4. id \in gone \/ Stays(c, id, gone)
    BY <1>5, <1>6, <1>9 DEF Keeps, Stays, Holds
  <2>5. EdgeOK(c, t) /\ t.pc = "parent"
    BY <1>1, <1>3
  <2>6. \A x \in gone : LET parent == table[x].parent
                        IN  parent \in {None} \cup gone \/ Stays(c, parent, gone)
    BY <2>4, <2>5 DEF EdgeOK
  <2>7. EdgeOK(c, r)' /\ ClimbOK(c, r)'
    BY <1>2, <1>4, <2>1, <2>6 DEF EdgeOK, ClimbOK, Stays, Holds, Quiet
  <2> QED
    BY <2>1, <2>2, <2>3, <2>7 DEF PurgeOK
<1>10. CASE ~Keeps(c, id)
  <2> DEFINE parent == table[id].parent
  <2>1. /\ id \notin gone /\ table[id].softDeleted /\ Dependents(table, id) \subseteq gone
        /\ Seen(c)[id] = table[id]
    BY <1>6, <1>10 DEF Keeps
  <2>2. /\ r.wrote = Unwrite(t.wrote, id) /\ r.parent = parent
        /\ r.pc = IF parent = None THEN "commit" ELSE "ascend"
    BY <1>1, <1>10, <2>1
  <2>3. /\ DOMAIN r.wrote = gone \cup {id} /\ r.wrote[id] = None
        /\ \A x \in gone : r.wrote[x] = t.wrote[x]
    <3> DEFINE w == t.wrote
    <3>1. w \in Writings /\ id \in Ids /\ id \notin DOMAIN w /\ r.wrote = Unwrite(w, id)
      BY <1>3, <2>1, <2>2
    <3> HIDE DEF w, id
    <3>2. /\ DOMAIN Unwrite(w, id) = DOMAIN w \cup {id} /\ Unwrite(w, id)[id] = None
          /\ \A x \in DOMAIN w \ {id} : Unwrite(w, id)[x] = w[x]
      BY <3>1, UnwriteTyped
    <3>3. /\ DOMAIN r.wrote = DOMAIN w \cup {id} /\ r.wrote[id] = None
          /\ \A x \in DOMAIN w : r.wrote[x] = w[x]
      BY <3>1, <3>2
    <3> QED
      BY <3>3 DEF w
  <2>4. LocksOK(c)'
    BY <1>2, <1>3, <1>4, <1>5, <2>3, TransactionMeans DEF LocksOK, Holds, Quiet
  <2>5. Dependents(table, id) # {}
    <3>1. PICK x \in gone : table[x].parent = id
      BY <1>5
    <3>2. x \in Dependents(table, id)
      BY <1>3, <3>1 DEF GoneOK, Holds, Dependents, Present
    <3> QED
      BY <3>2
  <2>6. ASSUME NEW x \in gone \cup {id}
        PROVE  /\ r.wrote[x] = None /\ Holds(c, x)
               /\ x # t.op.id =>
                    /\ table[x].softDeleted /\ Dependents(table, x) # {}
                    /\ Dependents(table, x) \subseteq gone \cup {id}
    BY <1>3, <1>5, <2>1, <2>3, <2>5 DEF GoneOK
  <2>7. GoneOK(c, r)'
    BY <1>1, <1>2, <1>3, <1>4, <2>3, <2>6 DEF GoneOK, TargetOK, Holds, Quiet
  <2>8. EdgeOK(c, t) /\ t.pc = "parent"
    BY <1>1, <1>3
  <2>9. \A x \in gone \cup {id} :
           table[x].parent \in {None} \cup (gone \cup {id}) \/ (r.pc # "commit" /\ table[x].parent = r.parent)
    BY <2>2, <2>8 DEF EdgeOK
  <2>10. EdgeOK(c, r)' /\ ClimbOK(c, r)'
    BY <1>2, <1>4, <2>2, <2>3, <2>9 DEF EdgeOK, ClimbOK, Stays, Holds, Quiet
  <2> QED
    BY <2>2, <2>4, <2>7, <2>10 DEF PurgeOK
<1> QED
  BY <1>9, <1>10

-----------------------------------------------------------------------------
(***************************************************************************)
(* A commit takes one of three shapes.                                     *)
(***************************************************************************)
Commits(c) == tx[c] # None /\ tx[c].pc = "commit" /\ Apply(c)

LEMMA Committing ==
  ASSUME Inv, NEW c \in Callers, tx[c] # None, tx[c].pc = "commit"
  PROVE  /\ tx[c] \in Transaction /\ tx[c].op \in Operations /\ tx[c].op.id \in Ids
         /\ PlaceOK(tx[c]) /\ LocksOK(c) /\ WritesOK(c, tx[c])
         /\ DOMAIN tx[c].wrote \subseteq Ids
BY TransactionIs, TransactionMeans, OpMeans, WritingMeans DEF Inv, Typed, CallerOK

\* A table and the messages given, after one row was replaced.
LEMMA OneRow ==
  ASSUME Typed, NEW c \in Callers, tx[c] # None, Apply(c), NEW id \in Ids,
         DOMAIN tx[c].wrote = {id}, NEW row, table'[id] = row, NEW given, held'[id] = given
  PROVE  table' = [table EXCEPT ![id] = row] /\ held' = [held EXCEPT ![id] = given]
<1>1. table' \in Table /\ table' = Merged(c) /\ held' \in [Ids -> SUBSET Message]
  BY ApplyTyped
<1>2. \A x \in Ids : x # id => table'[x] = table[x] /\ held'[x] = held[x]
  BY <1>1, MergedMeans, HeldMeans
<1> QED
  BY <1>1, <1>2 DEF Typed, Types, Table

LEMMA CreateCommits ==
  ASSUME Inv, NEW c \in Callers, Commits(c), tx[c].op.tag = "create"
  PROVE  LET op == tx[c].op
             e == table'[op.id]
         IN  /\ op \in Operations /\ op.id \in Ids /\ op.source # op.id
             /\ table[op.id] = None /\ lock[op.id] = c /\ SourceOK(c, op)
             /\ e = Created(op, tx[c].number) /\ e \in Entry
             /\ table' = [table EXCEPT ![op.id] = e]
             /\ held' = [held EXCEPT ![op.id] = e.log \cup GivenTo(e)]
<1> DEFINE t == tx[c]
           id == t.op.id
           n == t.number
           new == Created(t.op, n)
<1>1. /\ t \in Transaction /\ t.op \in Operations /\ id \in Ids /\ PlaceOK(t) /\ LocksOK(c)
      /\ CreateOK(c, t) /\ t # None /\ Apply(c)
  BY Committing DEF Commits, WritesOK
<1>2. n \in Nat /\ new \in Entry /\ new # None
  BY <1>1, TransactionMeans, CreatedTyped, EntryMeans
<1>3. DOMAIN t.wrote = {id} /\ t.wrote[id] = new
  <2>1. t.wrote = Wrote(id, new)
    BY <1>1 DEF CreateOK
  <2> QED
    BY <2>1 DEF Wrote
<1>4. table[id] = None /\ lock[id] = c /\ SourceOK(c, t.op) /\ t.op.source # id
  BY <1>1, <1>3 DEF CreateOK, LocksOK, PlaceOK
<1>5. table'[id] = new
  <2>1. table' = Merged(c)
    BY <1>1, ApplyTyped DEF Inv
  <2>2. Merged(c)[id] = [parent |-> new.parent, at |-> new.at, tail |-> new.tail,
                         softDeleted |-> new.softDeleted, log |-> new.log \cup {}]
    <3>1. Typed /\ t # None /\ id \in Ids /\ id \in DOMAIN t.wrote /\ t.wrote[id] = new /\ new # None
          /\ table[id] = None
      BY <1>1, <1>2, <1>3, <1>4 DEF Inv
    <3> HIDE DEF id, new
    <3> QED
      BY <3>1, MergedMeans
  <2> HIDE DEF new
  <2>3. new.log \cup {} = new.log
    OBVIOUS
  <2>4. new = [parent |-> new.parent, at |-> new.at, tail |-> new.tail,
               softDeleted |-> new.softDeleted, log |-> new.log]
    BY <1>2 DEF Entry
  <2> QED
    BY <2>1, <2>2, <2>3, <2>4
<1>6. held'[id] = new.log \cup GivenTo(new)
  BY <1>1, <1>2, <1>3, <1>4, HeldMeans DEF Inv
<1>7. table' = [table EXCEPT ![id] = new] /\ held' = [held EXCEPT ![id] = new.log \cup GivenTo(new)]
  <2> DEFINE given == new.log \cup GivenTo(new)
  <2>1. Typed /\ id \in Ids /\ DOMAIN tx[c].wrote = {id} /\ table'[id] = new /\ held'[id] = given
        /\ tx[c] # None /\ Apply(c)
    BY <1>1, <1>3, <1>5, <1>6 DEF Inv
  <2> HIDE DEF id, new, given
  <2>2. table' = [table EXCEPT ![id] = new] /\ held' = [held EXCEPT ![id] = given]
    BY <2>1, OneRow
  <2> QED
    BY <2>2 DEF given
<1> QED
  BY <1>1, <1>2, <1>4, <1>5, <1>7

LEMMA PatchCommits ==
  ASSUME Inv, NEW c \in Callers, Commits(c), tx[c].op.tag # "create", ~Purges(tx[c])
  PROVE  LET op == tx[c].op
             p == Patched(c)
             e == table'[op.id]
             row == table[op.id]
         IN  /\ op \in Operations /\ op.id \in Ids /\ lock[op.id] = c
             /\ row \in Entry /\ ~row.softDeleted
             /\ op.tag # "delete" => op.expected = row.tail
             /\ op.tag = "delete" => Dependents(table, op.id) # {}
             /\ e \in Entry /\ e.parent = row.parent /\ e.at = row.at
             /\ e.softDeleted = (op.tag = "delete")
             /\ e.tail = IF op.tag = "append" THEN row.tail + 1 ELSE row.tail
             /\ e.log = row.log \cup p.log
             /\ p.log = IF op.tag = "append" THEN Written(row.tail, 1, tx[c].number) ELSE {}
             /\ table' = [table EXCEPT ![op.id] = e]
             /\ held' = [held EXCEPT ![op.id] = @ \cup p.log]
<1> DEFINE t == tx[c]
           id == t.op.id
           p == Patched(c)
           e == table'[id]
           row == table[id]
<1>1. /\ t \in Transaction /\ t.op \in Operations /\ id \in Ids /\ PlaceOK(t) /\ LocksOK(c)
      /\ PatchOK(c, t) /\ t # None /\ Apply(c)
  BY Committing DEF Commits, WritesOK
<1>2. row \in Entry /\ ~row.softDeleted /\ t.seen = row /\ (t.op.tag # "delete" => t.op.expected = row.tail)
      /\ (t.soft <=> Dependents(table, id) # {})
  BY <1>1 DEF PatchOK, TargetOK, SeenOK, Holds, Inv, Typed, Types, Table
<1>3. /\ p \in Entry /\ p.parent = row.parent /\ p.at = row.at
      /\ p.tail = (IF t.op.tag = "append" THEN row.tail + 1 ELSE row.tail)
      /\ p.softDeleted = (t.op.tag = "delete")
      /\ p.log = IF t.op.tag = "append" THEN Written(row.tail, 1, t.number) ELSE {}
  <2>1. /\ p \in Entry
        /\ p.parent = t.seen.parent /\ p.at = t.seen.at
        /\ p.tail = (IF t.op.tag = "append" THEN t.op.expected + 1 ELSE t.seen.tail)
        /\ p.softDeleted = (t.op.tag = "delete" \/ t.seen.softDeleted)
        /\ p.log = IF t.op.tag = "append" THEN Written(t.op.expected, 1, t.number) ELSE {}
    BY <1>1, <1>2, PatchedMeans
  <2> QED
    BY <1>2, <2>1
<1>4. DOMAIN t.wrote = {id} /\ t.wrote[id] = p /\ p # None
  <2>1. t.wrote = Wrote(id, p)
    BY <1>1 DEF PatchOK
  <2> QED
    BY <1>3, <2>1, EntryMeans DEF Wrote
<1>5. lock[id] = c
  BY <1>1, <1>4 DEF LocksOK
<1>6. row # None
  BY <1>2, EntryMeans
<1>7. e = [parent |-> p.parent, at |-> p.at, tail |-> p.tail,
           softDeleted |-> p.softDeleted, log |-> p.log \cup row.log] /\ e \in Entry
  <2>1. table' = Merged(c)
    BY <1>1, ApplyTyped DEF Inv
  <2> QED
    BY <1>1, <1>4, <1>6, <2>1, MergedMeans DEF Inv
<1>8. held'[id] = held[id] \cup p.log
  BY <1>1, <1>4, <1>6, HeldMeans DEF Inv
<1>9. table' = [table EXCEPT ![id] = e] /\ held' = [held EXCEPT ![id] = held[id] \cup p.log]
  <2> DEFINE given == held[id] \cup p.log
  <2>1. Typed /\ id \in Ids /\ DOMAIN tx[c].wrote = {id} /\ table'[id] = e /\ held'[id] = given
        /\ tx[c] # None /\ Apply(c)
    BY <1>1, <1>4, <1>8 DEF Inv
  <2> HIDE DEF id, e, given
  <2>2. table' = [table EXCEPT ![id] = e] /\ held' = [held EXCEPT ![id] = given]
    BY <2>1, OneRow
  <2> QED
    BY <2>2 DEF given
<1>10. t.op.tag = "delete" => Dependents(table, id) # {}
  BY <1>2 DEF Purges
<1>11. /\ e.parent = row.parent /\ e.at = row.at /\ e.softDeleted = (t.op.tag = "delete")
       /\ e.tail = (IF t.op.tag = "append" THEN row.tail + 1 ELSE row.tail)
       /\ e.log = row.log \cup p.log
  <2> HIDE DEF e, p, row
  <2> QED
    BY <1>3, <1>7
<1> QED
  BY <1>1, <1>2, <1>3, <1>5, <1>7, <1>9, <1>10, <1>11

LEMMA PurgeCommits ==
  ASSUME Inv, NEW c \in Callers, Commits(c), tx[c].op.tag # "create", Purges(tx[c])
  PROVE  LET t == tx[c]
             gone == DOMAIN t.wrote
         IN  /\ t.op.id \in gone /\ gone \subseteq Ids /\ t.op.id \in Live(table)
             /\ \A x \in gone : lock[x] = c /\ table[x] \in Entry
             /\ GoneOK(c, t) /\ EdgeOK(c, t)
             /\ table' = Without(table, gone)
             /\ held' = [x \in Ids |-> IF x \in gone THEN {} ELSE held[x]]
<1> DEFINE t == tx[c]
           gone == DOMAIN t.wrote
<1>1. /\ t \in Transaction /\ t.op \in Operations /\ t.op.id \in Ids /\ LocksOK(c)
      /\ GoneOK(c, t) /\ EdgeOK(c, t) /\ t # None /\ Apply(c) /\ gone \subseteq Ids
  BY Committing DEF Commits, WritesOK, PurgeOK
<1>2. \A x \in gone : t.wrote[x] = None /\ lock[x] = c /\ table[x] # None /\ table[x] \in Entry
  BY <1>1 DEF GoneOK, Holds, Inv, Typed, Types, Table
<1>3. t.op.id \in gone /\ t.op.id \in Live(table)
  BY <1>1 DEF GoneOK, TargetOK, Holds, Live, Present
<1>4. table' = Merged(c) /\ table' \in Table /\ held' \in [Ids -> SUBSET Message]
  BY <1>1, ApplyTyped DEF Inv
<1>5. \A x \in Ids : /\ table'[x] = IF x \in gone THEN None ELSE table[x]
                     /\ held'[x] = IF x \in gone THEN {} ELSE held[x]
  <2> SUFFICES ASSUME NEW x \in Ids
               PROVE  /\ table'[x] = IF x \in gone THEN None ELSE table[x]
                      /\ held'[x] = IF x \in gone THEN {} ELSE held[x]
    OBVIOUS
  <2>1. /\ x \notin gone => Merged(c)[x] = table[x]
        /\ x \in gone => Merged(c)[x] = None
    BY <1>1, <1>2, MergedMeans DEF Inv
  <2>2. /\ x \notin gone => held'[x] = held[x]
        /\ x \in gone => held'[x] = {}
    BY <1>1, <1>2, HeldMeans DEF Inv
  <2> QED
    BY <1>4, <2>1, <2>2
<1>6. table' = Without(table, gone)
  BY <1>4, <1>5 DEF Without, Table
<1>7. held' = [x \in Ids |-> IF x \in gone THEN {} ELSE held[x]]
  BY <1>4, <1>5
<1> QED
  BY <1>1, <1>2, <1>3, <1>6, <1>7

-----------------------------------------------------------------------------
(***************************************************************************)
(* After each shape of commit the table is sound, and what others hold is  *)
(* as it was.                                                              *)
(***************************************************************************)
\* What the invariant says of a stream that is there.
RowOK(forest, given, id) ==
  LET row == forest[id]
  IN  /\ row.softDeleted => Dependents(forest, id) # {}
      /\ \A m \in row.log : m.offset <= row.tail
      /\ row.parent = None => given[id] = row.log
      /\ row.parent # None =>
           /\ row.parent \in Present(forest) /\ row.at <= forest[row.parent].tail
           /\ row.at <= row.tail
           /\ \A m \in row.log : m.offset > row.at
           /\ given[id] = row.log \cup UpTo(given[row.parent], row.at)

LEMMA SoundByRow ==
  ASSUME NEW forest, NEW given
  PROVE  Sound(forest, given) <=>
           /\ \A id \in Ids : forest[id] = None => given[id] = {}
           /\ \A id \in Present(forest) : RowOK(forest, given, id)
BY DEF Sound, RowOK

\* The facts of a stream that is there.
LEMMA RowIs ==
  ASSUME Inv, NEW id \in Ids, table[id] # None
  PROVE  /\ table[id] \in Entry /\ RowOK(table, held, id)
         /\ table[id].parent \in Ids \cup {None}
         /\ table[id].parent # None => table[table[id].parent] # None
<1>1. table[id] \in Entry
  BY DEF Inv, Typed, Types, Table
<1>2. RowOK(table, held, id)
  BY SoundByRow DEF Inv, TreeOK, Present
<1>3. table[id].parent # None => table[table[id].parent] # None
  BY <1>2 DEF RowOK, Present
<1> QED
  BY <1>1, <1>2, <1>3, EntryMeans

\* No stream is its own parent, or its parent's.
LEMMA NotItsParent ==
  ASSUME Inv, NEW id \in Ids, table[id] # None
  PROVE  table[id].parent # id
<1> SUFFICES ASSUME table[id].parent = id
             PROVE  FALSE
  OBVIOUS
<1>1. PICK age \in [Ids -> Nat] :
        \A x \in Present(table) : table[x].parent # None => age[table[x].parent] < age[x]
  BY DEF Inv, TreeOK, Aged
<1>2. age[id] < age[id] /\ age[id] \in Nat
  BY <1>1, NoneAssumption DEF Present
<1> QED
  BY <1>2

LEMMA CreateForks ==
  ASSUME Inv, NEW id \in Ids, table[id] = None, NEW e \in Entry,
         table' = [table EXCEPT ![id] = e]
  PROVE  /\ table'[id] = e /\ \A x \in Ids \ {id} : table'[x] = table[x]
         /\ Present(table') = Present(table) \cup {id}
         /\ \A x \in Ids : x # e.parent => Dependents(table', x) = Dependents(table, x)
<1>1. table'[id] = e /\ \A x \in Ids \ {id} : table'[x] = table[x]
  BY DEF Inv, Typed, Types, Table
<1>2. Present(table') = Present(table) \cup {id}
  BY <1>1, EntryMeans DEF Present
<1>3. ASSUME NEW x \in Ids
      PROVE  x # e.parent => Dependents(table', x) = Dependents(table, x)
  BY <1>1, <1>2 DEF Dependents, Present
<1> QED
  BY <1>1, <1>2, <1>3

LEMMA CreateTree ==
  ASSUME Inv, NEW c \in Callers, NEW op \in Operations, op.tag = "create", SourceOK(c, op),
         op.source # op.id, table[op.id] = None, NEW number \in Nat, NEW e, e = Created(op, number),
         table' = [table EXCEPT ![op.id] = e],
         held' = [held EXCEPT ![op.id] = e.log \cup GivenTo(e)]
  PROVE  TreeOK'
<1> DEFINE id == op.id
           p == op.source
<1>1. /\ e \in Entry /\ e.parent = p /\ e.at = op.at /\ e.tail = op.at + op.size
      /\ ~e.softDeleted /\ e.log = Written(op.at, op.size, number)
      /\ \A m \in e.log : m.offset > e.at /\ m.offset <= e.tail
      /\ id \in Ids /\ p \in Ids \cup {None} /\ e.at <= e.tail
  <2>1. op.at \in Nat /\ op.size \in 0..1
    BY OpMeans
  <2> QED
    BY <2>1, OpMeans, CreatedTyped
<1>2. /\ table'[id] = e /\ \A x \in Ids \ {id} : table'[x] = table[x]
      /\ Present(table') = Present(table) \cup {id}
      /\ \A x \in Ids : Dependents(table, x) \subseteq Dependents(table', x)
  <2>1. id \in Ids /\ table[id] = None /\ table' = [table EXCEPT ![id] = e] /\ e \in Entry
    BY <1>1
  <2> HIDE DEF id
  <2>2. /\ table'[id] = e /\ \A x \in Ids \ {id} : table'[x] = table[x]
        /\ Present(table') = Present(table) \cup {id}
    BY <2>1, CreateForks
  <2>3. \A x \in Ids : Dependents(table, x) \subseteq Dependents(table', x)
    BY <2>1, <2>2 DEF Dependents, Present
  <2> QED
    BY <2>2, <2>3
<1>3. p # None => /\ p \in Present(table) /\ p # id /\ e.at <= table[p].tail /\ table'[p] = table[p]
                  /\ held'[p] = held[p]
  <2> SUFFICES ASSUME p # None
               PROVE  /\ p \in Present(table) /\ p # id /\ e.at <= table[p].tail
                      /\ table'[p] = table[p] /\ held'[p] = held[p]
    OBVIOUS
  <2>1. p \in Ids /\ p # id
    BY <1>1
  <2>2. p \in Live(table) /\ ~(table[p].tail < op.at)
    BY DEF SourceOK, SourceGone
  <2>3. p \in Present(table) /\ table[p] # None
    BY <2>2 DEF Live, Present
  <2>4. op.at \in Nat /\ table[p].tail \in Nat
    BY <2>1, <2>3, OpMeans, RowIs, EntryMeans
  <2>5. held'[p] = held[p]
    BY <2>1 DEF Inv, Typed, Types
  <2> QED
    BY <1>1, <1>2, <2>1, <2>2, <2>3, <2>4, <2>5
<1>4. held'[id] = e.log \cup GivenTo(e) /\ \A x \in Ids \ {id} : held'[x] = held[x]
  BY <1>1 DEF Inv, Typed, Types
<1>5. RowOK(table', held', id)
  <2>1. p = None => held'[id] = e.log
    BY <1>1, <1>4 DEF GivenTo
  <2>2. p # None => held'[id] = e.log \cup UpTo(held'[p], e.at)
    BY <1>1, <1>3, <1>4 DEF GivenTo
  <2> QED
    BY <1>1, <1>2, <1>3, <2>1, <2>2 DEF RowOK
<1>6. ASSUME NEW x \in Present(table), x # id
      PROVE  RowOK(table', held', x)
  <2>1. /\ x \in Ids /\ RowOK(table, held, x) /\ table[x].parent \in Ids \cup {None}
        /\ table[x].parent # None => table[table[x].parent] # None
    BY RowIs DEF Present
  <2>2. table'[x] = table[x] /\ held'[x] = held[x]
    BY <1>2, <1>4, <1>6, <2>1
  <2>3. table[x].parent # None =>
          /\ table'[table[x].parent] = table[table[x].parent]
          /\ held'[table[x].parent] = held[table[x].parent]
    BY <1>2, <1>4, <2>1
  <2>4. Dependents(table, x) # {} => Dependents(table', x) # {}
    BY <1>2, <2>1
  <2> QED
    BY <1>2, <2>1, <2>2, <2>3, <2>4 DEF RowOK
<1>7. Sound(table', held')
  <2>1. \A x \in Ids : table'[x] = None => held'[x] = {}
    BY <1>1, <1>2, <1>4, EntryMeans, SoundByRow DEF Inv, TreeOK
  <2>2. \A x \in Present(table') : RowOK(table', held', x)
    BY <1>2, <1>5, <1>6
  <2> QED
    BY <2>1, <2>2, SoundByRow
<1>8. Aged(table', Nat)
  <2>1. PICK age \in [Ids -> Nat] :
          \A x \in Present(table) : table[x].parent # None => age[table[x].parent] < age[x]
    BY DEF Inv, TreeOK, Aged
  <2> DEFINE new == IF p = None THEN 0 ELSE age[p] + 1
             older == [age EXCEPT ![id] = new]
  <2>2. new \in Nat /\ (p # None => age[p] < new)
    BY <1>1
  <2> HIDE DEF new
  <2>3. older \in [Ids -> Nat] /\ older[id] = new /\ \A x \in Ids \ {id} : older[x] = age[x]
    BY <1>1, <2>2
  <2> HIDE DEF older
  <2>4. ASSUME NEW x \in Present(table'), table'[x].parent # None
        PROVE  older[table'[x].parent] < older[x]
    <3>1. CASE x = id
      BY <1>1, <1>2, <1>3, <2>2, <2>3, <2>4, <3>1
    <3>2. CASE x # id
      <4>1. x \in Present(table) /\ x \in Ids /\ table'[x] = table[x]
        BY <1>2, <3>2 DEF Present
      <4>2. table[x].parent \in Ids /\ table[x].parent # id
        BY <2>4, <4>1, RowIs DEF Present
      <4> QED
        BY <2>1, <2>3, <2>4, <3>2, <4>1, <4>2
    <3> QED
      BY <3>1, <3>2
  <2> QED
    BY <2>3, <2>4 DEF Aged
<1> QED
  BY <1>7, <1>8 DEF TreeOK

LEMMA PatchTree ==
  ASSUME Inv, NEW id \in Ids, NEW row \in Entry, table[id] = row, ~row.softDeleted,
         NEW e \in Entry, e.parent = row.parent, e.at = row.at,
         e.softDeleted => Dependents(table, id) # {}, row.tail <= e.tail,
         NEW more, e.log = row.log \cup more,
         \A m \in more : m.offset \in Nat /\ m.offset > row.tail /\ m.offset <= e.tail,
         table' = [table EXCEPT ![id] = e],
         held' = [held EXCEPT ![id] = @ \cup more]
  PROVE  /\ TreeOK'
         /\ \A x \in Ids \ {id} : table'[x] = table[x]
         /\ \A x \in Ids : Dependents(table', x) = Dependents(table, x)
<1>1. /\ table'[id] = e /\ \A x \in Ids \ {id} : table'[x] = table[x]
      /\ held'[id] = held[id] \cup more /\ \A x \in Ids \ {id} : held'[x] = held[x]
      /\ table[id] # None /\ e # None
  BY EntryMeans DEF Inv, Typed, Types, Table
<1>2. Present(table') = Present(table)
  BY <1>1 DEF Present
<1>3. \A x \in Ids : Dependents(table', x) = Dependents(table, x)
  BY <1>1, <1>2 DEF Dependents, Present
<1>4. /\ RowOK(table, held, id) /\ row.parent \in Ids \cup {None} /\ row.parent # id
      /\ row.parent # None => table[row.parent] # None
  BY <1>1, RowIs, NotItsParent
<1>5. row.at \in Nat /\ row.tail \in Nat /\ e.tail \in Nat /\ \A m \in row.log : m.offset \in Nat
  BY EntryMeans DEF Message
<1>6. RowOK(table', held', id)
  <2>1. \A m \in e.log : m.offset <= e.tail
    BY <1>1, <1>4, <1>5 DEF RowOK
  <2>2. row.parent = None => held'[id] = e.log
    BY <1>1, <1>4 DEF RowOK
  <2>3. ASSUME row.parent # None
        PROVE  /\ row.parent \in Present(table') /\ e.at <= table'[row.parent].tail
               /\ e.at <= e.tail /\ \A m \in e.log : m.offset > e.at
               /\ held'[id] = e.log \cup UpTo(held'[row.parent], e.at)
    <3>1. /\ row.parent \in Present(table) /\ row.at <= table[row.parent].tail
          /\ row.at <= row.tail /\ \A m \in row.log : m.offset > row.at
          /\ held[id] = row.log \cup UpTo(held[row.parent], row.at)
      BY <1>4, <2>3 DEF RowOK
    <3>2. table'[row.parent] = table[row.parent] /\ held'[row.parent] = held[row.parent]
      BY <1>1, <1>4, <2>3
    <3>3. e.at <= e.tail /\ \A m \in more : m.offset > e.at
      BY <1>5, <3>1
    <3> QED
      BY <1>1, <1>2, <3>1, <3>2, <3>3
  <2> QED
    BY <1>1, <1>3, <2>1, <2>2, <2>3 DEF RowOK
<1>7. ASSUME NEW x \in Present(table), x # id
      PROVE  RowOK(table', held', x)
  <2>1. /\ x \in Ids /\ table[x] \in Entry /\ RowOK(table, held, x)
        /\ table[x].parent \in Ids \cup {None}
        /\ table[x].parent # None => table[table[x].parent] # None
    BY RowIs DEF Present
  <2>2. table'[x] = table[x] /\ held'[x] = held[x]
    BY <1>1, <1>7, <2>1
  <2>3. ASSUME table[x].parent # None
        PROVE  /\ table[x].at <= table'[table[x].parent].tail
               /\ UpTo(held'[table[x].parent], table[x].at) = UpTo(held[table[x].parent], table[x].at)
    <3>1. CASE table[x].parent # id
      BY <1>1, <2>1, <2>3, <3>1 DEF RowOK
    <3>2. CASE table[x].parent = id
      <4>1. table[x].at <= row.tail /\ table[x].at \in Nat
        BY <2>1, <3>2, NoneAssumption, EntryMeans DEF RowOK
      <4>2. table[x].at <= e.tail /\ \A m \in more : ~(m.offset <= table[x].at)
        BY <1>5, <4>1
      <4> QED
        BY <1>1, <3>2, <4>2 DEF UpTo
    <3> QED
      BY <3>1, <3>2
  <2> QED
    BY <1>2, <1>3, <2>1, <2>2, <2>3 DEF RowOK
<1>8. Sound(table', held')
  <2>1. \A x \in Ids : table'[x] = None => held'[x] = {}
    BY <1>1, SoundByRow DEF Inv, TreeOK
  <2>2. \A x \in Present(table') : RowOK(table', held', x)
    BY <1>2, <1>6, <1>7
  <2> QED
    BY <2>1, <2>2, SoundByRow
<1>9. Aged(table', Nat)
  <2>1. PICK age \in [Ids -> Nat] :
          \A x \in Present(table) : table[x].parent # None => age[table[x].parent] < age[x]
    BY DEF Inv, TreeOK, Aged
  <2>2. \A x \in Present(table) : table'[x].parent = table[x].parent
    BY <1>1 DEF Present
  <2>3. \A x \in Present(table') : table'[x].parent # None => age[table'[x].parent] < age[x]
    BY <1>2, <2>1, <2>2
  <2> QED
    BY <2>3 DEF Aged
<1> QED
  BY <1>1, <1>3, <1>8, <1>9 DEF TreeOK


\* Only the forks that are purged leave a stream that stays, ...
LEMMA CutForks ==
  ASSUME Inv, NEW gone \in SUBSET Ids, table' = Without(table, gone)
  PROVE  /\ \A x \in Ids : table'[x] = IF x \in gone THEN None ELSE table[x]
         /\ Present(table') = Present(table) \ gone
         /\ \A x \in Ids : Dependents(table', x) = Dependents(table, x) \ gone
<1>1. \A x \in Ids : table'[x] = IF x \in gone THEN None ELSE table[x]
  BY DEF Without
<1>2. Present(table') = Present(table) \ gone
  BY <1>1 DEF Present
<1>3. \A x \in Ids : Dependents(table', x) = Dependents(table, x) \ gone
  BY <1>1, <1>2 DEF Dependents, Present
<1> QED
  BY <1>1, <1>2, <1>3

\* ... nothing that stays is a fork of what goes, and what stays soft-deleted keeps a fork.
LEMMA CutSound ==
  ASSUME Inv, NEW c \in Callers, tx[c] # None, tx[c].pc = "commit",
         tx[c].op.tag # "create", Purges(tx[c]),
         NEW gone \in SUBSET Ids, gone = DOMAIN tx[c].wrote
  PROVE  /\ \A x \in gone : Dependents(table, x) \subseteq gone
         /\ \A x \in Ids \ gone : Dependents(table, x) \cap gone # {} => Stays(c, x, gone)
         /\ \A x \in Present(table) \ gone :
              table[x].softDeleted => Dependents(table, x) \ gone # {}
         /\ GoneOK(c, tx[c])
<1> DEFINE t == tx[c]
<1>1. GoneOK(c, t) /\ EdgeOK(c, t) /\ t.pc = "commit" /\ t.op.id \in Ids
  BY Committing DEF WritesOK, PurgeOK
<1>2. \A x \in gone : Dependents(table, x) \subseteq gone
  BY <1>1 DEF GoneOK
<1>3. ASSUME NEW x \in Ids \ gone, Dependents(table, x) \cap gone # {}
      PROVE  Stays(c, x, gone)
  <2>1. PICK y \in gone : table[y].parent = x
    BY <1>3 DEF Dependents
  <2>2. x \notin {None} \cup gone
    BY <1>3, NoneAssumption
  <2> QED
    BY <1>1, <2>1, <2>2 DEF EdgeOK
<1>4. ASSUME NEW x \in Present(table) \ gone, table[x].softDeleted
      PROVE  Dependents(table, x) \ gone # {}
  <2>1. x \in Ids /\ Dependents(table, x) # {}
    BY <1>4, RowIs DEF Present, RowOK
  <2>2. CASE Dependents(table, x) \cap gone # {}
    BY <1>3, <1>4, <2>1, <2>2 DEF Stays
  <2>3. CASE Dependents(table, x) \cap gone = {}
    BY <2>1, <2>3
  <2> QED
    BY <2>2, <2>3
<1> QED
  BY <1>1, <1>2, <1>3, <1>4

LEMMA PurgeTree ==
  ASSUME Inv, NEW gone \in SUBSET Ids,
         \A x \in gone : Dependents(table, x) \subseteq gone,
         \A x \in Present(table) \ gone : table[x].softDeleted => Dependents(table, x) \ gone # {},
         table' = Without(table, gone),
         held' = [x \in Ids |-> IF x \in gone THEN {} ELSE held[x]]
  PROVE  TreeOK'
<1>1. /\ \A x \in Ids : table'[x] = IF x \in gone THEN None ELSE table[x]
      /\ Present(table') = Present(table) \ gone
      /\ \A x \in Ids : Dependents(table', x) = Dependents(table, x) \ gone
  BY CutForks
<1>2. ASSUME NEW x \in Present(table) \ gone
      PROVE  RowOK(table', held', x)
  <2>1. /\ x \in Ids /\ RowOK(table, held, x) /\ table[x].parent \in Ids \cup {None}
        /\ table[x].parent # None => table[table[x].parent] # None
    BY RowIs DEF Present
  <2>2. table'[x] = table[x] /\ held'[x] = held[x]
    BY <1>1, <2>1
  <2>3. ASSUME table[x].parent # None
        PROVE  table[x].parent \notin gone
    <3>1. x \in Dependents(table, table[x].parent)
      BY DEF Dependents
    <3> QED
      BY <3>1
  <2>4. table[x].parent # None =>
          /\ table'[table[x].parent] = table[table[x].parent]
          /\ held'[table[x].parent] = held[table[x].parent]
          /\ table[x].parent \in Present(table')
    BY <1>1, <2>1, <2>3 DEF Present
  <2>5. table[x].softDeleted => Dependents(table', x) # {}
    BY <1>1, <2>1
  <2> QED
    BY <2>1, <2>2, <2>4, <2>5 DEF RowOK
<1>3. Sound(table', held')
  <2>1. \A x \in Ids : table'[x] = None => held'[x] = {}
    BY <1>1, SoundByRow DEF Inv, TreeOK
  <2> QED
    BY <1>1, <1>2, <2>1, SoundByRow
<1>4. Aged(table', Nat)
  <2>1. PICK age \in [Ids -> Nat] :
          \A x \in Present(table) : table[x].parent # None => age[table[x].parent] < age[x]
    BY DEF Inv, TreeOK, Aged
  <2>2. \A x \in Present(table') : x \in Present(table) /\ table'[x] = table[x]
    BY <1>1 DEF Present
  <2>3. \A x \in Present(table') : table'[x].parent # None => age[table'[x].parent] < age[x]
    BY <2>1, <2>2
  <2> QED
    BY <2>3 DEF Aged
<1> QED
  BY <1>3, <1>4 DEF TreeOK

LEMMA CreateKeeps ==
  ASSUME Inv, NEW c \in Callers, Commits(c), tx[c].op.tag = "create"
  PROVE  /\ TreeOK'
         /\ \A x \in Ids : lock[x] # c =>
              /\ table'[x] = table[x]
              /\ table[x] # None => Dependents(table', x) = Dependents(table, x)
<1>1. PICK op \in Operations : op = tx[c].op
  BY Committing DEF Commits
<1>2. PICK id \in Ids : id = op.id
  BY <1>1, OpMeans
<1>3. PICK n \in Nat : n = tx[c].number
  BY Committing, TransactionMeans DEF Commits
<1>4. PICK e \in Entry : e = table'[id]
  BY <1>1, <1>2, CreateCommits
<1>5. /\ op.source # op.id /\ table[op.id] = None /\ lock[op.id] = c /\ SourceOK(c, op)
      /\ e = Created(op, n) /\ table' = [table EXCEPT ![op.id] = e]
      /\ held' = [held EXCEPT ![op.id] = e.log \cup GivenTo(e)] /\ op.tag = "create"
  BY <1>1, <1>2, <1>3, <1>4, CreateCommits
<1>6. TreeOK'
  BY <1>5, CreateTree
<1>7. e.parent = op.source
  BY <1>5, CreatedTyped
<1>8. /\ \A x \in Ids \ {id} : table'[x] = table[x]
      /\ \A x \in Ids : x # e.parent => Dependents(table', x) = Dependents(table, x)
  <2>1. table' = [table EXCEPT ![id] = e] /\ table[id] = None
    BY <1>2, <1>5
  <2>2. \A x \in Ids \ {id} : table'[x] = table[x]
    BY <2>1, CreateForks
  <2>3. \A x \in Ids : x # e.parent => Dependents(table', x) = Dependents(table, x)
    BY <2>1, CreateForks
  <2> QED
    BY <2>2, <2>3
<1>9. \A x \in Ids : e.parent = x => lock[x] = c
  BY <1>5, <1>7, NoneAssumption DEF SourceOK, Holds
<1> QED
  BY <1>2, <1>5, <1>6, <1>8, <1>9

LEMMA PatchKeeps ==
  ASSUME Inv, NEW c \in Callers, Commits(c), tx[c].op.tag # "create", ~Purges(tx[c])
  PROVE  /\ TreeOK'
         /\ \A x \in Ids : lock[x] # c =>
              /\ table'[x] = table[x]
              /\ table[x] # None => Dependents(table', x) = Dependents(table, x)
<1>1. PICK op \in Operations : op = tx[c].op
  BY Committing DEF Commits
<1>2. PICK id \in Ids : id = op.id
  BY <1>1, OpMeans
<1>3. PICK n \in Nat : n = tx[c].number
  BY Committing, TransactionMeans DEF Commits
<1>4. PICK e \in Entry : e = table'[id]
  BY <1>1, <1>2, PatchCommits
<1>5. PICK row \in Entry : row = table[id]
  BY <1>1, <1>2, PatchCommits
<1>6. PICK more : more = Patched(c).log
  OBVIOUS
<1>7. /\ lock[id] = c /\ ~row.softDeleted
      /\ op.tag = "delete" => Dependents(table, id) # {}
      /\ e.parent = row.parent /\ e.at = row.at /\ e.softDeleted = (op.tag = "delete")
      /\ e.tail = (IF op.tag = "append" THEN row.tail + 1 ELSE row.tail)
      /\ e.log = row.log \cup more
      /\ more = (IF op.tag = "append" THEN Written(row.tail, 1, n) ELSE {})
      /\ table' = [table EXCEPT ![id] = e] /\ held' = [held EXCEPT ![id] = @ \cup more]
  BY <1>1, <1>2, <1>3, <1>4, <1>5, <1>6, PatchCommits
<1>8. row.tail \in Nat /\ row.tail <= e.tail
  BY <1>7, EntryMeans
<1>9. \A m \in more : m.offset \in Nat /\ m.offset > row.tail /\ m.offset <= e.tail
  <2>1. CASE op.tag = "append"
    <3>1. \A m \in more : m.offset = row.tail + 1
      BY <1>7, <1>8, <2>1, OneWritten
    <3> QED
      BY <1>7, <1>8, <2>1, <3>1
  <2>2. CASE op.tag # "append"
    BY <1>7, <2>2
  <2> QED
    BY <2>1, <2>2
<1>10. e.softDeleted => Dependents(table, id) # {}
  BY <1>7
<1>11. /\ TreeOK'
       /\ \A x \in Ids \ {id} : table'[x] = table[x]
       /\ \A x \in Ids : Dependents(table', x) = Dependents(table, x)
  BY <1>5, <1>7, <1>8, <1>9, <1>10, PatchTree
<1> QED
  BY <1>7, <1>11

LEMMA PurgeKeeps ==
  ASSUME Inv, NEW c \in Callers, Commits(c), tx[c].op.tag # "create", Purges(tx[c])
  PROVE  /\ TreeOK'
         /\ \A x \in Ids : lock[x] # c =>
              /\ table'[x] = table[x]
              /\ table[x] # None => Dependents(table', x) = Dependents(table, x)
<1>1. PICK gone \in SUBSET Ids : gone = DOMAIN tx[c].wrote
  BY PurgeCommits
<1>2. /\ \A x \in gone : lock[x] = c
      /\ table' = Without(table, gone) /\ held' = [x \in Ids |-> IF x \in gone THEN {} ELSE held[x]]
  BY <1>1, PurgeCommits
<1>3. /\ \A x \in gone : Dependents(table, x) \subseteq gone
      /\ \A x \in Ids \ gone : Dependents(table, x) \cap gone # {} => Stays(c, x, gone)
      /\ \A x \in Present(table) \ gone :
           table[x].softDeleted => Dependents(table, x) \ gone # {}
  BY <1>1, CutSound DEF Commits
<1>4. TreeOK'
  BY <1>2, <1>3, PurgeTree
<1>5. /\ \A x \in Ids : table'[x] = IF x \in gone THEN None ELSE table[x]
      /\ \A x \in Ids : Dependents(table', x) = Dependents(table, x) \ gone
  BY <1>2, CutForks
<1>6. ASSUME NEW x \in Ids, lock[x] # c
      PROVE  table'[x] = table[x] /\ Dependents(table', x) = Dependents(table, x)
  <2>1. x \notin gone
    BY <1>2, <1>6
  <2>2. Dependents(table, x) \cap gone = {}
    BY <1>3, <1>6, <2>1 DEF Stays, Holds
  <2> QED
    BY <1>5, <2>1, <2>2
<1> QED
  BY <1>4, <1>6

LEMMA CommitOK ==
  ASSUME Inv, NEW c \in Callers, Commits(c), Moves(c, None), lock' = Unlocked(c)
  PROVE  TreeOK' /\ CallerOK(c)' /\ \A d \in Callers \ {c} : Spares(d)
<1>1. /\ TreeOK'
      /\ \A x \in Ids : lock[x] # c =>
           /\ table'[x] = table[x]
           /\ table[x] # None => Dependents(table', x) = Dependents(table, x)
  BY CreateKeeps, PatchKeeps, PurgeKeeps
<1>2. tx'[c] = None /\ \A d \in Callers \ {c} : tx'[d] = tx[d]
  BY MovesOn DEF Inv, Typed
<1>3. /\ \A x \in Ids, d \in Callers \ {c} : lock'[x] = d <=> lock[x] = d
      /\ \A x \in Ids : lock'[x] # c
  BY Unlocks DEF Inv
<1>4. CallerOK(c)'
  BY <1>2, <1>3 DEF CallerOK, LocksOK
<1>5. ASSUME NEW d \in Callers \ {c}
      PROVE  Spares(d)
  BY <1>1, <1>2, <1>3 DEF Spares
<1> QED
  BY <1>1, <1>4, <1>5

-----------------------------------------------------------------------------
(***************************************************************************)
(* The invariant.                                                          *)
(***************************************************************************)
LEMMA StepOK ==
  ASSUME Inv, NEW c \in Callers, Mutate(c) \/ Statement(c) \/ LoseCommit(c) \/ Fail(c)
  PROVE  TreeOK' /\ CallerOK(c)' /\ \A d \in Callers \ {c} : Spares(d)
<1>1. ASSUME Quiet
      PROVE  TreeOK'
  BY <1>1 DEF Quiet, Inv, TreeOK
<1>2. CASE Mutate(c)
  BY <1>1, <1>2, MutateOK
<1>3. CASE BeginLock(c) \/ LockRow(c)
  BY <1>1, <1>3, BeginLockOK, LockRowOK
<1>4. CASE Preflight(c) \/ PreflightSource(c)
  BY <1>1, <1>4, PreflightOK, PreflightSourceOK
<1>5. CASE Insert(c)
  BY <1>1, <1>5, InsertOK
<1>6. CASE ReadRow(c)
  <2>1. tx[c] # None /\ tx[c].pc = "read"
    BY <1>6 DEF ReadRow, At
  <2> QED
    BY <1>1, <1>6, ReadRowOK
<1>7. CASE WriteRow(c)
  BY <1>1, <1>7, WriteRowOK
<1>8. CASE LockParent(c) \/ PurgeParent(c)
  BY <1>1, <1>8, LockParentOK, PurgeParentOK
<1>9. CASE Commit(c) \/ LoseCommit(c)
  <2>1. /\ tx[c] # None /\ tx[c].pc = "commit" /\ Moves(c, None) /\ lock' = Unlocked(c)
        /\ Apply(c) \/ Quiet
    BY <1>9, CommitStep DEF Inv, Quiet
  <2> QED
    BY <1>1, <2>1, CommitOK, Ended DEF Commits
<1>10. CASE BreakDeadlock(c) \/ Fail(c)
  <2>1. RollBack(c)
    BY <1>10 DEF BreakDeadlock, Fail
  <2>2. tx[c] # None
    <3>1. ASSUME BreakDeadlock(c)
          PROVE  tx[c] # None
      <4>1. PICK ring \in SUBSET Callers : WaitsFor(c) \cap ring # {}
        BY <3>1 DEF BreakDeadlock, Ring
      <4> QED
        BY <4>1 DEF WaitsFor
    <3> QED
      BY <1>10, <3>1 DEF Fail
  <2> QED
    BY <1>1, <2>1, <2>2, RollBackOK
<1> QED
  BY <1>2, <1>3, <1>4, <1>5, <1>6, <1>7, <1>8, <1>9, <1>10 DEF Statement

LEMMA InvNext ==
  ASSUME Inv, [Next]_vars, [\A c \in Callers : Misses(c)]_vars
  PROVE  Inv'
<1>1. Typed'
  BY TypedNext DEF Inv
<1>2. CASE UNCHANGED vars
  <2>1. TreeOK'
    BY <1>2 DEF vars, Inv, TreeOK
  <2>2. \A d \in Callers : Spares(d) /\ Misses(d)
    BY <1>2 DEF vars, Spares, Misses
  <2> QED
    BY <1>1, <2>1, <2>2, OthersStay DEF Inv
<1>3. CASE ~UNCHANGED vars
  <2>1. PICK c \in Callers : Mutate(c) \/ Statement(c) \/ LoseCommit(c) \/ Fail(c)
    BY <1>3 DEF Next
  <2>2. TreeOK' /\ CallerOK(c)' /\ \A d \in Callers \ {c} : Spares(d)
    BY <2>1, StepOK
  <2>3. \A d \in Callers \ {c} : CallerOK(d)'
    BY <1>3, <2>2, OthersStay DEF Inv
  <2> QED
    BY <1>1, <2>2, <2>3 DEF Inv
<1> QED
  BY <1>2, <1>3

LEMMA InvInit == Init => Inv
<1> SUFFICES ASSUME Init
             PROVE  Inv
  OBVIOUS
<1>1. Typed
  BY TypedInit
<1>2. Sound(table, held)
  BY ForestAssumption DEF Init
<1>3. Aged(table, Nat)
  <2>1. PICK age \in [Ids -> 0..Cardinality(Ids)] :
          \A id \in Present(table) : table[id].parent # None => age[table[id].parent] < age[id]
    BY ForestAssumption DEF Init, Aged
  <2>2. age \in [Ids -> Nat]
    OBVIOUS
  <2> QED
    BY <2>1, <2>2 DEF Aged
<1>4. \A c \in Callers : CallerOK(c)
  BY SqlAssumption DEF Init, CallerOK, LocksOK
<1> QED
  BY <1>1, <1>2, <1>3, <1>4 DEF Inv, TreeOK

LEMMA InvAlways == Spec /\ NoneReturns => []Inv
<1>1. Inv /\ [Next]_vars /\ [\A c \in Callers : Misses(c)]_vars => Inv'
  BY InvNext
<1> QED
  BY InvInit, <1>1, PTL DEF Spec, NoneReturns

-----------------------------------------------------------------------------
(***************************************************************************)
(* The refinement.                                                         *)
(***************************************************************************)
\* The forks of every stream.
Forked == [id \in Ids |-> Dependents(table, id)]

LEMMA SameTree ==
  /\ Abstract!Entry = Entry /\ Abstract!Message = Message /\ Abstract!Table = Table
  /\ \A t : Abstract!Present(t) = Present(t) /\ Abstract!Live(t) = Live(t)
  /\ \A S, at : Abstract!UpTo(S, at) = UpTo(S, at) /\ Abstract!After(S, at) = After(S, at)
BY DEF Abstract!Entry, Entry, Abstract!Message, Message, Abstract!Table, Table,
       Abstract!Present, Present, Abstract!Live, Live, Abstract!UpTo, UpTo,
       Abstract!After, After

LEMMA SameChecks ==
  /\ \A t, s, at : Abstract!SourceGone(t, s, at) = SourceGone(t, s, at)
  /\ \A t, ch, gone, x : Abstract!Freed(t, ch, gone, x) = Freed(t, ch, gone, x)
  /\ \A t, gone : Abstract!Without(t, gone) = Without(t, gone)
BY DEF Abstract!SourceGone, SourceGone, Abstract!Live, Live, Abstract!Present, Present,
       Abstract!Freed, Freed, Abstract!Without, Without

LEMMA InitMaps == Init => Abstract!Init
<1> SUFFICES ASSUME Init PROVE Abstract!Sound
  BY DEF Abstract!Init
<1>1. Inv
  BY InvInit
<1>2. table \in Table /\ held \in [Ids -> SUBSET Message]
  BY <1>1 DEF Inv, Typed, Types
<1>3. \A id \in Ids : Forked[id] = Dependents(table, id)
  BY DEF Forked
<1>4. Forked \in [Ids -> SUBSET Ids]
  BY DEF Forked, Dependents, Present
<1>5. \A id \in Ids : table[id] = None => Forked[id] = {} /\ held[id] = {}
  <2> SUFFICES ASSUME NEW id \in Ids, table[id] = None
               PROVE  Dependents(table, id) = {} /\ held[id] = {}
    BY <1>3
  <2>1. held[id] = {}
    BY <1>1, SoundByRow DEF Inv, TreeOK
  <2>2. \A x \in Present(table) : table[x].parent # id
    BY <1>1, RowIs, NoneAssumption DEF Present
  <2> QED
    BY <2>1, <2>2 DEF Dependents
<1>6. \A id, c \in Ids : c \in Forked[id] <=> c \in Present(table) /\ table[c].parent = id
  BY <1>3 DEF Dependents
<1>7. \A id \in Present(table) : id \in Ids /\ RowOK(table, held, id)
  BY <1>1, RowIs DEF Present
<1>8. \A id \in Present(table) : held[id] = Abstract!Given(table[id])
  BY <1>7, SameTree DEF RowOK, Abstract!Given
<1>9. \A c \in Present(table) : table[c].parent # None =>
        table[c].parent \in Present(table) /\ table[c].at <= table[table[c].parent].tail
  BY <1>7 DEF RowOK
<1>10. \A id \in Present(table) : table[id].softDeleted => Forked[id] # {}
  BY <1>3, <1>7 DEF RowOK
<1>11. \A id \in Present(table) : \A m \in table[id].log :
         m.offset <= table[id].tail /\ (table[id].parent # None => m.offset > table[id].at)
  BY <1>7 DEF RowOK
<1> QED
  BY <1>2, <1>4, <1>5, <1>6, <1>8, <1>9, <1>10, <1>11, SameTree DEF Abstract!Sound, Forked

LEMMA CreateMaps ==
  ASSUME Inv, NEW c \in Callers, Commits(c), tx[c].op.tag = "create"
  PROVE  \E id \in Ids : Abstract!Create(id)
<1>1. PICK op \in Operations : op = tx[c].op
  BY Committing DEF Commits
<1>2. PICK id \in Ids : id = op.id
  BY <1>1, OpMeans
<1>3. PICK n \in Nat : n = tx[c].number
  BY Committing, TransactionMeans DEF Commits
<1>4. PICK e \in Entry : e = table'[id]
  BY <1>1, <1>2, CreateCommits
<1>5. PICK given : given = GivenTo(e)
  OBVIOUS
<1>6. /\ op.source # id /\ table[id] = None /\ SourceOK(c, op)
      /\ e = Created(op, n) /\ table' = [table EXCEPT ![id] = e]
      /\ held' = [held EXCEPT ![id] = e.log \cup given] /\ op.tag = "create"
  BY <1>1, <1>2, <1>3, <1>4, <1>5, CreateCommits
<1>7. /\ e.parent = op.source /\ e.at <= e.tail /\ ~e.softDeleted
      /\ \A m \in e.log : m.offset > e.at /\ m.offset <= e.tail
      /\ op.source \in Ids \cup {None}
  <2>1. op.at \in Nat /\ op.size \in 0..1 /\ op.source \in Ids \cup {None}
    BY <1>6, OpMeans
  <2> QED
    BY <1>6, <2>1, CreatedTyped
<1>8. \A x \in Ids : /\ x # e.parent => Dependents(table', x) = Dependents(table, x)
                     /\ x = e.parent => Dependents(table', x) = Dependents(table, x) \cup {id}
  <2>1. table' = [table EXCEPT ![id] = e] /\ table[id] = None
    BY <1>6
  <2>2. table'[id] = e /\ \A x \in Ids \ {id} : table'[x] = table[x]
    BY <2>1, CreateForks
  <2>3. Present(table') = Present(table) \cup {id}
    BY <2>1, CreateForks
  <2> QED
    BY <2>1, <2>2, <2>3 DEF Dependents, Present
<1>9. table'[id] \in Abstract!Entry /\ table' = [table EXCEPT ![id] = table'[id]]
      /\ table'[id] = e
  BY <1>4, <1>6, SameTree
<1>10. Abstract!Given(e) = e.log \cup given
  BY <1>5, SameTree DEF Abstract!Given, GivenTo
<1>11. e.parent = None => Forked' = Forked
  BY <1>8, NoneAssumption DEF Forked
<1>12. e.parent # None =>
         /\ e.parent # id /\ ~Abstract!SourceGone(table, e.parent, e.at)
         /\ Forked' = [Forked EXCEPT ![e.parent] = @ \cup {id}]
  <2> SUFFICES ASSUME e.parent # None
               PROVE  /\ e.parent # id /\ ~Abstract!SourceGone(table, e.parent, e.at)
                      /\ Forked' = [Forked EXCEPT ![e.parent] = @ \cup {id}]
    OBVIOUS
  <2>1. PICK p \in Ids : p = e.parent
    BY <1>7
  <2>2. ~SourceGone(table, op.source, op.at) /\ e.at = op.at
    BY <1>6, <1>7, CreatedTyped DEF SourceOK
  <2>3. Forked' = [Forked EXCEPT ![p] = @ \cup {id}]
    BY <1>8, <2>1 DEF Forked
  <2> QED
    BY <1>6, <1>7, <2>1, <2>2, <2>3, SameChecks
<1>13. Abstract!Create(id)
  BY <1>6, <1>7, <1>9, <1>10, <1>11, <1>12 DEF Abstract!Create, Forked
<1> QED
  BY <1>13

LEMMA PatchMaps ==
  ASSUME Inv, NEW c \in Callers, Commits(c), tx[c].op.tag # "create", ~Purges(tx[c])
  PROVE  (\E id \in Ids : Abstract!Append(id) \/ Abstract!SoftDelete(id)) \/ UNCHANGED Abstract!vars
<1>1. PICK op \in Operations : op = tx[c].op
  BY Committing DEF Commits
<1>2. PICK id \in Ids : id = op.id
  BY <1>1, OpMeans
<1>3. PICK n \in Nat : n = tx[c].number
  BY Committing, TransactionMeans DEF Commits
<1>4. PICK e \in Entry : e = table'[id]
  BY <1>1, <1>2, PatchCommits
<1>5. PICK row \in Entry : row = table[id]
  BY <1>1, <1>2, PatchCommits
<1>6. PICK more : more = Patched(c).log
  OBVIOUS
<1>7. /\ ~row.softDeleted
      /\ op.tag = "delete" => Dependents(table, id) # {}
      /\ e.parent = row.parent /\ e.at = row.at /\ e.softDeleted = (op.tag = "delete")
      /\ e.tail = (IF op.tag = "append" THEN row.tail + 1 ELSE row.tail)
      /\ e.log = row.log \cup more
      /\ more = (IF op.tag = "append" THEN Written(row.tail, 1, n) ELSE {})
      /\ table' = [table EXCEPT ![id] = e] /\ held' = [held EXCEPT ![id] = @ \cup more]
  BY <1>1, <1>2, <1>3, <1>4, <1>5, <1>6, PatchCommits
<1>8. op.tag \in {"append", "touch", "delete"}
  BY <1>1, OpMeans
<1>9. Present(table') = Present(table) /\ Forked' = Forked
  <2>1. row # None /\ e # None /\ \A x \in Ids \ {id} : table'[x] = table[x]
    BY <1>7, EntryMeans DEF Inv, Typed, Types, Table
  <2>2. Present(table') = Present(table)
    BY <1>4, <1>5, <2>1 DEF Present
  <2>3. \A x \in Ids : Dependents(table', x) = Dependents(table, x)
    BY <1>4, <1>5, <1>7, <2>1, <2>2 DEF Dependents, Present
  <2> QED
    BY <2>2, <2>3 DEF Forked
<1>10. id \in Abstract!Live(table)
  <2>1. id \in Live(table)
    BY <1>5, <1>7, EntryMeans DEF Live, Present
  <2> QED
    BY <2>1, SameTree
<1>11. table \in [Ids -> Entry \cup {None}] /\ held \in [Ids -> SUBSET Message]
  BY DEF Inv, Typed, Types, Table
<1>12. row.tail \in Nat /\ row.log \subseteq Message
  BY EntryMeans
<1>13. CASE op.tag = "append"
  <2>1. e.tail = row.tail + 1 /\ more = Written(row.tail, 1, n) /\ e.softDeleted = row.softDeleted
    BY <1>7, <1>13, EntryMeans
  <2>2. \A m \in more : m.offset = row.tail + 1
    BY <1>12, <2>1, OneWritten
  <2>3. \A m \in row.log : m.offset \in Nat /\ m.offset <= row.tail
    <3>1. RowOK(table, held, id)
      BY <1>5, EntryMeans, RowIs
    <3> QED
      BY <1>5, <1>12, <3>1 DEF RowOK, Message
  <2>4. After(e.log, row.tail) = more
    BY <1>7, <1>12, <2>2, <2>3 DEF After
  <2>5. e = [row EXCEPT !.tail = e.tail, !.log = @ \cup more]
    BY <1>7, <2>1 DEF Entry
  <2>6. table' = [table EXCEPT ![id].tail = e.tail, ![id].log = @ \cup more]
    <3>1. [table EXCEPT ![id].tail = e.tail, ![id].log = @ \cup more]
            = [table EXCEPT ![id] = [row EXCEPT !.tail = e.tail, !.log = @ \cup more]]
      BY <1>5, <1>11
    <3> QED
      BY <1>7, <2>5, <3>1
  <2>7. /\ table'[id] \in Abstract!Entry /\ Abstract!After(table'[id].log, table[id].tail) = more
        /\ table'[id].tail = e.tail /\ table[id].tail <= table'[id].tail
        /\ \A m \in more : m.offset <= table'[id].tail
    BY <1>4, <1>5, <1>12, <2>1, <2>2, <2>4, SameTree
  <2>8. Abstract!Append(id)
    BY <1>7, <1>9, <1>10, <2>6, <2>7, Zenon DEF Abstract!Append, Forked
  <2> QED
    BY <2>8
<1>14. CASE op.tag = "touch"
  <2>1. e.softDeleted = row.softDeleted /\ e.tail = row.tail /\ e.log = row.log /\ more = {}
    BY <1>7, <1>14, EntryMeans
  <2>2. e = row
    BY <1>7, <2>1 DEF Entry
  <2>3. table' = table /\ held' = held
    BY <1>5, <1>7, <1>11, <2>1, <2>2
  <2> QED
    BY <1>9, <2>3 DEF Abstract!vars, Forked
<1>15. CASE op.tag = "delete"
  <2>1. e.softDeleted = TRUE /\ e.tail = row.tail /\ e.log = row.log /\ more = {}
    BY <1>7, <1>15
  <2>2. e = [row EXCEPT !.softDeleted = TRUE]
    BY <1>7, <2>1 DEF Entry
  <2>3. table' = [table EXCEPT ![id].softDeleted = TRUE] /\ held' = held
    BY <1>5, <1>7, <1>11, <2>1, <2>2
  <2>4. Forked[id] # {}
    BY <1>7, <1>15 DEF Forked
  <2>5. Abstract!SoftDelete(id)
    BY <1>9, <1>10, <2>3, <2>4 DEF Abstract!SoftDelete, Forked
  <2> QED
    BY <2>5
<1> QED
  BY <1>8, <1>13, <1>14, <1>15

LEMMA PurgeMaps ==
  ASSUME Inv, NEW c \in Callers, Commits(c), tx[c].op.tag # "create", Purges(tx[c])
  PROVE  \E id \in Ids, gone \in SUBSET Ids : Abstract!Purge(id, gone)
<1>1. PICK gone \in SUBSET Ids : gone = DOMAIN tx[c].wrote
  BY PurgeCommits
<1>2. PICK id \in Ids : id = tx[c].op.id
  BY Committing DEF Commits
<1>3. /\ id \in gone /\ id \in Live(table)
      /\ \A x \in gone : lock[x] = c /\ table[x] \in Entry
      /\ table' = Without(table, gone) /\ held' = [x \in Ids |-> IF x \in gone THEN {} ELSE held[x]]
  BY <1>1, <1>2, PurgeCommits
<1>4. /\ \A x \in gone : Dependents(table, x) \subseteq gone
      /\ \A x \in Present(table) \ gone :
           table[x].softDeleted => Dependents(table, x) \ gone # {}
      /\ GoneOK(c, tx[c])
  BY <1>1, CutSound DEF Commits
<1>5. Dependents(table, id) = {}
      /\ \A x \in gone : x # id => table[x].softDeleted /\ Dependents(table, x) # {}
  BY <1>1, <1>2, <1>4 DEF GoneOK
<1>6. \A x \in Ids : Forked[x] = Dependents(table, x)
  BY DEF Forked
<1>7. Reclaims(table, Forked, id, gone)
  <2>1. ASSUME NEW x \in gone, x # id
        PROVE  Freed(table, Forked, gone, x)
    BY <1>3, <1>4, <1>5, <1>6, <2>1, EntryMeans DEF Freed, Present
  <2>2. ASSUME NEW x \in Ids, Freed(table, Forked, gone, x)
        PROVE  x \in gone
    <3>1. x \in Present(table) /\ table[x].softDeleted /\ Dependents(table, x) \subseteq gone
      BY <1>6, <2>2 DEF Freed
    <3> QED
      BY <1>4, <3>1
  <2> QED
    BY <1>3, <2>1, <2>2 DEF Reclaims
<1>8. /\ Abstract!Reclaims(table, Forked, id, gone) /\ id \in Abstract!Live(table)
      /\ table' = Abstract!Without(table, gone) /\ Forked[id] = {}
  BY <1>3, <1>5, <1>6, <1>7, SameTree, SameChecks DEF Reclaims, Abstract!Reclaims
<1>9. Forked' = [x \in Ids |-> IF x \in gone THEN {} ELSE Forked[x] \ gone]
  <2>1. \A x \in Ids : Dependents(table', x) = Dependents(table, x) \ gone
    BY <1>3, CutForks
  <2>2. \A x \in gone : Dependents(table, x) \ gone = {}
    BY <1>4
  <2> QED
    BY <1>6, <2>1, <2>2 DEF Forked
<1>10. Abstract!Purge(id, gone)
  BY <1>3, <1>8, <1>9 DEF Abstract!Purge, Forked
<1> QED
  BY <1>10

LEMMA StepMaps == Inv /\ [Next]_vars => [Abstract!Next]_Abstract!vars
<1> SUFFICES ASSUME Inv, [Next]_vars
             PROVE  Abstract!Next \/ UNCHANGED Abstract!vars
  OBVIOUS
<1>1. CASE Quiet
  BY <1>1 DEF Quiet, Abstract!vars
<1>2. ASSUME NEW c \in Callers, Commits(c)
      PROVE  Abstract!Next \/ UNCHANGED Abstract!vars
  BY <1>2, CreateMaps, PatchMaps, PurgeMaps DEF Abstract!Next
<1>3. CASE UNCHANGED vars
  BY <1>3 DEF vars, Abstract!vars
<1>4. ASSUME NEW c \in Callers, Mutate(c) \/ Statement(c) \/ LoseCommit(c) \/ Fail(c)
      PROVE  Quiet \/ Commits(c)
  BY <1>4, EveryStep DEF Inv, Steps, Commits
<1> QED
  BY <1>1, <1>2, <1>3, <1>4 DEF Next

(***************************************************************************)
(* As long as no row that was missing comes back under a mutation that     *)
(* waits for its locks, the statements of a mutation, mixed as they may be *)
(* with those of others, are one step of Lineage when it commits and none  *)
(* when it does not: no fork of a stream that goes, no stream purged that  *)
(* keeps a fork (storage.ts lockStreams, preflight, purge).                *)
(***************************************************************************)
THEOREM MutationsImplementLineage == Spec /\ NoneReturns => Refinement
BY InitMaps, StepMaps, InvAlways, PTL DEF Spec, Refinement, Abstract!Spec

-----------------------------------------------------------------------------
(***************************************************************************)
(* What a stream reads as.  Parents are older than their forks, so the     *)
(* recursion over the parents has one solution, and what the streams were  *)
(* given is it, as long as no fork is taken below its parent's own.        *)
(***************************************************************************)
LEMMA SmallestOf ==
  ASSUME NEW S \in SUBSET Nat, S # {}
  PROVE  \E m \in S : \A n \in S : m <= n
<1>1. PICK m \in S : \A n \in S : ~(<<n, m>> \in OpToRel(<, Nat))
  BY NatLessThanWellFounded, WFMin, Zenon
<1>2. \A n \in S : ~(n < m)
  BY <1>1 DEF OpToRel
<1> QED
  BY <1>2

\* Of streams there is an oldest.
LEMMA OldestOf ==
  ASSUME NEW age \in [Ids -> Nat], NEW S \in SUBSET Ids, S # {}
  PROVE  \E x \in S : \A y \in S : age[x] <= age[y]
<1> DEFINE ages == {age[x] : x \in S}
<1>1. ages \in SUBSET Nat /\ ages # {}
  OBVIOUS
<1>2. PICK m \in ages : \A n \in ages : m <= n
  <2> HIDE DEF ages
  <2> QED
    BY <1>1, SmallestOf
<1>3. PICK x \in S : m = age[x]
  OBVIOUS
<1>4. \A y \in S : age[y] \in ages
  OBVIOUS
<1> QED
  BY <1>2, <1>3, <1>4

\* What f says a stream reads as, by what it says of its parent.
Segments(f, id) ==
  IF table[id] = None THEN {}
  ELSE table[id].log
       \cup (IF table[id].parent \notin Present(table) THEN {}
             ELSE UpTo(table[table[id].parent].log, table[id].at)
                  \cup (f[table[id].parent] \ table[table[id].parent].log))

ReadAs(f) == f = [id \in Ids |-> Segments(f, id)]

LEMMA HeldIsRead ==
  ASSUME Inv, \A id \in Present(table) : Nested(id)
  PROVE  ReadAs(held)
<1>1. ASSUME NEW id \in Ids, table[id] = None
      PROVE  held[id] = Segments(held, id)
  BY <1>1, SoundByRow DEF Inv, TreeOK, Segments
<1>2. ASSUME NEW id \in Ids, table[id] # None
      PROVE  held[id] = Segments(held, id)
  <2> DEFINE row == table[id]
             p == row.parent
  <2>1. RowOK(table, held, id) /\ row \in Entry
    BY <1>2, RowIs
  <2>2. CASE p = None
    BY <1>2, <2>1, <2>2, NoneAssumption DEF RowOK, Segments, Present
  <2>3. CASE p # None
    <3> DEFINE up == table[p]
    <3>1. /\ p \in Present(table) /\ p \in Ids /\ up # None
          /\ held[id] = row.log \cup UpTo(held[p], row.at)
      BY <2>1, <2>3 DEF RowOK, Present
    <3>2. RowOK(table, held, p) /\ up \in Entry
      BY <3>1, RowIs
    <3>3. UpTo(held[p], row.at) = UpTo(up.log, row.at) \cup (held[p] \ up.log)
      <4>1. CASE up.parent = None
        BY <3>2, <4>1 DEF RowOK, UpTo
      <4>2. CASE up.parent # None
        <5> DEFINE old == UpTo(held[up.parent], up.at)
        <5>1. held[p] = up.log \cup old /\ \A m \in up.log : m.offset > up.at
          BY <3>2, <4>2 DEF RowOK
        <5>2. up.at <= row.at
          BY <1>2, <2>3, <4>2 DEF Nested, Present
        <5>3. up.parent \in Ids /\ held[up.parent] \subseteq Message /\ up.at \in Nat /\ row.at \in Nat
          BY <2>1, <3>2, <4>2, EntryMeans DEF Inv, Typed, Types
        <5>4. \A m \in old : m.offset \in Nat /\ m.offset <= up.at
          BY <5>3 DEF UpTo, Message
        <5>5. ASSUME NEW m \in old
              PROVE  m.offset <= row.at /\ m \notin up.log
          <6>1. m.offset \in Nat /\ m.offset <= up.at
            BY <5>4
          <6> QED
            BY <5>1, <5>2, <5>3, <6>1
        <5> HIDE DEF old
        <5>6. UpTo(up.log \cup old, row.at) = UpTo(up.log, row.at) \cup old
          BY <5>5 DEF UpTo
        <5>7. (up.log \cup old) \ up.log = old
          BY <5>5
        <5> QED
          BY <5>1, <5>6, <5>7
      <4> QED
        BY <4>1, <4>2
    <3> QED
      BY <1>2, <3>1, <3>3 DEF Segments
  <2> QED
    BY <2>2, <2>3
<1>3. held = [id \in Ids |-> held[id]]
  BY DEF Inv, Typed, Types
<1> QED
  BY <1>1, <1>2, <1>3 DEF ReadAs

LEMMA ReadOneWay ==
  ASSUME Inv, NEW f, ReadAs(f), ReadAs(held)
  PROVE  f = held
<1> DEFINE wrong == {id \in Ids : f[id] # held[id]}
<1>1. \A id \in Ids : f[id] = Segments(f, id) /\ held[id] = Segments(held, id)
  BY DEF ReadAs
<1>2. wrong = {}
  <2> SUFFICES ASSUME wrong # {} PROVE FALSE
    OBVIOUS
  <2>1. PICK age \in [Ids -> Nat] :
          \A x \in Present(table) : table[x].parent # None => age[table[x].parent] < age[x]
    BY DEF Inv, TreeOK, Aged
  <2>2. PICK x \in wrong : \A y \in wrong : age[x] <= age[y]
    <3> HIDE DEF wrong
    <3>1. wrong \in SUBSET Ids
      BY DEF wrong
    <3> QED
      BY <3>1, OldestOf
  <2>3. table[x] # None /\ table[x].parent \in Present(table)
    BY <1>1 DEF Segments
  <2>4. PICK p \in Ids : p = table[x].parent
    BY <2>3 DEF Present
  <2>5. age[p] < age[x]
    BY <2>1, <2>3, <2>4, NoneAssumption DEF Present
  <2>6. f[p] = held[p]
    BY <2>2, <2>5
  <2>7. Segments(f, x) = Segments(held, x)
    BY <2>4, <2>6 DEF Segments
  <2>8. f[x] = held[x]
    BY <1>1, <2>7
  <2> QED
    BY <2>8
<1>3. \A id \in Ids : f[id] = held[id]
  BY <1>2
<1>4. f = [id \in Ids |-> f[id]] /\ held = [id \in Ids |-> held[id]]
  BY DEF ReadAs
<1> QED
  BY <1>3, <1>4

LEMMA SqlReadsForks == ASSUME Inv PROVE ReadsForks
<1> SUFFICES ASSUME \A id \in Present(table) : Nested(id)
             PROVE  \A id \in Ids : SqlComposed(table)[id] = held[id]
  BY DEF ReadsForks
<1>1. ReadAs(held)
  BY HeldIsRead
<1>2. SqlComposed(table) = CHOOSE f : ReadAs(f)
  BY DEF SqlComposed, ReadAs, Segments
<1>3. ReadAs(CHOOSE f : ReadAs(f))
  BY <1>1
<1> QED
  BY <1>1, <1>2, <1>3, ReadOneWay

(***************************************************************************)
(* Under the same condition no soft-deleted stream is kept for forks that  *)
(* are gone, and what the SQL storage reads of a fork is what the fork was *)
(* given (storage.ts purge, readMessages).                                 *)
(***************************************************************************)
THEOREM TablesStaySound == Spec /\ NoneReturns => []TablesAreSound
<1>1. Inv => TablesAreSound
  <2> SUFFICES ASSUME Inv
               PROVE  TablesAreSound
    OBVIOUS
  <2>1. TypeOK
    BY DEF Inv, Typed, Types, PlaceOK, TypeOK
  <2>2. NothingLeaks
    BY RowIs DEF NothingLeaks, RowOK, Present
  <2> QED
    BY <2>1, <2>2, SqlReadsForks DEF TablesAreSound
<1> QED
  BY <1>1, InvAlways, PTL
=============================================================================
