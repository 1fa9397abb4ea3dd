------------------------------- MODULE Forks --------------------------------
(***************************************************************************)
(* Creating streams and forks through the protocol (packages/core/src/     *)
(* protocol/create.ts, policy/fork-plan-builder.ts) over the storage in    *)
(* memory (storage/memory/layer.ts, lineage.ts).  The protocol reads the   *)
(* record of the target, the record of the source, the messages it is to   *)
(* copy, and commits its plan: any of the others may write in between.     *)
(* The storage checks and applies a mutation in one step.                  *)
(* A storage with chains shares the prefix of a fork with its source; one  *)
(* without (MemoryOptions.constrained) has the protocol copy it.           *)
(***************************************************************************)
EXTENDS StreamTree

CONSTANTS Callers,
          Chains,     \* the kinds of storage considered: subset of BOOLEAN
          MaxBirths,  \* bound: streams created in a behaviour
          MaxTail,    \* bound: messages of a stream
          MaxSize     \* bound: messages of one request

ASSUME ForksAssumption ==
  /\ Chains \subseteq BOOLEAN
  /\ MaxBirths \in Nat /\ MaxTail \in Nat /\ MaxSize \in Nat

VARIABLES
  chain,     \* storage.capabilities.fork = "chain"
  table,     \* state.entries
  children,  \* state.children
  held,      \* history: the messages each stream was given (Lineage)
  birth,     \* history: the number of the incarnation of each stream, 0 if absent
  births,    \* history: how many streams were created
  promised,  \* history: the prefix each fork was asked for, None if not a fork
  call       \* what each caller is doing, None if nothing

vars == <<chain, table, children, held, birth, births, promised, call>>
storage == <<table, children, held, birth, births, promised>>

\* A plain create has no source.  A fork may leave out the offset to take the
\* source's tail, and copies the first sub messages after it.
Request == [id : Ids, source : Ids \cup {None}, at : (0..MaxTail) \cup {None},
            sub : 0..1, size : 0..MaxSize]

\* What a caller has read so far.  view and of are history: the messages of the
\* source when its record was read, and which incarnation that was.
Fresh(request) ==
  [request |-> request, pc |-> "target", at |-> 0, tail |-> 0,
   copied |-> {}, prefix |-> {}, view |-> {}, of |-> 0]

Init ==
  /\ chain \in Chains
  /\ table = [id \in Ids |-> None]
  /\ children = [id \in Ids |-> {}]
  /\ held = [id \in Ids |-> {}]
  /\ birth = [id \in Ids |-> 0] /\ births = 0
  /\ promised = [id \in Ids |-> None]
  /\ call = [c \in Callers |-> None]

Messages(id) == Composed(table)[id]

Return(c) == call' = [call EXCEPT ![c] = None]

-----------------------------------------------------------------------------
(* The protocol.                                                           *)

Call(c) ==
  /\ call[c] = None
  /\ births + Cardinality({d \in Callers : call[d] # None}) < MaxBirths
  /\ \E request \in Request :
       /\ request.source # request.id
       /\ request.source = None => request.at = None /\ request.sub = 0
       /\ call' = [call EXCEPT ![c] = Fresh(request)]
  /\ UNCHANGED <<chain, storage>>

\* An existing target answers the call: the same stream, or a conflict.
ReadTarget(c) ==
  /\ call[c] # None /\ call[c].pc = "target"
  /\ IF table[call[c].request.id] # None THEN Return(c)
     ELSE call' = [call EXCEPT ![c].pc =
                     IF call[c].request.source = None THEN "commit" ELSE "source"]
  /\ UNCHANGED <<chain, storage>>

\* A source that is missing, soft-deleted or shorter than asked is refused.  So
\* is a sub-offset without an offset: nothing was read for it.
ReadSource(c) ==
  LET request == call[c].request
      source == table[request.source]
      at == IF request.at = None THEN source.tail ELSE request.at
  IN  /\ call[c] # None /\ call[c].pc = "source"
      /\ IF request.source \notin Live(table) THEN Return(c)
         ELSE IF at > source.tail \/ (request.sub > 0 /\ request.at = None) THEN Return(c)
         ELSE call' = [call EXCEPT ![c].at = at, ![c].tail = at,
                         ![c].view = UpTo(held[request.source], at),
                         ![c].of = birth[request.source],
                         ![c].pc = IF request.sub > 0 THEN "tail"
                                   ELSE IF chain THEN "commit" ELSE "prefix"]
      /\ UNCHANGED <<chain, storage>>

\* The messages after the offset, of whatever stream now has the source's id;
\* those asked for are numbered anew.
ReadTail(c) ==
  LET request == call[c].request
      at == call[c].at
      asked == {m \in Messages(request.source) : m.offset > at /\ m.offset <= at + request.sub}
  IN  /\ call[c] # None /\ call[c].pc = "tail"
      /\ IF Cardinality(asked) < request.sub THEN Return(c)
         ELSE call' = [call EXCEPT ![c].copied = asked, ![c].tail = at + request.sub,
                         ![c].pc = IF chain THEN "commit" ELSE "prefix"]
      /\ UNCHANGED <<chain, storage>>

\* A storage without chains: the prefix is read and becomes part of the plan.
ReadPrefix(c) ==
  /\ call[c] # None /\ call[c].pc = "prefix"
  /\ call' = [call EXCEPT ![c].prefix = UpTo(Messages(call[c].request.source), call[c].at),
                          ![c].pc = "commit"]
  /\ UNCHANGED <<chain, storage>>

-----------------------------------------------------------------------------
(* The storage: each mutation is checked and applied in one step.          *)

\* parent is the stream whose messages are shared: none for a copy, of which
\* only the protocol remembers where it came from.
Planned(c) ==
  LET request == call[c].request
      tail == call[c].tail
  IN  [parent |-> IF chain THEN request.source ELSE None,
       at |-> call[c].at, tail |-> tail + request.size, softDeleted |-> FALSE,
       log |-> call[c].prefix \cup call[c].copied
               \cup Written(tail, request.size, births + 1)]

AddEdge(parent, id) ==
  IF parent = None THEN children ELSE [children EXCEPT ![parent] = @ \cup {id}]

\* Rejected: the target exists by now, or the source cannot be shared any more.
Commit(c) ==
  LET request == call[c].request
      entry == Planned(c)
      old == IF entry.parent = None THEN {} ELSE UpTo(held[entry.parent], entry.at)
  IN  /\ call[c] # None /\ call[c].pc = "commit"
      /\ IF table[request.id] # None \/ SourceGone(table, entry.parent, entry.at)
         THEN UNCHANGED storage
         ELSE /\ table' = [table EXCEPT ![request.id] = entry]
              /\ children' = AddEdge(entry.parent, request.id)
              /\ held' = [held EXCEPT ![request.id] = entry.log \cup old]
              /\ births' = births + 1
              /\ birth' = [birth EXCEPT ![request.id] = births + 1]
              /\ promised' = [promised EXCEPT ![request.id] =
                   IF request.source = None THEN None
                   ELSE IF birth[request.source] \notin {call[c].of, 0} THEN None
                   ELSE call[c].view]
      /\ Return(c)
      /\ UNCHANGED chain

Append(id) ==
  /\ id \in Live(table)
  /\ \E n \in 1..MaxSize :
       LET more == Written(table[id].tail, n, birth[id])
       IN  /\ table[id].tail + n <= MaxTail
           /\ table' = [table EXCEPT ![id].tail = @ + n, ![id].log = @ \cup more]
           /\ held' = [held EXCEPT ![id] = @ \cup more]
  /\ UNCHANGED <<chain, children, birth, births, promised, call>>

\* Slips: the walk takes soft-deleted parents that still have forks, or stops at
\* the stream itself.
PurgedRegardless(id) ==
  LET from[x \in Ids] ==
        LET parent == table[x].parent
        IN  {x} \cup (IF parent \in Present(table) /\ table[parent].softDeleted
                      THEN from[parent] ELSE {})
  IN  from[id]
PurgedAlone(id) == {id}

\* purge removes a stream and walks up: a soft-deleted parent whose last fork
\* this was goes too.
Purged(id) ==
  LET from[x \in Ids] ==
        LET parent == table[x].parent
        IN  {x} \cup (IF parent \in Present(table) /\ table[parent].softDeleted
                         /\ children[parent] \ {x} = {}
                      THEN from[parent] ELSE {})
  IN  from[id]

Forget(f, gone, empty) == [id \in Ids |-> IF id \in gone THEN empty ELSE f[id]]

Delete(id) ==
  /\ id \in Live(table)
  /\ IF chain /\ children[id] # {}
     THEN /\ table' = [table EXCEPT ![id].softDeleted = TRUE]
          /\ UNCHANGED <<children, held, birth, promised>>
     ELSE LET gone == Purged(id)
          IN  /\ table' = Without(table, gone)
              /\ children' = [x \in Ids |-> IF x \in gone THEN {} ELSE children[x] \ gone]
              /\ held' = Forget(held, gone, {})
              /\ birth' = Forget(birth, gone, 0)
              /\ promised' = Forget(promised, gone, None)
  /\ UNCHANGED <<chain, births, call>>

-----------------------------------------------------------------------------
Next ==
  \/ \E c \in Callers : Call(c) \/ ReadTarget(c) \/ ReadSource(c) \/ ReadTail(c)
                        \/ ReadPrefix(c) \/ Commit(c)
  \/ \E id \in Ids : Append(id) \/ Delete(id)

Spec == Init /\ [][Next]_vars

-----------------------------------------------------------------------------
(* Properties.                                                             *)

TypeOK ==
  /\ chain \in Chains /\ table \in Table
  /\ children \in [Ids -> SUBSET Ids]
  /\ held \in [Ids -> SUBSET Message] /\ promised \in [Ids -> (SUBSET Message) \cup {None}]
  /\ birth \in [Ids -> 0..births] /\ births \in 0..MaxBirths

\* What a stream reads as, its forks' prefixes composed recursively, is always
\* what it was given: no delete, purge or append anywhere in the forest takes a
\* message away from a fork or shows it one its source got later (lineage.ts).
ContentIsStable == \A id \in Ids : Messages(id) = held[id]

\* The fork holds the messages its caller saw the source have up to the fork
\* offset, whatever happened to the source between the reads and the commit;
\* unless a new stream had taken the source's id.
ForkIsWhole(id) ==
  promised[id] # None => \A m \in promised[id] : m \in Messages(id)

\* A storage with chains checks the source again when it commits (reject), so a
\* source that went away fails the create instead of leaving a hole.
SharedForkIsWhole == chain => \A id \in Ids : ForkIsWhole(id)

\* Every storage keeps what its streams read as, and a storage with chains makes no
\* fork with a hole (lineage.ts composeMessages, layer.ts reject).
ForksAreWhole == TypeOK /\ ContentIsStable /\ SharedForkIsWhole

Abstract == INSTANCE Lineage

\* Whatever the protocol was doing, the storage's steps are those of Lineage: the
\* walk up the parents takes along exactly the soft-deleted streams that lost
\* their last fork.
Refinement == Abstract!Spec
=============================================================================
