---------------------------- MODULE ForksProofs -----------------------------
(***************************************************************************)
(* What the storage in memory and the protocol over it promise of streams  *)
(* and their forks, for any number of streams and callers: nothing that    *)
(* happens in the forest takes a message from a stream or shows it one of  *)
(* another, a fork of a shared prefix has no hole, and every step of the   *)
(* storage is one of Lineage.                                              *)
(***************************************************************************)
EXTENDS Forks, FiniteSetTheorems, WellFoundedInduction, TLAPS

-----------------------------------------------------------------------------
(***************************************************************************)
(* The inductive invariant.                                                *)
(***************************************************************************)
Labels == {"target", "source", "tail", "prefix", "commit"}

Pending == [request : Request, pc : Labels, at : Nat, tail : Nat, copied : SUBSET Message,
            prefix : SUBSET Message, view : SUBSET Message, of : Nat]

Busy == {c \in Callers : call[c] # None}

Types ==
  /\ chain \in BOOLEAN /\ table \in Table
  /\ children \in [Ids -> SUBSET Ids] /\ held \in [Ids -> SUBSET Message]
  /\ births \in Nat /\ birth \in [Ids -> Nat]
  /\ promised \in [Ids -> (SUBSET Message) \cup {None}]
  /\ call \in [Callers -> Pending \cup {None}]

\* Every call makes one stream at most.
Counted == IsFiniteSet(Busy) /\ births + Cardinality(Busy) <= MaxBirths

\* An absent stream has nothing.
AbsentOK(id) == table[id] = None => children[id] = {} /\ held[id] = {} /\ birth[id] = 0

\* A stream has what it wrote, up to its tail, and what its source was given up to the
\* fork offset.  Its source is older than it.
StreamOK(id) ==
  table[id] # None =>
    /\ birth[id] > 0 /\ birth[id] <= births
    /\ table[id].at <= table[id].tail
    /\ \A m \in table[id].log : m.offset <= table[id].tail
    /\ table[id].softDeleted => children[id] # {}
    /\ table[id].parent = None => held[id] = table[id].log
    /\ table[id].parent # None =>
         /\ chain /\ table[table[id].parent] # None
         /\ table[id].at <= table[table[id].parent].tail
         /\ birth[table[id].parent] < birth[id]
         /\ \A m \in table[id].log : m.offset > table[id].at
         /\ held[id] = table[id].log \cup UpTo(held[table[id].parent], table[id].at)

\* The edges are the parents.
EdgesOK ==
  \A p, c \in Ids : c \in children[p] <=> table[c] # None /\ table[c].parent = p

PromiseOK(id) == chain /\ promised[id] # None => promised[id] \subseteq held[id]

\* What a caller has read: it saw the source have what the source has as long as it is
\* the same one.
CallOK(r) ==
  /\ r.request.id # r.request.source
  /\ r.pc \in {"source", "tail", "prefix"} => r.request.source # None
  /\ r.pc = "prefix" => ~chain
  /\ r.at <= r.tail
  /\ \A m \in r.copied : r.at < m.offset /\ m.offset <= r.tail
  /\ chain => r.prefix = {}
  /\ r.pc \in {"target", "source"} => r.copied = {} /\ r.prefix = {}
  /\ \A m \in r.prefix \cup r.view : m.offset <= r.at
  /\ r.of <= births /\ (r.of = 0 => r.view = {})
  /\ r.request.source # None => (birth[r.request.source] = r.of => r.view \subseteq held[r.request.source])

Forest == (\A id \in Ids : AbsentOK(id) /\ StreamOK(id)) /\ EdgesOK

Inv ==
  /\ Types /\ Counted /\ Forest
  /\ \A id \in Ids : PromiseOK(id)
  /\ \A c \in Callers : call[c] # None => CallOK(call[c])

-----------------------------------------------------------------------------
(***************************************************************************)
(* What a stream reads as.  Parents are older than their forks, so the     *)
(* recursion over the parents has one solution, and what the streams were  *)
(* given is it.                                                            *)
(***************************************************************************)
LEMMA SmallestOf ==
    ASSUME NEW S \in SUBSET Nat, S # {}
    PROVE  \E m \in S : \A n \in S : m <= n
<1>1. PICK m \in S : \A n \in S : ~(<<n, m>> \in OpToRel(<, Nat))
  BY NatLessThanWellFounded, WFMin, Zenon
<1>2. \A n \in S : ~(n < m)
  BY <1>1 DEF OpToRel
<1> QED
  BY <1>2

\* Of streams there is an oldest.
LEMMA OldestOf ==
    ASSUME Types, NEW S \in SUBSET Ids, S # {}
    PROVE  \E x \in S : \A y \in S : birth[x] <= birth[y]
<1> DEFINE ages == {birth[x] : x \in S}
<1>1. ages \in SUBSET Nat /\ ages # {}
  BY DEF Types
<1>2. PICK m \in ages : \A n \in ages : m <= n
  BY <1>1, SmallestOf
<1>3. PICK x \in S : m = birth[x]
  BY <1>2
<1>4. \A y \in S : birth[y] \in ages
  OBVIOUS
<1> QED
  BY <1>2, <1>3, <1>4

LEMMA EntryMeans ==
    ASSUME Types, NEW id \in Ids, table[id] # None
    PROVE  /\ table[id] \in Entry
           /\ table[id].parent \in Ids \cup {None} /\ table[id].at \in Nat
           /\ table[id].tail \in Nat /\ table[id].softDeleted \in BOOLEAN
           /\ table[id].log \subseteq Message
BY DEF Types, Table, Entry

\* The streams read as f if they do so step by step.
ReadAs(f) ==
  f = [id \in Ids |->
        IF table[id] = None THEN {}
        ELSE table[id].log
             \cup (IF table[id].parent = None THEN {}
                   ELSE UpTo(f[table[id].parent], table[id].at))]

LEMMA HeldIsRead == ASSUME Types, Forest PROVE ReadAs(held)
<1>1. ASSUME NEW id \in Ids
      PROVE  held[id] = IF table[id] = None THEN {}
                        ELSE table[id].log
                             \cup (IF table[id].parent = None THEN {}
                                   ELSE UpTo(held[table[id].parent], table[id].at))
  BY DEF Forest, AbsentOK, StreamOK
<1> QED
  BY <1>1 DEF ReadAs, Types

LEMMA ReadOneWay == ASSUME Types, Forest, NEW f, ReadAs(f) PROVE f = held
<1> DEFINE wrong == {id \in Ids : f[id] # held[id]}
<1>1. \A id \in Ids :
        f[id] = IF table[id] = None THEN {}
                ELSE table[id].log
                     \cup (IF table[id].parent = None THEN {}
                           ELSE UpTo(f[table[id].parent], table[id].at))
  BY DEF ReadAs
<1>2. \A id \in Ids :
        held[id] = IF table[id] = None THEN {}
                   ELSE table[id].log
                        \cup (IF table[id].parent = None THEN {}
                              ELSE UpTo(held[table[id].parent], table[id].at))
  BY HeldIsRead DEF ReadAs
<1>3. wrong = {}
  <2> SUFFICES ASSUME wrong # {} PROVE FALSE
    OBVIOUS
  <2>1. PICK x \in wrong : \A y \in wrong : birth[x] <= birth[y]
    <3> HIDE DEF wrong
    <3>1. wrong \in SUBSET Ids
      BY DEF wrong
    <3> QED
      BY <3>1, OldestOf
  <2>2. table[x] # None /\ table[x].parent # None
    BY <1>1, <1>2
  <2>3. PICK p \in Ids : p = table[x].parent
    BY <2>2, EntryMeans
  <2>4. birth[p] < birth[x] /\ birth[p] \in Nat /\ birth[x] \in Nat
    BY <2>2, <2>3 DEF Forest, StreamOK, Types
  <2>5. f[p] = held[p]
    BY <2>1, <2>4
  <2> QED
    BY <1>1, <1>2, <2>2, <2>3, <2>5
<1>4. \A id \in Ids : f[id] = held[id]
  BY <1>3
<1>5. f = [id \in Ids |-> f[id]] /\ held = [id \in Ids |-> held[id]]
  BY DEF ReadAs, Types
<1> QED
  BY <1>4, <1>5

LEMMA ReadsAreHeld == ASSUME Types, Forest PROVE Composed(table) = held
<1>1. Composed(table) = CHOOSE f : ReadAs(f)
  BY DEF Composed, ReadAs
<1>2. ReadAs(CHOOSE f : ReadAs(f))
  BY HeldIsRead
<1> QED
  BY <1>1, <1>2, ReadOneWay

-----------------------------------------------------------------------------
(***************************************************************************)
(* What a purge takes along.  Its walk is the least set of streams that    *)
(* has the purged one and goes on from each to the parent that may go; the *)
(* last stream of it is the only one it does not go on from.               *)
(***************************************************************************)
MayGo(x) ==
  LET parent == table[x].parent
  IN  parent \in Present(table) /\ table[parent].softDeleted /\ children[parent] \ {x} = {}

Closed(S) == \A y \in S : MayGo(y) => table[y].parent \in S

Walk(x) == {y \in Ids : \A S \in SUBSET Ids : x \in S /\ Closed(S) => y \in S}

LEMMA WalkMeans ==
    ASSUME NEW x \in Ids
    PROVE  /\ Walk(x) \in SUBSET Ids /\ x \in Walk(x) /\ Closed(Walk(x))
           /\ \A S \in SUBSET Ids : x \in S /\ Closed(S) => Walk(x) \subseteq S
<1>1. Walk(x) \in SUBSET Ids /\ x \in Walk(x)
      /\ \A S \in SUBSET Ids : x \in S /\ Closed(S) => Walk(x) \subseteq S
  BY DEF Walk
<1>2. ASSUME NEW y \in Walk(x), MayGo(y) PROVE table[y].parent \in Walk(x)
  <2>1. table[y].parent \in Ids
    BY <1>2 DEF MayGo, Present
  <2>2. ASSUME NEW S \in SUBSET Ids, x \in S, Closed(S) PROVE table[y].parent \in S
    BY <1>1, <1>2, <2>2 DEF Closed
  <2> QED
    BY <2>1, <2>2 DEF Walk
<1> QED
  BY <1>1, <1>2 DEF Closed

LEMMA WalkStep ==
    ASSUME NEW x \in Ids
    PROVE  Walk(x) = {x} \cup (IF MayGo(x) THEN Walk(table[x].parent) ELSE {})
<1>1. CASE ~MayGo(x)
  <2>1. Closed({x})
    BY <1>1 DEF Closed
  <2>2. {x} \in SUBSET Ids
    OBVIOUS
  <2> QED
    BY <1>1, <2>1, <2>2, WalkMeans
<1>2. CASE MayGo(x)
  <2>1. PICK p \in Ids : p = table[x].parent
    BY <1>2 DEF MayGo, Present
  <2>2. /\ Walk(p) \in SUBSET Ids /\ p \in Walk(p) /\ Closed(Walk(p))
        /\ \A S \in SUBSET Ids : p \in S /\ Closed(S) => Walk(p) \subseteq S
    BY <2>1, WalkMeans
  <2>3. /\ Walk(x) \in SUBSET Ids /\ x \in Walk(x) /\ Closed(Walk(x))
        /\ \A S \in SUBSET Ids : x \in S /\ Closed(S) => Walk(x) \subseteq S
    BY WalkMeans
  <2>4. Walk(p) \subseteq Walk(x)
    BY <1>2, <2>1, <2>2, <2>3 DEF Closed
  <2>5. PICK T : T = {x} \cup Walk(p)
    OBVIOUS
  <2>6. T \in SUBSET Ids /\ x \in T /\ Closed(T)
    BY <2>1, <2>2, <2>5 DEF Closed
  <2>7. Walk(x) \subseteq T
    BY <2>3, <2>6
  <2> QED
    BY <1>2, <2>1, <2>3, <2>4, <2>5, <2>7
<1> QED
  BY <1>1, <1>2

\* The streams are walked as f if they are so step by step.
WalksAs(f) ==
  f = [x \in Ids |-> {x} \cup (IF MayGo(x) THEN f[table[x].parent] ELSE {})]

LEMMA WalkOneWay ==
    ASSUME Types, Forest, NEW f, WalksAs(f), NEW id \in Ids
    PROVE  f[id] = Walk(id)
<1> DEFINE wrong == {x \in Present(table) : f[x] # Walk(x)}
<1>1. \A x \in Ids : f[x] = {x} \cup (IF MayGo(x) THEN f[table[x].parent] ELSE {})
  BY DEF WalksAs
<1>2. \A x \in Ids : Walk(x) = {x} \cup (IF MayGo(x) THEN Walk(table[x].parent) ELSE {})
  BY WalkStep
<1>3. wrong = {}
  <2> SUFFICES ASSUME wrong # {} PROVE FALSE
    OBVIOUS
  <2>1. PICK x \in wrong : \A y \in wrong : birth[x] <= birth[y]
    <3>1. wrong \in SUBSET Ids
      BY DEF Present
    <3> HIDE DEF wrong
    <3> QED
      BY <3>1, OldestOf
  <2>2. x \in Ids /\ table[x] # None /\ f[x] # Walk(x)
    BY <2>1 DEF Present
  <2>3. MayGo(x)
    BY <1>1, <1>2, <2>2
  <2>4. PICK p \in Ids : p = table[x].parent /\ p \in Present(table)
    BY <2>3 DEF MayGo, Present
  <2>5. birth[p] < birth[x] /\ birth[p] \in Nat /\ birth[x] \in Nat
    BY <2>2, <2>4, NoneAssumption DEF Forest, StreamOK, Types
  <2>6. f[p] = Walk(p)
    BY <2>1, <2>4, <2>5
  <2> QED
    BY <1>1, <1>2, <2>2, <2>3, <2>4, <2>6
<1>4. MayGo(id) => f[table[id].parent] = Walk(table[id].parent)
  BY <1>3 DEF MayGo
<1> QED
  BY <1>1, <1>2, <1>4

LEMMA PurgedIsWalk == ASSUME Types, Forest, NEW id \in Ids PROVE Purged(id) = Walk(id)
<1>1. PICK f : f = CHOOSE g : WalksAs(g)
  OBVIOUS
<1>2. Purged(id) = f[id]
  BY <1>1 DEF Purged, WalksAs, MayGo
<1>3. WalksAs([x \in Ids |-> Walk(x)])
  <2>1. PICK g : g = [x \in Ids |-> Walk(x)]
    OBVIOUS
  <2>2. \A x \in Ids : MayGo(x) => table[x].parent \in Ids
    BY DEF MayGo, Present
  <2>3. \A x \in Ids : g[x] = {x} \cup (IF MayGo(x) THEN g[table[x].parent] ELSE {})
    BY <2>1, <2>2, WalkStep
  <2>4. WalksAs(g)
    BY <2>1, <2>3 DEF WalksAs
  <2> QED
    BY <2>1, <2>4
<1>4. WalksAs(f)
  BY <1>1, <1>3
<1> QED
  BY <1>2, <1>4, WalkOneWay

\* A stream at which the walk stops is at its end: every stream on it leads there.
LEMMA WalkEndsOnce ==
    ASSUME NEW id \in Ids, NEW c \in Walk(id), NEW d \in Walk(id), ~MayGo(c), ~MayGo(d)
    PROVE  c = d
<1>1. PICK S : S = {y \in Walk(id) : c \in Walk(y)}
  OBVIOUS
<1>2. Walk(id) \in SUBSET Ids /\ Closed(Walk(id))
  BY WalkMeans
<1>3. S \in SUBSET Ids /\ id \in S
  BY <1>1, <1>2, WalkMeans
<1>4. ASSUME NEW y \in S, MayGo(y) PROVE table[y].parent \in S
  <2>1. y \in Ids /\ y # c /\ c \in Walk(y)
    BY <1>1, <1>2, <1>4
  <2>2. c \in Walk(table[y].parent)
    BY <1>4, <2>1, WalkStep
  <2>3. table[y].parent \in Walk(id)
    BY <1>1, <1>2, <1>4 DEF Closed
  <2> QED
    BY <1>1, <2>2, <2>3
<1>5. Closed(S)
  BY <1>4 DEF Closed
<1>6. d \in S
  BY <1>3, <1>5, WalkMeans
<1>7. Walk(d) = {d}
  BY <1>2, WalkStep
<1> QED
  BY <1>1, <1>6, <1>7

\* The walk takes along exactly the soft-deleted streams all of whose forks go.
LEMMA WalkReclaims ==
    ASSUME Types, Forest, NEW id \in Ids, children[id] = {}
    PROVE  Reclaims(table, children, id, Walk(id))
<1>1. Walk(id) \in SUBSET Ids /\ id \in Walk(id) /\ Closed(Walk(id))
      /\ \A S \in SUBSET Ids : id \in S /\ Closed(S) => Walk(id) \subseteq S
  BY WalkMeans
<1>2. PICK S : S = {y \in Walk(id) : y = id \/ Freed(table, children, Walk(id), y)}
  OBVIOUS
<1>3. S \in SUBSET Ids /\ id \in S
  BY <1>1, <1>2
<1>4. ASSUME NEW y \in S, MayGo(y) PROVE table[y].parent \in S
  <2>1. PICK p \in Ids : /\ p = table[y].parent /\ p \in Present(table)
                         /\ table[p].softDeleted /\ children[p] \ {y} = {}
    BY <1>4 DEF MayGo, Present
  <2>2. p \in Walk(id) /\ y \in Walk(id)
    BY <1>1, <1>2, <1>4, <2>1 DEF Closed
  <2>3. children[p] # {}
    BY <2>1 DEF Forest, StreamOK, Present
  <2> QED
    BY <1>2, <2>1, <2>2, <2>3 DEF Freed
<1>5. \A x \in Walk(id) : x = id \/ Freed(table, children, Walk(id), x)
  BY <1>1, <1>2, <1>3, <1>4 DEF Closed
<1>6. ASSUME NEW x \in Ids, Freed(table, children, Walk(id), x) PROVE x \in Walk(id)
  <2>1. x \in Present(table) /\ table[x].softDeleted /\ children[x] # {}
        /\ children[x] \subseteq Walk(id)
    BY <1>6 DEF Freed
  <2>2. \A c \in children[x] : c \in Ids /\ table[c] # None /\ table[c].parent = x
    BY DEF Forest, EdgesOK, Types
  <2>3. CASE \E c \in children[x] : MayGo(c)
    BY <1>1, <2>1, <2>2, <2>3 DEF Closed
  <2>4. CASE \A c \in children[x] : ~MayGo(c)
    <3>1. PICK c \in children[x] : TRUE
      BY <2>1
    <3>2. \A d \in children[x] : d = c
      BY <2>1, <2>4, WalkEndsOnce
    <3>3. MayGo(c)
      BY <2>1, <2>2, <3>2 DEF MayGo
    <3> QED
      BY <2>4, <3>3
  <2> QED
    BY <2>3, <2>4
<1> QED
  BY <1>1, <1>5, <1>6 DEF Reclaims

-----------------------------------------------------------------------------
(***************************************************************************)
(* The protocol's steps, which leave the storage alone.                    *)
(***************************************************************************)
LEMMA WrittenMeans ==
    ASSUME NEW tail \in Nat, NEW n \in Nat, NEW origin \in Nat
    PROVE  /\ Written(tail, n, origin) \subseteq Message
           /\ \A m \in Written(tail, n, origin) : m.offset > tail /\ m.offset <= tail + n
BY DEF Written, Message

LEMMA UpToMeans ==
    ASSUME NEW S, NEW at
    PROVE  UpTo(S, at) \subseteq S /\ \A m \in UpTo(S, at) : m.offset <= at
BY DEF UpTo

\* A caller that goes on, or is answered, is counted no more than before.
LEMMA FewerBusy ==
    ASSUME Types, Counted, NEW c \in Callers, call[c] # None, NEW h,
           call' = [call EXCEPT ![c] = h], births' = births
    PROVE  Counted'
<1>1. Busy' \subseteq Busy
  BY DEF Busy, Types
<1>2. IsFiniteSet(Busy') /\ Cardinality(Busy') <= Cardinality(Busy)
      /\ Cardinality(Busy') \in Nat /\ Cardinality(Busy) \in Nat
  BY <1>1, FS_Subset, FS_CardinalityType DEF Counted
<1>3. births \in Nat /\ MaxBirths \in Nat /\ births + Cardinality(Busy) <= MaxBirths
  BY ForksAssumption DEF Types, Counted
<1> QED
  BY <1>2, <1>3 DEF Counted

LEMMA CallStep ==
    ASSUME Inv, NEW c \in Callers, NEW h \in Pending \cup {None}, h # None => CallOK(h),
           call' = [call EXCEPT ![c] = h], UNCHANGED <<chain, storage>>, Counted'
    PROVE  Inv'
<1>1. /\ chain' = chain /\ table' = table /\ children' = children /\ held' = held
      /\ birth' = birth /\ births' = births /\ promised' = promised
  BY DEF storage
<1>2. Types'
  BY <1>1 DEF Inv, Types
<1>3. Forest'
  BY <1>1 DEF Inv, Forest, AbsentOK, StreamOK, EdgesOK
<1>4. \A id \in Ids : PromiseOK(id)'
  BY <1>1 DEF Inv, PromiseOK
<1>5. ASSUME NEW d \in Callers, call'[d] # None PROVE CallOK(call[d])'
  <2>1. PICK r \in Pending : r = call'[d] /\ CallOK(r)
    BY <1>5 DEF Inv, Types
  <2>2. CallOK(r)'
    BY <1>1, <2>1 DEF CallOK
  <2> QED
    BY <2>1, <2>2
<1> QED
  BY <1>2, <1>3, <1>4, <1>5 DEF Inv

LEMMA ReturnStep ==
    ASSUME Inv, NEW c \in Callers, call[c] # None, Return(c), UNCHANGED <<chain, storage>>
    PROVE  Inv'
<1>1. call' = [call EXCEPT ![c] = None] /\ births' = births
  BY DEF Return, storage
<1>2. Counted'
  BY <1>1, FewerBusy DEF Inv
<1> QED
  BY <1>1, <1>2, CallStep

LEMMA GoesOnStep ==
    ASSUME Inv, NEW c \in Callers, call[c] # None, NEW h \in Pending, CallOK(h),
           call' = [call EXCEPT ![c] = h], UNCHANGED <<chain, storage>>
    PROVE  Inv'
<1>1. births' = births
  BY DEF storage
<1>2. Counted'
  BY <1>1, FewerBusy DEF Inv
<1> QED
  BY <1>2, CallStep

LEMMA CallKeeps == ASSUME Inv, NEW c \in Callers, Call(c) PROVE Inv'
<1>1. PICK request \in Request :
         /\ request.source # request.id
         /\ request.source = None => request.at = None /\ request.sub = 0
         /\ call' = [call EXCEPT ![c] = Fresh(request)]
  BY DEF Call
<1>2. PICK h : h = Fresh(request)
  OBVIOUS
<1>3. /\ h.request = request /\ h.pc = "target" /\ h.at = 0 /\ h.tail = 0 /\ h.copied = {}
      /\ h.prefix = {} /\ h.view = {} /\ h.of = 0 /\ h \in Pending
  BY <1>2 DEF Fresh, Pending, Labels
<1>4. births \in Nat /\ MaxBirths \in Nat /\ births' = births /\ call[c] = None
      /\ UNCHANGED <<chain, storage>> /\ IsFiniteSet(Busy)
      /\ births + Cardinality(Busy) < MaxBirths
  BY ForksAssumption DEF Inv, Types, Counted, Call, storage, Busy
<1>5. CallOK(h)
  BY <1>1, <1>3, <1>4 DEF CallOK
<1>6. Counted'
  <2>1. Busy' \subseteq Busy \cup {c}
    <3>1. \A d \in Callers : d # c => call'[d] = call[d]
      BY <1>1, <1>2 DEF Inv, Types
    <3>2. ASSUME NEW d \in Busy' PROVE d \in Busy \cup {c}
      <4>1. d \in Callers /\ call'[d] # None
        BY <3>2 DEF Busy
      <4> QED
        BY <3>1, <4>1 DEF Busy
    <3> QED
      BY <3>2
  <2>2. /\ IsFiniteSet(Busy \cup {c}) /\ Cardinality(Busy \cup {c}) <= Cardinality(Busy) + 1
        /\ Cardinality(Busy) \in Nat
    <3>1. Cardinality(Busy) \in Nat
      BY <1>4, FS_CardinalityType
    <3>2. /\ IsFiniteSet(Busy \cup {c})
          /\ Cardinality(Busy \cup {c}) = IF c \in Busy THEN Cardinality(Busy)
                                          ELSE Cardinality(Busy) + 1
      BY <1>4, FS_AddElement, Zenon
    <3> QED
      BY <3>1, <3>2
  <2>3. IsFiniteSet(Busy') /\ Cardinality(Busy') <= Cardinality(Busy \cup {c})
        /\ Cardinality(Busy') \in Nat /\ Cardinality(Busy \cup {c}) \in Nat
    BY <2>1, <2>2, FS_Subset, FS_CardinalityType
  <2> QED
    BY <1>4, <2>2, <2>3 DEF Counted
<1> QED
  BY <1>1, <1>2, <1>3, <1>4, <1>5, <1>6, CallStep

LEMMA ReadTargetKeeps == ASSUME Inv, NEW c \in Callers, ReadTarget(c) PROVE Inv'
<1>1. PICK r \in Pending : r = call[c] /\ CallOK(r) /\ r.pc = "target"
  BY DEF Inv, Types, ReadTarget
<1>2. call[c] # None /\ UNCHANGED <<chain, storage>>
  BY DEF ReadTarget
<1>3. CASE table[r.request.id] # None
  BY <1>1, <1>2, <1>3, ReturnStep DEF ReadTarget
<1>4. CASE table[r.request.id] = None
  <2>1. PICK pc \in {"commit", "source"} :
           pc = IF r.request.source = None THEN "commit" ELSE "source"
    OBVIOUS
  <2>2. PICK h : h = [r EXCEPT !.pc = pc]
    OBVIOUS
  <2>3. /\ h \in Pending /\ h.request = r.request /\ h.pc = pc /\ h.at = r.at
        /\ h.tail = r.tail /\ h.copied = r.copied /\ h.prefix = r.prefix
        /\ h.view = r.view /\ h.of = r.of
    BY <2>2 DEF Pending, Labels
  <2>4. call' = [call EXCEPT ![c] = h]
    <3>1. call' = [call EXCEPT ![c].pc = pc]
      BY <1>1, <1>4, <2>1 DEF ReadTarget
    <3>2. call[c] = r /\ call \in [Callers -> Pending \cup {None}]
      BY <1>1 DEF Inv, Types
    <3> QED
      BY <2>2, <3>1, <3>2
  <2>5. CallOK(h)
    BY <1>1, <2>1, <2>3 DEF CallOK
  <2> QED
    BY <1>2, <2>3, <2>4, <2>5, GoesOnStep
<1> QED
  BY <1>3, <1>4

LEMMA ReadSourceKeeps == ASSUME Inv, NEW c \in Callers, ReadSource(c) PROVE Inv'
<1>1. PICK r \in Pending : r = call[c] /\ CallOK(r) /\ r.pc = "source"
  BY DEF Inv, Types, ReadSource
<1>2. call[c] # None /\ UNCHANGED <<chain, storage>> /\ Types /\ Forest
  BY DEF ReadSource, Inv
<1>3. PICK s \in Ids : s = r.request.source
  BY <1>1 DEF CallOK, Pending, Request
<1>4. PICK at : at = IF r.request.at = None THEN table[s].tail ELSE r.request.at
  OBVIOUS
<1>5. CASE s \notin Live(table) \/ at > table[s].tail
           \/ (r.request.sub > 0 /\ r.request.at = None)
  BY <1>1, <1>2, <1>3, <1>4, <1>5, ReturnStep DEF ReadSource
<1>6. CASE ~(s \notin Live(table) \/ at > table[s].tail
             \/ (r.request.sub > 0 /\ r.request.at = None))
  <2>1. s \in Live(table) /\ table[s] # None
    BY <1>6 DEF Live, Present
  <2>2. at \in Nat
    BY <1>2, <1>4, <2>1, EntryMeans, ForksAssumption DEF Pending, Request
  <2>3. PICK pc \in {"tail", "commit", "prefix"} :
           pc = IF r.request.sub > 0 THEN "tail" ELSE IF chain THEN "commit" ELSE "prefix"
    OBVIOUS
  <2>4. PICK view : view = UpTo(held[s], at)
    OBVIOUS
  <2>5. PICK of : of = birth[s]
    OBVIOUS
  <2>6. PICK h : h = [r EXCEPT !.at = at, !.tail = at, !.view = view, !.of = of, !.pc = pc]
    OBVIOUS
  <2>7. /\ view \in SUBSET Message /\ view \subseteq held[s] /\ \A m \in view : m.offset <= at
        /\ of \in Nat /\ of > 0 /\ of <= births
    BY <1>2, <2>1, <2>4, <2>5, UpToMeans DEF Types, Forest, StreamOK
  <2>8. /\ h \in Pending /\ h.request = r.request /\ h.pc = pc /\ h.at = at
        /\ h.tail = at /\ h.copied = r.copied /\ h.prefix = r.prefix
        /\ h.view = view /\ h.of = of
    BY <2>2, <2>6, <2>7 DEF Pending, Labels
  <2>9. call' = [call EXCEPT ![c] = h]
    <3>1. call' = [call EXCEPT ![c].at = at, ![c].tail = at, ![c].view = view, ![c].of = of,
                               ![c].pc = pc]
      BY <1>1, <1>3, <1>4, <1>6, <2>3, <2>4, <2>5 DEF ReadSource
    <3>2. call[c] = r /\ call \in [Callers -> Pending \cup {None}]
      BY <1>1, <1>2 DEF Types
    <3> QED
      BY <2>6, <3>1, <3>2
  <2>10. CallOK(h)
    BY <1>1, <1>3, <2>2, <2>3, <2>5, <2>7, <2>8 DEF CallOK
  <2> QED
    BY <1>2, <2>8, <2>9, <2>10, GoesOnStep
<1> QED
  BY <1>5, <1>6

LEMMA ReadTailKeeps == ASSUME Inv, NEW c \in Callers, ReadTail(c) PROVE Inv'
<1>1. PICK r \in Pending : r = call[c] /\ CallOK(r) /\ r.pc = "tail"
  BY DEF Inv, Types, ReadTail
<1>2. call[c] # None /\ UNCHANGED <<chain, storage>> /\ Types /\ Forest
  BY DEF ReadTail, Inv
<1>3. PICK s \in Ids : s = r.request.source
  BY <1>1 DEF CallOK, Pending, Request
<1>4. PICK at \in Nat, sub \in Nat : at = r.at /\ sub = r.request.sub
  BY DEF Pending, Request
<1>5. PICK asked : asked = {m \in held[s] : m.offset > at /\ m.offset <= at + sub}
  OBVIOUS
<1>6. Messages(s) = held[s]
  BY <1>2, ReadsAreHeld DEF Messages
<1>7. asked = {m \in Messages(call[c].request.source) :
                  m.offset > call[c].at /\ m.offset <= call[c].at + call[c].request.sub}
  BY <1>1, <1>3, <1>4, <1>5, <1>6
<1>8. CASE Cardinality(asked) < sub
  <2>1. Return(c)
    BY <1>1, <1>4, <1>7, <1>8 DEF ReadTail
  <2> QED
    BY <1>2, <2>1, ReturnStep
<1>9. CASE ~(Cardinality(asked) < sub)
  <2>1. PICK pc \in {"commit", "prefix"} : pc = IF chain THEN "commit" ELSE "prefix"
    OBVIOUS
  <2>2. PICK h : h = [r EXCEPT !.copied = asked, !.tail = at + sub, !.pc = pc]
    OBVIOUS
  <2>3. asked \in SUBSET Message /\ at + sub \in Nat
    BY <1>2, <1>5 DEF Types
  <2>4. /\ h \in Pending /\ h.request = r.request /\ h.pc = pc /\ h.at = at
        /\ h.tail = at + sub /\ h.copied = asked /\ h.prefix = r.prefix
        /\ h.view = r.view /\ h.of = r.of
    BY <1>4, <2>2, <2>3 DEF Pending, Labels
  <2>5. call' = [call EXCEPT ![c] = h]
    <3>1. call' = [call EXCEPT ![c].copied = asked, ![c].tail = at + sub, ![c].pc = pc]
      <4>1. sub = call[c].request.sub /\ at = call[c].at
        BY <1>1, <1>4
      <4> QED
        BY <1>7, <1>9, <2>1, <4>1 DEF ReadTail
    <3>2. call[c] = r /\ call \in [Callers -> Pending \cup {None}]
      BY <1>1, <1>2 DEF Types
    <3> QED
      BY <2>2, <3>1, <3>2
  <2>6. at <= at + sub /\ \A m \in asked : at < m.offset /\ m.offset <= at + sub
    <3>1. \A m \in asked : m \in Message /\ m.offset > at /\ m.offset <= at + sub
      BY <1>5, <2>3
    <3>2. \A m \in Message : m.offset \in Nat
      BY DEF Message
    <3> QED
      BY <3>1, <3>2
  <2>7. CallOK(h)
    BY <1>1, <1>4, <2>1, <2>4, <2>6 DEF CallOK
  <2> QED
    BY <1>2, <2>4, <2>5, <2>7, GoesOnStep
<1> QED
  BY <1>8, <1>9

LEMMA ReadPrefixKeeps == ASSUME Inv, NEW c \in Callers, ReadPrefix(c) PROVE Inv'
<1>1. PICK r \in Pending : r = call[c] /\ CallOK(r) /\ r.pc = "prefix"
  BY DEF Inv, Types, ReadPrefix
<1>2. call[c] # None /\ UNCHANGED <<chain, storage>> /\ Types /\ Forest
  BY DEF ReadPrefix, Inv
<1>3. PICK s \in Ids : s = r.request.source
  BY <1>1 DEF CallOK, Pending, Request
<1>4. PICK prefix : prefix = UpTo(held[s], r.at)
  OBVIOUS
<1>5. Messages(r.request.source) = held[s]
  BY <1>2, <1>3, ReadsAreHeld DEF Messages
<1>6. PICK h : h = [r EXCEPT !.prefix = prefix, !.pc = "commit"]
  OBVIOUS
<1>7. prefix \in SUBSET Message /\ \A m \in prefix : m.offset <= r.at
  BY <1>2, <1>4, UpToMeans DEF Types
<1>8. /\ h \in Pending /\ h.request = r.request /\ h.pc = "commit" /\ h.at = r.at
      /\ h.tail = r.tail /\ h.copied = r.copied /\ h.prefix = prefix
      /\ h.view = r.view /\ h.of = r.of
  BY <1>6, <1>7 DEF Pending, Labels
<1>9. call' = [call EXCEPT ![c] = h]
  <2>1. call' = [call EXCEPT ![c].prefix = prefix, ![c].pc = "commit"]
    BY <1>1, <1>4, <1>5 DEF ReadPrefix
  <2>2. call[c] = r /\ call \in [Callers -> Pending \cup {None}]
    BY <1>1, <1>2 DEF Types
  <2> QED
    BY <1>6, <2>1, <2>2
<1>10. CallOK(h)
  BY <1>1, <1>7, <1>8 DEF CallOK
<1> QED
  BY <1>2, <1>8, <1>9, <1>10, GoesOnStep

-----------------------------------------------------------------------------
(***************************************************************************)
(* The storage's steps.                                                    *)
(***************************************************************************)
\* What a caller commits: what it has read and what it writes, above the fork offset if
\* the prefix is shared.
Fits(e, r) ==
  /\ e \in Entry /\ e # None /\ e.parent = (IF chain THEN r.request.source ELSE None)
  /\ e.softDeleted = FALSE /\ e.at = r.at /\ e.at <= e.tail
  /\ e.at \in Nat /\ e.tail \in Nat /\ e.log \in SUBSET Message
  /\ \A m \in e.log : m.offset <= e.tail /\ (chain => m.offset > e.at)

LEMMA PlanFits ==
    ASSUME Inv, NEW c \in Callers, NEW r \in Pending, r = call[c], CallOK(r),
           NEW e, e = Planned(c)
    PROVE  Fits(e, r)
<1>1. PICK at \in Nat, tail \in Nat, size \in Nat, copied \in SUBSET Message,
           prefix \in SUBSET Message :
         /\ at = r.at /\ tail = r.tail /\ size = r.request.size
         /\ copied = r.copied /\ prefix = r.prefix
  <2>1. /\ r.at \in Nat /\ r.tail \in Nat /\ r.copied \in SUBSET Message
        /\ r.prefix \in SUBSET Message /\ r.request \in Request
    BY DEF Pending
  <2>2. r.request.size \in 0..MaxSize /\ MaxSize \in Nat
    BY <2>1, ForksAssumption DEF Request
  <2>3. r.request.size \in Nat
    BY <2>2
  <2> QED
    BY <2>1, <2>3
<1>2. PICK more : more = Written(tail, size, births + 1)
  OBVIOUS
<1>3. PICK parent \in Ids \cup {None} : parent = IF chain THEN r.request.source ELSE None
  BY DEF Pending, Request
<1>4. /\ at <= tail
      /\ \A m \in copied : at < m.offset /\ m.offset <= tail
      /\ chain => prefix = {}
      /\ \A m \in prefix : m.offset <= at
  BY <1>1 DEF CallOK
<1>5. more \in SUBSET Message /\ \A m \in more : m.offset > tail /\ m.offset <= tail + size
  <2>1. births + 1 \in Nat
    BY DEF Inv, Types
  <2> QED
    BY <1>1, <1>2, <2>1, WrittenMeans
<1>6. \A m \in Message : m.offset \in Nat
  BY DEF Message
<1>7. e = [parent |-> parent, at |-> at, tail |-> tail + size, softDeleted |-> FALSE,
           log |-> prefix \cup copied \cup more]
  BY <1>1, <1>2, <1>3 DEF Planned
<1>8. /\ e.parent = parent /\ e.at = at /\ e.tail = tail + size /\ e.softDeleted = FALSE
      /\ e.log = prefix \cup copied \cup more
  BY <1>7
<1>9. ASSUME NEW m \in prefix \cup copied \cup more
      PROVE  m.offset <= tail + size /\ (chain => m.offset > at)
  <2>1. m.offset \in Nat
    BY <1>1, <1>5, <1>6, <1>9
  <2>2. CASE m \in prefix
    BY <1>1, <1>4, <2>1, <2>2
  <2>3. CASE m \in copied
    BY <1>1, <1>4, <2>1, <2>3
  <2>4. CASE m \in more
    BY <1>1, <1>4, <1>5, <2>1, <2>4
  <2> QED
    BY <1>9, <2>2, <2>3, <2>4
<1>10. tail + size \in Nat /\ at <= tail + size
  BY <1>1, <1>4
<1>11. prefix \cup copied \cup more \in SUBSET Message
  BY <1>1, <1>5
<1>12. e \in Entry
  BY <1>3, <1>7, <1>10, <1>11 DEF Entry
<1> QED
  BY <1>1, <1>3, <1>8, <1>9, <1>10, <1>11, <1>12, EntryAssumption DEF Fits

\* A commit that is not rejected.
Creates(c, q, e) ==
  LET request == call[c].request
      old == IF e.parent = None THEN {} ELSE UpTo(held[e.parent], e.at)
  IN  /\ table[q] = None /\ ~SourceGone(table, e.parent, e.at)
      /\ table' = [table EXCEPT ![q] = e]
      /\ children' = AddEdge(e.parent, q)
      /\ held' = [held EXCEPT ![q] = e.log \cup old]
      /\ births' = births + 1
      /\ birth' = [birth EXCEPT ![q] = births + 1]
      /\ promised' = [promised EXCEPT ![q] =
           IF request.source = None THEN None
           ELSE IF birth[request.source] \notin {call[c].of, 0} THEN None
           ELSE call[c].view]
      /\ Return(c) /\ chain' = chain

LEMMA CreatesTypes ==
    ASSUME Inv, NEW c \in Callers, NEW r \in Pending, r = call[c], CallOK(r),
           call[c] # None, NEW q \in Ids, q = r.request.id, NEW e, e = Planned(c), Creates(c, q, e)
    PROVE  Types' /\ Counted'
<1>1. /\ e \in Entry /\ e # None /\ e.parent \in Ids \cup {None}
      /\ e.log \in SUBSET Message
  <2>1. e \in Entry /\ e # None
    BY PlanFits DEF Fits
  <2> QED
    BY <2>1 DEF Entry
<1>2. Types /\ Counted
  BY DEF Inv
<1>3. PICK old \in SUBSET Message :
         old = IF e.parent = None THEN {} ELSE UpTo(held[e.parent], e.at)
  BY <1>1, <1>2, UpToMeans DEF Types
<1>4. r.view \in SUBSET Message
  BY DEF Pending
<1>5. PICK promise \in (SUBSET Message) \cup {None} :
         promise = IF r.request.source = None THEN None
                   ELSE IF birth[r.request.source] \notin {r.of, 0} THEN None
                   ELSE r.view
  BY <1>4
<1>6. /\ table' = [table EXCEPT ![q] = e] /\ children' = AddEdge(e.parent, q)
      /\ held' = [held EXCEPT ![q] = e.log \cup old] /\ births' = births + 1
      /\ birth' = [birth EXCEPT ![q] = births + 1]
      /\ promised' = [promised EXCEPT ![q] = promise]
      /\ call' = [call EXCEPT ![c] = None] /\ chain' = chain
  BY <1>3, <1>5 DEF Creates, Return
<1>7. table' \in Table
  BY <1>1, <1>2, <1>6 DEF Types, Table
<1>8. children' \in [Ids -> SUBSET Ids]
  BY <1>1, <1>2, <1>6 DEF Types, AddEdge
<1>9. held' \in [Ids -> SUBSET Message]
  BY <1>1, <1>2, <1>6 DEF Types
<1>10. births' \in Nat /\ birth' \in [Ids -> Nat]
  BY <1>2, <1>6 DEF Types
<1>11. promised' \in [Ids -> (SUBSET Message) \cup {None}]
  BY <1>2, <1>6 DEF Types
<1>12. call' \in [Callers -> Pending \cup {None}] /\ chain' \in BOOLEAN
  BY <1>2, <1>6 DEF Types
<1>13. Counted'
  <2>1. \A d \in Callers : call'[d] = IF d = c THEN None ELSE call[d]
    BY <1>2, <1>6 DEF Types
  <2>2. ASSUME NEW d \in Busy' PROVE d \in Busy \ {c}
    <3>1. d \in Callers /\ call'[d] # None
      BY <2>2 DEF Busy
    <3> QED
      BY <2>1, <3>1 DEF Busy
  <2>3. Busy' \subseteq Busy \ {c} /\ c \in Busy
    BY <1>2, <2>2 DEF Busy
  <2>4. IsFiniteSet(Busy) /\ Cardinality(Busy) \in Nat
    BY <1>2, FS_CardinalityType DEF Counted
  <2>5. IsFiniteSet(Busy \ {c}) /\ Cardinality(Busy \ {c}) = Cardinality(Busy) - 1
    BY <2>3, <2>4, FS_RemoveElement, Zenon
  <2>6. IsFiniteSet(Busy') /\ Cardinality(Busy') <= Cardinality(Busy \ {c})
        /\ Cardinality(Busy') \in Nat
    BY <2>3, <2>5, FS_Subset, FS_CardinalityType
  <2>7. births \in Nat /\ MaxBirths \in Nat /\ births + Cardinality(Busy) <= MaxBirths
    BY <1>2, ForksAssumption DEF Types, Counted
  <2> QED
    BY <1>6, <2>4, <2>5, <2>6, <2>7 DEF Counted
<1> QED
  BY <1>7, <1>8, <1>9, <1>10, <1>11, <1>12, <1>13 DEF Types

LEMMA CreatesKeeps ==
    ASSUME Inv, NEW c \in Callers, NEW r \in Pending, r = call[c], CallOK(r),
           call[c] # None, NEW q \in Ids, q = r.request.id, NEW e, e = Planned(c),
           Creates(c, q, e)
    PROVE  Inv'
<1>1. Types /\ Forest /\ (\A x \in Ids : AbsentOK(x) /\ StreamOK(x)) /\ EdgesOK
  BY DEF Inv, Forest
<1>2. PICK p \in Ids \cup {None} : p = e.parent /\ p = IF chain THEN r.request.source ELSE None
  <2>1. e.parent = IF chain THEN r.request.source ELSE None
    BY PlanFits DEF Fits
  <2> QED
    BY <2>1 DEF Pending, Request
<1>3. e.at \in Nat /\ e.at = r.at
  <2>1. Fits(e, r)
    BY PlanFits
  <2> QED
    BY ONLY <2>1 DEF Fits
<1>4. /\ table[q] = None /\ ~SourceGone(table, p, e.at)
      /\ table' = [table EXCEPT ![q] = e] /\ children' = AddEdge(p, q)
      /\ births' = births + 1 /\ birth' = [birth EXCEPT ![q] = births + 1]
      /\ call' = [call EXCEPT ![c] = None] /\ chain' = chain
  BY <1>2 DEF Creates, Return
<1>5. children[q] = {} /\ held[q] = {} /\ birth[q] = 0
  BY <1>1, <1>4 DEF Forest, AbsentOK
<1>6. p # None => /\ chain /\ p # q /\ table[p] # None /\ p = r.request.source
                  /\ e.at <= table[p].tail
  <2> SUFFICES ASSUME p # None
               PROVE  /\ chain /\ p # q /\ table[p] # None /\ p = r.request.source
                      /\ e.at <= table[p].tail
    OBVIOUS
  <2>1. p \in Live(table) /\ ~(table[p].tail < e.at)
    BY <1>4 DEF SourceGone
  <2>2. p \in Ids /\ table[p] # None
    BY <2>1 DEF Live, Present
  <2>3. table[p].tail \in Nat
    BY <1>1, <2>2, EntryMeans
  <2>4. e.at <= table[p].tail
    BY <1>3, <2>1, <2>3
  <2> QED
    BY <1>1, <1>2, <1>4, <2>2, <2>4 DEF Types
<1>7. PICK old : old = IF p = None THEN {} ELSE UpTo(held[p], e.at)
  OBVIOUS
<1>8. held' = [held EXCEPT ![q] = e.log \cup old]
  BY <1>2, <1>7 DEF Creates
<1>9. PICK promise :
        /\ promised' = [promised EXCEPT ![q] = promise]
        /\ promise = IF r.request.source = None THEN None
                     ELSE IF birth[r.request.source] \notin {r.of, 0} THEN None
                     ELSE r.view
  BY DEF Creates
<1>10. /\ \A x \in Ids : table'[x] = IF x = q THEN e ELSE table[x]
       /\ \A x \in Ids : birth'[x] = IF x = q THEN births + 1 ELSE birth[x]
       /\ \A x \in Ids : x # q => held'[x] = held[x]
       /\ \A x \in Ids : x # q => promised'[x] = promised[x]
  BY <1>1, <1>4, <1>8, <1>9 DEF Types, Table
<1>11. \A x \in Ids : children'[x] = IF x = p THEN children[x] \cup {q} ELSE children[x]
  BY <1>1, <1>2, <1>4, NoneAssumption DEF Types, AddEdge
<1>12. held'[q] = e.log \cup old
  BY <1>1, <1>8 DEF Types
<1>13. \A d \in Callers : call'[d] = IF d = c THEN None ELSE call[d]
  BY <1>1, <1>4 DEF Types
<1>14. e # None /\ e.softDeleted = FALSE /\ e.at <= e.tail /\ p = e.parent
  BY <1>2, PlanFits DEF Fits
<1>15. \A m \in e.log : m.offset <= e.tail /\ (chain => m.offset > e.at)
  BY PlanFits DEF Fits
<1>16. births \in Nat /\ \A x \in Ids : birth[x] \in Nat
  BY <1>1 DEF Types
<1>17. \A x \in Ids : AbsentOK(x)'
  <2>1. ASSUME NEW x \in Ids, table'[x] = None
        PROVE  children'[x] = {} /\ held'[x] = {} /\ birth'[x] = 0
    <3>1. x # q /\ table[x] = None
      BY <1>10, <1>14, <2>1
    <3>2. x # p
      BY <1>6, <3>1, NoneAssumption
    <3> QED
      BY <1>1, <1>10, <1>11, <3>1, <3>2 DEF AbsentOK
  <2> QED
    BY <2>1 DEF AbsentOK
<1>18. StreamOK(q)'
  <2>1. table'[q] = e /\ birth'[q] = births + 1 /\ births' = births + 1
        /\ held'[q] = e.log \cup old /\ chain' = chain
    BY <1>4, <1>10, <1>12
  <2>2. CASE p = None
    BY <1>7, <1>14, <1>15, <1>16, <2>1, <2>2 DEF StreamOK
  <2>3. CASE p # None
    <3>1. /\ chain /\ p \in Ids /\ p # q /\ table[p] # None /\ e.at <= table[p].tail
      BY <1>6, <2>3
    <3>2. table'[p] = table[p] /\ held'[p] = held[p] /\ birth'[p] = birth[p]
      BY <1>10, <3>1
    <3>3. birth[p] < births + 1 /\ births + 1 > 0
      BY <1>1, <1>16, <3>1 DEF StreamOK
    <3>4. old = UpTo(held[p], e.at)
      BY <1>7, <2>3
    <3>5. /\ table'[q].parent = p /\ table'[q].at = e.at /\ table'[q].tail = e.tail
          /\ table'[q].softDeleted = FALSE /\ table'[q].log = e.log
      BY <1>14, <2>1
    <3>6. birth'[q] > 0 /\ birth'[q] <= births' /\ birth'[p] < birth'[q]
      BY <1>16, <2>1, <3>2, <3>3
    <3>7. \A m \in e.log : m.offset <= e.tail /\ m.offset > e.at
      BY <1>15, <3>1
    <3>8. held'[q] = e.log \cup UpTo(held'[p], e.at) /\ table'[p].tail = table[p].tail
      BY <2>1, <3>2, <3>4
    <3> QED
      BY <1>14, <2>1, <2>3, <3>1, <3>2, <3>5, <3>6, <3>7, <3>8, Zenon DEF StreamOK
  <2> QED
    BY <2>2, <2>3
<1>19. ASSUME NEW x \in Ids, x # q PROVE StreamOK(x)'
  <2>1. table'[x] = table[x] /\ birth'[x] = birth[x] /\ held'[x] = held[x]
        /\ births' = births + 1 /\ chain' = chain
    BY <1>4, <1>10, <1>19
  <2>4. children[x] \subseteq children'[x]
    BY <1>11
  <2>2. CASE table[x] = None
    BY <2>1, <2>2 DEF StreamOK
  <2>3. CASE table[x] # None
    <3>1. PICK y \in Ids \cup {None} : y = table[x].parent
      BY <1>1, <2>3, EntryMeans
    <3>2. StreamOK(x) /\ birth[x] \in Nat /\ births \in Nat
      BY <1>1, <1>16
    <3>3. y # None => /\ y \in Ids /\ table[y] # None
                      /\ table'[y] = table[y] /\ held'[y] = held[y] /\ birth'[y] = birth[y]
      BY <1>4, <1>10, <2>3, <3>1, <3>2 DEF StreamOK
    <3> QED
      BY <2>1, <2>3, <2>4, <3>1, <3>2, <3>3 DEF StreamOK
  <2> QED
    BY <2>2, <2>3
<1>20. EdgesOK'
  <2>1. ASSUME NEW a \in Ids, NEW b \in Ids
        PROVE  b \in children'[a] <=> table'[b] # None /\ table'[b].parent = a
    <3>1. b \in children[a] <=> table[b] # None /\ table[b].parent = a
      BY <1>1 DEF EdgesOK
    <3>2. CASE b = q
      <4>1. q \notin children[a]
        BY <1>4, <3>1, <3>2
      <4>2. q \in children'[a] <=> a = p
        BY <1>11, <4>1
      <4>3. table'[q] # None /\ table'[q].parent = p
        BY <1>10, <1>14
      <4> QED
        BY <3>2, <4>2, <4>3
    <3>3. CASE b # q
      <4>1. b \in children'[a] <=> b \in children[a]
        BY <1>11, <3>3
      <4>2. table'[b] = table[b]
        BY <1>10, <3>3
      <4> QED
        BY <3>1, <4>1, <4>2
    <3> QED
      BY <3>2, <3>3
  <2> QED
    BY <2>1 DEF EdgesOK
<1>21. ASSUME NEW x \in Ids PROVE PromiseOK(x)'
  <2>1. CASE x = q
    <3>1. ASSUME chain, promise # None PROVE promise \subseteq e.log \cup old
      <4>1. /\ p # None /\ p = r.request.source /\ promise = r.view
            /\ birth[p] \in {r.of, 0}
        BY <1>2, <1>9, <3>1
      <4>2. table[p] # None /\ p \in Ids
        BY <1>6, <4>1
      <4>3. birth[p] = r.of
        <5>1. StreamOK(p) /\ birth[p] \in Nat
          BY <1>1, <1>16, <4>2
        <5>2. birth[p] > 0
          BY ONLY <4>2, <5>1 DEF StreamOK
        <5>3. birth[p] # 0
          BY ONLY <5>1, <5>2
        <5> QED
          BY <4>1, <5>3
      <4>4. r.view \subseteq held[p] /\ \A m \in r.view : m.offset <= r.at
        BY <4>1, <4>2, <4>3, NoneAssumption DEF CallOK
      <4> QED
        BY <1>3, <1>7, <4>1, <4>4 DEF UpTo
    <3>2. promised'[q] = promise
      BY <1>1, <1>9 DEF Types
    <3> QED
      BY <1>4, <1>12, <2>1, <3>1, <3>2 DEF PromiseOK
  <2>2. CASE x # q
    BY <1>4, <1>10, <2>2 DEF Inv, PromiseOK
  <2> QED
    BY <2>1, <2>2
<1>22. ASSUME NEW d \in Callers, call'[d] # None PROVE CallOK(call[d])'
  <2>1. d # c /\ call'[d] = call[d]
    BY <1>13, <1>22
  <2>2. PICK s \in Pending : s = call'[d] /\ CallOK(s)
    BY <1>1, <1>22, <2>1 DEF Inv, Types
  <2>3. PICK y \in Ids \cup {None}, of \in Nat : y = s.request.source /\ of = s.of
    BY DEF Pending, Request
  <2>4. of <= births /\ births' = births + 1 /\ of <= births'
    BY <1>4, <1>16, <2>2, <2>3 DEF CallOK
  <2>5. y # None => (birth'[y] = of => s.view \subseteq held'[y])
    <3>1. CASE y = q
      <4>1. birth'[y] # of
        BY <1>10, <1>16, <2>4, <3>1
      <4> QED
        BY <4>1
    <3>2. CASE y # q
      BY <1>10, <2>2, <2>3, <3>2 DEF CallOK
    <3> QED
      BY <3>1, <3>2
  <2>6. CallOK(s)'
    BY <1>4, <2>2, <2>3, <2>4, <2>5 DEF CallOK
  <2> QED
    BY <2>2, <2>6
<1>23. Types' /\ Counted'
  BY CreatesTypes, Zenon
<1> QED
  BY <1>17, <1>18, <1>19, <1>20, <1>21, <1>22, <1>23 DEF Inv, Forest

LEMMA CommitKeeps == ASSUME Inv, NEW c \in Callers, Commit(c) PROVE Inv'
<1>1. PICK r \in Pending : r = call[c] /\ CallOK(r)
  BY DEF Inv, Types, Commit
<1>2. PICK q \in Ids : q = r.request.id
  BY DEF Pending, Request
<1>3. PICK e : e = Planned(c)
  OBVIOUS
<1>4. call[c] # None /\ Return(c) /\ chain' = chain
  BY DEF Commit
<1>5. CASE table[q] # None \/ SourceGone(table, e.parent, e.at)
  <2>1. UNCHANGED storage
    BY <1>1, <1>2, <1>3, <1>5 DEF Commit
  <2> QED
    BY <1>4, <2>1, ReturnStep
<1>6. CASE ~(table[q] # None \/ SourceGone(table, e.parent, e.at))
  <2>1. Creates(c, q, e)
    BY <1>1, <1>2, <1>3, <1>4, <1>6 DEF Commit, Creates
  <2> QED
    BY <1>1, <1>2, <1>3, <1>4, <2>1, CreatesKeeps
<1> QED
  BY <1>5, <1>6

\* Steps that leave the callers alone count none of them anew.
LEMMA StillCounted ==
    ASSUME Counted, UNCHANGED <<births, call>>
    PROVE  Counted'
<1>1. Busy' = Busy
  BY DEF Busy
<1> QED
  BY <1>1 DEF Counted

\* What a stream is given now comes after all it had, so no fork gets to see it.
LEMMA AppendMeans ==
    ASSUME Inv, NEW id \in Ids, Append(id)
    PROVE  \E n \in 1..MaxSize, more \in SUBSET Message :
             /\ more = Written(table[id].tail, n, birth[id])
             /\ table[id] # None /\ ~table[id].softDeleted
             /\ \A m \in more : m.offset > table[id].tail /\ m.offset <= table[id].tail + n
             /\ table' = [table EXCEPT ![id].tail = @ + n, ![id].log = @ \cup more]
             /\ held' = [held EXCEPT ![id] = @ \cup more]
             /\ UNCHANGED <<chain, children, birth, births, promised, call>>
<1>1. PICK n \in 1..MaxSize :
        LET more == Written(table[id].tail, n, birth[id])
        IN  /\ table' = [table EXCEPT ![id].tail = @ + n, ![id].log = @ \cup more]
            /\ held' = [held EXCEPT ![id] = @ \cup more]
  BY DEF Append
<1>2. table[id] # None /\ ~table[id].softDeleted
  BY DEF Append, Live, Present
<1>3. n \in Nat /\ table[id].tail \in Nat /\ birth[id] \in Nat
  BY <1>2, EntryMeans, ForksAssumption DEF Inv, Types
<1>4. PICK more \in SUBSET Message :
        /\ more = Written(table[id].tail, n, birth[id])
        /\ \A m \in more : m.offset > table[id].tail /\ m.offset <= table[id].tail + n
  BY <1>3, WrittenMeans
<1>5. UNCHANGED <<chain, children, birth, births, promised, call>>
  BY DEF Append
<1> QED
  BY <1>1, <1>2, <1>4, <1>5

LEMMA AppendKeeps == ASSUME Inv, NEW id \in Ids, Append(id) PROVE Inv'
<1>1. Types /\ Forest /\ Counted /\ (\A x \in Ids : AbsentOK(x) /\ StreamOK(x)) /\ EdgesOK
  BY DEF Inv, Forest
<1>2. PICK n \in 1..MaxSize, more \in SUBSET Message :
        /\ table[id] # None /\ ~table[id].softDeleted
        /\ \A m \in more : m.offset > table[id].tail /\ m.offset <= table[id].tail + n
        /\ table' = [table EXCEPT ![id].tail = @ + n, ![id].log = @ \cup more]
        /\ held' = [held EXCEPT ![id] = @ \cup more]
        /\ UNCHANGED <<chain, children, birth, births, promised, call>>
  BY AppendMeans
<1>3. PICK e \in Entry : e = table[id]
  BY <1>1, <1>2, EntryMeans
<1>4. PICK at \in Nat, tail \in Nat : at = e.at /\ tail = e.tail
  BY DEF Entry
<1>5. n \in Nat /\ n > 0 /\ tail + n \in Nat
  BY ForksAssumption
<1>6. PICK f : f = [e EXCEPT !.tail = tail + n, !.log = @ \cup more]
  OBVIOUS
<1>7. /\ f \in Entry /\ f.parent = e.parent /\ f.at = at /\ f.tail = tail + n
      /\ f.softDeleted = e.softDeleted /\ f.log = e.log \cup more
  BY <1>4, <1>5, <1>6 DEF Entry
<1>8. table' = [table EXCEPT ![id] = f]
  <2>1. table' = [table EXCEPT ![id].tail = @ + n, ![id].log = @ \cup more]
    BY <1>2
  <2>2. table[id] = e /\ table \in Table /\ e.tail = tail
    BY <1>1, <1>3, <1>4 DEF Types
  <2> QED
    BY <1>6, <2>1, <2>2 DEF Table
<1>9. /\ \A x \in Ids : table'[x] = IF x = id THEN f ELSE table[x]
      /\ \A x \in Ids : held'[x] = IF x = id THEN held[x] \cup more ELSE held[x]
  BY <1>1, <1>2, <1>8 DEF Types, Table
<1>10. /\ chain' = chain /\ children' = children /\ birth' = birth /\ births' = births
       /\ promised' = promised /\ call' = call
  BY <1>2
<1>11. Types'
  <2>1. table' \in Table
    BY <1>1, <1>7, <1>8 DEF Types, Table
  <2>2. held' \in [Ids -> SUBSET Message]
    BY <1>1, <1>2 DEF Types
  <2> QED
    BY <1>1, <1>10, <2>1, <2>2 DEF Types
<1>12. Counted'
  BY <1>1, <1>10, StillCounted
<1>13. f # None /\ e # None
  BY <1>7, EntryAssumption
<1>14. ASSUME NEW x \in Ids PROVE AbsentOK(x)'
  BY <1>1, <1>9, <1>10, <1>13 DEF AbsentOK
<1>15. \A m \in more : m.offset \in Nat /\ m.offset > tail /\ m.offset <= tail + n
  BY <1>2, <1>3, <1>4 DEF Message
<1>16. StreamOK(id)'
  <2>1. PICK p \in Ids \cup {None} : p = e.parent
    BY DEF Entry
  <2>2. /\ birth[id] > 0 /\ birth[id] <= births /\ at <= tail
        /\ \A m \in e.log : m.offset <= tail
        /\ p = None => held[id] = e.log
        /\ p # None => /\ chain /\ table[p] # None /\ at <= table[p].tail /\ birth[p] < birth[id]
                       /\ \A m \in e.log : m.offset > at
                       /\ held[id] = e.log \cup UpTo(held[p], at)
        /\ e.softDeleted => children[id] # {}
    BY <1>1, <1>3, <1>4, <1>13, <2>1 DEF StreamOK
  <2>3. \A m \in e.log : m.offset \in Nat
    BY DEF Entry, Message
  <2>4. \A m \in e.log \cup more : m.offset <= tail + n
    BY <1>5, <1>15, <2>2, <2>3
  <2>5. held'[id] = held[id] \cup more /\ table'[id] = f
    BY <1>9
  <2>6. CASE p = None
    BY <1>4, <1>5, <1>7, <1>10, <1>13, <2>1, <2>2, <2>4, <2>5, <2>6 DEF StreamOK
  <2>7. CASE p # None
    <3>1. p # id /\ p \in Ids
      BY <1>1, <2>2, <2>7 DEF Types
    <3>2. table'[p] = table[p] /\ held'[p] = held[p]
      BY <1>9, <3>1
    <3>3. \A m \in e.log \cup more : m.offset > at
      BY <1>4, <1>15, <2>2, <2>3, <2>7
    <3>4. held'[id] = (e.log \cup more) \cup UpTo(held'[p], at)
      BY <2>2, <2>5, <2>7, <3>2
    <3>5. at <= tail + n
      BY <1>4, <1>5, <2>2
    <3> QED
      BY <1>7, <1>10, <2>1, <2>2, <2>4, <2>5, <2>7, <3>1, <3>2, <3>3, <3>4, <3>5, Zenon DEF StreamOK
  <2> QED
    BY <2>6, <2>7
<1>17. ASSUME NEW x \in Ids, x # id PROVE StreamOK(x)'
  <2>1. table'[x] = table[x] /\ held'[x] = held[x] /\ StreamOK(x)
    BY <1>1, <1>9, <1>17
  <2>2. CASE table[x] = None
    BY <2>1, <2>2 DEF StreamOK
  <2>3. CASE table[x] # None
    <3>1. PICK y \in Ids \cup {None}, a \in Nat : y = table[x].parent /\ a = table[x].at
      BY <1>1, <2>3, EntryMeans
    <3>2. CASE y = id
      <4>1. /\ y # None /\ a <= tail /\ table'[id] = f
            /\ held'[id] = held[id] \cup more
        BY <1>3, <1>4, <1>9, <2>1, <2>3, <3>1, <3>2, NoneAssumption DEF StreamOK
      <4>2. UpTo(held'[id], a) = UpTo(held[id], a)
        BY <1>4, <1>15, <3>1, <4>1 DEF UpTo
      <4>3. a <= f.tail
        BY <1>4, <1>5, <1>7, <3>1, <4>1
      <4> QED
        BY <1>10, <1>13, <2>1, <2>3, <3>1, <3>2, <4>1, <4>2, <4>3, Zenon DEF StreamOK
    <3>3. CASE y # id
      <4>1. y # None => table'[y] = table[y] /\ held'[y] = held[y]
        BY <1>9, <3>1, <3>3
      <4> QED
        BY <1>10, <2>1, <2>3, <3>1, <4>1 DEF StreamOK
    <3> QED
      BY <3>2, <3>3
  <2> QED
    BY <2>2, <2>3
<1>18. EdgesOK'
  <2>1. \A x \in Ids : (table'[x] # None <=> table[x] # None)
                        /\ (table[x] # None => table'[x].parent = table[x].parent)
    BY <1>3, <1>7, <1>9, <1>13
  <2> QED
    BY <1>1, <1>10, <2>1 DEF EdgesOK
<1>19. \A x \in Ids : held[x] \subseteq held'[x]
  BY <1>9
<1>20. ASSUME NEW x \in Ids PROVE PromiseOK(x)'
  BY <1>10, <1>19 DEF Inv, PromiseOK
<1>21. ASSUME NEW c \in Callers, call'[c] # None PROVE CallOK(call[c])'
  <2>1. PICK r \in Pending : r = call'[c] /\ CallOK(r)
    BY <1>10, <1>21 DEF Inv, Types
  <2>2. r.request.source # None => r.request.source \in Ids
    BY DEF Pending, Request
  <2>3. CallOK(r)'
    BY <1>10, <1>19, <2>1, <2>2 DEF CallOK
  <2> QED
    BY <2>1, <2>3
<1> QED
  BY <1>11, <1>12, <1>14, <1>16, <1>17, <1>18, <1>20, <1>21 DEF Inv, Forest

\* Deleting a stream that forks read only marks it.
SoftDeletes(id) ==
  /\ table[id] # None /\ ~table[id].softDeleted /\ children[id] # {}
  /\ table' = [table EXCEPT ![id].softDeleted = TRUE]
  /\ UNCHANGED <<chain, children, held, birth, births, promised, call>>

\* Deleting any other takes along what nothing reads any more.
Purges(id) ==
  /\ table[id] # None /\ ~table[id].softDeleted /\ children[id] = {}
  /\ table' = Without(table, Walk(id))
  /\ children' = [x \in Ids |-> IF x \in Walk(id) THEN {} ELSE children[x] \ Walk(id)]
  /\ held' = Forget(held, Walk(id), {})
  /\ birth' = Forget(birth, Walk(id), 0)
  /\ promised' = Forget(promised, Walk(id), None)
  /\ UNCHANGED <<chain, births, call>>

\* Without chains nothing has forks.
LEMMA DeleteMeans ==
    ASSUME Inv, NEW id \in Ids, Delete(id)
    PROVE  SoftDeletes(id) \/ Purges(id)
<1>1. Types /\ Forest
  BY DEF Inv
<1>2. table[id] # None /\ ~table[id].softDeleted
  BY DEF Delete, Live, Present
<1>3. CASE chain /\ children[id] # {}
  BY <1>2, <1>3 DEF Delete, SoftDeletes
<1>4. CASE ~(chain /\ children[id] # {})
  <2>1. children[id] = {}
    <3>1. ASSUME NEW x \in children[id] PROVE chain
      <4>1. x \in Ids /\ table[x] # None /\ table[x].parent = id
        BY <1>1 DEF Forest, EdgesOK, Types
      <4> QED
        BY <1>1, <4>1, NoneAssumption DEF Forest, StreamOK
    <3> QED
      BY <1>4, <3>1
  <2>2. Purged(id) = Walk(id)
    BY <1>1, PurgedIsWalk
  <2> QED
    BY <1>2, <1>4, <2>1, <2>2 DEF Delete, Purges
<1> QED
  BY <1>3, <1>4

LEMMA SoftDeleteKeeps == ASSUME Inv, NEW id \in Ids, SoftDeletes(id) PROVE Inv'
<1>1. Types /\ Forest /\ Counted /\ (\A x \in Ids : AbsentOK(x) /\ StreamOK(x)) /\ EdgesOK
  BY DEF Inv, Forest
<1>2. table[id] # None /\ children[id] # {} /\ table' = [table EXCEPT ![id].softDeleted = TRUE]
  BY DEF SoftDeletes
<1>3. /\ chain' = chain /\ children' = children /\ held' = held /\ birth' = birth
      /\ births' = births /\ promised' = promised /\ call' = call
  BY DEF SoftDeletes
<1>4. PICK e \in Entry : e = table[id]
  BY <1>1, <1>2, EntryMeans
<1>5. PICK f : f = [e EXCEPT !.softDeleted = TRUE]
  OBVIOUS
<1>6. /\ f \in Entry /\ f.parent = e.parent /\ f.at = e.at /\ f.tail = e.tail
      /\ f.log = e.log /\ f # None
  BY <1>5, EntryAssumption DEF Entry
<1>7. table' = [table EXCEPT ![id] = f]
  <2>1. table[id] = e /\ table \in Table
    BY <1>1, <1>4 DEF Types
  <2> QED
    BY <1>2, <1>5, <2>1 DEF Table
<1>8. \A x \in Ids : table'[x] = IF x = id THEN f ELSE table[x]
  BY <1>1, <1>7 DEF Types, Table
<1>9. \A x \in Ids :
        /\ table'[x] # None <=> table[x] # None
        /\ table'[x].parent = table[x].parent /\ table'[x].at = table[x].at
        /\ table'[x].tail = table[x].tail /\ table'[x].log = table[x].log
        /\ table'[x].softDeleted => x = id \/ table[x].softDeleted
  BY <1>2, <1>4, <1>6, <1>8
<1>10. Types'
  BY <1>1, <1>3, <1>6, <1>7 DEF Types, Table
<1>11. Counted'
  BY <1>1, <1>3, StillCounted
<1>12. ASSUME NEW x \in Ids PROVE AbsentOK(x)'
  BY <1>1, <1>3, <1>9 DEF AbsentOK
<1>13. ASSUME NEW x \in Ids PROVE StreamOK(x)'
  <2>1. CASE table[x] = None
    BY <1>9, <2>1 DEF StreamOK
  <2>2. CASE table[x] # None
    <3>1. PICK y \in Ids \cup {None} : y = table[x].parent
      BY <1>1, <2>2, EntryMeans
    <3>2. StreamOK(x)
      BY <1>1
    <3>3. y # None => /\ table'[y] # None <=> table[y] # None
                      /\ table'[y].tail = table[y].tail
      BY <1>9, <3>1
    <3>4. table'[x].softDeleted => children[x] # {}
      BY <1>2, <1>9, <2>2, <3>2 DEF StreamOK
    <3>5. /\ table'[x].parent = y /\ table'[x].at = table[x].at
          /\ table'[x].tail = table[x].tail /\ table'[x].log = table[x].log
      BY <1>9, <3>1
    <3> QED
      BY <1>3, <2>2, <3>1, <3>2, <3>3, <3>4, <3>5, Zenon DEF StreamOK
  <2> QED
    BY <2>1, <2>2
<1>14. EdgesOK'
  BY <1>1, <1>3, <1>9 DEF EdgesOK
<1>15. ASSUME NEW x \in Ids PROVE PromiseOK(x)'
  BY <1>3 DEF Inv, PromiseOK
<1>16. ASSUME NEW c \in Callers, call'[c] # None PROVE CallOK(call[c])'
  BY <1>3, <1>16 DEF Inv, CallOK
<1> QED
  BY <1>10, <1>11, <1>12, <1>13, <1>14, <1>15, <1>16 DEF Inv, Forest

\* A purge leaves every fork its source, and every soft-deleted stream a fork.
LEMMA PurgeKeeps == ASSUME Inv, NEW id \in Ids, Purges(id) PROVE Inv'
<1>1. Types /\ Forest /\ Counted /\ (\A x \in Ids : AbsentOK(x) /\ StreamOK(x)) /\ EdgesOK
  BY DEF Inv, Forest
<1>2. PICK gone \in SUBSET Ids : gone = Walk(id)
  BY WalkMeans
<1>3. Reclaims(table, children, id, gone) /\ children[id] = {}
  BY <1>1, <1>2, WalkReclaims DEF Purges
<1>4. /\ table' = [x \in Ids |-> IF x \in gone THEN None ELSE table[x]]
      /\ children' = [x \in Ids |-> IF x \in gone THEN {} ELSE children[x] \ gone]
      /\ held' = [x \in Ids |-> IF x \in gone THEN {} ELSE held[x]]
      /\ birth' = [x \in Ids |-> IF x \in gone THEN 0 ELSE birth[x]]
      /\ promised' = [x \in Ids |-> IF x \in gone THEN None ELSE promised[x]]
  BY <1>2 DEF Purges, Without, Forget
<1>5. chain' = chain /\ births' = births /\ call' = call
  BY DEF Purges
<1>6. Types'
  <2>1. table' \in Table
    BY <1>1, <1>4 DEF Types, Table
  <2>2. children' \in [Ids -> SUBSET Ids] /\ held' \in [Ids -> SUBSET Message]
    BY <1>1, <1>4 DEF Types
  <2>3. birth' \in [Ids -> Nat] /\ promised' \in [Ids -> (SUBSET Message) \cup {None}]
    BY <1>1, <1>4 DEF Types
  <2> QED
    BY <1>1, <1>5, <2>1, <2>2, <2>3 DEF Types
<1>7. Counted'
  BY <1>1, <1>5, StillCounted
<1>8. ASSUME NEW x \in Ids PROVE AbsentOK(x)'
  BY <1>1, <1>4 DEF AbsentOK
<1>9. ASSUME NEW x \in Ids, x \notin gone, table[x] # None PROVE table[x].parent \notin gone
  <2> SUFFICES ASSUME NEW y \in gone, y = table[x].parent PROVE FALSE
    OBVIOUS
  <2>1. y \in Ids /\ x \in children[y]
    BY <1>1, <1>9 DEF EdgesOK
  <2>2. Freed(table, children, gone, y)
    BY <1>3, <2>1 DEF Reclaims
  <2> QED
    BY <1>9, <2>1, <2>2 DEF Freed
<1>10. ASSUME NEW x \in Ids PROVE StreamOK(x)'
  <2>1. CASE x \in gone \/ table[x] = None
    BY <1>4, <2>1 DEF StreamOK
  <2>2. CASE x \notin gone /\ table[x] # None
    <3>1. PICK y \in Ids \cup {None} : y = table[x].parent
      BY <1>1, <2>2, EntryMeans
    <3>2. StreamOK(x) /\ table'[x] = table[x] /\ held'[x] = held[x] /\ birth'[x] = birth[x]
      BY <1>1, <1>4, <2>2
    <3>3. y # None => table'[y] = table[y] /\ held'[y] = held[y] /\ birth'[y] = birth[y]
      BY <1>4, <1>9, <2>2, <3>1
    <3>4. table[x].softDeleted => children'[x] # {}
      <4> SUFFICES ASSUME table[x].softDeleted, children[x] \subseteq gone PROVE FALSE
        BY <1>4, <2>2
      <4>1. children[x] # {} /\ x \in Present(table)
        BY <2>2, <3>2 DEF StreamOK, Present
      <4> QED
        BY <1>3, <2>2, <4>1 DEF Reclaims, Freed
    <3> QED
      BY <1>5, <2>2, <3>1, <3>2, <3>3, <3>4, Zenon DEF StreamOK
  <2> QED
    BY <2>1, <2>2
<1>11. EdgesOK'
  <2>1. ASSUME NEW a \in Ids, NEW b \in Ids
        PROVE  b \in children'[a] <=> table'[b] # None /\ table'[b].parent = a
    <3>1. b \in children[a] <=> table[b] # None /\ table[b].parent = a
      BY <1>1 DEF EdgesOK
    <3>2. CASE b \in gone
      BY <1>4, <3>2
    <3>3. CASE b \notin gone
      <4>1. table'[b] = table[b]
        BY <1>4, <3>3
      <4>2. b \in children'[a] <=> a \notin gone /\ b \in children[a]
        BY <1>4, <3>3
      <4> QED
        BY <1>9, <3>1, <3>3, <4>1, <4>2
    <3> QED
      BY <3>2, <3>3
  <2> QED
    BY <2>1 DEF EdgesOK
<1>12. ASSUME NEW x \in Ids PROVE PromiseOK(x)'
  BY <1>4, <1>5 DEF Inv, PromiseOK
<1>13. ASSUME NEW c \in Callers, call'[c] # None PROVE CallOK(call[c])'
  <2>1. PICK r \in Pending : r = call'[c] /\ CallOK(r)
    BY <1>5, <1>13 DEF Inv, Types
  <2>2. r.request.source # None => r.request.source \in Ids
    BY DEF Pending, Request
  <2>3. r.request.source # None =>
          (birth'[r.request.source] = r.of => r.view \subseteq held'[r.request.source])
    BY <1>4, <2>1, <2>2 DEF CallOK
  <2>4. CallOK(r)'
    BY <1>5, <2>1, <2>3 DEF CallOK
  <2> QED
    BY <2>1, <2>4
<1> QED
  BY <1>6, <1>7, <1>8, <1>10, <1>11, <1>12, <1>13 DEF Inv, Forest

-----------------------------------------------------------------------------
(***************************************************************************)
(* The invariant, and what follows.                                        *)
(***************************************************************************)
LEMMA InitEstablishes == Init => Inv
<1> SUFFICES ASSUME Init PROVE Inv
  OBVIOUS
<1>1. Types
  BY ForksAssumption DEF Init, Types, Table
<1>2. Counted
  <2>1. Busy = {}
    BY DEF Busy, Init
  <2>2. births = 0 /\ MaxBirths \in Nat
    BY ForksAssumption DEF Init
  <2> QED
    BY <2>1, <2>2, FS_EmptySet DEF Counted
<1>3. Forest
  BY DEF Init, Forest, AbsentOK, StreamOK, EdgesOK
<1>4. (\A id \in Ids : PromiseOK(id)) /\ \A c \in Callers : call[c] = None
  BY DEF Init, PromiseOK
<1> QED
  BY <1>1, <1>2, <1>3, <1>4 DEF Inv

LEMMA StutterKeeps == ASSUME Inv, UNCHANGED vars PROVE Inv'
<1>1. UNCHANGED <<chain, storage, call>>
  BY DEF vars, storage
<1>2. /\ chain' = chain /\ table' = table /\ children' = children /\ held' = held
      /\ birth' = birth /\ births' = births /\ promised' = promised /\ call' = call
  BY DEF vars
<1>3. Types' /\ Forest' /\ Counted'
  BY <1>2 DEF Inv, Types, Forest, AbsentOK, StreamOK, EdgesOK, Counted, Busy
<1>4. (\A id \in Ids : PromiseOK(id)') /\ \A c \in Callers : call'[c] # None => CallOK(call[c])'
  BY <1>2 DEF Inv, PromiseOK, CallOK
<1> QED
  BY <1>3, <1>4 DEF Inv

LEMMA NextKeeps == Inv /\ [Next]_vars => Inv'
<1> SUFFICES ASSUME Inv, [Next]_vars PROVE Inv'
  OBVIOUS
<1>1. ASSUME NEW c \in Callers, Call(c) PROVE Inv'
  BY <1>1, CallKeeps
<1>2. ASSUME NEW c \in Callers, ReadTarget(c) PROVE Inv'
  BY <1>2, ReadTargetKeeps
<1>3. ASSUME NEW c \in Callers, ReadSource(c) PROVE Inv'
  BY <1>3, ReadSourceKeeps
<1>4. ASSUME NEW c \in Callers, ReadTail(c) PROVE Inv'
  BY <1>4, ReadTailKeeps
<1>5. ASSUME NEW c \in Callers, ReadPrefix(c) PROVE Inv'
  BY <1>5, ReadPrefixKeeps
<1>6. ASSUME NEW c \in Callers, Commit(c) PROVE Inv'
  BY <1>6, CommitKeeps
<1>7. ASSUME NEW id \in Ids, Append(id) PROVE Inv'
  BY <1>7, AppendKeeps
<1>8. ASSUME NEW id \in Ids, Delete(id) PROVE Inv'
  BY <1>8, DeleteMeans, SoftDeleteKeeps, PurgeKeeps
<1>9. CASE UNCHANGED vars
  BY <1>9, StutterKeeps
<1> QED
  BY <1>1, <1>2, <1>3, <1>4, <1>5, <1>6, <1>7, <1>8, <1>9 DEF Next

LEMMA InvAlways == Spec => []Inv
BY InitEstablishes, NextKeeps, PTL DEF Spec

(***************************************************************************)
(* Every stream always reads as what it was given, and a fork that shares  *)
(* its prefix has all its caller saw, whoever else created, appended,      *)
(* deleted or purged in between (packages/core/src/storage/memory,         *)
(* protocol/create.ts).                                                    *)
(***************************************************************************)
THEOREM ForksStayWhole == Spec => []ForksAreWhole
<1>1. Inv /\ chain \in Chains => ForksAreWhole
  <2> SUFFICES ASSUME Inv, chain \in Chains PROVE ForksAreWhole
    OBVIOUS
  <2>1. Types /\ Forest /\ Counted
    BY DEF Inv
  <2>2. births \in 0..MaxBirths
    <3>1. births \in Nat /\ MaxBirths \in Nat /\ births + Cardinality(Busy) <= MaxBirths
          /\ Cardinality(Busy) \in Nat
      BY <2>1, ForksAssumption, FS_CardinalityType DEF Types, Counted
    <3> QED
      BY <3>1
  <2>3. birth \in [Ids -> 0..births]
    <3>1. \A id \in Ids : birth[id] \in Nat /\ birth[id] <= births
      BY <2>1 DEF Types, Forest, AbsentOK, StreamOK
    <3> QED
      BY <2>1, <3>1 DEF Types
  <2>4. TypeOK
    BY <2>1, <2>2, <2>3 DEF TypeOK, Types
  <2>5. \A id \in Ids : Messages(id) = held[id]
    BY <2>1, ReadsAreHeld DEF Messages
  <2>6. SharedForkIsWhole
    BY <2>5 DEF Inv, PromiseOK, SharedForkIsWhole, ForkIsWhole
  <2> QED
    BY <2>4, <2>5, <2>6 DEF ForksAreWhole, ContentIsStable
<1>2. Init => chain \in Chains
  BY DEF Init
<1>3. chain \in Chains /\ [Next]_vars => (chain \in Chains)'
  BY DEF Next, Call, ReadTarget, ReadSource, ReadTail, ReadPrefix, Commit, Append, Delete, vars
<1> QED
  BY <1>1, <1>2, <1>3, InvAlways, PTL DEF Spec

-----------------------------------------------------------------------------
(***************************************************************************)
(* The refinement.                                                         *)
(***************************************************************************)
LEMMA SameTree ==
  /\ Abstract!Entry = Entry /\ Abstract!Message = Message /\ Abstract!Table = Table
  /\ \A t : Abstract!Present(t) = Present(t) /\ Abstract!Live(t) = Live(t)
  /\ \A S, at : Abstract!UpTo(S, at) = UpTo(S, at) /\ Abstract!After(S, at) = After(S, at)
BY DEF Abstract!Entry, Entry, Abstract!Message, Message, Abstract!Table, Table,
       Abstract!Present, Present, Abstract!Live, Live, Abstract!UpTo, UpTo,
       Abstract!After, After

LEMMA SameChecks ==
  /\ \A t, s, at : Abstract!SourceGone(t, s, at) = SourceGone(t, s, at)
  /\ \A t, ch, gone, x : Abstract!Freed(t, ch, gone, x) = Freed(t, ch, gone, x)
  /\ \A t, gone : Abstract!Without(t, gone) = Without(t, gone)
BY DEF Abstract!SourceGone, SourceGone, Abstract!Live, Live, Abstract!Present, Present,
       Abstract!Freed, Freed, Abstract!Without, Without

LEMMA InitMaps == Init => Abstract!Init
<1> SUFFICES ASSUME Init PROVE Abstract!Sound
  BY DEF Abstract!Init
<1>1. Types
  BY InitEstablishes DEF Inv
<1>2. \A id \in Ids : table[id] = None /\ children[id] = {} /\ held[id] = {}
  BY DEF Init
<1>3. Present(table) = {}
  BY <1>2 DEF Present
<1> QED
  BY <1>1, <1>2, <1>3, SameTree DEF Abstract!Sound, Types

LEMMA CreateMaps ==
    ASSUME Inv, NEW c \in Callers, NEW r \in Pending, r = call[c], CallOK(r),
           call[c] # None, NEW q \in Ids, q = r.request.id, NEW e, e = Planned(c),
           Creates(c, q, e)
    PROVE  Abstract!Create(q)
<1>1. Types
  BY DEF Inv
<1>2. PICK p \in Ids \cup {None} : p = e.parent /\ p = IF chain THEN r.request.source ELSE None
  <2>1. e.parent = IF chain THEN r.request.source ELSE None
    BY PlanFits DEF Fits
  <2> QED
    BY <2>1 DEF Pending, Request
<1>3. /\ e \in Entry /\ e.softDeleted = FALSE /\ e.at <= e.tail
      /\ \A m \in e.log : m.offset <= e.tail /\ (chain => m.offset > e.at)
  BY PlanFits DEF Fits
<1>4. PICK old : old = IF p = None THEN {} ELSE UpTo(held[p], e.at)
  OBVIOUS
<1>5. /\ table[q] = None /\ ~SourceGone(table, p, e.at)
      /\ table' = [table EXCEPT ![q] = e] /\ children' = AddEdge(p, q)
      /\ held' = [held EXCEPT ![q] = e.log \cup old] /\ chain' = chain
  BY <1>2, <1>4 DEF Creates
<1>6. table'[q] = e
  BY <1>1, <1>5 DEF Types, Table
<1>7. table'[q] \in Abstract!Entry /\ table' = [table EXCEPT ![q] = table'[q]]
  <2>1. Abstract!Entry = Entry
    BY SameTree
  <2>2. e \in Abstract!Entry
    BY <1>3, <2>1
  <2> QED
    BY <1>5, <1>6, <2>2
<1>8. Abstract!Given(e) = e.log \cup old
  BY <1>2, <1>4, SameTree DEF Abstract!Given
<1>9. CASE p = None
  <2>1. children' = children
    BY <1>5, <1>9 DEF AddEdge
  <2> QED
    BY <1>2, <1>3, <1>5, <1>6, <1>7, <1>8, <1>9, <2>1 DEF Abstract!Create
<1>10. CASE p # None
  <2>1. chain /\ p = r.request.source /\ p # q
    BY <1>2, <1>10 DEF CallOK
  <2>2. children' = [children EXCEPT ![p] = @ \cup {q}]
    BY <1>5, <1>10 DEF AddEdge
  <2>3. ~Abstract!SourceGone(table, p, e.at)
    BY <1>5, SameChecks
  <2> QED
    BY <1>2, <1>3, <1>5, <1>6, <1>7, <1>8, <1>10, <2>1, <2>2, <2>3 DEF Abstract!Create
<1> QED
  BY <1>9, <1>10

LEMMA AppendMaps == ASSUME Inv, NEW id \in Ids, Append(id) PROVE Abstract!Append(id)
<1>1. Types /\ StreamOK(id)
  BY DEF Inv, Forest
<1>2. PICK n \in 1..MaxSize, more \in SUBSET Message :
        /\ table[id] # None /\ ~table[id].softDeleted
        /\ \A m \in more : m.offset > table[id].tail /\ m.offset <= table[id].tail + n
        /\ table' = [table EXCEPT ![id].tail = @ + n, ![id].log = @ \cup more]
        /\ held' = [held EXCEPT ![id] = @ \cup more]
        /\ UNCHANGED <<chain, children, birth, births, promised, call>>
  BY AppendMeans
<1>3. PICK e \in Entry : e = table[id]
  BY <1>1, <1>2, EntryMeans
<1>4. PICK tail \in Nat : tail = e.tail
  BY DEF Entry
<1>5. n \in Nat /\ tail + n \in Nat /\ tail <= tail + n
  BY ForksAssumption
<1>6. PICK f : f = [e EXCEPT !.tail = tail + n, !.log = @ \cup more]
  OBVIOUS
<1>7. f \in Entry /\ f.tail = tail + n /\ f.log = e.log \cup more
  BY <1>5, <1>6 DEF Entry
<1>8. table[id] = e /\ table \in [Ids -> Entry \cup {None}]
  BY <1>1, <1>3 DEF Types, Table
<1>9. table' = [table EXCEPT ![id] = f]
  BY <1>2, <1>4, <1>6, <1>8
<1>10. table'[id] = f
  BY <1>8, <1>9
<1>11. After(f.log, tail) = more
  <2>1. \A m \in e.log : m.offset \in Nat /\ m.offset <= tail
    BY <1>1, <1>2, <1>3, <1>4 DEF StreamOK, Entry, Message
  <2>2. \A m \in more : m.offset \in Nat /\ m.offset > tail
    BY <1>2, <1>3, <1>4 DEF Message
  <2>3. \A m \in e.log : ~(m.offset > tail)
    BY <1>4, <2>1
  <2> QED
    BY <1>7, <2>2, <2>3 DEF After
<1>12. id \in Live(table)
  BY <1>2 DEF Live, Present
<1>13. table' = [table EXCEPT ![id].tail = tail + n, ![id].log = @ \cup more]
  BY <1>2, <1>4, <1>8
<1>14. \A m \in more : m.offset <= tail + n
  BY <1>2, <1>3, <1>4
<1>15. /\ id \in Abstract!Live(table) /\ table'[id] \in Abstract!Entry
       /\ Abstract!After(table'[id].log, table[id].tail) = more
       /\ table[id].tail = tail /\ table'[id].tail = tail + n
  BY <1>4, <1>7, <1>8, <1>10, <1>11, <1>12, SameTree
<1>16. UNCHANGED <<chain, children>> /\ held' = [held EXCEPT ![id] = @ \cup more]
  BY <1>2
<1> QED
  BY <1>5, <1>13, <1>14, <1>15, <1>16, Zenon DEF Abstract!Append

LEMMA SoftDeleteMaps ==
    ASSUME NEW id \in Ids, SoftDeletes(id)
    PROVE  Abstract!SoftDelete(id)
<1>1. id \in Abstract!Live(table)
  BY DEF SoftDeletes, Abstract!Live, Abstract!Present
<1> QED
  BY <1>1 DEF SoftDeletes, Abstract!SoftDelete

LEMMA PurgeMaps ==
    ASSUME Inv, NEW id \in Ids, Purges(id)
    PROVE  \E gone \in SUBSET Ids : Abstract!Purge(id, gone)
<1>1. PICK gone \in SUBSET Ids : gone = Walk(id)
  BY WalkMeans
<1>2. Reclaims(table, children, id, gone) /\ children[id] = {}
  BY <1>1, WalkReclaims DEF Purges, Inv
<1>3. Abstract!Reclaims(table, children, id, gone)
  BY <1>2, SameChecks DEF Reclaims, Abstract!Reclaims
<1>4. id \in Abstract!Live(table)
  BY DEF Purges, Abstract!Live, Abstract!Present
<1>5. /\ table' = Abstract!Without(table, gone)
      /\ children' = [x \in Ids |-> IF x \in gone THEN {} ELSE children[x] \ gone]
      /\ held' = [x \in Ids |-> IF x \in gone THEN {} ELSE held[x]]
      /\ chain' = chain
  BY <1>1, SameChecks DEF Purges, Forget
<1>6. Abstract!Purge(id, gone)
  BY <1>2, <1>3, <1>4, <1>5 DEF Abstract!Purge
<1> QED
  BY <1>6

LEMMA CommitMaps ==
    ASSUME Inv, NEW c \in Callers, Commit(c)
    PROVE  (\E id \in Ids : Abstract!Create(id)) \/ UNCHANGED Abstract!vars
<1>1. PICK r \in Pending : r = call[c] /\ CallOK(r)
  BY DEF Inv, Types, Commit
<1>2. PICK q \in Ids : q = r.request.id
  BY DEF Pending, Request
<1>3. PICK e : e = Planned(c)
  OBVIOUS
<1>4. call[c] # None /\ Return(c) /\ chain' = chain
  BY DEF Commit
<1>5. CASE table[q] # None \/ SourceGone(table, e.parent, e.at)
  <2>1. UNCHANGED storage
    BY <1>1, <1>2, <1>3, <1>5 DEF Commit
  <2> QED
    BY <1>4, <2>1 DEF storage, Abstract!vars
<1>6. CASE ~(table[q] # None \/ SourceGone(table, e.parent, e.at))
  <2>1. Creates(c, q, e)
    BY <1>1, <1>2, <1>3, <1>4, <1>6 DEF Commit, Creates
  <2> QED
    BY <1>1, <1>2, <1>3, <1>4, <2>1, CreateMaps
<1> QED
  BY <1>5, <1>6

LEMMA StepMaps == Inv /\ [Next]_vars => [Abstract!Next]_Abstract!vars
<1> SUFFICES ASSUME Inv, [Next]_vars PROVE Abstract!Next \/ UNCHANGED Abstract!vars
  OBVIOUS
<1>1. ASSUME NEW c \in Callers,
             Call(c) \/ ReadTarget(c) \/ ReadSource(c) \/ ReadTail(c) \/ ReadPrefix(c)
      PROVE  UNCHANGED Abstract!vars
  BY <1>1 DEF Call, ReadTarget, ReadSource, ReadTail, ReadPrefix, storage, Abstract!vars
<1>2. ASSUME NEW c \in Callers, Commit(c) PROVE Abstract!Next \/ UNCHANGED Abstract!vars
  BY <1>2, CommitMaps DEF Abstract!Next
<1>3. ASSUME NEW id \in Ids, Append(id) PROVE Abstract!Next
  BY <1>3, AppendMaps DEF Abstract!Next
<1>4. ASSUME NEW id \in Ids, Delete(id) PROVE Abstract!Next
  BY <1>4, DeleteMeans, SoftDeleteMaps, PurgeMaps DEF Abstract!Next
<1>5. CASE UNCHANGED vars
  BY <1>5 DEF vars, Abstract!vars
<1> QED
  BY <1>1, <1>2, <1>3, <1>4, <1>5 DEF Next

(***************************************************************************)
(* Every step of the storage in memory is a step of Lineage or changes     *)
(* nothing there, whatever the protocol's callers were doing: the walk up  *)
(* the parents (layer.ts purge) takes along exactly the soft-deleted       *)
(* streams that lost their last fork.                                      *)
(***************************************************************************)
THEOREM ForksImplementLineage == Spec => Refinement
BY InitMaps, StepMaps, InvAlways, PTL DEF Spec, Refinement, Abstract!Spec
=============================================================================
