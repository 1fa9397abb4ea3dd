------------------------ MODULE ProjectionPassProofs ------------------------
(***************************************************************************)
(* What the passes of a projection promise, for any inputs, outputs,       *)
(* routes, runners and generations: the outputs receive every unit once,   *)
(* in order and without holes, whoever else writes, stops or replays.      *)
(* In the second part the passes of one generation implement               *)
(* AtomicProjection.                                                       *)
(*                                                                         *)
(* Two writers of one record are allowed; so is an input that is removed.  *)
(* Both at once are not: the record of a projection whose input is gone is *)
(* removed whatever its token, so a second writer could start over on what *)
(* it had read before.                                                     *)
(***************************************************************************)
EXTENDS ProjectionPass, SequenceTheorems, FiniteSetTheorems, WellFoundedInduction, TLAPS

OneWriter == \A r, s \in Runners : generation[r] = generation[s] => r = s
Supported == Removable = {} \/ OneWriter

-----------------------------------------------------------------------------
(***************************************************************************)
(* Units that can still be written, or were.                               *)
(***************************************************************************)
HasPending(g) == record[g] # None /\ record[g].pending # None

\* A pass with a unit that was pinned, by itself or by an earlier pass, goes on to write it
\* without a look at the record.
Holds(f) == f.pc \in {"append", "run"} \/ (f.pc = "read" /\ Pinned(f))
HeldSeqs(f) == IF f.pc = "read" THEN f.loaded.pending.seqs ELSE f.seqs

\* The units of the records, of a pass, and of the outputs, and all that are known.
Pendings == {record[g].pending.unit : g \in {h \in Generations : HasPending(h)}}
OwnUnit(f) == IF Holds(f) THEN {f.unit} ELSE {}
Written == UNION {{outs[o][m] : m \in 1..Len(outs[o])} : o \in Outputs}

Known == Pendings \cup {runner[r].unit : r \in {q \in Runners : Holds(runner[q])}}
         \cup Written \cup runs

\* What is known of an output: a unit, and the sequence number it has or is to have there.
PendingClaims(o) ==
  {<<record[g].pending.unit, record[g].pending.seqs[o]>> :
     g \in {h \in Generations : HasPending(h) /\ record[h].pending.seqs[o] # None}}
OwnClaims(f, o) ==
  IF Holds(f) /\ HeldSeqs(f)[o] # None THEN {<<f.unit, HeldSeqs(f)[o]>>} ELSE {}
LastClaim(o) ==
  IF positions[o] = None THEN {} ELSE {<<outs[o][Len(outs[o])], positions[o].lastSeq>>}

Claims(o) ==
  PendingClaims(o) \cup LastClaim(o)
  \cup {<<runner[r].unit, HeldSeqs(runner[r])[o]>> :
         r \in {q \in Runners : Holds(runner[q]) /\ HeldSeqs(runner[q])[o] # None}}

Past(u) == /\ u.state < settled[u.generation].state
           /\ \A i \in Inputs : u.next[i] <= settled[u.generation].offset[i]
IsPending(u) == HasPending(u.generation) /\ u = record[u.generation].pending.unit

Follows(u, v) == Before(u, v) /\ u.state < v.state
Agree(u, v) == u = v \/ u.generation # v.generation \/ Follows(u, v) \/ Follows(v, u)

\* No item of the range is written to the output.
Silent(o, from, to) ==
  \A i \in Inputs : \A k \in 1..Len(Routes[i]) :
    from[i] < k /\ k <= to[i] => o \notin Routes[i][k]

Pinning == guarantee = "effectively-once"

\* Every known unit is settled, or pending; two of a generation do not overlap.
UnitsOK ==
  \A u \in Known :
    /\ u \in Unit /\ u.generation \in Generations
    /\ \A i \in Inputs : u.from[i] <= u.next[i]
    /\ Past(u) \/ IsPending(u)

Agreed == \A u, v \in Known : Agree(u, v)

\* A claim has the number of units that its generation wrote to the output before.
NumberOK(o, u, n) ==
  LET s == settled[u.generation]
  IN  /\ n \in Nat /\ Emits(u, o)
      /\ n = 0 => Silent(o, NoItems, u.from)
      /\ IsPending(u) => n = s.length[o]
      /\ Past(u) => n < s.length[o]
      /\ Past(u) /\ n + 1 = s.length[o] => Silent(o, u.next, s.offset)
Numbered == Pinning => \A o \in Outputs : \A c \in Claims(o) : NumberOK(o, c[1], c[2])

\* Two claims of a generation are in the order of their numbers; nothing is between
\* neighbours.
OrderOK(o, u, m, v, n) ==
  u.generation = v.generation =>
    /\ m = n => u = v
    /\ m < n => u.state < v.state
    /\ m + 1 = n => Silent(o, u.next, v.from)
Ordered ==
  Pinning => \A o \in Outputs : \A c, d \in Claims(o) : OrderOK(o, c[1], c[2], d[1], d[2])

StartsLate ==
  Pinning => \A o \in Outputs, g \in Generations :
    settled[g].length[o] = 0 => Silent(o, NoItems, settled[g].offset)

Ledger == UnitsOK /\ Agreed /\ Numbered /\ Ordered /\ StartsLate

-----------------------------------------------------------------------------
(***************************************************************************)
(* What an output holds.                                                   *)
(***************************************************************************)
PositionsOK ==
  /\ Pinning => \A o \in Outputs :
       /\ positions[o] = None <=> outs[o] = <<>>
       /\ positions[o] # None => positions[o].epoch = outs[o][Len(outs[o])].generation
  /\ ~Pinning => \A o \in Outputs : positions[o] = None
  /\ guarantee = "at-least-once" => \A o \in Outputs : outs[o] = <<>>
  /\ guarantee # "at-least-once" => runs = {}

Sorted ==
  \A o \in Outputs : \A m, n \in 1..Len(outs[o]) :
    m < n /\ outs[o][m].generation = outs[o][n].generation
      => outs[o][m].state < outs[o][n].state

Outlets == PositionsOK /\ Sorted /\ NoHole /\ OldGenerationIsFenced

-----------------------------------------------------------------------------
(***************************************************************************)
(* The record of a generation, and what is settled of it.                  *)
(***************************************************************************)
NothingSettled(s) ==
  /\ s.offset = NoItems /\ s.state = 0 /\ ~s.ended
  /\ s.length = [o \in Outputs |-> 0]

\* The positions that a unit is pinned with.
Numbers(u, next) ==
  IF Pinning THEN [o \in Outputs |-> IF Emits(u, o) THEN next[o] ELSE None] ELSE NoSeqs

PendingOK(g, p) ==
  LET s == settled[g]  u == p.unit
  IN  /\ guarantee # "exactly-once" /\ ~s.ended
      /\ u.generation = g /\ u.from = s.offset /\ u.state = s.state
      /\ p.seqs = Numbers(u, s.length)
      /\ Pinning => Targets(p.seqs) # {}
      /\ \A i \in Inputs : s.offset[i] <= u.next[i] /\ u.next[i] <= inputs[i].sent
      /\ \A i \in u.gone : ~inputs[i].present

RecordOK(g) ==
  LET c == record[g]  s == settled[g]
  IN  /\ c = None => version[g] = 0 /\ (s.ended \/ NothingSettled(s))
      /\ c # None => /\ version[g] > 0
                     /\ c.offset = s.offset /\ c.state = s.state /\ c.ended = s.ended
      /\ c # None /\ Pinning => c.nextSeq = s.length
      /\ HasPending(g) => PendingOK(g, c.pending)
      /\ \A i \in Inputs : s.offset[i] <= inputs[i].sent
      /\ s.ended => \E i \in Inputs : ~inputs[i].present

RecordsOK == \A g \in Generations : RecordOK(g)

InputsOK ==
  \A i \in Inputs : /\ i \notin Removable => inputs[i].present
                    /\ inputs[i].sent <= Len(Routes[i])

-----------------------------------------------------------------------------
(***************************************************************************)
(* The pass f of runner r.                                                 *)
(***************************************************************************)
Mid == {"read", "prepare", "pin", "append", "run", "transact", "settle"}

Current(r, f) == f.token = version[generation[r]]

\* The record it loaded was removed for an input that is gone, and it has yet to see that.
Reborn(r, f) ==
  /\ f.pc = "read" /\ f.loaded = None
  /\ settled[generation[r]].ended
  /\ \E k \in f.turn..Len(InputOrder) : ~inputs[InputOrder[k]].present

PassOK(r, f) ==
  LET s == settled[generation[r]]  u == f.unit
  IN  f.pc \in Mid =>
        /\ f.token <= version[generation[r]]
        /\ u.generation = generation[r]
        /\ u.from = Base(f).offset /\ u.state = Base(f).state /\ ~Base(f).ended
        /\ \A i \in Inputs : /\ u.from[i] <= s.offset[i] /\ u.from[i] <= u.next[i]
                             /\ u.next[i] <= inputs[i].sent
        /\ \A i \in u.gone : ~inputs[i].present
        /\ Pinned(f) => /\ guarantee # "exactly-once" /\ u = f.loaded.pending.unit
                        /\ f.loaded.pending.seqs = Numbers(u, f.loaded.nextSeq)
                        /\ Pinning => Targets(f.loaded.pending.seqs) # {}

StageOK(f) ==
  /\ f.pc = "read" => f.turn \in 1..Len(InputOrder)
  /\ f.pc \in {"prepare", "pin"} => ~Pinned(f) /\ guarantee # "exactly-once"
  /\ f.pc \in {"prepare", "append"} => Pinning
  /\ f.pc = "run" => guarantee = "at-least-once"
  /\ f.pc = "transact" => guarantee = "exactly-once"
  /\ f.pc = "settle" => guarantee # "exactly-once"
  /\ f.pc \in {"prepare", "pin", "append", "run", "settle"} =>
       f.seqs = Numbers(f.unit, Base(f).nextSeq)
  /\ f.pc \in {"prepare", "append"} => f.left # {} /\ f.left \subseteq Targets(f.seqs)
  /\ f.pc = "pin" /\ Pinning => f.left # {} /\ f.left = Targets(f.seqs)

\* An input it read as closed has nothing more.
ReadOK(f) ==
  f.pc = "read" /\ ~Pinned(f) =>
    \A i \in f.unit.closed :
      \/ /\ inputs[i].closed /\ f.unit.next[i] = inputs[i].sent
         /\ inputs[i].sent <= f.unit.from[i] + PageLimit
      \/ ~inputs[i].present

Pins(f) == f.pc \in {"append", "run"} \/ (f.pc = "settle" /\ (Pinning => Targets(f.seqs) # {}))

\* As long as no other save came, the pass works on what is settled.
CurrentOK(r, f) ==
  LET g == generation[r]  s == settled[g]
  IN  f.pc \in Mid /\ Current(r, f) /\ ~Reborn(r, f) =>
        /\ ~s.ended
        /\ Base(f).offset = s.offset /\ Base(f).state = s.state
        /\ Pinning => Base(f).nextSeq = s.length
        /\ f.pc \in {"read", "prepare", "pin", "transact"} => f.loaded = record[g]
        /\ Pins(f) => /\ HasPending(g)
                      /\ record[g].pending.unit = f.unit /\ record[g].pending.seqs = f.seqs
        /\ f.pc = "settle" /\ ~Pins(f) => ~HasPending(g)

\* What it has written.
SentOK(r, f) ==
  /\ f.pc \in {"append", "settle"} /\ Current(r, f) =>
       \A o \in Targets(f.seqs) \ dropped :
         f.pc = "settle" \/ o \notin f.left => \E m \in 1..Len(outs[o]) : outs[o][m] = f.unit
  /\ f.pc = "settle" /\ guarantee = "at-least-once" => f.unit \in runs

EndOK(r, f) ==
  /\ f.pc = "forget" => settled[generation[r]].ended
  /\ f.pc = "done" =>
       \/ \A i \in Inputs : /\ inputs[i].closed
                            /\ settled[generation[r]].offset[i] = inputs[i].sent
       \/ \E i \in Inputs : ~inputs[i].present

RunnerOK(r, f) ==
  PassOK(r, f) /\ StageOK(f) /\ ReadOK(f) /\ CurrentOK(r, f) /\ SentOK(r, f) /\ EndOK(r, f)

RunnersOK == \A r \in Runners : RunnerOK(r, runner[r])

Inv ==
  /\ TypeOK /\ Supported
  /\ Ledger /\ Outlets /\ RecordsOK /\ InputsOK /\ RunnersOK
  /\ NothingLost /\ EverythingRan

-----------------------------------------------------------------------------
(***************************************************************************)
(* Units and ranges.                                                       *)
(***************************************************************************)
LEMMA EmitsIffNotSilent ==
    ASSUME NEW u \in Unit, NEW o
    PROVE  Emits(u, o) <=> ~Silent(o, u.from, u.next)
BY DEF Emits, Items, Silent, Unit

LEMMA SilentJoins ==
    ASSUME NEW a \in [Inputs -> Nat], NEW b \in [Inputs -> Nat], NEW c \in [Inputs -> Nat],
           NEW o, Silent(o, a, b), Silent(o, b, c)
    PROVE  Silent(o, a, c)
BY DEF Silent

LEMMA NothingIsSilent == ASSUME NEW a \in [Inputs -> Nat], NEW o PROVE Silent(o, a, a)
BY DEF Silent

LEMMA NoItemsType == NoItems \in [Inputs -> Nat]
BY DEF NoItems

LEMMA NumbersType ==
    ASSUME NEW u, NEW next \in [Outputs -> Nat]
    PROVE  /\ Numbers(u, next) \in Seqs
           /\ \A o \in Outputs : Numbers(u, next)[o] # None =>
                 /\ Pinning /\ Emits(u, o)
                 /\ Numbers(u, next)[o] = next[o] /\ next[o] \in Nat
           /\ \A o \in Outputs : Pinning /\ Emits(u, o) => Numbers(u, next)[o] = next[o]
BY NoneAssumption DEF Numbers, Seqs, NoSeqs

-----------------------------------------------------------------------------
(***************************************************************************)
(* Types.                                                                  *)
(***************************************************************************)
LEMMA InitialRecordType == InitialRecord \in CheckpointRecord /\ ~InitialRecord.ended
<1>1. [o \in Outputs |-> 0] \in [Outputs -> Nat]
  OBVIOUS
<1> QED
  BY <1>1, NoItemsType DEF InitialRecord, CheckpointRecord

LEMMA BaseType == ASSUME NEW f \in Runner PROVE Base(f) \in CheckpointRecord
BY InitialRecordType DEF Base, Runner

LEMMA NoUnitType == NoUnit \in Unit
BY NoItemsType DEF NoUnit, Unit

LEMMA IdleType == Idle \in Runner /\ Idle.pc = "idle"
<1>1. NoSeqs \in Seqs
  BY DEF NoSeqs, Seqs
<1>2. "idle" \in Labels
  BY DEF Labels
<1> QED
  BY <1>1, <1>2, NoUnitType DEF Idle, Runner

LEMMA PinnedMeans ==
    ASSUME NEW f \in Runner, Pinned(f)
    PROVE  /\ f.loaded \in CheckpointRecord /\ f.loaded # None /\ Base(f) = f.loaded
           /\ f.loaded.pending \in Pending /\ f.loaded.pending # None
           /\ f.loaded.pending.unit \in Unit /\ f.loaded.pending.seqs \in Seqs
BY DEF Pinned, Base, InitialRecord, Runner, CheckpointRecord, Pending

LEMMA PendingMeans ==
    ASSUME TypeOK, NEW g \in Generations, HasPending(g)
    PROVE  /\ record[g] \in CheckpointRecord /\ record[g].pending \in Pending
           /\ record[g].pending.unit \in Unit /\ record[g].pending.seqs \in Seqs
BY DEF HasPending, TypeOK, CheckpointRecord, Pending

LEMMA FreshMeans ==
    ASSUME NEW g \in Nat, NEW base \in CheckpointRecord
    PROVE  LET u == [NoUnit EXCEPT !.generation = g, !.from = base.offset,
                                   !.next = base.offset, !.state = base.state]
           IN  /\ u \in Unit /\ u.generation = g /\ u.from = base.offset
               /\ u.next = base.offset /\ u.closed = {} /\ u.gone = {} /\ u.state = base.state
<1>1. base.offset \in [Inputs -> Nat] /\ base.state \in Nat
  BY DEF CheckpointRecord
<1>2. NoUnit.closed = {} /\ NoUnit.gone = {}
  BY DEF NoUnit
<1> QED
  BY <1>1, <1>2, NoUnitType DEF Unit

LEMMA LoadedMeans ==
    ASSUME TypeOK, NEW r \in Runners
    PROVE  LET f == Loaded(r)  g == generation[r]
               base == IF record[g] = None THEN InitialRecord ELSE record[g]
           IN  /\ f \in Runner
               /\ f.pc = "idle" /\ f.loaded = record[g] /\ f.token = version[g] /\ f.turn = 1
               /\ f.seqs = NoSeqs /\ f.left = {}
               /\ Base(f) = base
               /\ Pinned(f) <=> HasPending(g)
               /\ Pinned(f) => f.unit = base.pending.unit
               /\ ~Pinned(f) => /\ f.unit.generation = g /\ f.unit.from = base.offset
                                /\ f.unit.next = base.offset /\ f.unit.closed = {}
                                /\ f.unit.gone = {} /\ f.unit.state = base.state
<1> DEFINE g == generation[r]
           base == IF record[g] = None THEN InitialRecord ELSE record[g]
           fresh == [NoUnit EXCEPT !.generation = g, !.from = base.offset,
                                   !.next = base.offset, !.state = base.state]
           unit == IF base.pending = None THEN fresh ELSE base.pending.unit
           f == [Idle EXCEPT !.loaded = record[g], !.token = version[g], !.unit = unit]
<1>1. g \in Generations /\ g \in Nat
  BY ParameterAssumption DEF TypeOK
<1>2. record[g] \in CheckpointRecord \cup {None} /\ version[g] \in Nat
  BY <1>1 DEF TypeOK
<1>3. base \in CheckpointRecord
  BY <1>2, InitialRecordType
<1>4. Loaded(r) = f
  BY DEF Loaded
<1> HIDE DEF base, g
<1>5. /\ fresh \in Unit /\ fresh.generation = g /\ fresh.from = base.offset
      /\ fresh.next = base.offset /\ fresh.closed = {} /\ fresh.gone = {}
      /\ fresh.state = base.state
  BY <1>1, <1>3, FreshMeans
<1> HIDE DEF fresh
<1>6. unit \in Unit
  BY <1>3, <1>5 DEF CheckpointRecord, Pending
<1> HIDE DEF unit
<1>7. Idle.turn = 1 /\ Idle.seqs = NoSeqs /\ Idle.left = {}
  BY DEF Idle
<1>8. /\ f \in Runner
      /\ f.pc = "idle" /\ f.loaded = record[g] /\ f.token = version[g] /\ f.turn = 1
      /\ f.seqs = NoSeqs /\ f.left = {} /\ f.unit = unit
  BY <1>2, <1>6, <1>7, IdleType DEF Runner
<1> HIDE DEF f
<1>9. Base(f) = base
  BY <1>8 DEF Base, base
<1>10. Pinned(f) <=> base.pending # None
  BY <1>9 DEF Pinned
<1>11. base.pending # None <=> HasPending(g)
  BY DEF base, HasPending, InitialRecord
<1> QED
  BY <1>4, <1>5, <1>8, <1>9, <1>10, <1>11 DEF unit, base, g
-----------------------------------------------------------------------------
(***************************************************************************)
(* What every step leaves true of the passes that do not take it.          *)
(***************************************************************************)
CheckpointGrows(g) ==
  /\ version[g] <= version'[g]
  /\ version'[g] = version[g] => record'[g] = record[g] /\ settled'[g] = settled[g]
  /\ settled[g].ended => settled'[g].ended
  /\ \A i \in Inputs : /\ settled[g].offset[i] <= settled'[g].offset[i]
                       /\ settled'[g].offset[i] <= inputs'[i].sent

StreamsGrow ==
  /\ \A i \in Inputs :
       /\ inputs[i].sent <= inputs'[i].sent
       /\ inputs[i].closed => inputs'[i].closed /\ inputs'[i].sent = inputs[i].sent
       /\ ~inputs[i].present => ~inputs'[i].present
  /\ dropped \subseteq dropped' /\ runs \subseteq runs'
  /\ \A o \in Outputs \ dropped' : \A m \in 1..Len(outs[o]) :
       \E n \in 1..Len(outs'[o]) : outs'[o][n] = outs[o][m]

LEMMA OtherRunnersKeep ==
    ASSUME TypeOK, TypeOK', UNCHANGED declared,
           NEW q \in Runners, NEW f \in Runner, RunnerOK(q, f),
           CheckpointGrows(generation[q]), StreamsGrow
    PROVE  RunnerOK(q, f)'
<1>1. PICK g \in Generations : g = generation[q] /\ g = generation'[q]
  BY DEF TypeOK, declared
<1>0. guarantee' = guarantee
  BY DEF declared
<1>2. /\ version[g] \in Nat /\ version'[g] \in Nat /\ f.token \in Nat
      /\ settled[g].offset \in [Inputs -> Nat] /\ settled'[g].offset \in [Inputs -> Nat]
      /\ f.unit.from \in [Inputs -> Nat] /\ f.unit.next \in [Inputs -> Nat]
      /\ \A i \in Inputs : inputs[i].sent \in Nat /\ inputs'[i].sent \in Nat
      /\ f.unit.gone \subseteq Inputs /\ f.unit.closed \subseteq Inputs
  BY <1>1, <1>0 DEF TypeOK, Settled, Runner, Unit, Input
<1>3. PassOK(q, f) /\ CheckpointGrows(g) /\ StreamsGrow
  BY <1>1 DEF RunnerOK
<1>4. f.pc \in Mid /\ Current(q, f)' => Current(q, f) /\ version'[g] = version[g]
  <2> SUFFICES ASSUME f.pc \in Mid, Current(q, f)' PROVE Current(q, f) /\ version'[g] = version[g]
    OBVIOUS
  <2>1. f.token <= version[g] /\ version[g] <= version'[g]
    BY <1>1, <1>3 DEF PassOK, CheckpointGrows
  <2>2. f.token = version'[g]
    BY <1>1, <1>0 DEF Current
  <2>3. f.token \in Nat /\ version[g] \in Nat /\ version'[g] \in Nat
    BY <1>2
  <2> QED
    BY <1>1, <2>1, <2>2, <2>3 DEF Current
<1>5. f.pc \in Mid /\ Current(q, f)' => record'[g] = record[g] /\ settled'[g] = settled[g]
  BY <1>3, <1>4 DEF CheckpointGrows
<1>6. PassOK(q, f)'
  <2> SUFFICES ASSUME f.pc \in Mid PROVE PassOK(q, f)'
    BY DEF PassOK
  <2>1. f.token <= version'[g]
    BY <1>1, <1>2, <1>3 DEF PassOK, CheckpointGrows
  <2>2. \A i \in Inputs : /\ f.unit.from[i] <= settled'[g].offset[i]
                          /\ f.unit.next[i] <= inputs'[i].sent
    <3> TAKE i \in Inputs
    <3>1. f.unit.from[i] <= settled[g].offset[i] /\ f.unit.next[i] <= inputs[i].sent
      BY <1>1, <1>3 DEF PassOK
    <3>2. settled[g].offset[i] <= settled'[g].offset[i] /\ inputs[i].sent <= inputs'[i].sent
      BY <1>1, <1>3 DEF CheckpointGrows, StreamsGrow
    <3>3. /\ f.unit.from[i] \in Nat /\ settled[g].offset[i] \in Nat
          /\ settled'[g].offset[i] \in Nat /\ f.unit.next[i] \in Nat
          /\ inputs[i].sent \in Nat /\ inputs'[i].sent \in Nat
      BY <1>2
    <3> QED
      BY <3>1, <3>2, <3>3
  <2>3. \A i \in f.unit.gone : ~inputs'[i].present
    BY <1>1, <1>2, <1>3 DEF PassOK, StreamsGrow
  <2>4. /\ Numbers(f.unit, f.loaded.nextSeq)' = Numbers(f.unit, f.loaded.nextSeq)
        /\ Pinning' <=> Pinning
    BY <1>1, <1>0 DEF Numbers, Pinning
  <2> QED
    BY <1>1, <1>0, <1>3, <2>1, <2>2, <2>3, <2>4 DEF PassOK
<1>7. StageOK(f)'
  <2>1. Numbers(f.unit, Base(f).nextSeq)' = Numbers(f.unit, Base(f).nextSeq)
    BY <1>1, <1>0 DEF Numbers, Pinning
  <2>2. StageOK(f) /\ (Pinning' <=> Pinning)
    BY <1>1, <1>0 DEF RunnerOK, Pinning
  <2> QED
    BY <1>1, <1>0, <2>1, <2>2 DEF StageOK
<1>8. ReadOK(f)'
  <2>1. ReadOK(f)
    BY DEF RunnerOK
  <2> QED
    BY <1>1, <1>2, <1>3, <2>1 DEF ReadOK, StreamsGrow
<1>9. CurrentOK(q, f)'
  <2>1. CurrentOK(q, f) /\ (Pinning' <=> Pinning) /\ (Pins(f)' <=> Pins(f))
    BY <1>1, <1>0 DEF RunnerOK, Pinning, Pins
  <2> SUFFICES ASSUME f.pc \in Mid, Current(q, f)', ~Reborn(q, f)' PROVE CurrentOK(q, f)'
    BY DEF CurrentOK
  <2>2. Current(q, f) /\ record'[g] = record[g] /\ settled'[g] = settled[g]
    BY <1>4, <1>5
  <2>3. ~Reborn(q, f)
    <3> SUFFICES ASSUME Reborn(q, f) PROVE Reborn(q, f)'
      OBVIOUS
    <3> PICK k \in f.turn..Len(InputOrder) : ~inputs[InputOrder[k]].present
      BY <1>1 DEF Reborn
    <3>1. f.turn \in 1..Len(InputOrder) /\ Len(InputOrder) \in Nat
      <4>1. StageOK(f) /\ f.pc = "read"
        BY DEF RunnerOK, Reborn
      <4> QED
        BY <4>1, OrderAssumption, LenProperties DEF StageOK
    <3>2. k \in 1..Len(InputOrder)
      BY <3>1
    <3>3. InputOrder[k] \in Inputs
      BY <3>2, OrderAssumption
    <3>4. ~inputs'[InputOrder[k]].present
      BY <1>3, <3>3 DEF StreamsGrow
    <3>5. f.pc = "read" /\ f.loaded = None /\ settled[g].ended
      BY <1>1 DEF Reborn
    <3> QED
      BY <1>1, <1>0, <2>2, <3>4, <3>5 DEF Reborn
  <2>4. HasPending(g)' <=> HasPending(g)
    BY <1>1, <2>2 DEF HasPending
  <2> QED
    BY <1>1, <1>0, <2>1, <2>2, <2>3, <2>4 DEF CurrentOK
<1>10. SentOK(q, f)'
  <2>1. SentOK(q, f) /\ f.seqs \in Seqs
    BY DEF RunnerOK, Runner
  <2>2. f.pc = "settle" /\ guarantee' = "at-least-once" => f.unit \in runs'
    BY <1>1, <1>0, <1>3, <2>1 DEF SentOK, StreamsGrow
  <2>3. ASSUME f.pc \in {"append", "settle"}, Current(q, f)',
               NEW o \in Targets(f.seqs) \ dropped', f.pc = "settle" \/ o \notin f.left
        PROVE  \E m \in 1..Len(outs'[o]) : outs'[o][m] = f.unit
    <3>1. o \in Outputs /\ o \in Targets(f.seqs) \ dropped
      BY <1>1, <1>3, <2>3 DEF Targets, StreamsGrow
    <3>2. Current(q, f)
      BY <1>4, <2>3 DEF Mid
    <3>3. PICK m \in 1..Len(outs[o]) : outs[o][m] = f.unit
      BY <2>1, <2>3, <3>1, <3>2 DEF SentOK
    <3> QED
      BY <1>3, <3>1, <3>3, <2>3 DEF StreamsGrow
  <2> QED
    BY <2>2, <2>3 DEF SentOK
<1>11. EndOK(q, f)'
  <2>1. EndOK(q, f)
    BY DEF RunnerOK
  <2>2. f.pc = "forget" => settled'[g].ended
    BY <1>1, <1>3, <2>1 DEF EndOK, CheckpointGrows
  <2>3. ASSUME f.pc = "done", \A i \in Inputs : inputs'[i].present
        PROVE  \A i \in Inputs : inputs'[i].closed /\ settled'[g].offset[i] = inputs'[i].sent
    <3>1. \A i \in Inputs : inputs[i].closed /\ settled[g].offset[i] = inputs[i].sent
      BY <1>1, <1>3, <2>1, <2>3 DEF EndOK, StreamsGrow
    <3> QED
      BY <1>1, <1>2, <1>3, <3>1 DEF CheckpointGrows, StreamsGrow
  <2> QED
    BY <1>1, <1>0, <2>2, <2>3 DEF EndOK
<1> QED
  BY <1>6, <1>7, <1>8, <1>9, <1>10, <1>11 DEF RunnerOK

-----------------------------------------------------------------------------
(***************************************************************************)
(* The ledger: what each step does to the units and claims that are known. *)
(***************************************************************************)
SamePending ==
  \A g \in Generations : /\ HasPending(g)' <=> HasPending(g)
                         /\ HasPending(g) => record'[g].pending = record[g].pending

LEMMA ClaimsAreKnown ==
    ASSUME TypeOK, PositionsOK, NEW o \in Outputs, NEW c \in Claims(o)
    PROVE  c[1] \in Known
<1>1. CASE c \in PendingClaims(o)
  BY <1>1 DEF Known, Pendings, PendingClaims
<1>2. CASE \E r \in Runners : Holds(runner[r]) /\ c = <<runner[r].unit, HeldSeqs(runner[r])[o]>>
  BY <1>2 DEF Known
<1>3. CASE c \in LastClaim(o)
  <2>1. positions[o] # None /\ c[1] = outs[o][Len(outs[o])]
    BY <1>3 DEF LastClaim
  <2>2. outs[o] # <<>> /\ outs[o] \in Seq(Unit)
    BY <2>1 DEF PositionsOK, TypeOK
  <2>3. Len(outs[o]) \in 1..Len(outs[o])
    BY <2>2
  <2>4. c[1] \in {outs[o][m] : m \in 1..Len(outs[o])}
    BY <2>1, <2>3
  <2> QED
    BY <2>4 DEF Known, Written
<1> QED
  BY <1>1, <1>2, <1>3 DEF Claims

LEMMA LedgerShrinks ==
    ASSUME TypeOK, PositionsOK, Ledger, guarantee' = guarantee, settled' = settled, SamePending,
           Known' \subseteq Known,
           \A o \in Outputs : Claims(o)' \subseteq Claims(o)
    PROVE  Ledger'
<1>1. ASSUME NEW u, u.generation \in Generations PROVE IsPending(u)' <=> IsPending(u)
  BY <1>1 DEF IsPending, SamePending
<1>2. ASSUME NEW u PROVE Past(u)' <=> Past(u)
  BY DEF Past
<1>3. Pinning' <=> Pinning
  BY DEF Pinning
<1>4. UnitsOK'
  <2> SUFFICES ASSUME NEW u \in Known'
               PROVE  /\ u \in Unit /\ u.generation \in Generations
                      /\ \A i \in Inputs : u.from[i] <= u.next[i]
                      /\ Past(u)' \/ IsPending(u)'
    BY DEF UnitsOK
  <2> QED
    BY <1>1, <1>2 DEF Ledger, UnitsOK
<1>5. Agreed'
  BY DEF Ledger, Agreed
<1>6. Numbered'
  <2> SUFFICES ASSUME Pinning, NEW o \in Outputs, NEW c \in Claims(o)'
               PROVE  NumberOK(o, c[1], c[2])'
    BY <1>3 DEF Numbered
  <2>1. NumberOK(o, c[1], c[2]) /\ c[1] \in Known
    BY ClaimsAreKnown DEF Ledger, Numbered
  <2>2. c[1].generation \in Generations
    BY <2>1 DEF Ledger, UnitsOK
  <2> QED
    BY <1>1, <1>2, <2>1, <2>2 DEF NumberOK
<1>7. Ordered'
  <2> SUFFICES ASSUME Pinning, NEW o \in Outputs, NEW c \in Claims(o)', NEW d \in Claims(o)'
               PROVE  OrderOK(o, c[1], c[2], d[1], d[2])
    BY <1>3 DEF Ordered
  <2> QED
    BY DEF Ledger, Ordered
<1>8. StartsLate'
  BY <1>3 DEF Ledger, StartsLate
<1> QED
  BY <1>4, <1>5, <1>6, <1>7, <1>8 DEF Ledger


\* Units of one generation, settled one after the other.
LEMMA PastComesBefore ==
    ASSUME TypeOK, NEW g \in Generations, NEW u \in Unit, NEW v \in Unit,
           u.generation = g, v.generation = g, Past(v),
           u.from = settled[g].offset, u.state = settled[g].state
    PROVE  Follows(v, u)
BY DEF Past, Follows, Before

\* A pin: one unit more that is pending, with the next number of every output it writes.
LEMMA LedgerPins ==
    ASSUME TypeOK, PositionsOK, Ledger, guarantee' = guarantee, settled' = settled,
           NEW g \in Generations, NEW u \in Unit, NEW seqs,
           ~HasPending(g), HasPending(g)', record'[g].pending = [unit |-> u, seqs |-> seqs],
           \A h \in Generations \ {g} :
              /\ HasPending(h)' <=> HasPending(h)
              /\ HasPending(h) => record'[h].pending = record[h].pending,
           u.generation = g, u.from = settled[g].offset, u.state = settled[g].state,
           \A i \in Inputs : u.from[i] <= u.next[i],
           seqs = Numbers(u, settled[g].length),
           Known' \subseteq Known \cup {u},
           \A o \in Outputs : Claims(o)' \subseteq
              Claims(o) \cup (IF seqs[o] = None THEN {} ELSE {<<u, seqs[o]>>})
    PROVE  Ledger'
<1>1. settled[g] \in Settled /\ settled[g].state \in Nat /\ settled[g].length \in [Outputs -> Nat]
      /\ settled[g].offset \in [Inputs -> Nat]
  BY DEF TypeOK, Settled
<1>2. \A v \in Known : v \in Unit /\ v.generation \in Generations /\ (v.generation = g => Past(v))
  BY DEF Ledger, UnitsOK, IsPending
<1>3. ~Past(u) /\ ~Past(u)' /\ u \notin Known
  BY <1>1, <1>2 DEF Past
<1>4. \A v \in Known : (IsPending(v)' <=> IsPending(v)) /\ (Past(v)' <=> Past(v))
  <2> TAKE v \in Known
  <2>1. Past(v)' <=> Past(v)
    BY DEF Past
  <2>2. CASE v.generation = g
    <3>1. ~IsPending(v)
      BY <2>2 DEF IsPending, HasPending
    <3>2. record'[g].pending.unit = u /\ v # u
      BY <1>3
    <3>3. ~IsPending(v)'
      BY <2>2, <3>2 DEF IsPending
    <3> QED
      BY <2>1, <3>1, <3>3
  <2>3. CASE v.generation # g
    <3> PICK h \in Generations \ {g} : h = v.generation
      BY <1>2, <2>3
    <3>1. /\ HasPending(h)' <=> HasPending(h)
          /\ HasPending(h) => record'[h].pending = record[h].pending
      BY DEF HasPending
    <3> QED
      BY <2>1, <3>1 DEF IsPending, HasPending
  <2> QED
    BY <2>1, <2>2, <2>3
<1>5. IsPending(u)'
  BY DEF IsPending
<1>6. Pinning' <=> Pinning
  BY DEF Pinning
<1>7. \A v \in Known : v.generation = g => Follows(v, u)
  BY <1>2, PastComesBefore
<1>8. UnitsOK'
  <2> SUFFICES ASSUME NEW v \in Known'
               PROVE  /\ v \in Unit /\ v.generation \in Generations
                      /\ \A i \in Inputs : v.from[i] <= v.next[i]
                      /\ Past(v)' \/ IsPending(v)'
    BY DEF UnitsOK
  <2>1. CASE v = u
    BY <2>1, <1>5
  <2>2. CASE v \in Known
    BY <2>2, <1>4 DEF Ledger, UnitsOK
  <2> QED
    BY <2>1, <2>2
<1>9. Agreed'
  <2> SUFFICES ASSUME NEW v \in Known', NEW w \in Known' PROVE Agree(v, w)
    BY DEF Agreed
  <2>1. CASE v \in Known /\ w \in Known
    BY <2>1 DEF Ledger, Agreed
  <2>2. CASE v = u \/ w = u
    BY <1>7, <2>2 DEF Agree
  <2> QED
    BY <2>1, <2>2
<1>10. Pinning => \A o \in Outputs : \A c \in Claims(o)' :
          \/ c \in Claims(o) /\ c[1] \in Known /\ NumberOK(o, c[1], c[2])
          \/ /\ c[1] = u /\ c[2] = settled[g].length[o] /\ c[2] \in Nat /\ Emits(u, o)
  <2> SUFFICES ASSUME Pinning, NEW o \in Outputs, NEW c \in Claims(o)', c \notin Claims(o)
               PROVE  /\ c[1] = u /\ c[2] = settled[g].length[o] /\ c[2] \in Nat /\ Emits(u, o)
    BY ClaimsAreKnown DEF Ledger, Numbered
  <2>1. seqs[o] # None /\ c = <<u, seqs[o]>>
    OBVIOUS
  <2> QED
    BY <1>1, <2>1, NumbersType
<1>11. Numbered'
  <2> SUFFICES ASSUME Pinning, NEW o \in Outputs, NEW c \in Claims(o)'
               PROVE  NumberOK(o, c[1], c[2])'
    BY <1>6 DEF Numbered
  <2>1. CASE c \in Claims(o) /\ c[1] \in Known /\ NumberOK(o, c[1], c[2])
    BY <2>1, <1>4 DEF NumberOK
  <2>2. CASE c[1] = u /\ c[2] = settled[g].length[o] /\ c[2] \in Nat /\ Emits(u, o)
    <3>1. settled[g].length[o] = 0 => Silent(o, NoItems, settled[g].offset)
      BY DEF Ledger, StartsLate
    <3>2. c[2] = 0 => Silent(o, NoItems, u.from)
      BY <2>2, <3>1
    <3> QED
      BY <3>2, <2>2, <1>3 DEF NumberOK
  <2> QED
    BY <1>10, <2>1, <2>2
<1>12. Ordered'
  <2> SUFFICES ASSUME Pinning, NEW o \in Outputs, NEW c \in Claims(o)', NEW d \in Claims(o)'
               PROVE  OrderOK(o, c[1], c[2], d[1], d[2])
    BY <1>6 DEF Ordered
  <2> DEFINE New(e) == e[1] = u /\ e[2] = settled[g].length[o] /\ e[2] \in Nat
             Old(e) == e \in Claims(o) /\ e[1] \in Known /\ NumberOK(o, e[1], e[2])
  <2>1. ASSUME NEW e, Old(e), e[1].generation = g
        PROVE  /\ e[2] \in Nat /\ e[2] < settled[g].length[o] /\ e[1].state < u.state
               /\ e[2] + 1 = settled[g].length[o] => Silent(o, e[1].next, u.from)
    <3>1. Past(e[1]) /\ Follows(e[1], u)
      BY <2>1, <1>2, <1>7
    <3> QED
      BY <2>1, <3>1 DEF NumberOK, Follows
  <2>2. New(c) \/ Old(c)
    BY <1>10
  <2>3. New(d) \/ Old(d)
    BY <1>10
  <2>4. CASE Old(c) /\ Old(d)
    BY <2>4 DEF Ledger, Ordered
  <2>5. CASE New(c) /\ New(d)
    BY <2>5, <1>1 DEF OrderOK
  <2>6. CASE Old(c) /\ New(d)
    <3> SUFFICES ASSUME c[1].generation = g PROVE OrderOK(o, c[1], c[2], d[1], d[2])
      BY <2>6 DEF OrderOK
    <3>1. /\ c[2] \in Nat /\ c[2] < d[2] /\ c[1].state < u.state /\ d[2] \in Nat
          /\ c[2] + 1 = d[2] => Silent(o, c[1].next, u.from)
      BY <2>1, <2>6
    <3> HIDE DEF New, Old
    <3>2. d[1] = u
      BY <2>6 DEF New
    <3> QED
      BY <3>1, <3>2 DEF OrderOK
  <2>7. CASE New(c) /\ Old(d)
    <3> SUFFICES ASSUME d[1].generation = g PROVE OrderOK(o, c[1], c[2], d[1], d[2])
      BY <2>7 DEF OrderOK
    <3>1. d[2] \in Nat /\ d[2] < c[2] /\ c[2] \in Nat
      BY <2>1, <2>7
    <3> QED
      BY <3>1 DEF OrderOK
  <2> QED
    BY <2>2, <2>3, <2>4, <2>5, <2>6, <2>7
<1>13. StartsLate'
  BY <1>6 DEF Ledger, StartsLate
<1> QED
  BY <1>8, <1>9, <1>11, <1>12, <1>13 DEF Ledger


\* A last save: the unit that was pending, or pinned to no output, is behind.
LEMMA LedgerSettles ==
    ASSUME TypeOK, PositionsOK, Ledger, guarantee' = guarantee,
           NEW g \in Generations, NEW u \in Unit, NEW s \in Settled,
           HasPending(g) => record[g].pending.unit = u, ~HasPending(g)',
           \A h \in Generations \ {g} :
              /\ HasPending(h)' <=> HasPending(h)
              /\ HasPending(h) => record'[h].pending = record[h].pending,
           settled' = [settled EXCEPT ![g] = s],
           u.generation = g, u.from = settled[g].offset, u.state = settled[g].state,
           \A i \in Inputs : u.from[i] <= u.next[i],
           s.offset = u.next, s.state = u.state + 1,
           \A o \in Outputs : s.length[o] = IF Emits(u, o) THEN settled[g].length[o] + 1
                                            ELSE settled[g].length[o],
           Known' \subseteq Known,
           \A o \in Outputs : Claims(o)' \subseteq Claims(o)
    PROVE  Ledger'
<1>1. /\ settled[g] \in Settled /\ settled[g].state \in Nat
      /\ settled[g].length \in [Outputs -> Nat] /\ settled[g].offset \in [Inputs -> Nat]
      /\ s.length \in [Outputs -> Nat] /\ u.next \in [Inputs -> Nat]
      /\ settled'[g] = s /\ \A h \in Generations \ {g} : settled'[h] = settled[h]
  BY DEF TypeOK, Settled, Unit
<1>2. Pinning' <=> Pinning
  BY DEF Pinning
<1>3. \A v \in Known : v \in Unit /\ v.generation \in Generations /\ (Past(v) \/ IsPending(v))
  BY DEF Ledger, UnitsOK
<1>4. ASSUME NEW v \in Known, v.generation = g
      PROVE  Past(v)' /\ ~IsPending(v)' /\ (v = u \/ Past(v))
  <2>1. ~IsPending(v)'
    BY <1>4 DEF IsPending, HasPending
  <2>2. v = u \/ Past(v)
    BY <1>3, <1>4 DEF IsPending
  <2>3. CASE v = u
    <3>1. v.state < s.state /\ \A i \in Inputs : v.next[i] <= s.offset[i]
      BY <1>1, <2>3
    <3> QED
      BY <1>1, <1>4, <2>1, <2>2, <3>1 DEF Past
  <2>4. CASE Past(v)
    <3>1. v.state \in Nat /\ v.next \in [Inputs -> Nat] /\ u.from \in [Inputs -> Nat]
      BY <1>3 DEF Unit
    <3>2. v.state < s.state
      BY <1>1, <1>4, <2>4, <3>1 DEF Past
    <3>3. \A i \in Inputs : v.next[i] <= s.offset[i]
      <4> TAKE i \in Inputs
      <4>1. v.next[i] <= u.from[i] /\ u.from[i] <= u.next[i]
        BY <1>4, <2>4 DEF Past
      <4> QED
        BY <1>1, <3>1, <4>1
    <3> QED
      BY <1>1, <1>4, <2>1, <2>2, <3>2, <3>3 DEF Past
  <2> QED
    BY <2>2, <2>3, <2>4
<1>5. ASSUME NEW v \in Known, v.generation # g
      PROVE  /\ Past(v)' <=> Past(v)
             /\ IsPending(v)' <=> IsPending(v)
             /\ settled'[v.generation] = settled[v.generation]
  <2> PICK h \in Generations \ {g} : h = v.generation
    BY <1>3, <1>5
  <2>1. /\ HasPending(h)' <=> HasPending(h)
        /\ HasPending(h) => record'[h].pending = record[h].pending
        /\ settled'[h] = settled[h]
    BY <1>1 DEF HasPending
  <2> QED
    BY <2>1 DEF IsPending, HasPending, Past
<1>6. UnitsOK'
  <2> SUFFICES ASSUME NEW v \in Known'
               PROVE  /\ v \in Unit /\ v.generation \in Generations
                      /\ \A i \in Inputs : v.from[i] <= v.next[i]
                      /\ Past(v)' \/ IsPending(v)'
    BY DEF UnitsOK
  <2> QED
    BY <1>4, <1>5 DEF Ledger, UnitsOK
<1>7. Agreed'
  BY DEF Ledger, Agreed
<1>8. Numbered'
  <2> SUFFICES ASSUME Pinning, NEW o \in Outputs, NEW c \in Claims(o)'
               PROVE  NumberOK(o, c[1], c[2])'
    BY <1>2 DEF Numbered
  <2> DEFINE v == c[1]  n == c[2]  l == settled[g].length[o]
  <2>1. NumberOK(o, v, n) /\ v \in Known
    BY ClaimsAreKnown DEF Ledger, Numbered
  <2> HIDE DEF v, n
  <2>2. n \in Nat /\ Emits(v, o) /\ (n = 0 => Silent(o, NoItems, v.from)) /\ l \in Nat
    BY <1>1, <2>1 DEF NumberOK
  <2>3. CASE v.generation = g
    <3>1. Past(v)' /\ ~IsPending(v)'
      BY <1>4, <2>1, <2>3
    <3>2. s.length[o] = IF Emits(u, o) THEN l + 1 ELSE l
      OBVIOUS
    <3>3. n < s.length[o] /\ (n + 1 = s.length[o] => Silent(o, v.next, s.offset))
      <4>1. CASE Past(v)
        <5>1. n < l /\ (n + 1 = l => Silent(o, v.next, settled[g].offset))
          BY <2>1, <2>3, <4>1 DEF NumberOK
        <5>2. ~Emits(u, o) => Silent(o, u.from, u.next)
          BY EmitsIffNotSilent
        <5>3. v.next \in [Inputs -> Nat]
          BY <1>3, <2>1 DEF Unit
        <5> HIDE DEF l
        <5>4. ASSUME n + 1 = s.length[o] PROVE ~Emits(u, o) /\ n + 1 = l
          BY <2>2, <3>2, <5>1, <5>4
        <5>5. n + 1 = s.length[o] => Silent(o, v.next, s.offset)
          BY <1>1, <5>1, <5>2, <5>3, <5>4, SilentJoins
        <5>6. n < s.length[o]
          BY <2>2, <3>2, <5>1
        <5> QED
          BY <5>5, <5>6
      <4>2. CASE v = u /\ ~Past(v)
        <5>1. n = l /\ Emits(u, o)
          BY <1>3, <2>1, <2>3, <4>2 DEF NumberOK
        <5>2. Silent(o, u.next, u.next)
          BY <1>1, NothingIsSilent
        <5> QED
          BY <2>2, <3>2, <4>2, <5>1, <5>2
      <4> QED
        BY <1>4, <2>1, <2>3, <4>1, <4>2
    <3> QED
      BY <1>1, <2>2, <2>3, <3>1, <3>3 DEF NumberOK, v, n
  <2>4. CASE v.generation # g
    BY <1>5, <2>1, <2>4 DEF NumberOK, v, n
  <2> QED
    BY <2>3, <2>4
<1>9. Ordered'
  <2> SUFFICES ASSUME Pinning, NEW o \in Outputs, NEW c \in Claims(o)', NEW d \in Claims(o)'
               PROVE  OrderOK(o, c[1], c[2], d[1], d[2])
    BY <1>2 DEF Ordered
  <2> QED
    BY DEF Ledger, Ordered
<1>10. StartsLate'
  <2> SUFFICES ASSUME Pinning, NEW o \in Outputs, NEW h \in Generations,
                      settled'[h].length[o] = 0
               PROVE  Silent(o, NoItems, settled'[h].offset)
    BY <1>2 DEF StartsLate
  <2>1. settled[h].length[o] = 0 => Silent(o, NoItems, settled[h].offset)
    BY DEF Ledger, StartsLate
  <2>2. CASE h # g
    BY <1>1, <2>1, <2>2
  <2>3. CASE h = g
    <3>1. s.length[o] = 0 /\ settled[g].length[o] \in Nat
      BY <1>1, <2>3
    <3>2. ~Emits(u, o) /\ settled[g].length[o] = 0
      BY <3>1
    <3>3. Silent(o, u.from, u.next)
      BY <3>2, EmitsIffNotSilent
    <3>4. Silent(o, NoItems, u.next)
      BY <1>1, <2>1, <2>3, <3>2, <3>3, NoItemsType, SilentJoins
    <3> QED
      BY <1>1, <2>3, <3>4
  <2> QED
    BY <2>2, <2>3
<1> QED
  BY <1>6, <1>7, <1>8, <1>9, <1>10 DEF Ledger

\* A transaction: the unit is new and behind at once.
LEMMA LedgerTransacts ==
    ASSUME TypeOK, Ledger, guarantee' = guarantee, ~Pinning, SamePending,
           NEW g \in Generations, NEW u \in Unit, NEW s \in Settled,
           ~HasPending(g), settled' = [settled EXCEPT ![g] = s],
           u.generation = g, u.from = settled[g].offset, u.state = settled[g].state,
           \A i \in Inputs : u.from[i] <= u.next[i],
           s.offset = u.next, s.state = u.state + 1,
           Known' \subseteq Known \cup {u}
    PROVE  Ledger'
<1>1. /\ settled[g] \in Settled /\ settled[g].state \in Nat /\ settled[g].offset \in [Inputs -> Nat]
      /\ u.next \in [Inputs -> Nat]
      /\ settled'[g] = s /\ \A h \in Generations \ {g} : settled'[h] = settled[h]
  BY DEF TypeOK, Settled, Unit
<1>2. ~Pinning'
  BY DEF Pinning
<1>3. \A v \in Known : /\ v \in Unit /\ v.generation \in Generations /\ (Past(v) \/ IsPending(v))
                       /\ \A i \in Inputs : v.from[i] <= v.next[i]
  BY DEF Ledger, UnitsOK
<1>4. Past(u)'
  <2>1. u.state < s.state /\ \A i \in Inputs : u.next[i] <= s.offset[i]
    BY <1>1
  <2> QED
    BY <1>1, <2>1 DEF Past
<1>5. ASSUME NEW v \in Known, v.generation = g PROVE Past(v) /\ Past(v)'
  <2>1. Past(v)
    BY <1>3, <1>5 DEF IsPending
  <2>2. v.state \in Nat /\ v.next \in [Inputs -> Nat] /\ u.from \in [Inputs -> Nat]
    BY <1>3 DEF Unit
  <2>3. v.state < s.state
    BY <1>1, <1>5, <2>1, <2>2 DEF Past
  <2>4. \A i \in Inputs : v.next[i] <= s.offset[i]
    <3> TAKE i \in Inputs
    <3>1. v.next[i] <= u.from[i] /\ u.from[i] <= u.next[i]
      BY <1>5, <2>1 DEF Past
    <3> QED
      BY <1>1, <2>2, <3>1
  <2> QED
    BY <1>1, <1>5, <2>1, <2>3, <2>4 DEF Past
<1>6. ASSUME NEW v \in Known, v.generation # g PROVE Past(v)' \/ IsPending(v)'
  <2> PICK h \in Generations \ {g} : h = v.generation
    BY <1>3, <1>6
  <2>1. /\ HasPending(h)' <=> HasPending(h)
        /\ HasPending(h) => record'[h].pending = record[h].pending
        /\ settled'[h] = settled[h]
    BY <1>1 DEF SamePending, HasPending
  <2> QED
    BY <1>3, <2>1 DEF IsPending, HasPending, Past
<1>7. UnitsOK'
  <2> SUFFICES ASSUME NEW v \in Known'
               PROVE  /\ v \in Unit /\ v.generation \in Generations
                      /\ \A i \in Inputs : v.from[i] <= v.next[i]
                      /\ Past(v)' \/ IsPending(v)'
    BY DEF UnitsOK
  <2>1. CASE v = u
    BY <1>4, <2>1
  <2>2. CASE v \in Known
    BY <1>3, <1>5, <1>6, <2>2
  <2> QED
    BY <2>1, <2>2
<1>8. Agreed'
  <2> SUFFICES ASSUME NEW v \in Known', NEW w \in Known' PROVE Agree(v, w)
    BY DEF Agreed
  <2>1. \A x \in Known : x.generation = g => Follows(x, u)
    BY <1>3, <1>5, PastComesBefore
  <2>2. CASE v \in Known /\ w \in Known
    BY <2>2 DEF Ledger, Agreed
  <2>3. CASE v = u \/ w = u
    BY <2>1, <2>3 DEF Agree
  <2> QED
    BY <2>2, <2>3
<1> QED
  BY <1>2, <1>7, <1>8 DEF Ledger, Numbered, Ordered, StartsLate

-----------------------------------------------------------------------------
(***************************************************************************)
(* What a pass adds to the ledger.                                         *)
(***************************************************************************)
LEMMA PassAdds ==
    ASSUME TypeOK, NEW r \in Runners, NEW h \in Runner, runner' = [runner EXCEPT ![r] = h]
    PROVE  /\ Known' \subseteq Pendings' \cup Known \cup OwnUnit(h) \cup Written' \cup runs'
           /\ \A o \in Outputs :
                Claims(o)' \subseteq PendingClaims(o)' \cup Claims(o) \cup OwnClaims(h, o) \cup LastClaim(o)'
<1>1. runner'[r] = h /\ \A q \in Runners \ {r} : runner'[q] = runner[q]
  BY DEF TypeOK
<1>2. ASSUME NEW q \in Runners
      PROVE  /\ Holds(runner[q])' <=> Holds(runner'[q])
             /\ HeldSeqs(runner[q])' = HeldSeqs(runner'[q])
  BY DEF Holds, HeldSeqs, Pinned, Base
<1>3. ASSUME NEW q \in Runners, Holds(runner[q])'
      PROVE  /\ runner'[q].unit \in Known \cup OwnUnit(h)
             /\ \A o \in Outputs : HeldSeqs(runner[q])'[o] # None =>
                  <<runner'[q].unit, HeldSeqs(runner[q])'[o]>> \in Claims(o) \cup OwnClaims(h, o)
  <2>1. Holds(runner'[q])
    BY <1>2, <1>3
  <2>2. CASE q = r
    BY <1>1, <1>2, <2>1, <2>2 DEF OwnUnit, OwnClaims
  <2>3. CASE q # r
    BY <1>1, <1>2, <2>1, <2>3 DEF Known, Claims
  <2> QED
    BY <2>2, <2>3
<1>4. Known' \subseteq Pendings' \cup Known \cup OwnUnit(h) \cup Written' \cup runs'
  BY <1>3 DEF Known
<1>5. ASSUME NEW o \in Outputs
      PROVE Claims(o)' \subseteq PendingClaims(o)' \cup Claims(o) \cup OwnClaims(h, o) \cup LastClaim(o)'
  BY <1>3 DEF Claims
<1> QED
  BY <1>4, <1>5

LEMMA SamePendingIsKnown ==
    ASSUME SamePending
    PROVE  Pendings' = Pendings /\ \A o \in Outputs : PendingClaims(o)' = PendingClaims(o)
<1>1. \A g \in Generations : /\ HasPending(g)' <=> HasPending(g)
                             /\ HasPending(g) => record'[g].pending = record[g].pending
  BY DEF SamePending, HasPending
<1>2. Pendings' = Pendings
  BY <1>1 DEF Pendings, HasPending
<1>3. ASSUME NEW o \in Outputs PROVE PendingClaims(o)' = PendingClaims(o)
  BY <1>1 DEF PendingClaims, HasPending
<1> QED
  BY <1>2, <1>3

\* A pass that goes on with what it knows, or with less.
LEMMA LedgerStays ==
    ASSUME TypeOK, PositionsOK, Ledger, guarantee' = guarantee, settled' = settled, SamePending,
           outs' = outs, positions' = positions, runs' = runs,
           NEW r \in Runners, NEW h \in Runner, runner' = [runner EXCEPT ![r] = h],
           OwnUnit(h) \subseteq Known, \A o \in Outputs : OwnClaims(h, o) \subseteq Claims(o)
    PROVE  Ledger'
<1>1. Pendings' = Pendings /\ Written' = Written
  BY SamePendingIsKnown DEF Written
<1>2. Known' \subseteq Known
  BY <1>1, PassAdds DEF Known
<1>3. ASSUME NEW o \in Outputs PROVE Claims(o)' \subseteq Claims(o)
  <2>1. PendingClaims(o)' = PendingClaims(o) /\ LastClaim(o)' = LastClaim(o)
    BY SamePendingIsKnown DEF LastClaim
  <2>2. PendingClaims(o) \subseteq Claims(o) /\ LastClaim(o) \subseteq Claims(o)
    BY DEF Claims
  <2>3. Claims(o)' \subseteq PendingClaims(o)' \cup Claims(o) \cup OwnClaims(h, o) \cup LastClaim(o)'
    BY PassAdds
  <2> QED
    BY <2>1, <2>2, <2>3
<1> QED
  BY <1>2, <1>3, LedgerShrinks

-----------------------------------------------------------------------------
(***************************************************************************)
(* A step of one pass that changes nothing else of the projection.         *)
(***************************************************************************)
Local == UNCHANGED <<declared, checkpoint, inputs, held, history>>

LEMMA LocalKeeps ==
    ASSUME Inv, Local, TypeOK',
           NEW r \in Runners, NEW h \in Runner, runner' = [runner EXCEPT ![r] = h],
           RunnerOK(r, h),
           OwnUnit(h) \subseteq Known, \A o \in Outputs : OwnClaims(h, o) \subseteq Claims(o)
    PROVE  Inv'
<1> USE DEF Local, declared, checkpoint, held, history
<1>1. TypeOK /\ Ledger /\ PositionsOK /\ Sorted /\ NoHole /\ OldGenerationIsFenced
      /\ RecordsOK /\ InputsOK /\ RunnersOK
  BY DEF Inv, Outlets
<1>2. Ledger'
  <2>1. SamePending
    BY DEF SamePending, HasPending
  <2> QED
    BY <1>1, <2>1, LedgerStays
<1>3. \A q \in Runners : CheckpointGrows(generation[q])
  <2>1. \A g \in Generations : version[g] \in Nat /\ settled[g].offset \in [Inputs -> Nat]
    BY <1>1 DEF TypeOK, Settled
  <2>2. \A q \in Runners : generation[q] \in Generations
    BY <1>1 DEF TypeOK
  <2> QED
    BY <1>1, <2>1, <2>2 DEF CheckpointGrows, RecordsOK, RecordOK
<1>4. StreamsGrow
  <2>1. \A i \in Inputs : inputs[i].sent \in Nat
    BY <1>1 DEF TypeOK, Input
  <2> QED
    BY <2>1 DEF StreamsGrow
<1>5. RunnersOK'
  <2> SUFFICES ASSUME NEW q \in Runners PROVE RunnerOK(q, runner[q])'
    BY DEF RunnersOK
  <2>1. CASE q = r
    <3>1. runner'[q] = h /\ RunnerOK(q, h)
      BY <1>1, <2>1 DEF TypeOK
    <3>2. RunnerOK(q, h)'
      BY <1>1, <1>3, <1>4, <3>1, OtherRunnersKeep
    <3> QED
      BY <3>1, <3>2
  <2>2. CASE q # r
    <3>1. runner'[q] = runner[q] /\ runner[q] \in Runner /\ RunnerOK(q, runner[q])
      BY <1>1, <2>2 DEF TypeOK, RunnersOK
    <3>2. PICK f \in Runner : f = runner[q] /\ f = runner'[q] /\ RunnerOK(q, f)
      BY <3>1
    <3>3. RunnerOK(q, f)'
      BY <1>1, <1>3, <1>4, <3>2, OtherRunnersKeep
    <3> QED
      BY <3>2, <3>3
  <2> QED
    BY <2>1, <2>2
<1>6. RecordsOK'
  <2>1. \A g \in Generations : HasPending(g)' <=> HasPending(g)
    BY DEF HasPending
  <2> QED
    BY <1>1, <2>1 DEF RecordsOK, RecordOK, PendingOK, Numbers, Pinning
<1>7. InputsOK' /\ Supported'
  BY <1>1 DEF Inv, InputsOK, Supported, OneWriter
<1>8. Outlets'
  BY <1>1 DEF Outlets, PositionsOK, Sorted, NoHole, OldGenerationIsFenced, Pinning
<1>9. NothingLost' /\ EverythingRan'
  BY DEF Inv, NothingLost, EverythingRan
<1> QED
  BY <1>2, <1>5, <1>6, <1>7, <1>8, <1>9 DEF Inv

-----------------------------------------------------------------------------
(***************************************************************************)
(* Reading: what a pass is after an input.                                 *)
(***************************************************************************)
LEMMA RestingKeeps ==
    ASSUME NEW r \in Runners, NEW h \in Runner, h.pc \in {"idle", "wait"}
    PROVE  /\ RunnerOK(r, h) /\ OwnUnit(h) = {} /\ \A o \in Outputs : OwnClaims(h, o) = {}
<1>1. ~Holds(h)
  BY DEF Holds
<1> QED
  BY <1>1 DEF RunnerOK, PassOK, StageOK, ReadOK, CurrentOK, SentOK, EndOK, Mid, OwnUnit, OwnClaims

LEMMA SeqsOfPass ==
    ASSUME TypeOK, NEW r \in Runners, NEW f \in Runner, PassOK(r, f), f.pc \in Mid
    PROVE  LET seqs == IF Pinned(f) THEN Base(f).pending.seqs
                       ELSE IF guarantee = "effectively-once" THEN PinnedSeqs(f) ELSE NoSeqs
           IN  seqs = Numbers(f.unit, Base(f).nextSeq) /\ seqs \in Seqs
<1>1. Base(f).nextSeq \in [Outputs -> Nat]
  BY BaseType DEF CheckpointRecord
<1>2. Numbers(f.unit, Base(f).nextSeq) \in Seqs
  BY <1>1, NumbersType
<1>3. CASE Pinned(f)
  BY <1>2, <1>3, PinnedMeans DEF PassOK
<1>4. CASE ~Pinned(f)
  BY <1>2, <1>4 DEF Numbers, PinnedSeqs, Pinning
<1> QED
  BY <1>3, <1>4

LEMMA ProceedKeeps ==
    ASSUME Inv, NEW r \in Runners, NEW f \in Runner, f.pc = "read", RunnerOK(r, f),
           f.loaded # None \/ inputs[InputOrder[f.turn]].present,
           OwnUnit(f) \subseteq Known, \A o \in Outputs : OwnClaims(f, o) \subseteq Claims(o),
           NEW h, h = Proceed(r, f)
    PROVE  /\ h \in Runner /\ RunnerOK(r, h)
           /\ OwnUnit(h) \subseteq Known /\ \A o \in Outputs : OwnClaims(h, o) \subseteq Claims(o)
<1>1. TypeOK /\ RecordsOK /\ generation[r] \in Generations /\ f.turn \in 1..Len(InputOrder)
  BY DEF Inv, TypeOK, RunnerOK, StageOK
<1>2. PassOK(r, f) /\ StageOK(f) /\ ReadOK(f) /\ CurrentOK(r, f) /\ f.pc \in Mid
  BY DEF RunnerOK, Mid
<1>3. Len(InputOrder) \in Nat /\ f.turn \in Nat
  BY <1>1, OrderAssumption, LenProperties
<1>4. CASE f.turn < Len(InputOrder)
  <2>1. h = [f EXCEPT !.turn = f.turn + 1]
    BY <1>4 DEF Proceed
  <2>2. /\ h \in Runner /\ h.pc = f.pc /\ h.loaded = f.loaded /\ h.token = f.token
        /\ h.unit = f.unit /\ h.turn = f.turn + 1 /\ h.seqs = f.seqs /\ h.left = f.left
    BY <1>3, <2>1 DEF Runner
  <2>3. /\ Base(h) = Base(f) /\ Pinned(h) = Pinned(f) /\ Holds(h) = Holds(f)
        /\ HeldSeqs(h) = HeldSeqs(f) /\ Current(r, h) = Current(r, f)
    BY <2>2 DEF Base, Pinned, Holds, HeldSeqs, Current
  <2>4. PassOK(r, h)
    BY <1>2, <2>2, <2>3 DEF PassOK
  <2>5. StageOK(h)
    BY <1>1, <1>2, <1>3, <1>4, <2>2, <2>3 DEF StageOK
  <2>6. ReadOK(h)
    BY <1>2, <2>2, <2>3 DEF ReadOK
  <2>7. Reborn(r, f) => Reborn(r, h)
    <3> SUFFICES ASSUME Reborn(r, f) PROVE Reborn(r, h)
      OBVIOUS
    <3> PICK k \in f.turn..Len(InputOrder) : ~inputs[InputOrder[k]].present
      BY DEF Reborn
    <3>1. f.loaded = None /\ settled[generation[r]].ended
      BY DEF Reborn
    <3>2. k \in f.turn + 1..Len(InputOrder)
      BY <1>3, <3>1
    <3> QED
      BY <2>2, <3>1, <3>2 DEF Reborn
  <2>8. CurrentOK(r, h)
    BY <1>2, <2>2, <2>3, <2>7 DEF CurrentOK, Pins
  <2>9. SentOK(r, h) /\ EndOK(r, h)
    BY <2>2 DEF SentOK, EndOK
  <2>10. OwnUnit(h) = OwnUnit(f) /\ \A o \in Outputs : OwnClaims(h, o) = OwnClaims(f, o)
    BY <2>2, <2>3 DEF OwnUnit, OwnClaims
  <2> QED
    BY <2>2, <2>4, <2>5, <2>6, <2>8, <2>9, <2>10 DEF RunnerOK
<1>5. ~(f.turn < Len(InputOrder)) => f.turn = Len(InputOrder) /\ ~Reborn(r, f)
  BY <1>1, <1>3 DEF Reborn
<1>6. CASE ~(f.turn < Len(InputOrder)) /\ ~Pinned(f) /\ CaughtUp(f)
  <2>1. h = Rest(r, f)
    BY <1>6 DEF Proceed
  <2>2. f.unit \in Unit /\ f.unit.from \in [Inputs -> Nat]
    BY DEF Runner, Unit
  <2>3. h \in Runner /\ h.pc \in {"idle", "wait", "done"}
    <3>1. [Idle EXCEPT !.pc = "done"] \in Runner /\ [Idle EXCEPT !.pc = "done"].pc = "done"
      BY IdleType DEF Runner, Labels
    <3>2. [Idle.unit EXCEPT !.from = f.unit.from] \in Unit
      BY <2>2, IdleType DEF Runner, Unit
    <3>3. [Idle EXCEPT !.pc = "wait", !.unit.from = f.unit.from] \in Runner
      BY <3>2, IdleType DEF Runner, Labels
    <3>4. [Idle EXCEPT !.pc = "wait", !.unit.from = f.unit.from].pc = "wait"
      BY IdleType DEF Runner
    <3> QED
      BY <2>1, <3>1, <3>3, <3>4, IdleType DEF Rest
  <2>4. CASE h.pc # "done"
    BY <2>3, <2>4, RestingKeeps
  <2>5. CASE h.pc = "done"
    <3>1. f.unit.closed = Inputs
      <4>1. [Idle EXCEPT !.pc = "wait", !.unit.from = f.unit.from].pc = "wait"
        BY IdleType DEF Runner
      <4> QED
        BY <2>1, <2>5, <4>1, IdleType DEF Rest
    <3>2. ASSUME \A i \in Inputs : inputs[i].present, NEW i \in Inputs
          PROVE  inputs[i].closed /\ settled[generation[r]].offset[i] = inputs[i].sent
      <4>1. inputs[i].closed /\ f.unit.next[i] = inputs[i].sent
        BY <1>2, <1>6, <3>1, <3>2 DEF ReadOK
      <4>2. f.unit.from[i] <= settled[generation[r]].offset[i] /\ f.unit.next = f.unit.from
        BY <1>2, <1>6 DEF PassOK, CaughtUp
      <4>3. settled[generation[r]].offset[i] <= inputs[i].sent
        BY <1>1 DEF RecordsOK, RecordOK
      <4>4. f.unit.from[i] \in Nat /\ settled[generation[r]].offset[i] \in Nat /\ inputs[i].sent \in Nat
        BY <1>1, <2>2 DEF TypeOK, Settled, Input
      <4> QED
        BY <4>1, <4>2, <4>3, <4>4
    <3>3. EndOK(r, h)
      BY <2>5, <3>2 DEF EndOK
    <3>4. ~Holds(h)
      BY <2>5 DEF Holds
    <3> QED
      BY <2>3, <2>5, <3>3, <3>4
         DEF RunnerOK, PassOK, StageOK, ReadOK, CurrentOK, SentOK, Mid, OwnUnit, OwnClaims
  <2> QED
    BY <2>4, <2>5
<1>7. CASE ~(f.turn < Len(InputOrder)) /\ ~(~Pinned(f) /\ CaughtUp(f))
  <2> DEFINE seqs == IF Pinned(f) THEN Base(f).pending.seqs
                     ELSE IF guarantee = "effectively-once" THEN PinnedSeqs(f) ELSE NoSeqs
             commit == CASE guarantee = "exactly-once" -> "transact"
                         [] guarantee = "at-least-once" -> IF Pinned(f) THEN "run" ELSE "pin"
                         [] OTHER -> IF Targets(seqs) = {} THEN "settle"
                                     ELSE IF Pinned(f) THEN "append" ELSE "prepare"
  <2>1. h = [f EXCEPT !.pc = commit, !.seqs = seqs, !.left = Targets(seqs)]
    BY <1>7 DEF Proceed
  <2>2. seqs = Numbers(f.unit, Base(f).nextSeq) /\ seqs \in Seqs
    BY <1>1, <1>2, SeqsOfPass
  <2>3. /\ Pinned(f) => /\ Base(f) = f.loaded /\ seqs = f.loaded.pending.seqs
                        /\ f.loaded # None /\ f.loaded.pending # None
                        /\ f.unit = f.loaded.pending.unit /\ guarantee # "exactly-once"
                        /\ Pinning => Targets(seqs) # {}
    BY <1>2, PinnedMeans DEF PassOK
  <2> HIDE DEF seqs
  <2>4. guarantee \in {"effectively-once", "exactly-once", "at-least-once"}
    BY <1>1, ParameterAssumption DEF TypeOK
  <2>5. /\ commit \in Labels \ {"idle", "read", "forget", "wait", "done"}
        /\ commit = "transact" => guarantee = "exactly-once"
        /\ commit \in {"run", "append"} => Pinned(f)
        /\ commit = "run" => guarantee = "at-least-once"
        /\ commit = "append" => Pinning /\ Targets(seqs) # {}
        /\ commit = "prepare" => Pinning /\ Targets(seqs) # {} /\ ~Pinned(f)
        /\ commit = "pin" => guarantee = "at-least-once" /\ ~Pinned(f)
        /\ commit = "settle" => Pinning /\ Targets(seqs) = {}
    BY <2>4 DEF Labels, Pinning
  <2> HIDE DEF commit
  <2>6. Targets(seqs) \in SUBSET Outputs /\ commit \in Labels
    BY <2>5 DEF Targets
  <2>7. /\ h \in Runner /\ h.pc = commit /\ h.loaded = f.loaded /\ h.token = f.token
        /\ h.unit = f.unit /\ h.seqs = seqs /\ h.left = Targets(seqs)
    BY <2>1, <2>2, <2>6 DEF Runner
  <2>8. Base(h) = Base(f) /\ Pinned(h) = Pinned(f) /\ Current(r, h) = Current(r, f)
    BY <2>7 DEF Base, Pinned, Current
  <2>9. PassOK(r, h)
    BY <1>2, <2>7, <2>8 DEF PassOK
  <2>10. StageOK(h)
    BY <2>2, <2>4, <2>5, <2>7, <2>8 DEF StageOK, Pinning
  <2>11. ReadOK(h) /\ EndOK(r, h)
    BY <2>5, <2>7 DEF ReadOK, EndOK
  <2>12. CurrentOK(r, h)
    <3> SUFFICES ASSUME h.pc \in Mid, Current(r, h) PROVE CurrentOK(r, h)
      BY DEF CurrentOK
    <3> PICK g \in Generations : g = generation[r]
      BY <1>1
    <3>1. /\ ~settled[g].ended /\ Base(f).offset = settled[g].offset
          /\ Base(f).state = settled[g].state /\ f.loaded = record[g]
          /\ Pinning => Base(f).nextSeq = settled[g].length
      BY <1>2, <1>5, <1>7, <2>8 DEF CurrentOK
    <3>2. Pinned(f) => HasPending(g) /\ record[g].pending.unit = f.unit /\ record[g].pending.seqs = seqs
      BY <2>3, <3>1 DEF HasPending
    <3>3. ~Pinned(f) => ~HasPending(g)
      BY <3>1 DEF HasPending, Pinned, Base
    <3>4. Pins(h) => h.pc \in {"append", "run"}
      BY <2>5, <2>7 DEF Pins
    <3>5. h.pc = "settle" => ~Pinned(f)
      BY <2>3, <2>5, <2>7
    <3> QED
      BY <2>5, <2>7, <2>8, <3>1, <3>2, <3>3, <3>4, <3>5 DEF CurrentOK
  <2>13. SentOK(r, h)
    BY <2>5, <2>7 DEF SentOK, Pinning
  <2>14. Holds(h) => Holds(f) /\ h.unit = f.unit /\ HeldSeqs(h) = HeldSeqs(f)
    BY <2>3, <2>5, <2>7 DEF Holds, HeldSeqs
  <2>15. OwnUnit(h) \subseteq Known /\ \A o \in Outputs : OwnClaims(h, o) \subseteq Claims(o)
    BY <2>14 DEF OwnUnit, OwnClaims
  <2> QED
    BY <2>7, <2>9, <2>10, <2>11, <2>12, <2>13, <2>15 DEF RunnerOK
<1> QED
  BY <1>4, <1>6, <1>7

LEMMA LocalStep ==
    ASSUME Inv, Local, aborts' \in Nat,
           outputs' \in [Outputs -> {"open", "closed", "missing"}],
           NEW r \in Runners, NEW h \in Runner, runner' = [runner EXCEPT ![r] = h],
           RunnerOK(r, h),
           OwnUnit(h) \subseteq Known, \A o \in Outputs : OwnClaims(h, o) \subseteq Claims(o)
    PROVE  Inv'
<1>1. TypeOK'
  BY DEF Inv, TypeOK, Local, declared, checkpoint, held, history
<1> QED
  BY <1>1, LocalKeeps

LEMMA FinishKeeps ==
    ASSUME Inv, Local, UNCHANGED outputs, aborts' \in Nat, NEW r \in Runners, Finish(r)
    PROVE  Inv'
<1>1. outputs' \in [Outputs -> {"open", "closed", "missing"}]
  BY DEF Inv, TypeOK
<1>2. RunnerOK(r, Idle) /\ OwnUnit(Idle) = {} /\ \A o \in Outputs : OwnClaims(Idle, o) = {}
  BY IdleType, RestingKeeps
<1> QED
  BY <1>1, <1>2, IdleType, LocalStep DEF Finish

LEMMA LoadKeeps == ASSUME Inv, NEW r \in Runners, Load(r) PROVE Inv'
<1> PICK g \in Generations : g = generation[r]
  BY DEF Inv, TypeOK
<1> DEFINE base == IF record[g] = None THEN InitialRecord ELSE record[g]
           s == settled[g]
<1>1. PICK f : f = Loaded(r)
  OBVIOUS
<1>2. /\ f \in Runner
      /\ f.pc = "idle" /\ f.loaded = record[g] /\ f.token = version[g] /\ f.turn = 1
      /\ f.seqs = NoSeqs /\ f.left = {}
      /\ Base(f) = base
      /\ Pinned(f) <=> HasPending(g)
      /\ Pinned(f) => f.unit = base.pending.unit
      /\ ~Pinned(f) => /\ f.unit.generation = g /\ f.unit.from = base.offset
                       /\ f.unit.next = base.offset /\ f.unit.closed = {}
                       /\ f.unit.gone = {} /\ f.unit.state = base.state
  BY <1>1, LoadedMeans DEF Inv
<1>3. PICK h : h = [f EXCEPT !.pc = IF Base(f).ended THEN "forget" ELSE "read"]
  OBVIOUS
<1>4. runner' = [runner EXCEPT ![r] = h] /\ Local /\ UNCHANGED outputs /\ aborts' = aborts
  BY <1>1, <1>3 DEF Load, Local, streams
<1>5. /\ h \in Runner /\ h.loaded = record[g] /\ h.token = version[g] /\ h.turn = 1
      /\ h.unit = f.unit /\ h.pc = IF Base(f).ended THEN "forget" ELSE "read"
  BY <1>2, <1>3 DEF Runner, Labels
<1>6. Base(h) = base /\ (Pinned(h) <=> Pinned(f)) /\ (Pinned(h) <=> HasPending(g)) /\ Current(r, h)
  BY <1>2, <1>5 DEF Base, Pinned, Current
<1>7. RecordOK(g) /\ s \in Settled /\ version[g] \in Nat
      /\ \A i \in Inputs : inputs[i].sent \in Nat
  BY DEF Inv, RecordsOK, TypeOK, Input
<1>8. base \in CheckpointRecord
  BY <1>6, <1>5, BaseType
<1>9. ~base.ended =>
        \/ /\ base.offset = s.offset /\ base.state = s.state /\ ~s.ended
           /\ Pinning => base.nextSeq = s.length
        \/ record[g] = None /\ s.ended /\ base.offset = NoItems /\ base.state = 0
  BY <1>7 DEF RecordOK, NothingSettled, InitialRecord
<1>10. Pinned(h) => /\ h.unit = record[g].pending.unit /\ record[g] # None
                    /\ base = record[g] /\ PendingOK(g, record[g].pending)
                    /\ ~base.ended
  BY <1>2, <1>5, <1>6, <1>7 DEF HasPending, RecordOK, PendingOK
<1>11. PassOK(r, h)
  <2> SUFFICES ASSUME h.pc = "read" PROVE PassOK(r, h)
    BY <1>5 DEF PassOK, Mid
  <2>1. ~base.ended
    BY <1>2, <1>5
  <2>2. h.token <= version[g]
    BY <1>5, <1>7
  <2>3. h.unit.generation = g /\ h.unit.from = base.offset /\ h.unit.state = base.state
    <3>1. CASE Pinned(h)
      BY <1>7, <1>9, <1>10, <3>1 DEF PendingOK, RecordOK
    <3>2. CASE ~Pinned(h)
      BY <1>2, <1>5, <1>6, <3>2
    <3> QED
      BY <3>1, <3>2
  <2>4. ASSUME NEW i \in Inputs
        PROVE  /\ h.unit.from[i] <= s.offset[i] /\ h.unit.from[i] <= h.unit.next[i]
               /\ h.unit.next[i] <= inputs[i].sent
    <3>1. base.offset[i] <= s.offset[i] /\ s.offset[i] <= inputs[i].sent
      BY <1>7, <1>9, <2>1 DEF Settled, NoItems, RecordOK
    <3>2. base.offset[i] \in Nat /\ s.offset[i] \in Nat /\ inputs[i].sent \in Nat
      BY <1>7, <1>8 DEF Settled, CheckpointRecord
    <3>3. CASE Pinned(h)
      <4>1. s.offset[i] <= h.unit.next[i] /\ h.unit.next[i] <= inputs[i].sent /\ h.unit.from = s.offset
        BY <1>10, <3>3 DEF PendingOK
      <4> QED
        BY <3>1, <3>2, <4>1
    <3>4. CASE ~Pinned(h)
      BY <1>2, <1>5, <1>6, <3>1, <3>2, <3>4
    <3> QED
      BY <3>3, <3>4
  <2>5. \A i \in h.unit.gone : ~inputs[i].present
    BY <1>2, <1>5, <1>6, <1>10 DEF PendingOK
  <2>6. Pinned(h) => /\ guarantee # "exactly-once" /\ h.unit = h.loaded.pending.unit
                     /\ h.loaded.pending.seqs = Numbers(h.unit, h.loaded.nextSeq)
                     /\ Pinning => Targets(h.loaded.pending.seqs) # {}
    <3> SUFFICES ASSUME Pinned(h) PROVE
                     /\ guarantee # "exactly-once" /\ h.unit = h.loaded.pending.unit
                     /\ h.loaded.pending.seqs = Numbers(h.unit, h.loaded.nextSeq)
                     /\ Pinning => Targets(h.loaded.pending.seqs) # {}
      OBVIOUS
    <3>1. Pinning => record[g].nextSeq = s.length
      BY <1>7, <1>10 DEF RecordOK
    <3> QED
      BY <1>5, <1>10, <3>1 DEF PendingOK, Numbers
  <2> QED
    BY <1>6, <2>1, <2>2, <2>3, <2>4, <2>5, <2>6 DEF PassOK
<1>12. StageOK(h)
  <2>1. 1 \in 1..Len(InputOrder)
    BY OrderAssumption, EmptySeq, LenProperties
  <2> QED
    BY <1>5, <2>1 DEF StageOK
<1>13. ReadOK(h)
  BY <1>2, <1>5, <1>6 DEF ReadOK
<1>14. CurrentOK(r, h)
  <2> SUFFICES ASSUME h.pc = "read", ~Reborn(r, h) PROVE CurrentOK(r, h)
    BY <1>5 DEF CurrentOK, Mid
  <2>1. ~(record[g] = None /\ s.ended)
    <3> SUFFICES ASSUME record[g] = None, s.ended PROVE Reborn(r, h)
      OBVIOUS
    <3>1. PICK i \in Inputs : ~inputs[i].present
      BY <1>7 DEF RecordOK
    <3>2. PICK k \in 1..Len(InputOrder) : InputOrder[k] = i
      BY OrderAssumption
    <3> QED
      BY <1>5, <3>1, <3>2 DEF Reborn
  <2>2. ~base.ended
    BY <1>2, <1>5
  <2> QED
    BY <1>5, <1>6, <1>9, <2>1, <2>2 DEF CurrentOK, Pins
<1>15. SentOK(r, h) /\ EndOK(r, h)
  <2>1. h.pc = "forget" => s.ended
    BY <1>2, <1>5, <1>7, InitialRecordType DEF RecordOK
  <2> QED
    BY <1>5, <2>1 DEF SentOK, EndOK
<1>16. OwnUnit(h) \subseteq Known
  BY <1>5, <1>6, <1>10 DEF OwnUnit, Holds, Known, Pendings
<1>17. \A o \in Outputs : OwnClaims(h, o) \subseteq Claims(o)
  BY <1>5, <1>6, <1>10 DEF OwnClaims, Holds, HeldSeqs, Claims, PendingClaims
<1> QED
  BY <1>4, <1>5, <1>11, <1>12, <1>13, <1>14, <1>15, <1>16, <1>17, LocalStep DEF RunnerOK, Inv, TypeOK

LEMMA ReadMoreKeeps ==
    ASSUME NEW r \in Runners, NEW f \in Runner, f.pc = "read", ~Pinned(f), RunnerOK(r, f),
           NEW h \in Runner, h.pc = "read", h.loaded = f.loaded, h.token = f.token,
           h.turn = f.turn, h.seqs = f.seqs, h.left = f.left,
           h.unit.generation = f.unit.generation, h.unit.from = f.unit.from,
           h.unit.state = f.unit.state,
           \A i \in Inputs : h.unit.from[i] <= h.unit.next[i] /\ h.unit.next[i] <= inputs[i].sent,
           \A i \in h.unit.gone : ~inputs[i].present,
           \A i \in h.unit.closed :
              \/ /\ inputs[i].closed /\ h.unit.next[i] = inputs[i].sent
                 /\ inputs[i].sent <= h.unit.from[i] + PageLimit
              \/ ~inputs[i].present
    PROVE  /\ RunnerOK(r, h)
           /\ OwnUnit(h) \subseteq Known /\ \A o \in Outputs : OwnClaims(h, o) \subseteq Claims(o)
<1>1. Base(h) = Base(f) /\ ~Pinned(h) /\ Current(r, h) = Current(r, f) /\ Reborn(r, h) = Reborn(r, f)
  BY DEF Base, Pinned, Current, Reborn
<1>2. PassOK(r, f) /\ StageOK(f) /\ CurrentOK(r, f)
  BY DEF RunnerOK
<1>3. PassOK(r, h)
  BY <1>1, <1>2 DEF PassOK, Mid
<1>4. StageOK(h) /\ ReadOK(h)
  BY <1>1, <1>2 DEF StageOK, ReadOK
<1>5. CurrentOK(r, h)
  BY <1>1, <1>2 DEF CurrentOK, Pins
<1>6. SentOK(r, h) /\ EndOK(r, h)
  BY DEF SentOK, EndOK
<1>7. OwnUnit(h) = {} /\ \A o \in Outputs : OwnClaims(h, o) = {}
  BY <1>1 DEF OwnUnit, OwnClaims, Holds
<1> QED
  BY <1>3, <1>4, <1>5, <1>6, <1>7 DEF RunnerOK

LEMMA ReadInputKeeps == ASSUME Inv, NEW r \in Runners, ReadInput(r) PROVE Inv'
<1> PICK g \in Generations : g = generation[r]
  BY DEF Inv, TypeOK
<1>1. PICK f \in Runner : f = runner[r]
  BY DEF Inv, TypeOK
<1>2. RunnerOK(r, f) /\ f.pc = "read" /\ ~Pinned(f) /\ PassOK(r, f) /\ StageOK(f) /\ ReadOK(f)
  BY <1>1 DEF Inv, RunnersOK, RunnerOK, ReadInput, At
<1>3. PICK i \in Inputs : i = InputOrder[f.turn]
  <2>1. f.turn \in 1..Len(InputOrder) /\ InputOrder \in Seq(Inputs)
    BY <1>2, OrderAssumption DEF StageOK
  <2> QED
    BY <2>1
<1> DEFINE end == IF inputs[i].sent < f.unit.from[i] + PageLimit
                  THEN inputs[i].sent ELSE f.unit.from[i] + PageLimit
<1>4. Local /\ UNCHANGED outputs /\ aborts' = aborts
  BY DEF ReadInput, Local, streams
<1>5. /\ aborts' \in Nat /\ outputs' \in [Outputs -> {"open", "closed", "missing"}]
      /\ settled[g] \in Settled
      /\ \A j \in Inputs : inputs[j].sent \in Nat
      /\ f.unit \in Unit /\ f.unit.from \in [Inputs -> Nat] /\ f.unit.next \in [Inputs -> Nat]
      /\ f.unit.closed \subseteq Inputs /\ f.unit.gone \subseteq Inputs
      /\ PageLimit \in Nat \ {0}
  BY <1>4, ParameterAssumption DEF Inv, TypeOK, Input, Runner, Unit
<1>6. \A j \in Inputs : /\ f.unit.from[j] <= f.unit.next[j] /\ f.unit.next[j] <= inputs[j].sent
                        /\ f.unit.from[j] <= inputs[j].sent
  <2> TAKE j \in Inputs
  <2>1. f.unit.from[j] <= f.unit.next[j] /\ f.unit.next[j] <= inputs[j].sent
    BY <1>2 DEF PassOK, Mid
  <2>2. f.unit.from[j] \in Nat /\ f.unit.next[j] \in Nat /\ inputs[j].sent \in Nat
    BY <1>5
  <2> QED
    BY <2>1, <2>2
<1>7. \A j \in f.unit.gone : ~inputs[j].present
  BY <1>2 DEF PassOK, Mid
<1>8. ASSUME inputs[i].present, NEW closed \in BOOLEAN,
             closed => inputs[i].closed /\ end = inputs[i].sent,
             runner' = [runner EXCEPT ![r] =
                      Proceed(r, [f EXCEPT !.unit.next[i] = end,
                                 !.unit.closed = @ \cup IF closed THEN {i} ELSE {}])]
      PROVE  Inv'
  <2>1. PICK h : h = [f EXCEPT !.unit.next[i] = end,
                               !.unit.closed = @ \cup IF closed THEN {i} ELSE {}]
    OBVIOUS
  <2>2. /\ end \in Nat /\ f.unit.from[i] <= end /\ end <= inputs[i].sent
        /\ inputs[i].sent <= f.unit.from[i] + PageLimit => end = inputs[i].sent
        /\ end = inputs[i].sent => inputs[i].sent <= f.unit.from[i] + PageLimit
    <3>1. f.unit.from[i] \in Nat /\ inputs[i].sent \in Nat /\ f.unit.from[i] <= inputs[i].sent
      BY <1>5, <1>6
    <3> QED
      BY <1>5, <3>1
  <2> HIDE DEF end
  <2>3. h.unit = [f.unit EXCEPT !.next[i] = end,
                                !.closed = @ \cup IF closed THEN {i} ELSE {}]
    BY <2>1 DEF Runner
  <2>4. /\ h.unit \in Unit /\ h.unit.generation = f.unit.generation /\ h.unit.from = f.unit.from
        /\ h.unit.state = f.unit.state /\ h.unit.gone = f.unit.gone
        /\ h.unit.next = [f.unit.next EXCEPT ![i] = end]
        /\ h.unit.closed = f.unit.closed \cup IF closed THEN {i} ELSE {}
    <3> DEFINE n == [f.unit.next EXCEPT ![i] = end]
               c == f.unit.closed \cup IF closed THEN {i} ELSE {}
    <3>1. n \in [Inputs -> Nat] /\ c \in SUBSET Inputs
      BY <1>5, <2>2
    <3>2. h.unit = [f.unit EXCEPT !.next = n, !.closed = c]
      BY <1>5, <2>3 DEF Unit
    <3> HIDE DEF n, c
    <3>3. /\ h.unit \in Unit /\ h.unit.generation = f.unit.generation /\ h.unit.from = f.unit.from
          /\ h.unit.state = f.unit.state /\ h.unit.gone = f.unit.gone
          /\ h.unit.next = n /\ h.unit.closed = c
      BY <1>5, <3>1, <3>2 DEF Unit
    <3> QED
      BY <3>3 DEF n, c
  <2>5. /\ h.pc = "read" /\ h.loaded = f.loaded /\ h.token = f.token
        /\ h.turn = f.turn /\ h.seqs = f.seqs /\ h.left = f.left
    BY <1>2, <2>1 DEF Runner
  <2>6. h \in Runner
    BY <1>2, <2>1, <2>3, <2>4, <2>5 DEF Runner
  <2>7. ASSUME NEW j \in Inputs
        PROVE  h.unit.from[j] <= h.unit.next[j] /\ h.unit.next[j] <= inputs[j].sent
    <3>1. h.unit.next[j] = IF j = i THEN end ELSE f.unit.next[j]
      BY <1>5, <2>4
    <3> QED
      BY <1>6, <2>2, <2>4, <3>1
  <2>8. ASSUME NEW j \in h.unit.closed
        PROVE  \/ /\ inputs[j].closed /\ h.unit.next[j] = inputs[j].sent
                  /\ inputs[j].sent <= h.unit.from[j] + PageLimit
               \/ ~inputs[j].present
    <3>1. h.unit.next[j] = IF j = i THEN end ELSE f.unit.next[j]
      BY <1>5, <2>4
    <3>2. CASE j \in f.unit.closed
      <4>1. \/ /\ inputs[j].closed /\ f.unit.next[j] = inputs[j].sent
               /\ inputs[j].sent <= f.unit.from[j] + PageLimit
            \/ ~inputs[j].present
        BY <1>2, <3>2 DEF ReadOK
      <4> QED
        BY <2>2, <2>4, <3>1, <4>1
    <3>3. CASE j = i /\ closed
      BY <1>8, <2>2, <2>4, <3>1, <3>3
    <3> QED
      BY <2>4, <3>2, <3>3
  <2>9. /\ RunnerOK(r, h)
        /\ OwnUnit(h) \subseteq Known /\ \A o \in Outputs : OwnClaims(h, o) \subseteq Claims(o)
    BY <1>2, <1>7, <2>4, <2>5, <2>6, <2>7, <2>8, ReadMoreKeeps
  <2>10. inputs[InputOrder[h.turn]].present
    BY <1>3, <1>8, <2>5
  <2>11. PICK k : k = Proceed(r, h)
    OBVIOUS
  <2>12. /\ k \in Runner /\ RunnerOK(r, k)
         /\ OwnUnit(k) \subseteq Known /\ \A o \in Outputs : OwnClaims(k, o) \subseteq Claims(o)
    BY <2>5, <2>6, <2>9, <2>10, <2>11, ProceedKeeps
  <2>13. runner' = [runner EXCEPT ![r] = k]
    BY <1>8, <2>1, <2>11
  <2> QED
    BY <1>4, <1>5, <2>12, <2>13, LocalStep
<1>9. ASSUME ~inputs[i].present, f.loaded # None,
             runner' = [runner EXCEPT ![r] =
                 Proceed(r, [f EXCEPT !.unit.closed = @ \cup {i}, !.unit.gone = @ \cup {i}])]
      PROVE  Inv'
  <2>1. PICK h : h = [f EXCEPT !.unit.closed = @ \cup {i}, !.unit.gone = @ \cup {i}]
    OBVIOUS
  <2>3. h.unit = [f.unit EXCEPT !.closed = @ \cup {i}, !.gone = @ \cup {i}]
    BY <2>1 DEF Runner
  <2>4. /\ h.unit \in Unit /\ h.unit.generation = f.unit.generation /\ h.unit.from = f.unit.from
        /\ h.unit.state = f.unit.state /\ h.unit.gone = f.unit.gone \cup {i}
        /\ h.unit.next = f.unit.next /\ h.unit.closed = f.unit.closed \cup {i}
    <3> DEFINE c == f.unit.closed \cup {i}
               d == f.unit.gone \cup {i}
    <3>1. c \in SUBSET Inputs /\ d \in SUBSET Inputs
      BY <1>5
    <3>2. h.unit = [f.unit EXCEPT !.closed = c, !.gone = d]
      BY <1>5, <2>3 DEF Unit
    <3> HIDE DEF c, d
    <3>3. /\ h.unit \in Unit /\ h.unit.generation = f.unit.generation /\ h.unit.from = f.unit.from
          /\ h.unit.state = f.unit.state /\ h.unit.next = f.unit.next
          /\ h.unit.closed = c /\ h.unit.gone = d
      BY <1>5, <3>1, <3>2 DEF Unit
    <3> QED
      BY <3>3 DEF c, d
  <2>5. /\ h.pc = "read" /\ h.loaded = f.loaded /\ h.token = f.token
        /\ h.turn = f.turn /\ h.seqs = f.seqs /\ h.left = f.left
    BY <1>2, <2>1 DEF Runner
  <2>6. h \in Runner
    BY <1>2, <2>1, <2>3, <2>4, <2>5 DEF Runner
  <2>7. \A j \in h.unit.gone : ~inputs[j].present
    BY <1>7, <1>9, <2>4
  <2>8. ASSUME NEW j \in h.unit.closed
        PROVE  \/ /\ inputs[j].closed /\ h.unit.next[j] = inputs[j].sent
                  /\ inputs[j].sent <= h.unit.from[j] + PageLimit
               \/ ~inputs[j].present
    BY <1>2, <1>9, <2>4 DEF ReadOK
  <2>9. /\ RunnerOK(r, h)
        /\ OwnUnit(h) \subseteq Known /\ \A o \in Outputs : OwnClaims(h, o) \subseteq Claims(o)
    BY <1>2, <1>6, <2>4, <2>5, <2>6, <2>7, <2>8, ReadMoreKeeps
  <2>11. PICK k : k = Proceed(r, h)
    OBVIOUS
  <2>12. /\ k \in Runner /\ RunnerOK(r, k)
         /\ OwnUnit(k) \subseteq Known /\ \A o \in Outputs : OwnClaims(k, o) \subseteq Claims(o)
    BY <1>9, <2>5, <2>6, <2>9, <2>11, ProceedKeeps
  <2>13. runner' = [runner EXCEPT ![r] = k]
    BY <1>9, <2>1, <2>11
  <2> QED
    BY <1>4, <1>5, <2>12, <2>13, LocalStep
<1>10. CASE Finish(r)
  BY <1>4, <1>5, <1>10, FinishKeeps
<1> QED
  BY <1>1, <1>3, <1>8, <1>9, <1>10 DEF ReadInput

LEMMA ReproduceKeeps == ASSUME Inv, NEW r \in Runners, Reproduce(r) PROVE Inv'
<1>1. PICK f \in Runner : f = runner[r]
  BY DEF Inv, TypeOK
<1>2. RunnerOK(r, f) /\ f.pc = "read" /\ Pinned(f)
  BY <1>1 DEF Inv, RunnersOK, Reproduce, At
<1>3. Local /\ UNCHANGED outputs /\ aborts' = aborts
  BY DEF Reproduce, Local, streams
<1>4. aborts' \in Nat /\ outputs' \in [Outputs -> {"open", "closed", "missing"}]
  BY <1>3 DEF Inv, TypeOK
<1>5. CASE Finish(r)
  BY <1>3, <1>4, <1>5, FinishKeeps
<1>6. CASE runner' = [runner EXCEPT ![r] = Proceed(r, f)]
  <2>1. OwnUnit(f) \subseteq Known
    BY <1>1 DEF OwnUnit, Known
  <2>2. \A o \in Outputs : OwnClaims(f, o) \subseteq Claims(o)
    BY <1>1 DEF OwnClaims, Claims
  <2>3. f.loaded # None
    BY <1>2, PinnedMeans
  <2>4. PICK k : k = Proceed(r, f)
    OBVIOUS
  <2>5. /\ k \in Runner /\ RunnerOK(r, k)
        /\ OwnUnit(k) \subseteq Known /\ \A o \in Outputs : OwnClaims(k, o) \subseteq Claims(o)
    BY <1>2, <2>1, <2>2, <2>3, <2>4, ProceedKeeps
  <2> QED
    BY <1>3, <1>4, <1>6, <2>4, <2>5, LocalStep
<1> QED
  BY <1>1, <1>5, <1>6 DEF Reproduce

-----------------------------------------------------------------------------
(***************************************************************************)
(* The outputs are prepared, and the pass may stop or wait.                *)
(***************************************************************************)
LEMMA PrepareKeeps == ASSUME Inv, NEW r \in Runners, Prepare(r) PROVE Inv'
<1>1. PICK f \in Runner : f = runner[r]
  BY DEF Inv, TypeOK
<1>2. RunnerOK(r, f) /\ f.pc = "prepare" /\ PassOK(r, f) /\ StageOK(f) /\ CurrentOK(r, f)
  BY <1>1 DEF Inv, RunnersOK, RunnerOK, Prepare, At
<1>3. PICK o : o = FirstOf(f.left)
  OBVIOUS
<1> DEFINE rest == f.left \ {o}
<1>4. Local /\ aborts' = aborts /\ aborts' \in Nat
  BY DEF Prepare, Local, Inv, TypeOK
<1>5. CASE Finish(r) /\ UNCHANGED outputs
  BY <1>4, <1>5, FinishKeeps
<1>6. CASE /\ outputs' = [outputs EXCEPT ![o] = "open"]
           /\ runner' = [runner EXCEPT
                   ![r].left = IF rest = {} THEN Targets(f.seqs) ELSE rest,
                   ![r].pc = IF rest = {} THEN "pin" ELSE "prepare"]
  <2>1. PICK left, pc : /\ left = IF rest = {} THEN Targets(f.seqs) ELSE rest
                        /\ pc = IF rest = {} THEN "pin" ELSE "prepare"
    OBVIOUS
  <2>2. /\ left \subseteq Outputs /\ pc \in Labels
        /\ left # {} /\ left \subseteq Targets(f.seqs) /\ (pc = "pin" => left = Targets(f.seqs))
    BY <1>2, <2>1 DEF StageOK, Targets, Labels
  <2>3. PICK h : h = [f EXCEPT !.left = left, !.pc = pc]
    OBVIOUS
  <2>4. /\ runner' = [runner EXCEPT ![r] = h]
        /\ h \in Runner /\ h.pc = pc /\ h.left = left /\ h.loaded = f.loaded
        /\ h.token = f.token /\ h.unit = f.unit /\ h.turn = f.turn /\ h.seqs = f.seqs
    <3>1. runner' = [runner EXCEPT ![r].left = left, ![r].pc = pc]
      BY <1>6, <2>1
    <3>2. runner \in [Runners -> Runner]
      BY DEF Inv, TypeOK
    <3>3. runner' = [runner EXCEPT ![r] = h]
      BY <1>1, <2>3, <3>1, <3>2 DEF Runner
    <3>4. /\ h \in Runner /\ h.pc = pc /\ h.left = left /\ h.loaded = f.loaded
          /\ h.token = f.token /\ h.unit = f.unit /\ h.turn = f.turn /\ h.seqs = f.seqs
      BY <2>2, <2>3 DEF Runner
    <3> QED
      BY <3>3, <3>4
  <2>5. Base(h) = Base(f) /\ Pinned(h) = Pinned(f) /\ Current(r, h) = Current(r, f)
    BY <2>4 DEF Base, Pinned, Current
  <2>6. pc \in {"pin", "prepare"}
    BY <2>1
  <2>7. PassOK(r, h)
    BY <1>2, <2>4, <2>5, <2>6 DEF PassOK, Mid
  <2>8. StageOK(h)
    BY <1>2, <2>2, <2>4, <2>5, <2>6 DEF StageOK
  <2>9. CurrentOK(r, h)
    BY <1>2, <2>4, <2>5, <2>6 DEF CurrentOK, Reborn, Mid, Pins
  <2>10. ReadOK(h) /\ SentOK(r, h) /\ EndOK(r, h)
    BY <2>4, <2>6 DEF ReadOK, SentOK, EndOK
  <2>11. ~Holds(h)
    BY <2>4, <2>6 DEF Holds
  <2>12. OwnUnit(h) \subseteq Known /\ \A p \in Outputs : OwnClaims(h, p) \subseteq Claims(p)
    BY <2>11 DEF OwnUnit, OwnClaims
  <2>13. outputs' \in [Outputs -> {"open", "closed", "missing"}]
    BY <1>6 DEF Inv, TypeOK
  <2> QED
    BY <1>4, <2>4, <2>7, <2>8, <2>9, <2>10, <2>12, <2>13, LocalStep DEF RunnerOK
<1> QED
  BY <1>1, <1>3, <1>5, <1>6 DEF Prepare

LEMMA ConflictKeeps == ASSUME Inv, NEW r \in Runners, Conflict(r) PROVE Inv'
<1>1. Local /\ UNCHANGED outputs /\ aborts' \in Nat /\ Finish(r)
  BY DEF Conflict, Local, streams, Inv, TypeOK
<1> QED
  BY <1>1, FinishKeeps

LEMMA StopKeeps ==
    ASSUME Inv, NEW r \in Runners, Wake(r) \/ Again(r) \/ Abort(r)
    PROVE  Inv'
<1>1. Local /\ UNCHANGED outputs /\ aborts' \in Nat /\ Finish(r)
  BY DEF Wake, Again, Abort, Local, streams, Inv, TypeOK
<1> QED
  BY <1>1, FinishKeeps

-----------------------------------------------------------------------------
(***************************************************************************)
(* What the steps that change more have in common.                         *)
(***************************************************************************)
LEMMA RunnersKeep ==
    ASSUME Inv, TypeOK', UNCHANGED declared, StreamsGrow,
           NEW r \in Runners, NEW h \in Runner, runner' = [runner EXCEPT ![r] = h],
           RunnerOK(r, h)',
           \A q \in Runners \ {r} : CheckpointGrows(generation[q])
    PROVE  RunnersOK'
<1> SUFFICES ASSUME NEW q \in Runners PROVE RunnerOK(q, runner[q])'
  BY DEF RunnersOK
<1>1. TypeOK /\ runner'[q] = IF q = r THEN h ELSE runner[q]
  BY DEF Inv, TypeOK
<1>2. CASE q = r
  BY <1>1, <1>2
<1>3. CASE q # r
  <2>1. PICK f \in Runner : f = runner[q] /\ f = runner'[q] /\ RunnerOK(q, f)
    BY <1>1, <1>3 DEF Inv, TypeOK, RunnersOK
  <2>2. RunnerOK(q, f)'
    BY <1>1, <1>3, <2>1, OtherRunnersKeep
  <2> QED
    BY <2>1, <2>2
<1> QED
  BY <1>2, <1>3

LEMMA OutletsStay ==
    ASSUME Inv, UNCHANGED <<declared, held, history>>
    PROVE  Outlets' /\ NothingLost' /\ EverythingRan' /\ Supported'
<1>1. Outlets'
  BY DEF Inv, Outlets, PositionsOK, Sorted, NoHole, OldGenerationIsFenced, Pinning,
         declared, held, history
<1>2. NothingLost' /\ EverythingRan'
  BY DEF Inv, NothingLost, EverythingRan, declared, held, history
<1>3. Supported'
  BY DEF Inv, Supported, OneWriter, declared
<1> QED
  BY <1>1, <1>2, <1>3

\* The records of the other generations, when one record is written.
LEMMA OtherRecordsStay ==
    ASSUME Inv, UNCHANGED <<declared, inputs>>, NEW g \in Generations,
           \A k \in Generations \ {g} :
              record'[k] = record[k] /\ version'[k] = version[k] /\ settled'[k] = settled[k]
    PROVE  \A k \in Generations \ {g} : RecordOK(k)'
<1> SUFFICES ASSUME NEW k \in Generations \ {g} PROVE RecordOK(k)'
  OBVIOUS
<1>1. RecordOK(k) /\ record'[k] = record[k] /\ version'[k] = version[k] /\ settled'[k] = settled[k]
  BY DEF Inv, RecordsOK
<1>2. guarantee' = guarantee /\ inputs' = inputs
  BY DEF declared
<1>3. HasPending(k)' = HasPending(k) /\ (Pinning' <=> Pinning)
  BY <1>1, <1>2 DEF HasPending, Pinning
<1> QED
  BY <1>1, <1>2, <1>3 DEF RecordOK, PendingOK, Numbers

LEMMA PendingRecordMeans ==
    ASSUME NEW f \in Runner, NEW c, c = PendingRecord(f)
    PROVE  /\ c \in CheckpointRecord /\ c # None /\ c.pending # None
           /\ c.offset = Base(f).offset /\ c.state = Base(f).state /\ c.ended = Base(f).ended
           /\ c.nextSeq = Base(f).nextSeq /\ c.pending = [unit |-> f.unit, seqs |-> f.seqs]
<1>1. PICK b \in CheckpointRecord : b = Base(f)
  BY BaseType
<1>2. PICK p \in Pending : p = [unit |-> f.unit, seqs |-> f.seqs]
  BY DEF Pending, Runner
<1>3. PICK d \in SUBSET Inputs : d = IF f.loaded = None THEN f.unit.closed ELSE b.closed
  BY <1>1 DEF CheckpointRecord, Runner, Unit
<1>4. c = [b EXCEPT !.pending = p, !.closed = d]
  BY <1>1, <1>2, <1>3 DEF PendingRecord, CheckpointRecord
<1>5. /\ c \in CheckpointRecord /\ c.pending = p
      /\ c.offset = b.offset /\ c.state = b.state /\ c.ended = b.ended /\ c.nextSeq = b.nextSeq
  BY <1>4 DEF CheckpointRecord
<1> QED
  BY <1>1, <1>2, <1>5, RecordAssumption

LEMMA NextRecordMeans ==
    ASSUME NEW f \in Runner, NEW c, c = NextRecord(f)
    PROVE  /\ c \in CheckpointRecord /\ c # None /\ c.pending = None
           /\ c.offset = f.unit.next /\ c.state = f.unit.state + 1 /\ c.ended = (f.unit.gone # {})
           /\ c.nextSeq = [o \in Outputs |-> IF f.seqs[o] = None THEN Base(f).nextSeq[o]
                                             ELSE f.seqs[o] + 1]
<1>1. PICK b \in CheckpointRecord : b = Base(f)
  BY BaseType
<1>2. PICK n : n = [o \in Outputs |-> IF f.seqs[o] = None THEN b.nextSeq[o] ELSE f.seqs[o] + 1]
  OBVIOUS
<1>3. n \in [Outputs -> Nat]
  BY <1>1, <1>2 DEF CheckpointRecord, Runner, Seqs
<1>4. PICK d \in SUBSET Inputs : d = b.closed \cup f.unit.closed
  BY <1>1 DEF CheckpointRecord, Runner, Unit
<1>5. PICK e \in BOOLEAN : e = (f.unit.gone # {})
  OBVIOUS
<1>6. PICK m \in Nat : m = f.unit.state + 1
  BY DEF Runner, Unit
<1>7. PICK x \in [Inputs -> Nat] : x = f.unit.next
  BY DEF Runner, Unit
<1>8. c = [b EXCEPT !.offset = x, !.state = m, !.nextSeq = n, !.pending = None,
                    !.closed = d, !.ended = e]
  BY <1>1, <1>2, <1>4, <1>5, <1>6, <1>7 DEF NextRecord, CheckpointRecord
<1>9. /\ c \in CheckpointRecord /\ c.pending = None /\ c.offset = x /\ c.state = m
      /\ c.ended = e /\ c.nextSeq = n
  BY <1>3, <1>8 DEF CheckpointRecord
<1> QED
  BY <1>1, <1>2, <1>5, <1>6, <1>7, <1>9, RecordAssumption

-----------------------------------------------------------------------------
(***************************************************************************)
(* The pin.                                                                *)
(***************************************************************************)
LEMMA PinKeeps == ASSUME Inv, NEW r \in Runners, Pin(r) PROVE Inv'
<1>1. PICK f \in Runner : f = runner[r]
  BY DEF Inv, TypeOK
<1>2. PICK g \in Generations : g = generation[r]
  BY DEF Inv, TypeOK
<1>3. /\ RunnerOK(r, f) /\ f.pc = "pin" /\ f.pc \in Mid
      /\ PassOK(r, f) /\ StageOK(f) /\ CurrentOK(r, f) /\ SentOK(r, f)
  BY <1>1 DEF Inv, RunnersOK, RunnerOK, Pin, At, Mid
<1>4. CASE Conflict(r)
  BY <1>4, ConflictKeeps
<1>5. CASE /\ Save(r, PendingRecord(f))
           /\ runner' = [runner EXCEPT
                 ![r].pc = IF guarantee = "at-least-once" THEN "run" ELSE "append",
                 ![r].token = version'[generation[r]]]
           /\ UNCHANGED <<declared, streams, history, aborts>>
  <2> DEFINE s == settled[g]  u == f.unit
  <2>1. /\ declared' = declared /\ guarantee' = guarantee /\ generation' = generation
        /\ inputs' = inputs /\ outputs' = outputs /\ outs' = outs /\ positions' = positions
        /\ settled' = settled /\ runs' = runs /\ dropped' = dropped /\ aborts' = aborts
    BY <1>5 DEF declared, streams, held, history
  <2>2. PICK c : c = PendingRecord(f)
    OBVIOUS
  <2>3. /\ c \in CheckpointRecord /\ c # None /\ c.pending # None
        /\ c.offset = Base(f).offset /\ c.state = Base(f).state /\ c.ended = Base(f).ended
        /\ c.nextSeq = Base(f).nextSeq /\ c.pending = [unit |-> u, seqs |-> f.seqs]
    BY <2>2, PendingRecordMeans
  <2>4. /\ TypeOK /\ version[g] \in Nat /\ f.token = version[g] /\ s \in Settled
        /\ record' = [record EXCEPT ![g] = c]
        /\ version' = [version EXCEPT ![g] = version[g] + 1]
    BY <1>1, <1>2, <1>5, <2>2 DEF Save, Inv, TypeOK
  <2>5. /\ record'[g] = c /\ version'[g] = version[g] + 1
        /\ \A k \in Generations \ {g} : record'[k] = record[k] /\ version'[k] = version[k]
    BY <2>4 DEF TypeOK
  <2>6. PICK pc \in {"run", "append"} : pc = IF guarantee = "at-least-once" THEN "run" ELSE "append"
    OBVIOUS
  <2>7. PICK h : h = [f EXCEPT !.pc = pc, !.token = version[g] + 1]
    OBVIOUS
  <2>8. /\ h \in Runner /\ h.pc = pc /\ h.token = version[g] + 1 /\ h.loaded = f.loaded
        /\ h.unit = u /\ h.turn = f.turn /\ h.seqs = f.seqs /\ h.left = f.left
    <3>1. PICK v \in Nat : v = version[g] + 1
      BY <2>4
    <3>2. pc \in Labels
      BY <2>6 DEF Labels
    <3>3. h = [f EXCEPT !.pc = pc, !.token = v]
      BY <2>7, <3>1
    <3>4. /\ h \in Runner /\ h.pc = pc /\ h.token = v /\ h.loaded = f.loaded
          /\ h.unit = f.unit /\ h.turn = f.turn /\ h.seqs = f.seqs /\ h.left = f.left
      BY <3>2, <3>3 DEF Runner
    <3> QED
      BY <3>1, <3>4
  <2>9. runner' = [runner EXCEPT ![r] = h]
    <3>1. runner' = [runner EXCEPT ![r].pc = pc, ![r].token = version[g] + 1]
      BY <1>2, <1>5, <2>5, <2>6
    <3>2. runner \in [Runners -> Runner]
      BY <2>4 DEF TypeOK
    <3> QED
      BY <1>1, <2>7, <3>1, <3>2 DEF Runner
  <2>10. /\ ~s.ended /\ Base(f).offset = s.offset /\ Base(f).state = s.state
         /\ Pinning => Base(f).nextSeq = s.length
         /\ ~HasPending(g)
    <3>1. Current(r, f) /\ ~Reborn(r, f) /\ ~Pinned(f)
      BY <1>2, <1>3, <2>4 DEF Current, Reborn, StageOK
    <3>2. f.loaded = record[g]
      BY <1>2, <1>3, <3>1 DEF CurrentOK
    <3>3. ~HasPending(g)
      BY <3>1, <3>2 DEF HasPending, Pinned, Base
    <3> QED
      BY <1>2, <1>3, <3>1, <3>3 DEF CurrentOK
  <2>11. /\ u.generation = g /\ u.from = s.offset /\ u.state = s.state /\ u \in Unit
         /\ \A i \in Inputs : s.offset[i] <= u.next[i] /\ u.next[i] <= inputs[i].sent
         /\ \A i \in u.gone : ~inputs[i].present
    BY <1>2, <1>3, <2>10 DEF PassOK, Runner
  <2>12. /\ f.seqs = Numbers(u, s.length) /\ f.seqs = Numbers(u, Base(f).nextSeq)
         /\ guarantee # "exactly-once" /\ ~Pinned(f)
         /\ Pinning => f.left # {} /\ f.left = Targets(f.seqs)
    BY <1>3, <2>10 DEF StageOK, Numbers
  <2>13. HasPending(g)' /\ \A k \in Generations \ {g} : HasPending(k)' <=> HasPending(k)
    BY <2>3, <2>5 DEF HasPending
  <2>14. TypeOK'
    BY <2>1, <2>3, <2>4, <2>8, <2>9 DEF TypeOK, declared
  <2>15. Pinning' <=> Pinning
    BY <2>1 DEF Pinning
  <2>16. Ledger'
    <3>1. Pendings' \subseteq Known \cup {u}
      BY <2>3, <2>5, <2>13 DEF Pendings, Known, HasPending
    <3>2. Written' = Written /\ Written \subseteq Known /\ runs \subseteq Known
      BY <2>1 DEF Written, Known
    <3>3. OwnUnit(h) \subseteq {u}
      BY <2>8 DEF OwnUnit
    <3>4. Known' \subseteq Known \cup {u}
      BY <2>1, <2>4, <2>8, <2>9, <3>1, <3>2, <3>3, PassAdds
    <3>5. ASSUME NEW o \in Outputs
          PROVE  Claims(o)' \subseteq
                   Claims(o) \cup (IF f.seqs[o] = None THEN {} ELSE {<<u, f.seqs[o]>>})
      <4>1. PendingClaims(o)' \subseteq
              PendingClaims(o) \cup (IF f.seqs[o] = None THEN {} ELSE {<<u, f.seqs[o]>>})
        BY <2>3, <2>5, <2>13 DEF PendingClaims, HasPending
      <4>2. LastClaim(o)' = LastClaim(o)
        BY <2>1 DEF LastClaim
      <4>3. OwnClaims(h, o) \subseteq (IF f.seqs[o] = None THEN {} ELSE {<<u, f.seqs[o]>>})
        BY <2>6, <2>8 DEF OwnClaims, HeldSeqs
      <4>4. PendingClaims(o) \subseteq Claims(o) /\ LastClaim(o) \subseteq Claims(o)
        BY DEF Claims
      <4>5. Claims(o)' \subseteq PendingClaims(o)' \cup Claims(o) \cup OwnClaims(h, o) \cup LastClaim(o)'
        BY <2>4, <2>8, <2>9, PassAdds
      <4> QED
        BY <4>1, <4>2, <4>3, <4>4, <4>5
    <3>6. \A i \in Inputs : u.from[i] <= u.next[i]
      BY <2>11
    <3>7. \A k \in Generations \ {g} :
            /\ HasPending(k)' <=> HasPending(k)
            /\ HasPending(k) => record'[k].pending = record[k].pending
      BY <2>5 DEF HasPending
    <3>8. PositionsOK /\ Ledger
      BY DEF Inv, Outlets
    <3>9. /\ u.generation = g /\ u.from = settled[g].offset /\ u.state = settled[g].state
          /\ u \in Unit /\ f.seqs = Numbers(u, settled[g].length)
          /\ ~HasPending(g) /\ HasPending(g)' /\ TypeOK
          /\ record'[g].pending = [unit |-> u, seqs |-> f.seqs]
          /\ guarantee' = guarantee /\ settled' = settled
      BY <2>1, <2>3, <2>4, <2>5, <2>10, <2>11, <2>12, <2>13
    <3> HIDE DEF s, u
    <3> QED
      BY ONLY g \in Generations, <3>4, <3>5, <3>6, <3>7, <3>8, <3>9, LedgerPins
  <2>17. RecordsOK'
    <3>1. \A k \in Generations \ {g} : RecordOK(k)'
      BY <2>1, <2>5, OtherRecordsStay
    <3>2. RecordOK(g)
      BY DEF Inv, RecordsOK
    <3>3. PendingOK(g, c.pending)'
      <4>1. c.pending.unit = u /\ c.pending.seqs = f.seqs
        BY <2>3
      <4>2. Numbers(u, s.length)' = Numbers(u, s.length)
        BY <2>1, <2>15 DEF Numbers
      <4> QED
        BY <2>1, <2>10, <2>11, <2>12, <2>15, <4>1, <4>2 DEF PendingOK
    <3>4. version'[g] > 0
      BY <2>4, <2>5
    <3>5. PendingOK(g, record[g].pending)'
      BY <2>5, <3>3 DEF PendingOK
    <3>6. RecordOK(g)'
      <4>1. record'[g] = c /\ c # None /\ c.offset = s.offset /\ c.state = s.state
            /\ c.ended = s.ended /\ (Pinning => c.nextSeq = s.length)
        <5>1. c.ended \in BOOLEAN /\ s.ended \in BOOLEAN /\ ~c.ended /\ ~s.ended
          BY <1>3, <2>3, <2>4, <2>10 DEF CheckpointRecord, Settled, PassOK
        <5> QED
          BY <2>3, <2>5, <2>10, <5>1
      <4>2. \A i \in Inputs : s.offset[i] <= inputs[i].sent
        BY <3>2 DEF RecordOK
      <4> HIDE DEF u
      <4> QED
        BY <2>1, <2>10, <2>15, <3>4, <3>5, <4>1, <4>2 DEF RecordOK
    <3> QED
      BY <3>1, <3>6 DEF RecordsOK
  <2>18. RunnerOK(r, h)'
    <3>1. Base(h) = Base(f) /\ Pinned(h) = Pinned(f) /\ Base(h)' = Base(h) /\ Pinned(h)' = Pinned(h)
      BY <2>8 DEF Base, Pinned
    <3>2. PassOK(r, h)'
      <4>1. h.token <= version'[g]
        BY <2>4, <2>5, <2>8
      <4> QED
        BY <1>2, <1>3, <2>1, <2>8, <2>12, <3>1, <4>1 DEF PassOK
    <3>3. guarantee \in {"effectively-once", "exactly-once", "at-least-once"}
      BY <2>4, ParameterAssumption DEF TypeOK
    <3>4. Numbers(f.unit, Base(f).nextSeq)' = Numbers(f.unit, Base(f).nextSeq)
      BY <2>15 DEF Numbers
    <3>5. StageOK(h)'
      BY <1>3, <2>1, <2>6, <2>8, <2>12, <2>15, <3>1, <3>3, <3>4 DEF StageOK, Pinning
    <3>6. CurrentOK(r, h)'
      <4>1. c.pending.unit = u /\ c.pending.seqs = f.seqs
        BY <2>3
      <4> QED
        BY <1>2, <2>1, <2>5, <2>6, <2>8, <2>10, <2>13, <2>15, <3>1, <4>1 DEF CurrentOK
    <3>7. ReadOK(h)' /\ EndOK(r, h)'
      BY <2>6, <2>8 DEF ReadOK, EndOK
    <3>8. SentOK(r, h)'
      <4>1. pc = "append" => Pinning
        BY <2>6, <2>12, <3>3 DEF Pinning
      <4> QED
        BY <2>6, <2>8, <2>12, <4>1 DEF SentOK
    <3> QED
      BY <3>2, <3>5, <3>6, <3>7, <3>8 DEF RunnerOK
  <2>19. RunnersOK'
    <3>1. ASSUME NEW q \in Runners \ {r} PROVE CheckpointGrows(generation[q])
      <4> PICK k \in Generations : k = generation[q]
        BY <2>4 DEF TypeOK
      <4>1. version[k] \in Nat /\ settled[k].offset \in [Inputs -> Nat] /\ RecordOK(k)
        BY <2>4 DEF TypeOK, Settled, Inv, RecordsOK
      <4> QED
        BY <2>1, <2>4, <2>5, <4>1 DEF CheckpointGrows, RecordOK
    <3>2. StreamsGrow
      BY <2>1, <2>4 DEF StreamsGrow, TypeOK, Input
    <3> QED
      BY <2>1, <2>8, <2>9, <2>14, <2>18, <3>1, <3>2, RunnersKeep
  <2>20. InputsOK'
    BY <2>1 DEF Inv, InputsOK
  <2>21. Outlets' /\ NothingLost' /\ EverythingRan' /\ Supported'
    BY <2>1, OutletsStay DEF held, history
  <2> QED
    BY <2>14, <2>16, <2>17, <2>19, <2>20, <2>21 DEF Inv
<1> QED
  BY <1>1, <1>4, <1>5 DEF Pin

-----------------------------------------------------------------------------
(***************************************************************************)
(* The appends.                                                            *)
(***************************************************************************)
LEMMA FirstOfIsIn ==
    ASSUME NEW left \in SUBSET Outputs, left # {}
    PROVE  FirstOf(left) \in left
<1> DEFINE T == {k \in 1..Len(OutputOrder) : OutputOrder[k] \in left}
<1>1. OutputOrder \in Seq(Outputs) /\ Len(OutputOrder) \in Nat
  BY OrderAssumption, LenProperties
<1>2. T \subseteq Nat /\ T # {}
  <2>1. PICK o \in left : TRUE
    OBVIOUS
  <2>2. PICK k \in 1..Len(OutputOrder) : OutputOrder[k] = o
    BY <2>1, OrderAssumption
  <2> QED
    BY <1>1, <2>1, <2>2
<1>3. PICK x \in T : \A y \in T : ~(<<y, x>> \in OpToRel(<, Nat))
  <2> HIDE DEF T
  <2> QED
    BY <1>2, NatLessThanWellFounded, WFMin, Zenon
<1>4. \A y \in T : ~(y < x)
  BY <1>2, <1>3 DEF OpToRel
<1>5. /\ x \in 1..Len(OutputOrder) /\ OutputOrder[x] \in left
      /\ \A j \in 1..x - 1 : OutputOrder[j] \notin left
  BY <1>1, <1>4
<1> QED
  BY <1>5 DEF FirstOf

LEMMA LastWritten ==
    ASSUME Inv, Pinning, NEW o \in Outputs, positions[o] # None, NEW w, w = outs[o][Len(outs[o])]
    PROVE  /\ Len(outs[o]) \in 1..Len(outs[o]) /\ w \in Unit /\ w \in Known
           /\ <<w, positions[o].lastSeq>> \in Claims(o)
           /\ w.generation = positions[o].epoch
           /\ positions[o].epoch \in Nat /\ positions[o].lastSeq \in Nat
           /\ \A m \in 1..Len(outs[o]) : outs[o][m].generation <= w.generation
<1>1. TypeOK /\ PositionsOK /\ OldGenerationIsFenced
  BY DEF Inv, Outlets
<1>2. outs[o] # <<>> /\ outs[o] \in Seq(Unit) /\ w.generation = positions[o].epoch
  BY <1>1 DEF PositionsOK, TypeOK
<1>3. Len(outs[o]) \in 1..Len(outs[o]) /\ w \in Unit
  BY <1>2
<1>4. positions[o] \in ProducerState
  BY <1>1 DEF TypeOK
<1>5. w \in {outs[o][m] : m \in 1..Len(outs[o])}
  BY <1>3
<1>6. w \in Known
  BY <1>5 DEF Known, Written
<1>7. <<w, positions[o].lastSeq>> \in Claims(o)
  BY DEF Claims, LastClaim
<1>8. ASSUME NEW m \in 1..Len(outs[o]) PROVE outs[o][m].generation <= w.generation
  <2>1. w.generation \in Nat /\ Len(outs[o]) \in Nat
    BY <1>2, <1>3 DEF Unit
  <2>2. CASE m = Len(outs[o])
    BY <2>1, <2>2
  <2>3. CASE m < Len(outs[o])
    BY <1>1, <1>3, <2>3 DEF OldGenerationIsFenced, Pinning
  <2> QED
    BY <2>1, <2>2, <2>3
<1> QED
  BY <1>2, <1>3, <1>4, <1>6, <1>7, <1>8 DEF ProducerState

LEMMA LenOfEmpty == Len(<<>>) = 0
OBVIOUS

LEMMA AcceptedKeepsOutlets ==
    ASSUME Inv, Pinning, guarantee' = guarantee, runs' = runs,
           NEW o \in Outputs, NEW u \in Unit, NEW n \in Nat,
           u \in Known, <<u, n>> \in Claims(o),
           outs'[o] = Append(outs[o], u),
           positions'[o] = [epoch |-> u.generation, lastSeq |-> n],
           \A p \in Outputs \ {o} : outs'[p] = outs[p] /\ positions'[p] = positions[p],
           \/ positions[o] = None /\ n = 0
           \/ positions[o] # None /\ positions[o].epoch < u.generation /\ n = 0
           \/ positions[o] # None /\ positions[o].epoch = u.generation
                                  /\ n = positions[o].lastSeq + 1,
           \A i \in Inputs : u.from[i] <= Len(Routes[i])
    PROVE  Outlets'
<1> DEFINE L == Len(outs[o])
<1>1. TypeOK /\ PositionsOK /\ Sorted /\ NoHole /\ OldGenerationIsFenced /\ Ledger
  BY DEF Inv, Outlets
<1>2. /\ outs[o] \in Seq(Unit) /\ L \in Nat
      /\ outs'[o] = Append(outs[o], u) /\ Len(outs'[o]) = L + 1 /\ outs'[o][L + 1] = u
      /\ \A m \in 1..L : outs'[o][m] = outs[o][m] /\ outs[o][m] \in Unit
      /\ \A p \in Outputs \ {o} : outs'[p] = outs[p] /\ positions'[p] = positions[p]
      /\ positions'[o] = [epoch |-> u.generation, lastSeq |-> n]
  BY <1>1 DEF TypeOK
<1>3. PICK w : w = outs[o][L]
  OBVIOUS
<1>4. Pinning'
  BY DEF Pinning
<1>5. NumberOK(o, u, n)
  BY <1>1 DEF Ledger, Numbered
<1>6. u.generation \in Nat /\ u.state \in Nat /\ u.from \in [Inputs -> Nat]
  BY DEF Unit
<1>8. positions[o] = None => L = 0
  BY <1>1 DEF PositionsOK
<1>9. positions[o] # None =>
         /\ L \in 1..L /\ w \in Unit /\ w \in Known
         /\ <<w, positions[o].lastSeq>> \in Claims(o)
         /\ w.generation = positions[o].epoch
         /\ positions[o].epoch \in Nat /\ positions[o].lastSeq \in Nat
         /\ \A m \in 1..L : outs[o][m].generation <= w.generation
  BY <1>3, LastWritten
<1>10. positions[o] # None /\ positions[o].epoch = u.generation =>
         OrderOK(o, w, positions[o].lastSeq, u, n)
  BY <1>1, <1>9 DEF Ledger, Ordered
<1> HIDE DEF L
<1>11. ASSUME NEW m \in 1..L
       PROVE  /\ outs[o][m].generation <= u.generation
              /\ outs[o][m].generation = u.generation => outs[o][m].state < u.state
  <2>1. positions[o] # None
    BY <1>8, <1>11
  <2>2. outs[o][m].generation <= w.generation /\ outs[o][m].generation \in Nat
        /\ outs[o][m].state \in Nat /\ w.generation \in Nat /\ w.state \in Nat
    BY <1>2, <1>9, <1>11, <2>1 DEF Unit
  <2>3. CASE positions[o].epoch < u.generation
    BY <1>6, <1>9, <2>1, <2>2, <2>3
  <2>4. CASE positions[o].epoch = u.generation /\ n = positions[o].lastSeq + 1
    <3>1. w.state < u.state /\ w.generation = u.generation
      BY <1>9, <1>10, <2>1, <2>4 DEF OrderOK
    <3>2. m < L /\ outs[o][m].generation = w.generation => outs[o][m].state < w.state
      BY <1>1, <1>3, <1>9, <1>11, <2>1 DEF Sorted, L
    <3>3. m = L => outs[o][m] = w
      BY <1>3 DEF L
    <3>4. m < L \/ m = L
      BY <1>2
    <3> QED
      BY <1>6, <2>2, <3>1, <3>2, <3>3, <3>4
  <2> QED
    BY <2>1, <2>3, <2>4
<1>12. Sorted'
  <2> SUFFICES ASSUME NEW p \in Outputs, NEW a \in 1..Len(outs'[p]), NEW b \in 1..Len(outs'[p]),
                      a < b, outs'[p][a].generation = outs'[p][b].generation
               PROVE  outs'[p][a].state < outs'[p][b].state
    BY DEF Sorted
  <2>1. CASE p # o
    BY <1>1, <1>2, <2>1 DEF Sorted
  <2>2. CASE p = o /\ b = L + 1
    <3>1. a \in 1..L
      BY <1>2, <2>2
    <3> QED
      BY <1>2, <1>11, <2>2, <3>1
  <2>3. CASE p = o /\ b # L + 1
    <3>1. a \in 1..L /\ b \in 1..L
      BY <1>2, <2>3
    <3> QED
      BY <1>1, <1>2, <2>3, <3>1 DEF Sorted, L
  <2> QED
    BY <2>1, <2>2, <2>3
<1>13. OldGenerationIsFenced'
  <2> SUFFICES ASSUME NEW p \in Outputs, NEW a \in 1..Len(outs'[p]), NEW b \in 1..Len(outs'[p]),
                      a < b
               PROVE  outs'[p][a].generation <= outs'[p][b].generation
    BY DEF OldGenerationIsFenced
  <2>1. CASE p # o
    BY <1>1, <1>2, <2>1 DEF OldGenerationIsFenced, Pinning
  <2>2. CASE p = o /\ b = L + 1
    <3>1. a \in 1..L
      BY <1>2, <2>2
    <3> QED
      BY <1>2, <1>11, <2>2, <3>1
  <2>3. CASE p = o /\ b # L + 1
    <3>1. a \in 1..L /\ b \in 1..L
      BY <1>2, <2>3
    <3> QED
      BY <1>1, <1>2, <2>3, <3>1 DEF OldGenerationIsFenced, Pinning, L
  <2> QED
    BY <2>1, <2>2, <2>3
<1>14. NoHole'
  <2> SUFFICES ASSUME NEW p \in Outputs, NEW a \in 1..Len(outs'[p]), NEW i \in Inputs,
                      NEW k \in 1..outs'[p][a].from[i], p \in Routes[i][k]
               PROVE  \E b \in 1..a - 1 : /\ outs'[p][b].generation = outs'[p][a].generation
                                          /\ k \in Items(outs'[p][b], i)
    BY DEF NoHole
  <2>1. CASE p # o
    <3>1. outs'[p] = outs[p]
      BY <1>2, <2>1
    <3>2. NoHole /\ guarantee = "effectively-once"
      BY <1>1 DEF Pinning
    <3> QED
      BY ONLY p \in Outputs, a \in 1..Len(outs'[p]), i \in Inputs, k \in 1..outs'[p][a].from[i],
              p \in Routes[i][k], <3>1, <3>2 DEF NoHole
  <2>2. CASE p = o /\ a # L + 1
    <3>1. a \in 1..L
      BY <1>2, <2>2
    <3>2. PICK b \in 1..a - 1 : /\ outs[o][b].generation = outs[o][a].generation
                                /\ k \in Items(outs[o][b], i)
      BY <1>1, <1>2, <2>2, <3>1 DEF NoHole, Pinning, L
    <3>3. b \in 1..L
      BY <1>2, <3>1
    <3> QED
      BY <1>2, <2>2, <3>1, <3>2, <3>3
  <2>3. CASE p = o /\ a = L + 1
    <3>1. /\ k \in 1..u.from[i] /\ o \in Routes[i][k] /\ u.from[i] \in Nat
          /\ Len(Routes[i]) \in Nat /\ u.from[i] <= Len(Routes[i])
      BY <1>2, <1>6, <2>3, RoutesAssumption, LenProperties
    <3>2. k \in 1..Len(Routes[i])
      BY <3>1
    <3>3. n # 0
      <4>1. ~Silent(o, NoItems, u.from)
        BY <3>1, <3>2 DEF Silent, NoItems
      <4> QED
        BY <1>5, <4>1 DEF NumberOK
    <3>4. positions[o] # None /\ positions[o].epoch = u.generation /\ n = positions[o].lastSeq + 1
      BY <3>3
    <3>5. Silent(o, w.next, u.from) /\ w.generation = u.generation
      BY <1>9, <1>10, <3>4 DEF OrderOK
    <3>6. k <= w.next[i] /\ w.next[i] \in Nat /\ w.from[i] \in Nat
      <4>1. w.next[i] \in Nat /\ w.from[i] \in Nat
        BY <1>9, <3>4 DEF Unit
      <4>2. ~(w.next[i] < k)
        BY <3>1, <3>2, <3>5 DEF Silent
      <4> QED
        BY <3>2, <4>1, <4>2
    <3>7. CASE w.from[i] < k
      <4>1. k \in Items(w, i)
        BY <3>2, <3>6, <3>7 DEF Items
      <4>2. L \in 1..a - 1 /\ outs'[o][L] = w
        BY <1>2, <1>3, <1>9, <2>3, <3>4 DEF L
      <4> QED
        BY <1>2, <2>3, <3>5, <4>1, <4>2
    <3>8. CASE k <= w.from[i]
      <4>1. k \in 1..w.from[i] /\ L \in 1..L /\ w = outs[o][L]
        BY <1>3, <1>9, <3>2, <3>4, <3>6, <3>8 DEF L
      <4>2. PICK b \in 1..L - 1 : /\ outs[o][b].generation = outs[o][L].generation
                                  /\ k \in Items(outs[o][b], i)
        BY <1>1, <3>1, <4>1 DEF NoHole, Pinning, L
      <4>3. b \in 1..L /\ b \in 1..a - 1
        BY <1>2, <2>3
      <4> QED
        BY <1>2, <2>3, <3>5, <4>1, <4>2, <4>3
    <3> QED
      BY <3>1, <3>2, <3>6, <3>7, <3>8
  <2> QED
    BY <2>1, <2>2, <2>3
<1>15. PositionsOK'
  <2>1. ASSUME NEW p \in Outputs
        PROVE  /\ positions'[p] = None <=> outs'[p] = <<>>
               /\ positions'[p] # None => positions'[p].epoch = outs'[p][Len(outs'[p])].generation
    <3>1. CASE p # o
      BY <1>1, <1>2, <3>1 DEF PositionsOK
    <3>2. CASE p = o
      <4>1. positions'[o] # None
        BY <1>2, <1>6, NoneAssumption DEF ProducerState
      <4>2. outs'[o] # <<>>
        <5>1. Len(outs'[o]) # 0
          BY ONLY <1>2
        <5> QED
          BY ONLY <5>1, LenOfEmpty
      <4> QED
        BY <1>2, <3>2, <4>1, <4>2
    <3> QED
      BY <3>1, <3>2
  <2>2. guarantee' # "at-least-once" /\ (guarantee' # "at-least-once" => runs' = {})
    BY <1>1, <1>4 DEF PositionsOK, Pinning
  <2> QED
    BY <1>4, <2>1, <2>2 DEF PositionsOK
<1> QED
  BY <1>12, <1>13, <1>14, <1>15 DEF Outlets

LEMMA AppendPinnedKeeps == ASSUME Inv, NEW r \in Runners, AppendPinned(r) PROVE Inv'
<1>1. PICK f \in Runner : f = runner[r]
  BY DEF Inv, TypeOK
<1>2. PICK g \in Generations : g = generation[r] /\ g \in Nat
  BY ParameterAssumption DEF Inv, TypeOK
<1>3. /\ RunnerOK(r, f) /\ f.pc = "append" /\ f.pc \in Mid
      /\ PassOK(r, f) /\ StageOK(f) /\ CurrentOK(r, f) /\ SentOK(r, f)
  BY <1>1 DEF Inv, RunnersOK, RunnerOK, AppendPinned, At, Mid
<1>4. /\ TypeOK /\ Ledger /\ PositionsOK /\ InputsOK /\ Pinning
      /\ f.left # {} /\ f.left \subseteq Targets(f.seqs)
  BY <1>3 DEF Inv, Outlets, StageOK
<1>5. PICK o \in Outputs : o = FirstOf(f.left) /\ o \in f.left /\ f.seqs[o] # None
  BY <1>4, FirstOfIsIn DEF Targets
<1>6. PICK u \in Unit : u = f.unit
  BY DEF Runner
<1>7. PICK n \in Nat : n = f.seqs[o]
  BY <1>5 DEF Runner, Seqs
<1>8. PICK p : p = [id |-> Producer, epoch |-> g, seq |-> n]
  OBVIOUS
<1>9. PICK answer : answer = Answer(o, p)
  OBVIOUS
<1> DEFINE rest == f.left \ {o}
<1>10. /\ IF answer = "Accepted"
          THEN /\ outs' = [outs EXCEPT ![o] = Append(outs[o], u)]
               /\ positions' = [positions EXCEPT ![o] = [epoch |-> u.generation, lastSeq |-> n]]
          ELSE UNCHANGED held
       /\ IF answer \in {"Accepted", "Duplicate"}
          THEN runner' = [runner EXCEPT ![r].left = rest,
                            ![r].pc = IF rest = {} THEN "settle" ELSE "append"]
          ELSE Finish(r)
       /\ UNCHANGED <<declared, checkpoint, inputs, outputs, history, aborts>>
  <2>1. u.generation = g
    BY <1>2, <1>3, <1>6 DEF PassOK
  <2>2. ProposedState(p) = [epoch |-> u.generation, lastSeq |-> n]
    BY <1>8, <2>1 DEF ProposedState
  <2> QED
    BY <1>1, <1>2, <1>5, <1>6, <1>7, <1>8, <1>9, <2>2 DEF AppendPinned
<1>11. /\ declared' = declared /\ guarantee' = guarantee /\ generation' = generation
       /\ inputs' = inputs /\ outputs' = outputs /\ record' = record /\ version' = version
       /\ settled' = settled /\ runs' = runs /\ dropped' = dropped /\ aborts' = aborts
       /\ (Pinning' <=> Pinning)
  BY <1>10 DEF declared, checkpoint, history, Pinning
<1>12. u \in Known /\ <<u, n>> \in Claims(o) /\ u.generation = g
  <2>1. Holds(f) /\ HeldSeqs(f) = f.seqs
    BY <1>3 DEF Holds, HeldSeqs
  <2>2. u \in Known
    BY <1>1, <1>6, <2>1 DEF Known
  <2>3. <<u, n>> \in Claims(o)
    BY <1>1, <1>5, <1>6, <1>7, <2>1 DEF Claims
  <2> QED
    BY <1>2, <1>3, <1>6, <2>2, <2>3 DEF PassOK
<1>13. answer \in {"Accepted", "Duplicate"} =>
         \/ /\ answer = "Accepted"
            /\ \/ positions[o] = None /\ n = 0
               \/ positions[o] # None /\ positions[o].epoch < g /\ n = 0
               \/ positions[o] # None /\ positions[o].epoch = g /\ n = positions[o].lastSeq + 1
         \/ /\ answer = "Duplicate"
            /\ positions[o] # None /\ positions[o].epoch = g /\ n <= positions[o].lastSeq
  <2>1. positions[o] # None => positions[o].epoch \in Nat /\ positions[o].lastSeq \in Nat
    BY <1>4 DEF TypeOK, ProducerState
  <2>2. p.epoch = g /\ p.seq = n
    BY <1>8
  <2> QED
    BY <1>2, <1>9, <2>1, <2>2 DEF Answer, ValidateProducer
<1>14. CASE answer \notin {"Accepted", "Duplicate"}
  <2>1. Local /\ UNCHANGED outputs /\ aborts' \in Nat /\ Finish(r)
    BY <1>4, <1>10, <1>11, <1>14 DEF Local, checkpoint, history, TypeOK
  <2> QED
    BY <2>1, FinishKeeps
<1>15. CASE answer \in {"Accepted", "Duplicate"}
  <2>1. PICK pc \in {"settle", "append"} : pc = IF rest = {} THEN "settle" ELSE "append"
    OBVIOUS
  <2>2. PICK left \in SUBSET Outputs : left = f.left \ {o}
    BY <1>4 DEF Targets
  <2>3. PICK h : h = [f EXCEPT !.left = left, !.pc = pc]
    OBVIOUS
  <2>4. /\ runner' = [runner EXCEPT ![r] = h]
        /\ h \in Runner /\ h.pc = pc /\ h.left = left /\ h.loaded = f.loaded
        /\ h.token = f.token /\ h.unit = u /\ h.turn = f.turn /\ h.seqs = f.seqs
    <3>1. runner' = [runner EXCEPT ![r].left = left, ![r].pc = pc]
      BY <1>10, <1>15, <2>1, <2>2
    <3>2. runner \in [Runners -> Runner]
      BY <1>4 DEF TypeOK
    <3>3. runner' = [runner EXCEPT ![r] = h]
      BY <1>1, <2>3, <3>1, <3>2 DEF Runner
    <3>4. pc \in Labels
      BY <2>1 DEF Labels
    <3>5. /\ h \in Runner /\ h.pc = pc /\ h.left = left /\ h.loaded = f.loaded
          /\ h.token = f.token /\ h.unit = f.unit /\ h.turn = f.turn /\ h.seqs = f.seqs
      BY <2>2, <2>3, <3>4 DEF Runner
    <3> QED
      BY <1>6, <3>3, <3>5
  <2>5. /\ answer = "Accepted" =>
             /\ outs' = [outs EXCEPT ![o] = Append(outs[o], u)]
             /\ positions' = [positions EXCEPT ![o] = [epoch |-> u.generation, lastSeq |-> n]]
        /\ answer # "Accepted" => outs' = outs /\ positions' = positions
    BY <1>10 DEF held
  <2>6. /\ \A q \in Outputs : /\ Len(outs[q]) \in Nat /\ Len(outs'[q]) \in Nat
                              /\ Len(outs[q]) <= Len(outs'[q])
                              /\ \A m \in 1..Len(outs[q]) : outs'[q][m] = outs[q][m]
        /\ \A q \in Outputs : \A m \in 1..Len(outs'[q]) :
              m \in 1..Len(outs[q]) \/ (answer = "Accepted" /\ outs'[q][m] = u)
        /\ outs' \in [Outputs -> Seq(Unit)]
        /\ answer = "Accepted" => /\ Len(outs'[o]) \in 1..Len(outs'[o])
                                  /\ outs'[o][Len(outs'[o])] = u
    <3>1. outs \in [Outputs -> Seq(Unit)]
      BY <1>4 DEF TypeOK
    <3>2. CASE answer = "Accepted"
      <4>1. /\ outs'[o] = Append(outs[o], u) /\ outs[o] \in Seq(Unit)
            /\ \A q \in Outputs \ {o} : outs'[q] = outs[q]
        BY <2>5, <3>1, <3>2
      <4>2. /\ Len(outs'[o]) = Len(outs[o]) + 1 /\ Len(outs[o]) \in Nat
            /\ outs'[o][Len(outs[o]) + 1] = u
            /\ \A m \in 1..Len(outs[o]) : outs'[o][m] = outs[o][m]
        BY <4>1
      <4>3. outs' \in [Outputs -> Seq(Unit)]
        <5>1. outs' = [outs EXCEPT ![o] = Append(outs[o], u)]
          BY <2>5, <3>2
        <5>2. Append(outs[o], u) \in Seq(Unit)
          BY <4>1, AppendProperties
        <5> QED
          BY ONLY <3>1, <5>1, <5>2
      <4>4. \A q \in Outputs : Len(outs[q]) \in Nat
        BY <3>1, LenProperties
      <4>5. ASSUME NEW q \in Outputs
            PROVE  /\ Len(outs[q]) \in Nat /\ Len(outs'[q]) \in Nat
                   /\ Len(outs[q]) <= Len(outs'[q])
                   /\ \A m \in 1..Len(outs[q]) : outs'[q][m] = outs[q][m]
                   /\ \A m \in 1..Len(outs'[q]) :
                        m \in 1..Len(outs[q]) \/ (answer = "Accepted" /\ outs'[q][m] = u)
        <5>1. CASE q = o
          BY ONLY <3>2, <4>2, <5>1
        <5>2. CASE q # o
          <6>1. outs'[q] = outs[q] /\ Len(outs[q]) \in Nat
            BY ONLY <4>1, <4>4, <4>5, <5>2
          <6> QED
            BY ONLY <6>1
        <5> QED
          BY ONLY <5>1, <5>2
      <4>6. Len(outs'[o]) \in 1..Len(outs'[o]) /\ outs'[o][Len(outs'[o])] = u
        BY ONLY <4>2
      <4> QED
        BY ONLY <4>3, <4>5, <4>6
    <3>3. CASE answer # "Accepted"
      BY <2>5, <3>1, <3>3, LenProperties
    <3> QED
      BY <3>2, <3>3
  <2>7. TypeOK'
    <3>1. positions' \in [Outputs -> ProducerState \cup {None}]
      <4>1. [epoch |-> u.generation, lastSeq |-> n] \in ProducerState
        BY <1>2, <1>12 DEF ProducerState
      <4>2. positions \in [Outputs -> ProducerState \cup {None}]
        BY <1>4 DEF TypeOK
      <4>3. CASE answer = "Accepted"
        BY <2>5, <4>1, <4>2, <4>3
      <4>4. CASE answer # "Accepted"
        BY <2>5, <4>2, <4>4
      <4> QED
        BY <4>3, <4>4
    <3>2. runner' \in [Runners -> Runner]
      BY <1>4, <2>4 DEF TypeOK
    <3> QED
      BY <1>4, <1>11, <2>6, <3>1, <3>2 DEF TypeOK, declared
  <2>8. Outlets'
    <3>1. CASE answer = "Accepted"
      <4>1. \A i \in Inputs : u.from[i] <= Len(Routes[i])
        <5> TAKE i \in Inputs
        <5>1. u.from[i] <= u.next[i] /\ u.next[i] <= inputs[i].sent /\ inputs[i].sent <= Len(Routes[i])
          BY <1>3, <1>4, <1>6 DEF PassOK, InputsOK
        <5>2. u.from[i] \in Nat /\ u.next[i] \in Nat /\ inputs[i].sent \in Nat /\ Len(Routes[i]) \in Nat
          BY <1>4, RoutesAssumption, LenProperties DEF TypeOK, Unit, Input
        <5> QED
          BY <5>1, <5>2
      <4> QED
        <5>1. /\ guarantee' = guarantee /\ runs' = runs /\ u \in Known /\ <<u, n>> \in Claims(o)
              /\ outs'[o] = Append(outs[o], u)
              /\ positions'[o] = [epoch |-> u.generation, lastSeq |-> n]
              /\ \A q \in Outputs \ {o} : outs'[q] = outs[q] /\ positions'[q] = positions[q]
          BY <1>4, <1>11, <1>12, <2>5, <3>1 DEF TypeOK
        <5>2. \/ positions[o] = None /\ n = 0
              \/ positions[o] # None /\ positions[o].epoch < u.generation /\ n = 0
              \/ positions[o] # None /\ positions[o].epoch = u.generation
                                     /\ n = positions[o].lastSeq + 1
          BY <1>12, <1>13, <1>15, <3>1
        <5>3. Inv /\ Pinning /\ o \in Outputs /\ u \in Unit /\ n \in Nat
          BY <1>4
        <5> HIDE DEF Inv, Pinning, Known, Claims, Unit, Outlets
        <5> QED
          BY ONLY <4>1, <5>1, <5>2, <5>3, AcceptedKeepsOutlets
    <3>2. CASE answer # "Accepted"
      <4>1. UNCHANGED <<declared, held, history>>
        BY <1>10, <3>2
      <4> QED
        BY <4>1, OutletsStay
    <3> QED
      BY <3>1, <3>2
  <2>9. Ledger'
    <3>1. SamePending
      BY <1>11 DEF SamePending, HasPending
    <3>2. OwnUnit(h) \subseteq Known
      BY <1>12, <2>4 DEF OwnUnit
    <3>3. \A q \in Outputs : OwnClaims(h, q) \subseteq Claims(q)
      BY <1>1, <1>3, <1>6, <2>1, <2>4 DEF OwnClaims, Claims, Holds, HeldSeqs
    <3>4. Written' \subseteq Known
      <4>1. \A q \in Outputs : \A m \in 1..Len(outs'[q]) : outs'[q][m] \in Known
        BY <1>12, <2>6 DEF Known, Written
      <4> QED
        BY <4>1 DEF Written
    <3>5. Known' \subseteq Known
      <4>1. Known' \subseteq Pendings' \cup Known \cup OwnUnit(h) \cup Written' \cup runs'
        BY <1>4, <2>4, PassAdds
      <4>2. Pendings' = Pendings
        BY <3>1, SamePendingIsKnown
      <4>3. Pendings \subseteq Known /\ runs \subseteq Known
        BY DEF Known
      <4> QED
        BY <1>11, <3>2, <3>4, <4>1, <4>2, <4>3
    <3>6. ASSUME NEW q \in Outputs PROVE Claims(q)' \subseteq Claims(q)
      <4>1. Claims(q)' \subseteq PendingClaims(q)' \cup Claims(q) \cup OwnClaims(h, q) \cup LastClaim(q)'
        BY <1>4, <2>4, PassAdds
      <4>2. PendingClaims(q)' = PendingClaims(q) /\ PendingClaims(q) \subseteq Claims(q)
        BY <3>1, SamePendingIsKnown DEF Claims
      <4>3. LastClaim(q)' \subseteq Claims(q)
        <5>1. LastClaim(q) \subseteq Claims(q)
          BY DEF Claims
        <5>2. CASE q = o /\ answer = "Accepted"
          <6>1. positions'[o] = [epoch |-> u.generation, lastSeq |-> n]
            BY <1>4, <2>5, <5>2 DEF TypeOK
          <6>2. positions'[o].lastSeq = n
            BY <6>1
          <6> QED
            BY <1>12, <2>6, <5>2, <6>2 DEF LastClaim
        <5>3. CASE ~(q = o /\ answer = "Accepted")
          <6>1. outs'[q] = outs[q] /\ positions'[q] = positions[q]
            BY <1>4, <2>5, <5>3 DEF TypeOK
          <6> QED
            BY <5>1, <6>1 DEF LastClaim
        <5> QED
          BY <5>2, <5>3
      <4> QED
        BY <3>3, <4>1, <4>2, <4>3
    <3> QED
      BY <1>4, <1>11, <3>1, <3>5, <3>6, LedgerShrinks
  <2>10. RunnerOK(r, h)'
    <3>1. Base(h) = Base(f) /\ Pinned(h) = Pinned(f) /\ Base(h)' = Base(h) /\ Pinned(h)' = Pinned(h)
          /\ Current(r, h)' = Current(r, f)
      BY <1>11, <2>4 DEF Base, Pinned, Current
    <3>2. Numbers(h.unit, Base(f).nextSeq)' = Numbers(h.unit, Base(f).nextSeq)
          /\ Numbers(h.unit, h.loaded.nextSeq)' = Numbers(h.unit, h.loaded.nextSeq)
      BY <1>11 DEF Numbers
    <3>3. PassOK(r, h)'
      BY <1>3, <1>6, <1>11, <2>4, <3>1, <3>2 DEF PassOK
    <3>4. StageOK(h)'
      BY <1>3, <1>4, <1>6, <1>11, <2>1, <2>2, <2>4, <3>1, <3>2 DEF StageOK, Pinning
    <3>5. ReadOK(h)' /\ EndOK(r, h)'
      BY <2>1, <2>4 DEF ReadOK, EndOK
    <3>6. CurrentOK(r, h)'
      <4> SUFFICES ASSUME Current(r, h)' PROVE CurrentOK(r, h)'
        BY DEF CurrentOK
      <4>1. ~Reborn(r, f) /\ Pins(f)
        BY <1>3 DEF Reborn, Pins
      <4>2. /\ ~settled[g].ended
            /\ Base(f).offset = settled[g].offset /\ Base(f).state = settled[g].state
            /\ Pinning => Base(f).nextSeq = settled[g].length
            /\ record[g].pending.unit = f.unit /\ record[g].pending.seqs = f.seqs
            /\ HasPending(g)
        BY <1>2, <1>3, <3>1, <4>1 DEF CurrentOK
      <4>3. HasPending(g)'
        BY <1>11, <4>2 DEF HasPending
      <4>4. Pins(h)'
        BY <1>4, <1>5, <2>1, <2>4 DEF Pins, Targets
      <4> QED
        BY <1>2, <1>6, <1>11, <2>1, <2>4, <3>1, <4>2, <4>3, <4>4 DEF CurrentOK
    <3>7. SentOK(r, h)'
      <4>1. guarantee' # "at-least-once"
        BY <1>4, <1>11 DEF Pinning
      <4>2. ASSUME Current(r, h)', NEW q \in Targets(f.seqs) \ dropped, pc = "settle" \/ q \notin left
            PROVE  \E m \in 1..Len(outs'[q]) : outs'[q][m] = u
        <5>1. q \in Outputs /\ Current(r, f)
          BY <3>1, <4>2 DEF Targets
        <5>2. q = o \/ q \notin f.left
          BY <2>1, <2>2, <4>2
        <5>3. CASE q \notin f.left
          <6>1. PICK m \in 1..Len(outs[q]) : outs[q][m] = u
            BY <1>3, <1>6, <4>2, <5>1, <5>3 DEF SentOK
          <6> QED
            BY <2>6, <5>1, <6>1
        <5>4. CASE q = o /\ answer = "Accepted"
          BY <2>6, <5>4
        <5>5. CASE q = o /\ answer = "Duplicate"
          <6>1. positions[o] # None /\ positions[o].epoch = g /\ n <= positions[o].lastSeq
            BY <1>13, <5>5
          <6>2. PICK w : w = outs[o][Len(outs[o])]
            OBVIOUS
          <6>3. /\ Len(outs[o]) \in 1..Len(outs[o]) /\ w \in Unit /\ w \in Known
                /\ <<w, positions[o].lastSeq>> \in Claims(o) /\ w.generation = g
                /\ positions[o].lastSeq \in Nat
            BY <1>4, <6>1, <6>2, LastWritten
          <6>4. HasPending(g) /\ record[g].pending.unit = u
            BY <1>2, <1>3, <1>6, <5>1 DEF CurrentOK, Reborn, Pins
          <6>5. IsPending(u)
            BY <1>12, <6>4 DEF IsPending
          <6>6. NumberOK(o, u, n) /\ NumberOK(o, w, positions[o].lastSeq)
            BY <1>4, <1>12, <6>3 DEF Ledger, Numbered
          <6>7. n = settled[g].length[o]
            BY <1>12, <6>5, <6>6 DEF NumberOK
          <6>8. ~Past(w)
            BY <6>1, <6>3, <6>6, <6>7 DEF NumberOK
          <6>9. w = u
            BY <1>4, <6>3, <6>4, <6>8 DEF Ledger, UnitsOK, IsPending
          <6>10. /\ Len(outs[o]) \in 1..Len(outs'[o])
                 /\ outs'[o][Len(outs[o])] = outs[o][Len(outs[o])]
            BY <2>6, <6>3
          <6> QED
            BY <5>5, <6>2, <6>9, <6>10
        <5> QED
          BY <1>15, <5>2, <5>3, <5>4, <5>5
      <4> QED
        BY <1>11, <2>4, <4>1, <4>2 DEF SentOK
    <3> QED
      BY <3>3, <3>4, <3>5, <3>6, <3>7 DEF RunnerOK
  <2>11. RunnersOK'
    <3>1. ASSUME NEW q \in Runners \ {r} PROVE CheckpointGrows(generation[q])
      <4> PICK k \in Generations : k = generation[q]
        BY <1>4 DEF TypeOK
      <4>1. version[k] \in Nat /\ settled[k].offset \in [Inputs -> Nat] /\ RecordOK(k)
        BY <1>4 DEF TypeOK, Settled, Inv, RecordsOK
      <4> QED
        BY <1>11, <4>1 DEF CheckpointGrows, RecordOK
    <3>2. StreamsGrow
      <4>1. \A i \in Inputs : inputs[i].sent \in Nat
        BY <1>4 DEF TypeOK, Input
      <4>2. \A q \in Outputs : \A m \in 1..Len(outs[q]) :
              \E k \in 1..Len(outs'[q]) : outs'[q][k] = outs[q][m]
        BY <2>6
      <4> QED
        BY <1>11, <4>1, <4>2 DEF StreamsGrow
    <3> QED
      BY <1>11, <2>4, <2>7, <2>10, <3>1, <3>2, RunnersKeep
  <2>12. RecordsOK'
    <3>1. \A k \in Generations : HasPending(k)' <=> HasPending(k)
      BY <1>11 DEF HasPending
    <3> QED
      BY <1>11, <3>1 DEF Inv, RecordsOK, RecordOK, PendingOK, Numbers
  <2>13. InputsOK' /\ Supported'
    BY <1>11 DEF Inv, InputsOK, Supported, OneWriter
  <2>14. NothingLost' /\ EverythingRan'
    <3>1. EverythingRan'
      BY <1>4, <1>11 DEF EverythingRan, Pinning
    <3>2. NothingLost'
      <4> SUFFICES ASSUME NEW k \in Generations, NEW i \in Inputs,
                          NEW j \in 1..settled[k].offset[i], NEW q \in Routes[i][j] \ dropped,
                          guarantee # "at-least-once"
                   PROVE  \E m \in 1..Len(outs'[q]) :
                            outs'[q][m].generation = k /\ j \in Items(outs'[q][m], i)
        BY <1>11 DEF NothingLost
      <4>1. PICK m \in 1..Len(outs[q]) :
              outs[q][m].generation = k /\ j \in Items(outs[q][m], i)
        BY DEF Inv, NothingLost
      <4>2. q \in Outputs
        <5>1. settled[k].offset[i] \in Nat /\ inputs[i].sent \in Nat /\ Len(Routes[i]) \in Nat
          <6>1. settled[k] \in Settled /\ inputs[i] \in Input
            BY <1>4 DEF TypeOK
          <6> QED
            BY <6>1, RoutesAssumption, LenProperties DEF Settled, Input
        <5>2. settled[k].offset[i] <= inputs[i].sent /\ inputs[i].sent <= Len(Routes[i])
          BY DEF Inv, RecordsOK, RecordOK, InputsOK
        <5>3. j \in 1..Len(Routes[i]) /\ Routes[i] \in Seq(SUBSET Outputs)
          BY <5>1, <5>2, RoutesAssumption
        <5>4. Routes[i][j] \in SUBSET Outputs
          BY ONLY <5>3, ElementOfSeq
        <5> QED
          BY <5>4
      <4>3. m \in 1..Len(outs'[q]) /\ outs'[q][m] = outs[q][m]
        <5>1. Len(outs[q]) \in Nat /\ Len(outs'[q]) \in Nat /\ Len(outs[q]) <= Len(outs'[q])
              /\ \A x \in 1..Len(outs[q]) : outs'[q][x] = outs[q][x]
          BY <2>6, <4>2
        <5> QED
          BY ONLY <4>1, <5>1
      <4> QED
        BY <4>1, <4>3
    <3> QED
      BY <3>1, <3>2
  <2> QED
    BY <2>7, <2>8, <2>9, <2>11, <2>12, <2>13, <2>14 DEF Inv
<1> QED
  BY <1>14, <1>15


-----------------------------------------------------------------------------
(***************************************************************************)
(* The handler of an at-least-once projection, and the settling of a unit. *)
(***************************************************************************)

\* Steps that leave the record and the inputs alone.
LEMMA CheckpointStays ==
    ASSUME Inv, UNCHANGED <<declared, checkpoint, inputs, settled>>
    PROVE  /\ RecordsOK' /\ InputsOK' /\ Supported' /\ SamePending
           /\ \A q \in Runners : CheckpointGrows(generation[q])
<1>1. /\ record' = record /\ version' = version /\ settled' = settled /\ inputs' = inputs
      /\ guarantee' = guarantee /\ generation' = generation
  BY DEF declared, checkpoint
<1>2. \A k \in Generations : HasPending(k)' <=> HasPending(k)
  BY <1>1 DEF HasPending
<1>3. RecordsOK'
  BY <1>1, <1>2 DEF Inv, RecordsOK, RecordOK, PendingOK, Numbers, Pinning
<1>4. InputsOK' /\ Supported'
  BY <1>1 DEF Inv, InputsOK, Supported, OneWriter
<1>5. SamePending
  BY <1>1, <1>2 DEF SamePending
<1>6. ASSUME NEW q \in Runners PROVE CheckpointGrows(generation[q])
  <2> PICK k \in Generations : k = generation[q]
    BY DEF Inv, TypeOK
  <2>1. version[k] \in Nat /\ settled[k].offset \in [Inputs -> Nat] /\ RecordOK(k)
    BY DEF TypeOK, Settled, Inv, RecordsOK
  <2> QED
    BY <1>1, <2>1 DEF CheckpointGrows, RecordOK
<1> QED
  BY <1>3, <1>4, <1>5, <1>6

LEMMA RunKeeps == ASSUME Inv, NEW r \in Runners, Run(r) PROVE Inv'
<1>1. PICK f \in Runner : f = runner[r]
  BY DEF Inv, TypeOK
<1>2. PICK u \in Unit : u = f.unit
  BY DEF Runner
<1>3. /\ RunnerOK(r, f) /\ f.pc = "run" /\ f.pc \in Mid
      /\ PassOK(r, f) /\ StageOK(f) /\ CurrentOK(r, f) /\ guarantee = "at-least-once" /\ ~Pinning
  BY <1>1 DEF Inv, RunnersOK, RunnerOK, Run, At, Mid, StageOK, Pinning
<1>4. TypeOK /\ Ledger /\ PositionsOK
  BY DEF Inv, Outlets
<1>5. /\ declared' = declared /\ guarantee' = guarantee /\ generation' = generation
      /\ inputs' = inputs /\ outputs' = outputs /\ outs' = outs /\ positions' = positions
      /\ record' = record /\ version' = version /\ checkpoint' = checkpoint
      /\ settled' = settled /\ runs' = runs \cup {u} /\ dropped' = dropped /\ aborts' = aborts
      /\ (Pinning' <=> Pinning)
  BY <1>1, <1>2 DEF Run, declared, checkpoint, streams, held, Pinning
<1>6. PICK h : h = [f EXCEPT !.pc = "settle"]
  OBVIOUS
<1>7. /\ runner' = [runner EXCEPT ![r] = h]
      /\ h \in Runner /\ h.pc = "settle" /\ h.left = f.left /\ h.loaded = f.loaded
      /\ h.token = f.token /\ h.unit = u /\ h.turn = f.turn /\ h.seqs = f.seqs
  <2>1. runner' = [runner EXCEPT ![r].pc = "settle"] /\ runner \in [Runners -> Runner]
    BY <1>4 DEF Run, TypeOK
  <2>2. "settle" \in Labels
    BY DEF Labels
  <2> QED
    BY <1>1, <1>2, <1>6, <2>1, <2>2 DEF Runner
<1>8. Holds(f) /\ HeldSeqs(f) = f.seqs /\ u \in Known
  <2>1. Holds(f) /\ HeldSeqs(f) = f.seqs
    BY <1>3 DEF Holds, HeldSeqs
  <2> QED
    BY <1>1, <1>2, <2>1 DEF Known
<1>9. /\ RecordsOK' /\ InputsOK' /\ Supported' /\ SamePending
      /\ \A q \in Runners : CheckpointGrows(generation[q])
  BY <1>5, CheckpointStays
<1>10. TypeOK'
  BY <1>4, <1>5, <1>7 DEF TypeOK, declared
<1>11. Outlets'
  BY <1>3, <1>5 DEF Inv, Outlets, PositionsOK, Sorted, NoHole, OldGenerationIsFenced, Pinning
<1>12. Ledger'
  <2>1. OwnUnit(h) = {} /\ \A q \in Outputs : OwnClaims(h, q) = {}
    BY <1>7 DEF OwnUnit, OwnClaims, Holds
  <2>2. Known' \subseteq Known
    <3>1. Known' \subseteq Pendings' \cup Known \cup OwnUnit(h) \cup Written' \cup runs'
      BY <1>4, <1>7, PassAdds
    <3>2. Pendings' = Pendings /\ Written' = Written
      BY <1>5, <1>9, SamePendingIsKnown DEF Written
    <3>3. Pendings \subseteq Known /\ runs \subseteq Known /\ Written \subseteq Known
      BY DEF Known
    <3> QED
      BY <1>5, <1>8, <2>1, <3>1, <3>2, <3>3
  <2>3. ASSUME NEW q \in Outputs PROVE Claims(q)' \subseteq Claims(q)
    <3>1. Claims(q)' \subseteq PendingClaims(q)' \cup Claims(q) \cup OwnClaims(h, q) \cup LastClaim(q)'
      BY <1>4, <1>7, PassAdds
    <3>2. PendingClaims(q)' = PendingClaims(q) /\ LastClaim(q)' = LastClaim(q)
      BY <1>5, <1>9, SamePendingIsKnown DEF LastClaim
    <3>3. PendingClaims(q) \subseteq Claims(q) /\ LastClaim(q) \subseteq Claims(q)
      BY DEF Claims
    <3> QED
      BY <2>1, <3>1, <3>2, <3>3
  <2> QED
    BY <1>4, <1>5, <1>9, <2>2, <2>3, LedgerShrinks
<1>13. RunnerOK(r, h)'
  <2>1. Base(h) = Base(f) /\ Pinned(h) = Pinned(f) /\ Base(h)' = Base(h) /\ Pinned(h)' = Pinned(h)
        /\ Current(r, h)' = Current(r, f)
    BY <1>5, <1>7 DEF Base, Pinned, Current
  <2>2. /\ Numbers(h.unit, Base(f).nextSeq)' = Numbers(h.unit, Base(f).nextSeq)
        /\ Numbers(h.unit, h.loaded.nextSeq)' = Numbers(h.unit, h.loaded.nextSeq)
    BY <1>5 DEF Numbers
  <2>3. PassOK(r, h)'
    BY <1>2, <1>3, <1>5, <1>7, <2>1, <2>2 DEF PassOK, Mid
  <2>4. StageOK(h)'
    BY <1>2, <1>3, <1>5, <1>7, <2>1, <2>2 DEF StageOK
  <2>5. ReadOK(h)' /\ EndOK(r, h)'
    BY <1>7 DEF ReadOK, EndOK
  <2>6. CurrentOK(r, h)'
    <3> SUFFICES ASSUME Current(r, h)' PROVE CurrentOK(r, h)'
      BY DEF CurrentOK
    <3> PICK g \in Generations : g = generation[r]
      BY <1>4 DEF TypeOK
    <3>1. ~Reborn(r, f) /\ Pins(f)
      BY <1>3 DEF Reborn, Pins
    <3>2. /\ ~settled[g].ended
          /\ Base(f).offset = settled[g].offset /\ Base(f).state = settled[g].state
          /\ record[g].pending.unit = f.unit /\ record[g].pending.seqs = f.seqs
          /\ HasPending(g)
      BY <1>3, <2>1, <3>1 DEF CurrentOK
    <3>3. HasPending(g)'
      BY <1>5, <3>2 DEF HasPending
    <3>4. Pins(h)'
      BY <1>3, <1>5, <1>7 DEF Pins
    <3> QED
      BY <1>2, <1>3, <1>5, <1>7, <2>1, <3>2, <3>3, <3>4 DEF CurrentOK
  <2>7. SentOK(r, h)'
    <3>1. f.seqs = NoSeqs
      BY <1>3 DEF StageOK, Numbers
    <3>2. Targets(f.seqs) = {}
      BY <3>1 DEF Targets, NoSeqs
    <3>3. Targets(h.seqs)' = {}
      BY <1>7, <3>2 DEF Targets
    <3> QED
      BY <1>5, <1>7, <3>3 DEF SentOK
  <2> QED
    BY <2>3, <2>4, <2>5, <2>6, <2>7 DEF RunnerOK
<1>14. RunnersOK'
  <2>1. StreamsGrow
    <3>1. \A i \in Inputs : inputs[i].sent \in Nat
      BY <1>4 DEF TypeOK, Input
    <3> QED
      BY <1>5, <3>1 DEF StreamsGrow
  <2> QED
    BY <1>5, <1>7, <1>9, <1>10, <1>13, <2>1, RunnersKeep
<1>15. NothingLost' /\ EverythingRan'
  BY <1>3, <1>5 DEF Inv, NothingLost, EverythingRan
<1> QED
  BY <1>9, <1>10, <1>11, <1>12, <1>14, <1>15 DEF Inv

\* A record, or what is settled, ends with a unit that found an input gone.
EndsWith(c, u) == c.ended <=> u.gone # {}

\* What the last save of a unit leads to.
LEMMA NextSaveMeans ==
    ASSUME Inv, NEW r \in Runners, NEW f \in Runner, f = runner[r], f.pc \in {"settle", "transact"},
           NEW g \in Generations, g = generation[r], NEW u \in Unit, u = f.unit,
           Save(r, NextRecord(f)), SettledBy(r), AfterSettle(r)
    PROVE  /\ f.token = version[g] /\ version[g] \in Nat
           /\ u.generation = g /\ u.from = settled[g].offset /\ u.state = settled[g].state
           /\ ~settled[g].ended
           /\ \A i \in Inputs : u.from[i] <= u.next[i] /\ u.next[i] <= inputs[i].sent
           /\ \A i \in u.gone : i \in Inputs /\ ~inputs[i].present
           /\ HasPending(g) => record[g].pending.unit = u
           /\ record' \in [Generations -> CheckpointRecord \cup {None}]
           /\ version' \in [Generations -> Nat]
           /\ settled' \in [Generations -> Settled]
           /\ runner' \in [Runners -> Runner]
           /\ record'[g] \in CheckpointRecord /\ record'[g] # None /\ record'[g].pending = None
           /\ record'[g].offset = u.next /\ record'[g].state = u.state + 1
           /\ EndsWith(record'[g], u)
           /\ Pinning => record'[g].nextSeq = settled'[g].length
           /\ version'[g] = version[g] + 1
           /\ \A k \in Generations \ {g} :
                record'[k] = record[k] /\ version'[k] = version[k] /\ settled'[k] = settled[k]
           /\ settled' = [settled EXCEPT ![g] = settled'[g]]
           /\ settled'[g].offset = u.next /\ settled'[g].state = u.state + 1
           /\ EndsWith(settled'[g], u)
           /\ \A o \in Outputs : settled'[g].length[o] =
                IF Emits(u, o) THEN settled[g].length[o] + 1 ELSE settled[g].length[o]
           /\ runner' = [runner EXCEPT ![r] = runner'[r]] /\ runner'[r] \in Runner
           /\ runner'[r].pc \in {"idle", "forget"}
           /\ runner'[r].pc = "forget" => u.gone # {}
<1> DEFINE s == settled[g]
<1>1. /\ TypeOK /\ RunnerOK(r, f) /\ f.pc \in Mid
      /\ PassOK(r, f) /\ StageOK(f) /\ CurrentOK(r, f)
  BY DEF Inv, RunnersOK, RunnerOK, Mid
<1>2. PICK c : c = NextRecord(f)
  OBVIOUS
<1>3. /\ c \in CheckpointRecord /\ c # None /\ c.pending = None
      /\ c.offset = u.next /\ c.state = u.state + 1 /\ c.ended = (u.gone # {})
      /\ c.nextSeq = [o \in Outputs |-> IF f.seqs[o] = None THEN Base(f).nextSeq[o]
                                        ELSE f.seqs[o] + 1]
  BY <1>2, NextRecordMeans
<1>4. /\ f.token = version[g] /\ record' = [record EXCEPT ![g] = c]
      /\ version' = [version EXCEPT ![g] = version[g] + 1]
  BY <1>2 DEF Save
<1>5. /\ record \in [Generations -> CheckpointRecord \cup {None}] /\ version \in [Generations -> Nat]
      /\ settled \in [Generations -> Settled] /\ runner \in [Runners -> Runner]
  BY <1>1 DEF TypeOK
<1>6. Current(r, f) /\ ~Reborn(r, f)
  BY <1>4 DEF Current, Reborn
<1>7. /\ u.generation = g /\ u.from = s.offset /\ u.state = s.state /\ ~s.ended
      /\ Base(f).offset = s.offset /\ Base(f).state = s.state
      /\ Pinning => Base(f).nextSeq = s.length
      /\ \A i \in Inputs : u.from[i] <= u.next[i] /\ u.next[i] <= inputs[i].sent
  BY <1>1, <1>6 DEF PassOK, CurrentOK
<1>8. \A i \in u.gone : i \in Inputs /\ ~inputs[i].present
  BY <1>1 DEF PassOK, Unit
<1>9. HasPending(g) => record[g].pending.unit = u
  <2>1. CASE f.pc = "settle"
    BY <1>1, <1>6, <2>1 DEF CurrentOK, Pins, Mid
  <2>2. CASE f.pc = "transact"
    <3>1. f.loaded = record[g]
      BY <1>1, <1>6, <2>2 DEF CurrentOK
    <3>2. ~Pinned(f)
      BY <1>1, <2>2 DEF PassOK, StageOK
    <3> QED
      BY <3>1, <3>2 DEF HasPending, Pinned, Base
  <2> QED
    BY <2>1, <2>2
<1>10. PICK l \in [Outputs -> Nat] :
          l = [o \in Outputs |-> IF Emits(u, o) THEN s.length[o] + 1 ELSE s.length[o]]
  <2>1. s.length \in [Outputs -> Nat]
    BY <1>5 DEF Settled
  <2>2. \A o \in Outputs : (IF Emits(u, o) THEN s.length[o] + 1 ELSE s.length[o]) \in Nat
    BY <2>1
  <2> QED
    BY <2>2
<1>11. PICK t : t = [offset |-> u.next, state |-> u.state + 1, length |-> l, ended |-> u.gone # {}]
  OBVIOUS
<1>12. settled' = [settled EXCEPT ![g] = t]
  BY <1>10, <1>11 DEF SettledBy
<1>13. t \in Settled
  <2>1. u.next \in [Inputs -> Nat] /\ u.state + 1 \in Nat
    BY DEF Unit
  <2> QED
    BY <1>11, <2>1 DEF Settled
<1>14. settled'[g] = t /\ settled' \in [Generations -> Settled]
       /\ \A k \in Generations \ {g} : settled'[k] = settled[k]
  BY <1>5, <1>12, <1>13
<1>15. record'[g] = c /\ version'[g] = version[g] + 1
       /\ \A k \in Generations \ {g} : record'[k] = record[k] /\ version'[k] = version[k]
  BY <1>4, <1>5
<1>16. record' \in [Generations -> CheckpointRecord \cup {None}] /\ version' \in [Generations -> Nat]
  BY <1>3, <1>4, <1>5
<1>17. Pinning => c.nextSeq = l
  <2> HAVE Pinning
  <2>1. f.seqs = Numbers(u, s.length)
    <3>1. f.pc = "settle"
      BY <1>1 DEF StageOK, Pinning
    <3> QED
      BY <1>1, <1>7, <3>1 DEF StageOK
  <2>2. \A o \in Outputs : f.seqs[o] = IF Emits(u, o) THEN s.length[o] ELSE None
    BY <2>1 DEF Numbers
  <2>3. \A o \in Outputs : s.length[o] \in Nat /\ s.length[o] # None
    BY <1>5, NoneAssumption DEF Settled
  <2>4. \A o \in Outputs : (IF f.seqs[o] = None THEN s.length[o] ELSE f.seqs[o] + 1)
                         = (IF Emits(u, o) THEN s.length[o] + 1 ELSE s.length[o])
    BY <2>2, <2>3
  <2> QED
    BY <1>3, <1>7, <1>10, <2>4
<1>18. /\ runner' = [runner EXCEPT ![r] = runner'[r]] /\ runner'[r] \in Runner
       /\ runner' \in [Runners -> Runner]
       /\ runner'[r].pc \in {"idle", "forget"}
       /\ runner'[r].pc = "forget" => u.gone # {}
  <2>1. CASE u.gone # {}
    <3>1. PICK h : h = [Idle EXCEPT !.pc = "forget"]
      OBVIOUS
    <3>2. "forget" \in Labels /\ Idle \in Runner
      BY IdleType DEF Labels
    <3>3. h \in Runner /\ h.pc = "forget"
      BY <3>1, <3>2 DEF Runner
    <3>4. runner' = [runner EXCEPT ![r] = h]
      BY <2>1, <3>1 DEF AfterSettle
    <3> QED
      BY <1>5, <2>1, <3>3, <3>4
  <2>2. CASE u.gone = {}
    <3>1. runner' = [runner EXCEPT ![r] = Idle]
      BY <2>2 DEF AfterSettle, Finish
    <3> QED
      BY <1>5, <3>1, IdleType
  <2> QED
    BY <2>1, <2>2
<1>19. /\ t.offset = u.next /\ t.state = u.state + 1 /\ t.ended = (u.gone # {})
       /\ \A o \in Outputs : t.length[o] = IF Emits(u, o) THEN s.length[o] + 1 ELSE s.length[o]
       /\ t.length = l
  BY <1>10, <1>11
<1>20. settled' = [settled EXCEPT ![g] = settled'[g]] /\ version[g] \in Nat
  BY <1>5, <1>12, <1>14
<1>21. /\ record'[g] \in CheckpointRecord /\ record'[g] # None /\ record'[g].pending = None
       /\ record'[g].offset = u.next /\ record'[g].state = u.state + 1
       /\ EndsWith(record'[g], u)
       /\ Pinning => record'[g].nextSeq = settled'[g].length
  BY ONLY <1>3, <1>14, <1>15, <1>17, <1>19 DEF EndsWith
<1>22. /\ settled'[g].offset = u.next /\ settled'[g].state = u.state + 1
       /\ EndsWith(settled'[g], u)
       /\ \A o \in Outputs : settled'[g].length[o] =
            IF Emits(u, o) THEN settled[g].length[o] + 1 ELSE settled[g].length[o]
  BY ONLY <1>14, <1>19 DEF EndsWith
<1>23. \A k \in Generations \ {g} :
         record'[k] = record[k] /\ version'[k] = version[k] /\ settled'[k] = settled[k]
  BY ONLY <1>14, <1>15
<1> QED
  BY ONLY <1>4, <1>7, <1>8, <1>9, <1>14, <1>15, <1>16, <1>18, <1>20, <1>21, <1>22, <1>23

LEMMA NextSaveKeeps ==
    ASSUME Inv, NEW r \in Runners, NEW f \in Runner, f = runner[r], f.pc \in {"settle", "transact"},
           NEW g \in Generations, g = generation[r], NEW u \in Unit, u = f.unit,
           Save(r, NextRecord(f)), SettledBy(r), AfterSettle(r),
           UNCHANGED <<declared, inputs>>, StreamsGrow, TypeOK'
    PROVE  RecordsOK' /\ InputsOK' /\ Supported' /\ RunnersOK'
<1>1. /\ guarantee' = guarantee /\ generation' = generation /\ inputs' = inputs
      /\ (Pinning' <=> Pinning)
  BY DEF declared, Pinning
<1>2. /\ version[g] \in Nat
      /\ u.from = settled[g].offset /\ ~settled[g].ended
      /\ \A i \in Inputs : u.from[i] <= u.next[i] /\ u.next[i] <= inputs[i].sent
      /\ \A i \in u.gone : i \in Inputs /\ ~inputs[i].present
      /\ record'[g] \in CheckpointRecord /\ record'[g] # None /\ record'[g].pending = None
      /\ record'[g].offset = u.next /\ record'[g].state = u.state + 1
      /\ EndsWith(record'[g], u)
      /\ Pinning => record'[g].nextSeq = settled'[g].length
      /\ version'[g] = version[g] + 1
      /\ \A k \in Generations \ {g} :
           record'[k] = record[k] /\ version'[k] = version[k] /\ settled'[k] = settled[k]
      /\ settled'[g].offset = u.next /\ settled'[g].state = u.state + 1
      /\ EndsWith(settled'[g], u)
      /\ runner' = [runner EXCEPT ![r] = runner'[r]] /\ runner'[r] \in Runner
      /\ runner'[r].pc \in {"idle", "forget"}
      /\ runner'[r].pc = "forget" => u.gone # {}
  <2>1. Inv /\ f = runner[r] /\ f.pc \in {"settle", "transact"} /\ g = generation[r] /\ u = f.unit
        /\ Save(r, NextRecord(f)) /\ SettledBy(r) /\ AfterSettle(r)
    OBVIOUS
  <2>2. /\ version[g] \in Nat
        /\ u.from = settled[g].offset /\ ~settled[g].ended
        /\ \A i \in Inputs : u.from[i] <= u.next[i] /\ u.next[i] <= inputs[i].sent
        /\ \A i \in u.gone : i \in Inputs /\ ~inputs[i].present
    BY ONLY r \in Runners, f \in Runner, g \in Generations, u \in Unit, <2>1, NextSaveMeans
  <2>3. /\ record'[g] \in CheckpointRecord /\ record'[g] # None /\ record'[g].pending = None
        /\ record'[g].offset = u.next /\ record'[g].state = u.state + 1
        /\ version'[g] = version[g] + 1
        /\ settled'[g].offset = u.next /\ settled'[g].state = u.state + 1
    BY ONLY r \in Runners, f \in Runner, g \in Generations, u \in Unit, <2>1, NextSaveMeans
  <2>4. EndsWith(record'[g], u) /\ EndsWith(settled'[g], u)
    BY ONLY r \in Runners, f \in Runner, g \in Generations, u \in Unit, <2>1, NextSaveMeans
  <2>5. /\ Pinning => record'[g].nextSeq = settled'[g].length
        /\ \A k \in Generations \ {g} :
           record'[k] = record[k] /\ version'[k] = version[k] /\ settled'[k] = settled[k]
    BY ONLY r \in Runners, f \in Runner, g \in Generations, u \in Unit, <2>1, NextSaveMeans
  <2>6. /\ runner' = [runner EXCEPT ![r] = runner'[r]] /\ runner'[r] \in Runner
        /\ runner'[r].pc \in {"idle", "forget"}
        /\ runner'[r].pc = "forget" => u.gone # {}
    BY ONLY r \in Runners, f \in Runner, g \in Generations, u \in Unit, <2>1, NextSaveMeans
  <2> QED
    BY ONLY <2>2, <2>3, <2>4, <2>5, <2>6
<1>3. InputsOK' /\ Supported'
  BY <1>1 DEF Inv, InputsOK, Supported, OneWriter, declared
<1>4. RecordsOK'
  <2>1. \A k \in Generations \ {g} : RecordOK(k)'
    BY <1>2, OtherRecordsStay
  <2>2. ~HasPending(g)'
    BY <1>2 DEF HasPending
  <2>3. version'[g] > 0
    BY <1>2
  <2>4. settled'[g].ended => \E i \in Inputs : ~inputs[i].present
    BY <1>2 DEF EndsWith
  <2>5. record'[g].ended = settled'[g].ended
    <3>1. record'[g].ended \in BOOLEAN /\ settled'[g].ended \in BOOLEAN
      <4>1. settled'[g] \in Settled
        BY DEF TypeOK
      <4> QED
        BY <1>2, <4>1 DEF CheckpointRecord, Settled
    <3>2. record'[g].ended <=> settled'[g].ended
      BY <1>2 DEF EndsWith
    <3> QED
      BY ONLY <3>1, <3>2
  <2>6. RecordOK(g)'
    BY <1>1, <1>2, <2>2, <2>3, <2>4, <2>5 DEF RecordOK
  <2> QED
    BY <2>1, <2>6 DEF RecordsOK
<1>5. PICK h \in Runner : h = runner'[r] /\ h.pc \in {"idle", "forget"}
                          /\ (h.pc = "forget" => u.gone # {})
  BY <1>2
<1>6. RunnerOK(r, h)'
  <2>1. PassOK(r, h)' /\ StageOK(h)' /\ ReadOK(h)' /\ CurrentOK(r, h)' /\ SentOK(r, h)'
    BY <1>5 DEF PassOK, StageOK, ReadOK, CurrentOK, SentOK, Mid
  <2>2. EndOK(r, h)'
    BY <1>1, <1>2, <1>5 DEF EndOK, EndsWith
  <2> QED
    BY <2>1, <2>2 DEF RunnerOK
<1>7. ASSUME NEW q \in Runners \ {r} PROVE CheckpointGrows(generation[q])
  <2> PICK k \in Generations : k = generation[q]
    BY DEF Inv, TypeOK
  <2>1. /\ version[k] \in Nat /\ settled[k].offset \in [Inputs -> Nat]
        /\ \A i \in Inputs : settled[k].offset[i] <= inputs[i].sent
    BY DEF TypeOK, Settled, Inv, RecordsOK, RecordOK
  <2>2. CASE k = g
    BY <1>1, <1>2, <2>1, <2>2 DEF CheckpointGrows
  <2>3. CASE k # g
    BY <1>1, <1>2, <2>1, <2>3 DEF CheckpointGrows
  <2> QED
    BY <2>2, <2>3
<1>8. RunnersOK'
  <2>1. runner' = [runner EXCEPT ![r] = h]
    BY <1>2, <1>5
  <2> QED
    BY <1>5, <1>6, <1>7, <2>1, RunnersKeep
<1> QED
  BY <1>3, <1>4, <1>8

\* An output that a unit writes to is there, among the outputs.
LEMMA RoutedIsOutput ==
    ASSUME Inv, NEW i \in Inputs, NEW j \in Nat, j \in 1..inputs[i].sent
    PROVE  j \in 1..Len(Routes[i]) /\ Routes[i][j] \in SUBSET Outputs
<1>1. inputs[i].sent \in Nat /\ inputs[i].sent <= Len(Routes[i])
  BY DEF Inv, TypeOK, Input, InputsOK
<1>2. Routes[i] \in Seq(SUBSET Outputs) /\ Len(Routes[i]) \in Nat
  BY RoutesAssumption, LenProperties
<1>3. j \in 1..Len(Routes[i])
  BY <1>1, <1>2
<1> QED
  BY <1>2, <1>3, ElementOfSeq

LEMMA SettleKeeps == ASSUME Inv, NEW r \in Runners, Settle(r) PROVE Inv'
<1>1. PICK f \in Runner : f = runner[r]
  BY DEF Inv, TypeOK
<1>2. PICK g \in Generations : g = generation[r]
  BY DEF Inv, TypeOK
<1>3. PICK u \in Unit : u = f.unit
  BY DEF Runner
<1>4. /\ RunnerOK(r, f) /\ f.pc = "settle" /\ f.pc \in Mid
      /\ PassOK(r, f) /\ StageOK(f) /\ CurrentOK(r, f) /\ SentOK(r, f)
  BY <1>1 DEF Inv, RunnersOK, RunnerOK, Settle, At, Mid
<1>5. CASE Conflict(r)
  BY <1>5, ConflictKeeps
<1>6. CASE /\ Save(r, NextRecord(f)) /\ SettledBy(r) /\ AfterSettle(r)
           /\ UNCHANGED <<declared, streams, runs, dropped, aborts>>
  <2>1. /\ declared' = declared /\ guarantee' = guarantee /\ generation' = generation
        /\ inputs' = inputs /\ outputs' = outputs /\ outs' = outs /\ positions' = positions
        /\ runs' = runs /\ dropped' = dropped /\ aborts' = aborts /\ (Pinning' <=> Pinning)
    BY <1>6 DEF declared, streams, held, Pinning
  <2>2. /\ f.token = version[g] /\ version[g] \in Nat
        /\ u.generation = g /\ u.from = settled[g].offset /\ u.state = settled[g].state
        /\ ~settled[g].ended
        /\ \A i \in Inputs : u.from[i] <= u.next[i] /\ u.next[i] <= inputs[i].sent
        /\ \A i \in u.gone : i \in Inputs /\ ~inputs[i].present
        /\ HasPending(g) => record[g].pending.unit = u
        /\ record' \in [Generations -> CheckpointRecord \cup {None}]
        /\ version' \in [Generations -> Nat]
        /\ settled' \in [Generations -> Settled]
        /\ runner' \in [Runners -> Runner]
        /\ record'[g].pending = None
        /\ \A k \in Generations \ {g} :
             record'[k] = record[k] /\ version'[k] = version[k] /\ settled'[k] = settled[k]
        /\ settled' = [settled EXCEPT ![g] = settled'[g]]
        /\ settled'[g].offset = u.next /\ settled'[g].state = u.state + 1
        /\ \A o \in Outputs : settled'[g].length[o] =
             IF Emits(u, o) THEN settled[g].length[o] + 1 ELSE settled[g].length[o]
        /\ runner' = [runner EXCEPT ![r] = runner'[r]] /\ runner'[r] \in Runner
        /\ runner'[r].pc \in {"idle", "forget"}
    BY <1>1, <1>2, <1>3, <1>4, <1>6, NextSaveMeans
  <2>3. TypeOK /\ Ledger /\ PositionsOK
    BY DEF Inv, Outlets
  <2>4. TypeOK'
    BY <2>1, <2>2, <2>3 DEF TypeOK, declared
  <2>5. StreamsGrow
    BY <2>1, <2>3 DEF StreamsGrow, TypeOK, Input
  <2>6. RecordsOK' /\ InputsOK' /\ Supported' /\ RunnersOK'
    <3>1. f.pc \in {"settle", "transact"} /\ UNCHANGED <<declared, inputs>>
      BY <1>4, <2>1
    <3> QED
      BY <1>1, <1>2, <1>3, <1>6, <2>4, <2>5, <3>1, NextSaveKeeps
  <2>7. Outlets'
    BY <2>1 DEF Inv, Outlets, PositionsOK, Sorted, NoHole, OldGenerationIsFenced, Pinning
  <2>8. ~HasPending(g)'
        /\ \A k \in Generations \ {g} : /\ HasPending(k)' <=> HasPending(k)
                                        /\ HasPending(k) => record'[k].pending = record[k].pending
    BY <2>2 DEF HasPending
  <2>9. Ledger'
    <3>1. PICK h \in Runner : h = runner'[r] /\ h.pc \in {"idle", "forget"}
      BY <2>2
    <3>2. runner' = [runner EXCEPT ![r] = h]
      BY <2>2, <3>1
    <3>3. OwnUnit(h) = {} /\ \A q \in Outputs : OwnClaims(h, q) = {}
      BY <3>1 DEF OwnUnit, OwnClaims, Holds
    <3>4. Pendings' \subseteq Pendings
      BY <2>2, <2>8 DEF Pendings
    <3>5. Known' \subseteq Known
      <4>1. Known' \subseteq Pendings' \cup Known \cup OwnUnit(h) \cup Written' \cup runs'
        BY <2>3, <3>1, <3>2, PassAdds
      <4>2. Written' = Written
        BY <2>1 DEF Written
      <4>3. Pendings \subseteq Known /\ runs \subseteq Known /\ Written \subseteq Known
        BY DEF Known
      <4> QED
        BY <2>1, <3>3, <3>4, <4>1, <4>2, <4>3
    <3>6. ASSUME NEW q \in Outputs PROVE Claims(q)' \subseteq Claims(q)
      <4>1. Claims(q)' \subseteq PendingClaims(q)' \cup Claims(q) \cup OwnClaims(h, q) \cup LastClaim(q)'
        BY <2>3, <3>1, <3>2, PassAdds
      <4>2. PendingClaims(q)' \subseteq PendingClaims(q)
        BY <2>2, <2>8 DEF PendingClaims
      <4>3. LastClaim(q)' = LastClaim(q)
        BY <2>1 DEF LastClaim
      <4>4. PendingClaims(q) \subseteq Claims(q) /\ LastClaim(q) \subseteq Claims(q)
        BY DEF Claims
      <4> QED
        BY <3>3, <4>1, <4>2, <4>3, <4>4
    <3>7. PICK t \in Settled : t = settled'[g]
      BY <2>2
    <3>8. /\ settled' = [settled EXCEPT ![g] = t]
          /\ t.offset = u.next /\ t.state = u.state + 1
          /\ \A o \in Outputs : t.length[o] =
               IF Emits(u, o) THEN settled[g].length[o] + 1 ELSE settled[g].length[o]
      BY <2>2, <3>7
    <3>9. /\ u.generation = g /\ u.from = settled[g].offset /\ u.state = settled[g].state
          /\ \A i \in Inputs : u.from[i] <= u.next[i]
          /\ HasPending(g) => record[g].pending.unit = u
      BY <2>2
    <3> QED
      BY ONLY g \in Generations, u \in Unit, t \in Settled, <2>1, <2>3, <2>8, <3>5, <3>6, <3>8, <3>9,
              LedgerSettles
  <2>10. NothingLost'
    <3> SUFFICES ASSUME guarantee # "at-least-once",
                        NEW k \in Generations, NEW i \in Inputs,
                        NEW j \in 1..settled'[k].offset[i], NEW q \in Routes[i][j] \ dropped
                 PROVE  \E m \in 1..Len(outs[q]) :
                          outs[q][m].generation = k /\ j \in Items(outs[q][m], i)
      BY <2>1 DEF NothingLost
    <3>1. CASE j \in 1..settled[k].offset[i]
      BY <3>1 DEF Inv, NothingLost
    <3>2. CASE j \notin 1..settled[k].offset[i]
      <4>1. k = g /\ j \in 1..u.next[i]
        BY <2>2, <3>2
      <4>2. u.from[i] < j /\ j <= u.next[i] /\ j \in 1..inputs[i].sent /\ j \in Nat
        <5>1. u.from[i] \in Nat /\ u.next[i] \in Nat /\ inputs[i].sent \in Nat
          BY <2>3 DEF TypeOK, Unit, Input
        <5>2. u.from[i] = settled[g].offset[i] /\ u.next[i] <= inputs[i].sent
          BY <2>2
        <5> QED
          BY <3>2, <4>1, <5>1, <5>2
      <4>3. j \in 1..Len(Routes[i]) /\ Routes[i][j] \in SUBSET Outputs
        BY <4>2, RoutedIsOutput
      <4>4. j \in Items(u, i) /\ q \in Outputs /\ Emits(u, q)
        BY <4>2, <4>3 DEF Items, Emits
      <4>5. Pinning
        <5>1. guarantee \in {"effectively-once", "exactly-once", "at-least-once"}
          BY <2>3, ParameterAssumption DEF TypeOK
        <5>2. guarantee # "exactly-once"
          BY <1>4 DEF StageOK
        <5> QED
          BY <5>1, <5>2 DEF Pinning
      <4>6. q \in Targets(f.seqs)
        <5>1. f.seqs = Numbers(u, Base(f).nextSeq) /\ Base(f).nextSeq \in [Outputs -> Nat]
          BY <1>3, <1>4, BaseType DEF StageOK, CheckpointRecord
        <5>2. f.seqs[q] = Base(f).nextSeq[q] /\ Base(f).nextSeq[q] \in Nat
          BY <4>4, <4>5, <5>1 DEF Numbers
        <5> QED
          BY <4>4, <5>2, NoneAssumption DEF Targets
      <4>7. PICK m \in 1..Len(outs[q]) : outs[q][m] = f.unit
        BY <1>2, <1>4, <2>2, <4>6 DEF SentOK, Current
      <4> QED
        BY <1>3, <2>2, <4>1, <4>4, <4>7
    <3> QED
      BY <3>1, <3>2
  <2>11. EverythingRan'
    <3> SUFFICES ASSUME guarantee = "at-least-once",
                        NEW k \in Generations, NEW i \in Inputs,
                        NEW j \in 1..settled'[k].offset[i]
                 PROVE  \E v \in runs : v.generation = k /\ j \in Items(v, i)
      BY <2>1 DEF EverythingRan
    <3>1. CASE j \in 1..settled[k].offset[i]
      BY <3>1 DEF Inv, EverythingRan
    <3>2. CASE j \notin 1..settled[k].offset[i]
      <4>1. k = g /\ j \in 1..u.next[i]
        BY <2>2, <3>2
      <4>2. u.from[i] < j /\ j <= u.next[i] /\ j \in 1..inputs[i].sent /\ j \in Nat
        <5>1. u.from[i] \in Nat /\ u.next[i] \in Nat /\ inputs[i].sent \in Nat
          BY <2>3 DEF TypeOK, Unit, Input
        <5>2. u.from[i] = settled[g].offset[i] /\ u.next[i] <= inputs[i].sent
          BY <2>2
        <5> QED
          BY <3>2, <4>1, <5>1, <5>2
      <4>3. j \in 1..Len(Routes[i])
        BY <4>2, RoutedIsOutput
      <4>4. j \in Items(u, i)
        BY <4>2, <4>3 DEF Items
      <4>5. u \in runs
        BY <1>3, <1>4 DEF SentOK
      <4> QED
        BY <2>2, <4>1, <4>4, <4>5
    <3> QED
      BY <3>1, <3>2
  <2> QED
    BY <2>4, <2>6, <2>7, <2>9, <2>10, <2>11 DEF Inv
<1> QED
  BY <1>1, <1>5, <1>6 DEF Settle

-----------------------------------------------------------------------------
(***************************************************************************)
(* The unit of a transaction reaches every output it writes to at once.    *)
(***************************************************************************)
LEMMA ReceivedGrows ==
    ASSUME NEW s \in Seq(Unit), NEW u \in Unit, NEW o, NEW t, t = Received(s, u, o)
    PROVE  /\ t \in Seq(Unit) /\ Len(s) \in Nat /\ Len(t) \in Nat /\ Len(s) <= Len(t)
           /\ \A m \in 1..Len(s) : t[m] = s[m]
           /\ \A m \in 1..Len(t) : m \in 1..Len(s) \/ (m = Len(s) + 1 /\ t[m] = u)
           /\ Emits(u, o) => \E m \in 1..Len(t) : t[m] = u
<1>1. Len(s) \in Nat
  BY LenProperties
<1>2. CASE Emits(u, o)
  <2>1. t = Append(s, u)
    BY <1>2 DEF Received
  <2>2. t \in Seq(Unit) /\ Len(t) = Len(s) + 1 /\ t[Len(s) + 1] = u
        /\ \A m \in 1..Len(s) : t[m] = s[m]
    BY <2>1
  <2>3. Len(s) + 1 \in 1..Len(t)
    BY ONLY <1>1, <2>2
  <2> QED
    BY ONLY <1>1, <2>2, <2>3
<1>3. CASE ~Emits(u, o)
  <2>1. t = s
    BY <1>3 DEF Received
  <2> QED
    BY ONLY s \in Seq(Unit), <1>1, <1>3, <2>1
<1> QED
  BY <1>2, <1>3

LEMMA TransactKeeps == ASSUME Inv, NEW r \in Runners, Transact(r) PROVE Inv'
<1>1. PICK f \in Runner : f = runner[r]
  BY DEF Inv, TypeOK
<1>2. PICK g \in Generations : g = generation[r]
  BY DEF Inv, TypeOK
<1>3. PICK u \in Unit : u = f.unit
  BY DEF Runner
<1>4. /\ RunnerOK(r, f) /\ f.pc = "transact" /\ f.pc \in Mid
      /\ StageOK(f) /\ guarantee = "exactly-once" /\ ~Pinning
  BY <1>1 DEF Inv, RunnersOK, RunnerOK, StageOK, Transact, At, Mid, Pinning
<1>5. CASE Conflict(r)
  BY <1>5, ConflictKeeps
<1>6. CASE Finish(r) /\ UNCHANGED <<declared, checkpoint, streams, history, aborts>>
  <2>1. Local /\ UNCHANGED outputs /\ aborts' \in Nat
    BY <1>6 DEF Local, streams, Inv, TypeOK
  <2> QED
    BY <1>6, <2>1, FinishKeeps
<1>7. CASE /\ Save(r, NextRecord(f))
           /\ outs' = [o \in Outputs |-> Received(outs[o], f.unit, o)]
           /\ SettledBy(r) /\ AfterSettle(r)
           /\ UNCHANGED <<declared, inputs, outputs, positions, runs, dropped, aborts>>
  <2>1. /\ declared' = declared /\ guarantee' = guarantee /\ generation' = generation
        /\ inputs' = inputs /\ outputs' = outputs /\ positions' = positions
        /\ runs' = runs /\ dropped' = dropped /\ aborts' = aborts /\ (Pinning' <=> Pinning)
    BY <1>7 DEF declared, Pinning
  <2>2. /\ u.generation = g /\ u.from = settled[g].offset /\ u.state = settled[g].state
        /\ \A i \in Inputs : u.from[i] <= u.next[i] /\ u.next[i] <= inputs[i].sent
        /\ record' \in [Generations -> CheckpointRecord \cup {None}]
        /\ version' \in [Generations -> Nat]
        /\ settled' \in [Generations -> Settled]
        /\ runner' \in [Runners -> Runner]
        /\ record'[g].pending = None
        /\ \A k \in Generations \ {g} :
             record'[k] = record[k] /\ version'[k] = version[k] /\ settled'[k] = settled[k]
        /\ settled' = [settled EXCEPT ![g] = settled'[g]]
        /\ settled'[g].offset = u.next /\ settled'[g].state = u.state + 1
        /\ runner' = [runner EXCEPT ![r] = runner'[r]] /\ runner'[r] \in Runner
        /\ runner'[r].pc \in {"idle", "forget"}
    BY <1>1, <1>2, <1>3, <1>4, <1>7, NextSaveMeans
  <2>3. TypeOK /\ Ledger /\ PositionsOK
    BY DEF Inv, Outlets
  <2>4. ASSUME NEW q \in Outputs
        PROVE  /\ outs[q] \in Seq(Unit) /\ outs'[q] \in Seq(Unit)
               /\ Len(outs[q]) \in Nat /\ Len(outs'[q]) \in Nat /\ Len(outs[q]) <= Len(outs'[q])
               /\ \A m \in 1..Len(outs[q]) : outs'[q][m] = outs[q][m]
               /\ \A m \in 1..Len(outs'[q]) :
                    m \in 1..Len(outs[q]) \/ (m = Len(outs[q]) + 1 /\ outs'[q][m] = u)
               /\ Emits(u, q) => \E m \in 1..Len(outs'[q]) : outs'[q][m] = u
    <3>1. outs[q] \in Seq(Unit)
      BY <2>3 DEF TypeOK
    <3>2. outs'[q] = Received(outs[q], u, q)
      BY <1>3, <1>7
    <3> QED
      BY ONLY <3>1, <3>2, u \in Unit, ReceivedGrows
  <2>5. outs' \in [Outputs -> Seq(Unit)]
    BY <1>7, <2>4
  <2>6. TypeOK'
    BY <2>1, <2>2, <2>3, <2>5 DEF TypeOK, declared
  <2>7. StreamsGrow
    <3>1. \A q \in Outputs : \A m \in 1..Len(outs[q]) :
            m \in 1..Len(outs'[q]) /\ outs'[q][m] = outs[q][m]
      BY <2>4
    <3>2. \A q \in Outputs \ dropped' : \A m \in 1..Len(outs[q]) :
            \E n \in 1..Len(outs'[q]) : outs'[q][n] = outs[q][m]
      BY ONLY <3>1
    <3>3. \A i \in Inputs : inputs[i].sent \in Nat
      BY <2>3 DEF TypeOK, Input
    <3>4. inputs' = inputs /\ dropped' = dropped /\ runs' = runs
      BY <2>1
    <3>5. \A i \in Inputs :
            /\ inputs[i].sent <= inputs'[i].sent
            /\ inputs[i].closed => inputs'[i].closed /\ inputs'[i].sent = inputs[i].sent
            /\ ~inputs[i].present => ~inputs'[i].present
      BY <3>3, <3>4
    <3>6. dropped \subseteq dropped' /\ runs \subseteq runs'
      BY <3>4
    <3> QED
      BY <3>2, <3>5, <3>6 DEF StreamsGrow
  <2>8. RecordsOK' /\ InputsOK' /\ Supported' /\ RunnersOK'
    <3>1. f.pc \in {"settle", "transact"} /\ UNCHANGED <<declared, inputs>>
      BY <1>4, <2>1
    <3> QED
      BY <1>1, <1>2, <1>3, <1>7, <2>6, <2>7, <3>1, NextSaveKeeps
  <2>9. ~HasPending(g)
    BY <1>4 DEF Inv, RecordsOK, RecordOK, PendingOK
  <2>10. SamePending
    BY <2>2, <2>9 DEF SamePending, HasPending
  <2>11. Ledger'
    <3>1. PICK h \in Runner : h = runner'[r] /\ h.pc \in {"idle", "forget"}
      BY <2>2
    <3>2. runner' = [runner EXCEPT ![r] = h]
      BY <2>2, <3>1
    <3>3. OwnUnit(h) = {}
      BY <3>1 DEF OwnUnit, Holds
    <3>4. Written' \subseteq Known \cup {u}
      <4>1. \A q \in Outputs : \A m \in 1..Len(outs'[q]) : outs'[q][m] \in Known \cup {u}
        BY <2>4 DEF Known, Written
      <4> QED
        BY <4>1 DEF Written
    <3>5. Known' \subseteq Known \cup {u}
      <4>1. Known' \subseteq Pendings' \cup Known \cup OwnUnit(h) \cup Written' \cup runs'
        BY <2>3, <3>1, <3>2, PassAdds
      <4>2. Pendings' = Pendings /\ Pendings \subseteq Known /\ runs \subseteq Known
        BY <2>10, SamePendingIsKnown DEF Known
      <4> QED
        BY <2>1, <3>3, <3>4, <4>1, <4>2
    <3>6. PICK t \in Settled : t = settled'[g]
      BY <2>2
    <3>7. settled' = [settled EXCEPT ![g] = t] /\ t.offset = u.next /\ t.state = u.state + 1
      BY <2>2, <3>6
    <3>8. /\ u.generation = g /\ u.from = settled[g].offset /\ u.state = settled[g].state
          /\ \A i \in Inputs : u.from[i] <= u.next[i]
      BY <2>2
    <3> QED
      BY ONLY g \in Generations, u \in Unit, t \in Settled, <1>4, <2>1, <2>3, <2>9, <2>10, <3>5,
              <3>7, <3>8, LedgerTransacts
  <2>12. Sorted'
    <3> SUFFICES ASSUME NEW q \in Outputs, NEW m \in 1..Len(outs'[q]), NEW n \in 1..Len(outs'[q]),
                        m < n, outs'[q][m].generation = outs'[q][n].generation
                 PROVE  outs'[q][m].state < outs'[q][n].state
      BY DEF Sorted
    <3>1. m \in 1..Len(outs[q]) /\ outs'[q][m] = outs[q][m]
      BY <2>4
    <3>2. CASE n \in 1..Len(outs[q])
      BY <2>4, <3>1, <3>2 DEF Inv, Outlets, Sorted
    <3>3. CASE outs'[q][n] = u
      <4>1. PICK w \in Unit : w = outs[q][m]
        BY <2>4, <3>1, ElementOfSeq
      <4>2. w \in Known /\ w.generation = g
        BY <2>2, <3>1, <3>3, <4>1 DEF Known, Written
      <4>3. Past(w)
        BY <2>3, <2>9, <4>2 DEF Ledger, UnitsOK, IsPending
      <4> QED
        BY <2>2, <3>1, <3>3, <4>1, <4>2, <4>3 DEF Past
    <3> QED
      BY <2>4, <3>2, <3>3
  <2>13. Outlets'
    <3>1. PositionsOK' /\ NoHole' /\ OldGenerationIsFenced'
      BY <1>4, <2>1, <2>3 DEF PositionsOK, NoHole, OldGenerationIsFenced, Pinning
    <3> QED
      BY <2>12, <3>1 DEF Outlets
  <2>14. NothingLost'
    <3> SUFFICES ASSUME NEW k \in Generations, NEW i \in Inputs,
                        NEW j \in 1..settled'[k].offset[i], NEW q \in Routes[i][j] \ dropped
                 PROVE  \E m \in 1..Len(outs'[q]) :
                          outs'[q][m].generation = k /\ j \in Items(outs'[q][m], i)
      BY <2>1 DEF NothingLost
    <3>1. CASE j \in 1..settled[k].offset[i]
      <4>1. PICK m \in 1..Len(outs[q]) :
              outs[q][m].generation = k /\ j \in Items(outs[q][m], i)
        BY <1>4, <3>1 DEF Inv, NothingLost
      <4>2. settled[k].offset[i] \in Nat /\ inputs[i].sent \in Nat
            /\ settled[k].offset[i] <= inputs[i].sent
        <5>1. settled[k] \in Settled /\ inputs[i] \in Input
          BY <2>3 DEF TypeOK
        <5> QED
          BY <5>1 DEF Settled, Input, Inv, RecordsOK, RecordOK
      <4>3. j \in Nat /\ j \in 1..inputs[i].sent
        BY <3>1, <4>2
      <4>4. q \in Outputs
        BY <4>3, RoutedIsOutput
      <4> QED
        BY <2>4, <4>1, <4>4
    <3>2. CASE j \notin 1..settled[k].offset[i]
      <4>1. k = g /\ j \in 1..u.next[i]
        BY <2>2, <3>2
      <4>2. u.from[i] < j /\ j <= u.next[i] /\ j \in 1..inputs[i].sent /\ j \in Nat
        <5>1. u.from[i] \in Nat /\ u.next[i] \in Nat /\ inputs[i].sent \in Nat
          BY <2>3 DEF TypeOK, Unit, Input
        <5>2. u.from[i] = settled[g].offset[i] /\ u.next[i] <= inputs[i].sent
          BY <2>2
        <5> QED
          BY <3>2, <4>1, <5>1, <5>2
      <4>3. j \in 1..Len(Routes[i]) /\ Routes[i][j] \in SUBSET Outputs
        BY <4>2, RoutedIsOutput
      <4>4. j \in Items(u, i) /\ q \in Outputs /\ Emits(u, q)
        BY <4>2, <4>3 DEF Items, Emits
      <4> QED
        BY <2>2, <2>4, <4>1, <4>4
    <3> QED
      BY <3>1, <3>2
  <2>15. EverythingRan'
    BY <1>4, <2>1 DEF EverythingRan
  <2> QED
    BY <2>6, <2>8, <2>11, <2>13, <2>14, <2>15 DEF Inv
<1> QED
  BY <1>1, <1>5, <1>6, <1>7 DEF Transact

-----------------------------------------------------------------------------
(***************************************************************************)
(* forget: with one writer nobody works on the record that goes; without,  *)
(* no record ends.                                                         *)
(***************************************************************************)
LEMMA ForgetKeeps == ASSUME Inv, NEW r \in Runners, Forget(r) PROVE Inv'
<1>1. PICK g \in Generations : g = generation[r]
  BY DEF Inv, TypeOK
<1>2. TypeOK /\ Ledger /\ PositionsOK /\ RecordOK(g)
  BY DEF Inv, Outlets, RecordsOK
<1>3. settled[g].ended
  BY <1>1 DEF Inv, RunnersOK, RunnerOK, EndOK, Forget, At
<1>4. PICK i \in Inputs : ~inputs[i].present
  BY <1>2, <1>3 DEF RecordOK
<1>5. ~HasPending(g)
  BY <1>2, <1>3 DEF RecordOK, PendingOK
<1>6. \A q \in Runners \ {r} : generation[q] # g
  <2>1. Removable # {}
    BY <1>4 DEF Inv, InputsOK
  <2> QED
    BY <1>1, <2>1 DEF Inv, Supported, OneWriter
<1>7. /\ declared' = declared /\ guarantee' = guarantee /\ generation' = generation
      /\ inputs' = inputs /\ outputs' = outputs /\ outs' = outs /\ positions' = positions
      /\ settled' = settled /\ runs' = runs /\ dropped' = dropped /\ aborts' = aborts
      /\ record' = [record EXCEPT ![g] = None] /\ version' = [version EXCEPT ![g] = 0]
  BY <1>1 DEF Forget, declared, streams, held, history
<1>8. /\ record'[g] = None /\ version'[g] = 0
      /\ \A k \in Generations \ {g} : record'[k] = record[k] /\ version'[k] = version[k]
  BY <1>2, <1>7 DEF TypeOK
<1>9. PICK h \in Runner : runner' = [runner EXCEPT ![r] = h] /\ h.pc \in {"idle", "done"}
  <2>1. PICK d : d = [Idle EXCEPT !.pc = "done"]
    OBVIOUS
  <2>2. d \in Runner /\ d.pc = "done"
    <3>1. "done" \in Labels /\ Idle \in Runner
      BY IdleType DEF Labels
    <3> QED
      BY <2>1, <3>1 DEF Runner
  <2>3. CASE r \in followers
    <3>1. runner' = [runner EXCEPT ![r] = d]
      BY <2>1, <2>3 DEF Forget
    <3> QED
      BY <2>2, <3>1
  <2>4. CASE r \notin followers
    <3>1. runner' = [runner EXCEPT ![r] = Idle]
      BY <2>4 DEF Forget
    <3> QED
      BY <3>1, IdleType
  <2> QED
    BY <2>3, <2>4
<1>10. TypeOK'
  BY <1>2, <1>7, <1>9 DEF TypeOK, declared
<1>11. SamePending
  BY <1>5, <1>8 DEF SamePending, HasPending
<1>12. Ledger'
  <2>1. OwnUnit(h) = {} /\ \A q \in Outputs : OwnClaims(h, q) = {}
    BY <1>9 DEF OwnUnit, OwnClaims, Holds
  <2> QED
    BY <1>2, <1>7, <1>9, <1>11, <2>1, LedgerStays
<1>13. RecordsOK'
  <2>1. \A k \in Generations \ {g} : RecordOK(k)'
    BY <1>7, <1>8, OtherRecordsStay
  <2>2. ~HasPending(g)'
    BY <1>8 DEF HasPending
  <2>3. RecordOK(g)'
    BY <1>2, <1>3, <1>7, <1>8, <2>2 DEF RecordOK
  <2> QED
    BY <2>1, <2>3 DEF RecordsOK
<1>14. RunnersOK'
  <2>1. RunnerOK(r, h)'
    <3>1. PassOK(r, h)' /\ StageOK(h)' /\ ReadOK(h)' /\ CurrentOK(r, h)' /\ SentOK(r, h)'
      BY <1>9 DEF PassOK, StageOK, ReadOK, CurrentOK, SentOK, Mid
    <3>2. EndOK(r, h)'
      BY <1>4, <1>7, <1>9 DEF EndOK
    <3> QED
      BY <3>1, <3>2 DEF RunnerOK
  <2>2. ASSUME NEW q \in Runners \ {r} PROVE CheckpointGrows(generation[q])
    <3> PICK k \in Generations : k = generation[q]
      BY <1>2 DEF TypeOK
    <3>1. version[k] \in Nat /\ settled[k].offset \in [Inputs -> Nat] /\ RecordOK(k)
      BY DEF TypeOK, Settled, Inv, RecordsOK
    <3> QED
      BY <1>6, <1>7, <1>8, <3>1 DEF CheckpointGrows, RecordOK
  <2>3. StreamsGrow
    <3>1. \A j \in Inputs : inputs[j].sent \in Nat
      BY <1>2 DEF TypeOK, Input
    <3> QED
      BY <1>7, <3>1 DEF StreamsGrow
  <2> QED
    BY <1>7, <1>9, <1>10, <2>1, <2>2, <2>3, RunnersKeep
<1>15. InputsOK'
  BY <1>7 DEF Inv, InputsOK
<1>16. Outlets' /\ NothingLost' /\ EverythingRan' /\ Supported'
  BY <1>7, OutletsStay DEF held, history
<1> QED
  BY <1>10, <1>12, <1>13, <1>14, <1>15, <1>16 DEF Inv

-----------------------------------------------------------------------------
(***************************************************************************)
(* What happens to the streams.                                            *)
(***************************************************************************)
LEMMA StreamStepKeeps ==
    ASSUME Inv, UNCHANGED <<declared, checkpoint, runner, settled, runs>>,
           TypeOK', InputsOK', Outlets', NothingLost', StreamsGrow,
           \A o \in Outputs : \/ outs'[o] = outs[o] /\ positions'[o] = positions[o]
                              \/ outs'[o] = <<>> /\ positions'[o] = None
    PROVE  Inv'
<1>1. /\ guarantee' = guarantee /\ generation' = generation /\ record' = record
      /\ version' = version /\ runner' = runner /\ settled' = settled /\ runs' = runs
      /\ (Pinning' <=> Pinning)
  BY DEF declared, checkpoint, Pinning
<1>2. TypeOK /\ Ledger /\ PositionsOK /\ RecordsOK
  BY DEF Inv, Outlets
<1>3. \A k \in Generations : HasPending(k)' <=> HasPending(k)
  BY <1>1 DEF HasPending
<1>4. SamePending
  BY <1>1, <1>3 DEF SamePending
<1>5. \A q \in Runners : /\ Holds(runner[q])' <=> Holds(runner[q])
                         /\ HeldSeqs(runner[q])' = HeldSeqs(runner[q])
  BY <1>1 DEF Holds, HeldSeqs, Pinned, Base
<1>6. Ledger'
  <2>1. Known' \subseteq Known
    <3>1. Pendings' = Pendings
      BY <1>4, SamePendingIsKnown
    <3>2. Written' \subseteq Written
      <4>1. \A o \in Outputs : \A m \in 1..Len(outs'[o]) :
              m \in 1..Len(outs[o]) /\ outs'[o][m] = outs[o][m]
        <5> TAKE o \in Outputs
        <5>1. CASE outs'[o] = outs[o]
          BY <5>1
        <5>2. CASE outs'[o] = <<>>
          BY <5>2, LenOfEmpty
        <5> QED
          BY <5>1, <5>2
      <4> QED
        BY <4>1 DEF Written
    <3>3. {runner[r].unit : r \in {q \in Runners : Holds(runner[q])}}'
            = {runner[r].unit : r \in {q \in Runners : Holds(runner[q])}}
      BY <1>1, <1>5
    <3> QED
      BY <1>1, <3>1, <3>2, <3>3 DEF Known
  <2>2. ASSUME NEW o \in Outputs PROVE Claims(o)' \subseteq Claims(o)
    <3>1. PendingClaims(o)' = PendingClaims(o)
      BY <1>4, SamePendingIsKnown
    <3>2. LastClaim(o)' \subseteq LastClaim(o)
      BY DEF LastClaim
    <3>3. {<<runner[r].unit, HeldSeqs(runner[r])[o]>> :
              r \in {q \in Runners : Holds(runner[q]) /\ HeldSeqs(runner[q])[o] # None}}'
          = {<<runner[r].unit, HeldSeqs(runner[r])[o]>> :
              r \in {q \in Runners : Holds(runner[q]) /\ HeldSeqs(runner[q])[o] # None}}
      BY <1>1, <1>5
    <3> QED
      BY <3>1, <3>2, <3>3 DEF Claims
  <2> QED
    BY <1>1, <1>2, <1>4, <2>1, <2>2, LedgerShrinks
<1>7. \A i \in Inputs : /\ inputs[i].sent \in Nat /\ inputs'[i].sent \in Nat
                        /\ inputs[i].sent <= inputs'[i].sent
                        /\ ~inputs[i].present => ~inputs'[i].present
  BY <1>2 DEF TypeOK, Input, StreamsGrow
<1>8. ASSUME NEW g \in Generations PROVE RecordOK(g)'
  <2>1. RecordOK(g) /\ settled[g] \in Settled
    BY <1>2 DEF RecordsOK, TypeOK
  <2>2. \A i \in Inputs : settled[g].offset[i] \in Nat /\ settled[g].offset[i] <= inputs'[i].sent
    BY <1>7, <2>1 DEF RecordOK, Settled
  <2>3. HasPending(g) => PendingOK(g, record[g].pending)'
    <3> HAVE HasPending(g)
    <3>1. PICK p : p = record[g].pending /\ p.unit \in Unit /\ PendingOK(g, p)
      BY <1>2, <2>1, PendingMeans DEF RecordOK
    <3>2. Numbers(p.unit, settled[g].length)' = Numbers(p.unit, settled[g].length)
      BY <1>1 DEF Numbers
    <3>3. \A i \in Inputs : p.unit.next[i] \in Nat
      BY <3>1 DEF Unit
    <3>4. \A i \in Inputs : p.unit.next[i] <= inputs'[i].sent
      BY <1>7, <3>1, <3>3 DEF PendingOK
    <3>5. \A i \in p.unit.gone : ~inputs'[i].present
      BY <1>7, <3>1 DEF PendingOK, Unit
    <3>6. PendingOK(g, p)'
      BY <1>1, <3>1, <3>2, <3>4, <3>5 DEF PendingOK
    <3> QED
      BY <1>1, <3>1, <3>6 DEF PendingOK
  <2>4. settled[g].ended => \E i \in Inputs : ~inputs'[i].present
    BY <1>7, <2>1 DEF RecordOK
  <2> QED
    BY <1>1, <1>3, <2>1, <2>2, <2>3, <2>4 DEF RecordOK
<1>9. ASSUME NEW q \in Runners PROVE RunnerOK(q, runner[q])'
  <2>1. PICK f \in Runner : f = runner[q] /\ f = runner'[q] /\ RunnerOK(q, f)
    BY <1>1, <1>2 DEF Inv, TypeOK, RunnersOK
  <2>2. CheckpointGrows(generation[q])
    <3> PICK k \in Generations : k = generation[q]
      BY <1>2 DEF TypeOK
    <3>1. version[k] \in Nat /\ settled[k].offset \in [Inputs -> Nat] /\ RecordOK(k)'
      BY <1>2, <1>8 DEF TypeOK, Settled
    <3> QED
      BY <1>1, <3>1 DEF CheckpointGrows, RecordOK
  <2>3. RunnerOK(q, f)'
    BY <1>1, <1>2, <2>1, <2>2, OtherRunnersKeep DEF declared
  <2> QED
    BY <2>1, <2>3
<1>10. EverythingRan' /\ Supported'
  BY <1>1 DEF Inv, EverythingRan, Supported, OneWriter
<1> QED
  BY <1>6, <1>8, <1>9, <1>10 DEF Inv, RecordsOK, RunnersOK

LEMMA ProduceKeeps == ASSUME Inv, NEW i \in Inputs, Produce(i) PROVE Inv'
<1>1. TypeOK /\ inputs \in [Inputs -> Input] /\ inputs[i] \in Input
  BY DEF Inv, TypeOK
<1>2. PICK more \in {0, 1}, closed \in BOOLEAN :
         /\ inputs[i].sent + more <= Len(Routes[i])
         /\ inputs' = [inputs EXCEPT ![i].sent = @ + more, ![i].closed = closed]
  BY DEF Produce
<1>3. PICK n \in Nat : n = inputs[i].sent + more
  BY <1>1 DEF Input
<1>4. PICK p : p = [inputs[i] EXCEPT !.sent = n, !.closed = closed]
  OBVIOUS
<1>5. p \in Input /\ p.sent = n /\ p.closed = closed /\ p.present = inputs[i].present
  BY <1>1, <1>4 DEF Input
<1>6. inputs' = [inputs EXCEPT ![i] = p]
  BY <1>1, <1>2, <1>3, <1>4 DEF Input
<1>7. inputs' \in [Inputs -> Input] /\ inputs'[i] = p
      /\ \A j \in Inputs \ {i} : inputs'[j] = inputs[j]
  BY <1>1, <1>5, <1>6
<1>8. /\ declared' = declared /\ guarantee' = guarantee /\ outs' = outs /\ positions' = positions
      /\ outputs' = outputs
      /\ checkpoint' = checkpoint /\ runner' = runner /\ settled' = settled /\ runs' = runs
      /\ dropped' = dropped /\ aborts' = aborts /\ history' = history /\ held' = held
  BY DEF Produce, declared, held, history
<1>9. TypeOK'
  BY <1>1, <1>7, <1>8 DEF TypeOK, declared, checkpoint
<1>10. \A j \in Inputs : inputs[j].sent \in Nat /\ inputs'[j].sent \in Nat
  BY <1>1, <1>7 DEF Input
<1>11. ~inputs[i].closed /\ inputs[i].present /\ inputs[i].sent <= n /\ n <= Len(Routes[i])
  BY <1>2, <1>3, <1>10 DEF Produce
<1>12. InputsOK'
  BY <1>5, <1>7, <1>11 DEF Inv, InputsOK
<1>13. StreamsGrow
  <2>1. \A j \in Inputs :
          /\ inputs[j].sent <= inputs'[j].sent
          /\ inputs[j].closed => inputs'[j].closed /\ inputs'[j].sent = inputs[j].sent
          /\ ~inputs[j].present => ~inputs'[j].present
    BY <1>5, <1>7, <1>10, <1>11
  <2> QED
    BY <1>8, <2>1 DEF StreamsGrow
<1>14. Outlets' /\ NothingLost'
  BY <1>8, OutletsStay
<1>15. UNCHANGED <<declared, checkpoint, runner, settled, runs>>
  BY <1>8
<1> QED
  BY <1>8, <1>9, <1>12, <1>13, <1>14, <1>15, StreamStepKeeps

LEMMA RemoveInputKeeps == ASSUME Inv, NEW i \in Inputs, RemoveInput(i) PROVE Inv'
<1>1. TypeOK /\ inputs \in [Inputs -> Input] /\ inputs[i] \in Input
  BY DEF Inv, TypeOK
<1>2. PICK p : p = [inputs[i] EXCEPT !.present = FALSE]
  OBVIOUS
<1>3. p \in Input /\ p.sent = inputs[i].sent /\ p.closed = inputs[i].closed /\ ~p.present
  BY <1>1, <1>2 DEF Input
<1>4. inputs' = [inputs EXCEPT ![i] = p] /\ i \in Removable
  BY <1>1, <1>2 DEF RemoveInput, Input
<1>5. inputs' \in [Inputs -> Input] /\ inputs'[i] = p
      /\ \A j \in Inputs \ {i} : inputs'[j] = inputs[j]
  BY <1>1, <1>3, <1>4
<1>6. /\ declared' = declared /\ guarantee' = guarantee /\ outs' = outs /\ positions' = positions
      /\ outputs' = outputs
      /\ checkpoint' = checkpoint /\ runner' = runner /\ settled' = settled /\ runs' = runs
      /\ dropped' = dropped /\ aborts' = aborts /\ history' = history /\ held' = held
  BY DEF RemoveInput, declared, held, history
<1>7. TypeOK'
  BY <1>1, <1>5, <1>6 DEF TypeOK, declared, checkpoint
<1>8. InputsOK'
  BY <1>3, <1>4, <1>5 DEF Inv, InputsOK
<1>9. StreamsGrow
  <2>1. \A j \in Inputs : inputs[j].sent \in Nat
    BY <1>1 DEF Input
  <2>2. \A j \in Inputs :
          /\ inputs[j].sent <= inputs'[j].sent
          /\ inputs[j].closed => inputs'[j].closed /\ inputs'[j].sent = inputs[j].sent
          /\ ~inputs[j].present => ~inputs'[j].present
    BY <1>3, <1>5, <2>1
  <2> QED
    BY <1>6, <2>2 DEF StreamsGrow
<1>10. Outlets' /\ NothingLost'
  BY <1>6, OutletsStay
<1>11. UNCHANGED <<declared, checkpoint, runner, settled, runs>>
  BY <1>6
<1> QED
  BY <1>6, <1>7, <1>8, <1>9, <1>10, <1>11, StreamStepKeeps

LEMMA OutputKeeps ==
    ASSUME Inv, NEW o \in Outputs, CloseOutput(o) \/ CreateOutput(o)
    PROVE  Inv'
<1>1. TypeOK /\ outputs \in [Outputs -> {"open", "closed", "missing"}]
  BY DEF Inv, TypeOK
<1>2. /\ declared' = declared /\ guarantee' = guarantee /\ outs' = outs /\ positions' = positions
      /\ inputs' = inputs
      /\ checkpoint' = checkpoint /\ runner' = runner /\ settled' = settled /\ runs' = runs
      /\ dropped' = dropped /\ aborts' = aborts /\ history' = history /\ held' = held
  BY DEF CloseOutput, CreateOutput, declared, held, history
<1>3. outputs' \in [Outputs -> {"open", "closed", "missing"}]
  BY <1>1 DEF CloseOutput, CreateOutput
<1>4. TypeOK'
  BY <1>1, <1>2, <1>3 DEF TypeOK, declared, checkpoint
<1>5. InputsOK'
  BY <1>2 DEF Inv, InputsOK
<1>6. StreamsGrow
  <2>1. \A j \in Inputs : inputs[j].sent \in Nat
    BY <1>1 DEF TypeOK, Input
  <2> QED
    BY <1>2, <2>1 DEF StreamsGrow
<1>7. Outlets' /\ NothingLost'
  BY <1>2, OutletsStay
<1>8. UNCHANGED <<declared, checkpoint, runner, settled, runs>>
  BY <1>2
<1> QED
  BY <1>2, <1>4, <1>5, <1>6, <1>7, <1>8, StreamStepKeeps

\* What an output held is gone, and it is not counted as lost.
LEMMA RemoveOutputKeeps == ASSUME Inv, NEW o \in Outputs, RemoveOutput(o) PROVE Inv'
<1>1. TypeOK /\ Outlets
  BY DEF Inv
<1>2. /\ declared' = declared /\ guarantee' = guarantee /\ inputs' = inputs
      /\ checkpoint' = checkpoint /\ runner' = runner /\ settled' = settled /\ runs' = runs
      /\ aborts' = aborts /\ dropped' = dropped \cup {o} /\ (Pinning' <=> Pinning)
  BY DEF RemoveOutput, declared, Pinning
<1>3. /\ outs' \in [Outputs -> Seq(Unit)] /\ outs'[o] = <<>>
      /\ positions' \in [Outputs -> ProducerState \cup {None}] /\ positions'[o] = None
      /\ \A q \in Outputs \ {o} : outs'[q] = outs[q] /\ positions'[q] = positions[q]
      /\ outputs' \in [Outputs -> {"open", "closed", "missing"}]
  BY <1>1 DEF TypeOK, RemoveOutput
<1>4. TypeOK'
  BY <1>1, <1>2, <1>3 DEF TypeOK, declared, checkpoint
<1>5. InputsOK'
  BY <1>2 DEF Inv, InputsOK
<1>6. StreamsGrow
  <2>1. \A j \in Inputs : inputs[j].sent \in Nat
    BY <1>1 DEF TypeOK, Input
  <2>2. \A q \in Outputs \ dropped' : outs'[q] = outs[q]
    BY <1>2, <1>3
  <2> QED
    BY <1>2, <2>1, <2>2 DEF StreamsGrow
<1>7. Outlets'
  <2>1. PositionsOK'
    BY <1>1, <1>2, <1>3 DEF Outlets, PositionsOK
  <2>2. \A m \in 1..Len(outs'[o]) : FALSE
    BY <1>3, LenOfEmpty
  <2>3. Sorted'
    <3> SUFFICES ASSUME NEW q \in Outputs, NEW m \in 1..Len(outs'[q]), NEW n \in 1..Len(outs'[q]),
                        m < n, outs'[q][m].generation = outs'[q][n].generation
                 PROVE  outs'[q][m].state < outs'[q][n].state
      BY DEF Sorted
    <3> QED
      BY <1>1, <1>3, <2>2 DEF Outlets, Sorted
  <2>4. NoHole'
    <3> SUFFICES ASSUME Pinning, NEW q \in Outputs, NEW m \in 1..Len(outs'[q]), NEW i \in Inputs,
                        NEW k \in 1..outs'[q][m].from[i], q \in Routes[i][k]
                 PROVE  \E n \in 1..m - 1 : /\ outs'[q][n].generation = outs'[q][m].generation
                                            /\ k \in Items(outs'[q][n], i)
      BY <1>2 DEF NoHole, Pinning
    <3>1. outs'[q] = outs[q]
      BY <1>3, <2>2
    <3> QED
      BY <1>1, <3>1 DEF Outlets, NoHole, Pinning
  <2>5. OldGenerationIsFenced'
    <3> SUFFICES ASSUME Pinning, NEW q \in Outputs, NEW m \in 1..Len(outs'[q]),
                        NEW n \in 1..Len(outs'[q]), m < n
                 PROVE  outs'[q][m].generation <= outs'[q][n].generation
      BY <1>2 DEF OldGenerationIsFenced, Pinning
    <3>1. outs'[q] = outs[q]
      BY <1>3, <2>2
    <3> QED
      BY <1>1, <3>1 DEF Outlets, OldGenerationIsFenced, Pinning
  <2> QED
    BY <2>1, <2>3, <2>4, <2>5 DEF Outlets
<1>8. NothingLost'
  <2> SUFFICES ASSUME guarantee # "at-least-once",
                      NEW k \in Generations, NEW i \in Inputs,
                      NEW j \in 1..settled[k].offset[i], NEW q \in Routes[i][j] \ dropped'
               PROVE  \E m \in 1..Len(outs'[q]) :
                        outs'[q][m].generation = k /\ j \in Items(outs'[q][m], i)
    BY <1>2 DEF NothingLost
  <2>1. settled[k].offset[i] \in Nat /\ inputs[i].sent \in Nat
        /\ settled[k].offset[i] <= inputs[i].sent
    <3>1. settled[k] \in Settled /\ inputs[i] \in Input
      BY <1>1 DEF TypeOK
    <3> QED
      BY <3>1 DEF Settled, Input, Inv, RecordsOK, RecordOK
  <2>2. j \in Nat /\ j \in 1..inputs[i].sent
    BY <2>1
  <2>3. q \in Outputs
    BY <2>2, RoutedIsOutput
  <2>4. outs'[q] = outs[q] /\ q \in Routes[i][j] \ dropped
    BY <1>2, <1>3, <2>3
  <2> QED
    BY <2>4 DEF Inv, NothingLost
<1>9. UNCHANGED <<declared, checkpoint, runner, settled, runs>>
  BY <1>2
<1>10. \A q \in Outputs : \/ outs'[q] = outs[q] /\ positions'[q] = positions[q]
                          \/ outs'[q] = <<>> /\ positions'[q] = None
  BY <1>3
<1> QED
  BY <1>4, <1>5, <1>6, <1>7, <1>8, <1>9, <1>10, StreamStepKeeps

-----------------------------------------------------------------------------
(***************************************************************************)
(* The invariant.                                                          *)
(***************************************************************************)
LEMMA InvInitially == Init /\ Supported => Inv
<1> SUFFICES ASSUME Init, Supported PROVE Inv
  OBVIOUS
<1> USE DEF Init
<1>1. NoItems \in [Inputs -> Nat] /\ Idle \in Runner /\ Idle.pc = "idle"
  BY NoItemsType, IdleType
<1>2. PICK s : s = [offset |-> NoItems, length |-> [o \in Outputs |-> 0], state |-> 0,
                    ended |-> FALSE]
  OBVIOUS
<1>3. s \in Settled /\ s.offset = NoItems /\ s.length = [o \in Outputs |-> 0] /\ s.state = 0 /\ ~s.ended
  BY <1>1, <1>2 DEF Settled
<1>4. settled = [g \in Generations |-> s]
  BY <1>2
<1>5. PICK i0 : i0 = [sent |-> 0, closed |-> FALSE, present |-> TRUE]
  OBVIOUS
<1>6. i0 \in Input /\ i0.sent = 0 /\ ~i0.closed /\ i0.present
  BY <1>5 DEF Input
<1>7. inputs = [i \in Inputs |-> i0]
  BY <1>5
<1>8. TypeOK
  <2>1. settled \in [Generations -> Settled]
    BY <1>3, <1>4
  <2>2. inputs \in [Inputs -> Input]
    BY <1>6, <1>7
  <2>3. outs \in [Outputs -> Seq(Unit)]
    BY EmptySeq
  <2> QED
    BY <1>1, <2>1, <2>2, <2>3 DEF TypeOK
<1>9. \A o \in Outputs : outs[o] = <<>> /\ positions[o] = None /\ \A m \in 1..Len(outs[o]) : FALSE
  BY LenOfEmpty
<1>10. \A g \in Generations : ~HasPending(g)
  BY DEF HasPending
<1>11. \A r \in Runners : runner[r].pc = "idle"
  BY <1>1
<1>12. \A r \in Runners : ~Holds(runner[r])
  BY <1>11 DEF Holds
<1>13. Known = {}
  <2>1. Pendings = {}
    BY <1>10 DEF Pendings
  <2>2. Written = {}
    BY <1>9 DEF Written
  <2> QED
    BY <1>12, <2>1, <2>2 DEF Known
<1>14. \A o \in Outputs : Claims(o) = {}
  <2> TAKE o \in Outputs
  <2>1. PendingClaims(o) = {}
    BY <1>10 DEF PendingClaims
  <2>2. LastClaim(o) = {}
    BY DEF LastClaim
  <2> QED
    BY <1>12, <2>1, <2>2 DEF Claims
<1>15. Ledger
  <2>1. StartsLate
    <3>1. \A o \in Outputs : Silent(o, NoItems, NoItems)
      BY <1>1, NothingIsSilent
    <3> QED
      BY <1>3, <1>4, <3>1 DEF StartsLate
  <2> QED
    BY <1>13, <1>14, <2>1 DEF Ledger, UnitsOK, Agreed, Numbered, Ordered
<1>16. Outlets
  BY <1>9 DEF Outlets, PositionsOK, Sorted, NoHole, OldGenerationIsFenced
<1>17. RecordsOK
  <2> SUFFICES ASSUME NEW g \in Generations PROVE RecordOK(g)
    BY DEF RecordsOK
  <2>1. settled[g] = s /\ record[g] = None /\ version[g] = 0
    BY <1>4
  <2>2. NothingSettled(s)
    BY <1>3 DEF NothingSettled
  <2>3. \A i \in Inputs : s.offset[i] <= inputs[i].sent
    BY <1>3, <1>6, <1>7 DEF NoItems
  <2> QED
    BY <1>3, <1>10, <2>1, <2>2, <2>3 DEF RecordOK
<1>18. InputsOK
  BY <1>6, <1>7, RoutesAssumption, LenProperties DEF InputsOK
<1>19. RunnersOK
  BY <1>1, RestingKeeps DEF RunnersOK
<1>20. NothingLost /\ EverythingRan
  BY <1>3, <1>4 DEF NothingLost, EverythingRan, NoItems
<1> QED
  BY <1>8, <1>15, <1>16, <1>17, <1>18, <1>19, <1>20 DEF Inv

LEMMA NextKeeps == Inv /\ [Next]_vars => Inv'
<1> SUFFICES ASSUME Inv, [Next]_vars PROVE Inv'
  OBVIOUS
<1>1. CASE UNCHANGED vars
  <2>1. UNCHANGED <<declared, checkpoint, streams, runner, history, aborts>>
    BY <1>1 DEF vars
  <2>2. UNCHANGED <<declared, checkpoint, runner, settled, runs>>
    BY <2>1 DEF history
  <2>3. TypeOK' /\ InputsOK' /\ StreamsGrow
    <3>1. \A j \in Inputs : inputs[j].sent \in Nat
      BY DEF Inv, TypeOK, Input
    <3> QED
      BY <2>1, <3>1 DEF Inv, TypeOK, InputsOK, StreamsGrow, declared, checkpoint, streams, held, history
  <2>4. Outlets' /\ NothingLost'
    BY <2>1, OutletsStay DEF streams
  <2>5. \A o \in Outputs : outs'[o] = outs[o] /\ positions'[o] = positions[o]
    BY <2>1 DEF streams, held
  <2> QED
    BY <2>2, <2>3, <2>4, <2>5, StreamStepKeeps
<1>2. ASSUME NEW r \in Runners, Pass(r) PROVE Inv'
  <2>1. CASE Load(r)
    BY <2>1, LoadKeeps
  <2>2. CASE ReadInput(r)
    BY <2>2, ReadInputKeeps
  <2>3. CASE Reproduce(r)
    BY <2>3, ReproduceKeeps
  <2>4. CASE Prepare(r)
    BY <2>4, PrepareKeeps
  <2>5. CASE Pin(r)
    BY <2>5, PinKeeps
  <2>6. CASE AppendPinned(r)
    BY <2>6, AppendPinnedKeeps
  <2>7. CASE Run(r)
    BY <2>7, RunKeeps
  <2>8. CASE Settle(r)
    BY <2>8, SettleKeeps
  <2>9. CASE Transact(r)
    BY <2>9, TransactKeeps
  <2>10. CASE Forget(r)
    BY <2>10, ForgetKeeps
  <2>11. CASE Wake(r)
    BY <2>11, StopKeeps
  <2> QED
    BY <1>2, <2>1, <2>2, <2>3, <2>4, <2>5, <2>6, <2>7, <2>8, <2>9, <2>10, <2>11 DEF Pass
<1>3. ASSUME NEW r \in Runners, Again(r) \/ Abort(r) PROVE Inv'
  BY <1>3, StopKeeps
<1>4. ASSUME NEW i \in Inputs, Produce(i) \/ RemoveInput(i) PROVE Inv'
  BY <1>4, ProduceKeeps, RemoveInputKeeps
<1>5. ASSUME NEW o \in Outputs, CloseOutput(o) \/ RemoveOutput(o) \/ CreateOutput(o) PROVE Inv'
  BY <1>5, OutputKeeps, RemoveOutputKeeps
<1> QED
  BY <1>1, <1>2, <1>3, <1>4, <1>5 DEF Next

LEMMA InvMeans == Inv => EffectivelyOnce /\ WholeUnits /\ EndsAtTheEnd
<1> SUFFICES ASSUME Inv PROVE EffectivelyOnce /\ WholeUnits /\ EndsAtTheEnd
  OBVIOUS
<1>1. TypeOK /\ Ledger /\ Outlets /\ NothingLost /\ EverythingRan
  BY DEF Inv
<1>2. \A o \in Outputs : \A m \in 1..Len(outs[o]) : outs[o][m] \in Known /\ outs[o][m] \in Unit
  BY <1>1 DEF Known, Written, Ledger, UnitsOK
<1>3. NoItemTwice
  <2> SUFFICES ASSUME NEW o \in Outputs, NEW m \in 1..Len(outs[o]), NEW n \in 1..Len(outs[o]),
                      m < n, outs[o][m].generation = outs[o][n].generation
               PROVE  Before(outs[o][m], outs[o][n])
    BY DEF NoItemTwice
  <2>1. PICK u \in Unit, v \in Unit :
           u = outs[o][m] /\ v = outs[o][n] /\ u \in Known /\ v \in Known
    BY <1>2
  <2>2. u.state < v.state /\ u.state \in Nat /\ v.state \in Nat /\ u.generation = v.generation
    BY <1>1, <2>1 DEF Outlets, Sorted, Unit
  <2>3. Agree(u, v)
    BY <1>1, <2>1 DEF Ledger, Agreed
  <2> QED
    BY <2>1, <2>2, <2>3 DEF Agree, Follows
<1>4. OutputsAgree
  <2> SUFFICES ASSUME NEW o \in Outputs, NEW p \in Outputs, NEW m \in 1..Len(outs[o]),
                      NEW n \in 1..Len(outs[p]), NEW u, u = outs[o][m], NEW v, v = outs[p][n]
               PROVE  \/ u = v \/ u.generation # v.generation
                      \/ Before(u, v) /\ u.state < v.state
                      \/ Before(v, u) /\ v.state < u.state
    BY DEF OutputsAgree
  <2>1. Agree(u, v)
    BY <1>1, <1>2 DEF Ledger, Agreed
  <2> QED
    BY <2>1 DEF Agree, Follows
<1>5. RunsAgree
  <2> SUFFICES ASSUME NEW u \in runs, NEW v \in runs, u.generation = v.generation
               PROVE  u = v \/ Before(u, v) \/ Before(v, u)
    BY DEF RunsAgree
  <2>1. Agree(u, v)
    BY <1>1 DEF Ledger, Agreed, Known
  <2> QED
    BY <2>1 DEF Agree, Follows
<1>6. EndsAtTheEnd
  BY DEF Inv, RunnersOK, RunnerOK, EndOK, EndsAtTheEnd
<1> QED
  BY <1>1, <1>3, <1>4, <1>5, <1>6 DEF Outlets, EffectivelyOnce, WholeUnits

LEMMA InvAlways == Spec /\ Supported => []Inv
<1>1. Init /\ Supported => Inv
  BY InvInitially
<1>2. Inv /\ [Next]_vars => Inv'
  BY NextKeeps
<1> QED
  BY <1>1, <1>2, PTL DEF Spec

(***************************************************************************)
(* The guarantee of the outputs, whatever the commit, the failures and the *)
(* interleaving of the passes: every item once, in order and without       *)
(* holes, in units that all outputs cut alike, and one generation after    *)
(* the other (runner.ts, commit/producer.ts, commit/transaction.ts).       *)
(***************************************************************************)
THEOREM OutputsAreEffectivelyOnce == Spec /\ Supported => []EffectivelyOnce
<1>1. Inv => EffectivelyOnce
  BY InvMeans
<1> QED
  BY <1>1, InvAlways, PTL

(***************************************************************************)
(* An at-least-once handler sees every item before the stored offsets, and *)
(* each always in the same unit (commit/at-least-once.ts, unit.ts).        *)
(***************************************************************************)
THEOREM HandlersSeeWholeUnits == Spec /\ Supported => []WholeUnits
<1>1. Inv => WholeUnits
  BY InvMeans
<1> QED
  BY <1>1, InvAlways, PTL

(***************************************************************************)
(* A follower that ends has settled all of every closed input, or one is   *)
(* gone (follow.ts:172).                                                   *)
(***************************************************************************)
THEOREM FollowersEndAtTheEnd == Spec /\ Supported => []EndsAtTheEnd
<1>1. Inv => EndsAtTheEnd
  BY InvMeans
<1> QED
  BY <1>1, InvAlways, PTL

-----------------------------------------------------------------------------
(***************************************************************************)
(* The passes of a projection implement AtomicProjection: a unit is taken, *)
(* folded and written in one step, the save that settles it, although its  *)
(* items reach the outputs one after the other before, or again.           *)
(***************************************************************************)

(***************************************************************************)
(* The elements of a finite set of numbers by their rank.                  *)
(***************************************************************************)
UpTo(S, m) == {n \in S : n <= m}
Rank(S, m) == Cardinality(UpTo(S, m))
Nth(S, k) == CHOOSE m \in S : Rank(S, m) = k

LEMMA RankTypes ==
    ASSUME NEW c \in Nat, NEW S \in SUBSET (1..c), NEW m \in S
    PROVE  /\ IsFiniteSet(S) /\ Cardinality(S) \in Nat
           /\ IsFiniteSet(UpTo(S, m)) /\ Rank(S, m) \in 1..Cardinality(S)
<1>1. IsFiniteSet(1..c)
  BY FS_Interval
<1>2. IsFiniteSet(S) /\ Cardinality(S) \in Nat
  BY <1>1, FS_Subset, FS_CardinalityType
<1>3. UpTo(S, m) \in SUBSET S /\ m \in UpTo(S, m)
  BY DEF UpTo
<1>4. IsFiniteSet(UpTo(S, m)) /\ Cardinality(UpTo(S, m)) <= Cardinality(S)
      /\ Cardinality(UpTo(S, m)) \in Nat
  BY <1>2, <1>3, FS_Subset, FS_CardinalityType
<1>5. Cardinality(UpTo(S, m)) # 0
  BY <1>3, <1>4, FS_EmptySet
<1> QED
  BY <1>2, <1>4, <1>5 DEF Rank

\* A greater element has a greater rank.
LEMMA RanksGrow ==
    ASSUME NEW c \in Nat, NEW S \in SUBSET (1..c), NEW m \in S, NEW n \in S, m < n
    PROVE  Rank(S, m) < Rank(S, n)
<1>1. UpTo(S, m) \in SUBSET UpTo(S, n) /\ n \in UpTo(S, n) /\ n \notin UpTo(S, m)
  <2>1. \A x \in S : x \in Nat
    OBVIOUS
  <2>2. m \in Nat /\ n \in Nat
    BY <2>1
  <2>3. ASSUME NEW x \in S, x <= m PROVE x <= n
    <3>1. x \in Nat /\ m < n
      BY <2>1
    <3> QED
      BY ONLY <2>2, <2>3, <3>1
  <2>4. UpTo(S, m) \in SUBSET UpTo(S, n)
    BY ONLY <2>3 DEF UpTo
  <2>5. n <= n /\ ~(n <= m)
    BY ONLY m < n, <2>2
  <2> QED
    BY <2>4, <2>5 DEF UpTo
<1>2. IsFiniteSet(UpTo(S, n)) /\ Rank(S, n) \in Nat /\ Rank(S, m) \in Nat
  <2>1. /\ IsFiniteSet(UpTo(S, n)) /\ Rank(S, n) \in 1..Cardinality(S)
        /\ Rank(S, m) \in 1..Cardinality(S)
    BY RankTypes
  <2> QED
    BY <2>1
<1>3. Rank(S, m) <= Rank(S, n) /\ (Rank(S, n) = Rank(S, m) => UpTo(S, n) = UpTo(S, m))
  BY <1>1, <1>2, FS_Subset DEF Rank
<1> QED
  BY <1>1, <1>2, <1>3

LEMMA SmallestOf ==
    ASSUME NEW S \in SUBSET Nat, S # {}
    PROVE  \E m \in S : \A n \in S : m <= n
<1>1. PICK m \in S : \A n \in S : ~(<<n, m>> \in OpToRel(<, Nat))
  BY NatLessThanWellFounded, WFMin, Zenon
<1>2. \A n \in S : ~(n < m)
  BY <1>1 DEF OpToRel
<1> QED
  BY <1>2

LEMMA GreatestOf ==
    ASSUME NEW c \in Nat, NEW S \in SUBSET (1..c), S # {}
    PROVE  \E m \in S : \A n \in S : n <= m
<1> DEFINE T == {k \in Nat : \E n \in S : k = c - n}
<1>1. T \in SUBSET Nat /\ \A n \in S : c - n \in T
  OBVIOUS
<1>2. T # {}
  BY <1>1
<1>3. PICK k \in T : \A l \in T : k <= l
  BY <1>1, <1>2, SmallestOf
<1>4. PICK m \in S : k = c - m
  OBVIOUS
<1> QED
  BY <1>1, <1>3, <1>4

LEMMA RankIsTaken ==
    ASSUME NEW c \in Nat, NEW S \in SUBSET (1..c), NEW k \in 1..Cardinality(S)
    PROVE  \E m \in S : Rank(S, m) = k
<1>0. \A x \in S : x \in Nat
  OBVIOUS
<1>1. IsFiniteSet(S) /\ Cardinality(S) \in Nat
  <2>1. IsFiniteSet(1..c)
    BY FS_Interval
  <2> QED
    BY <2>1, FS_Subset, FS_CardinalityType
<1>2. S # {}
  BY <1>1, FS_EmptySet
<1> DEFINE T == {m \in S : k <= Rank(S, m)}
<1>3. T # {}
  <2>1. PICK g \in S : \A n \in S : n <= g
    BY <1>2, GreatestOf
  <2>2. UpTo(S, g) = S
    BY <1>0, <2>1 DEF UpTo
  <2> QED
    BY <1>1, <2>2 DEF Rank
<1>4. PICK m \in T : \A n \in T : m <= n
  <2>1. T \in SUBSET Nat
    BY <1>0
  <2> HIDE DEF T
  <2> QED
    BY <1>3, <2>1, SmallestOf
<1>5. m \in S /\ m \in Nat /\ k <= Rank(S, m) /\ Rank(S, m) \in Nat
  <2>1. m \in S /\ k <= Rank(S, m)
    OBVIOUS
  <2>2. Rank(S, m) \in 1..Cardinality(S)
    BY <2>1, RankTypes
  <2> QED
    BY <1>0, <2>1, <2>2
<1>6. CASE Rank(S, m) = k
  BY <1>5, <1>6
<1>7. CASE Rank(S, m) # k
  <2> DEFINE P == UpTo(S, m) \ {m}
  <2>1. P \in SUBSET S /\ P \in SUBSET (1..c) /\ m \in UpTo(S, m)
    <3>1. m \in UpTo(S, m)
      BY <1>5 DEF UpTo
    <3>2. P \in SUBSET S
      BY DEF UpTo
    <3> HIDE DEF P
    <3> QED
      BY <3>1, <3>2
  <2>2. IsFiniteSet(UpTo(S, m)) /\ IsFiniteSet(P)
    BY <1>1, <1>5, <2>1, RankTypes, FS_Subset
  <2>3. Cardinality(P) = Rank(S, m) - 1
    BY <2>1, <2>2, FS_RemoveElement DEF Rank
  <2>4. P # {}
    BY <1>5, <1>7, <2>2, <2>3, FS_EmptySet
  <2>5. PICK p \in P : \A n \in P : n <= p
    <3> HIDE DEF P
    <3> QED
      BY <2>1, <2>4, GreatestOf
  <2>6. p \in S /\ p \in Nat /\ p < m
    BY <1>0, <1>5, <2>1 DEF UpTo
  <2>7. UpTo(S, p) = P
    <3>1. \A x \in S : x \in P <=> x <= p
      <4>1. \A x \in S : x \in P <=> (x <= m /\ x # m)
        BY DEF UpTo
      <4>2. \A x \in S : x \in P => x <= p
        BY <2>5
      <4> HIDE DEF P
      <4> QED
        BY <1>0, <1>5, <2>6, <4>1, <4>2
    <3> HIDE DEF P
    <3> QED
      BY <2>1, <3>1 DEF UpTo
  <2>8. k <= Rank(S, p)
    BY <1>5, <1>7, <2>3, <2>7 DEF Rank
  <2> QED
    BY <1>4, <1>5, <2>6, <2>8
<1> QED
  BY <1>6, <1>7

LEMMA NthMeans ==
    ASSUME NEW c \in Nat, NEW S \in SUBSET (1..c), NEW k \in 1..Cardinality(S)
    PROVE  Nth(S, k) \in S /\ Rank(S, Nth(S, k)) = k
<1>1. \E m \in S : Rank(S, m) = k
  BY RankIsTaken
<1> QED
  BY <1>1 DEF Nth

LEMMA NthIs ==
    ASSUME NEW c \in Nat, NEW S \in SUBSET (1..c), NEW m \in S
    PROVE  Nth(S, Rank(S, m)) = m
<1>1. Rank(S, m) \in 1..Cardinality(S)
  BY RankTypes
<1>2. Nth(S, Rank(S, m)) \in S /\ Rank(S, Nth(S, Rank(S, m))) = Rank(S, m)
  BY <1>1, NthMeans
<1>3. PICK n \in S : n = Nth(S, Rank(S, m))
  BY <1>2
<1>4. ~(n < m) /\ ~(m < n)
  <2>1. Rank(S, n) = Rank(S, m) /\ Rank(S, m) \in Nat
    BY <1>1, <1>2, <1>3
  <2>2. n < m => Rank(S, n) < Rank(S, m)
    BY RanksGrow
  <2>3. m < n => Rank(S, m) < Rank(S, n)
    BY RanksGrow
  <2> QED
    BY <2>1, <2>2, <2>3
<1>5. n \in Nat /\ m \in Nat
  OBVIOUS
<1> QED
  BY <1>3, <1>4, <1>5

-----------------------------------------------------------------------------
(***************************************************************************)
(* The units of a generation in an output.                                 *)
(***************************************************************************)
Places(h, g) == {m \in 1..Len(h) : h[m].generation = g}

LEMMA OfGenerationIs ==
    ASSUME NEW h, NEW g
    PROVE  OfGeneration(h, g) =
             [k \in 1..Cardinality(Places(h, g)) |-> h[Nth(Places(h, g), k)]]
BY DEF OfGeneration, Places, Nth, Rank, UpTo

LEMMA PlacesTypes ==
    ASSUME NEW h \in Seq(Unit), NEW g
    PROVE  /\ Len(h) \in Nat /\ Places(h, g) \in SUBSET (1..Len(h))
           /\ IsFiniteSet(Places(h, g)) /\ Cardinality(Places(h, g)) \in Nat
<1>1. Len(h) \in Nat /\ Places(h, g) \in SUBSET (1..Len(h))
  BY LenProperties DEF Places
<1>2. IsFiniteSet(1..Len(h))
  BY <1>1, FS_Interval
<1> QED
  BY <1>1, <1>2, FS_Subset, FS_CardinalityType

\* They are the units at the places of the generation, in order of place.
LEMMA OfGenerationMeans ==
    ASSUME NEW h \in Seq(Unit), NEW g
    PROVE  LET G == OfGeneration(h, g)
           IN  /\ G \in Seq(Unit) /\ Len(G) \in Nat
               /\ Len(G) = Cardinality(Places(h, g))
               /\ \A k \in 1..Len(G) : /\ Nth(Places(h, g), k) \in Places(h, g)
                                       /\ G[k] = h[Nth(Places(h, g), k)]
                                       /\ G[k].generation = g
               /\ \A m \in Places(h, g) : \E k \in 1..Len(G) : G[k] = h[m]
<1> DEFINE P == Places(h, g)
<1> DEFINE G == OfGeneration(h, g)
<1>1. Len(h) \in Nat /\ P \in SUBSET (1..Len(h)) /\ Cardinality(P) \in Nat
  BY PlacesTypes
<1>2. G = [k \in 1..Cardinality(P) |-> h[Nth(P, k)]]
  BY OfGenerationIs
<1>3. \A m \in P : h[m] \in Unit /\ h[m].generation = g
  <2>1. \A m \in 1..Len(h) : h[m] \in Unit
    BY ElementOfSeq
  <2> QED
    BY <2>1 DEF Places
<1>4. \A m \in P : Rank(P, m) \in 1..Cardinality(P) /\ Nth(P, Rank(P, m)) = m
  <2> HIDE DEF P
  <2> QED
    BY <1>1, RankTypes, NthIs
<1>5. \A k \in 1..Cardinality(P) : Nth(P, k) \in P
  <2> HIDE DEF P
  <2> QED
    BY <1>1, NthMeans
<1> HIDE DEF P, G
<1>6. G \in [1..Cardinality(P) -> Unit]
  BY <1>2, <1>3, <1>5
<1>7. G \in Seq(Unit) /\ Len(G) = Cardinality(P)
  BY <1>1, <1>6
<1>8. \A k \in 1..Cardinality(P) : G[k] = h[Nth(P, k)]
  BY <1>2
<1>9. \A m \in P : G[Rank(P, m)] = h[m]
  BY <1>4, <1>8
<1>10. \A m \in P : \E k \in 1..Len(G) : G[k] = h[m]
  BY <1>4, <1>7, <1>9
<1>11. \A k \in 1..Len(G) : Nth(P, k) \in P /\ G[k] = h[Nth(P, k)] /\ G[k].generation = g
  BY <1>3, <1>5, <1>7, <1>8
<1> QED
  BY <1>1, <1>7, <1>10, <1>11 DEF P, G

\* Whatever grows along the output grows along the units of a generation.
LEMMA OfGenerationGrows ==
    ASSUME NEW h \in Seq(Unit), NEW g,
           \A m, n \in Places(h, g) : m < n => h[m].state < h[n].state
    PROVE  \A j, k \in 1..Len(OfGeneration(h, g)) :
             j < k => OfGeneration(h, g)[j].state < OfGeneration(h, g)[k].state
<1> DEFINE P == Places(h, g)
<1> DEFINE G == OfGeneration(h, g)
<1>1. Len(h) \in Nat /\ P \in SUBSET (1..Len(h)) /\ Cardinality(P) \in Nat
  BY PlacesTypes
<1>2. /\ Len(G) = Cardinality(P)
      /\ \A k \in 1..Len(G) : Nth(P, k) \in P /\ G[k] = h[Nth(P, k)]
  BY OfGenerationMeans
<1>3. \A m, n \in P : m < n => h[m].state < h[n].state
  OBVIOUS
<1> HIDE DEF P, G
<1>4. ASSUME NEW j \in 1..Len(G), NEW k \in 1..Len(G), j < k PROVE G[j].state < G[k].state
  <2>1. PICK m \in P : m = Nth(P, j)
    BY <1>2
  <2>2. PICK n \in P : n = Nth(P, k)
    BY <1>2
  <2>3. Rank(P, m) = j /\ Rank(P, n) = k
    BY <1>1, <1>2, <2>1, <2>2, NthMeans
  <2>4. m \in Nat /\ n \in Nat
    BY <1>1
  <2>5. n < m => Rank(P, n) < Rank(P, m)
    BY <1>1, RanksGrow
  <2>6. m < n
    BY <1>4, <2>3, <2>4, <2>5
  <2> QED
    BY <1>2, <1>3, <2>1, <2>2, <2>6
<1> QED
  BY <1>4 DEF P, G

\* A unit at the end of an output is at the end of the units of its generation, and the
\* units of the others stay as they are.
LEMMA OfGenerationAppends ==
    ASSUME NEW h \in Seq(Unit), NEW u \in Unit, NEW g
    PROVE  /\ u.generation # g => OfGeneration(Append(h, u), g) = OfGeneration(h, g)
           /\ u.generation = g
                => OfGeneration(Append(h, u), g) = Append(OfGeneration(h, g), u)
<1> DEFINE k == Append(h, u)
<1> DEFINE P == Places(h, g)
<1> DEFINE Q == Places(k, g)
<1> DEFINE l == Len(h) + 1
<1>1. /\ Len(h) \in Nat /\ P \in SUBSET (1..Len(h)) /\ IsFiniteSet(P)
      /\ Cardinality(P) \in Nat
  BY PlacesTypes
<1>2. /\ k \in Seq(Unit) /\ Len(k) = l /\ k[l] = u
      /\ \A m \in 1..Len(h) : k[m] = h[m]
  BY AppendProperties
<1>3. /\ Q \in SUBSET (1..l) /\ IsFiniteSet(Q) /\ Cardinality(Q) \in Nat
  BY <1>2, PlacesTypes
<1>4. \A m \in 1..l : m \in Q <=> k[m].generation = g
  BY <1>2 DEF Places
<1>5. \A m \in 1..Len(h) : m \in P <=> h[m].generation = g
  BY DEF Places
<1>6. OfGeneration(k, g) = [n \in 1..Cardinality(Q) |-> k[Nth(Q, n)]]
  BY OfGenerationIs
<1>7. OfGeneration(h, g) = [n \in 1..Cardinality(P) |-> h[Nth(P, n)]]
  BY OfGenerationIs
<1>8. l \in 1..l /\ l \in Nat /\ l \notin P /\ \A m \in 1..Len(h) : m \in 1..l /\ m < l
  BY <1>1
<1>9. \A n \in 1..Cardinality(P) : Nth(P, n) \in P /\ Rank(P, Nth(P, n)) = n
  <2> HIDE DEF P
  <2> QED
    BY <1>1, NthMeans
<1> HIDE DEF P, Q, k, l
<1>10. ASSUME u.generation # g PROVE OfGeneration(k, g) = OfGeneration(h, g)
  <2>1. Q = P
    <3>1. \A m \in 1..l : m \in 1..Len(h) \/ m = l
      BY <1>1 DEF l
    <3>2. l \notin Q
      BY <1>2, <1>4, <1>8, <1>10
    <3> QED
      BY <1>1, <1>2, <1>3, <1>4, <1>5, <1>8, <3>1, <3>2
  <2>2. \A n \in 1..Cardinality(P) : k[Nth(Q, n)] = h[Nth(P, n)]
    BY <1>1, <1>2, <1>9, <2>1
  <2> QED
    BY <1>6, <1>7, <2>1, <2>2
<1>11. ASSUME u.generation = g PROVE OfGeneration(k, g) = Append(OfGeneration(h, g), u)
  <2>1. Q = P \cup {l}
    <3>1. \A m \in 1..l : m \in 1..Len(h) \/ m = l
      BY <1>1 DEF l
    <3>2. l \in Q
      BY <1>1, <1>2, <1>4, <1>8, <1>11 DEF l
    <3>3. \A m \in Q : m \in P \/ m = l
      BY <1>2, <1>3, <1>4, <1>5, <3>1
    <3>4. \A m \in P : m \in Q
      BY <1>1, <1>2, <1>4, <1>5, <1>8
    <3> QED
      BY <3>2, <3>3, <3>4
  <2>2. Cardinality(Q) = Cardinality(P) + 1
    BY <1>1, <1>8, <2>1, FS_AddElement
  <2>3. \A m \in P : m \in Q /\ Rank(Q, m) = Rank(P, m)
    <3>1. ASSUME NEW m \in P PROVE UpTo(Q, m) = UpTo(P, m)
      <4>1. m \in Nat /\ ~(l <= m)
        BY <1>1, <1>8
      <4> QED
        BY <2>1, <4>1 DEF UpTo
    <3> QED
      BY <2>1, <3>1 DEF Rank
  <2>4. \A n \in 1..Cardinality(P) : Nth(Q, n) = Nth(P, n)
    <3> TAKE n \in 1..Cardinality(P)
    <3>1. PICK m \in P : m = Nth(P, n)
      BY <1>9
    <3>2. m \in Q /\ Rank(Q, m) = n
      BY <1>9, <2>3, <3>1
    <3> QED
      BY <1>3, <1>8, <3>1, <3>2, NthIs
  <2>5. Nth(Q, Cardinality(Q)) = l
    <3>1. UpTo(Q, l) = Q
      <4>1. \A m \in Q : m <= l
        BY <1>3, <1>8
      <4> QED
        BY <4>1 DEF UpTo
    <3>2. l \in Q /\ Rank(Q, l) = Cardinality(Q)
      BY <2>1, <3>1 DEF Rank
    <3> QED
      BY <1>3, <1>8, <3>2, NthIs
  <2>6. /\ OfGeneration(h, g) \in Seq(Unit)
        /\ Len(OfGeneration(h, g)) = Cardinality(P)
    BY OfGenerationMeans DEF P
  <2>7. /\ OfGeneration(k, g) \in Seq(Unit)
        /\ Len(OfGeneration(k, g)) = Cardinality(Q)
    BY <1>2, OfGenerationMeans DEF Q
  <2>8. \A n \in 1..Cardinality(P) : OfGeneration(k, g)[n] = OfGeneration(h, g)[n]
    <3> TAKE n \in 1..Cardinality(P)
    <3>1. n \in 1..Cardinality(Q)
      BY <1>1, <2>2
    <3>2. OfGeneration(k, g)[n] = k[Nth(Q, n)] /\ OfGeneration(h, g)[n] = h[Nth(P, n)]
      BY <1>6, <1>7, <3>1
    <3>3. Nth(P, n) \in 1..Len(h)
      BY <1>1, <1>9
    <3> QED
      BY <1>2, <2>4, <3>2, <3>3
  <2>9. OfGeneration(k, g)[Cardinality(P) + 1] = u
    <3>1. Cardinality(Q) \in 1..Cardinality(Q)
      BY <1>1, <1>3, <2>2
    <3>2. OfGeneration(k, g)[Cardinality(Q)] = k[l]
      BY <1>6, <2>5, <3>1
    <3> QED
      BY <1>2, <2>2, <3>2
  <2>10. /\ Append(OfGeneration(h, g), u) \in Seq(Unit)
         /\ Len(Append(OfGeneration(h, g), u)) = Cardinality(P) + 1
         /\ \A n \in 1..Cardinality(P) :
              Append(OfGeneration(h, g), u)[n] = OfGeneration(h, g)[n]
         /\ Append(OfGeneration(h, g), u)[Cardinality(P) + 1] = u
    BY <2>6, AppendProperties
  <2>11. \A n \in 1..Cardinality(Q) :
           OfGeneration(k, g)[n] = Append(OfGeneration(h, g), u)[n]
    BY <1>1, <2>2, <2>8, <2>9, <2>10
  <2> QED
    BY <2>2, <2>7, <2>10, <2>11, SeqEqual
<1> QED
  BY <1>10, <1>11 DEF k

-----------------------------------------------------------------------------
(***************************************************************************)
(* The count: of the units of a generation in an output, the settled ones  *)
(* come first, and they are as many as were settled for it.                *)
(***************************************************************************)
UnitsOf(o, g) == OfGeneration(outs[o], g)

Counts(units, length) ==
  /\ length <= Len(units)
  /\ \A k \in 1..Len(units) : k <= length <=> Past(units[k])

CountOK(o, g) == Counts(UnitsOf(o, g), settled[g].length[o])

WrittenOK == \A o \in Outputs : \A m \in 1..Len(outs[o]) : Emits(outs[o][m], o)

CountsOK ==
  guarantee # "at-least-once" => \A o \in Outputs \ dropped, g \in Generations : CountOK(o, g)

CInv == Inv /\ WrittenOK /\ CountsOK

LEMMA UnitsOfMeans ==
    ASSUME Inv, NEW o \in Outputs, NEW g \in Generations, NEW units, units = UnitsOf(o, g)
    PROVE  /\ units \in Seq(Unit) /\ Len(units) \in Nat
           /\ \A k \in 1..Len(units) :
                /\ units[k] \in Unit /\ units[k] \in Known /\ units[k].generation = g
                /\ Past(units[k]) \/ IsPending(units[k])
                /\ \E m \in 1..Len(outs[o]) : units[k] = outs[o][m]
           /\ \A m \in 1..Len(outs[o]) :
                outs[o][m].generation = g => \E k \in 1..Len(units) : units[k] = outs[o][m]
           /\ \A j, k \in 1..Len(units) : j < k => units[j].state < units[k].state
           /\ settled[g] \in Settled /\ settled[g].length[o] \in Nat
<1>1. TypeOK /\ UnitsOK /\ Sorted
  BY DEF Inv, Ledger, Outlets
<1>2. PICK h \in Seq(Unit) : h = outs[o]
  BY <1>1 DEF TypeOK
<1>3. \A m \in 1..Len(h) : h[m] \in Known
  BY <1>2 DEF Known, Written
<1>4. /\ units \in Seq(Unit) /\ Len(units) \in Nat
      /\ \A k \in 1..Len(units) : /\ Nth(Places(h, g), k) \in Places(h, g)
                                  /\ units[k] = h[Nth(Places(h, g), k)]
                                  /\ units[k].generation = g
      /\ \A m \in Places(h, g) : \E k \in 1..Len(units) : units[k] = h[m]
  BY <1>2, OfGenerationMeans DEF UnitsOf
<1>5. \A m \in Places(h, g) : m \in 1..Len(h)
  BY DEF Places
<1>6. \A k \in 1..Len(units) : \E m \in 1..Len(h) : units[k] = h[m]
  BY <1>4, <1>5
<1>7. \A k \in 1..Len(units) : /\ units[k] \in Unit /\ units[k] \in Known
                               /\ Past(units[k]) \/ IsPending(units[k])
  BY <1>1, <1>3, <1>6 DEF UnitsOK
<1>8. \A m \in 1..Len(h) : h[m].generation = g => m \in Places(h, g)
  BY DEF Places
<1>9. \A m, n \in Places(h, g) : m < n => h[m].state < h[n].state
  BY <1>1, <1>2 DEF Places, Sorted
<1>10. \A j, k \in 1..Len(units) : j < k => units[j].state < units[k].state
  BY <1>2, <1>9, OfGenerationGrows DEF UnitsOf
<1>11. settled[g] \in Settled /\ settled[g].length[o] \in Nat
  BY <1>1 DEF TypeOK, Settled
<1> QED
  BY <1>2, <1>4, <1>6, <1>7, <1>8, <1>10, <1>11

\* The unit that a save settles was not past, and is from now on.
Settles(g, u) ==
  /\ u.generation = g /\ u.from = settled[g].offset /\ u.state = settled[g].state
  /\ \A i \in Inputs : u.from[i] <= u.next[i]
  /\ settled'[g].offset = u.next /\ settled'[g].state = u.state + 1
  /\ \A o \in Outputs : settled'[g].length[o] =
       IF Emits(u, o) THEN settled[g].length[o] + 1 ELSE settled[g].length[o]

LEMMA SettledIsPast ==
    ASSUME Inv, NEW g \in Generations, NEW u \in Unit, Settles(g, u)
    PROVE  /\ ~Past(u) /\ Past(u)'
           /\ \A v \in Unit : v.generation = g /\ Past(v) => Past(v)'
<1>1. settled[g] \in Settled
  BY DEF Inv, TypeOK
<1>2. settled[g].state \in Nat /\ settled[g].offset \in [Inputs -> Nat]
  BY <1>1 DEF Settled
<1>3. u.generation = g /\ u.state \in Nat /\ u.next \in [Inputs -> Nat]
  BY DEF Settles, Unit
<1>4. ~Past(u)
  BY <1>2, <1>3 DEF Past, Settles
<1>5. Past(u)'
  BY <1>2, <1>3 DEF Past, Settles
<1>6. ASSUME NEW v \in Unit, v.generation = g, Past(v) PROVE Past(v)'
  <2>1. v.state \in Nat /\ v.next \in [Inputs -> Nat]
    BY DEF Unit
  <2>2. /\ settled'[g].state = settled[g].state + 1
        /\ \A i \in Inputs : settled'[g].offset[i] = u.next[i]
        /\ \A i \in Inputs : settled[g].offset[i] <= u.next[i]
    BY DEF Settles
  <2>3. v.state < settled[g].state /\ \A i \in Inputs : v.next[i] <= settled[g].offset[i]
    BY <1>6 DEF Past
  <2>4. v.state < settled'[g].state
    BY <1>2, <2>1, <2>2, <2>3
  <2>5. \A i \in Inputs : v.next[i] <= settled'[g].offset[i]
    BY <1>2, <1>3, <2>1, <2>2, <2>3
  <2> QED
    BY <1>6, <2>4, <2>5 DEF Past
<1> QED
  BY <1>4, <1>5, <1>6

\* The start of a sequence, and of one that is longer by an element.
LEMMA StartOf ==
    ASSUME NEW s \in Seq(Unit), NEW l \in Nat, l <= Len(s)
    PROVE  /\ SubSeq(s, 1, l) \in Seq(Unit) /\ Len(SubSeq(s, 1, l)) = l
           /\ \A k \in 1..l : SubSeq(s, 1, l)[k] = s[k]
<1>1. \A k \in 1..l : k \in 1..Len(s) /\ s[k] \in Unit
  OBVIOUS
<1>2. l \in Int /\ 1 \in Int /\ l - 1 + 1 = l
  OBVIOUS
<1>3. /\ SubSeq(s, 1, l) \in Seq(Unit)
      /\ Len(SubSeq(s, 1, l)) = IF 1 <= l THEN l - 1 + 1 ELSE 0
      /\ \A k \in 1..l - 1 + 1 : SubSeq(s, 1, l)[k] = s[1 + k - 1]
  BY <1>1, <1>2, SubSeqProperties
<1> QED
  BY <1>1, <1>2, <1>3

LEMMA StartStays ==
    ASSUME NEW s \in Seq(Unit), NEW t \in Seq(Unit), NEW l \in Nat, l <= Len(s), l <= Len(t),
           \A k \in 1..l : s[k] = t[k]
    PROVE  SubSeq(s, 1, l) = SubSeq(t, 1, l)
<1>1. /\ SubSeq(s, 1, l) \in Seq(Unit) /\ Len(SubSeq(s, 1, l)) = l
      /\ SubSeq(t, 1, l) \in Seq(Unit) /\ Len(SubSeq(t, 1, l)) = l
      /\ \A k \in 1..l : SubSeq(s, 1, l)[k] = s[k] /\ SubSeq(t, 1, l)[k] = t[k]
  BY StartOf
<1> QED
  BY <1>1, SeqEqual

LEMMA StartGrows ==
    ASSUME NEW s \in Seq(Unit), NEW t \in Seq(Unit), NEW l \in Nat, l <= Len(s), l + 1 <= Len(t),
           \A k \in 1..l : s[k] = t[k], NEW u \in Unit, t[l + 1] = u
    PROVE  SubSeq(t, 1, l + 1) = Append(SubSeq(s, 1, l), u)
<1>1. /\ SubSeq(s, 1, l) \in Seq(Unit) /\ Len(SubSeq(s, 1, l)) = l
      /\ \A k \in 1..l : SubSeq(s, 1, l)[k] = s[k]
  BY StartOf
<1>2. /\ SubSeq(t, 1, l + 1) \in Seq(Unit) /\ Len(SubSeq(t, 1, l + 1)) = l + 1
      /\ \A k \in 1..l + 1 : SubSeq(t, 1, l + 1)[k] = t[k]
  BY StartOf
<1>3. /\ Append(SubSeq(s, 1, l), u) \in Seq(Unit)
      /\ Len(Append(SubSeq(s, 1, l), u)) = l + 1
      /\ \A k \in 1..l : Append(SubSeq(s, 1, l), u)[k] = s[k]
      /\ Append(SubSeq(s, 1, l), u)[l + 1] = u
  BY <1>1, AppendProperties
<1>4. \A k \in 1..l + 1 : SubSeq(t, 1, l + 1)[k] = Append(SubSeq(s, 1, l), u)[k]
  BY <1>2, <1>3
<1> QED
  BY <1>2, <1>3, <1>4, SeqEqual

-----------------------------------------------------------------------------
(***************************************************************************)
(* What the steps do to the units of a generation in an output.            *)
(***************************************************************************)
SettledUnits(o, g) == SubSeq(UnitsOf(o, g), 1, settled[g].length[o])

LEMMA NothingReaches ==
    ASSUME Inv, NEW o \in Outputs, NEW g \in Generations, CountOK(o, g),
           settled'[g] = settled[g], UnitsOf(o, g)' = UnitsOf(o, g)
    PROVE  CountOK(o, g)' /\ SettledUnits(o, g)' = SettledUnits(o, g)
<1>1. PICK units : units = UnitsOf(o, g)
  OBVIOUS
<1>2. \A k \in 1..Len(units) : units[k].generation = g
  BY <1>1, UnitsOfMeans
<1>3. \A k \in 1..Len(units) : Past(units[k])' <=> Past(units[k])
  BY <1>2 DEF Past
<1>4. CountOK(o, g)'
  BY <1>1, <1>3 DEF CountOK, Counts
<1> QED
  BY <1>4 DEF SettledUnits

\* A unit that is written before it is settled comes after the settled ones.
LEMMA PinnedReaches ==
    ASSUME Inv, NEW o \in Outputs, NEW g \in Generations, CountOK(o, g),
           settled'[g] = settled[g], NEW u \in Unit, u.generation = g, ~Past(u),
           UnitsOf(o, g)' = Append(UnitsOf(o, g), u)
    PROVE  CountOK(o, g)' /\ SettledUnits(o, g)' = SettledUnits(o, g)
<1>1. PICK units : units = UnitsOf(o, g)
  OBVIOUS
<1>2. PICK l \in Nat : l = settled[g].length[o]
  BY UnitsOfMeans
<1>3. /\ units \in Seq(Unit) /\ Len(units) \in Nat
      /\ \A k \in 1..Len(units) : units[k].generation = g
  BY <1>1, UnitsOfMeans
<1>4. PICK more : more = Append(units, u)
  OBVIOUS
<1>5. /\ more \in Seq(Unit) /\ Len(more) = Len(units) + 1 /\ more[Len(units) + 1] = u
      /\ \A k \in 1..Len(units) : more[k] = units[k]
  BY <1>3, <1>4, AppendProperties
<1>6. l <= Len(units) /\ \A k \in 1..Len(units) : k <= l <=> Past(units[k])
  BY <1>1, <1>2 DEF CountOK, Counts
<1>7. \A k \in 1..Len(units) : Past(units[k])' <=> Past(units[k])
  BY <1>3 DEF Past
<1>8. ~Past(u)'
  BY DEF Past
<1>9. ASSUME NEW k \in 1..Len(more) PROVE k <= l <=> Past(more[k])'
  <2>1. CASE k \in 1..Len(units)
    BY <1>5, <1>6, <1>7, <2>1
  <2>2. CASE k \notin 1..Len(units)
    <3>1. k = Len(units) + 1
      BY ONLY <1>3, <1>5, <2>2, k \in 1..Len(more)
    <3>2. ~(k <= l)
      BY ONLY l \in Nat, <1>3, <1>6, <3>1
    <3> QED
      BY <1>5, <1>8, <3>1, <3>2
  <2> QED
    BY <2>1, <2>2
<1>10. l <= Len(more)
  BY <1>3, <1>5, <1>6
<1>11. UnitsOf(o, g)' = more /\ settled'[g].length[o] = l
  BY <1>1, <1>2, <1>4
<1>12. CountOK(o, g)'
  BY <1>9, <1>10, <1>11 DEF CountOK, Counts
<1>13. SubSeq(more, 1, l) = SubSeq(units, 1, l)
  <2>1. \A k \in 1..l : units[k] = more[k]
    BY <1>3, <1>5, <1>6
  <2> QED
    BY <1>3, <1>5, <1>6, <1>10, <2>1, StartStays
<1> QED
  BY <1>1, <1>2, <1>11, <1>12, <1>13 DEF SettledUnits

\* A unit is settled that reached the output before.
LEMMA SettleReaches ==
    ASSUME Inv, NEW o \in Outputs, NEW g \in Generations, CountOK(o, g), WrittenOK,
           NEW u \in Unit, Settles(g, u), UnitsOf(o, g)' = UnitsOf(o, g),
           HasPending(g) => record[g].pending.unit = u,
           Emits(u, o) => \E m \in 1..Len(outs[o]) : outs[o][m] = u
    PROVE  CountOK(o, g)' /\ SettledUnits(o, g)' = Received(SettledUnits(o, g), u, o)
<1>1. PICK units : units = UnitsOf(o, g)
  OBVIOUS
<1>2. PICK l \in Nat : l = settled[g].length[o]
  BY UnitsOfMeans
<1>3. /\ units \in Seq(Unit) /\ Len(units) \in Nat
      /\ \A k \in 1..Len(units) : /\ units[k] \in Unit /\ units[k].generation = g
                                  /\ Past(units[k]) \/ IsPending(units[k])
                                  /\ \E m \in 1..Len(outs[o]) : units[k] = outs[o][m]
      /\ \A m \in 1..Len(outs[o]) :
           outs[o][m].generation = g => \E k \in 1..Len(units) : units[k] = outs[o][m]
      /\ \A j, k \in 1..Len(units) : j < k => units[j].state < units[k].state
  BY <1>1, UnitsOfMeans
<1>4. l <= Len(units) /\ \A k \in 1..Len(units) : k <= l <=> Past(units[k])
  BY <1>1, <1>2 DEF CountOK, Counts
<1>5. /\ ~Past(u) /\ Past(u)' /\ u.generation = g
      /\ \A v \in Unit : v.generation = g /\ Past(v) => Past(v)'
  BY SettledIsPast DEF Settles
<1>6. u.state \in Nat
  BY DEF Unit
<1>7. \A k \in 1..Len(units) : Past(units[k]) \/ units[k] = u
  BY <1>3 DEF IsPending
<1>8. \A k \in 1..Len(units) : Past(units[k])'
  BY <1>3, <1>5, <1>7
<1>9. \A j, k \in 1..Len(units) : units[j] = u /\ units[k] = u => j = k
  <2> TAKE j, k \in 1..Len(units)
  <2>1. j \in Nat /\ k \in Nat
    OBVIOUS
  <2>2. units[j] = u /\ units[k] = u => ~(j < k) /\ ~(k < j)
    BY <1>3, <1>6
  <2> QED
    BY <2>1, <2>2
<1>10. UnitsOf(o, g)' = units
  BY <1>1
<1>11. CASE Emits(u, o)
  <2>1. PICK k \in 1..Len(units) : units[k] = u
    BY <1>3, <1>5, <1>11
  <2>2. ~(k <= l) /\ k \in Nat
    BY <1>4, <1>5, <2>1
  <2>3. l + 1 \in 1..Len(units) /\ ~(l + 1 <= l)
    BY <1>3, <2>2
  <2>4. k = l + 1
    BY <1>4, <1>7, <1>9, <2>1, <2>3
  <2>5. Len(units) = l + 1
    <3>1. Len(units) \in 1..Len(units) /\ ~(Len(units) <= l)
      BY <1>3, <2>3
    <3> QED
      BY <1>4, <1>7, <1>9, <2>1, <2>4, <3>1
  <2>6. settled'[g].length[o] = l + 1
    BY <1>2, <1>11 DEF Settles
  <2>7. CountOK(o, g)'
    <3>1. \A j \in 1..Len(units) : j <= l + 1
      BY <2>5
    <3> QED
      BY <1>8, <1>10, <2>5, <2>6, <3>1 DEF CountOK, Counts
  <2>8. SubSeq(units, 1, l + 1) = Append(SubSeq(units, 1, l), u)
    BY <1>3, <1>4, <2>1, <2>3, <2>4, <2>5, StartGrows
  <2> QED
    BY <1>1, <1>2, <1>10, <1>11, <2>6, <2>7, <2>8 DEF SettledUnits, Received
<1>12. CASE ~Emits(u, o)
  <2>1. \A k \in 1..Len(units) : Past(units[k])
    BY <1>3, <1>7, <1>12 DEF WrittenOK
  <2>2. settled'[g].length[o] = l
    BY <1>2, <1>12 DEF Settles
  <2>3. CountOK(o, g)'
    BY <1>4, <1>8, <1>10, <2>1, <2>2 DEF CountOK, Counts
  <2> QED
    BY <1>1, <1>2, <1>10, <1>12, <2>2, <2>3 DEF SettledUnits, Received
<1> QED
  BY <1>11, <1>12

\* A unit reaches the output as it is settled.
LEMMA TransactReaches ==
    ASSUME Inv, NEW o \in Outputs, NEW g \in Generations, CountOK(o, g),
           NEW u \in Unit, Settles(g, u), ~HasPending(g),
           UnitsOf(o, g)' = Received(UnitsOf(o, g), u, o)
    PROVE  CountOK(o, g)' /\ SettledUnits(o, g)' = Received(SettledUnits(o, g), u, o)
<1>1. PICK units : units = UnitsOf(o, g)
  OBVIOUS
<1>2. PICK l \in Nat : l = settled[g].length[o]
  BY UnitsOfMeans
<1>3. /\ units \in Seq(Unit) /\ Len(units) \in Nat
      /\ \A k \in 1..Len(units) : /\ units[k] \in Unit /\ units[k].generation = g
                                  /\ Past(units[k]) \/ IsPending(units[k])
  BY <1>1, UnitsOfMeans
<1>4. l <= Len(units) /\ \A k \in 1..Len(units) : k <= l <=> Past(units[k])
  BY <1>1, <1>2 DEF CountOK, Counts
<1>5. /\ Past(u)' /\ u.generation = g
      /\ \A v \in Unit : v.generation = g /\ Past(v) => Past(v)'
  BY SettledIsPast DEF Settles
<1>6. \A k \in 1..Len(units) : Past(units[k]) /\ Past(units[k])'
  BY <1>3, <1>5 DEF IsPending
<1>7. Len(units) = l
  <2>1. Len(units) = 0 \/ Len(units) \in 1..Len(units)
    BY <1>3
  <2> QED
    BY <1>3, <1>4, <1>6, <2>1
<1>8. CASE Emits(u, o)
  <2>1. PICK more : more = Append(units, u)
    OBVIOUS
  <2>2. /\ more \in Seq(Unit) /\ Len(more) = l + 1 /\ more[l + 1] = u
        /\ \A k \in 1..l : more[k] = units[k]
    BY <1>3, <1>7, <2>1, AppendProperties
  <2>3. settled'[g].length[o] = l + 1 /\ UnitsOf(o, g)' = more
    BY <1>1, <1>2, <1>8, <2>1 DEF Settles, Received
  <2>4. \A k \in 1..Len(more) : k <= l + 1 /\ Past(more[k])'
    <3> TAKE k \in 1..Len(more)
    <3>1. k <= l + 1 /\ (k \in 1..l \/ k = l + 1)
      BY <2>2
    <3> QED
      BY <1>5, <1>6, <1>7, <2>2, <3>1
  <2>5. CountOK(o, g)'
    BY <2>2, <2>3, <2>4 DEF CountOK, Counts
  <2>6. SubSeq(more, 1, l + 1) = Append(SubSeq(units, 1, l), u)
    <3>1. l <= Len(units) /\ l + 1 <= Len(more) /\ \A k \in 1..l : units[k] = more[k]
      BY <1>7, <2>2
    <3> QED
      BY <1>3, <2>2, <3>1, StartGrows
  <2> QED
    BY <1>1, <1>2, <1>8, <2>3, <2>5, <2>6 DEF SettledUnits, Received
<1>9. CASE ~Emits(u, o)
  <2>1. settled'[g].length[o] = l /\ UnitsOf(o, g)' = units
    BY <1>1, <1>2, <1>9 DEF Settles, Received
  <2>2. CountOK(o, g)'
    BY <1>4, <1>6, <2>1 DEF CountOK, Counts
  <2> QED
    BY <1>1, <1>2, <1>9, <2>1, <2>2 DEF SettledUnits, Received
<1> QED
  BY <1>8, <1>9

-----------------------------------------------------------------------------
(***************************************************************************)
(* A step settles a unit of a generation, which reaches the outputs, or    *)
(* leaves the generation as it is.                                         *)
(***************************************************************************)
Stays(g) ==
  /\ settled'[g] = settled[g]
  /\ \A o \in Outputs \ dropped' : CountOK(o, g)' /\ SettledUnits(o, g)' = SettledUnits(o, g)

Takes(g, u) ==
  /\ Settles(g, u) /\ ~settled[g].ended /\ EndsWith(settled'[g], u)
  /\ \A i \in Inputs : u.next[i] <= Len(Routes[i])
  /\ \A o \in Outputs \ dropped' :
       CountOK(o, g)' /\ SettledUnits(o, g)' = Received(SettledUnits(o, g), u, o)

Moves ==
  /\ guarantee' = guarantee /\ dropped \subseteq dropped' /\ WrittenOK'
  /\ \A g \in Generations : Stays(g) \/ \E u \in Unit : Takes(g, u)

Quiet == UNCHANGED <<guarantee, outs, settled, dropped>>

\* The steps that neither write to an output nor settle a unit.
LEMMA QuietSteps ==
    ASSUME NEW r \in Runners,
           \/ Load(r) \/ ReadInput(r) \/ Reproduce(r) \/ Prepare(r) \/ Pin(r) \/ Run(r)
           \/ Forget(r) \/ Wake(r) \/ Again(r) \/ Abort(r) \/ Conflict(r)
    PROVE  Quiet
<1>1. ASSUME UNCHANGED <<declared, held, history>> PROVE Quiet
  BY <1>1 DEF Quiet, declared, held, history
<1>2. CASE Load(r) \/ ReadInput(r) \/ Reproduce(r)
  BY <1>1, <1>2 DEF Load, ReadInput, Reproduce, streams
<1>3. CASE Prepare(r)
  BY <1>1, <1>3 DEF Prepare
<1>4. CASE Conflict(r)
  BY <1>1, <1>4 DEF Conflict, streams
<1>5. CASE Pin(r)
  BY <1>1, <1>4, <1>5 DEF Pin, streams
<1>6. CASE Run(r)
  BY <1>6 DEF Run, Quiet, declared, streams, held
<1>7. CASE Forget(r) \/ Wake(r) \/ Again(r) \/ Abort(r)
  BY <1>1, <1>7 DEF Forget, Wake, Again, Abort, streams
<1> QED
  BY <1>2, <1>3, <1>4, <1>5, <1>6, <1>7

LEMMA StepKinds ==
    ASSUME [Next]_vars
    PROVE  \/ Quiet
           \/ \E r \in Runners : AppendPinned(r) \/ Settle(r) \/ Transact(r)
           \/ \E o \in Outputs : RemoveOutput(o)
<1>1. CASE UNCHANGED vars
  BY <1>1 DEF vars, Quiet, declared, streams, held, history
<1>2. ASSUME NEW r \in Runners, Pass(r)
      PROVE  Quiet \/ AppendPinned(r) \/ Settle(r) \/ Transact(r)
  BY <1>2, QuietSteps DEF Pass
<1>3. ASSUME NEW r \in Runners, Again(r) \/ Abort(r) PROVE Quiet
  BY <1>3, QuietSteps
<1>4. ASSUME NEW i \in Inputs, Produce(i) \/ RemoveInput(i) PROVE Quiet
  BY <1>4 DEF Produce, RemoveInput, Quiet, declared, held, history
<1>5. ASSUME NEW o \in Outputs, CloseOutput(o) \/ CreateOutput(o) PROVE Quiet
  BY <1>5 DEF CloseOutput, CreateOutput, Quiet, declared, held, history
<1> QED
  BY <1>1, <1>2, <1>3, <1>4, <1>5 DEF Next

LEMMA QuietMoves ==
    ASSUME CInv, guarantee # "at-least-once", Quiet
    PROVE  Moves
<1>1. guarantee' = guarantee /\ outs' = outs /\ settled' = settled /\ dropped' = dropped
  BY DEF Quiet
<1>2. WrittenOK'
  BY <1>1 DEF CInv, WrittenOK
<1>3. ASSUME NEW g \in Generations PROVE Stays(g)
  <2>1. ASSUME NEW o \in Outputs \ dropped'
        PROVE  CountOK(o, g)' /\ SettledUnits(o, g)' = SettledUnits(o, g)
    <3>1. Inv /\ CountOK(o, g)
      BY <1>1 DEF CInv, CountsOK
    <3>2. settled'[g] = settled[g] /\ UnitsOf(o, g)' = UnitsOf(o, g)
      BY <1>1 DEF UnitsOf
    <3> QED
      BY <3>1, <3>2, NothingReaches
  <2> QED
    BY <1>1, <2>1 DEF Stays
<1> QED
  BY <1>1, <1>2, <1>3 DEF Moves

LEMMA RemoveOutputMoves ==
    ASSUME CInv, guarantee # "at-least-once", NEW o \in Outputs, RemoveOutput(o)
    PROVE  Moves
<1>1. /\ guarantee' = guarantee /\ settled' = settled /\ dropped' = dropped \cup {o}
      /\ outs' = [outs EXCEPT ![o] = <<>>]
  BY DEF RemoveOutput, declared
<1>2. outs'[o] = <<>> /\ \A p \in Outputs \ {o} : outs'[p] = outs[p]
  BY <1>1 DEF CInv, Inv, TypeOK
<1>3. WrittenOK'
  <2>1. \A m \in 1..Len(outs'[o]) : Emits(outs'[o][m], o)
    BY <1>2
  <2> QED
    BY <1>2, <2>1 DEF CInv, WrittenOK
<1>4. ASSUME NEW g \in Generations PROVE Stays(g)
  <2>1. ASSUME NEW p \in Outputs \ dropped'
        PROVE  CountOK(p, g)' /\ SettledUnits(p, g)' = SettledUnits(p, g)
    <3>1. Inv /\ CountOK(p, g)
      BY <1>1 DEF CInv, CountsOK
    <3>2. settled'[g] = settled[g] /\ UnitsOf(p, g)' = UnitsOf(p, g)
      BY <1>1, <1>2 DEF UnitsOf
    <3> QED
      BY <3>1, <3>2, NothingReaches
  <2> QED
    BY <1>1, <2>1 DEF Stays
<1> QED
  BY <1>1, <1>3, <1>4 DEF Moves

\* What an append to an output adds, if it is accepted: a unit of the pass that was not
\* settled, or the output would hold it.
LEMMA AppendPinnedMoves ==
    ASSUME CInv, Inv', guarantee # "at-least-once", NEW r \in Runners, AppendPinned(r)
    PROVE  Moves
<1>1. PICK f \in Runner : f = runner[r]
  BY DEF CInv, Inv, TypeOK
<1>2. PICK g \in Generations : g = generation[r]
  BY DEF CInv, Inv, TypeOK
<1>3. /\ Inv /\ TypeOK /\ Ledger /\ NothingLost /\ RunnerOK(r, f) /\ f.pc = "append"
      /\ f.pc \in Mid /\ PassOK(r, f) /\ StageOK(f) /\ Pinning
      /\ f.left # {} /\ f.left \subseteq Targets(f.seqs)
  BY <1>1 DEF CInv, Inv, RunnersOK, RunnerOK, StageOK, AppendPinned, At, Mid
<1>4. PICK o \in Outputs : o = FirstOf(f.left) /\ o \in f.left /\ f.seqs[o] # None
  BY <1>3, FirstOfIsIn DEF Targets
<1>5. PICK u \in Unit : u = f.unit
  BY DEF Runner
<1>6. /\ guarantee' = guarantee /\ settled' = settled /\ dropped' = dropped
      /\ outs' = outs \/ outs' = [outs EXCEPT ![o] = Append(outs[o], u)]
  BY <1>1, <1>4, <1>5 DEF AppendPinned, declared, history, held
<1>7. CASE outs' = outs
  BY <1>6, <1>7, QuietMoves DEF Quiet
<1>8. CASE outs' = [outs EXCEPT ![o] = Append(outs[o], u)]
  <2>1. PICK h \in Seq(Unit) : h = outs[o]
    BY <1>3 DEF TypeOK
  <2>2. PICK l \in Nat : l = Len(h)
    BY <2>1
  <2>3. /\ outs'[o] = Append(h, u) /\ \A p \in Outputs \ {o} : outs'[p] = outs[p]
    BY <1>3, <1>8, <2>1 DEF TypeOK
  <2>4. /\ Len(outs'[o]) = l + 1 /\ outs'[o][l + 1] = u
        /\ \A m \in 1..l : outs'[o][m] = h[m]
    BY <2>1, <2>2, <2>3, AppendProperties
  <2>5. u \in Known /\ Emits(u, o) /\ u.generation = g
    <3>1. Holds(f) /\ HeldSeqs(f) = f.seqs
      BY <1>3 DEF Holds, HeldSeqs
    <3>2. u \in Known
      BY <1>1, <1>5, <3>1 DEF Known
    <3>3. <<u, f.seqs[o]>> \in Claims(o)
      BY <1>1, <1>4, <1>5, <3>1 DEF Claims
    <3>4. NumberOK(o, u, f.seqs[o])
      BY <1>3, <3>3 DEF Ledger, Numbered
    <3> QED
      BY <1>2, <1>3, <1>5, <3>2, <3>4 DEF NumberOK, PassOK
  <2>6. WrittenOK'
    <3>1. \A m \in 1..l + 1 : m \in 1..l \/ m = l + 1
      OBVIOUS
    <3>2. \A m \in 1..l : Emits(h[m], o)
      BY <2>1, <2>2 DEF CInv, WrittenOK
    <3>3. \A m \in 1..Len(outs'[o]) : Emits(outs'[o][m], o)
      BY <2>4, <2>5, <3>1, <3>2
    <3> QED
      BY <2>3, <3>3 DEF CInv, WrittenOK
  <2>7. ASSUME o \notin dropped, Past(u) PROVE FALSE
    <3>0. PICK i \in Inputs : \E k \in Items(u, i) : o \in Routes[i][k]
      BY <2>5 DEF Emits
    <3>1. PICK k \in Items(u, i) : o \in Routes[i][k]
      BY <3>0
    <3>2. k \in Nat /\ k >= 1 /\ u.from[i] < k /\ k <= u.next[i]
      BY DEF Items
    <3>3. u.next[i] <= settled[g].offset[i] /\ settled[g].offset[i] \in Nat /\ u.next[i] \in Nat
      BY <1>3, <2>5, <2>7 DEF Past, TypeOK, Settled, Unit
    <3>4. k \in 1..settled[g].offset[i]
      BY <3>2, <3>3
    <3>5. PICK m \in 1..l : h[m].generation = g /\ k \in Items(h[m], i)
      BY <1>3, <2>1, <2>2, <2>7, <3>1, <3>4 DEF NothingLost
    <3>6. PICK v \in Unit : v = h[m] /\ v \in Known
      BY <2>1, <2>2 DEF Known, Written
    <3>7. ~Before(u, v) /\ ~Before(v, u)
      <4>1. v.from[i] < k /\ k <= v.next[i]
        BY <3>5, <3>6 DEF Items
      <4>2. v.from[i] \in Nat /\ v.next[i] \in Nat /\ u.from[i] \in Nat /\ u.next[i] \in Nat
        BY DEF Unit
      <4> QED
        BY <3>2, <4>1, <4>2 DEF Before
    <3>8. u = v
      BY <1>3, <2>5, <3>5, <3>6, <3>7 DEF Ledger, Agreed, Agree, Follows
    <3>9. /\ m \in 1..Len(outs'[o]) /\ l + 1 \in 1..Len(outs'[o]) /\ m < l + 1
          /\ outs'[o][m] = u /\ outs'[o][l + 1] = u
      BY <2>2, <2>4, <3>6, <3>8
    <3>10. u.state < u.state
      BY <3>9 DEF Inv, Outlets, Sorted
    <3> QED
      BY <3>10 DEF Unit
  <2>8. ASSUME NEW d
        PROVE  /\ d = g => OfGeneration(Append(h, u), d) = Append(OfGeneration(h, d), u)
               /\ d # g => OfGeneration(Append(h, u), d) = OfGeneration(h, d)
    BY <2>5, OfGenerationAppends
  <2>9. ASSUME NEW d \in Generations PROVE Stays(d)
    <3>1. ASSUME NEW p \in Outputs \ dropped'
          PROVE  CountOK(p, d)' /\ SettledUnits(p, d)' = SettledUnits(p, d)
      <4>1. CountOK(p, d) /\ p \notin dropped /\ settled'[d] = settled[d]
        BY <1>6 DEF CInv, CountsOK
      <4>2. CASE p = o /\ d = g
        <5>1. UnitsOf(p, d)' = Append(UnitsOf(p, d), u)
          BY <2>1, <2>3, <2>8, <4>2 DEF UnitsOf
        <5> QED
          BY <1>3, <2>5, <2>7, <4>1, <4>2, <5>1, PinnedReaches
      <4>3. CASE ~(p = o /\ d = g)
        <5>1. UnitsOf(p, d)' = UnitsOf(p, d)
          <6>1. CASE p = o
            BY <2>1, <2>3, <2>8, <4>3, <6>1 DEF UnitsOf
          <6>2. CASE p # o
            BY <2>3, <6>2 DEF UnitsOf
          <6> QED
            BY <6>1, <6>2
        <5> QED
          BY <1>3, <4>1, <5>1, NothingReaches
      <4> QED
        BY <4>2, <4>3
    <3> QED
      BY <1>6, <3>1 DEF Stays
  <2> QED
    BY <1>6, <2>6, <2>9 DEF Moves
<1> QED
  BY <1>6, <1>7, <1>8

\* What a save of a unit has in common, in Settle and in Transact.
LEMMA SaveTakes ==
    ASSUME Inv, NEW r \in Runners, NEW f \in Runner, f = runner[r], f.pc \in {"settle", "transact"},
           NEW g \in Generations, g = generation[r], NEW u \in Unit, u = f.unit,
           Save(r, NextRecord(f)), SettledBy(r), AfterSettle(r)
    PROVE  /\ Settles(g, u) /\ ~settled[g].ended /\ EndsWith(settled'[g], u)
           /\ \A i \in Inputs : u.next[i] <= Len(Routes[i])
           /\ HasPending(g) => record[g].pending.unit = u
           /\ f.token = version[g]
           /\ \A k \in Generations \ {g} : settled'[k] = settled[k]
<1>1. /\ u.generation = g /\ u.from = settled[g].offset /\ u.state = settled[g].state
      /\ ~settled[g].ended /\ EndsWith(settled'[g], u)
      /\ \A i \in Inputs : u.from[i] <= u.next[i] /\ u.next[i] <= inputs[i].sent
      /\ HasPending(g) => record[g].pending.unit = u
      /\ f.token = version[g]
      /\ \A k \in Generations \ {g} : settled'[k] = settled[k]
      /\ settled'[g].offset = u.next /\ settled'[g].state = u.state + 1
      /\ \A o \in Outputs : settled'[g].length[o] =
           IF Emits(u, o) THEN settled[g].length[o] + 1 ELSE settled[g].length[o]
  BY NextSaveMeans
<1>2. Settles(g, u)
  BY <1>1 DEF Settles
<1>3. ASSUME NEW i \in Inputs PROVE u.next[i] <= Len(Routes[i])
  <2>1. u.next[i] \in Nat /\ inputs[i].sent \in Nat /\ inputs[i].sent <= Len(Routes[i])
    BY DEF Inv, TypeOK, Input, InputsOK, Unit
  <2>2. Len(Routes[i]) \in Nat
    BY RoutesAssumption, LenProperties
  <2> QED
    BY <1>1, <2>1, <2>2
<1> QED
  BY <1>1, <1>2, <1>3

LEMMA SettleMoves ==
    ASSUME CInv, guarantee # "at-least-once", NEW r \in Runners, Settle(r)
    PROVE  Moves
<1>1. PICK f \in Runner : f = runner[r]
  BY DEF CInv, Inv, TypeOK
<1>2. PICK g \in Generations : g = generation[r]
  BY DEF CInv, Inv, TypeOK
<1>3. PICK u \in Unit : u = f.unit
  BY DEF Runner
<1>4. /\ Inv /\ TypeOK /\ WrittenOK /\ RunnerOK(r, f) /\ f.pc = "settle" /\ f.pc \in Mid
      /\ StageOK(f) /\ SentOK(r, f)
  BY <1>1 DEF CInv, Inv, RunnersOK, RunnerOK, Settle, At, Mid
<1>5. CASE Conflict(r)
  BY <1>5, QuietSteps, QuietMoves
<1>6. CASE /\ Save(r, NextRecord(f)) /\ SettledBy(r) /\ AfterSettle(r)
           /\ UNCHANGED <<declared, streams, runs, dropped, aborts>>
  <2>1. guarantee' = guarantee /\ outs' = outs /\ dropped' = dropped
    BY <1>6 DEF declared, streams, held
  <2>2. /\ Settles(g, u) /\ ~settled[g].ended /\ EndsWith(settled'[g], u)
        /\ \A i \in Inputs : u.next[i] <= Len(Routes[i])
        /\ HasPending(g) => record[g].pending.unit = u
        /\ f.token = version[g]
        /\ \A k \in Generations \ {g} : settled'[k] = settled[k]
    BY <1>1, <1>2, <1>3, <1>4, <1>6, SaveTakes
  <2>3. Pinning
    <3>1. guarantee \in {"effectively-once", "exactly-once", "at-least-once"}
      BY <1>4, ParameterAssumption DEF TypeOK
    <3>2. guarantee # "exactly-once"
      BY <1>4 DEF StageOK
    <3> QED
      BY <3>1, <3>2 DEF Pinning
  <2>4. WrittenOK'
    BY <1>4, <2>1 DEF WrittenOK
  <2>5. ASSUME NEW o \in Outputs \ dropped, Emits(u, o)
        PROVE  \E m \in 1..Len(outs[o]) : outs[o][m] = u
    <3>1. f.seqs = Numbers(u, Base(f).nextSeq) /\ Base(f).nextSeq \in [Outputs -> Nat]
      BY <1>3, <1>4, BaseType DEF StageOK, CheckpointRecord
    <3>2. f.seqs[o] = Base(f).nextSeq[o] /\ Base(f).nextSeq[o] \in Nat
      BY <2>3, <2>5, <3>1 DEF Numbers
    <3>3. o \in Targets(f.seqs)
      BY <3>2, NoneAssumption DEF Targets
    <3> QED
      BY <1>2, <1>3, <1>4, <2>2, <3>3 DEF SentOK, Current
  <2>6. ASSUME NEW o \in Outputs \ dropped'
        PROVE  CountOK(o, g)' /\ SettledUnits(o, g)' = Received(SettledUnits(o, g), u, o)
    <3>1. CountOK(o, g) /\ o \notin dropped
      BY <2>1 DEF CInv, CountsOK
    <3>2. UnitsOf(o, g)' = UnitsOf(o, g)
      BY <2>1 DEF UnitsOf
    <3>3. Emits(u, o) => \E m \in 1..Len(outs[o]) : outs[o][m] = u
      BY <2>5, <3>1
    <3> QED
      BY <1>4, <2>2, <3>1, <3>2, <3>3, SettleReaches
  <2>7. Takes(g, u)
    BY <2>2, <2>6 DEF Takes
  <2>8. ASSUME NEW d \in Generations \ {g} PROVE Stays(d)
    <3>1. ASSUME NEW o \in Outputs \ dropped'
          PROVE  CountOK(o, d)' /\ SettledUnits(o, d)' = SettledUnits(o, d)
      <4>1. CountOK(o, d) /\ settled'[d] = settled[d] /\ UnitsOf(o, d)' = UnitsOf(o, d)
        BY <2>1, <2>2 DEF CInv, CountsOK, UnitsOf
      <4> QED
        BY <1>4, <4>1, NothingReaches
    <3> QED
      BY <2>2, <3>1 DEF Stays
  <2> QED
    BY <2>1, <2>4, <2>7, <2>8 DEF Moves
<1> QED
  BY <1>1, <1>5, <1>6 DEF Settle

LEMMA TransactMoves ==
    ASSUME CInv, guarantee # "at-least-once", NEW r \in Runners, Transact(r)
    PROVE  Moves
<1>1. PICK f \in Runner : f = runner[r]
  BY DEF CInv, Inv, TypeOK
<1>2. PICK g \in Generations : g = generation[r]
  BY DEF CInv, Inv, TypeOK
<1>3. PICK u \in Unit : u = f.unit
  BY DEF Runner
<1>4. /\ Inv /\ TypeOK /\ WrittenOK /\ RunnerOK(r, f) /\ f.pc = "transact"
      /\ guarantee = "exactly-once"
  BY <1>1 DEF CInv, Inv, RunnersOK, RunnerOK, StageOK, Transact, At
<1>5. CASE Conflict(r)
  BY <1>5, QuietSteps, QuietMoves
<1>6. CASE Finish(r) /\ UNCHANGED <<declared, checkpoint, streams, history, aborts>>
  BY <1>6, QuietMoves DEF Quiet, declared, streams, held, history
<1>7. CASE /\ Save(r, NextRecord(f))
           /\ outs' = [o \in Outputs |-> Received(outs[o], f.unit, o)]
           /\ SettledBy(r) /\ AfterSettle(r)
           /\ UNCHANGED <<declared, inputs, outputs, positions, runs, dropped, aborts>>
  <2>1. guarantee' = guarantee /\ dropped' = dropped
    BY <1>7 DEF declared
  <2>2. /\ Settles(g, u) /\ ~settled[g].ended /\ EndsWith(settled'[g], u)
        /\ \A i \in Inputs : u.next[i] <= Len(Routes[i])
        /\ \A k \in Generations \ {g} : settled'[k] = settled[k]
    BY <1>1, <1>2, <1>3, <1>4, <1>7, SaveTakes
  <2>3. ~HasPending(g)
    BY <1>4 DEF Inv, RecordsOK, RecordOK, PendingOK
  <2>4. ASSUME NEW o \in Outputs
        PROVE  outs[o] \in Seq(Unit) /\ outs'[o] = Received(outs[o], u, o)
    BY <1>3, <1>4, <1>7 DEF TypeOK
  <2>5. ASSUME NEW o \in Outputs, NEW m \in 1..Len(outs'[o]) PROVE Emits(outs'[o][m], o)
    <3>1. PICK h \in Seq(Unit) : h = outs[o]
      BY <2>4
    <3>2. \A n \in 1..Len(h) : Emits(h[n], o)
      BY <1>4, <3>1 DEF WrittenOK
    <3>3. CASE Emits(u, o)
      <4>1. outs'[o] = Append(h, u)
        BY <2>4, <3>1, <3>3 DEF Received
      <4>2. /\ Len(Append(h, u)) = Len(h) + 1 /\ Append(h, u)[Len(h) + 1] = u
            /\ \A n \in 1..Len(h) : Append(h, u)[n] = h[n]
        BY AppendProperties
      <4>3. m \in 1..Len(h) \/ m = Len(h) + 1
        BY <2>5, <4>1, <4>2
      <4> QED
        BY <3>2, <3>3, <4>1, <4>2, <4>3
    <3>4. CASE ~Emits(u, o)
      BY <2>4, <2>5, <3>1, <3>2, <3>4 DEF Received
    <3> QED
      BY <3>3, <3>4
  <2>6. ASSUME NEW o \in Outputs, NEW d
        PROVE  UnitsOf(o, d)' = IF d = g THEN Received(UnitsOf(o, d), u, o) ELSE UnitsOf(o, d)
    <3>1. PICK h \in Seq(Unit) : h = outs[o]
      BY <2>4
    <3>2. u.generation = g
      BY <2>2 DEF Settles
    <3>3. /\ d = g => OfGeneration(Append(h, u), d) = Append(OfGeneration(h, d), u)
          /\ d # g => OfGeneration(Append(h, u), d) = OfGeneration(h, d)
      BY <3>2, OfGenerationAppends
    <3>4. outs'[o] = IF Emits(u, o) THEN Append(h, u) ELSE h
      BY <2>4, <3>1 DEF Received
    <3> QED
      BY <3>1, <3>3, <3>4 DEF UnitsOf, Received
  <2>7. ASSUME NEW o \in Outputs \ dropped'
        PROVE  CountOK(o, g)' /\ SettledUnits(o, g)' = Received(SettledUnits(o, g), u, o)
    <3>1. CountOK(o, g)
      BY <1>4, <2>1 DEF CInv, CountsOK
    <3>2. UnitsOf(o, g)' = Received(UnitsOf(o, g), u, o)
      BY <2>6
    <3> QED
      BY <1>4, <2>2, <2>3, <3>1, <3>2, TransactReaches
  <2>8. Takes(g, u)
    BY <2>2, <2>7 DEF Takes
  <2>9. ASSUME NEW d \in Generations \ {g} PROVE Stays(d)
    <3>1. ASSUME NEW o \in Outputs \ dropped'
          PROVE  CountOK(o, d)' /\ SettledUnits(o, d)' = SettledUnits(o, d)
      <4>1. CountOK(o, d) /\ settled'[d] = settled[d]
        BY <1>4, <2>1, <2>2 DEF CInv, CountsOK
      <4>2. UnitsOf(o, d)' = UnitsOf(o, d)
        BY <2>6
      <4> QED
        BY <1>4, <4>1, <4>2, NothingReaches
    <3> QED
      BY <2>2, <3>1 DEF Stays
  <2>10. WrittenOK'
    BY <2>5 DEF WrittenOK
  <2> QED
    BY <2>1, <2>8, <2>9, <2>10 DEF Moves
<1> QED
  BY <1>1, <1>5, <1>6, <1>7 DEF Transact

-----------------------------------------------------------------------------
(***************************************************************************)
(* The invariant, and the refinement.                                      *)
(***************************************************************************)
LEMMA StepMoves ==
    ASSUME CInv, Inv', [Next]_vars, guarantee # "at-least-once"
    PROVE  Moves
<1>1. ASSUME NEW r \in Runners, AppendPinned(r) \/ Settle(r) \/ Transact(r) PROVE Moves
  BY <1>1, AppendPinnedMoves, SettleMoves, TransactMoves
<1>2. ASSUME NEW o \in Outputs, RemoveOutput(o) PROVE Moves
  BY <1>2, RemoveOutputMoves
<1>3. ASSUME Quiet PROVE Moves
  BY <1>3, QuietMoves
<1> QED
  BY <1>1, <1>2, <1>3, StepKinds

LEMMA GuaranteeStays == ASSUME [Next]_vars PROVE guarantee' = guarantee
<1>1. ASSUME NEW r \in Runners, AppendPinned(r) \/ Settle(r) \/ Transact(r)
      PROVE  guarantee' = guarantee
  <2>1. CASE Conflict(r)
    BY <2>1 DEF Conflict, declared
  <2> QED
    BY <1>1, <2>1 DEF AppendPinned, Settle, Transact, declared
<1>2. ASSUME NEW o \in Outputs, RemoveOutput(o) PROVE guarantee' = guarantee
  BY <1>2 DEF RemoveOutput, declared
<1> QED
  BY <1>1, <1>2, StepKinds DEF Quiet

LEMMA CInvInitially == Init /\ Supported => CInv
<1> SUFFICES ASSUME Init, Supported PROVE CInv
  OBVIOUS
<1>1. Inv
  BY InvInitially
<1>2. \A o \in Outputs : outs[o] = <<>>
  BY DEF Init
<1>3. WrittenOK
  BY <1>2 DEF WrittenOK
<1>4. ASSUME NEW o \in Outputs, NEW g \in Generations PROVE CountOK(o, g)
  <2>1. PICK units : units = UnitsOf(o, g)
    OBVIOUS
  <2>2. units \in Seq(Unit) /\ Len(units) \in Nat
        /\ \A k \in 1..Len(units) : \E m \in 1..Len(outs[o]) : units[k] = outs[o][m]
    BY <1>1, <2>1, UnitsOfMeans
  <2>3. Len(units) = 0
    <3>1. 1..Len(outs[o]) = {}
      BY <1>2, LenOfEmpty
    <3>2. 1..Len(units) = {}
      BY <2>2, <3>1
    <3> QED
      BY <2>2, <3>2
  <2>4. settled[g].length[o] = 0
    BY DEF Init
  <2> QED
    BY <2>1, <2>3, <2>4 DEF CountOK, Counts
<1> QED
  BY <1>1, <1>3, <1>4 DEF CInv, CountsOK

LEMMA CInvKeeps == CInv /\ [Next]_vars => CInv'
<1> SUFFICES ASSUME CInv, [Next]_vars PROVE CInv'
  OBVIOUS
<1>1. Inv'
  BY NextKeeps DEF CInv
<1>2. guarantee' = guarantee
  BY GuaranteeStays
<1>3. CASE guarantee = "at-least-once"
  <2>1. \A o \in Outputs : outs'[o] = <<>>
    BY <1>1, <1>2, <1>3 DEF Inv, Outlets, PositionsOK
  <2>2. WrittenOK' /\ CountsOK'
    BY <1>2, <1>3, <2>1, LenOfEmpty DEF WrittenOK, CountsOK
  <2> QED
    BY <1>1, <2>2 DEF CInv
<1>4. CASE guarantee # "at-least-once"
  <2>1. Moves
    BY <1>1, <1>4, StepMoves
  <2>2. WrittenOK'
    BY <2>1 DEF Moves
  <2>3. \A o \in Outputs \ dropped', g \in Generations : CountOK(o, g)'
    BY <2>1 DEF Moves, Stays, Takes
  <2> QED
    BY <1>1, <2>2, <2>3 DEF CInv, CountsOK
<1> QED
  BY <1>3, <1>4

LEMMA CInvAlways == Spec /\ Supported => []CInv
<1>1. Init /\ Supported => CInv
  BY CInvInitially
<1>2. CInv /\ [Next]_vars => CInv'
  BY CInvKeeps
<1> QED
  BY <1>1, <1>2, PTL DEF Spec

LEMMA TakesIsAtomic ==
    ASSUME CInv, CInv', NEW g \in Generations, NEW u \in Unit, Takes(g, u), dropped' = {}
    PROVE  AP(g)!Next
<1>1. PICK s \in Settled : s = settled[g]
  BY DEF CInv, Inv, TypeOK
<1>2. /\ u.generation = g /\ u.from = s.offset /\ u.state = s.state
      /\ \A i \in Inputs : u.from[i] <= u.next[i] /\ u.next[i] <= Len(Routes[i])
      /\ ~s.ended /\ EndsWith(settled'[g], u)
      /\ settled'[g].offset = u.next /\ settled'[g].state = s.state + 1
  BY <1>1 DEF Takes, Settles
<1>3. \A o \in Outputs : SettledUnits(o, g)' = Received(SettledUnits(o, g), u, o)
  BY DEF Takes
<1>4. u = [generation |-> g, from |-> s.offset, next |-> u.next, closed |-> u.closed,
           gone |-> u.gone, state |-> s.state]
  BY <1>2 DEF Unit
<1>5. u.closed \in SUBSET Inputs /\ u.gone \in SUBSET Inputs /\ u.next \in [Inputs -> Nat]
  BY DEF Unit
<1>6. settled'[g].ended = (u.gone # {})
  <2>1. settled'[g].ended \in BOOLEAN
    BY DEF CInv, Inv, TypeOK, Settled
  <2> QED
    BY <1>2, <2>1 DEF EndsWith
<1>7. AP(g)!Take(u.next)
  <2>1. /\ ~settled[g].ended
        /\ \A i \in Inputs : settled[g].offset[i] <= u.next[i] /\ u.next[i] <= Len(Routes[i])
        /\ settled'[g].offset = u.next /\ settled'[g].state = settled[g].state + 1
    BY <1>1, <1>2
  <2>2. PICK closed \in SUBSET Inputs, gone \in SUBSET Inputs :
           closed = u.closed /\ gone = u.gone
    BY <1>5
  <2>3. u = [generation |-> g, from |-> settled[g].offset, next |-> u.next, closed |-> closed,
             gone |-> gone, state |-> settled[g].state]
    BY <1>1, <1>4, <2>2
  <2>4. \A o \in Outputs :
          SubSeq(OfGeneration(outs[o], g), 1, settled[g].length[o])'
            = Received(SubSeq(OfGeneration(outs[o], g), 1, settled[g].length[o]), u, o)
    BY <1>3 DEF SettledUnits, UnitsOf
  <2>5. \A list, o : AP(g)!Received(list, u, o) = Received(list, u, o)
    BY DEF AP!Received, AP!Emits, AP!Items, Received, Emits, Items
  <2>6. settled'[g].ended = (gone # {})
    BY <1>6, <2>2
  <2> DEFINE outs0 == [o \in Outputs |->
                         SubSeq(OfGeneration(outs[o], g), 1, settled[g].length[o])]
  <2>7. outs0' = [o \in Outputs |-> AP(g)!Received(outs0[o], u, o)]
    BY <2>4, <2>5
  <2> QED
    BY ONLY <2>1, <2>3, <2>6, <2>7, closed \in SUBSET Inputs, gone \in SUBSET Inputs,
            u \in Unit DEF AP!Take
<1>8. u.next \in [Inputs -> AP(g)!Offsets]
  <2>1. ASSUME NEW i \in Inputs PROVE u.next[i] \in 0..Len(Routes[i])
    <3>1. Len(Routes[i]) \in Nat /\ u.next[i] \in Nat
      BY <1>5, RoutesAssumption, LenProperties
    <3> QED
      BY <1>2, <3>1
  <2> QED
    BY <1>5, <2>1 DEF AP!Offsets
<1> QED
  BY <1>7, <1>8 DEF AP!Next

(***************************************************************************)
(* A projection with outputs takes each unit as in one step, the save that *)
(* settles it, although the items of the unit reach the outputs one after  *)
(* the other before that, perhaps from several passes (commit/producer.ts, *)
(* commit/transaction.ts, commit/model.ts).                                *)
(***************************************************************************)
THEOREM PassesImplementAtomicProjection == Spec /\ Supported => ImplementsAtomicProjection
<1>1. Init => (guarantee # "at-least-once" => \A g \in Generations : AP(g)!Init)
  <2> SUFFICES ASSUME Init, NEW g \in Generations PROVE AP(g)!Init
    OBVIOUS
  <2>1. /\ settled[g].offset = NoItems /\ settled[g].state = 0 /\ settled[g].ended = FALSE
        /\ \A o \in Outputs : settled[g].length[o] = 0
    BY DEF Init
  <2>2. \A o \in Outputs : SubSeq(OfGeneration(outs[o], g), 1, settled[g].length[o]) = <<>>
    BY <2>1, SubSeqEmpty
  <2> QED
    BY <2>1, <2>2 DEF AP!Init, AP!NoItems, NoItems
<1>2. CInv /\ CInv' /\ [Next]_vars
        => [guarantee # "at-least-once" /\ dropped' = {}
              => \A g \in Generations : [AP(g)!Next]_(AP(g)!vars)]_vars
  <2> SUFFICES ASSUME CInv, CInv', [Next]_vars, guarantee # "at-least-once", dropped' = {},
                      NEW g \in Generations
               PROVE  [AP(g)!Next]_(AP(g)!vars)
    OBVIOUS
  <2>1. Moves
    BY StepMoves DEF CInv
  <2>2. CASE Stays(g)
    <3>1. settled'[g] = settled[g] /\ \A o \in Outputs : SettledUnits(o, g)' = SettledUnits(o, g)
      BY <2>2 DEF Stays
    <3> QED
      BY <3>1 DEF AP!vars, SettledUnits, UnitsOf
  <2>3. CASE \E u \in Unit : Takes(g, u)
    BY <2>3, TakesIsAtomic
  <2> QED
    BY <2>1, <2>2, <2>3 DEF Moves
<1> QED
  BY <1>1, <1>2, CInvAlways, PTL DEF Spec, ImplementsAtomicProjection
=============================================================================
