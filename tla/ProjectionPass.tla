--------------------------- MODULE ProjectionPass ---------------------------
(***************************************************************************)
(* The passes of one projection over its checkpoint record, its inputs and *)
(* its outputs (packages/projection/src: run.ts, read.ts, commit/,         *)
(* checkpoint-store.ts, forget.ts).                                        *)
(*                                                                         *)
(* A pass loads the record, reads a page of every input, runs the handler  *)
(* and commits, and each of these is a step of its own.  The Commit says   *)
(* how: Commit.producer ("effectively-once") saves the unit as pending,    *)
(* appends it to each output under a pinned producer position, then saves  *)
(* the new offsets; a pass that finds a pending unit reads that same unit  *)
(* again.  Commit.transaction ("exactly-once") does everything in one      *)
(* transaction with the outputs.  Commit.atLeastOnce pins the unit, runs   *)
(* the handler for its effects, then saves.  A pass may stop at any step,  *)
(* because it failed, crashed, was interrupted or lost an answer, and      *)
(* several may run at once: docs ask for one writer per record, but only   *)
(* the compare-and-set of the record and the producer positions enforce it.*)
(*                                                                         *)
(* A generation of the projection is the producer epoch of its appends and *)
(* has a record of its own.  A follower runs passes until it has caught up *)
(* and waits for a hint of news.  Others may close or remove an output.    *)
(*                                                                         *)
(* An append to an output is one step: that is what StreamProtocol shows   *)
(* of it.  Left out: other writers of the outputs, versions, and a handler *)
(* that changes between a pin and its replay.                              *)
(***************************************************************************)
EXTENDS ProjectionUnits

CONSTANTS Runners,    \* what runs passes: followers, attached runners, direct runs
          InputOrder, \* the inputs in declaration order
          OutputOrder,\* the outputs in declaration order
          Guarantees, \* the guarantees that its Commit may give
          PageLimit,  \* most items of one read
          Producer,   \* the producer id of the projection
          Generations,\* its generations, the producer epochs of its appends
          Owned,      \* the outputs on the storage of its record
          Removable,  \* the inputs that may be removed
          MaxAborts   \* bound on the passes that stop at an arbitrary step

ASSUME OrderAssumption ==
  /\ InputOrder \in Seq(Inputs) /\ InputOrder # <<>> /\ OutputOrder \in Seq(Outputs)
  /\ \A i \in Inputs : \E k \in 1..Len(InputOrder) : InputOrder[k] = i
  /\ \A o \in Outputs : \E k \in 1..Len(OutputOrder) : OutputOrder[k] = o
ASSUME ParameterAssumption ==
  /\ Guarantees \subseteq {"effectively-once", "exactly-once", "at-least-once"}
  /\ PageLimit \in Nat \ {0} /\ MaxAborts \in Nat
  /\ Producer \in ProducerIds /\ Generations \subseteq Nat
  /\ Removable \subseteq Inputs /\ Owned \subseteq Outputs

VARIABLES
  guarantee, \* the guarantee of the Commit, which the projection declares
  generation,\* the generation that each runner runs
  followers, \* the runners that follow; the others run when they are called
  inputs,    \* the input streams: items so far, whether closed, whether there
  outputs,   \* whether each output is "open", "closed" or "missing"
  outs,      \* the output streams: the units whose items they hold
  positions, \* the producer state of the projection in each output
  record,    \* the checkpoint record of each generation, or None
  version,   \* its compare-and-set token, 0 when there is none
  runner,    \* the locals of each runner's pass
  \* History, read by no action that models code:
  settled,   \* what the settled units amount to, surviving the record
  runs,      \* the units an at-least-once handler ran
  dropped,   \* the outputs that were removed
  aborts     \* passes stopped at an arbitrary step

declared == <<guarantee, generation, followers>>
checkpoint == <<record, version>>
held == <<outs, positions>>
streams == <<inputs, outputs, held>>
history == <<settled, runs, dropped>>
vars == <<declared, checkpoint, streams, runner, history, aborts>>
-----------------------------------------------------------------------------
Input == [sent : Nat, closed : BOOLEAN, present : BOOLEAN]

Seqs == [Outputs -> Nat \cup {None}]

Pending == [unit : Unit, seqs : Seqs]

CheckpointRecord ==
  [offset : [Inputs -> Nat], state : Nat, nextSeq : [Outputs -> Nat],
   pending : Pending \cup {None}, closed : SUBSET Inputs, ended : BOOLEAN]

ASSUME RecordAssumption == None \notin CheckpointRecord /\ None \notin Pending

Labels == {"idle", "read", "prepare", "pin", "append", "run", "transact", "settle",
           "forget", "wait", "done"}

(***************************************************************************)
(* A pass: the record it loaded and its token, the unit it reads or        *)
(* replays, the input it reads next, the positions it pinned and the       *)
(* outputs it has still to prepare or to append to.  A follower that waits *)
(* has the offsets it waits at.                                            *)
(***************************************************************************)
Runner ==
  [pc : Labels, loaded : CheckpointRecord \cup {None}, token : Nat, unit : Unit,
   turn : Nat, seqs : Seqs, left : SUBSET Outputs]

NoSeqs == [o \in Outputs |-> None]
NoUnit == [generation |-> 0, from |-> NoItems, next |-> NoItems, closed |-> {},
           gone |-> {}, state |-> 0]

Idle == [pc |-> "idle", loaded |-> None, token |-> 0, unit |-> NoUnit,
         turn |-> 1, seqs |-> NoSeqs, left |-> {}]

Settled == [offset : [Inputs -> Nat], length : [Outputs -> Nat], state : Nat,
            ended : BOOLEAN]

TypeOK ==
  /\ guarantee \in Guarantees
  /\ generation \in [Runners -> Generations]
  /\ followers \subseteq Runners
  /\ inputs \in [Inputs -> Input]
  /\ outputs \in [Outputs -> {"open", "closed", "missing"}]
  /\ outs \in [Outputs -> Seq(Unit)]
  /\ positions \in [Outputs -> ProducerState \cup {None}]
  /\ record \in [Generations -> CheckpointRecord \cup {None}]
  /\ version \in [Generations -> Nat]
  /\ runner \in [Runners -> Runner]
  /\ settled \in [Generations -> Settled]
  /\ runs \subseteq Unit
  /\ dropped \subseteq Outputs
  /\ aborts \in Nat

\* The record a pass works from when none is stored.
InitialRecord ==
  [offset |-> NoItems, state |-> 0, nextSeq |-> [o \in Outputs |-> 0],
   pending |-> None, closed |-> {}, ended |-> FALSE]

Init ==
  /\ guarantee \in Guarantees
  /\ generation \in [Runners -> Generations]
  /\ followers \in SUBSET Runners
  /\ inputs = [i \in Inputs |-> [sent |-> 0, closed |-> FALSE, present |-> TRUE]]
  /\ outputs = [o \in Outputs |-> "open"]
  /\ outs = [o \in Outputs |-> <<>>]
  /\ positions = [o \in Outputs |-> None]
  /\ record = [g \in Generations |-> None]
  /\ version = [g \in Generations |-> 0]
  /\ runner = [r \in Runners |-> Idle]
  /\ settled = [g \in Generations |->
                  [offset |-> NoItems, length |-> [o \in Outputs |-> 0], state |-> 0,
                   ended |-> FALSE]]
  /\ runs = {} /\ dropped = {} /\ aborts = 0
-----------------------------------------------------------------------------
At(r, label) == runner[r].pc = label

Finish(r) == runner' = [runner EXCEPT ![r] = Idle]

Base(f) == IF f.loaded = None THEN InitialRecord ELSE f.loaded

Pinned(f) == Base(f).pending # None

\* What a pass starts from: the record of its generation, and the unit that is pending
\* or a new one at the offsets.
Loaded(r) ==
  LET g == generation[r]
      base == IF record[g] = None THEN InitialRecord ELSE record[g]
      fresh == [NoUnit EXCEPT !.generation = g, !.from = base.offset,
                              !.next = base.offset, !.state = base.state]
  IN  [Idle EXCEPT !.loaded = record[g], !.token = version[g],
                   !.unit = IF base.pending = None THEN fresh ELSE base.pending.unit]

(***************************************************************************)
(* restore: an ended record is only to be forgotten, a pending unit is     *)
(* replayed, and otherwise a new unit starts at the stored offsets.        *)
(***************************************************************************)
Load(r) ==
  LET f == Loaded(r)
  IN  /\ At(r, "idle")
      /\ runner' = [runner EXCEPT ![r] =
                      [f EXCEPT !.pc = IF Base(f).ended THEN "forget" ELSE "read"]]
      /\ UNCHANGED <<declared, checkpoint, streams, history, aborts>>

\* The outputs that are to receive a part of the unit, and the first of some outputs in
\* declaration order.
Targets(seqs) == {o \in Outputs : seqs[o] # None}

FirstOf(left) ==
  OutputOrder[CHOOSE k \in 1..Len(OutputOrder) :
                /\ OutputOrder[k] \in left
                /\ \A j \in 1..k - 1 : OutputOrder[j] \notin left]

\* A pin takes the next sequence number of every output the unit writes to.
PinnedSeqs(f) ==
  [o \in Outputs |-> IF Emits(f.unit, o) THEN Base(f).nextSeq[o] ELSE None]

\* Nothing to commit: no items, and no input that newly closed or is gone.
CaughtUp(f) ==
  /\ f.unit.next = f.unit.from
  /\ f.unit.gone = {}
  /\ f.unit.closed \subseteq Base(f).closed

\* A slip: a follower ends when one of its inputs is closed.
RestWhenOneClosed(r, f) ==
  IF r \notin followers THEN Idle
  ELSE IF f.unit.closed # {} THEN [Idle EXCEPT !.pc = "done"]
  ELSE [Idle EXCEPT !.pc = "wait", !.unit.from = f.unit.from]

\* A pass that found nothing.  A follower waits for news behind what it read, or ends
\* when all the inputs are closed.
Rest(r, f) ==
  IF r \notin followers THEN Idle
  ELSE IF f.unit.closed = Inputs THEN [Idle EXCEPT !.pc = "done"]
  ELSE [Idle EXCEPT !.pc = "wait", !.unit.from = f.unit.from]

(***************************************************************************)
(* After an input: the next one, and after the last the handler and the    *)
(* first step of the Commit.  A replay goes straight to what it pinned.    *)
(***************************************************************************)
Proceed(r, f) ==
  LET seqs == IF Pinned(f) THEN Base(f).pending.seqs
              ELSE IF guarantee = "effectively-once" THEN PinnedSeqs(f) ELSE NoSeqs
      commit == CASE guarantee = "exactly-once" -> "transact"
                  [] guarantee = "at-least-once" -> IF Pinned(f) THEN "run" ELSE "pin"
                  [] OTHER -> IF Targets(seqs) = {} THEN "settle"
                              ELSE IF Pinned(f) THEN "append" ELSE "prepare"
  IN  IF f.turn < Len(InputOrder) THEN [f EXCEPT !.turn = f.turn + 1]
      ELSE IF ~Pinned(f) /\ CaughtUp(f) THEN Rest(r, f)
      ELSE [f EXCEPT !.pc = commit, !.seqs = seqs, !.left = Targets(seqs)]

(***************************************************************************)
(* readSlice: one page after the offset.  The input is read after its      *)
(* record, so a close in between is not seen.  An input that is not there  *)
(* is gone when the projection has a record, and a fault otherwise.        *)
(***************************************************************************)
ReadInput(r) ==
  LET f == runner[r]
      i == InputOrder[f.turn]
      end == IF inputs[i].sent < f.unit.from[i] + PageLimit
             THEN inputs[i].sent ELSE f.unit.from[i] + PageLimit
  IN  /\ At(r, "read") /\ ~Pinned(f)
      /\ \/ /\ inputs[i].present
            /\ \E closed \in BOOLEAN :
                 /\ closed => inputs[i].closed /\ end = inputs[i].sent
                 /\ runner' = [runner EXCEPT ![r] =
                      Proceed(r, [f EXCEPT !.unit.next[i] = end,
                                 !.unit.closed = @ \cup IF closed THEN {i} ELSE {}])]
         \/ /\ ~inputs[i].present /\ f.loaded # None
            /\ runner' = [runner EXCEPT ![r] =
                 Proceed(r, [f EXCEPT !.unit.closed = @ \cup {i},
                                   !.unit.gone = @ \cup {i}])]
         \/ ~inputs[i].present /\ f.loaded = None /\ Finish(r)
      /\ UNCHANGED <<declared, checkpoint, streams, history, aborts>>

\* A slip: the replay reads the input to where it ends now.
ReproduceToTheEnd(r) ==
  LET f == runner[r]
      i == InputOrder[f.turn]
  IN  /\ At(r, "read") /\ Pinned(f) /\ inputs[i].present
      /\ runner' = [runner EXCEPT ![r] =
                      Proceed(r, [f EXCEPT !.unit.next[i] = inputs[i].sent])]
      /\ UNCHANGED <<declared, checkpoint, streams, history, aborts>>

\* reproduce: the items of the pin, from pages of whatever length, or a fault.
Reproduce(r) ==
  LET f == runner[r]
      i == InputOrder[f.turn]
      needed == f.unit.from[i] < f.unit.next[i]
  IN  /\ At(r, "read") /\ Pinned(f)
      /\ IF needed /\ ~(inputs[i].present /\ f.unit.next[i] <= inputs[i].sent)
         THEN Finish(r)
         ELSE runner' = [runner EXCEPT ![r] = Proceed(r, f)]
      /\ UNCHANGED <<declared, checkpoint, streams, history, aborts>>
-----------------------------------------------------------------------------
\* A slip: the record is written whatever its token.
SaveUnchecked(r, new) ==
  /\ record' = [record EXCEPT ![generation[r]] = new]
  /\ version' = [version EXCEPT ![generation[r]] = @ + 1]

\* compareAndSet, when the token is still the one the pass loaded.
Save(r, new) ==
  /\ runner[r].token = version[generation[r]]
  /\ record' = [record EXCEPT ![generation[r]] = new]
  /\ version' = [version EXCEPT ![generation[r]] = @ + 1]

\* compareAndSet, when another save came first: a token-conflict fault.
Conflict(r) ==
  /\ runner[r].token # version[generation[r]]
  /\ Finish(r)
  /\ UNCHANGED <<declared, checkpoint, streams, history, aborts>>

\* The record a unit leads to.  A fresh pin already has the closes of its unit.
NextRecord(f) ==
  [Base(f) EXCEPT !.offset = f.unit.next,
                  !.state = f.unit.state + 1,
                  !.nextSeq = [o \in Outputs |-> IF f.seqs[o] = None THEN @[o]
                                                 ELSE f.seqs[o] + 1],
                  !.pending = None,
                  !.closed = @ \cup f.unit.closed,
                  !.ended = f.unit.gone # {}]

PendingRecord(f) ==
  [Base(f) EXCEPT !.pending = [unit |-> f.unit, seqs |-> f.seqs],
                  !.closed = IF f.loaded = None THEN f.unit.closed ELSE @]

(***************************************************************************)
(* prepareOutput, of one output that is to be pinned: a missing one is     *)
(* created where the record is, and a closed one fails the pass.           *)
(***************************************************************************)
Prepare(r) ==
  LET f == runner[r]
      o == FirstOf(f.left)
      rest == f.left \ {o}
  IN  /\ At(r, "prepare")
      /\ IF outputs[o] = "open" \/ (outputs[o] = "missing" /\ o \in Owned)
         THEN /\ outputs' = [outputs EXCEPT ![o] = "open"]
              /\ runner' = [runner EXCEPT
                   ![r].left = IF rest = {} THEN Targets(f.seqs) ELSE rest,
                   ![r].pc = IF rest = {} THEN "pin" ELSE "prepare"]
         ELSE Finish(r) /\ UNCHANGED outputs
      /\ UNCHANGED <<declared, checkpoint, inputs, held, history, aborts>>

Pin(r) ==
  LET f == runner[r]
  IN  /\ At(r, "pin")
      /\ \/ /\ Save(r, PendingRecord(f))
            /\ runner' = [runner EXCEPT
                 ![r].pc = IF guarantee = "at-least-once" THEN "run" ELSE "append",
                 ![r].token = version'[generation[r]]]
            /\ UNCHANGED <<declared, streams, history, aborts>>
         \/ Conflict(r)

\* A slip: an output that is open takes every append.
AnswerAccepted(o, position) == IF outputs[o] = "open" THEN "Accepted" ELSE "StreamClosed"

\* What an output answers to an append with a producer position.
Answer(o, position) ==
  LET verdict == ValidateProducer(positions[o], position)
  IN  IF outputs[o] = "missing" THEN "NotFound"
      ELSE IF outputs[o] = "closed" /\ verdict = "Accepted" THEN "StreamClosed"
      ELSE verdict

\* Append to one output under its pinned position; a duplicate is a success.
AppendPinned(r) ==
  LET f == runner[r]
      o == FirstOf(f.left)
      position == [id |-> Producer, epoch |-> generation[r], seq |-> f.seqs[o]]
      answer == Answer(o, position)
      rest == f.left \ {o}
  IN  /\ At(r, "append")
      /\ IF answer = "Accepted"
         THEN /\ outs' = [outs EXCEPT ![o] = Append(@, f.unit)]
              /\ positions' = [positions EXCEPT ![o] = ProposedState(position)]
         ELSE UNCHANGED held
      /\ IF answer \in {"Accepted", "Duplicate"}
         THEN runner' = [runner EXCEPT ![r].left = rest,
                           ![r].pc = IF rest = {} THEN "settle" ELSE "append"]
         ELSE Finish(r)
      /\ UNCHANGED <<declared, checkpoint, inputs, outputs, history, aborts>>

\* The handler of an at-least-once projection runs for its effects.
Run(r) ==
  /\ At(r, "run")
  /\ runs' = runs \cup {runner[r].unit}
  /\ runner' = [runner EXCEPT ![r].pc = "settle"]
  /\ UNCHANGED <<declared, checkpoint, streams, settled, dropped, aborts>>

AfterSettle(r) ==
  IF runner[r].unit.gone # {}
  THEN runner' = [runner EXCEPT ![r] = [Idle EXCEPT !.pc = "forget"]]
  ELSE Finish(r)

\* Each output that the unit writes to has one unit more.
SettledBy(r) ==
  LET unit == runner[r].unit
  IN  settled' = [settled EXCEPT ![generation[r]] =
                    [offset |-> unit.next, state |-> unit.state + 1,
                     length |-> [o \in Outputs |-> IF Emits(unit, o) THEN @.length[o] + 1
                                                   ELSE @.length[o]],
                     ended |-> unit.gone # {}]]

\* The last save of a unit: the offsets, the state and the next positions.
Settle(r) ==
  LET f == runner[r]
  IN  /\ At(r, "settle")
      /\ \/ /\ Save(r, NextRecord(f))
            /\ SettledBy(r)
            /\ AfterSettle(r)
            /\ UNCHANGED <<declared, streams, runs, dropped, aborts>>
         \/ Conflict(r)

\* Commit.transaction: token, handler, appends and save in one transaction, which fails
\* when an output it appends to is not open.
Transact(r) ==
  LET f == runner[r]
      fits == \A o \in Outputs : Emits(f.unit, o) => outputs[o] = "open"
  IN  /\ At(r, "transact")
      /\ \/ /\ fits /\ Save(r, NextRecord(f))
            /\ outs' = [o \in Outputs |-> Received(outs[o], f.unit, o)]
            /\ SettledBy(r)
            /\ AfterSettle(r)
            /\ UNCHANGED <<declared, inputs, outputs, positions, runs, dropped, aborts>>
         \/ Conflict(r)
         \/ /\ ~fits /\ Finish(r)
            /\ UNCHANGED <<declared, checkpoint, streams, history, aborts>>

\* forget: the record is removed whatever its token, and a follower ends.
Forget(r) ==
  /\ At(r, "forget")
  /\ record' = [record EXCEPT ![generation[r]] = None]
  /\ version' = [version EXCEPT ![generation[r]] = 0]
  /\ runner' = [runner EXCEPT ![r] =
                  IF r \in followers THEN [Idle EXCEPT !.pc = "done"] ELSE Idle]
  /\ UNCHANGED <<declared, streams, history, aborts>>

\* A slip: only the first input gives hints.
WakeOnFirst(r) ==
  LET i == InputOrder[1]
  IN  /\ At(r, "wait")
      /\ ~inputs[i].present \/ inputs[i].sent > runner[r].unit.from[i]
      /\ Finish(r)
      /\ UNCHANGED <<declared, checkpoint, streams, history, aborts>>

(***************************************************************************)
(* wake: the hint of one input is enough.  A closed input without items    *)
(* gives none, so that it does not wake the follower again and again.      *)
(***************************************************************************)
Wake(r) ==
  /\ At(r, "wait")
  /\ \E i \in Inputs : ~inputs[i].present \/ inputs[i].sent > runner[r].unit.from[i]
  /\ Finish(r)
  /\ UNCHANGED <<declared, checkpoint, streams, history, aborts>>

\* The repair interval is over, or somebody follows again.
Again(r) ==
  /\ runner[r].pc \in {"wait", "done"}
  /\ Finish(r)
  /\ UNCHANGED <<declared, checkpoint, streams, history, aborts>>

\* A fault, a crash, an interruption or a lost answer ends the pass.
Abort(r) ==
  /\ runner[r].pc \notin {"idle", "wait", "done"} /\ aborts < MaxAborts
  /\ Finish(r)
  /\ aborts' = aborts + 1
  /\ UNCHANGED <<declared, checkpoint, streams, history>>
-----------------------------------------------------------------------------
\* The writers of an input append one item at a time, and may close it with the
\* last one; the id of a removed input is not used again.
Produce(i) ==
  /\ inputs[i].present /\ ~inputs[i].closed
  /\ \E more \in {0, 1}, closed \in BOOLEAN :
       /\ more = 1 \/ closed
       /\ inputs[i].sent + more <= Len(Routes[i])
       /\ inputs' = [inputs EXCEPT ![i].sent = @ + more, ![i].closed = closed]
  /\ UNCHANGED <<declared, outputs, held, checkpoint, runner, history, aborts>>

RemoveInput(i) ==
  /\ i \in Removable /\ inputs[i].present
  /\ inputs' = [inputs EXCEPT ![i].present = FALSE]
  /\ UNCHANGED <<declared, outputs, held, checkpoint, runner, history, aborts>>

CloseOutput(o) ==
  /\ outputs[o] = "open"
  /\ outputs' = [outputs EXCEPT ![o] = "closed"]
  /\ UNCHANGED <<declared, inputs, held, checkpoint, runner, history, aborts>>

\* Its messages and producer states go with an output.
RemoveOutput(o) ==
  /\ outputs[o] # "missing" /\ o \notin dropped
  /\ outputs' = [outputs EXCEPT ![o] = "missing"]
  /\ outs' = [outs EXCEPT ![o] = <<>>]
  /\ positions' = [positions EXCEPT ![o] = None]
  /\ dropped' = dropped \cup {o}
  /\ UNCHANGED <<declared, inputs, checkpoint, runner, settled, runs, aborts>>

CreateOutput(o) ==
  /\ outputs[o] = "missing"
  /\ outputs' = [outputs EXCEPT ![o] = "open"]
  /\ UNCHANGED <<declared, inputs, held, checkpoint, runner, history, aborts>>

Pass(r) ==
  \/ Load(r) \/ ReadInput(r) \/ Reproduce(r) \/ Prepare(r) \/ Pin(r) \/ AppendPinned(r)
  \/ Run(r) \/ Settle(r) \/ Transact(r) \/ Forget(r) \/ Wake(r)

Next ==
  \/ \E r \in Runners : Pass(r) \/ Again(r) \/ Abort(r)
  \/ \E i \in Inputs : Produce(i) \/ RemoveInput(i)
  \/ \E o \in Outputs : CloseOutput(o) \/ RemoveOutput(o) \/ CreateOutput(o)

Spec == Init /\ [][Next]_vars

-----------------------------------------------------------------------------
(***************************************************************************)
(* No output holds an item twice, and the items of each input are in it in *)
(* order, whatever crashed, was replayed or ran at the same time.          *)
(***************************************************************************)
NoItemTwice ==
  \A o \in Outputs : \A m, n \in 1..Len(outs[o]) :
    m < n /\ outs[o][m].generation = outs[o][n].generation
      => Before(outs[o][m], outs[o][n])

(***************************************************************************)
(* Nothing is lost: every item before the stored offsets is in each output *)
(* its handler wrote it to, unless the output was removed.                 *)
(***************************************************************************)
NothingLost ==
  guarantee # "at-least-once" =>
  \A g \in Generations, i \in Inputs : \A k \in 1..settled[g].offset[i] :
    \A o \in Routes[i][k] \ dropped :
      \E m \in 1..Len(outs[o]) : outs[o][m].generation = g /\ k \in Items(outs[o][m], i)

(***************************************************************************)
(* Two outputs agree on what was handled together and from which state,    *)
(* although they are written one after the other: a unit that reached one  *)
(* of them is not cut differently for the next.                            *)
(***************************************************************************)
OutputsAgree ==
  \A o, p \in Outputs : \A m \in 1..Len(outs[o]), n \in 1..Len(outs[p]) :
    LET u == outs[o][m]  v == outs[p][n]
    IN  \/ u = v \/ u.generation # v.generation
        \/ Before(u, v) /\ u.state < v.state
        \/ Before(v, u) /\ v.state < u.state

(***************************************************************************)
(* An output is written from the start or not at all: what a generation    *)
(* wrote to it is behind all it had to write before.  One that is removed  *)
(* under a generation and created again, even by its own pass, takes no    *)
(* unit from the middle (commit/producer.ts:43, policy/producer-policy.ts).*)
(***************************************************************************)
NoHole ==
  guarantee = "effectively-once" =>
  \A o \in Outputs : \A m \in 1..Len(outs[o]), i \in Inputs :
    \A k \in 1..outs[o][m].from[i] :
      o \in Routes[i][k] =>
        \E n \in 1..m - 1 : /\ outs[o][n].generation = outs[o][m].generation
                            /\ k \in Items(outs[o][n], i)

(***************************************************************************)
(* A runner left on an old generation writes to an output no more once the *)
(* new one has: not a unit that it pinned before, and not one that it      *)
(* replays (site/content/docs/projections/checkpoints.mdx:106).            *)
(***************************************************************************)
OldGenerationIsFenced ==
  guarantee = "effectively-once" =>
  \A o \in Outputs : \A m, n \in 1..Len(outs[o]) :
    m < n => outs[o][m].generation <= outs[o][n].generation

(***************************************************************************)
(* An at-least-once handler that sees an item again sees it in the same    *)
(* unit, so the key of the unit identifies the work (unit.ts).             *)
(***************************************************************************)
RunsAgree ==
  \A u, v \in runs :
    u.generation = v.generation => u = v \/ Before(u, v) \/ Before(v, u)

(***************************************************************************)
(* Every item before the stored offsets of an at-least-once projection was *)
(* handled at least once.                                                  *)
(***************************************************************************)
EverythingRan ==
  guarantee = "at-least-once" =>
  \A g \in Generations, i \in Inputs : \A k \in 1..settled[g].offset[i] :
    \E u \in runs : u.generation = g /\ k \in Items(u, i)

(***************************************************************************)
(* The guarantee of the outputs: nothing twice, nothing lost, no holes,    *)
(* all cut alike and by one generation after the other, whoever else       *)
(* wrote, crashed or replayed (runner.ts, commit.ts).                      *)
(***************************************************************************)
EffectivelyOnce ==
  TypeOK /\ NoItemTwice /\ NothingLost /\ OutputsAgree /\ NoHole /\ OldGenerationIsFenced

(***************************************************************************)
(* The guarantee of an at-least-once handler: it sees every item, and each *)
(* always in the same unit.                                                *)
(***************************************************************************)
WholeUnits == RunsAgree /\ EverythingRan

(***************************************************************************)
(* A follower ends when there is nothing left to follow: every input is    *)
(* closed and all of it settled, although the inputs were read one after   *)
(* the other, or one of them is gone (follow.ts:172).                      *)
(***************************************************************************)
EndsAtTheEnd ==
  \A r \in Runners : runner[r].pc = "done" =>
    \/ \A i \in Inputs : /\ inputs[i].closed
                         /\ settled[generation[r]].offset[i] = inputs[i].sent
    \/ \E i \in Inputs : ~inputs[i].present

(***************************************************************************)
(* Every item of an input is handled and its offset stored in the end,     *)
(* whatever the failures before, unless an input is removed: a pinned unit *)
(* whose input is gone stays pinned, and a lasting gone input ends the     *)
(* projection.  So does, for good, an output that is closed or removed.    *)
(***************************************************************************)
CatchesUp(g) ==
  \A i \in Inputs : \A k \in 1..Len(Routes[i]) :
    (inputs[i].sent >= k)
      ~> \/ settled[g].offset[i] >= k
         \/ \E j \in Inputs : ~inputs[j].present
         \/ \E o \in Outputs : outputs[o] # "open" \/ o \in dropped

(***************************************************************************)
(* The record of a projection whose input is gone is removed, also when    *)
(* the pass stopped between its last save and the removal.                 *)
(***************************************************************************)
EndedIsForgotten(g) == (record[g] # None /\ record[g].ended) ~> (record[g] = None)
-----------------------------------------------------------------------------
(***************************************************************************)
(* The settled units of a generation, and of each output those of its      *)
(* units that are settled, behave like AtomicProjection.  What an output   *)
(* holds beyond them is the pending unit.  An at-least-once projection has *)
(* effects in their place, and an output that was removed lost its units.  *)
(***************************************************************************)
AP(g) == INSTANCE AtomicProjection WITH
  Generation <- g,
  offset <- settled[g].offset,
  state <- settled[g].state,
  ended <- settled[g].ended,
  outs <- [o \in Outputs |-> SubSeq(OfGeneration(outs[o], g), 1, settled[g].length[o])]

ImplementsAtomicProjection ==
  /\ guarantee # "at-least-once" => \A g \in Generations : AP(g)!Init
  /\ [][guarantee # "at-least-once" /\ dropped' = {}
          => \A g \in Generations : [AP(g)!Next]_(AP(g)!vars)]_vars
=============================================================================
