# Streamsy in TLA+

Streamsy is a TypeScript library for durable streams: append-only logs with
exactly-once producers, expiry and forks; projections that read streams and write
other streams; an outbox; and hosts that serve them. This directory models its
protocols in TLA+, checks them with TLC on small instances and proves the most
important facts with TLAPS for every instance. Paths below are relative to the
repository.

    tlc -workers 2 -config MCStreamProtocol_streams.cfg MCStreamProtocol.tla
    tlapm StreamProtocolProofs.tla
    tlapm HostProofs.tla

## 1. Inventory

Where a component is modelled the module is named; `PROJECT.json` says line by line
which definition stands for which code.

| Component | State | Operations | What is hard | What makes it correct | Modules |
|---|---|---|---|---|---|
| **Stream protocol** `packages/core/src/protocol`, `policy` | none of its own: every call holds what it read | append, create, read, readNext, remove, expiry of every call, sweep | nothing is atomic: read, decide, commit under preconditions, plan again | a retry stores once; conditional writes lose no update; a close is final; a deadline removes only what is due | `StreamProtocol`, `DurableStream`, `LiveReads` |
| **Forks** `policy/fork-plan-builder.ts`, `storage/memory/lineage.ts` | parent edges, fork offsets, soft-deleted ancestors | create with a source, compose reads over ancestors, cascade of purges | the source moves or leaves between plan and commit | a fork reads a fixed prefix of its source for ever; an ancestor stays as long as it has a fork and no longer | `Forks`, `Lineage`, `StreamTree` |
| **Memory storage** `packages/core/src/storage/memory` | records, messages, producer states, fork edges, projection marks, subscriptions | commit a batch of operations under preconditions, read, changes | preconditions are all that protects a plan | a batch takes effect together or not at all; subscribers miss no commit | `StreamProtocol`, `Forks`, `LiveReads`, `AttachedRunner` |
| **SQL storage** `packages/storage` | the same in tables | the same in transactions of several statements | row locks taken one after the other, deadlocks, retries, commits whose answer is lost | it is the same storage | `SqlMutations` |
| **Projection pass** `packages/projection/src/run.ts`, `read.ts`, `commit/`, `checkpoint-store.ts`, `forget.ts` | checkpoint record of each generation with a compare-and-set token, pinned unit, producer positions in the outputs | load, read a slice of each input, prepare outputs, pin, append to each output, settle, forget; follow: wait for a hint, end | a stop between any two steps; two writers of one record; two generations; inputs and outputs that close or leave | outputs receive each unit once, in order, without holes, cut the same way in every output; a follower ends only at the end | `ProjectionPass`, `AtomicProjection` |
| **Attached runner** `runner.ts`, `memory/marks.ts` | durable marks, in-memory pending set | mark in the commit of a write, publish, drain, defer, clear | a write during a run; a crash between commit and publication | no committed write stays unseen | `AttachedRunner` |
| **Toolkit** `packages/core/src/toolkit` | a fold and its offset; cursors of wake consumers | fold, decide, follow, wake, durable state | the stream moves between the fold and the append; a batch with resets, snapshots and removals is cut off in the middle | a decision is appended to the state it was taken on; a consumer of a wake stream reads every source without a gap | `LiveReads`, `WakeStreams` |
| **HTTP and remote client** `packages/core/src/http`, `remote` | a connection; the offset the client reads on from | every call over the wire, long polls, bodies of events, drain | answers that lose distinctions; a reader cut off in the middle of a batch | a remote caller is told what a local one is; a remote reader gets each message once | `StreamWire`, `LiveReads` |
| **Outbox** `packages/outbox` | entries with attempts and due times | enqueue, drain, settle, retry, bury | delivered and not settled; overlapping drains | at least once; order within a scope | `Outbox` |
| **Cloudflare host** `packages/serve/src/cloudflare` | one alarm slot, backoff of each wakeup | alarm, reconcile, back off | one slot for many deadlines; a stop during an alarm | work that is due gets an alarm | `Wakeups`, `Alarm` |
| **folder-sync example** `examples/folder-sync/sync`, `server` | files, known rows, queued operations, cursors; on the server a stream of changes | scan, observe, deliver, pull, install, follow | the user edits between any two steps; requests land after their sender gave up | nothing is overwritten unseen; the folder and the disk converge | `FolderSync` |
| **Declarations, codecs, other hosts, tests, other examples, site, tooling** | — | — | — | — | not modelled |

How they interact: hosts and toolkit call the stream protocol; the protocol reads
the storage and commits to it; the storage notifies live readers and marks the
bindings of attached projections in the same commit; a projection pass calls the
protocol for its inputs and outputs and keeps its record in a stream's storage, a
SQL table or memory; its runner calls passes when marks or followers say so; the
outbox and the wakeup scheduler are driven by a host's timers; a mirror of
folder-sync is a program on top, at the other end of HTTP.

The models meet where the components do. `DurableStream` is what `StreamProtocol` is
proved to implement and what `ProjectionPass` assumes of an append to an output.
`Lineage` is what both storages implement. A run of `AttachedRunner` is a pass of
`ProjectionPass`. `LiveReads` reads a stream written by commits that are steps.

The hazards found in the code, each at its line with the properties that cover it,
are in `PROJECT.json` under `hazards`.

## 2. Modules

    ProducerPolicy      the pure decision about a producer position
      StreamRequests    the requests and the messages
        StreamProtocol  one stream, its storage and concurrent calls    (detailed)
          StreamWire    what is left of an answer at the other end of HTTP
        DurableStream   the same stream, every operation one step       (abstract)
      ProjectionUnits   units of work of a projection
        ProjectionPass  passes over record, inputs and outputs          (detailed)
        AtomicProjection a generation's units, each taken and written at once (abstract)
    StreamTree          the table of streams and forks, purges and composed reads
      Lineage           streams and forks, every mutation one step      (abstract)
      Forks             the protocol's creates over the memory storage  (detailed)
      SqlMutations      mutations statement by statement                (detailed)
    LiveReads           followers and deciders, in process and over HTTP
    AttachedRunner      the runner that calls passes, marks and the feed
    Outbox              the table, enqueues and drains
    Alarm               the state of an object's scheduler and what its alarm promises
      Wakeups           requests, reconciliations and turns that share the slot
    WakeState           wake rows, what they amount to, the actions of a batch
      WakeStreams       sources, the rows of their tails, a consumer that copies them
    FolderSync          one mirror, one path, and the folder on its server
    StreamProtocolProofs        types, exactly-once, the refinement and the other safety
                                properties of StreamProtocol and StreamWire
    HostProofs                  the theorems of AttachedRunner and of Wakeups
    OutboxProofs                the theorems of Outbox
    ForksProofs                 the theorems of Forks, among them its refinement
    ToolkitProofs               the theorems of LiveReads and of WakeStreams
    ProjectionPassProofs        the safety of ProjectionPass and its refinement
    SqlMutationsProofs          the safety of SqlMutations and its refinement
    FolderSyncProofs            the safety of FolderSync
    MC...               an instance for TLC of each module that is checked

Data is abstracted to what decisions depend on. An offset is a count of messages; a
body is the number of messages it frames into and whether it has bytes (`[]` in
JSON has bytes and no message); Stream-Seq is a rank; a message is where it came
from; a file's content stands for its hash. History variables (`commits`, `landed`,
`acks`, `held`, `settled`, `reached`, `lied`, `stale`, `cut`, `born`, `stray`, `shown`, `unqueued` and the counters)
are read by properties and bounds only.

Some definitions end in a word that says what they forget (`PermitFreePerScope`,
`ReturnUnlessInterrupted`, `NoteAsBase`...). They are slips: forms of an action that a
plausible mistake would give, not part of any specification. Each property is shown
to fail under one.

### StreamProtocol and StreamWire

The stored state is `stream` (the record), `log`, `producers` and `dependents`
(whether forks read the stream); `now` is the clock and `fiber[c]` the locals of
call `c`. A call goes from label to label; each label stands before one read of the
storage, one read of the clock that matters, or one commit:

| Action | Code |
|---|---|
| `Start` | a caller invokes append, create, read or remove, or the host invokes `expireDue` |
| `ReadRecord`, `Judge`, `Expire`, `Reread` | `expireIfNeeded`: read, compare with the clock, conditional `Delete`, read again |
| `NextDeadline`, `Expire` | one turn of `expireDue` |
| `Plan` | `append` up to its operation: producer state, idempotency decision, early returns, content type, Stream-Seq, expected offset |
| `Commit` = `Accept` or `Replan` | the `Append` operation under its preconditions, and the replan loop up to `APPEND_REPLAN_LIMIT` |
| `ReadClock`, `Touch` | `read` renewing a TTL |
| `ReadClock`, `Create` | `create` without a fork source |
| `Remove` | the unconditional `Delete` |
| `Interrupt` | the fiber is interrupted or its caller goes away, between any two steps |
| `Fork`, `Unfork`, `Tick` | the environment: other streams and time |

The reads of the producer state and of the clock in `append` are one step,
`Plan`: what the producer state says is a precondition of the commit, so a change
between the two reads is caught by it.

`StreamWire` has no steps: `Answered`, `CreateAnswer`, `HeadAnswer` and `RemoveAnswer` are
what the calls answer at the step that decides, `AppendResponse`, `CreateResponse`,
`HeadResponse`, `RemoveResponse` and `ErrorResponse` the status and headers made of it
(`http/`), `Decoded...` what the remote client makes of those. Three distinctions are not
on the wire, and `Carried` says so: an epoch that does not begin with seq 0 is reported
as an invalid request, the first close-only append with a producer position is told
Duplicate, as a test of the client asserts, and a create is not told why it conflicts.
A body that is empty and does not close is refused before the protocol looks, so a
missing stream is then reported as an invalid request: those requests are excluded.

### StreamTree, Lineage, Forks, SqlMutations

`table` maps an id to an entry: parent, fork offset, tail, soft-deleted, its own
messages. `children` are the edges from a parent. `Composed` is what a read returns:
a stream's own messages and, up the chain of parents, what each fork shares.
`Lineage` promises that with every mutation one step: what a stream was given (`held`)
is what it reads, and a soft-deleted stream stays exactly as long as a fork does.

| `Forks` action | Code |
|---|---|
| `Call`, `ReadTarget`, `ReadSource`, `ReadTail`, `ReadPrefix` | `create`: the record of the target, that of the source, its tail, and, on a storage that does not share, the messages to copy |
| `Commit` | `applyMutation` of the plan: the source must still be there and have the messages |
| `Append` | an append, whose races are the matter of `StreamProtocol` |
| `Delete` | soft deletion while there are forks, else the purge and its cascade up the parents |

| `SqlMutations` action | Code |
|---|---|
| `Mutate` | a plan of the protocol, as old as it likes, starts a transaction |
| `BeginLock`, `LockRow` | `SELECT ... FOR UPDATE` of the ids in order |
| `Preflight`, `PreflightSource` | the preconditions |
| `Insert`, `ReadRow`, `WriteRow` | create, append and touch |
| `LockParent`, `PurgeParent` | the delete with its cascade |
| `Commit`, `LoseCommit` | COMMIT, and the loss of its answer |
| `BreakDeadlock`, `Fail` | the database picks a victim; a statement fails |

A statement is a step, sees what is committed when it runs and its own writes, and
waits for locked rows: Postgres at READ COMMITTED.

### LiveReads

One stream with its notifications. `unpublished` says that a commit's publication is
still to come; `host` is how changes are noticed. A follower reads the record, then
a page, and at the tail subscribes, looks again and sleeps; a decider folds pages
until it is up to date, decides, and appends with the offset it saw as condition.

| Action | Code |
|---|---|
| `Write`, `Remove`, `Publish`, `CutOff`, `Repair` | commits by others, their publication, its loss, the repair of `changes` on SQL |
| `Connect`, `ReadNow`, `ContentType` | the start of a follower: its client, the offset `now`, `head` |
| `ReadRecord`, `ReadPage` | `read`: expiry, record, then messages |
| `ReadLiveOpen`, `ReadLive`, `Subscribe`, `LookWhenWoken`, `Look`, `TimeOut` | `readNext`: what is there, else subscribe, look once more, sleep |
| `ReadResult`, `Again`, `Retry` | `follow`: yield, go on, retry a retryable error |
| `EndBody` | a body of events ends; its reader reconnects from its last control offset |
| `Drain`, `DrainReply`, `Stop` | a host stops taking requests, answers the waiting ones, ends; another takes its place |
| `Decide`, `FoldRecord`, `FoldPage`, `AppendDecided` | `decide` and its lost races |

The kinds of `client` are `direct` (in the process), `poll` (catch-up reads, then long
polls), `session` (long polls only) and `sse` (a body of events). A batch of events is
taken whole by the client of the protocol, which is not part of this repository.

### WakeState and WakeStreams

`source` are streams that others write, close and remove, `binding[s]` the checkpoint
of the projection that keeps the row of `s`, and `rows` the wake stream. The consumer
has saved how far it read each source (`cursors`), what it `held` of it, which it knows
to be closed (`complete`) and its `wakeCursor`; in memory it has the batch it is in.
`WakeState` has the state, the operators for the pure functions `materialize` and
`wakeActions`, and the invariants; `WakeStreams` the actions. The list of items that
`wakeActions` returns is the set of its items: each has its place in `order`, twice the
index of the row it is about, and one more for a read that follows a removal.

| Action | Code |
|---|---|
| `Produce`, `Close`, `RemoveSource` | others write the sources, close and remove them |
| `Unit` = `Advance` or `End` | a unit of the binding (`projection/src/wake.ts`): a row with the tail, or the delete; one step, as `ProjectionPass` shows |
| `Compact` | the rows again, behind a reset or as a snapshot: the repository has consumers of these messages and no writer but its tests |
| `Begin`, `Follow` | `followWake`: the next page of rows becomes items by `WakeActions`, the operator for `wakeActions` |
| `Handle` | the consumer does the next item (`IsNext`, by `order`) as the documentation tells it to: read a source, drop one, all, or all that a snapshot does not name |
| `Save` | it saves the wake cursor when the batch is done |
| `Stop` | it stops or fails between any two steps, and begins again |

`Materialize` is the rule of a State stream (`durable-state.ts`), which `wakeActions`
reimplements on batches: `Mirrors` compares the two. A compactor may list the streams in
any order (`Listings`).

### ProjectionPass and AttachedRunner

`inputs` are streams that others write, close and remove; `outputs` says whether each
output is open, closed or missing, `outs` which units' items it received, and
`positions` the producer state the projection has in it; `record[g]` and `version[g]`
are the checkpoint of generation `g` and its token; `runner[r]` is a pass, or a
follower between two passes. `guarantee` is the Commit, `generation[r]` what a runner
runs and `followers` those that follow, all chosen at the start. A generation is the
epoch of its appends, so a newer one fences the older one at every output.

| Action | Code |
|---|---|
| `Load` | `restore` of a pass: absent, fresh, pending or ended record |
| `ReadInput` | `readSlice` of one input: one page, closed, gone or a fault |
| `Reproduce` | `reproduce`: the items of a pin again, or a fault when they are not there |
| `Prepare` | `prepareOutput` of each output the unit writes to: one that is missing is created if the projection owns it, a closed or foreign missing one is a fault |
| `Pin` | `compareAndSet` of the record with the pending unit |
| `AppendPinned` | the append to one output under the pinned producer position, and its `Answer` |
| `Run` | the handler of `Commit.atLeastOnce`, with its effects |
| `Settle` | the last `compareAndSet`: offsets, state, next positions |
| `Transact` | `Commit.transaction`: all of it in one transaction |
| `Forget` | the removal of the record after the final unit |
| `Wake` | the hint that ends a follower's wait, of any input with items behind its offset, or gone |
| `Again` | its repair interval ends the wait, or somebody follows again |
| `Abort` | a fault, crash, interruption or lost answer at any step |
| `Produce`, `RemoveInput`, `CloseOutput`, `RemoveOutput`, `CreateOutput` | the environment |

`Conflict`, part of every save, is the `token-conflict` fault. An append to an
output is one step here: that is what the refinement of `StreamProtocol` says of an
append, including that a Duplicate answer is truthful. A read of an input is a
step, except that the close of a stream is read before its messages, so a close may
be missed: `ReadInput` chooses.

In `AttachedRunner`, `head`, `done` and `begun` stand for the input of each binding and
its checkpoint: items there, items handled, a record exists. `marks` are the durable
marks, with the time left instead of the due time; `publishing` are commits that are
done and not yet in the `feed`; `pending`, `work`, `states` and `ran` are the locals of
the runner and `pc` is the operation it is about to do. A whole run of a binding is one
step, `Run`, because what is in it is `ProjectionPass`: it may reach the head of the
input, stop at its limit, fail after some units or find the input gone. Commits fall
before it, after it, and between it and the settlement.

| Action | Code |
|---|---|
| `Write`, `RemoveInput` | a commit and the hook that marks its binding, in one transaction |
| `Publish`, `Cut` | the publication after COMMIT, and the interruption that prevents it |
| `Wait`, `NextDue`, `Take`, `Timeout` | `wait`: `absorb`, `waitDue`, the subscription, its timeout |
| `Drain`, `AddDue`, `ReadStates` | `drain`: the set, up to `batch` due marks, the numbers of the marks |
| `Run`, `Settle` | one binding: `run`, then clear, keep, defer or remove |
| `Finish` | the end of a drain and the next turn of `attach` |
| `Fault` | a storage operation fails; `attach` retries |
| `Crash`, `Tick` | the host restarts; time passes |

`Durable` selects between `drainDurable` and `drainInMemory`.

### Outbox

`entries` is the table in the order of its ids, with the time left until an entry is
due. A drain takes its store's permit and reads up to `Limit` due entries of its
scope (`Begin`), takes one after the other (`Take`, which buries one that does not
decode), delivers it (`Deliver`, with any of the outcomes of the user's function,
and a loss of the answer), and settles it (`Settle`): delivered, dead, or pending
again with a wait. `Stop` interrupts it anywhere. `Enqueue` and `End` are the
transactions that enqueue. A host gives each drain a store object and a scope: one
store with overlapping scopes, in order or not; two stores with disjoint scopes; two
stores with overlapping scopes, which a host is told to avoid and of which only
types, `DeliveredReached` and `EverySettles` are claimed.

### Wakeups

`Alarm` declares the state: `slot` is the alarm; `due` the committed due times; `floor`,
`steps` and `exhausted` the backoff of each wakeup in memory; a floor that is not set is
long past (`-Late`), as the 0 of the code is. `Acquire` starts the object and reconciles.
A request commits work (`Handle`) and reconciles when it ends (`Return`). The platform
fires the alarm (`Fire`), the turn arms its guard first (`GuardTurn`), visits each
wakeup (`Visit`, `VisitFails`), runs what is due (`Run`, `RunFails`, `After`) and
reconciles (`Close`). A reconciliation reads each due time (`ReadDue`, `ReadFails`) and
keeps, deletes or replaces the alarm (`Compare`, `Arm`). `Stop` loses all memory at
any of these steps. The platform delivers an alarm whose turn did not get to its
guard once more: that is at-least-once delivery, external to this repository. `unarmed`
records which work a turn made sooner when no alarm that soon was left (`Overtaken`):
a request had replaced the guard or had already read that wakeup.

### FolderSync

The server is `history`, a stream of changes of which the last `Memory` are known by
their txid, and `wake`, a wake stream. The mirror's stored state is `disk`, `known`,
`outbox`, `cursor`, `wakeCursor` and `aside`; its fibers are a reader and a sender, and
a job under one gate: what a scan, a pull or a settlement does to the disk, step by
step (`Enqueue`, `Observe`, `Settle`, `Discard`, `Fetch`, `Note`, `KeepFirst`,
`QueueFirst`, `Take`, `Install`, `Keep`, `Replace`, `Record`, `SaveCursor`).
`Start`, `ReadAll`, `ReadPage`, `Apply`, `CheckHeads`, `FollowWake` and `Acknowledge`
are the reader, `Send`, `Receive` and `Conclude` the sender, `Scan` the scan. `Handle` is
the server's rule for a write. A fiber that delivers does nothing else: `Send` waits until
the sender's own job is done. `Edit`, `Write`, `Publish`, `Arrive` (of a request whose
sender gave up), `LoseAnswer`, `ReadFails` and `Crash` are the environment.

## 3. What the runs check

| Run | Instance | Question |
|---|---|---|
| `streams` | 2 calls at a time; 5 in all with 8 racing requests and 2 rounds, or on a stream that is removed and created again, perhaps with another content type, or 4 with TTL 1 and a clock to 2 | does a stream under racing retries, conditional, sequenced, closing and next-epoch appends behave like an atomic one, also when it expires, is renewed, swept, removed, soft-deleted and created again; is a remote caller told the same? |
| `passes` | 2 inputs, 2 outputs, pages of 2, each Commit; two writers, or one follower with 2 stops and an input that is removed, or two generations and an output that is closed or removed | are outputs effectively-once although writers replay each other's pins, generations overlap and outputs go; does a follower catch up, and end no sooner? |
| `durable` | 2 bindings of which one always fails, a failed run, a fault or a restart, publications that are cut off | does work always have a mark, is the runner awake for it, does the other binding catch up? |
| `forks` | 3 ids, 2 callers, 3 creates, tails to 2, both kinds of storage | does a fork read what it was made with, whatever became of its source before and after the commit? |
| `sql` | 3 ids, 2 transactions at a time, 3 in all, 2 attempts, five kinds of initial tables | are mutations run statement by statement atomic, and their answers true; does anything but a purge lead to a deadlock? |
| `follow` | a follower of each client and a decider, pages of 1, tail 2, a fault or drain | is each message yielded once and in order, the end after them; is no wake-up lost; is a decision appended to its state? |
| `outbox` | 3 payloads of which one does not decode, 2 drains, 4 kinds of host, 2 attempts, a fault | is the table true about what was sent, the order of a scope kept, everything settled? |
| `wakeups` | 2 wakeups, one that is never retried and feeds the other, a request, a stop, a failed read | does due work have an alarm at every moment, and run? |
| `mirror` | 3 contents of which one is refused, up to 3 changes and a fault, 2 and two faults, or an edit that is put back and made again while two changes are installed | is no edit overwritten unseen, does a retry land once, do disk and folder converge? |
| `wake` | 2 sources, pages of 2 or 5 rows, 3 changes, a reset or snapshot, 2 stops | does a consumer that reads only what the rows name miss nothing, join its reads up and forget what is gone? |
| `drain`, `sqlfork` | as `follow`, `sql` | the disagreements below |

What they show, beyond types:

- `ExactlyOnce`, `DuplicateIsTruthful`: a position is stored by one commit only and
  acknowledged as Duplicate only if the present stream has it. The early read of the
  producer state decides nothing by itself; the precondition does.
- `AcknowledgedIsStored`: an acknowledged batch is whole and at the offset of the answer.
- `BatchesFit`, `ClosedIsFinal`: what was checked on a stale record, content type and
  Stream-Seq, holds of the log it lands on, as long as that is the same stream; the tail
  precondition covers the first, the close precondition the second, because a close-only
  append does not move the tail.
- `RejectionMeansContention`: a rejected commit lost to another one since its plan, so
  `StreamBusy` means as many other commits as rounds.
- `ExpiresOnlyWhenDue`: a renewal that gets in before the deletion saves the stream.
- `RemoteIsTold`: appends, creates, heads and removals, for every record and producer state
  that occurs when they decide.
- `ImplementsDurableStream`: all of it is a refinement of `DurableStream`.
- `EffectivelyOnce`, `ImplementsAtomicProjection`: the documentation asks for one
  writer per record, yet with two the token and the producer positions are enough, as
  long as no record is removed (see `forgotten` below). `WholeUnits`: a unit is
  repeated with the same bounds, so its key identifies the work. `EffectivelyOnce`
  includes `NoHole` (an output that is removed and created again takes no unit from
  the middle) and `OldGenerationIsFenced` (a unit pinned by the old generation stays
  out once the new one has written). A closed output still answers Duplicate, so a
  unit that it holds is settled.
- `EndsAtTheEnd`, `AloneFinishes`: inputs are read one after the other, and what lies
  behind one that was read is not left behind. Hints alone bring a follower to every
  item; only a close without items waits for the repair interval.
- `UnseenIsMarked`: the comparison by number makes a clear harmless to a commit that
  falls between the end of a run and its settlement. `SleepIsSafe`: a commit between
  the look at the marks and the subscription is in the feed, or about to be.
- `ForksAreWhole`, `Refinement`: the source of a fork is protected by what the commit
  checks, not by what the plan read, and removed ids may be used again.
- `AnswersAreTrue`: a caller is told applied or rejected only of what was. A commit
  whose answer is lost may be repeated by the retry, which then finds its own work
  and is rejected: `LoseCommit` reports the uncertainty instead. `TablesAreSound`:
  no row outlives its stream, and forks taken at or above their parent's fork offset
  read what they hold.
- `OnlyPurgesDeadlock`: "Sorted ids give every writer one lock order", says
  `storage.ts:286`, and it does for every statement that locks several rows. Only a purge
  locks on its own, up the parents, after its own row (`storage.ts:570`). So whenever
  callers wait for each other in a ring, one of them is a purge that has come to a parent;
  the database then fails one (`BreakDeadlock`), and the retry has to make up for it.
  Such rings occur in the run. Without the sort another would be two late creates of one
  fork, each with one of the fork and its source locked.
- `YieldsEachOnce`: a record read before its page makes the page say less, never more;
  a body of events that ends in the middle is resumed at its last control offset.
  `MessagesArrive`, `EndArrives`: subscribing before the last look loses no wake-up,
  and a lost publication is repaired. `DecidedOnTheState`: the condition on the offset.
- `Accounted`, `SettledIsFinal`, `HeadFirst`, `EverySettles`: the permit of a store and
  the order of ids give these; delivery is at least once.
- `AlarmIsSet`, `OverdueRuns`: the guard is armed before anything is run, each
  reconciliation reads every due time after it has the permit, and every turn and
  acquisition ends with one.
- `HistoryIsTrue`, `NothingLost`, `Converges`: the parent of each change is what its
  author saw; the disk is read again before it is replaced.
- `ReadsJoinUp`, `Mirrors`, `CopyConverges`: cursor after messages, wake cursor after the
  batch; a removal and a reset in a batch restart its reads although the saved cursor
  is still the old one; a row at the cursor still says that its stream is closed.

### Disagreements

Two runs show the code doing what a document or a comment denies:

- `drain` (`YieldsInOrder`): a long poll from `now` is answered by a draining host with
  the tail there is by then, past messages that arrived while it waited.
- `sqlfork` (`ReadsWhatItHolds`): the composed read of the SQL storage bounds each
  ancestor by the fork directly above it only, so a fork of a fork taken below its
  parent's fork offset reads messages beyond its own.

Others were met on the way, and the models are built so that a passing run does not
depend on them:

- *forgotten*: the token of an absent checkpoint record is always the same, so a writer
  that loaded no record saves over the end of the projection (`checkpoint-store.ts:216`).
- *reborn*: an output that is removed in the middle of a generation is created
  again, empty, by the next pass that pins (`outputs.ts`), and the append that follows
  answers ProducerGap (`commit/producer.ts:48`). The pin stays, and so does the
  projection, until the generation is replaced. `CatchesUp` excepts it.
- *early*: the in-memory set of a durable runner runs a binding whatever the due time
  of its mark, so a failed one runs again with the next commit (`runner.ts:326`).
- *renewal*: of two reads that renew a TTL, the one that read the clock first and writes
  last moves the deadline back (`expiry.ts:54`).
- *recreate*: an append planned before a removal may land on the stream created
  afterwards when that has as many messages, without its content type and its
  Stream-Seq having been compared (`append.ts:123`). `stray` marks such a stream and
  `BatchesFit` excludes it.
- *zero*: a TTL of 0 is stored, but HEAD does not send it (`http/read-program.ts:47`), so
  a remote caller is told of no TTL; requests here have a TTL of at least 1.
- An append that only closes stores its Stream-Seq without comparing it
  (`append.ts:83`), so the last one may be smaller than an earlier one: `BatchesFit`
  speaks of batches, and of `lastSeq` of an open stream.
- *serial*: on Postgres, a row that is deleted and inserted again while a mutation
  waits for its lock is read and patched without a lock (`storage.ts:288`); `Reuse` is
  FALSE in the passing run, where a purged id is created again only if two creates of one
  fork race (`Overtaken`). With a third transaction at a time it needs no second use
  of an id: two creates of one id race, a removal deletes the row of the first while an
  append waits for it, and the second create inserts its own.
- *copyfork*: on a storage that copies, a fork of a source that was removed and created
  again between its reads can have a hole; `SharedForkIsWhole` is claimed for sharing ones.
- *untyped*: a create without a content type accepts an existing stream of any type
  (`create-config-matcher.ts:28`), but the HTTP server has put `application/octet-stream` in
  its place (`http/create.ts:77`), so a remote caller is told of a conflict. Creates name
  their type here.
- A close-only append with a producer position on a closed stream answers Appended and
  does not store the position (`append.ts:74`).
- An interruption during COMMIT can end a fiber before it publishes (`Cut`, `CutOff`):
  marks are kept, but a runner that sleeps is not woken; `CatchesUp` and `SleepIsSafe`
  except such commits.
- On Cloudflare a request that ends while a turn runs reconciles with the due times it
  finds, and so replaces the turn's guard (`wakeup.ts:236`): work that the turn then
  commits, or gives a sooner time, has no alarm that soon until the turn's own
  reconciliation, and a stop before it leaves that work to its later alarm or to the
  next request. A stop between the deletion of an alarm and the arming of its successor
  leaves the slot empty (`wakeup.ts:239`), and a schedule that has ended rests until the
  object starts again. `unarmed`, `Touched`, `pass.at = "cleared"` and `exhausted`
  except these in `Armed`.
- *lapse*: a batch with a snapshot and, after it, the row of a stream that the snapshot does
  not name is not the same when it is handled again after a stop: that row's messages
  are already behind the saved cursor, so the batch has no item for them, and the
  snapshot drops the stream. They are missing until its next row, although a comment
  says that a stop only reads rows again (`wake.ts:216`). An open snapshot is in memory
  only, so a stop in the middle of one loses its `snapshot` item. `lapsed` excludes both.
- *refresh*: a mirror of folder-sync stores a settlement and then reads the head again; when
  that read fails, the retry finds an empty outbox and returns, and a change that was
  only noted meanwhile is not installed before the next one (`push.ts:63`,
  `engine.ts:188`), although its README says "Unchanged local files take remote
  content." `RefreshFails` is FALSE in the run.
- *unqueued*: a pull captures an edit of a known file, the user puts the old content
  back before `observe` captures the file again, and nothing is queued; yet the content of
  the first capture is saved as the local copy (`install.ts:146`), although the comment
  above says "It is sent later and becomes the head." Saved by the user once more, that
  content counts as an echo: it is never sent, and the next install overwrites it. Found
  by the proof of `NothingLost`, which the run had not contradicted in its smaller
  budgets. `unqueued` collects these contents; `NothingLost` and `Converges` except them.
- In folder-sync an edit between the capture of a file and its replacement is
  overwritten (the README names the window), a stale page can put an older version on
  disk until the next one, and an answer "same content" is not remembered, so its
  repetition after other writes is a change of its own.

### Bounds and why they are enough

Two concurrent calls give every pairwise race, and the rounds of one append let a
third and fourth commit come between its plan and its commit; `MaxCalls = 5` fits a
create, two racers and a retry of each, or a create, a writer that plans, a removal,
another create and a second writer. `ReplanLimit = 2` reaches both the
successful replan and `StreamBusy`; the code has 64. One producer id is enough because
states of different producers never meet in a decision. Epochs and sequence numbers
0 and 1 reach every answer of the policy. A TTL of 1 and a clock to 2 allow renewal,
expiry and re-creation in one behaviour.

Two inputs, of which one reaches both, one and no output and the other only wakes the
handler, with a page limit of 2, give units of zero, one and two items and pins that
leave an output out. `MaxAborts = 2` stops a pass and its first replay. The two
writers need no abort: one that never takes another step has stopped for ever, and
neither do the two generations. Inputs close and leave in the follower's workload,
outputs in that of the generations, one of them and once.

In `AttachedRunner` two bindings are a binding and its neighbour. `Limit = 1` reaches
runs that end at their limit; a write and the removal of an input are two commits
to one mark. Deferrals count down: `MaxDelay` only says how long an attempt may be
held back, and `MaxAttempts` stops a count that no longer lengthens it. `Batch = 2`,
because the model leaves the order among overdue deferrals open, so with a smaller
batch the failing binding could be picked for ever, which the order by due time
excludes.

Three ids are a stream, its fork and the fork of that, or a stream with two forks;
tails to 2 let a fork be taken below, at and above another's offset. In `SqlMutations`
the database opens on one of the tables that longer behaviours lead to, so three
mutations reach cascades of two levels; two transactions suffice for a deadlock. Ids have
an order there, so the callers alone are symmetric. In those tables a parent sorts before
its forks, so a purge goes against the order; the forks that are created sort as they like.
`Overtaken` lets a create of a fork come after another one that was planned with it: it
then finds two rows to lock, the fork and its source.

In `LiveReads` pages of one message make catching up take several reads, and one fault
is a failed read, an expired body or a drain. Deciders race with the follower in their
own process only: a decider never looks at a follower. `Outbox`: two attempts and
one wait reach success at once, after a retry and death; a pass of two out of three
entries leaves one behind. `Wakeups` keeps times between -1 and 1: `Tick` waits where a
comparison would depend on more. `FolderSync` divides its budget of edits, refused
contents, writes and faults in five ways instead of allowing all at once.

`WakeStreams`: three changes are two messages and a close or removal, or a stream and a
neighbour that leaves. Pages of 2 cut a snapshot of two rows in the middle, pages of 5 put
a reset or a whole snapshot and a removal before it into one batch. The second stop falls
into the repetition of the batch that the first one cut off.

`CHECK_DEADLOCK FALSE` is set where the bounds end every behaviour or where everything
rests when nothing is left to do. Who waits for whom in `SqlMutations` is the matter of
`OnlyPurgesDeadlock`.

### Fairness

`StreamProtocol`, `Forks` and `SqlMutations` promise nothing live: every call may be
interrupted. The other assumptions:

- `passes`: weak fairness of the one follower's passes and of its wait when a hint is
  there: followers loop and start another pass after a retryable fault (`follow.ts`,
  `retry.ts`), and a pass has no step that waits on another actor. The repair interval,
  `Again`, is not assumed.
- `AttachedRunner`: weak fairness of the runner, which repeats for ever and retries with
  a schedule that does not end, of time, and of a publication that is not cut off.
  Writes, failures and restarts are not fair, and bounded.
- `LiveReads`: weak fairness of a publication that is not cut off, of the steps of a
  follower, and of the end of a drain (`drainTimeout`). A sleeping reader's own timeout
  is not assumed, so a lost wake-up would show.
- `Outbox`: weak fairness of time and strong fairness of each drain's step: a host
  drains on a timer, and a permit is given up again and again.
- `Wakeups`: weak fairness of time, of the start of an object whose alarm is due and of
  reconciliations, strong fairness of turns and of the return of a request, which take
  turns with each other. Stops and faults are bounded.
- `FolderSync`: weak fairness of the wake publication, of the start and the fibers of the
  mirror and of its scan; edits, writes and faults are bounded.
- `WakeStreams`: weak fairness of each binding's units, which an attached runner runs, and
  of the consumer, which somebody starts again; changes and stops are bounded.

## 4. What is proved

`StreamProtocolProofs`, for any set of calls, requests, producers and any bounds:

| Theorem | States |
|---|---|
| `TypeCorrect` | `Spec => []TypeOK` |
| `ExactlyOnceHolds` | `Spec => []ExactlyOnce` |
| `DuplicateTruthful` | `Spec => []DuplicateIsTruthful` |
| `Refinement` | `Spec => ImplementsDurableStream` |

`TypeOK` is not inductive: an action reads fields of its request and of the record it
saw, which are there only at the right labels. `Typed` adds `FiberOK` of every
call. `ExactlyOnce` needs `Stored`: a free id stores nothing and a tail counts the
messages (`StoreOK`); the stored state of a producer is its last accepted position,
every position up to it in its epoch was accepted and none beyond (`LandedOK`); each
message of a positioned append belongs to a landing (`LogOK`). With these, `Accept` under
the producer precondition stores a position that is above all landed ones, and a
Duplicate is about one that landed. For the refinement, the commit of a planned append
is a `Write` of `DurableStream`: the preconditions make the facts of the plan true at
the commit.

The assumptions are those on the constants: `None` is no value of a record, requests
are well-formed (an append without bytes has no messages), bounds are natural
numbers.

The other safety properties, in the same module and from the same assumptions:

| Theorem | States |
|---|---|
| `ClosedStaysClosed` | `Spec => ClosedIsFinal` |
| `AcknowledgedStays` | `Spec => []AcknowledgedIsStored` |
| `StaleChecksHold` | `Spec => []BatchesFit` |
| `LossMeansContention` | `Spec => []RejectionMeansContention` |
| `LeavesWhenDue` | `Spec => ExpiresOnlyWhenDue` |
| `RemoteCallersAreTold` | `SomeTTL`: `Spec => []RemoteIsTold` |

`StoreStep` says what a step can do to the record and the log: nothing, a touch, a
withdrawal, a removal, a creation, or the landing of a planned append whose
preconditions hold; `Landed` and `PlannedMeans` say what such a landing was planned on.
`ClosedIsFinal` follows at once. The others need an invariant each:

- `Acknowledged`: the messages of an acknowledgement in the present stream end at its
  offset. Only a landing adds to the log, at the tail that it was planned on.
- `StillGood`, of a call that saw a record of the stream that is there: as long as the
  tail is the one that was read, so are content type and last Stream-Seq, but for an
  append that only closes. So a tail stands for a whole record within one life of the
  stream, and not beyond: that is why `stray` is needed. `Fitting` then carries
  `BatchesFit`.
- `Fresh`: the commit at which a round began and the number of rounds are at most
  `commits`, and when they are equal the record that was read is the record there is,
  so a commit under its preconditions succeeds. Each rejection is thus another commit.
- `DueOK`: a call about to expire a stream saw a deadline that had passed; the
  precondition of the deletion is that the record still has it.
- `AllLast`: no record, in the store or as a call saw it, has a TTL of 0, if no create asks
  for one (`SomeTTL`; *zero* above says why it is needed, and the run of the protocol
  creates none either). The rest is about answers alone, one lemma for each operation
  (`AppendTold`, `CreateTold`, `HeadTold`, `RemoveTold`): what the status and the headers
  of its response decode to, for every record and every producer state that can have
  been read, is the answer. `AnswersEqual` and `SaysAppended` compare two answers field
  by field.

`HostProofs`, about `AttachedRunner`, for any bindings, limits and bounds:

| Theorem | States |
|---|---|
| `TypeCorrect` | `Spec => []TypeOK` |
| `NoCommitLost` | `Durable`: `Spec => []UnseenIsMarked` |
| `SleepSafe` | `Durable`: `Spec => []SleepIsSafe` |
| `MemoryLosesNothing` | not `Durable`, no restart: `Spec => []UnseenIsPending` |

`UnseenIsMarked` is not inductive: a settlement clears a mark by comparing numbers.
`ReadIsKept` says that the mark a drain read stays until its binding is settled and
its number only grows; `WrittenSince`, that a binding which caught up and has work
again has a greater number. `SleepIsSafe` follows step by step from that. Without
marks the argument is about memory: `WorkIsTaken`, `EndsForGood`. That case has no
run; the proof covers every instance.

`HostProofs`, about `Wakeups` (its instance `W`), for any number of wakeups and requests,
any schedules, feeds and bounds:

| Theorem | States |
|---|---|
| `AlarmIsAlwaysSet` | `W!Spec => []AlarmIsSet` |

`AlarmIsSet` has three parts. The types include that a backoff stays inside its schedule;
that an object at rest has its earliest deadline in the slot, and none without a
deadline, and that an alarm is there whenever the object stops, need `AlarmInv`:

- `Roles`: who can hold the permit. The acquisition is alone, the turn holds it only at
  its end, a request only while it waits to reconcile. So a turn that runs a wakeup
  can meet a reconciliation of a request, and of nobody else.
- `Ahead`: the target of a reconciliation is not later than any deadline it has passed,
  but for those changed since, by a request that has still to reconcile or by a turn
  that has still to end. When the last one is passed, the new alarm suits them all.
- `Timely`, the same of the slot between two turns, where nothing is `unarmed`. A read that
  fails only puts a deadline off (`Postpones`): it backs off when the floor was past by
  the clock of that reconciliation, and the new floor is after that clock.
- `Asked`: between two turns a slot that is set, or a target, belongs to some deadline, as
  long as no read has failed.

`Reworks` is the argument for every step of a turn that gives new times: what comes
sooner is `Overtaken`, or the guard in the slot comes soon enough for it. A stop loses the
floors; the alarm set for one is at most a delay of the schedule away (`ScheduleOK`),
which is why `Armed` allows for one in an object that has not reconciled since
(`StopsKeep`). The assumption is that on the constants: delays are positive, a schedule
that goes on has one, and the recovery alarm is in the future. The proof showed an
omission: a request's reconciliation that is under way while the turn feeds a wakeup it
has already read leaves that work without an alarm, which was excepted only at the
stop, and a floor behind the clock of a reconciliation was taken for one at it.

`OutboxProofs`, for any keys, drains, hosts, limits and retry policies:

| Theorem | States |
|---|---|
| `TypeCorrect` | `Spec => []TypeOK` |
| `TableIsTrue` | `Spec => []Accounted` |
| `OrderHolds` | `Spec => []HeadFirst` |
| `SettledForGood` | `Spec => SettledIsFinal` |

The invariant is about what a pass has read: `Reads` (committed rows of its scope, each
once, with attempts left), `Fresh` (those it has yet to handle are as it read them) and
`Behind` (those an ordered pass has handled are settled). A settlement by another pass
does not disturb them: with the same store object there is no other pass, by the permit
(`Alone`), and with another one its scope, and so its row, is another (`Owned`). `Spared`
says of all steps that leave rows alone what these predicates need of them.

`ForksProofs`, for any ids, callers, kinds of storage and bounds:

| Theorem | States |
|---|---|
| `ForksStayWhole` | `Spec => []ForksAreWhole` |
| `ForksImplementLineage` | `Spec => Refinement` |

Two operators of `Forks` are recursive functions over the parents, so the first lemmas say
what they are. The parent of a stream is older than the stream (`birth`), so a recursion
up the parents has one solution: by the oldest stream at which two would differ. `held`
solves that of `Composed` (`ReadsAreHeld`), and `Walk`, the least set that is closed under
going on to a parent that may go, solves that of the purge (`PurgedIsWalk`).
`WalkReclaims` turns the walk into the condition of `Lineage`: a stream goes exactly if it
is the one purged, or soft-deleted and all its forks go. The invariant says of each stream
that it was given its log and what its parent was given up to the fork offset, which no
append changes because messages come after the tail and a fork offset is not beyond it
(`StreamOK`); that the edges are the parents (`EdgesOK`); and of each call that what it saw
of the source is still there as long as it is the same stream (`CallOK`). So a commit that
passes the storage's check makes a fork without a hole, or one whose source is another
stream than its caller saw.

`ToolkitProofs`, about `LiveReads`, for any followers, deciders, hosts, clients and bounds:

| Theorem | States |
|---|---|
| `DecisionsSeeTheStream` | `Spec => []DecidedOnTheState` |
| `FollowersYieldEachOnce` | `client # <<"session", "now">>`: `Spec => []YieldsEachOnce` |

A record that was read stays true of the stream it was read of: the stream has no fewer
messages, and no more if it was closed (`SeenOK`). `ReaderOK` and `FolderOK` say that what
was yielded or folded is what lies between two offsets of the log. They speak of a stream
that is present: after a removal both start over. The client that is left out is the one
of the run `drain`, of which the property is false.

`ToolkitProofs`, about `WakeStreams` (its instance `T`), for any finite set of sources,
any page limits and bounds:

| Theorem | States |
|---|---|
| `WakeReadsJoinUp` | `T!Spec => []ReadsJoinUp` |
| `WakeCopyMirrors` | `T!Spec => []Mirrors` |

Neither is inductive: in the middle of a batch the cursors stand for no prefix of the
rows, and after a stop the batch begins again from cursors that it has changed itself.
`WakeInv` has three parts:

- `WritersOK`: the rows of a source only grow, a delete is the last of them, and all rows
  together amount to what the bindings wrote last (`RowsAreBindings`). A compaction keeps
  that because it writes again what the rows amount to, whatever order it lists them in
  (`CompactWrites`), and its snapshot names every stream that has rows (`SnapshotsName`).
- `Covered`: the cursors are what the rows up to the wake cursor ask for, but for what an
  unfinished batch has done and will do again. Such a batch starts inside `Reach`, a page
  from the wake cursor; a stream that has a cursor and no row has a row in it before any
  snapshot ends, and one that has a row and is not read to it has a delete in it.
- `BatchOK`: what is left of a batch leads from the cursors as they are to what the rows up
  to its end ask for. A stream with a row is read to it, or its last item says so
  (`ReadsAll`); one without is dropped, or will be after all its reads (`DropsAll`); and a
  stream that is read on from a cursor still has it (`ReadsOn`). `Traced` is the invariant
  of the loop of `wakeActions` that gives this for a new batch, row by row.

`ReadsPast` is the case *lapse* before it happens: a stop then is a lapse, and nothing is
claimed from there on. The first lemmas say that `Materialized` and `Worked`, functions
over the rows read so far, take one row at a time (`MaterializedSteps`, `WorkedSteps`):
such functions exist (`Built`) and two of them agree, both by the least index at which
that would fail (`LeastOf`). The proof showed that `ReadsJoinUp` had said too much: more
than the cursor may be held, as two items of a batch can read from one saved cursor, the
first of them further.

`ProjectionPassProofs`, for any inputs, outputs, routes, page limits, generations, runners
and bounds:

| Theorem | States |
|---|---|
| `OutputsAreEffectivelyOnce` | `Spec /\ Supported => []EffectivelyOnce` |
| `HandlersSeeWholeUnits` | `Spec /\ Supported => []WholeUnits` |
| `FollowersEndAtTheEnd` | `Spec /\ Supported => []EndsAtTheEnd` |
| `PassesImplementAtomicProjection` | `Spec /\ Supported => ImplementsAtomicProjection` |

`Supported`: no input may be removed, or no two runners write the same record. The record
of a projection whose input is gone is removed whatever its token
(`checkpoint-store.ts`), so after that a second writer could settle on a record that is
not the one it loaded; the documentation asks for one writer of a record. The run makes
the same choice: two writers on inputs that stay, or one and an input that goes.

None of these properties is inductive: they compare outputs with what is settled, and
between two saves an output may be ahead by one unit that is known to several
runners. The invariant is about all units anybody knows (`Known`: pinned, held by a
runner, written, given to a handler). `UnitsOK`: each of them is settled, or the pending
one. `Agreed`: two of a generation are the same or do not overlap. `Claims(o)` are the
units with the sequence number they have, or are to have, in output `o`; `Numbered` says
that such a number counts the units of the generation written there before, `Ordered` that
claims are in the order of their numbers with nothing between neighbours. From these an
append under a producer position can only be the next unit, the same again (Duplicate) or
refused. `RecordOK` and the conditions on each runner tie the tokens to the records they
were read with. For the refinement, `CInv` adds that what is settled counts the units
written to each output (`CountsOK`) and that they are settled units and at most the pending
one (`WrittenOK`); a save that settles is then the one step in which `AtomicProjection`
takes the unit, and an append only lengthens what is not yet settled.

`SqlMutationsProofs`, for any streams, callers, tables at the start and bounds:

| Theorem | States |
|---|---|
| `AnswersStayTrue` | `Spec => []AnswersAreTrue` |
| `LockOrderHolds` | `Spec => []OnlyPurgesDeadlock` |
| `MutationsImplementLineage` | `Spec /\ NoneReturns => Refinement` |
| `TablesStaySound` | `Spec /\ NoneReturns => []TablesAreSound` |

`NoneReturns` is a condition on behaviours, not on constants, and the code does not
guarantee it: a row that a mutation needs and that is missing when the mutation comes to
lock it stays missing until the mutation has read that. It excludes *serial* above, and
without it the other two theorems are false: with `Reuse` TRUE and four mutations TLC
finds a fork whose source was created again and purged before the fork commits. A
storage that creates no id again meets it as long as no two creates of one id race a
removal. In the run `sql` they may (`Overtaken`), so some of its behaviours do not meet
it; with two transactions at a time both properties hold there all the same.
`AnswersStayTrue` and `LockOrderHolds` do not need it.

`LockOrderHolds` needs that ids are finitely many and no two sort alike
(`OrderAssumption`), and rests on `InOrder`: a transaction that locks rows holds none that
sorts behind one it has yet to lock, and one that is about to write holds its own row at
most. Take a ring without a purge, and of the rows that its callers wait for in
`lockStreams` the last. Its holder waits too, in `lockStreams` as well, since a writer
holds nothing but the row it writes; so it waits for a row that sorts behind the last.

A mutation becomes visible in its COMMIT alone, and is then one step of `Lineage`:
what it read at several moments must hold all at once at the last. `CallerOK` is about
one transaction: the rows it has locked are there or are its own (`LocksOK`); from the
statement that checks a precondition up to the commit the precondition stays true
(`ReadsOK`); what it has written is a creation, a patch or a purge that is possible
as the tables are now (`WritesOK`). A purge that has climbed to a parent is the hardest:
the streams it has deleted so far form a path, no other transaction may add a fork to
any of them, and every other fork of a parent on it is among the deleted ones (`PurgeOK`).
`Spares` says what a step of one transaction must leave alone for `CallerOK` of the
others, and each statement is shown to spare them: a lock is held until the end, so only
the holder writes a row or adds a fork to it. That is why `LockParent` is needed,
without which the other fork's purge could be in between. Deadlocks and retries only give up
locks. `TreeOK` is about the committed tables: what `Sound` says of parents, fork offsets
and what a stream was given, and that a stream is older than its forks (`Aged`), so that a
recursion up the parents has one solution and the composed read of a fork is `held`.

The assumptions: the database opens on sound tables (`ForestAssumption`, of which TLC
evaluates every instance of the run), and `None` is no transaction.

`FolderSyncProofs`, for any contents, any memory of the server and any budgets:

| Theorem | States |
|---|---|
| `HistoryStaysTrue` | `Spec => []HistoryIsTrue` |
| `NoEditIsOverwrittenUnseen` | `Spec => NothingLost` |

Neither is inductive: both are about the moment in which a step of a job does what an
earlier step prepared, with the user, the server, the other fiber and a crash in between.
`OpsOK`: a txid identifies a content, in the outbox, on its way and in the history, so
that a request that lands late is either forgotten by the server or recognized, and
`HistoryOK` follows as long as the memory of the server reaches. `JobOK` says at which
place of a job a step can stand, and `DeliveryOK` ties the job to the outbox: while a
settlement is pending the head of the outbox is in the history, so its removal takes
nothing away. `CopyOK` carries `NothingLost`: the content that counts as no edit, and the
one captured before a replacement, are in the history, in the outbox, aside or `unqueued`.
What was read of the server stays below its tip (`InTime`). The proof showed two
omissions in the model: the case *unqueued* above, and a sender that could send the next
operation while it still settled the one before.

Only model-checked is what is live: `CatchesUp`, `AloneFinishes`, `MessagesArrive`, `EndArrives`, `EverySettles`,
`OverdueRuns`, `Converges`, `CopyConverges`. Liveness and `ENABLED` are out of the prover's
reach and stay with TLC. Every other property of a passing run is a theorem.

## 5. Not modelled, and why

- Offsets as 16-digit strings and the framing of JSON bodies: conversions that no
  property here depends on; the repository's unit and conformance tests cover them.
- HTTP: creates of forks over the wire, caching by ETag (the tag is made of path,
  offsets and closed only, so a stream that is removed and created again can answer
  304), the size limits of bodies, OPTIONS.
- SQL storage: owner records, MySQL, fused transactions; mutations of several operations,
  which the storage contract allows and the protocol never makes; SQL text and migrations,
  which implement the same contract.
- Projections: versions, other writers of the outputs, compensation, `current` and
  `decide` of a projection, two runners on one database, marks whose params no longer
  decode.
- Toolkit: the change feed of a materialized state. Routes, addresses and the typed service
  are codecs and types.
- Typed declarations of projections: builders and codecs, no state.
- Hosts other than Cloudflare: start-up and plumbing.
- Failing calls on the alarm slot itself (get, set, delete): `wakeup.ts:306-309` logs them
  and goes on. In `Wakeups` they appear only as a stop of the object at that point; an
  object that lives on after one is left out.
- folder-sync: resets and compacted history, several folders, folders found while the
  mirror runs, blobs, ignored paths, the agent, search and the browser.
- The other examples, the site, tests and tooling: no protocol of the library's own.

## 6. Plan

1. Creates of forks over the wire; owner records of the SQL storage; the current
   state and `decide` of a projection.
