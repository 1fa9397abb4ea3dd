--------------------------- MODULE AttachedRunner ---------------------------
(***************************************************************************)
(* The runner that runs the bindings of an attached projection whenever a  *)
(* commit writes one of their inputs (packages/projection/src/runner.ts,   *)
(* attach.ts), with the durable marks and the feed of commits the storage  *)
(* keeps for it (packages/core/src/storage/memory, packages/storage/src).  *)
(*                                                                         *)
(* A commit marks the bindings it writes, in its transaction, and is       *)
(* published to the feed after it.  The runner collects the feed in a set  *)
(* in memory, adds the marks that are due, runs each binding once and then *)
(* clears, keeps or defers its mark.  Commits go on all the while.         *)
(*                                                                         *)
(* Each binding has one input here.  Its items are counted, a run is one   *)
(* step that reads the input to some point, and due times are the time     *)
(* left.  Left out: the close of an input, marks whose params no longer    *)
(* decode, and the results that only the host's wakeup reads.              *)
(***************************************************************************)
EXTENDS Integers, FiniteSets

CONSTANTS
  None,
  Bindings,     \* the bindings of the projection
  Broken,       \* those whose handler always fails
  Durable,      \* whether the projection is attached with durable marks
  Limit,        \* units in one run of a binding
  Batch,        \* due marks in one drain
  MaxDelay,     \* longest deferral of a failed binding
  MaxWrites,    \* bound on the writes of one input
  MaxFailures,  \* bound on the failed runs of the bindings that are not broken
  MaxStops,     \* bound on the storage faults of the runner and the restarts of the host
  MaxAttempts   \* the count of attempts stops here: the delay grows no longer

ASSUME ParameterAssumption ==
  /\ Broken \subseteq Bindings /\ Durable \in BOOLEAN
  /\ {Limit, Batch, MaxDelay, MaxAttempts} \subseteq Nat \ {0}
  /\ {MaxWrites, MaxFailures, MaxStops} \subseteq Nat

VARIABLES
  head,       \* items in the input of each binding
  removed,    \* bindings whose input was removed
  done,       \* items each binding has handled
  begun,      \* bindings with a checkpoint record
  marks,      \* the mark of each binding, or None
  publishing, \* bindings written by commits that are not published yet
  feed,       \* bindings in the commits published and not taken
  pending,    \* the runner's set of bindings with work
  pc,         \* where the runner is
  timer,      \* time left of a bounded wait, or None
  work,       \* bindings this drain has still to run
  states,     \* the marks this drain read
  ran,        \* the binding that ran last and how its run ended
  failures, stops,  \* counted against their bounds
  \* History, read by no action that models code:
  cut         \* bindings whose last commit was never published

inputs == <<head, removed>>
checkpoints == <<done, begun>>
bus == <<publishing, feed, cut>>
local == <<pending, pc, timer, work, states, ran>>
budget == <<failures, stops>>
vars == <<inputs, checkpoints, marks, bus, local, budget>>

Mark == [seq : Nat, attempts : Nat, wait : Nat]

Labels == {"wait", "nextDue", "take", "drain", "due", "read", "run", "settle"}

Endings == {"caught-up", "limit-reached", "failed", "gone"}

Settled == [binding : Bindings, ending : Endings]

\* None is no mark, no time and no end of a run.
ASSUME NoneAssumption == None \notin Mark \cup Nat \cup Settled

TypeOK ==
  /\ head \in [Bindings -> Nat] /\ done \in [Bindings -> Nat]
  /\ removed \subseteq Bindings /\ begun \subseteq Bindings
  /\ marks \in [Bindings -> Mark \cup {None}]
  /\ publishing \subseteq Bindings /\ feed \subseteq Bindings
  /\ pending \subseteq Bindings /\ work \subseteq Bindings
  /\ pc \in Labels
  /\ timer \in Nat \cup {None}
  /\ states \in [Bindings -> Mark \cup {None}]
  /\ ran \in Settled \cup {None}
  /\ failures \in Nat /\ stops \in Nat /\ cut \subseteq Bindings

NoMarks == [b \in Bindings |-> None]

Init ==
  /\ head = [b \in Bindings |-> 0] /\ removed = {}
  /\ done = [b \in Bindings |-> 0] /\ begun = {}
  /\ marks = NoMarks
  /\ publishing = {} /\ feed = {}
  /\ pending = {} /\ pc = "wait" /\ timer = None /\ work = {}
  /\ states = NoMarks /\ ran = None
  /\ failures = 0 /\ stops = 0 /\ cut = {}
-----------------------------------------------------------------------------
Least(m, n) == IF m < n THEN m ELSE n

\* mark: insert, or raise the number and keep the deferral.
Raised(mark) ==
  IF mark = None THEN [seq |-> 1, attempts |-> 0, wait |-> 0]
  ELSE [mark EXCEPT !.seq = @ + 1]

\* deferDelay: doubling up to the longest.
Delay(attempts) ==
  LET doubled == 2 ^ (attempts - 1)
  IN  IF doubled \in 1..MaxDelay THEN doubled ELSE MaxDelay

\* A slip: the deferral takes the mark away.
Forgotten(mark, before) == None

\* defer: attempts counted from the mark that was read before the run.
Deferred(mark, before) ==
  LET attempts == Least(MaxAttempts, (IF before = None THEN 0 ELSE before.attempts) + 1)
  IN  [seq |-> IF mark = None THEN 1 ELSE mark.seq,
       attempts |-> attempts, wait |-> Delay(attempts)]

\* A slip: the mark is deleted whatever was written since.
ClearedAnyway(mark, before) == None

\* clear: by the number that was read before the run.
Cleared(mark, before) ==
  IF mark # None /\ before # None /\ mark.seq = before.seq THEN None ELSE mark

DueMarks == {b \in Bindings : marks[b] # None /\ marks[b].wait = 0}

\* due: the earliest first.  A mark never deferred has due time 0; among the
\* others that are overdue any order is allowed here.
Picks ==
  {P \in SUBSET DueMarks :
     /\ Cardinality(P) = Least(Batch, Cardinality(DueMarks))
     /\ (\E b \in DueMarks \ P : marks[b].attempts = 0)
          => \A b \in P : marks[b].attempts = 0}
-----------------------------------------------------------------------------
\* A commit that touches the input of b: its hook, then, as it commits, the
\* publication that follows.
Committed(b) ==
  /\ marks' = IF Durable THEN [marks EXCEPT ![b] = Raised(@)] ELSE marks
  /\ publishing' = publishing \cup {b}
  /\ UNCHANGED <<checkpoints, feed, cut, local, budget>>

Write(b) ==
  /\ b \notin removed /\ head[b] < MaxWrites
  /\ head' = [head EXCEPT ![b] = @ + 1]
  /\ Committed(b)
  /\ UNCHANGED removed

RemoveInput(b) ==
  /\ b \notin removed
  /\ removed' = removed \cup {b}
  /\ Committed(b)
  /\ UNCHANGED head

Publish(b) ==
  /\ b \in publishing
  /\ publishing' = publishing \ {b} /\ feed' = feed \cup {b} /\ cut' = cut \ {b}
  /\ UNCHANGED <<inputs, checkpoints, marks, local, budget>>

\* An interruption that arrived during COMMIT ends the fiber before it publishes.
Cut(b) ==
  /\ b \in publishing
  /\ publishing' = publishing \ {b} /\ cut' = cut \cup {b}
  /\ UNCHANGED <<inputs, checkpoints, marks, feed, local, budget>>

Tick ==
  /\ \/ timer \notin {None, 0}
     \/ \E b \in Bindings : marks[b] # None /\ marks[b].wait > 0
  /\ timer' = IF timer \in {None, 0} THEN timer ELSE timer - 1
  /\ marks' = [b \in Bindings |->
                 IF marks[b] # None /\ marks[b].wait > 0
                 THEN [marks[b] EXCEPT !.wait = @ - 1] ELSE marks[b]]
  /\ UNCHANGED <<inputs, checkpoints, bus, pending, pc, work, states, ran, budget>>

\* The host stops and starts again: marks, records and streams are kept.
Crash ==
  /\ stops < MaxStops
  /\ stops' = stops + 1
  /\ publishing' = {} /\ feed' = {} /\ cut' = {} /\ pending' = {} /\ work' = {}
  /\ pc' = "wait" /\ timer' = None /\ states' = NoMarks /\ ran' = None
  /\ UNCHANGED <<inputs, checkpoints, marks, failures>>
-----------------------------------------------------------------------------
store == <<inputs, checkpoints, marks, publishing, cut>>

Goto(label) == pc' = label

\* A slip: the marks are not looked at before sleeping.
WaitForFeed ==
  /\ pc = "wait"
  /\ pending' = pending \cup feed /\ feed' = {}
  /\ Goto(IF pending' # {} THEN "drain" ELSE "take")
  /\ timer' = None
  /\ UNCHANGED <<store, work, states, ran, budget>>

\* wait: what is in the feed already, then the marks.
Wait ==
  /\ pc = "wait"
  /\ pending' = pending \cup feed /\ feed' = {}
  /\ Goto(IF pending' # {} THEN "drain" ELSE IF Durable THEN "nextDue" ELSE "take")
  /\ timer' = None
  /\ UNCHANGED <<store, work, states, ran, budget>>

\* waitDue: the earliest due time bounds the sleep.
NextDue ==
  LET marked == {b \in Bindings : marks[b] # None}
      soonest == {b \in marked : \A c \in marked : marks[b].wait <= marks[c].wait}
  IN  /\ pc = "nextDue"
      /\ \/ marked = {} /\ Goto("take") /\ timer' = None
         \/ \E b \in soonest : marks[b].wait = 0 /\ Goto("drain") /\ timer' = None
         \/ \E b \in soonest :
              marks[b].wait > 0 /\ Goto("take") /\ timer' = marks[b].wait
      /\ UNCHANGED <<store, feed, pending, work, states, ran, budget>>

Take(b) ==
  /\ pc = "take" /\ b \in feed
  /\ pending' = pending \cup {b} /\ feed' = feed \ {b}
  /\ Goto("drain") /\ timer' = None
  /\ UNCHANGED <<store, work, states, ran, budget>>

Timeout ==
  /\ pc = "take" /\ timer = 0
  /\ Goto("drain") /\ timer' = None
  /\ UNCHANGED <<store, feed, pending, work, states, ran, budget>>

\* drain: a durable one empties the set at once, the other as it runs.
Drain ==
  /\ pc = "drain"
  /\ work' = pending \cup feed /\ feed' = {}
  /\ pending' = IF Durable THEN {} ELSE work'
  /\ Goto(IF Durable THEN "due" ELSE "run")
  /\ UNCHANGED <<store, timer, states, ran, budget>>

AddDue ==
  /\ pc = "due"
  /\ \E picked \in Picks : work' = work \cup picked
  /\ Goto("read")
  /\ UNCHANGED <<store, feed, pending, timer, states, ran, budget>>

ReadStates ==
  /\ pc = "read"
  /\ states' = [b \in Bindings |-> IF b \in work THEN marks[b] ELSE None]
  /\ Goto("run")
  /\ UNCHANGED <<store, feed, pending, timer, work, ran, budget>>

\* Reads the input to its end, or commits Limit units of at least one item.
\* The final unit of a removed input ends the projection of the binding.
Succeed(b) ==
  /\ b \notin Broken
  /\ IF b \in removed
     THEN /\ b \in begun
          /\ begun' = begun \ {b} /\ UNCHANGED done
          /\ ran' = [binding |-> b, ending |-> "caught-up"]
     ELSE \E n \in done[b]..head[b], ending \in {"caught-up", "limit-reached"} :
          /\ IF ending = "caught-up" THEN n = head[b] /\ (Limit = 1 => n = done[b])
             ELSE n >= done[b] + Limit
          /\ done' = [done EXCEPT ![b] = n]
          /\ begun' = IF n > done[b] THEN begun \cup {b} ELSE begun
          /\ ran' = [binding |-> b, ending |-> ending]
  /\ UNCHANGED failures

\* sourceGone: a binding without a record whose input is gone can never run.
NeverRuns(b) == b \in removed /\ b \notin begun

\* Fails, maybe after some units.
Fail(b) ==
  \/ /\ NeverRuns(b)
     /\ ran' = [binding |-> b, ending |-> "gone"]
     /\ UNCHANGED <<checkpoints, failures>>
  \/ /\ IF b \in Broken /\ ~NeverRuns(b) THEN UNCHANGED failures
        ELSE failures < MaxFailures /\ failures' = failures + 1
     /\ \E n \in done[b]..head[b] :
          /\ b \in Broken \cup removed => n = done[b]
          /\ done' = [done EXCEPT ![b] = n]
          /\ begun' = IF n > done[b] THEN begun \cup {b} ELSE begun
     /\ ran' = [binding |-> b, ending |-> "failed"]

Run(b) ==
  /\ pc = "run" /\ b \in work
  /\ pending' = IF Durable THEN pending ELSE pending \ {b}
  /\ Succeed(b) \/ Fail(b)
  /\ Goto("settle")
  /\ UNCHANGED <<inputs, marks, bus, timer, work, states, stops>>

\* Failed or bounded work stays pending; a durable failure waits in its mark.
Kept(b, ending) ==
  IF ending = "limit-reached" \/ (ending = "failed" /\ ~Durable)
  THEN pending \cup {b} ELSE pending

Settle ==
  LET b == ran.binding
  IN  /\ pc = "settle"
      /\ pending' = Kept(b, ran.ending)
      /\ marks' = IF ~Durable THEN marks ELSE
           [marks EXCEPT ![b] = CASE ran.ending = "caught-up" -> Cleared(@, states[b])
                                  [] ran.ending = "failed"    -> Deferred(@, states[b])
                                  [] ran.ending = "gone"      -> None
                                  [] OTHER                    -> @]
      /\ work' = work \ {b}
      /\ ran' = None
      /\ Goto("run")
      /\ UNCHANGED <<inputs, checkpoints, bus, timer, states, budget>>

Finish ==
  /\ pc = "run" /\ work = {}
  /\ pending' = pending \cup feed /\ feed' = {}
  /\ states' = NoMarks
  /\ Goto("wait")
  /\ UNCHANGED <<store, timer, work, ran, budget>>

\* The storage fails a durable runner, which loses what it had taken in memory.
Fault ==
  /\ Durable /\ stops < MaxStops
  /\ \/ pc \in {"nextDue", "due", "read"}
     \/ pc = "settle" /\ ran.ending # "limit-reached"
  /\ stops' = stops + 1
  /\ Goto("wait")
  /\ work' = {} /\ states' = NoMarks /\ ran' = None
  /\ UNCHANGED <<store, feed, pending, timer, failures>>

Step == \/ Wait \/ NextDue \/ Timeout \/ Drain \/ AddDue \/ ReadStates \/ Settle \/ Finish
        \/ \E b \in Bindings : Take(b) \/ Run(b)

Next ==
  \/ Step \/ Fault \/ Crash \/ Tick
  \/ \E b \in Bindings : Write(b) \/ RemoveInput(b) \/ Publish(b) \/ Cut(b)

Spec == Init /\ [][Next]_vars

\* The loop of attach repeats and retries for ever, a commit is published unless
\* it is cut off, and time passes.
FairSpec == Spec /\ WF_vars(Step) /\ WF_vars(Tick)
                 /\ \A b \in Bindings : WF_vars(Publish(b))
-----------------------------------------------------------------------------
\* A binding has something to do: items, or the end of its removed input.
HasWork(b) == IF b \in removed THEN b \in begun ELSE done[b] < head[b]

(***************************************************************************)
(* A durable runner loses no commit: a binding that has not seen one has a *)
(* mark, also after a run that ended just before that commit, a deferral,  *)
(* a fault or a restart.                                                   *)
(***************************************************************************)
UnseenIsMarked == \A b \in Bindings : HasWork(b) => marks[b] # None

(***************************************************************************)
(* A runner without marks loses no commit that is published, as long as    *)
(* the host lives: the binding is in its set, or in what it has still to   *)
(* run or to hear of.                                                      *)
(***************************************************************************)
UnseenIsPending ==
  \A b \in Bindings : HasWork(b) => b \in pending \cup work \cup feed \cup publishing \cup cut

(***************************************************************************)
(* A runner does not sleep through a commit that is published: one that    *)
(* waits for the feed alone has no work but what is about to come.         *)
(***************************************************************************)
SleepIsSafe ==
  pc = "take" /\ timer = None =>
    \A b \in Bindings : HasWork(b) => b \in feed \cup publishing \cup cut

(***************************************************************************)
(* Every binding whose handler can succeed catches up with its input, or   *)
(* with its end, although others fail for ever, and the runner, the        *)
(* storage and the host fail for some time.  Only a commit that is not     *)
(* published may wait for the next one.                                    *)
(***************************************************************************)
CatchesUp == \A b \in Bindings \ Broken : HasWork(b) ~> ~HasWork(b) \/ b \in cut
=============================================================================
