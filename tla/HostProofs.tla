----------------------------- MODULE HostProofs -----------------------------
(***************************************************************************)
(* Theorems about the two hosts that decide when waiting work runs, for    *)
(* any bindings, wakeups, requests, limits and bounds.                     *)
(*                                                                         *)
(* The attached runner (AttachedRunner): its types, and that the durable   *)
(* runner loses no commit.  The Cloudflare object (W, Wakeups): its one    *)
(* alarm slot always holds an alarm for the work it has committed.         *)
(***************************************************************************)
EXTENDS AttachedRunner, Alarm, TLAPS
W == INSTANCE Wakeups

-----------------------------------------------------------------------------
(***************************************************************************)
(* The attached runner                                                     *)
(***************************************************************************)
\* A run that is to be settled is of a binding in work.
Settling == pc = "settle" => ran # None /\ ran.binding \in work

TypeInv == TypeOK /\ Settling

(***************************************************************************)
(* The mark that a drain read is still there while its binding is to be    *)
(* run, for only the settlement of that run takes it away.                 *)
(***************************************************************************)
ReadIsKept ==
  pc \in {"run", "settle"} =>
    \A b \in work : states[b] # None => marks[b] # None /\ marks[b].seq >= states[b].seq

\* A run that gave up has nothing left to do, and one that caught up has work
\* again only if its mark was raised since the drain read it.
WrittenSince ==
  LET b == ran.binding
  IN  pc = "settle" =>
        /\ ran.ending = "gone" => NeverRuns(b)
        /\ ran.ending = "caught-up" /\ HasWork(b) /\ states[b] # None =>
             marks[b].seq > states[b].seq

Inv == TypeInv /\ UnseenIsMarked /\ ReadIsKept /\ WrittenSince
-----------------------------------------------------------------------------
\* What the operations on a mark return.
LEMMA RaisedType ==
  ASSUME NEW mark \in Mark \cup {None}
  PROVE  /\ Raised(mark) \in Mark
         /\ mark # None => Raised(mark).seq = mark.seq + 1
  BY NoneAssumption DEF Raised, Mark

LEMMA DeferredType ==
  ASSUME NEW mark \in Mark \cup {None}, NEW before \in Mark \cup {None}
  PROVE  /\ Deferred(mark, before) \in Mark
         /\ mark # None => Deferred(mark, before).seq = mark.seq
<1> DEFINE attempts == Least(MaxAttempts, (IF before = None THEN 0 ELSE before.attempts) + 1)
<1>1. attempts \in Nat
  <2>1. (IF before = None THEN 0 ELSE before.attempts) \in Nat
    BY DEF Mark
  <2>2. MaxAttempts \in Nat
    BY ParameterAssumption
  <2> QED
    BY <2>1, <2>2 DEF Least
<1>2. Delay(attempts) \in Nat
  BY ParameterAssumption DEF Delay
<1>3. (IF mark = None THEN 1 ELSE mark.seq) \in Nat
  BY DEF Mark
<1> HIDE DEF attempts
<1>4. Deferred(mark, before) = [seq |-> IF mark = None THEN 1 ELSE mark.seq,
                                attempts |-> attempts, wait |-> Delay(attempts)]
  BY DEF Deferred, attempts
<1> QED
  BY <1>1, <1>2, <1>3, <1>4 DEF Mark

LEMMA ClearedType ==
  ASSUME NEW mark \in Mark \cup {None}, NEW before \in Mark \cup {None}
  PROVE  /\ Cleared(mark, before) \in {mark, None}
         /\ (mark # None /\ before # None => mark.seq # before.seq) => Cleared(mark, before) = mark
  BY DEF Cleared
-----------------------------------------------------------------------------
THEOREM InitTypes == Init => TypeInv
  BY DEF Init, TypeInv, TypeOK, Settling, NoMarks, Labels, store

LEMMA CommitTypes ==
  ASSUME TypeInv, NEW b \in Bindings, Write(b) \/ RemoveInput(b)
  PROVE  TypeInv'
<1>1. marks' \in [Bindings -> Mark \cup {None}]
  BY RaisedType DEF TypeInv, TypeOK, Write, RemoveInput, Committed
<1>2. head' \in [Bindings -> Nat]
  BY DEF TypeInv, TypeOK, Write, RemoveInput
<1> QED
  BY <1>1, <1>2
     DEF TypeInv, TypeOK, Settling, Write, RemoveInput, Committed, checkpoints, local, budget

LEMMA TickTypes ==
  ASSUME TypeInv, Tick
  PROVE  TypeInv'
<1>1. timer' \in Nat \cup {None}
  BY DEF TypeInv, TypeOK, Tick
<1>2. marks' \in [Bindings -> Mark \cup {None}]
  <2>1. ASSUME NEW b \in Bindings, marks[b] # None, marks[b].wait > 0
        PROVE  [marks[b] EXCEPT !.wait = @ - 1] \in Mark
    <3>1. marks[b] \in Mark
      BY <2>1 DEF TypeInv, TypeOK
    <3> QED
      BY <2>1, <3>1 DEF Mark
  <2> QED
    BY <2>1 DEF TypeInv, TypeOK, Tick
<1> QED
  BY <1>1, <1>2 DEF TypeInv, TypeOK, Settling, Tick, inputs, checkpoints, bus, budget

LEMMA RunTypes ==
  ASSUME TypeInv, NEW b \in Bindings, Run(b)
  PROVE  TypeInv'
<1>1. CASE Succeed(b)
  <2>1. done' \in [Bindings -> Nat] /\ begun' \subseteq Bindings
    BY <1>1 DEF TypeInv, TypeOK, Succeed
  <2>2. ran' \in Settled /\ ran'.binding = b
    BY <1>1 DEF TypeInv, TypeOK, Succeed, Settled, Endings
  <2>3. failures' = failures
    BY <1>1 DEF Succeed
  <2> QED
    BY <2>1, <2>2, <2>3, NoneAssumption
       DEF TypeInv, TypeOK, Settling, Run, inputs, bus, Goto, Labels
<1>2. CASE Fail(b)
  <2>1. done' \in [Bindings -> Nat] /\ begun' \subseteq Bindings
    BY <1>2 DEF TypeInv, TypeOK, Fail, checkpoints
  <2>2. ran' \in Settled /\ ran'.binding = b
    BY <1>2 DEF TypeInv, TypeOK, Fail, Settled, Endings
  <2>3. failures' \in Nat
    BY <1>2 DEF TypeInv, TypeOK, Fail
  <2> QED
    BY <2>1, <2>2, <2>3, NoneAssumption
       DEF TypeInv, TypeOK, Settling, Run, inputs, bus, Goto, Labels
<1> QED
  BY <1>1, <1>2 DEF Run

LEMMA SettleMarks ==
  ASSUME TypeInv, Settle
  PROVE  /\ ran \in Settled /\ ran.binding \in Bindings /\ ran.ending \in Endings
         /\ marks' \in [Bindings -> Mark \cup {None}]
         /\ \A b \in Bindings \ {ran.binding} : marks'[b] = marks[b]
         /\ Durable =>
              marks'[ran.binding] =
                CASE ran.ending = "caught-up" -> Cleared(marks[ran.binding], states[ran.binding])
                  [] ran.ending = "failed"    -> Deferred(marks[ran.binding], states[ran.binding])
                  [] ran.ending = "gone"      -> None
                  [] OTHER                    -> marks[ran.binding]
<1>1. ran \in Settled /\ ran.binding \in Bindings /\ ran.ending \in Endings
  BY DEF TypeInv, TypeOK, Settling, Settle, Settled
<1> DEFINE b == ran.binding
           mark == CASE ran.ending = "caught-up" -> Cleared(marks[b], states[b])
                     [] ran.ending = "failed"    -> Deferred(marks[b], states[b])
                     [] ran.ending = "gone"      -> None
                     [] OTHER                    -> marks[b]
<1>2. marks' = IF ~Durable THEN marks ELSE [marks EXCEPT ![b] = mark]
  BY Zenon DEF Settle
<1>3. marks[b] \in Mark \cup {None} /\ states[b] \in Mark \cup {None}
  BY <1>1 DEF TypeInv, TypeOK
<1>4. Cleared(marks[b], states[b]) \in Mark \cup {None}
  BY <1>3, ClearedType
<1>5. Deferred(marks[b], states[b]) \in Mark
  BY <1>3, DeferredType
<1>6. mark \in Mark \cup {None}
  BY <1>3, <1>4, <1>5
<1> HIDE DEF mark
<1>7. /\ marks' \in [Bindings -> Mark \cup {None}]
      /\ \A c \in Bindings \ {b} : marks'[c] = marks[c]
      /\ Durable => marks'[b] = mark
  BY <1>1, <1>2, <1>6 DEF TypeInv, TypeOK
<1> QED
  BY <1>1, <1>7 DEF mark

LEMMA StepTypes ==
  ASSUME TypeInv, Step \/ Fault
  PROVE  TypeInv'
<1> USE DEF TypeInv, TypeOK, Settling, store, inputs, checkpoints, budget, Goto, Labels
<1>1. CASE Wait
  BY <1>1 DEF Wait
<1>2. CASE NextDue
  <2>1. timer' \in Nat \cup {None} /\ pc' \in {"drain", "take"}
    BY <1>2 DEF NextDue, Mark
  <2> QED
    BY <1>2, <2>1 DEF NextDue
<1>3. CASE Timeout
  BY <1>3 DEF Timeout
<1>4. CASE Drain
  BY <1>4 DEF Drain
<1>5. CASE AddDue
  BY <1>5 DEF AddDue, Picks, DueMarks
<1>6. CASE ReadStates
  BY <1>6 DEF ReadStates
<1>7. CASE Settle
  <2>1. marks' \in [Bindings -> Mark \cup {None}] /\ ran.binding \in Bindings
    BY <1>7, SettleMarks
  <2>2. pending' \subseteq Bindings
    BY <1>7, <2>1 DEF Settle, Kept
  <2> QED
    BY <1>7, <2>1, <2>2 DEF Settle, bus
<1>8. CASE Finish
  BY <1>8 DEF Finish, NoMarks
<1>9. CASE \E b \in Bindings : Take(b)
  BY <1>9 DEF Take
<1>10. CASE \E b \in Bindings : Run(b)
  BY <1>10, RunTypes
<1>11. CASE Fault
  BY <1>11 DEF Fault, NoMarks
<1> QED
  BY <1>1, <1>2, <1>3, <1>4, <1>5, <1>6, <1>7, <1>8, <1>9, <1>10, <1>11 DEF Step

LEMMA NextTypes == TypeInv /\ [Next]_vars => TypeInv'
<1> SUFFICES ASSUME TypeInv, [Next]_vars PROVE TypeInv'
  OBVIOUS
<1>1. CASE Step \/ Fault
  BY <1>1, StepTypes
<1>2. CASE Crash
  BY <1>2 DEF Crash, TypeInv, TypeOK, Settling, NoMarks, inputs, checkpoints, Labels
<1>3. CASE Tick
  BY <1>3, TickTypes
<1>4. CASE \E b \in Bindings : Write(b) \/ RemoveInput(b)
  BY <1>4, CommitTypes
<1>5. CASE \E b \in Bindings : Publish(b) \/ Cut(b)
  BY <1>5 DEF Publish, Cut, TypeInv, TypeOK, Settling, inputs, checkpoints, local, budget
<1>6. CASE UNCHANGED vars
  BY <1>6 DEF vars, TypeInv, TypeOK, Settling, inputs, checkpoints, bus, local, budget
<1> QED
  BY <1>1, <1>2, <1>3, <1>4, <1>5, <1>6 DEF Next

(***************************************************************************)
(* Every variable keeps its type.                                          *)
(***************************************************************************)
THEOREM TypeCorrect == Spec => []TypeOK
<1>1. TypeInv => TypeOK
  BY DEF TypeInv
<1> QED
  BY InitTypes, NextTypes, <1>1, PTL DEF Spec
-----------------------------------------------------------------------------
THEOREM InitInv == Init => Inv
<1> SUFFICES ASSUME Init PROVE Inv
  OBVIOUS
<1>1. TypeInv
  BY InitTypes
<1> QED
  BY <1>1 DEF Init, Inv, UnseenIsMarked, HasWork, ReadIsKept, WrittenSince

\* A commit gives its binding a mark, with a number above the one that was read.
LEMMA CommitInv ==
  ASSUME Durable, Inv, NEW b \in Bindings, Write(b) \/ RemoveInput(b)
  PROVE  Inv'
<1>1. TypeInv /\ TypeInv'
  BY CommitTypes DEF Inv
<1>2. /\ marks' = [marks EXCEPT ![b] = Raised(marks[b])]
      /\ UNCHANGED <<done, begun, pc, work, states, ran>>
  BY DEF Write, RemoveInput, Committed, checkpoints, local
<1>3. /\ marks'[b] \in Mark
      /\ marks[b] # None => marks'[b].seq = marks[b].seq + 1
      /\ \A c \in Bindings \ {b} : marks'[c] = marks[c]
  BY <1>1, <1>2, RaisedType DEF TypeInv, TypeOK
<1>4. \A c \in Bindings \ {b} : HasWork(c)' => HasWork(c)
  BY <1>1, <1>2 DEF HasWork, Write, RemoveInput, TypeInv, TypeOK
<1>5. UnseenIsMarked'
  BY <1>3, <1>4, NoneAssumption DEF Inv, UnseenIsMarked
<1>6. ReadIsKept'
  <2> SUFFICES ASSUME pc \in {"run", "settle"}, NEW c \in work, states[c] # None
               PROVE  marks'[c] # None /\ marks'[c].seq >= states[c].seq
    BY <1>2 DEF ReadIsKept
  <2>1. marks[c] # None /\ marks[c].seq >= states[c].seq
    BY DEF Inv, ReadIsKept
  <2>2. c \in Bindings /\ marks[c] \in Mark /\ states[c] \in Mark
    BY <2>1, <1>1 DEF TypeInv, TypeOK
  <2>3. CASE c = b
    BY <2>1, <2>2, <2>3, <1>3, NoneAssumption DEF Mark
  <2> QED
    BY <2>1, <2>2, <2>3, <1>3
<1>7. WrittenSince'
  <2> DEFINE c == ran.binding
  <2> SUFFICES ASSUME pc = "settle"
               PROVE  /\ ran.ending = "gone" => NeverRuns(c)'
                      /\ ran.ending = "caught-up" /\ HasWork(c)' /\ states[c] # None =>
                           marks'[c].seq > states[c].seq
    BY <1>2 DEF WrittenSince
  <2>1. c \in work /\ c \in Bindings
    BY <1>1 DEF TypeInv, Settling, TypeOK
  <2>2. NeverRuns(c) => NeverRuns(c)'
    BY <1>2 DEF NeverRuns, Write, RemoveInput
  <2>3. ASSUME ran.ending = "caught-up", HasWork(c)', states[c] # None
        PROVE  marks'[c].seq > states[c].seq
    <3>1. marks[c] # None /\ marks[c].seq >= states[c].seq
      BY <2>1, <2>3 DEF Inv, ReadIsKept
    <3>2. marks[c] \in Mark /\ states[c] \in Mark
      BY <2>1, <2>3, <3>1, <1>1 DEF TypeInv, TypeOK
    <3>3. CASE c = b
      BY <3>1, <3>2, <3>3, <1>3 DEF Mark
    <3>4. CASE c # b
      <4>1. HasWork(c)
        BY <3>4, <2>1, <2>3, <1>2, <1>4
      <4>2. marks[c].seq > states[c].seq
        BY <4>1, <2>3 DEF Inv, WrittenSince
      <4> QED
        BY <4>2, <3>4, <2>1, <1>3
    <3> QED
      BY <3>3, <3>4
  <2> QED
    BY <2>2, <2>3 DEF Inv, WrittenSince
<1> QED
  BY <1>1, <1>5, <1>6, <1>7 DEF Inv

\* Time changes no number.
LEMMA TickInv ==
  ASSUME Inv, Tick
  PROVE  Inv'
<1>1. TypeInv /\ TypeInv'
  BY TickTypes DEF Inv
<1>2. UNCHANGED <<head, removed, done, begun, pc, work, states, ran>>
  BY DEF Tick, inputs, checkpoints
<1>3. \A b \in Bindings : marks[b] # None => marks'[b] # None /\ marks'[b].seq = marks[b].seq
  <2> SUFFICES ASSUME NEW b \in Bindings, marks[b] # None
               PROVE  marks'[b] # None /\ marks'[b].seq = marks[b].seq
    OBVIOUS
  <2>1. marks[b] \in Mark
    BY <1>1 DEF TypeInv, TypeOK
  <2>2. marks'[b] \in {marks[b], [marks[b] EXCEPT !.wait = @ - 1]}
    BY DEF Tick
  <2>3. marks'[b].seq = marks[b].seq
    BY <2>1, <2>2 DEF Mark
  <2>4. CASE marks'[b] = marks[b]
    BY <2>3, <2>4
  <2>5. CASE marks'[b] = [marks[b] EXCEPT !.wait = @ - 1] /\ marks[b].wait > 0
    BY <2>1, <2>3, <2>5, NoneAssumption DEF Mark
  <2> QED
    BY <2>4, <2>5 DEF Tick
<1> QED
  BY <1>1, <1>2, <1>3
     DEF Inv, UnseenIsMarked, ReadIsKept, WrittenSince, HasWork, NeverRuns, TypeInv, TypeOK, Settling

\* A run gives no binding work, and leaves none to one that it says caught up.
LEMMA RunInv ==
  ASSUME Inv, NEW b \in Bindings, Run(b)
  PROVE  Inv'
<1>1. TypeInv /\ TypeInv'
  BY RunTypes DEF Inv
<1>2. /\ pc = "run" /\ pc' = "settle" /\ b \in work
      /\ UNCHANGED <<head, removed, marks, work, states>>
  BY DEF Run, inputs, Goto
<1>3. /\ ran'.binding = b
      /\ \A c \in Bindings \ {b} : HasWork(c)' = HasWork(c)
      /\ HasWork(b)' => HasWork(b)
      /\ ran'.ending = "caught-up" => ~HasWork(b)'
      /\ ran'.ending = "gone" => NeverRuns(b)'
  <2>1. CASE Succeed(b) /\ b \in removed
    BY <2>1, <1>1, <1>2 DEF Succeed, HasWork, TypeInv, TypeOK
  <2>2. CASE Succeed(b) /\ b \notin removed
    BY <2>2, <1>1, <1>2 DEF Succeed, HasWork, TypeInv, TypeOK
  <2>3. CASE Fail(b)
    BY <2>3, <1>1, <1>2 DEF Fail, HasWork, NeverRuns, checkpoints, TypeInv, TypeOK
  <2> QED
    BY <2>1, <2>2, <2>3 DEF Run
<1>4. UnseenIsMarked'
  BY <1>2, <1>3 DEF Inv, UnseenIsMarked
<1>5. ReadIsKept'
  BY <1>2 DEF Inv, ReadIsKept
<1>6. WrittenSince'
  BY <1>3 DEF WrittenSince
<1> QED
  BY <1>1, <1>4, <1>5, <1>6 DEF Inv

\* The mark that a settlement takes away is that of a binding without work.
LEMMA SettleInv ==
  ASSUME Durable, Inv, Settle
  PROVE  Inv'
<1> DEFINE b == ran.binding
<1>1. TypeInv /\ TypeInv'
  BY StepTypes DEF Inv, Step
<1>2. /\ pc = "settle" /\ pc' = "run" /\ work' = work \ {b}
      /\ UNCHANGED <<head, removed, done, begun, states>>
  BY DEF Settle, inputs, checkpoints, Goto
<1>3. b \in Bindings /\ b \in work /\ ran.ending \in Endings
  BY <1>1, <1>2, SettleMarks DEF Inv, TypeInv, Settling
<1>4. \A c \in Bindings \ {b} : marks'[c] = marks[c]
  BY SettleMarks DEF Inv
<1>5. HasWork(b) => marks'[b] # None
  <2> SUFFICES ASSUME HasWork(b) PROVE marks'[b] # None
    OBVIOUS
  <2>1. marks[b] \in Mark /\ states[b] \in Mark \cup {None}
    BY <1>1, <1>3 DEF Inv, UnseenIsMarked, TypeInv, TypeOK
  <2>2. CASE ran.ending = "caught-up"
    <3>1. states[b] # None => marks[b].seq > states[b].seq
      BY <1>2, <2>2 DEF Inv, WrittenSince
    <3>2. states[b] # None => marks[b].seq # states[b].seq
      BY <2>1, <3>1 DEF Mark
    <3>3. Cleared(marks[b], states[b]) = marks[b]
      BY <2>1, <3>2, ClearedType
    <3>4. marks'[b] = Cleared(marks[b], states[b])
      BY <2>2, SettleMarks DEF Inv
    <3> QED
      BY <2>1, <3>3, <3>4, NoneAssumption
  <2>3. CASE ran.ending = "failed"
    <3>1. marks'[b] = Deferred(marks[b], states[b])
      BY <2>3, SettleMarks DEF Inv
    <3> QED
      BY <2>1, <3>1, DeferredType, NoneAssumption
  <2>4. CASE ran.ending = "gone"
    BY <1>2, <2>4 DEF Inv, WrittenSince, NeverRuns, HasWork
  <2>5. CASE ran.ending = "limit-reached"
    <3>1. marks'[b] = marks[b]
      BY <2>5, SettleMarks DEF Inv
    <3> QED
      BY <2>1, <3>1, NoneAssumption
  <2> QED
    BY <1>3, <2>2, <2>3, <2>4, <2>5 DEF Endings
<1>6. UnseenIsMarked'
  BY <1>2, <1>4, <1>5 DEF Inv, UnseenIsMarked, HasWork
<1>7. ReadIsKept'
  BY <1>1, <1>2, <1>4 DEF Inv, ReadIsKept, TypeInv, TypeOK
<1>8. WrittenSince'
  BY <1>2 DEF WrittenSince
<1> QED
  BY <1>1, <1>6, <1>7, <1>8 DEF Inv

\* The other steps change neither the marks nor what is to be done.
LEMMA QuietInv ==
  ASSUME Inv, TypeInv', UNCHANGED <<inputs, checkpoints, marks>>,
         pc' \notin {"run", "settle"} \/ ReadStates \/ UNCHANGED <<pc, work, states, ran>>
  PROVE  Inv'
<1> USE DEF inputs, checkpoints
<1>1. UnseenIsMarked'
  BY DEF Inv, UnseenIsMarked, HasWork
<1>2. CASE pc' \notin {"run", "settle"}
  BY <1>1, <1>2 DEF Inv, ReadIsKept, WrittenSince
<1>3. CASE ReadStates
  <2>1. ReadIsKept'
    <3> SUFFICES ASSUME NEW c \in work, states'[c] # None
                 PROVE  marks[c] # None /\ marks[c].seq >= states'[c].seq
      BY <1>3 DEF ReadIsKept, ReadStates
    <3>1. c \in Bindings
      BY DEF Inv, TypeInv, TypeOK
    <3>2. states'[c] = marks[c]
      BY <1>3, <3>1 DEF ReadStates
    <3>3. marks[c] \in Mark
      BY <3>1, <3>2 DEF Inv, TypeInv, TypeOK
    <3> QED
      BY <3>2, <3>3 DEF Mark
  <2>2. WrittenSince'
    BY <1>3 DEF ReadStates, WrittenSince, Goto
  <2> QED
    BY <1>1, <2>1, <2>2 DEF Inv
<1>4. CASE UNCHANGED <<pc, work, states, ran>>
  BY <1>1, <1>4 DEF Inv, ReadIsKept, WrittenSince, HasWork, NeverRuns
<1> QED
  BY <1>2, <1>3, <1>4

LEMMA NextInv == Durable /\ Inv /\ [Next]_vars => Inv'
<1> SUFFICES ASSUME Durable, Inv, [Next]_vars PROVE Inv'
  OBVIOUS
<1>1. TypeInv'
  BY NextTypes DEF Inv
<1>2. CASE \E b \in Bindings : Write(b) \/ RemoveInput(b)
  BY <1>2, CommitInv
<1>3. CASE Tick
  BY <1>3, TickInv
<1>4. CASE \E b \in Bindings : Run(b)
  BY <1>4, RunInv
<1>5. CASE Settle
  BY <1>5, SettleInv
<1>6. CASE Wait \/ NextDue \/ Timeout \/ Finish \/ Fault \/ Crash
  <2>1. UNCHANGED <<inputs, checkpoints, marks>> /\ pc' \in Labels \ {"run", "settle"}
    BY <1>6 DEF Wait, NextDue, Timeout, Finish, Fault, Crash, store, Goto, Labels
  <2> QED
    BY <1>1, <2>1, QuietInv
<1>7. CASE Drain \/ AddDue \/ \E b \in Bindings : Take(b)
  <2>1. UNCHANGED <<inputs, checkpoints, marks>> /\ pc' \in Labels \ {"run", "settle"}
    BY <1>7 DEF Drain, AddDue, Take, store, Goto, Labels
  <2> QED
    BY <1>1, <2>1, QuietInv
<1>8. CASE ReadStates
  BY <1>1, <1>8, QuietInv DEF ReadStates, store
<1>9. CASE (\E b \in Bindings : Publish(b) \/ Cut(b)) \/ UNCHANGED vars
  <2>1. UNCHANGED <<inputs, checkpoints, marks>> /\ UNCHANGED <<pc, work, states, ran>>
    BY <1>9 DEF Publish, Cut, local, vars
  <2> QED
    BY <1>1, <2>1, QuietInv
<1> QED
  BY <1>2, <1>3, <1>4, <1>5, <1>6, <1>7, <1>8, <1>9 DEF Next, Step

(***************************************************************************)
(* With durable marks, a binding that has not seen a commit has a mark.    *)
(***************************************************************************)
THEOREM NoCommitLost ==
  ASSUME Durable
  PROVE  Spec => []UnseenIsMarked
<1>1. Inv => UnseenIsMarked
  BY DEF Inv
<1>2. Inv /\ [Next]_vars => Inv'
  BY NextInv
<1> QED
  BY InitInv, <1>1, <1>2, PTL DEF Spec
-----------------------------------------------------------------------------
LEMMA NextSleep == Durable /\ Inv /\ SleepIsSafe /\ [Next]_vars => SleepIsSafe'
<1> SUFFICES ASSUME Durable, Inv, SleepIsSafe, [Next]_vars,
                    pc' = "take", timer' = None, NEW b \in Bindings, HasWork(b)'
             PROVE  b \in feed' \cup publishing' \cup cut'
  BY DEF SleepIsSafe
<1> USE DEF Goto
<1>1. CASE \E c \in Bindings : Write(c) \/ RemoveInput(c)
  <2> PICK c \in Bindings : Write(c) \/ RemoveInput(c)
    BY <1>1
  <2>1. UNCHANGED <<pc, timer, feed, cut, done, begun>> /\ publishing' = publishing \cup {c}
    BY DEF Write, RemoveInput, Committed, checkpoints, local
  <2>2. c # b => HasWork(b)
    BY DEF HasWork, Write, RemoveInput, Committed, checkpoints, Inv, TypeInv, TypeOK
  <2> QED
    BY <2>1, <2>2 DEF SleepIsSafe
<1>2. CASE Tick
  <2>1. UNCHANGED <<pc, feed, publishing, cut, head, removed, done, begun>>
    BY <1>2 DEF Tick, inputs, checkpoints, bus
  <2>2. timer = None
    <3>1. timer \in Nat \cup {None}
      BY DEF Inv, TypeInv, TypeOK
    <3>2. timer' = IF timer \in {None, 0} THEN timer ELSE timer - 1
      BY <1>2 DEF Tick
    <3>3. CASE timer \in Nat \ {0}
      <4>1. timer' \in Nat
        BY <3>2, <3>3, NoneAssumption
      <4> QED
        BY <4>1, NoneAssumption
    <3> QED
      BY <3>1, <3>2, <3>3
  <2>3. HasWork(b)
    BY <2>1 DEF HasWork
  <2> QED
    BY <2>1, <2>2, <2>3 DEF SleepIsSafe
<1>3. CASE NextDue
  <2>1. UNCHANGED <<head, removed, done, begun>>
    BY <1>3 DEF NextDue, store, inputs, checkpoints
  <2>2. marks[b] # None
    BY <2>1 DEF Inv, UnseenIsMarked, HasWork
  <2>3. \E c \in Bindings : marks[c] # None /\ timer' = marks[c].wait
    BY <1>3, <2>2 DEF NextDue
  <2> QED
    BY <2>3, NoneAssumption DEF Inv, TypeInv, TypeOK, Mark
<1>4. CASE (\E c \in Bindings : Publish(c) \/ Cut(c)) \/ UNCHANGED vars
  <2>1. UNCHANGED <<pc, timer, head, removed, done, begun>>
        /\ feed \cup publishing \cup cut \subseteq feed' \cup publishing' \cup cut'
    BY <1>4 DEF Publish, Cut, inputs, checkpoints, local, bus, vars
  <2> QED
    BY <2>1 DEF SleepIsSafe, HasWork
<1>5. CASE Wait
  BY <1>5 DEF Wait
<1>6. CASE Timeout \/ Finish \/ Fault \/ Crash \/ Drain \/ AddDue \/ ReadStates \/ Settle
  BY <1>6 DEF Timeout, Finish, Fault, Crash, Drain, AddDue, ReadStates, Settle
<1>7. CASE \E c \in Bindings : Take(c) \/ Run(c)
  BY <1>7 DEF Take, Run
<1> QED
  BY <1>1, <1>2, <1>3, <1>4, <1>5, <1>6, <1>7 DEF Next, Step

(***************************************************************************)
(* With durable marks, the runner does not sleep through a commit that is  *)
(* published.                                                              *)
(***************************************************************************)
THEOREM SleepSafe ==
  ASSUME Durable
  PROVE  Spec => []SleepIsSafe
<1>1. Init => SleepIsSafe
  BY DEF Init, SleepIsSafe
<1>2. Inv /\ [Next]_vars => Inv'
  BY NextInv
<1>3. Inv /\ SleepIsSafe /\ [Next]_vars => SleepIsSafe'
  BY NextSleep
<1> QED
  BY InitInv, <1>1, <1>2, <1>3, PTL DEF Spec
-----------------------------------------------------------------------------
\* Where a binding with work is in memory, beside the work of this drain.
Heard(b) == b \in pending \cup feed \cup publishing \cup cut

\* Work is taken by a drain, and a run that ended for good leaves none that
\* the runner will not hear of.
WorkIsTaken == pc \in {"wait", "nextDue", "take", "drain"} => work = {}

EndsForGood ==
  LET b == ran.binding
  IN  pc = "settle" =>
        /\ ran.ending = "gone" => NeverRuns(b)
        /\ ran.ending = "caught-up" /\ HasWork(b) => Heard(b)

MemoryInv == TypeInv /\ UnseenIsPending /\ WorkIsTaken /\ EndsForGood

LEMMA MemoryCommit ==
  ASSUME MemoryInv, NEW b \in Bindings, Write(b) \/ RemoveInput(b)
  PROVE  UnseenIsPending' /\ WorkIsTaken' /\ EndsForGood'
<1>1. UNCHANGED <<done, begun, pc, pending, feed, cut, work, ran>>
      /\ publishing' = publishing \cup {b}
  BY DEF Write, RemoveInput, Committed, checkpoints, local
<1>2. \A c \in Bindings \ {b} : HasWork(c)' => HasWork(c)
  BY <1>1 DEF HasWork, Write, RemoveInput, MemoryInv, TypeInv, TypeOK
<1>3. \A c \in Bindings : NeverRuns(c) => NeverRuns(c)'
  BY <1>1 DEF NeverRuns, Write, RemoveInput
<1>4. pc = "settle" => ran.binding \in Bindings
  BY DEF MemoryInv, TypeInv, Settling, TypeOK
<1>5. UnseenIsPending' /\ WorkIsTaken'
  BY <1>1, <1>2 DEF MemoryInv, UnseenIsPending, WorkIsTaken
<1>6. EndsForGood'
  BY <1>1, <1>2, <1>3, <1>4 DEF MemoryInv, EndsForGood, Heard
<1> QED
  BY <1>5, <1>6

LEMMA MemoryRun ==
  ASSUME ~Durable, MemoryInv, NEW b \in Bindings, Run(b)
  PROVE  UnseenIsPending' /\ WorkIsTaken' /\ EndsForGood'
<1>1. /\ pc' = "settle" /\ b \in work /\ pending' = pending \ {b}
      /\ UNCHANGED <<head, removed, feed, publishing, cut, work>>
  BY DEF Run, inputs, bus, Goto
<1>2. /\ ran'.binding = b
      /\ \A c \in Bindings \ {b} : HasWork(c)' = HasWork(c)
      /\ ran'.ending = "caught-up" => ~HasWork(b)'
      /\ ran'.ending = "gone" => NeverRuns(b)'
  <2> USE DEF HasWork, NeverRuns, MemoryInv, TypeInv, TypeOK
  <2>1. CASE Succeed(b) /\ b \in removed
    BY <2>1, <1>1 DEF Succeed
  <2>2. CASE Succeed(b) /\ b \notin removed
    BY <2>2, <1>1 DEF Succeed
  <2>3. CASE Fail(b)
    BY <2>3, <1>1 DEF Fail, checkpoints
  <2> QED
    BY <2>1, <2>2, <2>3 DEF Run
<1>3. UnseenIsPending' /\ WorkIsTaken'
  BY <1>1, <1>2 DEF MemoryInv, UnseenIsPending, WorkIsTaken
<1>4. EndsForGood'
  BY <1>2 DEF EndsForGood
<1> QED
  BY <1>3, <1>4

LEMMA MemorySettle ==
  ASSUME ~Durable, MemoryInv, Settle
  PROVE  UnseenIsPending' /\ WorkIsTaken' /\ EndsForGood'
<1> DEFINE b == ran.binding
<1>1. /\ pc = "settle" /\ pc' = "run" /\ work' = work \ {b} /\ pending' = Kept(b, ran.ending)
      /\ UNCHANGED <<head, removed, done, begun, feed, publishing, cut>>
  BY DEF Settle, inputs, checkpoints, bus, Goto
<1>2. ran.ending \in Endings
  BY SettleMarks DEF MemoryInv
<1>3. pending \subseteq pending'
  BY <1>1 DEF Kept
<1>4. HasWork(b) => b \in pending' \cup feed \cup publishing \cup cut
  <2>1. CASE ran.ending \in {"caught-up", "gone"}
    BY <1>1, <1>3, <2>1 DEF MemoryInv, EndsForGood, NeverRuns, HasWork, Heard
  <2>2. CASE ran.ending \in {"limit-reached", "failed"}
    BY <1>1, <2>2 DEF Kept
  <2> QED
    BY <1>2, <2>1, <2>2 DEF Endings
<1>5. UnseenIsPending'
  BY <1>1, <1>3, <1>4 DEF MemoryInv, UnseenIsPending, HasWork
<1> QED
  BY <1>1, <1>5 DEF WorkIsTaken, EndsForGood

LEMMA MemoryNext ==
  ~Durable /\ MaxStops = 0 /\ MemoryInv /\ [Next]_vars => MemoryInv'
<1> SUFFICES ASSUME ~Durable, MaxStops = 0, MemoryInv, [Next]_vars
             PROVE  UnseenIsPending' /\ WorkIsTaken' /\ EndsForGood'
  BY NextTypes DEF MemoryInv
<1> USE DEF Goto
<1>1. CASE \E b \in Bindings : Write(b) \/ RemoveInput(b)
  BY <1>1, MemoryCommit
<1>2. CASE \E b \in Bindings : Run(b)
  BY <1>2, MemoryRun
<1>3. CASE Settle
  BY <1>3, MemorySettle
<1>4. CASE Wait \/ Drain
  BY <1>4
     DEF Wait, Drain, store, inputs, checkpoints, HasWork,
         MemoryInv, UnseenIsPending, WorkIsTaken, EndsForGood
<1>5. CASE NextDue \/ Timeout
  BY <1>5
     DEF NextDue, Timeout, store, inputs, checkpoints, HasWork,
         MemoryInv, UnseenIsPending, WorkIsTaken, EndsForGood
<1>6. CASE \E b \in Bindings : Take(b)
  BY <1>6
     DEF Take, store, inputs, checkpoints, HasWork,
         MemoryInv, UnseenIsPending, WorkIsTaken, EndsForGood
<1>7. CASE AddDue \/ ReadStates \/ Finish
  BY <1>7
     DEF AddDue, ReadStates, Finish, store, inputs, checkpoints, HasWork,
         MemoryInv, UnseenIsPending, WorkIsTaken, EndsForGood
<1>8. CASE \E b \in Bindings : Publish(b) \/ Cut(b)
  BY <1>8
     DEF Publish, Cut, inputs, checkpoints, local, HasWork, NeverRuns, Heard,
         MemoryInv, UnseenIsPending, WorkIsTaken, EndsForGood
<1>9. CASE Tick \/ UNCHANGED vars
  BY <1>9
     DEF Tick, vars, inputs, checkpoints, bus, local, HasWork, NeverRuns, Heard,
         MemoryInv, UnseenIsPending, WorkIsTaken, EndsForGood
<1>10. ~Fault /\ ~Crash
  BY DEF Fault, Crash, MemoryInv, TypeInv, TypeOK
<1> QED
  BY <1>1, <1>2, <1>3, <1>4, <1>5, <1>6, <1>7, <1>8, <1>9, <1>10 DEF Next, Step

(***************************************************************************)
(* Without marks, and as long as the host lives, a binding that has not    *)
(* seen a published commit is in the runner's memory.                      *)
(***************************************************************************)
THEOREM MemoryLosesNothing ==
  ASSUME ~Durable, MaxStops = 0
  PROVE  Spec => []UnseenIsPending
<1>1. Init => MemoryInv
  <2> SUFFICES ASSUME Init PROVE MemoryInv
    OBVIOUS
  <2>1. TypeInv
    BY InitTypes
  <2> QED
    BY <2>1 DEF Init, MemoryInv, UnseenIsPending, WorkIsTaken, EndsForGood, HasWork
<1>2. MemoryInv /\ [Next]_vars => MemoryInv'
  BY MemoryNext
<1>3. MemoryInv => UnseenIsPending
  BY DEF MemoryInv
<1> QED
  BY <1>1, <1>2, <1>3, PTL DEF Spec

-----------------------------------------------------------------------------
(***************************************************************************)
(* The Cloudflare object                                                   *)
(***************************************************************************)

(***************************************************************************)
(* Who holds the permit: a request that waits for it, the turn that ends,  *)
(* or the acquisition, which is alone.                                     *)
(***************************************************************************)
Reconciling == pass.at # "free"

Roles ==
  /\ object = "down" => ~Reconciling
  /\ object = "acquiring" => Reconciling /\ pass.who = "acquire"
  /\ object # "up" => turn.at = "idle" /\ \A r \in Requests : requests[r] = "idle"
  /\ turn.at = "close" => Reconciling /\ pass.who = "turn"
  /\ Reconciling => /\ pass.who = "acquire" => object = "acquiring"
                    /\ pass.who = "turn" => turn.at = "close"
                    /\ pass.who \in Requests => requests[pass.who] = "reconcile"
  /\ \A r \in Requests : requests[r] = "idle" => touched[r] = {}

(***************************************************************************)
(* The target of a reconciliation is not later than any deadline it has    *)
(* read, but for those that somebody changed since.                        *)
(***************************************************************************)
OthersTouched == UNION {touched[r] : r \in Requests \ {pass.who}}

Ahead ==
  Reconciling =>
    \A w \in All :
      /\ w < pass.wakeup
      /\ Deadline(w) # Never
      /\ w \notin OthersTouched
      /\ pass.who \in Requests => w \notin unarmed
      => pass.target # Never /\ pass.target <= Deadline(w)

(***************************************************************************)
(* Between two turns nothing is left unarmed, whatever requests do.        *)
(***************************************************************************)
Resting == object = "up" /\ turn.at = "idle"

Timely ==
  Resting =>
    /\ unarmed = {}
    /\ pass.at # "cleared" =>
         \A w \in All : Deadline(w) # Never /\ w \notin Touched
                        => slot # Never /\ slot <= Later(Deadline(w), 1)

(***************************************************************************)
(* Between two turns an alarm, or the target of a reconciliation, has a    *)
(* deadline that asks for it, or a request that is still to reconcile took *)
(* it away; unless a due time could not be read.                           *)
(***************************************************************************)
Wanted == \E w \in All : Deadline(w) # Never

Asked ==
  faults = MaxFaults =>
    /\ Resting /\ slot # Never => Wanted \/ \E r \in Requests : requests[r] # "idle"
    /\ turn.at \in {"idle", "close"} /\ Reconciling /\ pass.target # Never
         => Wanted \/ \E r \in Requests \ {pass.who} : requests[r] # "idle"

AlarmInv == WellTyped /\ Roles /\ Armed /\ Ahead /\ Timely /\ Asked
-----------------------------------------------------------------------------
\* Wakeups has the definitions of Alarm under its own names.
LEMMA SameTerms ==
  /\ W!All = All /\ W!Touched = Touched
  /\ \A s, t : W!Later(s, t) = Later(s, t) /\ W!Sooner(s, t) = Sooner(s, t)
  /\ \A w : W!Deadline(w) = Deadline(w) /\ W!Deadline(w)' = Deadline(w)'
BY DEF W!All, All, W!Touched, Touched, W!Later, Later, W!Sooner, Sooner, W!Deadline, Deadline

LEMMA NeverIsNoTime == \A t \in Int : t # Never
BY AlarmAssumption

LEMMA Bounds ==
  /\ Late \in Nat \ {0} /\ Guard \in Nat \ {0}
  /\ Horizon \in Nat /\ Count \in Nat \ {0}
BY AlarmAssumption

LEMMA SoonerTime ==
  ASSUME NEW s \in {Never} \cup Time, NEW t \in {Never} \cup Time
  PROVE  Sooner(s, t) \in {Never} \cup Time
BY DEF Sooner

LEMMA LaterTime ==
  ASSUME NEW s \in Time, NEW t \in Time
  PROVE  Later(s, t) \in Time
BY DEF Later

\* A delay is one of the schedule, so a floor is never further ahead.
LEMMA Delays ==
  ASSUME NEW w \in All, NEW n \in 1..Len(Retry[w])
  PROVE  Retry[w][n] \in Nat \ {0} /\ n \in DOMAIN Retry[w]
<1>1. Retry[w] \in Seq(Nat \ {0})
  BY AlarmAssumption DEF All
<1>2. QED
  BY <1>1

LEMMA DeadlineTime ==
  ASSUME WellTyped, NEW w \in All
  PROVE  Deadline(w) \in {Never} \cup Time
<1>1. due[w] \in {Never} \cup Time /\ floor[w] \in Time
  BY Bounds DEF WellTyped, ScheduleOK, Time
<1>2. QED
  BY <1>1, LaterTime DEF Deadline

LEMMA BackOffOK ==
  ASSUME WellTyped, NEW w \in All, NEW at \in -Late..0, W!BackOff(w, at)
  PROVE  /\ (\A v \in All : ScheduleOK(v))'
         /\ steps' \in [All -> Nat] /\ floor' \in [All -> Time]
         /\ exhausted' \subseteq All \ Endless
         /\ \A v \in All \ {w} : floor'[v] = floor[v]
         /\ exhausted \subseteq exhausted' /\ exhausted' \subseteq exhausted \cup {w}
         /\ w \in exhausted' \/ floor'[w] > at
<1> DEFINE n == IF steps[w] < Len(Retry[w]) THEN steps[w] + 1 ELSE Len(Retry[w])
           ended == steps[w] >= Len(Retry[w]) /\ w \notin Endless
<1>1. Retry[w] \in Seq(Nat \ {0}) /\ Len(Retry[w]) \in Nat
  BY AlarmAssumption DEF All
<1>2. steps[w] \in 0..Len(Retry[w]) /\ n \in 0..Len(Retry[w])
  BY <1>1 DEF WellTyped, ScheduleOK
<1>3. ~ended => n \in 1..Len(Retry[w])
  <2>1. w \in Endless => Len(Retry[w]) > 0
    BY <1>1, AlarmAssumption
  <2>2. QED
    BY <1>1, <1>2, <2>1
<1>4. /\ steps' = [steps EXCEPT ![w] = n]
      /\ floor' = [floor EXCEPT ![w] = IF ended THEN -Late ELSE at + Retry[w][n]]
      /\ exhausted' = IF ended THEN exhausted \cup {w} ELSE exhausted
  BY DEF W!BackOff
<1>5. ~ended => /\ at + Retry[w][n] \in Time /\ at + Retry[w][n] > at
                /\ at + Retry[w][n] <= Retry[w][n] /\ n \in DOMAIN Retry[w]
  BY <1>3, Delays, Bounds DEF Time
<1> HIDE DEF n, ended
<1>6. steps' \in [All -> Nat] /\ steps'[w] <= Len(Retry[w])
  BY <1>1, <1>2, <1>4 DEF WellTyped
<1>7. floor' \in [All -> Time]
  BY <1>4, <1>5, Bounds DEF WellTyped, Time
<1>8. floor'[w] <= 0 \/ \E k \in DOMAIN Retry[w] : floor'[w] <= Retry[w][k]
  <2>1. CASE ended
    BY <1>4, <2>1, Bounds DEF WellTyped
  <2>2. CASE ~ended
    BY <1>4, <1>5, <2>2 DEF WellTyped
  <2>3. QED
    BY <2>1, <2>2
<1>9. \A v \in All \ {w} : floor'[v] = floor[v] /\ steps'[v] = steps[v]
  BY <1>4 DEF WellTyped
<1>10. (\A v \in All : ScheduleOK(v))'
  BY <1>6, <1>8, <1>9 DEF WellTyped, ScheduleOK
<1>11. w \in exhausted' \/ floor'[w] > at
  BY <1>4, <1>5 DEF WellTyped
<1>12. /\ exhausted' \subseteq All \ Endless
       /\ exhausted \subseteq exhausted' /\ exhausted' \subseteq exhausted \cup {w}
  BY <1>4 DEF WellTyped, ended
<1>13. QED
  BY <1>6, <1>7, <1>9, <1>10, <1>11, <1>12

LEMMA RecoverOK ==
  ASSUME WellTyped, NEW w \in All, W!Recover(w)
  PROVE  /\ (\A v \in All : ScheduleOK(v))'
         /\ steps' \in [All -> Nat] /\ floor' \in [All -> Time]
         /\ exhausted' \subseteq All \ Endless
BY Bounds DEF W!Recover, WellTyped, ScheduleOK, Time

LEMMA Fresh ==
  /\ W!NoPass \in Pass /\ W!NoPass.at = "free"
  /\ W!Asleep \in Turn /\ W!Asleep.at = "idle"
<1>1. /\ 0 \in -Late..0 /\ 1 \in 1..(Count + 1)
  BY Bounds
<1>2. QED
  BY <1>1 DEF W!NoPass, W!Asleep, Pass, Turn

\* A reconciliation that begins, and the place of a turn that goes on.
LEMMA BeginOK ==
  ASSUME NEW who \in Requests \cup {"turn", "acquire"}, W!Begin(who)
  PROVE  /\ PassOK' /\ pass.at = "free"
         /\ pass'.at = "read" /\ pass'.who = who /\ pass'.wakeup = 1 /\ pass'.target = Never
         /\ pass'.now = 0
<1>1. pass' \in Pass
  BY Fresh DEF W!Begin, Pass
<1>2. /\ pass.at = "free" /\ pass'.at = "read" /\ pass'.who = who /\ pass'.wakeup = 1
      /\ pass'.target = Never /\ pass'.now = 0
  BY DEF W!Begin, W!NoPass
<1>3. who # Never
  BY AlarmAssumption
<1>4. QED
  BY <1>1, <1>2, <1>3 DEF PassOK, Pass

LEMMA OnToOK ==
  ASSUME turn.wakeup \in All
  PROVE  W!OnTo \in Turn /\ W!OnTo.at = "visit" /\ W!OnTo.wakeup = turn.wakeup + 1
<1>1. turn.wakeup + 1 \in 1..(Count + 1)
  BY Bounds DEF All
<1>2. QED
  BY <1>1, Fresh DEF W!OnTo, Turn

LEMMA TypedPass ==
  ASSUME WellTyped, W!Reconciles
  PROVE  WellTyped'
<1>1. CASE W!ReadDue
  <2>1. pass.wakeup \in All
    BY <1>1, Bounds, SameTerms DEF W!ReadDue, WellTyped, PassOK, All, Pass
  <2>2. Sooner(pass.target, Deadline(pass.wakeup)) \in {Never} \cup Time
    BY <2>1, DeadlineTime, SoonerTime DEF WellTyped, PassOK, Pass
  <2>3. pass.wakeup + 1 \in 1..(Count + 1)
    BY <2>1, Bounds DEF All
  <2>4. pass' = [pass EXCEPT !.wakeup = @ + 1, !.target = Sooner(@, Deadline(pass.wakeup))]
    BY <1>1, SameTerms DEF W!ReadDue
  <2>5. pass' \in Pass /\ pass'.at = pass.at /\ pass'.who = pass.who
    BY <2>2, <2>3, <2>4 DEF WellTyped, PassOK, Pass
  <2>6. PassOK'
    BY <1>1, <2>5 DEF W!ReadDue, WellTyped, PassOK, Pass
  <2>7. QED
    BY <1>1, <2>6, SameTerms DEF W!ReadDue, W!backoff, WellTyped, ScheduleOK, TurnOK, Turn
<1>2. CASE W!ReadFails
  <2> DEFINE w == pass.wakeup
  <2>1. w \in All /\ pass.now \in -Late..0
    BY <1>2, Bounds, SameTerms DEF W!ReadFails, WellTyped, PassOK, All, Pass
  <2>2. /\ (\A v \in All : ScheduleOK(v))'
        /\ steps' \in [All -> Nat] /\ floor' \in [All -> Time]
        /\ exhausted' \subseteq All \ Endless
    <3>1. CASE floor[w] <= pass.now
      BY <1>2, <2>1, <3>1, BackOffOK, SameTerms DEF W!ReadFails
    <3>2. CASE ~(floor[w] <= pass.now)
      BY <1>2, <3>2, SameTerms DEF W!ReadFails, W!backoff, WellTyped, ScheduleOK
    <3>3. QED
      BY <3>1, <3>2
  <2>3. pass' = [pass EXCEPT !.wakeup = w + 1,
                   !.target = IF w \in exhausted' THEN @ ELSE Sooner(@, floor'[w])]
    BY <1>2, SameTerms DEF W!ReadFails
  <2>4. (IF w \in exhausted' THEN pass.target ELSE Sooner(pass.target, floor'[w]))
          \in {Never} \cup Time
    BY <2>1, <2>2, SoonerTime DEF WellTyped, PassOK, Pass
  <2>5. PassOK'
    <3>1. w + 1 \in 1..(Count + 1)
      BY <2>1, Bounds DEF All
    <3>2. pass' \in Pass /\ pass'.at = pass.at /\ pass'.who = pass.who
      BY <2>3, <2>4, <3>1 DEF WellTyped, PassOK, Pass
    <3>3. QED
      BY <1>2, <3>2 DEF W!ReadFails, WellTyped, PassOK, Pass
  <2>6. faults' \in 0..MaxFaults
    BY <1>2, AlarmAssumption, SameTerms DEF W!ReadFails, WellTyped
  <2>7. UNCHANGED <<due, slot, object, turn, requests, touched, unarmed, restarts>>
    BY <1>2, SameTerms DEF W!ReadFails
  <2>8. QED
    BY <2>2, <2>5, <2>6, <2>7 DEF WellTyped, TurnOK, Turn
<1>3. ASSUME W!Conclude
      PROVE  /\ object' \in {"down", "acquiring", "up"} /\ TurnOK' /\ PassOK'
             /\ requests' \in [Requests -> {"idle", "handler", "reconcile"}]
             /\ touched' \in [Requests -> SUBSET All] /\ unarmed' \subseteq All
  <2>1. pass' = W!NoPass /\ PassOK'
    BY <1>3, Fresh DEF W!Conclude, PassOK
  <2>2. TurnOK'
    BY <1>3, Fresh DEF W!Conclude, WellTyped, TurnOK
  <2>3. /\ requests' \in [Requests -> {"idle", "handler", "reconcile"}]
        /\ touched' \in [Requests -> SUBSET All]
    BY <1>3, SameTerms DEF W!Conclude, WellTyped
  <2>4. QED
    BY <1>3, <2>1, <2>2, <2>3, SameTerms DEF W!Conclude, WellTyped
<1>4. CASE W!Compare
  <2>1. CASE pass.target = Never \/ W!Kept
    BY <1>3, <1>4, <2>1, SameTerms DEF W!Compare, W!backoff, WellTyped, ScheduleOK
  <2>2. CASE ~(pass.target = Never \/ W!Kept)
    <3>1. /\ W!Replace
          /\ UNCHANGED <<due, W!backoff, object, unarmed, turn, requests, touched, restarts, faults>>
      BY <1>4, <2>2, SameTerms DEF W!Compare
    <3>2. PassOK' /\ slot' \in {Never} \cup Time
      BY <1>4, <2>2, <3>1, Bounds, SameTerms DEF W!Replace, W!Compare, WellTyped, PassOK, Pass
    <3>3. QED
      BY <3>1, <3>2, SameTerms DEF W!backoff, WellTyped, ScheduleOK, TurnOK, Turn
  <2>3. QED
    BY <2>1, <2>2
<1>5. CASE W!Arm
  <2>1. pass.target \in Time /\ pass.now + 1 \in Time
    BY <1>5, Bounds, SameTerms DEF W!Arm, WellTyped, PassOK, Time, Pass
  <2>2. slot' \in Time
    BY <1>5, <2>1, LaterTime, SameTerms DEF W!Arm
  <2>3. QED
    BY <1>3, <1>5, <2>2, SameTerms DEF W!Arm, W!backoff, WellTyped, ScheduleOK
<1>6. QED
  BY <1>1, <1>2, <1>4, <1>5, SameTerms DEF W!Reconciles

LEMMA TypedTurn ==
  ASSUME WellTyped, W!Turns
  PROVE  WellTyped'
<1>2. ASSUME turn' = W!OnTo, turn.wakeup \in All PROVE TurnOK'
  BY <1>2, OnToOK DEF TurnOK, Turn
<1>3. CASE W!Fire \/ W!GuardTurn
  <2>1. TurnOK'
    BY <1>3, Fresh DEF W!Fire, W!GuardTurn, WellTyped, TurnOK, Turn
  <2>2. slot' \in {Never} \cup Time
    BY <1>3, Bounds, SameTerms DEF W!Fire, W!GuardTurn, Time
  <2>3. QED
    BY <1>3, <2>1, <2>2, SameTerms DEF W!Fire, W!GuardTurn, W!backoff, WellTyped,
       ScheduleOK, PassOK, Pass
<1>4. CASE W!Visit
  <2>1. turn.wakeup \in All
    BY <1>4, Bounds, SameTerms DEF W!Visit, WellTyped, TurnOK, All, Turn
  <2>2. TurnOK'
    <3>1. 0 \in -Late..0
      BY Bounds
    <3>2. turn' = [turn EXCEPT !.at = "run", !.since = 0] => TurnOK'
      BY <2>1, <3>1 DEF WellTyped, TurnOK, Turn
    <3>3. QED
      BY <1>2, <1>4, <2>1, <3>2 DEF W!Visit
  <2>3. QED
    BY <1>4, <2>2, SameTerms DEF W!Visit, W!backoff, WellTyped, ScheduleOK, PassOK, Pass
<1>5. W!Overtaken \subseteq All
  BY SameTerms DEF W!Overtaken
<1>6. ASSUME NEW w \in All, NEW fed \in W!Fed(w), NEW at \in {Never, due[w]} \cup 1..Horizon
      PROVE  W!Leaves(w, at, fed) \in [All -> {Never} \cup -Late..Horizon]
  BY <1>6, Bounds, SameTerms DEF W!Leaves, WellTyped
<1>7. ASSUME NEW fed \in W!Fed(turn.wakeup), NEW more \in BOOLEAN,
             NEW at \in {Never, due[turn.wakeup]} \cup 1..Horizon,
             W!Run(at, more, fed)
      PROVE  WellTyped'
  <2>1. turn.wakeup \in All
    BY <1>7, SameTerms DEF W!Run, WellTyped, TurnOK, Turn
  <2>2. due' \in [All -> {Never} \cup -Late..Horizon]
    BY <1>6, <1>7, <2>1, SameTerms DEF W!Run
  <2>3. TurnOK'
    BY <1>7, <2>1, SameTerms DEF W!Run, WellTyped, TurnOK, Turn
  <2>4. QED
    BY <1>5, <1>7, <2>2, <2>3, SameTerms DEF W!Run, W!backoff, WellTyped, ScheduleOK, PassOK, Pass
<1>8. CASE W!After
  <2>1. turn.wakeup \in All /\ 0 \in -Late..0
    BY <1>8, Bounds, SameTerms DEF W!After, WellTyped, TurnOK, Turn
  <2>2. /\ (\A v \in All : ScheduleOK(v))'
        /\ steps' \in [All -> Nat] /\ floor' \in [All -> Time]
        /\ exhausted' \subseteq All \ Endless
    BY <1>8, <2>1, BackOffOK, RecoverOK, SameTerms DEF W!After
  <2>3. TurnOK'
    BY <1>2, <1>8, <2>1, SameTerms DEF W!After
  <2>4. QED
    BY <1>5, <1>8, <2>2, <2>3, SameTerms DEF W!After, WellTyped, PassOK, Pass
<1>9. ASSUME NEW fed \in W!Fed(turn.wakeup),
             NEW at \in {Never, due[turn.wakeup]} \cup 1..Horizon,
             W!RunFails(at, fed)
      PROVE  WellTyped'
  <2>1. turn.wakeup \in All /\ 0 \in -Late..0
    BY <1>9, Bounds, SameTerms DEF W!RunFails, WellTyped, TurnOK, Turn
  <2>2. due' \in [All -> {Never} \cup -Late..Horizon]
    BY <1>6, <1>9, <2>1, SameTerms DEF W!RunFails
  <2>3. /\ (\A v \in All : ScheduleOK(v))'
        /\ steps' \in [All -> Nat] /\ floor' \in [All -> Time]
        /\ exhausted' \subseteq All \ Endless
    BY <1>9, <2>1, BackOffOK, SameTerms DEF W!RunFails
  <2>4. TurnOK'
    BY <1>2, <1>9, <2>1, SameTerms DEF W!RunFails
  <2>5. QED
    BY <1>5, <1>9, <2>2, <2>3, <2>4, SameTerms DEF W!RunFails, WellTyped, PassOK, Pass
<1>10. CASE W!VisitFails
  <2>1. turn.wakeup \in All /\ 0 \in -Late..0
    BY <1>10, Bounds, SameTerms DEF W!VisitFails, WellTyped, TurnOK, All, Turn
  <2>2. /\ (\A v \in All : ScheduleOK(v))'
        /\ steps' \in [All -> Nat] /\ floor' \in [All -> Time]
        /\ exhausted' \subseteq All \ Endless
    BY <1>10, <2>1, BackOffOK, SameTerms DEF W!VisitFails
  <2>3. TurnOK'
    BY <1>2, <1>10, <2>1, SameTerms DEF W!VisitFails
  <2>4. faults' \in 0..MaxFaults
    BY <1>10, AlarmAssumption, SameTerms DEF W!VisitFails, WellTyped
  <2>5. QED
    BY <1>5, <1>10, <2>2, <2>3, <2>4, SameTerms DEF W!VisitFails, WellTyped, PassOK, Pass
<1>11. CASE W!Close
  <2>1. TurnOK'
    BY <1>11, SameTerms DEF W!Close, WellTyped, TurnOK, Turn
  <2>2. PassOK'
    BY <1>11, BeginOK DEF W!Close
  <2>3. QED
    BY <1>11, <2>1, <2>2, SameTerms DEF W!Close, W!backoff, WellTyped, ScheduleOK
<1>12. QED
  BY <1>3, <1>4, <1>7, <1>8, <1>9, <1>10, <1>11, SameTerms DEF W!Turns

LEMMA TypedObject ==
  /\ WellTyped /\ (W!Acquire \/ W!Stop \/ W!Tick) => WellTyped'
  /\ \A r \in Requests, w \in All, at \in {Never} \cup 0..Horizon :
       WellTyped /\ W!Handle(r, w, at) => WellTyped'
  /\ \A r \in Requests : WellTyped /\ W!Return(r) => WellTyped'
<1>1. ASSUME WellTyped, NEW who \in Requests \cup {"turn", "acquire"}, W!Begin(who) PROVE PassOK'
  BY <1>1, BeginOK
<1>2. ASSUME WellTyped, W!Acquire PROVE WellTyped'
  BY <1>1, <1>2, SameTerms DEF W!Acquire, W!backoff, WellTyped, ScheduleOK, TurnOK, Turn
<1>3. ASSUME WellTyped, NEW r \in Requests, W!Return(r) PROVE WellTyped'
  BY <1>1, <1>3, SameTerms DEF W!Return, W!backoff, WellTyped, ScheduleOK, TurnOK, Turn
<1>4. ASSUME WellTyped, NEW r \in Requests, NEW w \in All, NEW at \in {Never} \cup 0..Horizon,
             W!Handle(r, w, at)
      PROVE  WellTyped'
  <2>1. /\ due' \in [All -> {Never} \cup -Late..Horizon]
        /\ requests' \in [Requests -> {"idle", "handler", "reconcile"}]
        /\ touched' \in [Requests -> SUBSET All]
    BY <1>4, Bounds, SameTerms DEF W!Handle, WellTyped
  <2>2. QED
    BY <1>4, <2>1, SameTerms DEF W!Handle, W!backoff, WellTyped, ScheduleOK, TurnOK,
       PassOK, Pass, Turn
<1>5. ASSUME WellTyped, W!Stop PROVE WellTyped'
  <2>1. /\ unarmed' \subseteq All /\ slot' \in {Never} \cup Time /\ restarts' \in Nat
    BY <1>5, Bounds, SameTerms DEF W!Stop, WellTyped, Touched, Time
  <2>2. PassOK' /\ TurnOK'
    BY <1>5, Fresh DEF W!Stop, PassOK, TurnOK
  <2>3. /\ steps' \in [All -> Nat] /\ floor' \in [All -> Time] /\ (\A w \in All : ScheduleOK(w))'
    BY <1>5, Bounds, AlarmAssumption, SameTerms DEF W!Stop, ScheduleOK, Time, All
  <2>4. /\ requests' \in [Requests -> {"idle", "handler", "reconcile"}]
        /\ touched' \in [Requests -> SUBSET All]
    BY <1>5, SameTerms DEF W!Stop
  <2>5. QED
    BY <1>5, <2>1, <2>2, <2>3, <2>4, SameTerms DEF W!Stop, WellTyped
<1>6. ASSUME WellTyped, W!Tick PROVE WellTyped'
  <2>1. \A t \in {Never} \cup Time :
          /\ W!Earlier(t) \in {Never} \cup Time
          /\ t # Never => W!Earlier(t) \in Time /\ W!Earlier(t) <= t
    BY Bounds, NeverIsNoTime, SameTerms DEF W!Earlier, Time
  <2>2. due' \in [All -> {Never} \cup -Late..Horizon]
    BY <1>6, <2>1, Bounds, NeverIsNoTime, SameTerms DEF W!Tick, W!Earlier, WellTyped
  <2>3. slot' \in {Never} \cup Time
    BY <1>6, <2>1, SameTerms DEF W!Tick, WellTyped
  <2>4. /\ floor' \in [All -> Time] /\ \A w \in All : floor'[w] <= floor[w]
    BY <1>6, <2>1, NeverIsNoTime, SameTerms DEF W!Tick, WellTyped, Time
  <2>5. (\A w \in All : ScheduleOK(w))'
    <3> SUFFICES ASSUME NEW w \in All PROVE ScheduleOK(w)'
      OBVIOUS
    <3>1. steps'[w] <= Len(Retry[w])
      BY <1>6, SameTerms DEF W!Tick, WellTyped, ScheduleOK
    <3>2. \A n \in DOMAIN Retry[w] : Retry[w][n] \in Nat
      BY Delays, AlarmAssumption DEF All
    <3>3. floor'[w] <= 0 \/ \E n \in DOMAIN Retry[w] : floor'[w] <= Retry[w][n]
      <4>1. floor[w] \in Int /\ floor'[w] \in Int /\ floor'[w] <= floor[w]
        <5>1. floor[w] \in Time /\ floor'[w] \in Time /\ floor'[w] <= floor[w]
          BY <1>6, <2>4 DEF WellTyped
        <5>2. QED
          BY <5>1 DEF Time
      <4>2. floor[w] <= 0 \/ \E n \in DOMAIN Retry[w] : floor[w] <= Retry[w][n]
        BY <1>6 DEF WellTyped, ScheduleOK
      <4>3. QED
        BY <3>2, <4>1, <4>2
    <3>4. QED
      BY <3>1, <3>3 DEF ScheduleOK
  <2>6. TurnOK'
    BY <1>6, Bounds, SameTerms DEF W!Tick, WellTyped, TurnOK, Turn
  <2>7. PassOK'
    <3>1. CASE pass.at = "free"
      BY <1>6, <3>1 DEF W!Tick, WellTyped, PassOK, Pass
    <3>2. CASE pass.at # "free"
      <4>1. pass' = [pass EXCEPT !.now = @ - 1, !.target = W!Earlier(@)] /\ pass.now > -Late
        BY <1>6, <3>2 DEF W!Tick
      <4>2. pass \in Pass /\ pass.target \in {Never} \cup Time /\ pass.now \in -Late..0
        BY <1>6 DEF WellTyped, PassOK, Pass
      <4>3. pass.now - 1 \in -Late..0
        BY <4>1, <4>2, Bounds
      <4>4. W!Earlier(pass.target) \in {Never} \cup Time
        BY <2>1, <4>2
      <4>5. pass.target # Never => W!Earlier(pass.target) # Never
        <5>1. pass.target # Never => W!Earlier(pass.target) \in Time
          BY <2>1, <4>2
        <5>2. QED
          BY <5>1, NeverIsNoTime DEF Time
      <4>6. /\ pass' \in Pass /\ pass'.at = pass.at /\ pass'.who = pass.who
            /\ pass'.wakeup = pass.wakeup /\ pass'.target = W!Earlier(pass.target)
        BY <4>1, <4>2, <4>3, <4>4 DEF Pass
      <4>7. QED
        BY <1>6, <4>5, <4>6 DEF WellTyped, PassOK
    <3>3. QED
      BY <3>1, <3>2
  <2>8. QED
    BY <1>6, <2>2, <2>3, <2>4, <2>5, <2>6, <2>7, SameTerms DEF W!Tick, WellTyped
<1>7. QED
  BY <1>2, <1>3, <1>4, <1>5, <1>6

LEMMA TypedNext == WellTyped /\ [W!Next]_(W!vars) => WellTyped'
<1>1. WellTyped /\ UNCHANGED W!vars => WellTyped'
  BY SameTerms DEF W!vars, W!backoff, WellTyped, ScheduleOK, TurnOK, PassOK, Pass, Turn
<1>2. QED
  BY <1>1, TypedPass, TypedTurn, TypedObject, SameTerms DEF W!Next
-----------------------------------------------------------------------------
LEMMA RolesPass ==
  ASSUME WellTyped, Roles, W!Reconciles
  PROVE  Roles'
<1>1. Reconciling
  BY DEF W!Reconciles, W!ReadDue, W!ReadFails, W!Compare, W!Arm, Reconciling
<1>2. ASSUME pass'.at # "free", pass'.who = pass.who, UNCHANGED <<object, turn,
                                                                  requests, touched>>
      PROVE  Roles'
  BY <1>1, <1>2 DEF Roles, Reconciling
<1>3. ASSUME W!Conclude PROVE Roles'
  <2>1. pass'.at = "free" /\ W!Asleep.at = "idle"
    BY <1>3, Fresh DEF W!Conclude
  <2>2. CASE pass.who \in Requests
    <3>1. pass.who # "turn" /\ pass.who # "acquire"
      BY <2>2, AlarmAssumption
    <3>2. /\ UNCHANGED <<object, turn>>
          /\ requests' = [requests EXCEPT ![pass.who] = "idle"]
          /\ touched' = [touched EXCEPT ![pass.who] = {}]
      BY <1>3, <2>2, <3>1 DEF W!Conclude
    <3>3. object = "up" /\ turn.at # "close"
      BY <1>1, <2>2, <3>1 DEF Roles, WellTyped
    <3>4. QED
      BY <2>1, <2>2, <3>2, <3>3 DEF Roles, Reconciling, WellTyped
  <2>3. CASE pass.who \notin Requests
    <3>1. UNCHANGED <<requests, touched>>
      BY <1>3, <2>3 DEF W!Conclude
    <3>2. CASE pass.who = "acquire"
      <4>1. object' = "up" /\ turn' = turn /\ object = "acquiring"
        BY <1>1, <1>3, <3>2 DEF W!Conclude, Roles
      <4>2. QED
        BY <2>1, <3>1, <4>1 DEF Roles, Reconciling
    <3>3. CASE pass.who = "turn"
      <4>1. object' = object /\ turn'.at = "idle" /\ turn.at = "close"
        BY <1>1, <1>3, <2>1, <3>3 DEF W!Conclude, Roles
      <4>2. QED
        BY <2>1, <3>1, <4>1 DEF Roles, Reconciling, WellTyped
    <3>4. QED
      BY <1>1, <2>3, <3>2, <3>3 DEF WellTyped, PassOK, Pass, Reconciling
  <2>4. QED
    BY <2>2, <2>3
<1>4. CASE W!ReadDue \/ W!ReadFails
  BY <1>2, <1>4 DEF W!ReadDue, W!ReadFails, WellTyped, PassOK, Pass
<1>5. CASE W!Compare
  BY <1>2, <1>3, <1>5 DEF W!Compare, W!Replace, WellTyped, PassOK, Pass
<1>6. CASE W!Arm
  BY <1>3, <1>6 DEF W!Arm
<1>7. QED
  BY <1>4, <1>5, <1>6 DEF W!Reconciles

LEMMA RolesTurn ==
  ASSUME WellTyped, Roles, W!Turns
  PROVE  /\ Roles' /\ object = "up" /\ UNCHANGED <<object, requests, touched, restarts>>
         /\ turn.at # "close"
<1>1. ASSUME UNCHANGED <<object, pass, requests, touched>>, turn.at # "close", turn'.at # "close",
             object = "up"
      PROVE  Roles'
  BY <1>1 DEF Roles, Reconciling
<1>2. turn.at # "idle" => object = "up"
  BY DEF Roles, WellTyped
<1>3. turn.wakeup \in All => W!OnTo.at = "visit"
  BY OnToOK
<1>4. CASE W!Fire \/ W!GuardTurn
  BY <1>1, <1>2, <1>4, Fresh DEF W!Fire, W!GuardTurn, WellTyped, TurnOK, Turn
<1>5. CASE W!Visit
  <2>1. turn.wakeup \in All
    BY <1>5, Bounds DEF W!Visit, WellTyped, TurnOK, Turn, All
  <2>2. turn'.at # "close" /\ turn.at = "visit"
    BY <1>3, <1>5, <2>1 DEF W!Visit, WellTyped, TurnOK, Turn
  <2>3. QED
    BY <1>1, <1>2, <1>5, <2>2 DEF W!Visit
<1>6. ASSUME NEW fed \in W!Fed(turn.wakeup), NEW more \in BOOLEAN,
             NEW at \in {Never, due[turn.wakeup]} \cup 1..Horizon,
             W!Run(at, more, fed) \/ W!RunFails(at, fed)
      PROVE  /\ turn.at = "run" /\ turn'.at # "close"
             /\ UNCHANGED <<object, pass, requests, touched, restarts>>
  BY <1>3, <1>6 DEF W!Run, W!RunFails, WellTyped, TurnOK, Turn
<1>7. CASE W!After
  BY <1>1, <1>2, <1>3, <1>7 DEF W!After, WellTyped, TurnOK, Turn
<1>8. CASE W!VisitFails
  <2>1. turn.wakeup \in All
    BY <1>8, Bounds DEF W!VisitFails, WellTyped, TurnOK, Turn, All
  <2>2. QED
    BY <1>1, <1>2, <1>3, <1>8, <2>1 DEF W!VisitFails
<1>9. CASE W!Close
  <2>1. /\ pass'.at = "read" /\ pass'.who = "turn" /\ turn'.at = "close" /\ turn.at = "visit"
        /\ pass.at = "free"
    BY <1>9, BeginOK DEF W!Close, WellTyped, TurnOK, Turn
  <2>2. "turn" \notin Requests
    BY AlarmAssumption
  <2>3. QED
    BY <1>2, <1>9, <2>1, <2>2 DEF W!Close, Roles, Reconciling
<1>10. QED
  BY <1>1, <1>2, <1>4, <1>5, <1>6, <1>7, <1>8, <1>9 DEF W!Turns

LEMMA RolesObject ==
  /\ WellTyped /\ Roles /\ (W!Acquire \/ W!Stop \/ W!Tick) => Roles'
  /\ \A r \in Requests, w \in All, at \in {Never} \cup 0..Horizon :
       WellTyped /\ Roles /\ W!Handle(r, w, at) => Roles'
  /\ \A r \in Requests : WellTyped /\ Roles /\ W!Return(r) => Roles'
<1>1. ASSUME WellTyped, Roles, W!Acquire PROVE Roles'
  <2>1. pass'.at = "read" /\ pass'.who = "acquire"
    BY <1>1, BeginOK DEF W!Acquire
  <2>2. "acquire" \notin Requests
    BY AlarmAssumption
  <2>3. QED
    BY <1>1, <2>1, <2>2 DEF W!Acquire, Roles, Reconciling
<1>2. ASSUME WellTyped, Roles, W!Stop PROVE Roles'
  BY <1>2, Fresh DEF W!Stop, Roles, Reconciling
<1>3. ASSUME WellTyped, Roles, W!Tick PROVE Roles'
  <2>1. turn'.at = turn.at
    BY <1>3 DEF W!Tick, WellTyped, TurnOK, Turn
  <2>2. pass'.at = pass.at /\ pass'.who = pass.who
    BY <1>3 DEF W!Tick, WellTyped, PassOK, Pass
  <2>3. QED
    BY <1>3, <2>1, <2>2 DEF W!Tick, Roles, Reconciling
<1>4. ASSUME WellTyped, Roles, NEW r \in Requests, NEW w \in All,
             NEW at \in {Never} \cup 0..Horizon, W!Handle(r, w, at)
      PROVE  Roles'
  BY <1>4 DEF W!Handle, Roles, Reconciling, WellTyped
<1>5. ASSUME WellTyped, Roles, NEW r \in Requests, W!Return(r) PROVE Roles'
  <2>1. pass'.at = "read" /\ pass'.who = r /\ pass.at = "free"
    BY <1>5, BeginOK DEF W!Return
  <2>2. r # "acquire" /\ r # "turn"
    BY <1>5, AlarmAssumption
  <2>3. object = "up"
    BY <1>5 DEF W!Return, Roles, WellTyped
  <2>4. QED
    BY <1>5, <2>1, <2>2, <2>3 DEF W!Return, Roles, Reconciling, WellTyped
<1>6. QED
  BY <1>1, <1>2, <1>3, <1>4, <1>5

LEMMA RolesNext == WellTyped /\ Roles /\ [W!Next]_(W!vars) => Roles'
<1>1. Roles /\ UNCHANGED W!vars => Roles'
  BY DEF W!vars, Roles, Reconciling
<1>2. QED
  BY <1>1, RolesPass, RolesTurn, RolesObject, SameTerms DEF W!Next
-----------------------------------------------------------------------------
(***************************************************************************)
(* The alarm                                                               *)
(***************************************************************************)
Guarded(w) ==
  \/ turn.at = "fired" \/ pass.at = "cleared"
  \/ /\ slot # Never
     /\ \/ slot <= Later(Guard, Deadline(w))
        \/ /\ object # "up"
           /\ \E n \in DOMAIN Retry[w] : slot <= Later(due[w], Retry[w][n])

Owed(w) == Deadline(w) # Never /\ w \notin unarmed \cup Touched

Scheduled == Armed /\ Ahead /\ Timely /\ Asked

\* A wakeup has a deadline if it has work and its schedule goes on.
LEMMA Deadlines ==
  ASSUME WellTyped, NEW w \in All
  PROVE  /\ due[w] = Never \/ due[w] \in Time
         /\ due[w] \in Time => due[w] # Never
         /\ floor[w] \in Time
         /\ Deadline(w) # Never <=> w \notin exhausted /\ due[w] # Never
         /\ Deadline(w) # Never => /\ Deadline(w) \in Time
                                   /\ Deadline(w) = Later(due[w], floor[w])
<1>1. due[w] \in {Never} \cup Time /\ floor[w] \in Time
  BY Bounds DEF WellTyped, Time
<1>2. \A t \in Time : t # Never
  BY NeverIsNoTime DEF Time
<1>3. due[w] # Never => Later(due[w], floor[w]) \in Time
  BY <1>1, LaterTime
<1>4. QED
  BY <1>1, <1>2, <1>3 DEF Deadline

LEMMA ArmedSays ==
  WellTyped => (Armed <=> \A w \in All : Owed(w) => Guarded(w))
BY Deadlines DEF Armed, Owed, Guarded

\* What is known of the primed state when it is well typed.
LEMMA NextDeadlines ==
  ASSUME WellTyped', NEW w \in All
  PROVE  /\ due'[w] = Never \/ due'[w] \in Time
         /\ due'[w] \in Time => due'[w] # Never
         /\ floor'[w] \in Time
         /\ Deadline(w)' # Never <=> w \notin exhausted' /\ due'[w] # Never
         /\ Deadline(w)' # Never => /\ Deadline(w)' \in Time
                                    /\ Deadline(w)' = Later(due'[w], floor'[w])
<1>1. due'[w] \in {Never} \cup Time /\ floor'[w] \in Time
  BY Bounds DEF WellTyped, Time
<1>2. \A t \in Time : t # Never
  BY NeverIsNoTime DEF Time
<1>3. due'[w] # Never => Later(due'[w], floor'[w]) \in Time
  BY <1>1, LaterTime
<1>4. QED
  BY <1>1, <1>2, <1>3 DEF Deadline, Later

LEMMA NextArmedSays ==
  WellTyped' => (Armed' <=> \A w \in All : Owed(w)' => Guarded(w)')
BY NextDeadlines DEF Armed, Owed, Guarded, Later

LEMMA SameDeadlines ==
  ASSUME UNCHANGED <<due, floor, exhausted>>
  PROVE  \A w : Deadline(w)' = Deadline(w)
BY DEF Deadline, Later

LEMMA SoonerLeast ==
  ASSUME NEW s \in {Never} \cup Time, NEW t \in {Never} \cup Time
  PROVE  /\ s # Never => Sooner(s, t) # Never /\ Sooner(s, t) <= s
         /\ t # Never => Sooner(s, t) # Never /\ Sooner(s, t) <= t
         /\ Sooner(s, t) # Never => s # Never \/ t # Never
BY DEF Sooner, Time

LEMMA Guards ==
  ASSUME NEW t \in Time, NEW d \in Time, t <= Later(d, 1)
  PROVE  t <= Later(Guard, d)
BY Bounds DEF Later, Time

\* What a wakeup that is passed, and whose time holds, is told.
LEMMA AheadSays ==
  ASSUME AlarmInv, Reconciling, NEW w \in All, w < pass.wakeup, Deadline(w) # Never,
         w \notin OthersTouched, pass.who \in Requests => w \notin unarmed
  PROVE  pass.target # Never /\ pass.target <= Deadline(w)
BY DEF AlarmInv, Ahead

\* A reconciliation ends: with no deadline left the slot is empty, else it
\* holds the target, or a time not later.
LEMMA Concludes ==
  ASSUME AlarmInv, WellTyped', Reconciling, pass.wakeup > Count, W!Conclude,
         pass.at # "cleared" \/ slot' # Never,
         UNCHANGED <<due, W!backoff, restarts, faults>>,
         \/ pass.target = Never /\ slot' = Never
         \/ pass.target # Never /\ slot' # Never /\ slot' <= Later(pass.target, 1)
  PROVE  Scheduled'
<1>1. UNCHANGED <<due, floor, exhausted, faults>>
  BY DEF W!backoff
<1>2. \A w : Deadline(w)' = Deadline(w)
  BY <1>1, SameDeadlines
<1>3. /\ pass' = W!NoPass /\ pass'.at = "free"
      /\ object' = IF pass.who = "acquire" THEN "up" ELSE object
      /\ unarmed' = IF pass.who \in Requests THEN unarmed ELSE {}
      /\ turn' = IF pass.who = "turn" THEN W!Asleep ELSE turn
      /\ IF pass.who \in Requests
         THEN /\ requests' = [requests EXCEPT ![pass.who] = "idle"]
              /\ touched' = [touched EXCEPT ![pass.who] = {}]
         ELSE UNCHANGED <<requests, touched>>
  BY Fresh DEF W!Conclude
<1>4. \A w \in All : w < pass.wakeup
  BY Bounds DEF All, AlarmInv, WellTyped, PassOK, Pass
<1>5. Touched' = OthersTouched
  BY <1>3 DEF Touched, OthersTouched, AlarmInv, WellTyped
<1>6. ASSUME NEW w \in All, Deadline(w) # Never, w \notin Touched',
             pass.who \in Requests => w \notin unarmed
      PROVE  slot' # Never /\ slot' <= Later(Deadline(w), 1)
  <2>1. pass.target # Never /\ pass.target <= Deadline(w)
    BY <1>4, <1>5, <1>6, AheadSays
  <2>2. Deadline(w) \in Time /\ pass.target \in Time /\ slot' \in Time
    BY <1>6, <2>1, Deadlines DEF AlarmInv, WellTyped, PassOK, Pass
  <2>3. QED
    BY <2>1, <2>2 DEF Later, Time
<1>7. Armed'
  <2>1. SUFFICES ASSUME NEW w \in All, Owed(w)' PROVE Guarded(w)'
    BY NextArmedSays
  <2>2. Deadline(w) # Never /\ w \notin unarmed' /\ w \notin Touched'
    BY <1>2, <2>1 DEF Owed
  <2>3. slot' # Never /\ slot' <= Later(Deadline(w), 1)
    BY <1>3, <1>6, <2>2
  <2>4. Deadline(w) \in Time /\ slot' \in Time
    BY <2>2, <2>3, Deadlines DEF AlarmInv, WellTyped
  <2>5. slot' <= Later(Guard, Deadline(w))
    BY <2>3, <2>4, Guards
  <2>6. QED
    BY <1>2, <2>3, <2>5 DEF Guarded, Later
<1>8. Ahead'
  BY <1>3 DEF Ahead, Reconciling
<1>9. Timely'
  <2>1. SUFFICES ASSUME Resting'
                 PROVE  /\ unarmed' = {}
                        /\ \A w \in All : Deadline(w)' # Never /\ w \notin Touched'
                             => slot' # Never /\ slot' <= Later(Deadline(w)', 1)
    BY DEF Timely, Later
  <2>2. pass.who \in Requests => pass.who # "turn" /\ pass.who # "acquire"
    BY AlarmAssumption
  <2>3. pass.who \in Requests => unarmed = {}
    BY <1>3, <2>1, <2>2 DEF Resting, AlarmInv, Timely
  <2>4. QED
    BY <1>2, <1>3, <1>6, <2>3
<1>10. Asked'
  <2>1. SUFFICES ASSUME faults = MaxFaults, Resting', slot' # Never
                 PROVE  Wanted' \/ \E r \in Requests : requests'[r] # "idle"
    BY <1>1, <1>3 DEF Asked, Reconciling
  <2>2. pass.target # Never
    BY <2>1
  <2>3. turn.at \in {"idle", "close"}
    BY <1>3, <2>1 DEF Resting, AlarmInv, Roles
  <2>4. Wanted \/ \E r \in Requests \ {pass.who} : requests[r] # "idle"
    BY <2>1, <2>2, <2>3 DEF AlarmInv, Asked
  <2>5. Wanted => Wanted'
    BY <1>2 DEF Wanted
  <2>6. \A r \in Requests \ {pass.who} : requests'[r] = requests[r]
    BY <1>3 DEF AlarmInv, WellTyped
  <2>7. QED
    BY <2>4, <2>5, <2>6
<1>11. QED
  BY <1>7, <1>8, <1>9, <1>10 DEF Scheduled

\* A turn's work gives new times: what it made sooner is unarmed unless the
\* guard comes soon enough and a reconciliation has still to read it.
LEMMA Reworks ==
  ASSUME AlarmInv, WellTyped', turn.at \in {"visit", "run", "after"},
         turn'.at \in {"visit", "after"},
         UNCHANGED <<slot, object, pass, requests, touched>>,
         unarmed' = unarmed \cup W!Overtaken
  PROVE  Scheduled'
<1>1. object = "up"
  BY DEF AlarmInv, Roles, WellTyped
<1>2. Touched' = Touched /\ OthersTouched' = OthersTouched
  BY DEF Touched, OthersTouched
<1>3. ASSUME NEW w \in All, Deadline(w)' # Never, w \notin unarmed'
      PROVE  \/ slot # Never /\ slot <= Guard /\ ~(w < pass.wakeup)
             \/ Deadline(w) # Never /\ ~(Deadline(w)' < Deadline(w))
  <2>1. w \notin W!Overtaken
    BY <1>3
  <2>2. Deadline(w)' = W!Deadline(w)' /\ Deadline(w) = W!Deadline(w) /\ w \in W!All
    BY SameTerms
  <2>3. ~W!Hastened(w) \/ ~(slot = Never \/ slot > Guard \/ w < pass.wakeup)
    BY <2>1, <2>2 DEF W!Overtaken
  <2>4. slot \in {Never} \cup Time
    BY DEF AlarmInv, WellTyped
  <2>5. CASE ~W!Hastened(w)
    BY <1>3, <2>2, <2>5 DEF W!Hastened
  <2>6. CASE ~(slot = Never \/ slot > Guard \/ w < pass.wakeup)
    BY <2>4, <2>6, Bounds DEF Time
  <2>7. QED
    BY <2>3, <2>5, <2>6
<1>4. Armed'
  <2>1. SUFFICES ASSUME NEW w \in All, Owed(w)' PROVE Guarded(w)'
    BY NextArmedSays
  <2>2. Deadline(w)' # Never /\ w \notin unarmed' /\ w \notin unarmed /\ w \notin Touched
    BY <1>2, <2>1 DEF Owed
  <2>3. Deadline(w)' \in Time /\ (slot = Never \/ slot \in Time)
    BY <2>2, NextDeadlines DEF AlarmInv, WellTyped
  <2>4. CASE slot # Never /\ slot <= Guard
    <3>1. slot <= Later(Guard, Deadline(w)')
      BY <2>3, <2>4, Bounds DEF Later, Time
    <3>2. QED
      BY <2>4, <3>1 DEF Guarded, Later
  <2>5. CASE Deadline(w) # Never /\ ~(Deadline(w)' < Deadline(w))
    <3>1. Guarded(w) /\ turn.at # "fired"
      BY <2>2, <2>5, ArmedSays DEF AlarmInv, Owed
    <3>2. pass.at # "cleared" => slot # Never /\ slot <= Later(Guard, Deadline(w))
      BY <1>1, <3>1 DEF Guarded
    <3>3. Deadline(w) \in Time
      BY <2>5, Deadlines DEF AlarmInv
    <3>4. ASSUME NEW s \in Time, NEW d \in Time, NEW e \in Time, ~(e < d), s <= Later(Guard, d)
          PROVE  s <= Later(Guard, e)
      BY <3>4, Bounds DEF Later, Time
    <3>5. pass.at # "cleared" => slot # Never /\ slot <= Later(Guard, Deadline(w)')
      BY <2>3, <2>5, <3>2, <3>3, <3>4
    <3>6. QED
      BY <3>5 DEF Guarded, Later
  <2>6. QED
    BY <1>3, <2>2, <2>4, <2>5
<1>5. Ahead'
  <2>1. SUFFICES ASSUME Reconciling, NEW w \in All, w < pass.wakeup, Deadline(w)' # Never,
                        w \notin OthersTouched, pass.who \in Requests => w \notin unarmed'
                 PROVE  pass.target # Never /\ pass.target <= Deadline(w)'
    BY <1>2 DEF Ahead, Reconciling
  <2>2. pass.who \in Requests
    BY <1>1, <2>1 DEF AlarmInv, Roles, WellTyped, PassOK, Pass, Reconciling
  <2>3. Deadline(w) # Never /\ ~(Deadline(w)' < Deadline(w)) /\ w \notin unarmed
    BY <1>3, <2>1, <2>2
  <2>4. pass.target # Never /\ pass.target <= Deadline(w)
    BY <2>1, <2>3, AheadSays
  <2>5. Deadline(w) \in Time /\ Deadline(w)' \in Time /\ pass.target \in Time
    BY <2>1, <2>3, <2>4, Deadlines, NextDeadlines DEF AlarmInv, WellTyped, PassOK, Pass
  <2>6. QED
    BY <2>3, <2>4, <2>5 DEF Time
<1>6. Timely' /\ Asked'
  BY DEF Timely, Asked, Resting
<1>7. QED
  BY <1>4, <1>5, <1>6 DEF Scheduled

\* Deadlines that do not come sooner leave the alarm and the object at rest
\* as they are.
LEMMA Postpones ==
  ASSUME AlarmInv, WellTyped', UNCHANGED <<due, slot, object, turn, requests, touched, unarmed>>,
         pass'.at = pass.at,
         \A w \in All : Deadline(w)' # Never
           => Deadline(w) # Never /\ ~(Deadline(w)' < Deadline(w))
  PROVE  /\ \A w \in All : Owed(w)' => Owed(w)
         /\ Armed'
         /\ Timely'
<1>1. Touched' = Touched
  BY DEF Touched
<1>2. \A w \in All : Owed(w)' => Owed(w)
  BY <1>1 DEF Owed
<1>3. Armed'
  <2>1. SUFFICES ASSUME NEW w \in All, Owed(w)' PROVE Guarded(w)'
    BY NextArmedSays
  <2>2. Owed(w) /\ Guarded(w) /\ Deadline(w) # Never /\ Deadline(w)' # Never
    BY <1>2, <2>1, ArmedSays DEF AlarmInv, Owed
  <2>3. CASE turn.at = "fired" \/ pass.at = "cleared"
    BY <2>3 DEF Guarded
  <2>4. CASE slot # Never /\ slot <= Later(Guard, Deadline(w))
    <3>1. /\ slot \in Time /\ Deadline(w) \in Time /\ Deadline(w)' \in Time
          /\ ~(Deadline(w)' < Deadline(w))
      BY <2>2, <2>4, Deadlines, NextDeadlines DEF AlarmInv, WellTyped
    <3>2. ASSUME NEW s \in Time, NEW d \in Time, NEW e \in Time, ~(e < d), s <= Later(Guard, d)
          PROVE  s <= Later(Guard, e)
      BY <3>2, Bounds DEF Later, Time
    <3>3. slot <= Later(Guard, Deadline(w)')
      BY <2>4, <3>1, <3>2
    <3>4. QED
      BY <2>4, <3>3 DEF Guarded, Later
  <2>5. CASE /\ slot # Never /\ object # "up"
             /\ \E n \in DOMAIN Retry[w] : slot <= Later(due[w], Retry[w][n])
    BY <2>5 DEF Guarded, Later
  <2>6. QED
    BY <2>2, <2>3, <2>4, <2>5 DEF Guarded
<1>4. Timely'
  <2>1. SUFFICES ASSUME Resting, pass.at # "cleared", NEW w \in All, Deadline(w)' # Never,
                        w \notin Touched
                 PROVE  slot # Never /\ slot <= Later(Deadline(w)', 1)
    BY <1>1 DEF AlarmInv, Timely, Resting, Later
  <2>2. Deadline(w) # Never /\ slot # Never /\ slot <= Later(Deadline(w), 1)
    BY <2>1 DEF AlarmInv, Timely
  <2>3. /\ slot \in Time /\ Deadline(w) \in Time /\ Deadline(w)' \in Time
        /\ ~(Deadline(w)' < Deadline(w))
    BY <2>1, <2>2, Deadlines, NextDeadlines DEF AlarmInv, WellTyped
  <2>4. QED
    BY <2>2, <2>3 DEF Later, Time
<1>5. QED
  BY <1>2, <1>3, <1>4

\* With the same deadlines and another target or place, what is left to show
\* is that the target is ahead of them and asked for.
LEMMA SameAlarm ==
  ASSUME AlarmInv, WellTyped',
         UNCHANGED <<due, floor, exhausted, slot, object, requests, touched, unarmed>>,
         turn.at # "fired", turn'.at # "idle" \/ turn' = turn,
         pass.at # "cleared", pass'.at # "cleared"
  PROVE  Armed' /\ Timely'
<1>1. \A w : Deadline(w)' = Deadline(w)
  BY SameDeadlines
<1>2. Touched' = Touched
  BY DEF Touched
<1>3. Armed'
  <2>1. SUFFICES ASSUME NEW w \in All, Owed(w)' PROVE Guarded(w)'
    BY NextArmedSays
  <2>2. Guarded(w)
    BY <1>1, <1>2, <2>1, ArmedSays DEF AlarmInv, Owed
  <2>3. QED
    BY <1>1, <2>2 DEF Guarded, Later
<1>4. Timely'
  BY <1>1, <1>2 DEF AlarmInv, Timely, Resting, Later
<1>5. QED
  BY <1>3, <1>4

\* A reconciliation that begins has read nothing yet.
LEMMA Begins ==
  ASSUME pass'.at # "free", pass'.wakeup = 1
  PROVE  Ahead'
BY Bounds DEF Ahead, All

LEMMA ReadsKeep ==
  ASSUME AlarmInv, WellTyped', W!ReadDue
  PROVE  Scheduled'
<1> DEFINE w == pass.wakeup
<1>1. /\ w \in All /\ pass.at = "read" /\ Reconciling
      /\ UNCHANGED <<due, slot, object, floor, exhausted, turn, requests, touched,
                     unarmed, faults>>
      /\ pass' = [pass EXCEPT !.wakeup = w + 1, !.target = Sooner(pass.target, Deadline(w))]
  <2>1. pass.at = "read" /\ pass.wakeup <= Count
    BY DEF W!ReadDue
  <2>2. w \in All
    BY <2>1, Bounds DEF AlarmInv, WellTyped, PassOK, Pass, All
  <2>3. pass' = [pass EXCEPT !.wakeup = w + 1, !.target = Sooner(pass.target, Deadline(w))]
    BY SameTerms DEF W!ReadDue
  <2>4. QED
    BY <2>1, <2>2, <2>3 DEF W!ReadDue, W!backoff, Reconciling
<1>2. /\ pass'.at = pass.at /\ pass'.who = pass.who /\ pass'.wakeup = w + 1
      /\ pass'.target = Sooner(pass.target, Deadline(w))
  BY <1>1 DEF AlarmInv, WellTyped, PassOK, Pass
<1>3. \A v : Deadline(v)' = Deadline(v)
  BY <1>1, SameDeadlines
<1>4. pass.target \in {Never} \cup Time /\ Deadline(w) \in {Never} \cup Time
  BY <1>1, DeadlineTime DEF AlarmInv, WellTyped, PassOK, Pass
<1>5. OthersTouched' = OthersTouched
  BY <1>1, <1>2 DEF OthersTouched
<1>6. Armed' /\ Timely'
  <2>1. \A v \in All : Deadline(v)' # Never
           => Deadline(v) # Never /\ ~(Deadline(v)' < Deadline(v))
    <3> SUFFICES ASSUME NEW v \in All, Deadline(v)' # Never
                 PROVE  Deadline(v) # Never /\ ~(Deadline(v)' < Deadline(v))
      OBVIOUS
    <3>1. Deadline(v) # Never /\ Deadline(v)' = Deadline(v)
      BY <1>3
    <3>2. Deadline(v) \in Time
      BY <3>1, Deadlines DEF AlarmInv
    <3>3. QED
      BY <3>1, <3>2 DEF Time
  <2>2. QED
    BY <1>1, <1>2, <2>1, Postpones
<1>7. Ahead'
  <2>1. SUFFICES ASSUME NEW v \in All, v < w + 1, Deadline(v) # Never, v \notin OthersTouched,
                        pass.who \in Requests => v \notin unarmed
                 PROVE  /\ Sooner(pass.target, Deadline(w)) # Never
                        /\ Sooner(pass.target, Deadline(w)) <= Deadline(v)
    BY <1>1, <1>2, <1>3, <1>5 DEF Ahead, Reconciling
  <2>2. CASE v = w
    BY <1>4, <2>1, <2>2, SoonerLeast
  <2>3. CASE v # w
    <3>1. v < pass.wakeup
      BY <1>1, <2>1, <2>3, Bounds DEF All
    <3>2. pass.target # Never /\ pass.target <= Deadline(v)
      BY <1>1, <2>1, <3>1, AheadSays
    <3>3. /\ Sooner(pass.target, Deadline(w)) # Never
          /\ Sooner(pass.target, Deadline(w)) <= pass.target
      BY <1>4, <3>2, SoonerLeast
    <3>4. pass.target \in Time /\ Deadline(v) \in Time
      BY <1>4, <2>1, <3>2, Deadlines DEF AlarmInv
    <3>5. Sooner(pass.target, Deadline(w)) \in Time
      BY <1>4, <3>3, SoonerTime
    <3>6. QED
      BY <3>2, <3>3, <3>4, <3>5 DEF Time
  <2>4. QED
    BY <2>2, <2>3
<1>8. Asked'
  <2>1. Wanted => Wanted'
    BY <1>3 DEF Wanted
  <2>2. pass'.target # Never => pass.target # Never \/ Wanted
    BY <1>1, <1>2, <1>4, SoonerLeast DEF Wanted
  <2>3. QED
    BY <1>1, <1>2, <2>1, <2>2 DEF AlarmInv, Asked, Resting, Reconciling
<1>9. QED
  BY <1>6, <1>7, <1>8 DEF Scheduled

\* A read that fails puts the deadline off until after the clock it has read.
LEMMA FailedReadsKeep ==
  ASSUME AlarmInv, WellTyped', W!ReadFails
  PROVE  Scheduled'
<1> DEFINE w == pass.wakeup
<1>1. /\ w \in All /\ pass.at = "read" /\ Reconciling /\ pass.now \in -Late..0
      /\ UNCHANGED <<due, slot, object, turn, requests, touched, unarmed>>
      /\ pass' = [pass EXCEPT !.wakeup = w + 1,
                    !.target = IF w \in exhausted' THEN @ ELSE Sooner(@, floor'[w])]
      /\ IF floor[w] <= pass.now THEN W!BackOff(w, pass.now) ELSE UNCHANGED W!backoff
  <2>1. pass.at = "read" /\ pass.wakeup <= Count
    BY DEF W!ReadFails
  <2>2. w \in All /\ pass.now \in -Late..0
    BY <2>1, Bounds DEF AlarmInv, WellTyped, PassOK, Pass, All
  <2>3. pass' = [pass EXCEPT !.wakeup = w + 1,
                   !.target = IF w \in exhausted' THEN @ ELSE Sooner(@, floor'[w])]
    BY SameTerms DEF W!ReadFails
  <2>4. QED
    BY <2>1, <2>2, <2>3 DEF W!ReadFails, Reconciling
<1>2. /\ pass'.at = pass.at /\ pass'.who = pass.who /\ pass'.wakeup = w + 1
      /\ pass'.target = IF w \in exhausted' THEN pass.target ELSE Sooner(pass.target, floor'[w])
  BY <1>1 DEF AlarmInv, WellTyped, PassOK, Pass
<1>3. faults' # MaxFaults
  BY AlarmAssumption DEF W!ReadFails, AlarmInv, WellTyped
<1>4. /\ \A v \in All \ {w} : floor'[v] = floor[v]
      /\ exhausted \subseteq exhausted' /\ exhausted' \subseteq exhausted \cup {w}
      /\ w \in exhausted' \/ ~(floor'[w] < floor[w])
  <2>1. floor[w] \in Time /\ floor'[w] \in Time
    BY <1>1, Deadlines, NextDeadlines DEF AlarmInv
  <2>2. CASE floor[w] <= pass.now
    <3>1. /\ \A v \in All \ {w} : floor'[v] = floor[v]
          /\ exhausted \subseteq exhausted' /\ exhausted' \subseteq exhausted \cup {w}
          /\ w \in exhausted' \/ floor'[w] > pass.now
      BY <1>1, <2>2, BackOffOK DEF AlarmInv
    <3>2. QED
      BY <1>1, <2>1, <2>2, <3>1 DEF Time
  <2>3. CASE ~(floor[w] <= pass.now)
    BY <1>1, <2>1, <2>3 DEF W!backoff, Time
  <2>4. QED
    BY <2>2, <2>3
<1>5. \A v \in All : Deadline(v)' # Never
         => Deadline(v) # Never /\ ~(Deadline(v)' < Deadline(v))
  <2> SUFFICES ASSUME NEW v \in All, Deadline(v)' # Never
               PROVE  Deadline(v) # Never /\ ~(Deadline(v)' < Deadline(v))
    OBVIOUS
  <2>1. v \notin exhausted' /\ due'[v] # Never /\ Deadline(v)' = Later(due'[v], floor'[v])
    BY NextDeadlines
  <2>2. Deadline(v) # Never /\ Deadline(v) = Later(due[v], floor[v])
    BY <1>1, <1>4, <2>1, Deadlines DEF AlarmInv
  <2>3. ~(floor'[v] < floor[v])
    <3>1. floor[v] \in Time
      BY Deadlines DEF AlarmInv
    <3>2. QED
      BY <1>4, <2>1, <3>1 DEF Time
  <2>4. due[v] \in Time /\ due'[v] = due[v] /\ floor[v] \in Time /\ floor'[v] \in Time
    BY <1>1, <2>1, Deadlines, NextDeadlines DEF AlarmInv
  <2>5. QED
    BY <2>1, <2>2, <2>3, <2>4 DEF Later, Time
<1>6. Armed' /\ Timely'
  BY <1>1, <1>2, <1>5, Postpones
<1>7. OthersTouched' = OthersTouched
  BY <1>1, <1>2 DEF OthersTouched
<1>8. pass.target \in {Never} \cup Time /\ pass'.target \in {Never} \cup Time
  BY DEF AlarmInv, WellTyped, PassOK, Pass
<1>9. floor'[w] \in Time /\ floor'[w] # Never
  <2>1. floor'[w] \in Time
    BY <1>1, NextDeadlines
  <2>2. QED
    BY <2>1, NeverIsNoTime DEF Time
<1>10. Ahead'
  <2>1. SUFFICES ASSUME NEW v \in All, v < w + 1, Deadline(v)' # Never, v \notin OthersTouched,
                        pass.who \in Requests => v \notin unarmed
                 PROVE  pass'.target # Never /\ pass'.target <= Deadline(v)'
    BY <1>1, <1>2, <1>7 DEF Ahead, Reconciling
  <2>2. Deadline(v)' \in Time /\ Deadline(v)' = Later(due'[v], floor'[v]) /\ v \notin exhausted'
        /\ due'[v] \in Time /\ floor'[v] \in Time
    BY <2>1, NextDeadlines
  <2>3. CASE v = w
    <3>1. pass'.target = Sooner(pass.target, floor'[w])
      BY <1>2, <2>2, <2>3
    <3>2. pass'.target # Never /\ pass'.target <= floor'[w]
      BY <1>8, <1>9, <3>1, SoonerLeast
    <3>3. QED
      BY <1>8, <1>9, <2>2, <2>3, <3>2 DEF Later, Time
  <2>4. CASE v # w
    <3>1. v < pass.wakeup
      BY <1>1, <2>1, <2>4, Bounds DEF All
    <3>2. Deadline(v) # Never /\ ~(Deadline(v)' < Deadline(v))
      BY <1>5, <2>1
    <3>3. pass.target # Never /\ pass.target <= Deadline(v)
      BY <1>1, <2>1, <3>1, <3>2, AheadSays
    <3>4. pass'.target # Never /\ pass'.target <= pass.target
      <4>1. pass.target \in Time
        BY <1>8, <3>3
      <4>2. pass.target <= pass.target
        BY <4>1 DEF Time
      <4>3. QED
        BY <1>2, <1>8, <1>9, <3>3, <4>2, SoonerLeast
    <3>5. pass.target \in Time /\ pass'.target \in Time /\ Deadline(v) \in Time
      BY <1>8, <3>2, <3>3, <3>4, Deadlines DEF AlarmInv
    <3>6. QED
      BY <2>2, <3>2, <3>3, <3>4, <3>5 DEF Time
  <2>5. QED
    BY <2>3, <2>4
<1>11. Asked'
  BY <1>3 DEF Asked
<1>12. QED
  BY <1>6, <1>10, <1>11 DEF Scheduled

LEMMA ComparesKeep ==
  ASSUME AlarmInv, WellTyped', W!Compare \/ W!Arm
  PROVE  Scheduled'
<1>1. /\ Reconciling
      /\ UNCHANGED <<due, floor, exhausted, W!backoff, restarts, faults>>
      /\ pass.target = Never \/ pass.target \in Time
      /\ pass.now \in -Late..0 /\ slot \in {Never} \cup Time
  BY SameTerms DEF W!Compare, W!Arm, W!backoff, Reconciling, AlarmInv, WellTyped, PassOK, Pass
<1>2. CASE W!Arm
  <2>1. /\ pass.target # Never /\ pass.target \in Time /\ pass.wakeup > Count
        /\ W!Conclude /\ slot' = Later(pass.target, pass.now + 1)
    BY <1>1, <1>2, Bounds, SameTerms DEF W!Arm, AlarmInv, WellTyped, PassOK
  <2>2. slot' # Never /\ slot' <= Later(pass.target, 1)
    <3>1. slot' \in Int /\ slot' <= Later(pass.target, 1)
      BY <1>1, <2>1, Bounds DEF Later, Time
    <3>2. QED
      BY <3>1, NeverIsNoTime
  <2>3. QED
    BY <1>1, <2>1, <2>2, Concludes
<1>3. CASE W!Compare /\ pass.target = Never
  BY <1>1, <1>3, Concludes DEF W!Compare
<1>4. CASE W!Compare /\ pass.target # Never /\ W!Kept
  <2>1. /\ slot' = slot /\ W!Conclude /\ slot # Never /\ slot <= pass.target
        /\ pass.wakeup > Count /\ pass.at = "read"
    BY <1>4 DEF W!Compare, W!Kept
  <2>2. slot' <= Later(pass.target, 1)
    BY <1>1, <1>4, <2>1 DEF Later, Time
  <2>3. QED
    BY <1>1, <1>4, <2>1, <2>2, Concludes
<1>5. CASE W!Compare /\ ~(pass.target = Never \/ W!Kept)
  <2>1. /\ W!Replace /\ pass.at = "read"
        /\ UNCHANGED <<due, floor, exhausted, object, unarmed, turn, requests, touched, faults>>
    BY <1>1, <1>5 DEF W!Compare
  <2>2. /\ pass'.at \in {"arm", "cleared"} /\ pass'.who = pass.who /\ pass'.wakeup = pass.wakeup
        /\ pass'.target = pass.target
        /\ \/ slot' = Never /\ pass'.at = "cleared"
           \/ slot' = slot /\ pass'.at = "arm"
    BY <2>1 DEF W!Replace, AlarmInv, WellTyped, PassOK, Pass
  <2>3. \A v : Deadline(v)' = Deadline(v)
    BY <2>1, SameDeadlines
  <2>4. Touched' = Touched /\ OthersTouched' = OthersTouched
    BY <2>1, <2>2 DEF Touched, OthersTouched
  <2>5. Armed'
    <3>1. SUFFICES ASSUME NEW w \in All, Owed(w)' PROVE Guarded(w)'
      BY NextArmedSays
    <3>2. Guarded(w)
      BY <2>1, <2>3, <2>4, <3>1, ArmedSays DEF AlarmInv, Owed
    <3>3. QED
      BY <2>1, <2>2, <2>3, <3>2 DEF Guarded, Later
  <2>6. Ahead'
    BY <1>1, <2>1, <2>2, <2>3, <2>4 DEF AlarmInv, Ahead, Reconciling
  <2>7. Timely'
    BY <2>1, <2>2, <2>3, <2>4 DEF AlarmInv, Timely, Resting, Later
  <2>8. Asked'
    BY <1>1, <2>1, <2>2, <2>3 DEF AlarmInv, Asked, Resting, Reconciling, Wanted
  <2>9. QED
    BY <2>5, <2>6, <2>7, <2>8 DEF Scheduled
<1>6. QED
  BY <1>2, <1>3, <1>4, <1>5

LEMMA TurnsKeep ==
  ASSUME AlarmInv, WellTyped', W!Turns
  PROVE  Scheduled'
<1>1. turn.wakeup \in All => W!OnTo.at = "visit"
  BY OnToOK
<1>2. CASE W!Fire
  <2>1. /\ turn'.at = "fired"
        /\ UNCHANGED <<due, floor, exhausted, object, pass, requests, touched, unarmed>>
    BY <1>2 DEF W!Fire, W!Asleep, W!backoff
  <2>2. \A v : Deadline(v)' = Deadline(v)
    BY <2>1, SameDeadlines
  <2>3. Armed'
    BY <2>1, NextArmedSays DEF Guarded
  <2>4. Ahead'
    BY <2>1, <2>2 DEF AlarmInv, Ahead, Reconciling, OthersTouched
  <2>5. QED
    BY <2>1, <2>3, <2>4 DEF Scheduled, Timely, Resting, Asked
<1>3. CASE W!GuardTurn
  <2>1. /\ turn'.at = "visit" /\ slot' = Guard
        /\ UNCHANGED <<due, floor, exhausted, object, pass, requests, touched, unarmed>>
    BY <1>3 DEF W!GuardTurn, W!backoff, AlarmInv, WellTyped, TurnOK, Turn
  <2>2. \A v : Deadline(v)' = Deadline(v)
    BY <2>1, SameDeadlines
  <2>3. Armed'
    <3>1. SUFFICES ASSUME NEW w \in All, Owed(w)' PROVE Guarded(w)'
      BY NextArmedSays
    <3>2. Deadline(w)' \in Time
      BY <3>1, NextDeadlines DEF Owed
    <3>3. slot' # Never /\ slot' <= Later(Guard, Deadline(w)')
      BY <2>1, <3>2, Bounds, NeverIsNoTime DEF Later, Time
    <3>4. QED
      BY <3>3 DEF Guarded, Later
  <2>4. Ahead'
    BY <2>1, <2>2 DEF AlarmInv, Ahead, Reconciling, OthersTouched
  <2>5. QED
    BY <2>1, <2>3, <2>4 DEF Scheduled, Timely, Resting, Asked
<1>4. CASE W!Visit
  <2>1. turn.wakeup \in All
    BY <1>4, Bounds DEF W!Visit, AlarmInv, WellTyped, TurnOK, Turn, All
  <2>2. /\ turn.at = "visit" /\ turn'.at \in {"visit", "run"}
        /\ UNCHANGED <<due, slot, floor, exhausted, object, pass, requests, touched, unarmed>>
    BY <1>1, <1>4, <2>1 DEF W!Visit, W!backoff, AlarmInv, WellTyped, TurnOK, Turn
  <2>3. \A v : Deadline(v)' = Deadline(v)
    BY <2>2, SameDeadlines
  <2>4. Armed'
    <3>1. SUFFICES ASSUME NEW w \in All, Owed(w)' PROVE Guarded(w)'
      BY NextArmedSays
    <3>2. Guarded(w)
      BY <2>2, <2>3, <3>1, ArmedSays DEF AlarmInv, Owed, Touched
    <3>3. QED
      BY <2>2, <2>3, <3>2 DEF Guarded, Later
  <2>5. Ahead'
    BY <2>2, <2>3 DEF AlarmInv, Ahead, Reconciling, OthersTouched
  <2>6. QED
    BY <2>2, <2>4, <2>5 DEF Scheduled, Timely, Resting, Asked
<1>5. ASSUME NEW fed \in W!Fed(turn.wakeup), NEW more \in BOOLEAN,
             NEW at \in {Never, due[turn.wakeup]} \cup 1..Horizon,
             W!Run(at, more, fed)
      PROVE  Scheduled'
  <2>1. turn.at = "run" /\ turn'.at = "after"
    BY <1>5 DEF W!Run, AlarmInv, WellTyped, TurnOK, Turn
  <2>2. QED
    BY <1>5, <2>1, Reworks DEF W!Run, W!backoff
<1>6. ASSUME NEW fed \in W!Fed(turn.wakeup),
             NEW at \in {Never, due[turn.wakeup]} \cup 1..Horizon,
             W!RunFails(at, fed)
      PROVE  Scheduled'
  <2>1. turn.at = "run" /\ turn'.at = "visit"
    BY <1>1, <1>6 DEF W!RunFails, AlarmInv, WellTyped, TurnOK, Turn
  <2>2. QED
    BY <1>6, <2>1, Reworks DEF W!RunFails
<1>7. CASE W!After
  <2>1. turn.at = "after" /\ turn'.at = "visit"
    BY <1>1, <1>7 DEF W!After, AlarmInv, WellTyped, TurnOK, Turn
  <2>2. QED
    BY <1>7, <2>1, Reworks DEF W!After
<1>8. CASE W!VisitFails
  <2>1. turn.at \in {"visit", "after"} /\ turn.wakeup \in All
    BY <1>8, Bounds DEF W!VisitFails, AlarmInv, WellTyped, TurnOK, Turn, All
  <2>2. turn'.at = "visit"
    BY <1>1, <1>8, <2>1 DEF W!VisitFails
  <2>3. QED
    BY <1>8, <2>1, <2>2, Reworks DEF W!VisitFails
<1>9. CASE W!Close
  <2>1. /\ turn.at = "visit" /\ turn'.at = "close"
        /\ pass.at = "free" /\ pass'.at = "read" /\ pass'.wakeup = 1 /\ pass'.target = Never
        /\ UNCHANGED <<due, slot, floor, exhausted, object, requests, touched, unarmed>>
    BY <1>9, BeginOK DEF W!Close, W!backoff, AlarmInv, WellTyped, TurnOK, Turn
  <2>2. Armed' /\ Ahead'
    BY <2>1, SameAlarm, Begins
  <2>3. QED
    BY <2>1, <2>2 DEF Scheduled, Timely, Resting, Asked
<1>10. QED
  BY <1>2, <1>3, <1>4, <1>5, <1>6, <1>7, <1>8, <1>9, SameTerms DEF W!Turns

LEMMA RequestsKeep ==
  ASSUME AlarmInv, WellTyped', NEW r \in Requests
  PROVE  /\ \A w \in All, at \in {Never} \cup 0..Horizon : W!Handle(r, w, at) => Scheduled'
         /\ W!Return(r) => Scheduled'
<1>1. ASSUME NEW w \in All, NEW at \in {Never} \cup 0..Horizon, W!Handle(r, w, at)
      PROVE  Scheduled'
  <2>1. /\ object = "up" /\ requests[r] = "idle" /\ requests'[r] = "handler"
        /\ UNCHANGED <<slot, object, floor, exhausted, turn, pass, unarmed, faults>>
        /\ touched' = [touched EXCEPT ![r] = {w}] /\ due' = [due EXCEPT ![w] = at]
    BY <1>1 DEF W!Handle, W!backoff, AlarmInv, WellTyped
  <2>2. \A v \in All \ {w} : Deadline(v)' = Deadline(v) /\ due'[v] = due[v]
    BY <2>1 DEF Deadline, Later, AlarmInv, WellTyped
  <2>3. touched[r] = {}
    BY <2>1 DEF AlarmInv, Roles
  <2>4. Touched' = Touched \cup {w}
    BY <2>1, <2>3 DEF Touched, AlarmInv, WellTyped
  <2>5. Reconciling => r # pass.who
    BY <2>1 DEF AlarmInv, Roles
  <2>6. Reconciling => OthersTouched' = OthersTouched \cup {w}
    BY <2>1, <2>3, <2>5 DEF OthersTouched, AlarmInv, WellTyped
  <2>7. Armed'
    <3>1. SUFFICES ASSUME NEW v \in All, Owed(v)' PROVE Guarded(v)'
      BY NextArmedSays
    <3>2. v # w
      BY <2>4, <3>1 DEF Owed
    <3>3. Guarded(v)
      BY <2>1, <2>2, <2>4, <3>1, <3>2, ArmedSays DEF AlarmInv, Owed
    <3>4. QED
      BY <2>1, <2>2, <3>2, <3>3 DEF Guarded, Later
  <2>8. Ahead'
    <3>1. SUFFICES ASSUME Reconciling, NEW v \in All, v < pass.wakeup, Deadline(v)' # Never,
                          v \notin OthersTouched', pass.who \in Requests => v \notin unarmed
                   PROVE  pass.target # Never /\ pass.target <= Deadline(v)'
      BY <2>1 DEF Ahead, Reconciling
    <3>2. v # w /\ v \notin OthersTouched /\ Deadline(v)' = Deadline(v)
      BY <2>2, <2>6, <3>1
    <3>3. QED
      BY <3>1, <3>2, AheadSays
  <2>9. Timely'
    BY <2>1, <2>2, <2>4 DEF AlarmInv, Timely, Resting, Later
  <2>10. Asked'
    BY <2>1, <2>5 DEF Asked, Reconciling
  <2>11. QED
    BY <2>7, <2>8, <2>9, <2>10 DEF Scheduled
<1>2. ASSUME W!Return(r) PROVE Scheduled'
  <2>1. /\ pass.at = "free" /\ pass'.at = "read" /\ pass'.wakeup = 1 /\ pass'.target = Never
        /\ requests'[r] # "idle"
        /\ UNCHANGED <<due, slot, floor, exhausted, object, turn, touched, unarmed>>
    BY <1>2, BeginOK DEF W!Return, W!backoff, AlarmInv, WellTyped
  <2>2. Touched' = Touched /\ \A v : Deadline(v)' = Deadline(v)
    BY <2>1, SameDeadlines DEF Touched
  <2>3. Armed'
    <3>1. SUFFICES ASSUME NEW v \in All, Owed(v)' PROVE Guarded(v)'
      BY NextArmedSays
    <3>2. Guarded(v)
      BY <2>1, <2>2, <3>1, ArmedSays DEF AlarmInv, Owed
    <3>3. QED
      BY <2>1, <2>2, <3>2 DEF Guarded, Later
  <2>4. Ahead'
    BY <2>1, Begins
  <2>5. Timely'
    BY <2>1, <2>2 DEF AlarmInv, Timely, Resting, Later
  <2>6. Asked'
    BY <2>1 DEF Asked
  <2>7. QED
    BY <2>3, <2>4, <2>5, <2>6 DEF Scheduled
<1>3. QED
  BY <1>1, <1>2

\* What the object leaves when it stops has an alarm; a floor that is lost
\* was not further ahead than a delay of the schedule.
LEMMA StopsKeep ==
  ASSUME AlarmInv, WellTyped', W!Stop
  PROVE  Scheduled'
<1>1. /\ object' = "down" /\ pass'.at = "free" /\ due' = due
      /\ floor' = [w \in All |-> -Late] /\ exhausted' = {}
      /\ unarmed' = IF pass.at = "cleared" THEN All ELSE unarmed \cup exhausted \cup Touched
      /\ slot' = IF turn.at = "fired" THEN 0 ELSE slot
  BY Fresh, SameTerms DEF W!Stop
<1>2. Armed'
  <2>1. SUFFICES ASSUME NEW w \in All, Owed(w)' PROVE Guarded(w)'
    BY NextArmedSays
  <2>2. /\ w \notin unarmed \cup exhausted \cup Touched /\ pass.at # "cleared"
        /\ due[w] # Never /\ due[w] \in Time
        /\ Deadline(w)' = Later(due[w], -Late) /\ Deadline(w)' \in Time
    BY <1>1, <2>1, NextDeadlines DEF Owed
  <2>3. CASE turn.at = "fired"
    <3>1. slot' # Never /\ slot' <= Later(Guard, Deadline(w)')
      BY <1>1, <2>2, <2>3, Bounds, NeverIsNoTime DEF Later, Time
    <3>2. QED
      BY <3>1 DEF Guarded, Later
  <2>4. CASE turn.at # "fired"
    <3>1. Deadline(w) # Never /\ Deadline(w) = Later(due[w], floor[w]) /\ floor[w] \in Time
      BY <2>2, Deadlines DEF AlarmInv
    <3>2. slot' = slot /\ slot # Never /\ slot \in Time
          /\ \/ slot <= Later(Guard, Deadline(w))
             \/ \E n \in DOMAIN Retry[w] : slot <= Later(due[w], Retry[w][n])
      <4>1. Guarded(w)
        BY <2>2, <3>1, ArmedSays DEF AlarmInv, Owed
      <4>2. QED
        BY <1>1, <2>2, <2>4, <4>1 DEF Guarded, AlarmInv, WellTyped
    <3>3. \/ slot <= Later(Guard, Deadline(w)')
          \/ \E n \in DOMAIN Retry[w] : slot <= Later(due[w], Retry[w][n])
      <4>1. CASE \E n \in DOMAIN Retry[w] : slot <= Later(due[w], Retry[w][n])
        BY <4>1
      <4>2. CASE slot <= Later(Guard, Deadline(w))
        <5>1. ASSUME NEW s \in Time, NEW d \in Time, NEW f \in Time, NEW e \in Nat,
                     s <= Later(Guard, Later(d, f)), f <= e
              PROVE  s <= Guard \/ s <= d \/ s <= e
          BY <5>1, Bounds DEF Later, Time
        <5>2. floor[w] <= 0 \/ \E n \in DOMAIN Retry[w] : floor[w] <= Retry[w][n]
          BY DEF AlarmInv, WellTyped, ScheduleOK
        <5>3. CASE floor[w] <= 0
          <6>1. slot <= Guard \/ slot <= due[w] \/ slot <= 0
            BY <2>2, <3>1, <3>2, <4>2, <5>1, <5>3
          <6>2. QED
            BY <2>2, <3>2, <6>1, Bounds DEF Later, Time
        <5>4. ASSUME NEW n \in DOMAIN Retry[w], floor[w] <= Retry[w][n]
              PROVE  \/ slot <= Later(Guard, Deadline(w)')
                     \/ slot <= Later(due[w], Retry[w][n])
          <6>1. Retry[w][n] \in Nat
            BY Delays, AlarmAssumption DEF All
          <6>2. slot <= Guard \/ slot <= due[w] \/ slot <= Retry[w][n]
            BY <2>2, <3>1, <3>2, <4>2, <5>1, <5>4, <6>1
          <6>3. QED
            BY <2>2, <3>2, <6>1, <6>2, Bounds DEF Later, Time
        <5>5. QED
          BY <5>2, <5>3, <5>4
      <4>3. QED
        BY <3>2, <4>1, <4>2
    <3>4. QED
      BY <1>1, <3>2, <3>3 DEF Guarded, Later
  <2>5. QED
    BY <2>3, <2>4
<1>3. QED
  BY <1>1, <1>2 DEF Scheduled, Ahead, Timely, Asked, Resting, Reconciling

\* Time brings every time nearer alike.
LEMMA TicksKeep ==
  ASSUME AlarmInv, WellTyped', W!Tick
  PROVE  Scheduled'
<1> DEFINE E(t) == W!Earlier(t)
<1>1. \A t \in Time : E(t) \in Time /\ E(t) <= t /\ E(t) # Never
  BY Bounds, NeverIsNoTime DEF W!Earlier, Time
<1>2. \A s, t \in Time : s <= t => E(s) <= E(t)
  BY Bounds, NeverIsNoTime DEF W!Earlier, Time
<1>3. E(Never) = Never
  BY DEF W!Earlier
<1> HIDE DEF E
<1>4. \A s, t \in Time : Later(E(s), E(t)) = E(Later(s, t))
  BY <1>1, <1>2 DEF Later, Time
<1>5. /\ slot' = E(slot) /\ \A w \in All : due'[w] = E(due[w]) /\ floor'[w] = E(floor[w])
      /\ UNCHANGED <<object, exhausted, requests, touched, unarmed, faults>>
  BY SameTerms DEF W!Tick, E
<1>6. /\ turn'.at = turn.at
      /\ pass'.at = pass.at /\ pass'.who = pass.who /\ pass'.wakeup = pass.wakeup
      /\ Reconciling => pass'.target = E(pass.target)
  BY DEF W!Tick, E, AlarmInv, WellTyped, TurnOK, Turn, PassOK, Pass, Reconciling
<1>7. slot = Never \/ slot \in Time
  BY DEF AlarmInv, WellTyped
<1>8. ASSUME NEW w \in All
      PROVE  /\ Deadline(w)' # Never <=> Deadline(w) # Never
             /\ Deadline(w) # Never => Deadline(w)' = E(Deadline(w))
  <2>1. due[w] # Never <=> due'[w] # Never
    BY <1>1, <1>3, <1>5, Deadlines DEF AlarmInv
  <2>2. Deadline(w)' # Never <=> Deadline(w) # Never
    BY <1>5, <2>1, Deadlines, NextDeadlines DEF AlarmInv
  <2>3. ASSUME Deadline(w) # Never PROVE Deadline(w)' = E(Deadline(w))
    <3>1. /\ Deadline(w)' = Later(due'[w], floor'[w]) /\ Deadline(w) = Later(due[w], floor[w])
          /\ due[w] \in Time /\ floor[w] \in Time
      BY <2>2, <2>3, Deadlines, NextDeadlines DEF AlarmInv
    <3>2. QED
      BY <1>4, <1>5, <3>1
  <2>4. QED
    BY <2>2, <2>3
<1>9. Touched' = Touched /\ OthersTouched' = OthersTouched
  BY <1>5, <1>6 DEF Touched, OthersTouched
<1>10. ASSUME NEW s \in Time, NEW t \in Time, NEW e \in Nat, s <= Later(e, t)
       PROVE  E(s) <= Later(e, E(t))
  <2>1. E(s) \in Time /\ E(s) <= s /\ E(t) \in Time
    BY <1>1
  <2>2. s <= e \/ s <= t
    BY <1>10 DEF Later, Time
  <2>3. CASE s <= e
    BY <2>1, <2>3 DEF Later, Time
  <2>4. CASE s <= t
    <3>1. E(s) <= E(t)
      BY <1>2, <2>4
    <3>2. QED
      BY <2>1, <3>1 DEF Later, Time
  <2>5. QED
    BY <2>2, <2>3, <2>4
<1>11. ASSUME NEW s \in Time, NEW t \in Time, NEW e \in Nat, s <= Later(t, e)
       PROVE  E(s) <= Later(E(t), e)
  <2>1. s <= Later(e, t)
    BY <1>11 DEF Later, Time
  <2>2. E(s) <= Later(e, E(t)) /\ E(s) \in Time /\ E(t) \in Time
    BY <1>1, <1>10, <2>1
  <2>3. QED
    BY <2>2 DEF Later, Time
<1>12. Armed'
  <2>1. SUFFICES ASSUME NEW w \in All, Owed(w)' PROVE Guarded(w)'
    BY NextArmedSays
  <2>2. /\ Guarded(w) /\ Deadline(w) \in Time /\ Deadline(w)' = E(Deadline(w))
        /\ due[w] \in Time
    BY <1>5, <1>8, <1>9, <2>1, ArmedSays, Deadlines DEF AlarmInv, Owed
  <2>3. CASE turn.at = "fired" \/ pass.at = "cleared"
    BY <1>6, <2>3 DEF Guarded
  <2>4. CASE slot # Never /\ slot <= Later(Guard, Deadline(w))
    <3>1. slot' # Never /\ slot' <= Later(Guard, Deadline(w)')
      BY <1>1, <1>5, <1>7, <1>10, <2>2, <2>4, Bounds
    <3>2. QED
      BY <3>1 DEF Guarded, Later
  <2>5. ASSUME slot # Never, object # "up",
               NEW n \in DOMAIN Retry[w], slot <= Later(due[w], Retry[w][n])
        PROVE  Guarded(w)'
    <3>1. Retry[w][n] \in Nat
      BY Delays, AlarmAssumption DEF All
    <3>2. slot' # Never /\ slot' <= Later(due'[w], Retry[w][n])
      BY <1>1, <1>5, <1>7, <1>11, <2>2, <2>5, <3>1
    <3>3. QED
      BY <1>5, <2>5, <3>2 DEF Guarded, Later
  <2>6. QED
    BY <2>2, <2>3, <2>4, <2>5 DEF Guarded
<1>13. Ahead'
  <2>1. SUFFICES ASSUME Reconciling, NEW w \in All, w < pass.wakeup, Deadline(w) # Never,
                        w \notin OthersTouched, pass.who \in Requests => w \notin unarmed
                 PROVE  E(pass.target) # Never /\ E(pass.target) <= E(Deadline(w))
    BY <1>5, <1>6, <1>8, <1>9 DEF Ahead, Reconciling
  <2>2. pass.target # Never /\ pass.target <= Deadline(w)
    BY <2>1, AheadSays
  <2>3. pass.target \in Time /\ Deadline(w) \in Time
    BY <2>1, <2>2, Deadlines DEF AlarmInv, WellTyped, PassOK, Pass
  <2>4. QED
    BY <1>1, <1>2, <2>2, <2>3
<1>14. Timely'
  <2>1. SUFFICES ASSUME Resting, pass.at # "cleared", NEW w \in All, Deadline(w) # Never,
                        w \notin Touched
                 PROVE  E(slot) # Never /\ E(slot) <= Later(E(Deadline(w)), 1)
    BY <1>5, <1>6, <1>8, <1>9 DEF AlarmInv, Timely, Resting, Later
  <2>2. slot # Never /\ slot <= Later(Deadline(w), 1) /\ Deadline(w) \in Time
    BY <2>1, Deadlines DEF AlarmInv, Timely
  <2>3. QED
    BY <1>1, <1>7, <1>11, <2>2
<1>15. Asked'
  <2>1. Wanted' <=> Wanted
    BY <1>8 DEF Wanted
  <2>2. slot' # Never => slot # Never
    BY <1>3, <1>5
  <2>3. Reconciling /\ pass'.target # Never => pass.target # Never
    BY <1>3, <1>6
  <2>4. QED
    BY <1>5, <1>6, <2>1, <2>2, <2>3 DEF AlarmInv, Asked, Resting, Reconciling
<1>16. QED
  BY <1>12, <1>13, <1>14, <1>15 DEF Scheduled

LEMMA AcquiresKeep ==
  ASSUME AlarmInv, WellTyped', W!Acquire
  PROVE  Scheduled'
<1>1. /\ object = "down" /\ object' = "acquiring"
      /\ pass.at = "free" /\ pass'.at = "read" /\ pass'.wakeup = 1 /\ pass'.target = Never
      /\ UNCHANGED <<due, slot, floor, exhausted, turn, requests, touched, unarmed>>
  BY BeginOK DEF W!Acquire, W!backoff
<1>2. Touched' = Touched /\ \A v : Deadline(v)' = Deadline(v)
  BY <1>1, SameDeadlines DEF Touched
<1>3. Armed'
  <2>1. SUFFICES ASSUME NEW v \in All, Owed(v)' PROVE Guarded(v)'
    BY NextArmedSays
  <2>2. Guarded(v)
    BY <1>1, <1>2, <2>1, ArmedSays DEF AlarmInv, Owed
  <2>3. QED
    BY <1>1, <1>2, <2>2 DEF Guarded, Later
<1>4. Ahead'
  BY <1>1, Begins
<1>5. QED
  BY <1>1, <1>3, <1>4 DEF Scheduled, Timely, Asked, Resting

LEMMA StuttersKeep ==
  ASSUME AlarmInv, WellTyped', UNCHANGED W!vars
  PROVE  Scheduled'
<1>1. UNCHANGED <<due, slot, object, floor, exhausted, turn, pass, requests, touched,
                  unarmed, faults>>
  BY DEF W!vars, W!backoff
<1>2. Touched' = Touched /\ OthersTouched' = OthersTouched /\ \A v : Deadline(v)' = Deadline(v)
  BY <1>1, SameDeadlines DEF Touched, OthersTouched
<1>3. Armed'
  <2>1. SUFFICES ASSUME NEW v \in All, Owed(v)' PROVE Guarded(v)'
    BY NextArmedSays
  <2>2. Guarded(v)
    BY <1>1, <1>2, <2>1, ArmedSays DEF AlarmInv, Owed
  <2>3. QED
    BY <1>1, <1>2, <2>2 DEF Guarded, Later
<1>4. Ahead' /\ Timely' /\ Asked'
  BY <1>1, <1>2 DEF AlarmInv, Ahead, Timely, Asked, Resting, Reconciling, Wanted, Later
<1>5. QED
  BY <1>3, <1>4 DEF Scheduled

LEMMA AlarmStarts == W!Init => AlarmInv
<1>1. SUFFICES ASSUME W!Init PROVE AlarmInv
  OBVIOUS
<1>2. WellTyped
  <2>1. PassOK /\ TurnOK
    BY <1>1, Fresh DEF W!Init, PassOK, TurnOK
  <2>2. /\ steps \in [All -> Nat] /\ floor \in [All -> Time] /\ \A w \in All : ScheduleOK(w)
    BY <1>1, Bounds, AlarmAssumption, SameTerms DEF W!Init, ScheduleOK, Time, All
  <2>3. QED
    BY <1>1, <2>1, <2>2, AlarmAssumption, SameTerms DEF W!Init, WellTyped
<1>3. \A w \in All : Deadline(w) = Never
  BY <1>1, SameTerms DEF W!Init, Deadline
<1>4. pass.at = "free" /\ turn.at = "idle"
  BY <1>1, Fresh DEF W!Init
<1>5. Armed
  BY <1>2, <1>3, ArmedSays DEF Owed
<1>6. QED
  BY <1>1, <1>2, <1>4, <1>5
  DEF W!Init, AlarmInv, Roles, Ahead, Timely, Asked, Resting, Reconciling

LEMMA AlarmKeeps == AlarmInv /\ [W!Next]_(W!vars) => AlarmInv'
<1>1. SUFFICES ASSUME AlarmInv, [W!Next]_(W!vars) PROVE AlarmInv'
  OBVIOUS
<1>2. WellTyped' /\ Roles'
  BY <1>1, TypedNext, RolesNext DEF AlarmInv
<1>3. W!Reconciles => Scheduled'
  BY <1>1, <1>2, ReadsKeep, FailedReadsKeep, ComparesKeep DEF W!Reconciles
<1>4. Scheduled'
  BY <1>1, <1>2, <1>3, TurnsKeep, RequestsKeep, StopsKeep, TicksKeep, AcquiresKeep,
     StuttersKeep, SameTerms DEF W!Next
<1>5. QED
  BY <1>2, <1>4 DEF AlarmInv, Scheduled

\* At rest no request has anything left to reconcile.
LEMMA AlarmHolds == AlarmInv => AlarmIsSet
<1>1. SUFFICES ASSUME AlarmInv PROVE RestIsTimely
  BY DEF AlarmInv, AlarmIsSet
<1>2. SUFFICES ASSUME object = "up", turn.at = "idle", pass.at = "free",
                      \A r \in Requests : requests[r] = "idle"
               PROVE  /\ {Deadline(w) : w \in All} \ {Never} = {} /\ faults = MaxFaults
                           => slot = Never
                      /\ \A t \in {Deadline(w) : w \in All} \ {Never} :
                           slot # Never /\ slot <= Later(t, 1)
  BY DEF RestIsTimely
<1>3. Touched = {}
  BY <1>1, <1>2 DEF Touched, AlarmInv, Roles
<1>4. faults = MaxFaults /\ slot # Never => \E w \in All : Deadline(w) # Never
  BY <1>1, <1>2 DEF AlarmInv, Asked, Resting, Wanted
<1>5. \A w \in All : Deadline(w) # Never => slot # Never /\ slot <= Later(Deadline(w), 1)
  BY <1>1, <1>2, <1>3 DEF AlarmInv, Timely, Resting
<1>6. QED
  BY <1>4, <1>5

(***************************************************************************)
(* Whatever requests, turns, failed reads and stops of the object do, the  *)
(* one slot holds an alarm for the work it has committed, and an object at *)
(* rest has it for the earliest (wakeup.ts:236).                           *)
(***************************************************************************)
THEOREM AlarmIsAlwaysSet == W!Spec => []AlarmIsSet
<1>1. W!Init => AlarmInv
  BY AlarmStarts
<1>2. AlarmInv /\ [W!Next]_(W!vars) => AlarmInv'
  BY AlarmKeeps
<1>3. AlarmInv => AlarmIsSet
  BY AlarmHolds
<1>4. QED
  BY <1>1, <1>2, <1>3, PTL DEF W!Spec
=============================================================================
