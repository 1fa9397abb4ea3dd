---------------------------- MODULE OutboxProofs ----------------------------
(***************************************************************************)
(* Theorems about Outbox: its types, and that the table tells the truth    *)
(* about what was sent, for any keys, drains, hosts and bounds.            *)
(***************************************************************************)
EXTENDS Outbox, SequenceTheorems, TLAPS

(***************************************************************************)
(* What a pass has read: committed rows of its scope, each once, with      *)
(* attempts left, and it is at one of them while it delivers.              *)
(***************************************************************************)
Reads ==
    \A d \in Drains :
        /\ Len(drains[d].batch) <= Limit
        /\ drains[d].next <= Len(drains[d].batch) + 1
        /\ drains[d].at \in {"deliver", "settle"} => drains[d].next <= Len(drains[d].batch)
        /\ \A n \in 1..Len(drains[d].batch) :
              LET copy == drains[d].batch[n]
              IN  /\ copy.id \in Ids
                  /\ copy.attempts < MaxAttempts
                  /\ entries[copy.id].state \notin {"open", "aborted"}
                  /\ PartitionOf[entries[copy.id].key] \in scope[d]
        /\ \A m, n \in 1..Len(drains[d].batch) :
              m < n => drains[d].batch[m].id # drains[d].batch[n].id

\* A pass that is about to store a success has had one.
Told ==
    \A d \in Drains :
        drains[d].at = "settle" /\ drains[d].outcome = "delivered" => Entry(d).id \in reached

\* The permit: one pass at a time on each store object.
Alone ==
    \A d, e \in Drains :
        /\ drains[d].at # "idle" /\ drains[e].at # "idle"
        /\ store[d] = store[e]
        => d = e

\* Only pending rows wait, and drafts have not been tried.
Rest ==
    \A i \in Ids : /\ entries[i].state # "pending" => entries[i].wait = 0
                   /\ entries[i].state = "open" => entries[i].attempts = 0

\* The rows a pass has yet to handle are as it read them.
Fresh ==
    Owned =>
        \A d \in Drains : drains[d].at # "idle" =>
            \A n \in drains[d].next..Len(drains[d].batch) :
                LET copy == drains[d].batch[n]
                IN  /\ entries[copy.id].state = "pending"
                    /\ entries[copy.id].attempts = copy.attempts

\* The rows an ordered pass has handled are settled.
Behind ==
    ordered /\ Owned =>
        \A d \in Drains : drains[d].at # "idle" =>
            \A n \in 1..(drains[d].next - 1) :
                entries[drains[d].batch[n].id].state \in {"delivered", "dead"}

Inv == /\ TypeOK /\ Reads /\ Told /\ Alone /\ Rest /\ Fresh /\ Behind
       /\ DeliveredReached /\ AttemptsCountOutcomes
-----------------------------------------------------------------------------
(***************************************************************************)
(* Steps that leave the rows that are there alone, but for the time they   *)
(* wait and the end of their transactions: enqueues, ends, and time.       *)
(***************************************************************************)
Spared ==
    /\ Len(entries) <= Len(entries')
    /\ \A i \in Ids :
          /\ entries'[i].key = entries[i].key
          /\ entries'[i].attempts = entries[i].attempts
          /\ entries'[i].state # "delivered" \/ entries[i].state = "delivered"
          /\ entries[i].state # "open" => entries'[i].state = entries[i].state
          /\ outcomes'[i] = outcomes[i]
    /\ \A i \in Len(entries) + 1..Len(entries') :
          entries'[i].state = "open" /\ entries'[i].attempts = outcomes'[i]
    /\ UNCHANGED <<host, reached>>
    /\ \A d \in Drains :
          /\ drains'[d].at = drains[d].at
          /\ drains'[d].next = drains[d].next
          /\ drains'[d].outcome = drains[d].outcome
          /\ Len(drains'[d].batch) = Len(drains[d].batch)
          /\ \A n \in 1..Len(drains[d].batch) :
                /\ drains'[d].batch[n].id = drains[d].batch[n].id
                /\ drains'[d].batch[n].attempts = drains[d].batch[n].attempts

LEMMA SparedKeeps ==
    ASSUME Inv, Spared
    PROVE  Reads' /\ Told' /\ Alone' /\ Fresh' /\ Behind'
           /\ DeliveredReached' /\ AttemptsCountOutcomes'
<1>1. /\ Len(entries) \in Nat /\ Len(entries') \in Int
      /\ \A d \in Drains : /\ drains[d] \in Drain
                           /\ Len(drains[d].batch) \in Nat
                           /\ drains[d].next \in Nat \ {0}
  BY LenProperties DEF Inv, TypeOK, Drain
<1>2. Ids \subseteq Ids'
  BY <1>1 DEF Spared, Ids
<1>3. Owned' <=> Owned
  BY DEF Spared, Owned, host
<1>4. Reads'
  <2>1. ASSUME NEW d \in Drains
        PROVE  /\ Len(drains'[d].batch) <= Limit
               /\ drains'[d].next <= Len(drains'[d].batch) + 1
               /\ drains'[d].at \in {"deliver", "settle"} =>
                    drains'[d].next <= Len(drains'[d].batch)
               /\ \A m, n \in 1..Len(drains'[d].batch) :
                    m < n => drains'[d].batch[m].id # drains'[d].batch[n].id
    <3>1. /\ Len(drains[d].batch) <= Limit
          /\ drains[d].next <= Len(drains[d].batch) + 1
          /\ drains[d].at \in {"deliver", "settle"} => drains[d].next <= Len(drains[d].batch)
          /\ \A m, n \in 1..Len(drains[d].batch) :
                m < n => drains[d].batch[m].id # drains[d].batch[n].id
      BY DEF Inv, Reads
    <3>2. /\ drains'[d].at = drains[d].at /\ drains'[d].next = drains[d].next
          /\ Len(drains'[d].batch) = Len(drains[d].batch)
          /\ \A n \in 1..Len(drains[d].batch) :
                drains'[d].batch[n].id = drains[d].batch[n].id
      BY DEF Spared
    <3> QED
      BY <3>1, <3>2
  <2>2. ASSUME NEW d \in Drains, NEW n \in 1..Len(drains'[d].batch)
        PROVE  LET copy == drains'[d].batch[n]
               IN  /\ copy.id \in Ids'
                   /\ copy.attempts < MaxAttempts
                   /\ entries'[copy.id].state \notin {"open", "aborted"}
                   /\ PartitionOf[entries'[copy.id].key] \in scope'[d]
    <3> DEFINE copy == drains[d].batch[n]
    <3>1. /\ copy.id \in Ids /\ copy.attempts < MaxAttempts
          /\ entries[copy.id].state \notin {"open", "aborted"}
          /\ PartitionOf[entries[copy.id].key] \in scope[d]
      BY <2>2 DEF Inv, Reads, Spared
    <3>2. drains'[d].batch[n].id = copy.id /\ drains'[d].batch[n].attempts = copy.attempts
      BY <2>2 DEF Spared
    <3>3. /\ entries'[copy.id].state = entries[copy.id].state
          /\ entries'[copy.id].key = entries[copy.id].key
      BY <3>1 DEF Spared
    <3>4. scope' = scope
      BY DEF Spared, host
    <3> HIDE DEF copy
    <3> QED
      BY <1>2, <3>1, <3>2, <3>3, <3>4
  <2> QED
    BY <2>1, <2>2 DEF Reads
<1>5. Told'
  <2>1. ASSUME NEW d \in Drains, drains'[d].at = "settle", drains'[d].outcome = "delivered"
        PROVE  drains'[d].batch[drains'[d].next].id \in reached'
    <3>1. drains[d].next \in 1..Len(drains[d].batch)
      BY <1>1, <2>1 DEF Inv, Reads, Spared
    <3>2. drains[d].batch[drains[d].next].id \in reached
      BY <2>1 DEF Inv, Told, Spared, Entry
    <3> QED
      BY <3>1, <3>2 DEF Spared
  <2> QED
    BY <2>1 DEF Told, Entry
<1>6. Alone'
  BY DEF Inv, Alone, Spared, host
<1>7. Fresh'
  <2>1. ASSUME Owned, NEW d \in Drains, drains'[d].at # "idle",
               NEW n \in drains'[d].next..Len(drains'[d].batch)
        PROVE  LET copy == drains'[d].batch[n]
               IN  /\ entries'[copy.id].state = "pending"
                   /\ entries'[copy.id].attempts = copy.attempts
    <3> DEFINE copy == drains[d].batch[n]
    <3>1. n \in drains[d].next..Len(drains[d].batch) /\ n \in 1..Len(drains[d].batch)
      BY <1>1, <2>1 DEF Spared
    <3>2. /\ copy.id \in Ids /\ entries[copy.id].state = "pending"
          /\ entries[copy.id].attempts = copy.attempts
      BY <2>1, <3>1 DEF Inv, Fresh, Reads, Spared
    <3>3. drains'[d].batch[n].id = copy.id /\ drains'[d].batch[n].attempts = copy.attempts
      BY <3>1 DEF Spared
    <3> HIDE DEF copy
    <3>4. /\ entries'[copy.id].state = "pending"
          /\ entries'[copy.id].attempts = copy.attempts
      BY <3>2 DEF Spared
    <3> QED
      BY <3>3, <3>4
  <2> QED
    BY <1>3, <2>1 DEF Fresh
<1>8. Behind'
  <2>1. ASSUME ordered, Owned, NEW d \in Drains, drains'[d].at # "idle",
               NEW n \in 1..drains'[d].next - 1
        PROVE  entries'[drains'[d].batch[n].id].state \in {"delivered", "dead"}
    <3> DEFINE copy == drains[d].batch[n]
    <3>1. n \in 1..drains[d].next - 1 /\ n \in 1..Len(drains[d].batch)
      BY <1>1, <2>1 DEF Inv, Reads, Spared
    <3>2. copy.id \in Ids /\ entries[copy.id].state \in {"delivered", "dead"}
      BY <2>1, <3>1 DEF Inv, Behind, Reads, Spared
    <3>3. drains'[d].batch[n].id = copy.id
      BY <3>1 DEF Spared
    <3> HIDE DEF copy
    <3> QED
      BY <3>2, <3>3 DEF Spared
  <2>2. ordered' = ordered
    BY DEF Spared, host
  <2> QED
    BY <1>3, <2>1, <2>2 DEF Behind
<1>9. DeliveredReached'
  BY <1>1 DEF Inv, DeliveredReached, Spared, Ids
<1>10. AttemptsCountOutcomes'
  BY <1>1, <1>3 DEF Inv, AttemptsCountOutcomes, Spared, Ids
<1> QED
  BY <1>4, <1>5, <1>6, <1>7, <1>8, <1>9, <1>10

\* What a changed state or a shorter wait leaves of a row or of a copy of it.
LEMMA ChangedRow ==
    ASSUME NEW row \in Row, NEW state \in {"pending", "aborted"}
    PROVE  LET new == [row EXCEPT !.state = state]
           IN  /\ new \in Row /\ new.key = row.key /\ new.attempts = row.attempts
               /\ new.wait = row.wait /\ new.state = state
  BY DEF Row

LEMMA SoonerRow ==
    ASSUME NEW row \in Row
    PROVE  LET new == [row EXCEPT !.wait = Sooner(@)]
           IN  /\ new \in Row /\ new.key = row.key /\ new.attempts = row.attempts
               /\ new.state = row.state
               /\ row.wait = 0 => new = row
  BY DEF Row, Sooner

LEMMA SoonerCopy ==
    ASSUME NEW copy \in Copy
    PROVE  LET new == [copy EXCEPT !.wait = Sooner(@)]
           IN  new \in Copy /\ new.id = copy.id /\ new.attempts = copy.attempts
  BY DEF Copy, Sooner

LEMMA EnqueueKeeps ==
    ASSUME Inv, NEW p \in Producers, NEW batch \in Batches, Enqueue(p, batch)
    PROVE  Inv'
<1>1. PICK fresh \in UNION {[1..n -> Keys] : n \in 1..(MaxEntries - Len(entries))} :
          /\ entries' = entries \o [m \in 1..Len(fresh) |-> Draft(fresh[m], p)]
          /\ outcomes' = outcomes \o [m \in 1..Len(fresh) |-> 0]
  BY DEF Enqueue
<1> DEFINE n == Len(fresh)
<1> DEFINE drafts == [m \in 1..n |-> Draft(fresh[m], p)]
           zeros == [m \in 1..n |-> 0]
<1>2. n \in Nat /\ \A m \in 1..n : fresh[m] \in Keys
  OBVIOUS
<1>3. entries' = entries \o drafts /\ outcomes' = outcomes \o zeros
  BY <1>1
<1>4. /\ drafts \in Seq(Row) /\ Len(drafts) = n
      /\ zeros \in Seq(0..(MaxAttempts + 1)) /\ Len(zeros) = n
  BY <1>2, OutboxAssumption DEF Draft, Row
<1>5. \A m \in 1..n : /\ drafts[m].state = "open" /\ drafts[m].attempts = 0
                      /\ drafts[m].wait = 0 /\ zeros[m] = 0
  BY DEF Draft
<1> HIDE DEF n, drafts, zeros
<1>6. entries \in Seq(Row) /\ outcomes \in Seq(0..(MaxAttempts + 1)) /\ Len(outcomes) = Len(entries)
  BY DEF Inv, TypeOK
<1>7. /\ entries' \in Seq(Row) /\ Len(entries') = Len(entries) + n
      /\ \A i \in 1..Len(entries) + n :
            entries'[i] = IF i <= Len(entries) THEN entries[i] ELSE drafts[i - Len(entries)]
  <2>1. /\ entries \o drafts \in Seq(Row)
        /\ Len(entries \o drafts) = Len(entries) + Len(drafts)
        /\ \A i \in 1..Len(entries) + Len(drafts) :
              (entries \o drafts)[i] = IF i <= Len(entries) THEN entries[i]
                                       ELSE drafts[i - Len(entries)]
    BY <1>4, <1>6, ConcatProperties, Zenon
  <2> QED
    BY <1>3, <1>4, <2>1, Zenon
<1>8. /\ outcomes' \in Seq(0..(MaxAttempts + 1)) /\ Len(outcomes') = Len(entries) + n
      /\ \A i \in 1..Len(entries) + n :
            outcomes'[i] = IF i <= Len(entries) THEN outcomes[i] ELSE zeros[i - Len(entries)]
  <2>1. /\ outcomes \o zeros \in Seq(0..(MaxAttempts + 1))
        /\ Len(outcomes \o zeros) = Len(outcomes) + Len(zeros)
        /\ \A i \in 1..Len(outcomes) + Len(zeros) :
              (outcomes \o zeros)[i] = IF i <= Len(outcomes) THEN outcomes[i]
                                       ELSE zeros[i - Len(outcomes)]
    BY <1>4, <1>6, ConcatProperties, Zenon
  <2> QED
    BY <1>3, <1>4, <1>6, <2>1, Zenon
<1>9. Len(entries) \in Nat
  BY <1>6, LenProperties
<1>10. \A i \in Len(entries) + 1..Len(entries) + n : i - Len(entries) \in 1..n
  BY <1>2, <1>9
<1>11. \A i \in Len(entries) + 1..Len(entries) + n :
          /\ entries'[i].state = "open" /\ entries'[i].attempts = 0
          /\ entries'[i].wait = 0 /\ outcomes'[i] = 0
  BY <1>2, <1>5, <1>7, <1>8, <1>9, <1>10
<1>12. \A i \in 1..Len(entries) : entries'[i] = entries[i] /\ outcomes'[i] = outcomes[i]
  BY <1>2, <1>7, <1>8, <1>9
<1>13. UNCHANGED <<host, drains, reached, faults>>
  BY DEF Enqueue
<1>14. Spared
  BY <1>2, <1>7, <1>9, <1>11, <1>12, <1>13 DEF Spared, Ids
<1>15. \A i \in Ids' : i \in Ids \/ i \in Len(entries) + 1..Len(entries) + n
  BY <1>2, <1>7, <1>9 DEF Ids
<1>16. Ids \subseteq Ids'
  BY <1>2, <1>7, <1>9 DEF Ids
<1>17. TypeOK'
  <2>1. \A i \in Ids' : entries'[i].state = "pending" => entries'[i].attempts < MaxAttempts
    BY <1>11, <1>12, <1>15 DEF Inv, TypeOK, Ids
  <2>2. reached' \subseteq Ids'
    BY <1>13, <1>16 DEF Inv, TypeOK
  <2>3. ordered' \in BOOLEAN /\ drains' \in [Drains -> Drain] /\ faults' \in 0..MaxFaults
    BY <1>13 DEF Inv, TypeOK, host
  <2> QED
    BY <1>7, <1>8, <2>1, <2>2, <2>3 DEF TypeOK
<1>18. Rest'
  BY <1>11, <1>12, <1>15 DEF Inv, Rest, Ids
<1> QED
  BY <1>14, <1>17, <1>18, SparedKeeps DEF Inv

\* An insert is behind the rows there are.
LEMMA EnqueueSpares ==
    ASSUME Inv, NEW p \in Producers, NEW batch \in Batches, Enqueue(p, batch), NEW i \in Ids
    PROVE  entries'[i] = entries[i]
<1>1. PICK fresh \in UNION {[1..n -> Keys] : n \in 1..(MaxEntries - Len(entries))} :
          entries' = entries \o [m \in 1..Len(fresh) |-> Draft(fresh[m], p)]
  BY DEF Enqueue
<1> DEFINE n == Len(fresh)
<1> DEFINE drafts == [m \in 1..n |-> Draft(fresh[m], p)]
<1>2. n \in Nat /\ \A m \in 1..n : fresh[m] \in Keys
  OBVIOUS
<1>3. entries' = entries \o drafts
  BY <1>1
<1>4. drafts \in Seq(Row)
  BY <1>2, OutboxAssumption DEF Draft, Row
<1> HIDE DEF n, drafts
<1>5. entries \in Seq(Row) /\ Len(entries) \in Nat /\ Len(drafts) \in Nat
  BY <1>4, LenProperties DEF Inv, TypeOK
<1>6. \A j \in 1..Len(entries) + Len(drafts) :
         (entries \o drafts)[j] = IF j <= Len(entries) THEN entries[j]
                                  ELSE drafts[j - Len(entries)]
  BY <1>4, <1>5, ConcatProperties, Zenon
<1> QED
  BY <1>3, <1>5, <1>6 DEF Ids

LEMMA EndKeeps ==
    ASSUME Inv, NEW p \in Producers, NEW state \in {"pending", "aborted"}, End(p, state)
    PROVE  Inv'
<1>1. entries \in Seq(Row) /\ Len(entries) \in Nat
  BY LenProperties DEF Inv, TypeOK
<1>2. entries' = [i \in Ids |-> IF i \in Open(p)
                                THEN [entries[i] EXCEPT !.state = state] ELSE entries[i]]
  BY DEF End
<1>3. /\ \A i \in Ids : entries[i] \in Row
      /\ \A i \in Open(p) : i \in Ids /\ entries[i].state = "open"
  BY <1>1 DEF Ids, Open
<1>4. ASSUME NEW i \in Ids
      PROVE  /\ entries'[i] \in Row
             /\ entries'[i].key = entries[i].key
             /\ entries'[i].attempts = entries[i].attempts
             /\ entries'[i].wait = entries[i].wait
             /\ entries'[i].state = IF i \in Open(p) THEN state ELSE entries[i].state
  <2>1. CASE i \in Open(p)
    <3>1. entries'[i] = [entries[i] EXCEPT !.state = state]
      BY <1>2, <2>1, Zenon
    <3>2. entries[i] \in Row
      BY <1>3
    <3> DEFINE new == [entries[i] EXCEPT !.state = state]
    <3>3. /\ new \in Row /\ new.key = entries[i].key /\ new.attempts = entries[i].attempts
          /\ new.wait = entries[i].wait /\ new.state = state
      BY <3>2, ChangedRow, Zenon
    <3> HIDE DEF new
    <3>4. entries'[i] = new
      BY <3>1 DEF new
    <3> QED
      BY <2>1, <3>3, <3>4, Zenon
  <2>2. CASE i \notin Open(p)
    BY <1>2, <1>3, <2>2, Zenon
  <2> QED
    BY <2>1, <2>2
<1>5. DOMAIN entries' = 1..Len(entries) /\ entries' = [i \in 1..Len(entries) |-> entries'[i]]
  BY <1>2, Zenon DEF Ids
<1>6. entries' \in Seq(Row) /\ Len(entries') = Len(entries)
  BY <1>1, <1>4, <1>5 DEF Ids
<1>7. UNCHANGED <<host, drains, reached, outcomes, faults>>
  BY DEF End
<1>8. Spared
  BY <1>1, <1>3, <1>4, <1>6, <1>7 DEF Spared, Ids
<1>9. \A i \in Ids : entries[i].state = "open" => entries[i].attempts < MaxAttempts
  BY OutboxAssumption DEF Inv, Rest
<1>10. TypeOK'
  <2>1. \A i \in Ids : entries'[i].state = "pending" => entries'[i].attempts < MaxAttempts
    BY <1>3, <1>4, <1>9 DEF Inv, TypeOK
  <2> QED
    BY <1>6, <1>7, <2>1 DEF Inv, TypeOK, Ids, host
<1>11. Rest'
  BY <1>3, <1>4, <1>6 DEF Inv, Rest, Ids
<1> QED
  BY <1>8, <1>10, <1>11, SparedKeeps DEF Inv
LEMMA TickKeeps ==
    ASSUME Inv, Tick
    PROVE  Inv'
<1>1. /\ entries \in Seq(Row) /\ Len(entries) \in Nat
      /\ \A d \in Drains : drains[d] \in Drain
      /\ \A i \in Ids : entries[i] \in Row
  BY LenProperties DEF Inv, TypeOK, Ids
<1>2. ASSUME NEW i \in Ids
      PROVE  /\ entries'[i] \in Row
             /\ entries'[i].key = entries[i].key
             /\ entries'[i].attempts = entries[i].attempts
             /\ entries'[i].state = entries[i].state
             /\ entries[i].wait = 0 => entries'[i] = entries[i]
  <2>1. entries'[i] = [entries[i] EXCEPT !.wait = Sooner(@)]
    BY DEF Tick
  <2>2. entries[i] \in Row
    BY <1>1
  <2> QED
    BY <2>1, <2>2, SoonerRow, Zenon
<1>3. entries' \in Seq(Row) /\ Len(entries') = Len(entries)
  <2>1. DOMAIN entries' = 1..Len(entries) /\ entries' = [i \in 1..Len(entries) |-> entries'[i]]
    BY Zenon DEF Tick, Ids
  <2> QED
    BY <1>1, <1>2, <2>1 DEF Ids
<1>4. ASSUME NEW d \in Drains
      PROVE  /\ drains'[d] \in Drain
             /\ drains'[d].at = drains[d].at
             /\ drains'[d].next = drains[d].next
             /\ drains'[d].outcome = drains[d].outcome
             /\ Len(drains'[d].batch) = Len(drains[d].batch)
             /\ \A n \in 1..Len(drains[d].batch) :
                   /\ drains'[d].batch[n].id = drains[d].batch[n].id
                   /\ drains'[d].batch[n].attempts = drains[d].batch[n].attempts
  <2> DEFINE batch == [n \in 1..Len(drains[d].batch) |->
                          [drains[d].batch[n] EXCEPT !.wait = Sooner(@)]]
  <2>1. drains'[d] = [drains[d] EXCEPT !.batch = batch]
    BY Zenon DEF Tick
  <2>2. drains[d].batch \in Seq(Copy) /\ Len(drains[d].batch) \in Nat
    BY <1>1, LenProperties DEF Drain
  <2>3. ASSUME NEW n \in 1..Len(drains[d].batch)
        PROVE  /\ batch[n] \in Copy
               /\ batch[n].id = drains[d].batch[n].id
               /\ batch[n].attempts = drains[d].batch[n].attempts
    <3>1. batch[n] = [drains[d].batch[n] EXCEPT !.wait = Sooner(@)]
      BY Zenon
    <3>2. drains[d].batch[n] \in Copy
      BY <2>2
    <3> HIDE DEF batch
    <3> QED
      BY <3>1, <3>2, SoonerCopy, Zenon
  <2>4. batch \in Seq(Copy) /\ Len(batch) = Len(drains[d].batch)
    <3>1. DOMAIN batch = 1..Len(drains[d].batch)
          /\ batch = [n \in 1..Len(drains[d].batch) |-> batch[n]]
      BY Zenon
    <3> HIDE DEF batch
    <3> QED
      BY <2>2, <2>3, <3>1
  <2> HIDE DEF batch
  <2>5. /\ drains'[d] \in Drain /\ drains'[d].batch = batch
        /\ drains'[d].at = drains[d].at /\ drains'[d].next = drains[d].next
        /\ drains'[d].outcome = drains[d].outcome
    BY <1>1, <2>1, <2>4 DEF Drain
  <2> QED
    BY <2>3, <2>4, <2>5
<1>5. UNCHANGED <<host, reached, outcomes, faults>>
  BY DEF Tick
<1>6. Spared
  BY <1>1, <1>2, <1>3, <1>4, <1>5 DEF Spared, Ids
<1>7. TypeOK'
  <2>1. drains' \in [Drains -> Drain]
    <3>1. drains' = [d \in Drains |-> drains'[d]]
      BY Zenon DEF Tick
    <3> QED
      BY <1>4, <3>1
  <2>2. \A i \in Ids : entries'[i].state = "pending" => entries'[i].attempts < MaxAttempts
    BY <1>2 DEF Inv, TypeOK
  <2> QED
    BY <1>3, <1>5, <2>1, <2>2 DEF Inv, TypeOK, Ids, host
<1>8. Rest'
  BY <1>2, <1>3 DEF Inv, Rest, Ids
<1> QED
  BY <1>6, <1>7, <1>8, SparedKeeps DEF Inv
-----------------------------------------------------------------------------
(***************************************************************************)
(* Steps of a pass that leave the table alone: what the pass becomes has   *)
(* to be as the invariant says of a pass, on the same table.               *)
(***************************************************************************)
Becomes(d, f) ==
    /\ Len(f.batch) <= Limit
    /\ f.next <= Len(f.batch) + 1
    /\ f.at \in {"deliver", "settle"} => f.next <= Len(f.batch)
    /\ \A n \in 1..Len(f.batch) :
          /\ f.batch[n].id \in Ids
          /\ f.batch[n].attempts < MaxAttempts
          /\ entries[f.batch[n].id].state \notin {"open", "aborted"}
          /\ PartitionOf[entries[f.batch[n].id].key] \in scope[d]
    /\ \A m, n \in 1..Len(f.batch) : m < n => f.batch[m].id # f.batch[n].id
    /\ f.at # "idle" =>
          /\ \A e \in Drains : drains[e].at # "idle" /\ store[d] = store[e] => e = d
          /\ Owned => \A n \in f.next..Len(f.batch) :
                /\ entries[f.batch[n].id].state = "pending"
                /\ entries[f.batch[n].id].attempts = f.batch[n].attempts
          /\ ordered /\ Owned => \A n \in 1..(f.next - 1) :
                entries[f.batch[n].id].state \in {"delivered", "dead"}

LEMMA PassKeeps ==
    ASSUME Inv, NEW d \in Drains, NEW f \in Drain, Becomes(d, f),
           f.at = "settle" /\ f.outcome = "delivered" => f.batch[f.next].id \in reached',
           drains' = [drains EXCEPT ![d] = f],
           UNCHANGED <<entries, host, outcomes>>,
           reached \subseteq reached', reached' \subseteq Ids, faults' \in 0..MaxFaults
    PROVE  Inv'
<1>1. /\ drains \in [Drains -> Drain] /\ drains' \in [Drains -> Drain]
      /\ drains'[d] = f
      /\ \A e \in Drains : e # d => drains'[e] = drains[e]
  BY DEF Inv, TypeOK
<1>2. /\ entries' = entries /\ outcomes' = outcomes /\ ordered' = ordered
      /\ store' = store /\ scope' = scope /\ Ids' = Ids
      /\ Owned' <=> Owned
  BY DEF host, Ids, Owned
<1>3. TypeOK'
  BY <1>1, <1>2 DEF Inv, TypeOK
<1>4. Reads'
  BY <1>1, <1>2 DEF Inv, Reads, Becomes
<1>5. Told'
  BY <1>1 DEF Inv, Told, Entry
<1>6. Alone'
  BY <1>1, <1>2 DEF Inv, Alone, Becomes
<1>7. Rest'
  BY <1>2 DEF Inv, Rest
<1>8. Fresh'
  BY <1>1, <1>2 DEF Inv, Fresh, Becomes
<1>9. Behind'
  BY <1>1, <1>2 DEF Inv, Behind, Becomes
<1>10. DeliveredReached' /\ AttemptsCountOutcomes'
  BY <1>2 DEF Inv, DeliveredReached, AttemptsCountOutcomes
<1> QED
  BY <1>3, <1>4, <1>5, <1>6, <1>7, <1>8, <1>9, <1>10 DEF Inv

\* A pass that ends is as if it had never read.
LEMMA EndsKeep ==
    ASSUME Inv, NEW d \in Drains, drains' = [drains EXCEPT ![d] = Idle],
           UNCHANGED <<entries, host, outcomes>>,
           reached \subseteq reached', reached' \subseteq Ids, faults' \in 0..MaxFaults
    PROVE  Inv'
<1>1. Idle \in Drain /\ Becomes(d, Idle) /\ Idle.at = "idle"
  BY OutboxAssumption DEF Idle, Drain, Becomes
<1> QED
  BY <1>1, PassKeeps

LEMMA BeginKeeps ==
    ASSUME Inv, NEW d \in Drains, Begin(d)
    PROVE  Inv'
<1>1. PICK ids \in First(Due(d)) :
          drains' = [drains EXCEPT ![d] =
              [at |-> "next", batch |-> [n \in 1..Len(ids) |-> Read(ids[n])],
               next |-> 1, outcome |-> "none"]]
  BY DEF Begin
<1> DEFINE k == Len(ids)
<1> DEFINE batch == [n \in 1..k |-> Read(ids[n])]
           f == [at |-> "next", batch |-> batch, next |-> 1, outcome |-> "none"]
<1>2. /\ k \in 1..Limit
      /\ \A n \in 1..k : ids[n] \in Due(d)
      /\ \A m, n \in 1..k : m < n => ids[m] < ids[n]
  BY OutboxAssumption DEF First
<1> HIDE DEF k
<1>3. \A i \in Due(d) : /\ i \in Ids /\ i \in Nat /\ entries[i] \in Row
                        /\ entries[i].state = "pending"
                        /\ PartitionOf[entries[i].key] \in scope[d]
                        /\ entries[i].attempts < MaxAttempts
  BY LenProperties DEF Inv, TypeOK, Due, InScope, Ids
<1>4. ASSUME NEW n \in 1..k
      PROVE  /\ batch[n] \in Copy /\ batch[n].id = ids[n]
             /\ batch[n].attempts = entries[ids[n]].attempts
  BY <1>2, <1>3 DEF Read, Row, Copy
<1>5. batch \in Seq(Copy) /\ Len(batch) = k
  <2>1. batch = [n \in 1..k |-> batch[n]]
    OBVIOUS
  <2>2. k \in Nat
    BY <1>2, OutboxAssumption
  <2> HIDE DEF batch, f
  <2>3. \A n \in 1..k : batch[n] \in Copy
    BY <1>4, Zenon
  <2>4. batch \in [1..k -> Copy]
    BY <2>1, <2>3, Zenon
  <2>5. DOMAIN batch = 1..k
    BY <2>1, Zenon
  <2>6. batch \in Seq(Copy)
    BY <2>2, <2>4, SMT
  <2>7. Len(batch) \in Nat /\ DOMAIN batch = 1..Len(batch)
    BY <2>6, LenProperties, Zenon
  <2>8. Len(batch) = k
    BY <2>2, <2>5, <2>7, LenProperties, SMT
  <2> QED
    BY <2>6, <2>8
<1> HIDE DEF batch
<1>6. /\ f \in Drain /\ f.at = "next" /\ f.batch = batch /\ f.next = 1
  BY <1>5, OutboxAssumption DEF Drain
<1>7. drains' = [drains EXCEPT ![d] = f]
  BY <1>1, Zenon DEF f, batch, k
<1> HIDE DEF f
<1>8. \A e \in Drains : drains[e].at # "idle" /\ store[d] = store[e] => e = d
  BY DEF Begin, PermitFree
<1>9. Becomes(d, f)
  <2>1. Limit \in Nat /\ k \in Nat
    BY <1>2, OutboxAssumption
  <2>2. \A n \in 1..k : /\ batch[n].id \in Ids
                        /\ entries[batch[n].id].state = "pending"
                        /\ entries[batch[n].id].attempts = batch[n].attempts
                        /\ batch[n].attempts < MaxAttempts
                        /\ PartitionOf[entries[batch[n].id].key] \in scope[d]
    BY <1>2, <1>3, <1>4
  <2>3. \A m, n \in 1..k : m < n => batch[m].id # batch[n].id
    BY <1>2, <1>3, <1>4
  <2> QED
    BY <1>2, <1>5, <1>6, <1>8, <2>1, <2>2, <2>3 DEF Becomes
<1> QED
  BY <1>6, <1>7, <1>9, PassKeeps DEF Begin, Inv, TypeOK

\* What the invariant says of a pass that is under way.
LEMMA UnderWay ==
    ASSUME Inv, NEW d \in Drains, drains[d].at # "idle"
    PROVE  drains[d] \in Drain /\ Becomes(d, drains[d])
  BY DEF Inv, TypeOK, Reads, Alone, Fresh, Behind, Becomes

LEMMA TakeKeeps ==
    ASSUME Inv, NEW d \in Drains, Take(d)
    PROVE  Inv'
<1> DEFINE f == IF entries[Entry(d).id].key \in Poison
                THEN [drains[d] EXCEPT !.at = "settle", !.outcome = "poison"]
                ELSE [drains[d] EXCEPT !.at = "deliver"]
<1>1. drains[d] \in Drain /\ Becomes(d, drains[d]) /\ drains[d].at # "idle"
  BY UnderWay DEF Take
<1>2. /\ f \in Drain /\ f.at \in {"deliver", "settle"}
      /\ f.next = drains[d].next /\ f.batch = drains[d].batch
      /\ f.at = "settle" => f.outcome # "delivered"
  BY <1>1 DEF Drain
<1>3. drains' = [drains EXCEPT ![d] = f]
  BY Zenon DEF Take
<1> HIDE DEF f
<1>4. drains[d].next <= Len(drains[d].batch)
  BY DEF Take
<1>5. Becomes(d, f)
  BY <1>1, <1>2, <1>4 DEF Becomes
<1> QED
  BY <1>2, <1>3, <1>5, PassKeeps DEF Take, Inv, TypeOK

LEMMA DeliverKeeps ==
    ASSUME Inv, NEW d \in Drains, NEW outcome \in {"delivered", "refused", "failed"},
           NEW reaches \in BOOLEAN, Deliver(d, outcome, reaches)
    PROVE  Inv'
<1> DEFINE f == [drains[d] EXCEPT !.at = "settle", !.outcome = outcome]
<1>1. drains[d] \in Drain /\ Becomes(d, drains[d]) /\ drains[d].at = "deliver"
  BY UnderWay DEF Deliver
<1>2. /\ f \in Drain /\ f.at = "settle" /\ f.outcome = outcome
      /\ f.next = drains[d].next /\ f.batch = drains[d].batch
  BY <1>1 DEF Drain
<1>3. drains' = [drains EXCEPT ![d] = f]
  <2>1. drains' = [drains EXCEPT ![d].at = "settle", ![d].outcome = outcome]
    BY DEF Deliver
  <2>2. drains \in [Drains -> Drain]
    BY DEF Inv, TypeOK
  <2> QED
    BY <2>1, <2>2 DEF Drain
<1> HIDE DEF f
<1>4. Becomes(d, f)
  BY <1>1, <1>2 DEF Becomes
<1>5. Entry(d).id \in Ids
  BY <1>1 DEF Becomes, Entry, Drain
<1>6. /\ reached \subseteq reached' /\ reached' \subseteq Ids
      /\ outcome = "delivered" => Entry(d).id \in reached'
  BY <1>5 DEF Deliver, Inv, TypeOK
<1> QED
  BY <1>2, <1>3, <1>4, <1>6, PassKeeps DEF Deliver, Inv, TypeOK, Entry

LEMMA StopKeeps ==
    ASSUME Inv, NEW d \in Drains, NEW reaches \in BOOLEAN, Stop(d, reaches)
    PROVE  Inv'
<1>1. drains[d] \in Drain /\ Becomes(d, drains[d])
  BY UnderWay DEF Stop
<1>2. reaches => Entry(d).id \in Ids
  BY <1>1 DEF Becomes, Entry, Drain, Stop
<1>3. faults' \in 0..MaxFaults
  BY OutboxAssumption DEF Stop, Inv, TypeOK
<1> QED
  BY <1>2, <1>3, EndsKeep DEF Stop, Inv, TypeOK
LEMMA FinishKeeps ==
    ASSUME Inv, NEW d \in Drains, Finish(d)
    PROVE  Inv'
  BY EndsKeep DEF Finish, Inv, TypeOK
-----------------------------------------------------------------------------
\* What a settlement may write.
LEMMA SettlementType ==
    ASSUME NEW outcome, NEW attempt \in 1..MaxAttempts
    PROVE  /\ Classify(outcome, attempt) \in {"pending", "delivered", "dead"}
           /\ Classify(outcome, attempt) = "delivered" <=> outcome = "delivered"
           /\ Classify(outcome, attempt) = "pending" => attempt < MaxAttempts
           /\ Wait(outcome, attempt) \in Nat
           /\ Classify(outcome, attempt) # "pending" => Wait(outcome, attempt) = 0
  BY OutboxAssumption DEF Classify, Wait

LEMMA SettledRow ==
    ASSUME NEW row \in Row, NEW state \in {"pending", "delivered", "dead"},
           NEW attempt \in 1..MaxAttempts, NEW wait \in Nat
    PROVE  LET new == [row EXCEPT !.state = state, !.attempts = attempt, !.wait = wait]
           IN  /\ new \in Row /\ new.key = row.key /\ new.attempts = attempt
               /\ new.state = state /\ new.wait = wait
<1> DEFINE one == [row EXCEPT !.state = state]
           two == [one EXCEPT !.attempts = attempt]
           three == [two EXCEPT !.wait = wait]
<1>1. one \in Row /\ one.key = row.key /\ one.state = state
  BY DEF Row
<1> HIDE DEF one
<1>2. two \in Row /\ two.key = one.key /\ two.state = one.state /\ two.attempts = attempt
  BY <1>1, OutboxAssumption DEF Row
<1> HIDE DEF two
<1>3. /\ three \in Row /\ three.key = two.key /\ three.state = two.state
      /\ three.attempts = two.attempts /\ three.wait = wait
  BY <1>2 DEF Row
<1> HIDE DEF three
<1>4. three = [row EXCEPT !.state = state, !.attempts = attempt, !.wait = wait]
  BY DEF one, two, three
<1> QED
  BY <1>1, <1>2, <1>3, <1>4, Zenon

\* The row of a settlement is the one its pass is at, and the pass goes on or ends.
LEMMA SettleMeans ==
    ASSUME Inv, NEW d \in Drains, Settle(d)
    PROVE  \E new \in Row, f \in Drain :
              /\ entries' = [entries EXCEPT ![Entry(d).id] = new]
              /\ new.key = entries[Entry(d).id].key
              /\ new.attempts = Entry(d).attempts + 1
              /\ new.state \in {"pending", "delivered", "dead"}
              /\ new.state = "delivered" => drains[d].outcome = "delivered"
              /\ new.state = "pending" => new.attempts < MaxAttempts
              /\ new.state # "pending" => new.wait = 0
              /\ drains' = [drains EXCEPT ![d] = f]
              /\ \/ f = Idle
                 \/ /\ f.at = "next" /\ f.batch = drains[d].batch
                    /\ f.next = drains[d].next + 1
                    /\ ~(ordered /\ new.state = "pending")
<1> DEFINE x == Entry(d).id
           attempt == Attempt(d)
           outcome == drains[d].outcome
           state == Classify(outcome, attempt)
           wait == Wait(outcome, attempt)
           on == Onward(drains[d])
           f == IF Stops(d, state) THEN Idle ELSE on
           new == [entries[x] EXCEPT !.state = state, !.attempts = attempt, !.wait = wait]
<1>1. /\ drains[d] \in Drain /\ Becomes(d, drains[d])
      /\ drains[d].next \in 1..Len(drains[d].batch)
      /\ Len(drains[d].batch) \in Nat
  <2>1. drains[d] \in Drain /\ Becomes(d, drains[d])
    BY UnderWay DEF Settle
  <2>2. drains[d].next <= Len(drains[d].batch)
    BY <2>1 DEF Settle, Becomes
  <2> QED
    BY <2>1, <2>2, LenProperties DEF Drain
<1>2. x \in Ids /\ Entry(d) \in Copy /\ Entry(d).attempts < MaxAttempts
  BY <1>1 DEF Becomes, Entry, Drain
<1>3. entries[x] \in Row
  BY <1>2 DEF Inv, TypeOK, Ids
<1>4. attempt \in 1..MaxAttempts /\ attempt = Entry(d).attempts + 1
  BY <1>2, OutboxAssumption DEF Attempt, Copy
<1>5. entries' = [entries EXCEPT ![x] = new]
  BY DEF Settle
<1>6. drains' = [drains EXCEPT ![d] = f]
  BY Zenon DEF Settle
<1> HIDE DEF x, attempt, outcome
<1>7. /\ state \in {"pending", "delivered", "dead"}
      /\ state = "delivered" => outcome = "delivered"
      /\ state = "pending" => attempt < MaxAttempts
      /\ wait \in Nat
      /\ state # "pending" => wait = 0
  BY <1>4, SettlementType
<1> HIDE DEF state, wait
<1>8. /\ new \in Row /\ new.key = entries[x].key /\ new.attempts = attempt
      /\ new.state = state /\ new.wait = wait
  <2> DEFINE After(s, a, w) == [entries[x] EXCEPT !.state = s, !.attempts = a, !.wait = w]
  <2>1. \A s \in {"pending", "delivered", "dead"}, a \in 1..MaxAttempts, w \in Nat :
           LET row == After(s, a, w)
           IN  /\ row \in Row /\ row.key = entries[x].key /\ row.attempts = a
               /\ row.state = s /\ row.wait = w
    BY <1>3, SettledRow, Zenon
  <2>2. new = After(state, attempt, wait)
    OBVIOUS
  <2> HIDE DEF After, new
  <2>3. /\ state \in {"pending", "delivered", "dead"} /\ attempt \in 1..MaxAttempts
        /\ wait \in Nat
    BY <1>4, <1>7
  <2> QED
    BY <2>1, <2>2, <2>3
<1>9. /\ Idle \in Drain /\ on \in Drain /\ on.at = "next"
      /\ on.batch = drains[d].batch /\ on.next = drains[d].next + 1
  <2>1. Idle \in Drain
    BY OutboxAssumption DEF Idle, Drain
  <2>2. drains[d].next + 1 \in 1..(Limit + 1)
    BY <1>1, OutboxAssumption DEF Becomes
  <2> QED
    BY <1>1, <2>1, <2>2 DEF Drain, Onward
<1> HIDE DEF new, on
<1>10. /\ f \in Drain
       /\ f = Idle \/ (f = on /\ ~(ordered /\ state = "pending"))
  BY <1>9 DEF Stops
<1> HIDE DEF f
<1>11. outcome = drains[d].outcome /\ x = Entry(d).id
  BY DEF outcome, x
<1> QED
  BY <1>4, <1>5, <1>6, <1>7, <1>8, <1>9, <1>10, <1>11

LEMMA SettleKeeps ==
    ASSUME Inv, NEW d \in Drains, Settle(d)
    PROVE  Inv'
<1> DEFINE x == Entry(d).id
<1>1. PICK new \in Row, f \in Drain :
          /\ entries' = [entries EXCEPT ![x] = new]
          /\ new.key = entries[x].key
          /\ new.attempts = Entry(d).attempts + 1
          /\ new.state \in {"pending", "delivered", "dead"}
          /\ new.state = "delivered" => drains[d].outcome = "delivered"
          /\ new.state = "pending" => new.attempts < MaxAttempts
          /\ new.state # "pending" => new.wait = 0
          /\ drains' = [drains EXCEPT ![d] = f]
          /\ \/ f = Idle
             \/ /\ f.at = "next" /\ f.batch = drains[d].batch
                /\ f.next = drains[d].next + 1
                /\ ~(ordered /\ new.state = "pending")
  BY SettleMeans
<1>2. /\ drains[d] \in Drain /\ Becomes(d, drains[d]) /\ drains[d].at = "settle"
      /\ drains[d].next \in 1..Len(drains[d].batch)
      /\ x = drains[d].batch[drains[d].next].id
      /\ Entry(d) = drains[d].batch[drains[d].next]
  <2>1. drains[d] \in Drain /\ Becomes(d, drains[d]) /\ drains[d].at = "settle"
    BY UnderWay DEF Settle
  <2>2. drains[d].next <= Len(drains[d].batch)
    BY <2>1 DEF Becomes
  <2> QED
    BY <2>1, <2>2, LenProperties DEF Drain, Entry
<1>3. x \in Ids /\ entries[x].state \notin {"open", "aborted"}
  BY <1>2 DEF Becomes
<1> HIDE DEF x
<1>4. /\ entries \in Seq(Row) /\ Len(entries) \in Nat
      /\ entries' \in Seq(Row) /\ Len(entries') = Len(entries) /\ Ids' = Ids
      /\ entries'[x] = new
      /\ \A i \in Ids : i # x => entries'[i] = entries[i]
  BY <1>1, <1>3, ExceptSeq, LenProperties DEF Inv, TypeOK, Ids
<1>5. /\ drains \in [Drains -> Drain] /\ drains' \in [Drains -> Drain] /\ drains'[d] = f
      /\ \A e \in Drains : e # d => drains'[e] = drains[e]
  BY <1>1 DEF Inv, TypeOK
<1>6. /\ store' = store /\ scope' = scope /\ ordered' = ordered /\ reached' = reached
      /\ faults' = faults /\ (Owned' <=> Owned)
  BY DEF Settle, host, Owned
<1>7. outcomes' = [outcomes EXCEPT ![x] = IF @ > MaxAttempts THEN @ ELSE @ + 1]
  BY DEF Settle, x
<1>8. /\ outcomes' \in Seq(0..(MaxAttempts + 1)) /\ Len(outcomes') = Len(entries)
      /\ \A i \in Ids : i # x => outcomes'[i] = outcomes[i]
  <2>1. /\ outcomes \in Seq(0..(MaxAttempts + 1)) /\ Len(outcomes) = Len(entries)
        /\ x \in 1..Len(outcomes)
    BY <1>3 DEF Inv, TypeOK, Ids
  <2> DEFINE sum == IF outcomes[x] > MaxAttempts THEN outcomes[x] ELSE outcomes[x] + 1
  <2>2. sum \in 0..(MaxAttempts + 1)
    BY <2>1, OutboxAssumption
  <2>3. outcomes' = [outcomes EXCEPT ![x] = sum]
    BY <1>7
  <2> HIDE DEF sum
  <2> QED
    BY <2>1, <2>2, <2>3, ExceptSeq DEF Ids
\* Other passes are not at this row, if their scopes are apart.
<1>9. ASSUME Owned, NEW e \in Drains, e # d, drains[e].at # "idle",
             NEW n \in 1..Len(drains[e].batch)
      PROVE  drains[e].batch[n].id # x
  <2>1. store[e] # store[d]
    BY <1>2, <1>9 DEF Inv, Alone
  <2>2. scope[e] \cap scope[d] = {}
    BY <1>9, <2>1 DEF Owned
  <2>3. PartitionOf[entries[drains[e].batch[n].id].key] \in scope[e]
    BY DEF Inv, Reads
  <2>4. PartitionOf[entries[x].key] \in scope[d]
    BY <1>2 DEF Becomes
  <2> QED
    BY <2>2, <2>3, <2>4
<1>10. \A n \in 1..Len(drains[d].batch) : n # drains[d].next => drains[d].batch[n].id # x
  BY <1>2 DEF Becomes
<1>11. TypeOK'
  <2>1. \A i \in Ids' : entries'[i].state = "pending" => entries'[i].attempts < MaxAttempts
    BY <1>1, <1>4 DEF Inv, TypeOK
  <2> QED
    BY <1>4, <1>5, <1>6, <1>8, <2>1 DEF Inv, TypeOK
<1>12. Reads'
  <2>1. \A i \in Ids : /\ entries'[i].key = entries[i].key
                       /\ entries[i].state \notin {"open", "aborted"} =>
                            entries'[i].state \notin {"open", "aborted"}
    BY <1>1, <1>4
  <2>2. \A e \in Drains : drains'[e].batch \in {drains[e].batch, <<>>}
    BY <1>1, <1>5 DEF Idle
  <2>3. ASSUME NEW e \in Drains
        PROVE  /\ Len(drains'[e].batch) <= Limit
               /\ drains'[e].next <= Len(drains'[e].batch) + 1
               /\ drains'[e].at \in {"deliver", "settle"} =>
                    drains'[e].next <= Len(drains'[e].batch)
    <3>1. CASE e # d
      BY <1>5, <3>1 DEF Inv, Reads
    <3>2. CASE e = d /\ f = Idle
      BY <1>5, <3>2, OutboxAssumption DEF Idle
    <3>3. CASE e = d /\ f # Idle
      <4>1. /\ drains'[e].at = "next" /\ drains'[e].batch = drains[d].batch
            /\ drains'[e].next = drains[d].next + 1
        BY <1>1, <1>5, <3>3
      <4>2. Len(drains[d].batch) <= Limit /\ Len(drains[d].batch) \in Nat
        BY <1>2, LenProperties DEF Becomes, Drain
      <4> QED
        BY <1>2, <4>1, <4>2
    <3> QED
      BY <3>1, <3>2, <3>3
  <2>4. ASSUME NEW e \in Drains, drains'[e].batch = drains[e].batch
        PROVE  /\ \A n \in 1..Len(drains'[e].batch) :
                     LET copy == drains'[e].batch[n]
                     IN  /\ copy.id \in Ids'
                         /\ copy.attempts < MaxAttempts
                         /\ entries'[copy.id].state \notin {"open", "aborted"}
                         /\ PartitionOf[entries'[copy.id].key] \in scope'[e]
               /\ \A m, n \in 1..Len(drains'[e].batch) :
                     m < n => drains'[e].batch[m].id # drains'[e].batch[n].id
    <3>1. /\ \A n \in 1..Len(drains[e].batch) :
                /\ drains[e].batch[n].id \in Ids
                /\ drains[e].batch[n].attempts < MaxAttempts
                /\ entries[drains[e].batch[n].id].state \notin {"open", "aborted"}
                /\ PartitionOf[entries[drains[e].batch[n].id].key] \in scope[e]
          /\ \A m, n \in 1..Len(drains[e].batch) :
                m < n => drains[e].batch[m].id # drains[e].batch[n].id
      BY DEF Inv, Reads
    <3> QED
      BY <1>4, <1>6, <2>1, <2>4, <3>1
  <2>5. \A e \in Drains : drains'[e].batch = <<>> => 1..Len(drains'[e].batch) = {}
    OBVIOUS
  <2> QED
    BY <2>2, <2>3, <2>4, <2>5 DEF Reads
<1>13. Told'
  BY <1>1, <1>5, <1>6 DEF Inv, Told, Entry, Idle
<1>14. Alone'
  BY <1>2, <1>5, <1>6 DEF Inv, Alone
<1>15. Rest'
  BY <1>1, <1>4 DEF Inv, Rest
<1>16. Fresh'
  <2>1. ASSUME Owned, NEW e \in Drains, drains'[e].at # "idle",
               NEW n \in drains'[e].next..Len(drains'[e].batch)
        PROVE  /\ entries'[drains'[e].batch[n].id].state = "pending"
               /\ entries'[drains'[e].batch[n].id].attempts = drains'[e].batch[n].attempts
    <3>1. CASE e # d
      <4>1. n \in drains[e].next..Len(drains[e].batch) /\ n \in 1..Len(drains[e].batch)
            /\ drains[e].at # "idle"
        BY <1>5, <2>1, <3>1 DEF Drain
      <4>2. drains[e].batch[n].id \in Ids /\ drains[e].batch[n].id # x
        BY <1>9, <2>1, <3>1, <4>1 DEF Inv, Reads
      <4> QED
        BY <1>4, <1>5, <2>1, <3>1, <4>1, <4>2 DEF Inv, Fresh
    <3>2. CASE e = d
      <4>1. f # Idle /\ f.batch = drains[d].batch /\ f.next = drains[d].next + 1
        BY <1>1, <1>5, <2>1, <3>2 DEF Idle
      <4>2. /\ n \in drains[d].next..Len(drains[d].batch) /\ n # drains[d].next
            /\ n \in 1..Len(drains[d].batch)
        BY <1>2, <1>5, <2>1, <3>2, <4>1
      <4>3. drains[d].batch[n].id \in Ids /\ drains[d].batch[n].id # x
        BY <1>2, <1>10, <4>2 DEF Becomes
      <4>4. /\ entries[drains[d].batch[n].id].state = "pending"
            /\ entries[drains[d].batch[n].id].attempts = drains[d].batch[n].attempts
        BY <1>2, <2>1, <4>2 DEF Inv, Fresh
      <4> QED
        BY <1>4, <1>5, <3>2, <4>1, <4>3, <4>4
    <3> QED
      BY <3>1, <3>2
  <2> QED
    BY <1>6, <2>1 DEF Fresh
<1>17. Behind'
  <2>1. ASSUME ordered, Owned, NEW e \in Drains, drains'[e].at # "idle",
               NEW n \in 1..drains'[e].next - 1
        PROVE  entries'[drains'[e].batch[n].id].state \in {"delivered", "dead"}
    <3>1. CASE e # d
      <4>1. /\ n \in 1..drains[e].next - 1 /\ n \in 1..Len(drains[e].batch)
            /\ drains[e].at # "idle"
        <5>1. drains[e] \in Drain /\ drains[e].next <= Len(drains[e].batch) + 1
          BY <1>5 DEF Inv, Reads
        <5>2. Len(drains[e].batch) \in Nat
          BY <5>1, LenProperties DEF Drain
        <5> QED
          BY <1>5, <2>1, <3>1, <5>1, <5>2 DEF Drain
      <4>2. drains[e].batch[n].id \in Ids /\ drains[e].batch[n].id # x
        BY <1>9, <2>1, <3>1, <4>1 DEF Inv, Reads
      <4> QED
        BY <1>4, <1>5, <2>1, <3>1, <4>1, <4>2 DEF Inv, Behind
    <3>2. CASE e = d
      <4>1. f # Idle /\ f.batch = drains[d].batch /\ f.next = drains[d].next + 1
            /\ new.state # "pending"
        BY <1>1, <1>5, <2>1, <3>2 DEF Idle
      <4>2. n \in 1..Len(drains[d].batch) /\ n <= drains[d].next
        BY <1>2, <1>5, <2>1, <3>2, <4>1
      <4>3. CASE n = drains[d].next
        BY <1>1, <1>2, <1>4, <1>5, <3>2, <4>1, <4>3
      <4>4. CASE n # drains[d].next
        <5>1. drains[d].batch[n].id \in Ids /\ drains[d].batch[n].id # x
          BY <1>2, <1>10, <4>2, <4>4 DEF Becomes
        <5>2. n \in 1..drains[d].next - 1
          BY <1>2, <4>2, <4>4
        <5>3. entries[drains[d].batch[n].id].state \in {"delivered", "dead"}
          BY <1>2, <2>1, <5>2 DEF Inv, Behind
        <5> QED
          BY <1>4, <1>5, <3>2, <4>1, <5>1, <5>3
      <4> QED
        BY <4>3, <4>4
    <3> QED
      BY <3>1, <3>2
  <2> QED
    BY <1>6, <2>1 DEF Behind
<1>18. DeliveredReached'
  <2>1. new.state = "delivered" => x \in reached
    BY <1>1, <1>2 DEF Inv, Told, x
  <2> QED
    BY <1>4, <1>6, <2>1 DEF Inv, DeliveredReached
<1>19. AttemptsCountOutcomes'
  <2>1. ASSUME Owned
        PROVE  entries'[x].attempts = outcomes'[x]
    <3>1. entries[x].attempts = Entry(d).attempts /\ entries[x].attempts < MaxAttempts
      BY <1>2, <2>1 DEF Inv, Fresh, Becomes
    <3>2. entries[x].attempts = outcomes[x]
      BY <1>3, <2>1 DEF Inv, AttemptsCountOutcomes
    <3>3. outcomes[x] \in Nat /\ x \in 1..Len(outcomes)
      BY <1>3, ElementOfSeq, OutboxAssumption DEF Inv, TypeOK, Ids
    <3>4. outcomes'[x] = outcomes[x] + 1
      BY <1>7, <3>1, <3>2, <3>3, OutboxAssumption DEF Inv, TypeOK
    <3> QED
      BY <1>1, <1>4, <3>1, <3>2, <3>4
  <2> QED
    BY <1>4, <1>6, <1>8, <2>1 DEF Inv, AttemptsCountOutcomes
<1> QED
  BY <1>11, <1>12, <1>13, <1>14, <1>15, <1>16, <1>17, <1>18, <1>19 DEF Inv
-----------------------------------------------------------------------------
LEMMA InitInv == Init => Inv
<1> SUFFICES ASSUME Init PROVE Inv
  OBVIOUS
<1>1. entries = <<>> /\ outcomes = <<>> /\ reached = {} /\ faults = MaxFaults
      /\ drains = [d \in Drains |-> Idle]
  BY DEF Init
<1>2. ordered \in BOOLEAN
  BY OutboxAssumption DEF Init
<1>3. \A d \in Drains : drains[d].batch = <<>> /\ drains[d].next = 1 /\ drains[d].at = "idle"
  BY <1>1 DEF Idle
<1>4. Idle \in Drain
  BY OutboxAssumption DEF Idle, Drain
<1>5. Ids = {} /\ 1..Len(<<>>) = {}
  BY <1>1 DEF Ids
<1>6. TypeOK
  BY <1>1, <1>2, <1>4, <1>5, OutboxAssumption DEF TypeOK
<1>7. Reads
  BY <1>3, <1>5, OutboxAssumption DEF Reads
<1> QED
  BY <1>3, <1>5, <1>6, <1>7
     DEF Inv, Told, Alone, Rest, Fresh, Behind, DeliveredReached, AttemptsCountOutcomes

LEMMA NextInv == Inv /\ [Next]_vars => Inv'
<1> SUFFICES ASSUME Inv, [Next]_vars PROVE Inv'
  OBVIOUS
<1>1. CASE Next
  <2>1. ASSUME NEW p \in Producers, NEW batch \in Batches, Enqueue(p, batch) PROVE Inv'
    BY <2>1, EnqueueKeeps
  <2>2. ASSUME NEW p \in Producers, End(p, "pending") \/ End(p, "aborted") PROVE Inv'
    BY <2>2, EndKeeps
  <2>3. ASSUME NEW d \in Drains, Begin(d) \/ Finish(d) \/ Take(d) \/ Settle(d) PROVE Inv'
    BY <2>3, BeginKeeps, FinishKeeps, TakeKeeps, SettleKeeps
  <2>4. ASSUME NEW d \in Drains, NEW reaches \in BOOLEAN,
               (\E outcome \in {"delivered", "refused", "failed"} :
                   Deliver(d, outcome, reaches)) \/ Stop(d, reaches)
        PROVE  Inv'
    BY <2>4, DeliverKeeps, StopKeeps
  <2>5. CASE Tick
    BY <2>5, TickKeeps
  <2> QED
    BY <1>1, <2>1, <2>2, <2>3, <2>4, <2>5 DEF Next
<1>2. CASE UNCHANGED vars
  <2>1. /\ UNCHANGED <<entries, store, scope, ordered, drains, reached, outcomes, faults>>
        /\ Ids' = Ids /\ (Owned' <=> Owned)
    BY <1>2 DEF vars, Ids, Owned
  <2> QED
    BY <2>1 DEF Inv, TypeOK, Reads, Told, Entry, Alone, Rest, Fresh, Behind,
                DeliveredReached, AttemptsCountOutcomes
<1> QED
  BY <1>1, <1>2

(***************************************************************************)
(* Table and passes keep their types, and attempts the retry policy.       *)
(***************************************************************************)
THEOREM TypeCorrect == Spec => []TypeOK
<1>1. Inv => TypeOK
  BY DEF Inv
<1> QED
  BY <1>1, InitInv, NextInv, PTL DEF Spec

(***************************************************************************)
(* The table tells the truth: what it calls delivered was, and the         *)
(* attempts of an entry are its stored outcomes, whatever drains overlap,  *)
(* stop or lose an answer (outbox.ts:142, 174).                            *)
(***************************************************************************)
THEOREM TableIsTrue == Spec => []Accounted
<1>1. Inv => Accounted
  BY DEF Inv, Accounted
<1> QED
  BY <1>1, InitInv, NextInv, PTL DEF Spec

(***************************************************************************)
(* An ordered pass delivers an entry only when those before it are settled *)
(* (outbox.ts:282).                                                        *)
(***************************************************************************)
THEOREM OrderHolds == Spec => []HeadFirst
<1>1. Inv => HeadFirst
  BY DEF Inv, Behind, HeadFirst
<1> QED
  BY <1>1, InitInv, NextInv, PTL DEF Spec

LEMMA SettledStays ==
    ASSUME Inv, [Next]_vars, Owned, NEW i \in Ids,
           entries[i].state \in {"delivered", "dead"}
    PROVE  entries'[i] = entries[i]
<1>1. entries \in Seq(Row) /\ Len(entries) \in Nat /\ i \in 1..Len(entries) /\ entries[i] \in Row
  BY LenProperties, ElementOfSeq DEF Inv, TypeOK, Ids
<1>2. ASSUME NEW p \in Producers, NEW batch \in Batches, Enqueue(p, batch)
      PROVE  entries'[i] = entries[i]
  BY <1>2, EnqueueSpares
<1>3. ASSUME NEW p \in Producers, End(p, "pending") \/ End(p, "aborted")
      PROVE  entries'[i] = entries[i]
  <2>1. i \notin Open(p)
    BY DEF Open
  <2> QED
    BY <1>3, <2>1 DEF End
<1>4. ASSUME NEW d \in Drains, Settle(d)
      PROVE  entries'[i] = entries[i]
  <2>1. PICK new \in Row : entries' = [entries EXCEPT ![Entry(d).id] = new]
    BY <1>4, SettleMeans, Zenon
  <2>2. /\ drains[d] \in Drain /\ Becomes(d, drains[d]) /\ drains[d].at = "settle"
    BY <1>4, UnderWay DEF Settle
  <2>3. drains[d].next \in drains[d].next..Len(drains[d].batch)
    BY <2>2, LenProperties DEF Drain, Becomes
  <2>4. entries[Entry(d).id].state = "pending"
    BY <2>2, <2>3 DEF Becomes, Entry
  <2>5. Entry(d).id # i
    BY <2>4
  <2> QED
    BY <1>1, <2>1, <2>5
<1>5. CASE Tick
  <2>1. entries[i].wait = 0
    BY DEF Inv, Rest
  <2>2. entries'[i] = [entries[i] EXCEPT !.wait = Sooner(@)]
    BY <1>5 DEF Tick
  <2> QED
    BY <1>1, <2>1, <2>2, SoonerRow, Zenon
<1>6. CASE entries' = entries
  BY <1>6
<1> QED
  BY <1>2, <1>3, <1>4, <1>5, <1>6 DEF Next, vars, Begin, Finish, Take, Deliver, Stop

(***************************************************************************)
(* On one store object an entry that is delivered or dead stays as it is,  *)
(* for any overlap of scopes (outbox.ts:142, memory.ts:103).               *)
(***************************************************************************)
THEOREM SettledForGood == Spec => SettledIsFinal
<1>1. Inv /\ [Next]_vars =>
        (Owned => \A i \in Ids : entries[i].state \in {"delivered", "dead"} =>
                     entries'[i] = entries[i])
  BY SettledStays
<1> QED
  BY <1>1, InitInv, NextInv, PTL DEF Spec, SettledIsFinal
=============================================================================
