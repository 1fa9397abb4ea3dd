------------------------------- MODULE Outbox -------------------------------
(***************************************************************************)
(* The transactional outbox: entries enqueued inside the transactions of   *)
(* their causes, and drains that deliver them in bounded passes.  Drains   *)
(* on one store object take turns under its permit of the name; drains on  *)
(* different store objects, or processes, overlap.  Time is kept as the    *)
(* time left: an entry whose wait is zero is due.                          *)
(***************************************************************************)
EXTENDS Naturals, Sequences

CONSTANTS Keys,          \* idempotency keys, one payload each
          Partitions,    \* the partitions of the outbox name
          PartitionOf,   \* the partition of a key's payload
          Poison,        \* keys whose stored payload no longer decodes
          Producers,     \* transactions that enqueue, one at a time each
          Batches,       \* the sequences of payloads an enqueue passes
          Drains,        \* callers of drain
          Hosts,         \* the ways a host sets its drains up: the store object
                         \* and the partitions of each, and the order
          MaxEntries,    \* bound: rows of the table
          Limit,         \* the most entries of one pass
          MaxAttempts,   \* of the retry policy
          Delays,        \* the wait after attempt n is Delays[n]
          MaxFaults      \* bound: interruptions and storage faults

ASSUME OutboxAssumption ==
    /\ PartitionOf \in [Keys -> Partitions]
    /\ Poison \subseteq Keys
    /\ Batches \subseteq Seq(Keys)
    /\ Limit \in Nat \ {0}
    /\ MaxAttempts \in Nat \ {0}
    /\ Delays \in [1..MaxAttempts -> Nat]
    /\ MaxFaults \in Nat
    /\ \A h \in Hosts : \A p \in Partitions : \E d \in Drains : p \in h.scope[d]
    /\ \A h \in Hosts : h.ordered \in BOOLEAN

VARIABLES
    entries,    \* the table, in the order of its ids
    store,      \* the store object each drain goes through
    scope,      \* the partitions each drain selects
    ordered,    \* whether the drains of the name are ordered
    drains,     \* where each drain is in its pass
    reached,    \* ids whose delivery reached the receiver at least once
    outcomes,   \* how many outcomes were stored of each id, up to MaxAttempts + 1
    faults      \* interruptions and storage faults left

vars == <<entries, store, scope, ordered, drains, reached, outcomes, faults>>
host == <<store, scope, ordered>>

Ids == 1..Len(entries)
Idle == [at |-> "idle", batch |-> <<>>, next |-> 1, outcome |-> "none"]

(* A host chooses the store objects, scopes and order of its drains once.  *)
Init ==
    /\ entries = <<>>
    /\ \E h \in Hosts : store = h.store /\ scope = h.scope /\ ordered = h.ordered
    /\ drains = [d \in Drains |-> Idle]
    /\ reached = {}
    /\ outcomes = <<>>
    /\ faults = MaxFaults

-----------------------------------------------------------------------------
(***************************************************************************)
(* Enqueueing                                                              *)
(***************************************************************************)

Known(k) == \E i \in Ids : entries[i].key = k /\ entries[i].state # "aborted"
Open(p) == {i \in Ids : entries[i].state = "open" /\ entries[i].by = p}

Draft(k, p) == [key |-> k, by |-> p, state |-> "open", attempts |-> 0, wait |-> 0]

(* One insert for each draft of the batch, in its transaction.  A draft    *)
(* with a known key changes nothing; an insert waits for an open           *)
(* transaction that holds its key.                                         *)
Enqueue(p, batch) ==
    /\ Open(p) = {}
    /\ \A i \in Ids, n \in DOMAIN batch : entries[i].state = "open" => entries[i].key # batch[n]
    /\ \E fresh \in UNION {[1..n -> Keys] : n \in 1..(MaxEntries - Len(entries))} :
          /\ fresh = SelectSeq(batch, LAMBDA k : ~Known(k))
          /\ entries' = entries \o [n \in 1..Len(fresh) |-> Draft(fresh[n], p)]
          /\ outcomes' = outcomes \o [n \in 1..Len(fresh) |-> 0]
    /\ UNCHANGED <<host, drains, reached, faults>>

(* The transaction of the cause commits, or rolls back with its drafts.    *)
End(p, state) ==
    /\ Open(p) # {}
    /\ entries' = [i \in Ids |-> IF i \in Open(p)
                                 THEN [entries[i] EXCEPT !.state = state] ELSE entries[i]]
    /\ UNCHANGED <<host, drains, reached, outcomes, faults>>

-----------------------------------------------------------------------------
(***************************************************************************)
(* A drain                                                                 *)
(***************************************************************************)

InScope(d) == {i \in Ids : /\ entries[i].state = "pending"
                           /\ PartitionOf[entries[i].key] \in scope[d]}

(* The pending entries of the scope: those that are due, or all of them    *)
(* when the scope is ordered.                                              *)
Due(d) == {i \in InScope(d) : ordered \/ entries[i].wait = 0}

(* The ids a pass reads: the first ones by id, at most Limit.              *)
First(due) ==
    {ids \in UNION {[1..n -> due] : n \in 1..Limit} :
        /\ \A m, n \in 1..Len(ids) : m < n => ids[m] < ids[n]
        /\ \A i \in due : (\A n \in 1..Len(ids) : ids[n] # i) =>
              Len(ids) = Limit /\ \A n \in 1..Len(ids) : ids[n] < i}

Read(i) == [id |-> i, attempts |-> entries[i].attempts, wait |-> entries[i].wait]

(* The permit of the name belongs to the store object.                     *)
PermitFreePerScope(d) ==
    \A e \in Drains : store[e] = store[d] /\ scope[e] = scope[d] => drains[e].at = "idle"
PermitFree(d) ==
    \A e \in Drains : store[e] = store[d] => drains[e].at = "idle"

Begin(d) ==
    /\ PermitFree(d)
    /\ \E ids \in First(Due(d)) :
          drains' = [drains EXCEPT ![d] =
              [at |-> "next", batch |-> [n \in 1..Len(ids) |-> Read(ids[n])],
               next |-> 1, outcome |-> "none"]]
    /\ UNCHANGED <<entries, host, reached, outcomes, faults>>

Entry(d) == drains[d].batch[drains[d].next]

(* The pass ends after its last entry, or at one that is not due yet.      *)
Finish(d) ==
    /\ drains[d].at = "next"
    /\ \/ drains[d].next > Len(drains[d].batch)
       \/ /\ drains[d].next <= Len(drains[d].batch)
          /\ Entry(d).wait > 0
    /\ drains' = [drains EXCEPT ![d] = Idle]
    /\ UNCHANGED <<entries, host, reached, outcomes, faults>>

(* The next entry is decoded: poison goes to its settlement undelivered.   *)
Take(d) ==
    /\ drains[d].at = "next"
    /\ drains[d].next <= Len(drains[d].batch)
    /\ Entry(d).wait = 0
    /\ drains' = [drains EXCEPT ![d] =
          IF entries[Entry(d).id].key \in Poison
          THEN [@ EXCEPT !.at = "settle", !.outcome = "poison"]
          ELSE [@ EXCEPT !.at = "deliver"]]
    /\ UNCHANGED <<entries, host, reached, outcomes, faults>>

(* The delivery returns: it succeeded, was refused for good, failed before *)
(* it reached the receiver, or failed after it (a lost answer).            *)
Deliver(d, outcome, reaches) ==
    /\ drains[d].at = "deliver"
    /\ outcome = "delivered" => reaches
    /\ outcome = "refused" => ~reaches
    /\ drains' = [drains EXCEPT ![d].at = "settle", ![d].outcome = outcome]
    /\ reached' = IF reaches THEN reached \cup {Entry(d).id} ELSE reached
    /\ UNCHANGED <<entries, host, outcomes, faults>>

(* What one finished delivery records, after a slip of it.                 *)
ClassifyFailureDone(outcome, attempt) ==
    IF outcome \in {"delivered", "failed"} THEN "delivered" ELSE "dead"
Classify(outcome, attempt) ==
    CASE outcome = "delivered" -> "delivered"
      [] outcome \in {"refused", "poison"} -> "dead"
      [] OTHER -> IF attempt >= MaxAttempts THEN "dead" ELSE "pending"

Wait(outcome, attempt) ==
    IF Classify(outcome, attempt) = "pending" THEN Delays[attempt] ELSE 0

(* A retry ends an ordered pass.                                           *)
NeverStops(d, state) == FALSE
Stops(d, state) == ordered /\ state = "pending"

(* The number of the attempt, from the entry as the pass has read it.      *)
AttemptUncounted(d) == IF Entry(d).attempts = 0 THEN 1 ELSE Entry(d).attempts
Attempt(d) == Entry(d).attempts + 1

Onward(f) == [f EXCEPT !.at = "next", !.next = @ + 1, !.outcome = "none"]

(* The settlement overwrites the row, whatever it holds by now.            *)
Settle(d) ==
    /\ drains[d].at = "settle"
    /\ LET attempt == Attempt(d)
           state == Classify(drains[d].outcome, attempt)
       IN  /\ entries' = [entries EXCEPT ![Entry(d).id] =
                 [@ EXCEPT !.state = state, !.attempts = attempt,
                           !.wait = Wait(drains[d].outcome, attempt)]]
           /\ drains' = [drains EXCEPT ![d] =
                 IF Stops(d, state) THEN Idle ELSE Onward(drains[d])]
    /\ outcomes' = [outcomes EXCEPT ![Entry(d).id] = IF @ > MaxAttempts THEN @ ELSE @ + 1]
    /\ UNCHANGED <<host, reached, faults>>

(* The drain is interrupted, or a storage fault ends it, at any point: the *)
(* permit is released, the entry stays as it is stored.  A delivery under  *)
(* way may have reached the receiver.                                      *)
Stop(d, reaches) ==
    /\ drains[d].at # "idle"
    /\ reaches => drains[d].at = "deliver"
    /\ faults > 0
    /\ faults' = faults - 1
    /\ drains' = [drains EXCEPT ![d] = Idle]
    /\ reached' = IF reaches THEN reached \cup {Entry(d).id} ELSE reached
    /\ UNCHANGED <<entries, host, outcomes>>

(* Time passes for stored deadlines, and for those a pass has read.        *)
Sooner(n) == IF n > 0 THEN n - 1 ELSE 0

Tick ==
    /\ \E i \in Ids : entries[i].wait > 0
    /\ entries' = [i \in Ids |-> [entries[i] EXCEPT !.wait = Sooner(@)]]
    /\ drains' = [d \in Drains |-> [drains[d] EXCEPT !.batch =
          [n \in 1..Len(drains[d].batch) |->
              [drains[d].batch[n] EXCEPT !.wait = Sooner(@)]]]]
    /\ UNCHANGED <<host, reached, outcomes, faults>>

Next ==
    \/ \E p \in Producers, batch \in Batches : Enqueue(p, batch)
    \/ \E p \in Producers : End(p, "pending") \/ End(p, "aborted")
    \/ \E d \in Drains : Begin(d) \/ Finish(d) \/ Take(d) \/ Settle(d)
    \/ \E d \in Drains, reaches \in BOOLEAN :
          \/ \E outcome \in {"delivered", "refused", "failed"} :
                Deliver(d, outcome, reaches)
          \/ Stop(d, reaches)
    \/ Tick

(* A host repeats its drains, and a delivery returns.                      *)
Pass(d) ==
    \/ Begin(d) \/ Finish(d) \/ Take(d) \/ Settle(d)
    \/ \E outcome \in {"delivered", "refused", "failed"}, reaches \in BOOLEAN :
          Deliver(d, outcome, reaches)

Spec == Init /\ [][Next]_vars
FairSpec == Spec /\ WF_vars(Tick) /\ \A d \in Drains : SF_vars(Pass(d))

-----------------------------------------------------------------------------
(***************************************************************************)
(* Properties                                                              *)
(***************************************************************************)

(* Drains whose scopes overlap share their store object.                   *)
Owned == \A d, e \in Drains : store[d] # store[e] => scope[d] \cap scope[e] = {}

(* Type correctness of the table and of the passes, with attempts within   *)
(* the retry policy (outbox.ts:174).                                       *)
Row == [key : Keys, by : Producers, attempts : 0..MaxAttempts, wait : Nat,
        state : {"open", "aborted", "pending", "delivered", "dead"}]

Copy == [id : Nat, attempts : 0..MaxAttempts, wait : Nat]

Drain == [at : {"idle", "next", "deliver", "settle"}, batch : Seq(Copy),
          next : 1..(Limit + 1),
          outcome : {"none", "delivered", "refused", "failed", "poison"}]

TypeOK ==
    /\ entries \in Seq(Row)
    /\ ordered \in BOOLEAN
    /\ drains \in [Drains -> Drain]
    /\ reached \subseteq Ids
    /\ outcomes \in Seq(0..(MaxAttempts + 1)) /\ Len(outcomes) = Len(entries)
    /\ faults \in 0..MaxFaults
    /\ \A i \in Ids : entries[i].state = "pending" => entries[i].attempts < MaxAttempts

(* An entry marked delivered did reach its receiver, whatever drains       *)
(* overlapped, were interrupted or lost an answer (outbox.ts:174).         *)
DeliveredReached ==
    \A i \in Ids : entries[i].state = "delivered" => i \in reached

(* On one store object the attempts of an entry count its stored outcomes: *)
(* no settlement overwrites another it has not seen (outbox.ts:142).       *)
AttemptsCountOutcomes ==
    Owned => \A i \in Ids : entries[i].attempts = outcomes[i]

(* The table tells the truth about what was sent.                          *)
Accounted == TypeOK /\ DeliveredReached /\ AttemptsCountOutcomes

(* An ordered pass delivers an entry only when all those it read before it *)
(* are delivered or dead (outbox.ts:282).                                  *)
HeadFirst ==
    ordered /\ Owned =>
        \A d \in Drains : drains[d].at \in {"deliver", "settle"} =>
            \A n \in 1..(drains[d].next - 1) :
                entries[drains[d].batch[n].id].state \in {"delivered", "dead"}

(* On one store object a settled entry stays as it was settled, for any    *)
(* overlap of scopes (outbox.ts:142, memory.ts:103).                       *)
SettledIsFinal ==
    [][Owned => \A i \in Ids : entries[i].state \in {"delivered", "dead"} =>
          entries'[i] = entries[i]]_vars
=============================================================================
