---------------------------- MODULE DurableStream ----------------------------
(***************************************************************************)
(* What one durable stream promises, with every operation in one step: an  *)
(* append is checked against the stream as it is at the instant the append *)
(* takes effect.  StreamProtocol, where an append is planned from reads    *)
(* made earlier and committed under preconditions, implements this module. *)
(*                                                                         *)
(* The sources of the promises are AppendOptions and AppendResult of       *)
(* packages/core/src/protocol and the Storage contract of                  *)
(* packages/core/src/storage/mutation.ts.                                  *)
(***************************************************************************)
EXTENDS StreamRequests

CONSTANT Requests       \* what callers may ask

VARIABLES status,       \* "absent", "open", "closed" or "gone" (soft-deleted)
          log,          \* the messages of the stream, oldest first
          producers,    \* last accepted position of each producer, or None
          commits       \* changes so far; a message names the one it came with

vars == <<status, log, producers, commits>>

NoProducers == [p \in ProducerIds |-> None]

Init == status = "absent" /\ log = <<>> /\ producers = NoProducers /\ commits = 0

Create == \E req \in Requests :
  /\ req.kind = "create"
  /\ status = "absent"
  /\ commits' = commits + 1
  /\ log' = Batch(req, commits')
  /\ status' = IF req.close THEN "closed" ELSE "open"
  /\ producers' = NoProducers

(***************************************************************************)
(* An append takes effect only on an open stream, at its expected tail,    *)
(* with a position the stream accepts at this instant, and its messages,   *)
(* its position and its close take effect together.                        *)
(***************************************************************************)
Write == \E req \in Requests :
  /\ req.kind = "append"
  /\ status = "open"
  /\ commits' = commits + 1
  /\ req.expected # None => req.expected = Len(log)
  /\ IF req.position = None
     THEN UNCHANGED producers
     ELSE /\ ValidateProducer(producers[req.position.id], req.position) = "Accepted"
          /\ producers' = [producers EXCEPT
                             ![req.position.id] = ProposedState(req.position)]
  /\ req.count > 0 \/ req.close
  /\ log' = log \o Batch(req, commits')
  /\ status' = IF req.close THEN "closed" ELSE "open"

\* A stream leaves with everything it stored, at once or, when forks read it,
\* after a time in which it answers nobody but the forks.
Purge == /\ status # "absent"
         /\ status' = "absent" /\ log' = <<>> /\ producers' = NoProducers
         /\ commits' = commits + 1

SoftDelete == /\ status \in {"open", "closed"}
              /\ status' = "gone"
              /\ commits' = commits + 1
              /\ UNCHANGED <<log, producers>>

Next == Create \/ Write \/ Purge \/ SoftDelete

Spec == Init /\ [][Next]_vars
==============================================================================
