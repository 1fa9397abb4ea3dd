--------------------------- MODULE ProducerPolicy ---------------------------
(***************************************************************************)
(* The pure idempotency decision of a stream about a producer position     *)
(* (packages/core/src/policy/producer-idempotency-service.ts).             *)
(*                                                                         *)
(* A stream keeps, per producer id, the epoch and the last sequence number *)
(* it accepted, or None when the producer never wrote.  A position names   *)
(* one append of one producer: a retry of that append carries the same     *)
(* position.                                                               *)
(***************************************************************************)
EXTENDS Naturals

CONSTANTS ProducerIds,  \* names of idempotent producers
          None          \* the absent value (Option.none, undefined)

Position == [id : ProducerIds, epoch : Nat, seq : Nat]

ProducerState == [epoch : Nat, lastSeq : Nat]

ASSUME NoneAssumption ==
  None \notin Nat /\ None \notin Position /\ None \notin ProducerState

\* A slip in the policy: the next position is taken for a retry.
ValidateOneTooMany(state, position) ==
  IF state # None /\ position.epoch = state.epoch
  THEN IF position.seq <= state.lastSeq + 1 THEN "Duplicate" ELSE "ProducerGap"
  ELSE IF position.seq = 0 THEN "Accepted" ELSE "ProducerGap"

ValidateProducer(state, position) ==
  IF state = None
  THEN IF position.seq = 0 THEN "Accepted" ELSE "ProducerGap"
  ELSE IF position.epoch < state.epoch THEN "StaleEpoch"
  ELSE IF position.epoch > state.epoch
  THEN IF position.seq = 0 THEN "Accepted" ELSE "InvalidEpochSeq"
  ELSE IF position.seq <= state.lastSeq THEN "Duplicate"
  ELSE IF position.seq = state.lastSeq + 1 THEN "Accepted"
  ELSE "ProducerGap"

\* A slip: the position itself is stored.
ProposedPosition(position) == position

\* What the stream stores once it accepts the position.
ProposedState(position) == [epoch |-> position.epoch, lastSeq |-> position.seq]
=============================================================================
