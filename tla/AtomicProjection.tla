-------------------------- MODULE AtomicProjection --------------------------
(***************************************************************************)
(* What a generation of a projection promises: a unit of its inputs is     *)
(* taken, folded into the state and written to the outputs in one step,    *)
(* and the unit that finds an input gone is the last.  An output is the    *)
(* sequence of the units whose items it received.                          *)
(*                                                                         *)
(* This is the guarantee "exactly-once" or "effectively-once" of a Commit  *)
(* (packages/projection/src/commit/model.ts).                              *)
(***************************************************************************)
EXTENDS ProjectionUnits

CONSTANT Generation

VARIABLES offset,  \* the items of each input taken so far
          state,   \* the units folded so far
          ended,   \* the last unit was taken
          outs     \* the units each output received

vars == <<offset, state, ended, outs>>

Init == /\ offset = NoItems /\ state = 0 /\ ended = FALSE
        /\ outs = [o \in Outputs |-> <<>>]

Offsets == UNION {0..Len(Routes[i]) : i \in Inputs}

\* Take the items up to the next offsets; closed and gone are told to the handler.
Take(next) ==
  /\ ~ended
  /\ \A i \in Inputs : offset[i] <= next[i] /\ next[i] <= Len(Routes[i])
  /\ offset' = next
  /\ state' = state + 1
  /\ \E closed, gone \in SUBSET Inputs :
       LET unit == [generation |-> Generation, from |-> offset, next |-> next,
                    closed |-> closed, gone |-> gone, state |-> state]
       IN  /\ ended' = (gone # {})
           /\ outs' = [o \in Outputs |-> Received(outs[o], unit, o)]

Next == \E next \in [Inputs -> Offsets] : Take(next)

Spec == Init /\ [][Next]_vars
=============================================================================
