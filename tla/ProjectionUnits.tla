--------------------------- MODULE ProjectionUnits ---------------------------
(***************************************************************************)
(* The units of work of a projection (packages/projection/src/unit.ts).    *)
(*                                                                         *)
(* A projection reads input streams and writes output streams.  An item is *)
(* named by its input and its offset, and all that matters of its content  *)
(* is the set of outputs the handler writes for it.  A unit is a range of  *)
(* each input, handled together from one state; the state is abstracted to *)
(* the number of units folded into it.  A generation of the projection     *)
(* reads everything from the start, and its units are its own.             *)
(***************************************************************************)
EXTENDS Naturals, Sequences, FiniteSets, ProducerPolicy

CONSTANTS Inputs,   \* input names
          Outputs,  \* output names
          Routes    \* per input, the outputs of each of its items in order

ASSUME RoutesAssumption == Routes \in [Inputs -> Seq(SUBSET Outputs)]

Unit == [generation : Nat, from : [Inputs -> Nat], next : [Inputs -> Nat],
         closed : SUBSET Inputs, gone : SUBSET Inputs, state : Nat]

ASSUME UnitAssumption == None \notin Unit

\* The items of one input in a unit.
Items(unit, i) == {k \in 1..Len(Routes[i]) : unit.from[i] < k /\ k <= unit.next[i]}

Emits(unit, o) == \E i \in Inputs : \E k \in Items(unit, i) : o \in Routes[i][k]

\* The units of a generation among those that an output holds, in order.
OfGeneration(held, g) ==
  LET at == {m \in 1..Len(held) : held[m].generation = g}
      nth(k) == CHOOSE m \in at : Cardinality({n \in at : n <= m}) = k
  IN  [k \in 1..Cardinality(at) |-> held[nth(k)]]

\* One unit comes wholly before another: no item is in both.
Before(u, v) == \A i \in Inputs : u.next[i] <= v.from[i]

NoItems == [i \in Inputs |-> 0]

\* What an output holds once it receives its items of a unit, if it has any.
Received(held, unit, o) == IF Emits(unit, o) THEN Append(held, unit) ELSE held
==============================================================================
