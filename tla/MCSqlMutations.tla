--------------------------- MODULE MCSqlMutations ---------------------------
(* Instances of SqlMutations for TLC. *)
EXTENDS SqlMutations, TLC

Root(tail, soft) ==
  [parent |-> None, at |-> 0, tail |-> tail, softDeleted |-> soft, log |-> Written(0, tail, 0)]
Fork(x, at, soft) ==
  [parent |-> x, at |-> at, tail |-> at, softDeleted |-> soft, log |-> {}]

\* An order of the ids, and the first, second and third id.
MCOrder == CHOOSE order \in [Ids -> 1..3] : \A x, y \in Ids : x # y => order[x] # order[y]
Nth(n) == CHOOSE id \in Ids : MCOrder[id] = n

\* Nothing; an empty stream; a stream and a fork; a soft-deleted stream with two forks; a
\* soft-deleted stream whose only fork is soft-deleted for its own.  A parent comes before
\* its forks, so that a purge locks against the order.
MCForests ==
  LET x == Nth(1)
      y == Nth(2)
  IN  {[id \in Ids |-> None],
       [id \in Ids |-> IF id = x THEN Root(0, FALSE) ELSE None],
       [id \in Ids |-> CASE id = x -> Root(1, FALSE) [] id = y -> Fork(x, 1, FALSE) [] OTHER -> None],
       [id \in Ids |-> IF id = x THEN Root(1, TRUE) ELSE Fork(x, 1, FALSE)],
       [id \in Ids |-> CASE id = x -> Root(1, TRUE) [] id = y -> Fork(x, 1, TRUE)
                         [] OTHER -> Fork(y, 1, FALSE)]}

Symmetry == Permutations(Callers)
=============================================================================
