------------------------------ MODULE MCOutbox ------------------------------
(***************************************************************************)
(* TLC instance of Outbox: three payloads in two partitions, one of them   *)
(* poison, two transactions, two drains on one store object or on two.     *)
(***************************************************************************)
EXTENDS Outbox, TLC

CONSTANTS k1, k2, k3, red, blue, d1, d2

MCPartitionOf == k1 :> red @@ k2 :> blue @@ k3 :> red
MCBatches == {<<k1, k2>>, <<k2, k3>>}
MCDelays == <<1, 1>>

(* One store object, its scopes overlapping; two with disjoint scopes; and *)
(* two that overlap, which a host is told to avoid.                        *)
MCHosts ==
    LET all == {red, blue}
        Scopes(s, t) == d1 :> s @@ d2 :> t
        Wired(s, t, sc, o) == [store |-> d1 :> s @@ d2 :> t, scope |-> sc, ordered |-> o]
    IN  {Wired(1, 1, Scopes(all, {red}), TRUE),
         Wired(1, 1, Scopes(all, {red}), FALSE),
         Wired(1, 2, Scopes({red}, {blue}), TRUE),
         Wired(1, 2, Scopes(all, {red}), TRUE)}

-----------------------------------------------------------------------------
(* No entry waits for ever: every committed entry is delivered or dead in  *)
(* the end, behind any head of an ordered scope (outbox.ts:282).           *)
EverySettles ==
    \A n \in 1..3 :
        (n \in Ids /\ entries[n].state = "pending") ~>
            (n \in Ids /\ entries[n].state \in {"delivered", "dead"})
=============================================================================
