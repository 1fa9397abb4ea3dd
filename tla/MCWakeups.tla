------------------------------ MODULE MCWakeups -----------------------------
(***************************************************************************)
(* TLC instance of Wakeups: a wakeup that is not retried and commits work  *)
(* of another, whose schedule goes on, and a request.                      *)
(***************************************************************************)
EXTENDS Wakeups

MCRetry == <<<<>>, <<1>>>>
MCFeeds == {<<1, 2>>}

-----------------------------------------------------------------------------
(* Work that is overdue is run in the end, also when the object stops in   *)
(* between, unless it is no longer due, its schedule can end, or a stop    *)
(* leaves it without an alarm (unarmed; wakeup.ts:208, wakeup.ts:236).     *)
Overdue(w) == due[w] # Never /\ due[w] <= 0
OverdueRuns ==
    \A w \in Endless :
        (Overdue(w) /\ w \notin unarmed \cup Touched)
            ~> (~Overdue(w) \/ (turn.at = "run" /\ turn.wakeup = w) \/ w \in unarmed)
=============================================================================
