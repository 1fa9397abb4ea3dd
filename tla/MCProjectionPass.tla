-------------------------- MODULE MCProjectionPass --------------------------
(***************************************************************************)
(* Instances of ProjectionPass for TLC: two inputs and two outputs, with   *)
(* items that are written to both outputs, to one and to none.             *)
(***************************************************************************)
EXTENDS ProjectionPass, FiniteSets, TLC

CONSTANTS orders, stock, alerts, report, p1, r1, r2

InOrder == <<orders, stock>>
OutOrder == <<alerts, report>>

BothRoutes == orders :> << {alerts, report}, {report} >> @@ stock :> << {} >>

-----------------------------------------------------------------------------
(***************************************************************************)
(* Two writers race, on inputs that stay; or one follower fails at any     *)
(* step, on inputs of which one may be removed; or a new generation starts *)
(* while the old one still runs, and outputs are closed and removed.       *)
(***************************************************************************)
VARIABLE workload

Workload(w) ==
  CASE w = "writers" -> generation = [r \in Runners |-> 1] /\ followers = {}
    [] w = "life" -> generation = [r \in Runners |-> 1] /\ followers = {r1}
    [] w = "generations" -> /\ guarantee # "at-least-once"
                            /\ generation = (r1 :> 1 @@ r2 :> 2) /\ followers = {}

AllOpen == [o \in Outputs |-> "open"]

Within ==
  CASE workload = "writers" ->
         /\ aborts = 0 /\ outputs = AllOpen
         /\ \A i \in Inputs : inputs[i].present
         /\ ~inputs[stock].closed
    [] workload = "life" -> runner[r2] = Idle /\ outputs = AllOpen
    [] workload = "generations" ->
         /\ aborts = 0
         /\ \A i \in Inputs : inputs[i].present /\ ~inputs[i].closed
         /\ Cardinality({o \in Outputs : outputs[o] # "open"} \cup dropped) <= 1

MCInit == Init /\ workload \in {"writers", "life", "generations"} /\ Workload(workload)
MCNext == Next /\ UNCHANGED workload /\ Within'

\* The one follower is started again and again, whatever happened before, but needs no
\* repair interval; of two writers either may stop for ever, at any step.
MCSpec ==
  /\ MCInit /\ [][MCNext]_<<vars, workload>>
  /\ WF_<<vars, workload>>(workload = "life" /\ Pass(r1) /\ UNCHANGED workload)

(***************************************************************************)
(* What one writer that keeps trying comes to: CatchesUp, and              *)
(* EndedIsForgotten (run.ts).                                              *)
(***************************************************************************)
AloneFinishes == workload = "life" => CatchesUp(1) /\ EndedIsForgotten(1)
=============================================================================
