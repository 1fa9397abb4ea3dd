------------------------------ MODULE Wakeups -------------------------------
(***************************************************************************)
(* The scheduler of a Cloudflare object: wakeups that share the object's   *)
(* one alarm slot.  Requests commit work and reconcile the slot with the   *)
(* due times when they end; an alarm turn runs the wakeups that are due    *)
(* and reconciles in its turn.  The slot and the due times are stored; the *)
(* backoff, the turn and the reconciliations are lost when the object      *)
(* stops.                                                                  *)
(***************************************************************************)
EXTENDS Alarm

backoff == <<floor, steps, exhausted>>
vars == <<due, slot, object, backoff, turn, pass, requests, touched, unarmed, restarts, faults>>

Asleep == [at |-> "idle", wakeup |-> 1, since |-> 0, more |-> FALSE]
NoPass == [at |-> "free", who |-> Never, wakeup |-> 1, now |-> 0, target |-> Never]

(* An object opens on whatever an earlier one has stored and armed.        *)
Init ==
    /\ due = [w \in All |-> Never]
    /\ slot = Never
    /\ object = "down"
    /\ floor = [w \in All |-> -Late]
    /\ steps = [w \in All |-> 0]
    /\ exhausted = {}
    /\ turn = Asleep
    /\ pass = NoPass
    /\ requests = [r \in Requests |-> "idle"]
    /\ touched = [r \in Requests |-> {}]
    /\ unarmed = {}
    /\ restarts = MaxRestarts
    /\ faults = MaxFaults

-----------------------------------------------------------------------------
(***************************************************************************)
(* Backoff                                                                 *)
(***************************************************************************)

(* The next delay of the schedule, from the moment the clock was read,     *)
(* gives the floor; a schedule without one is exhausted.                   *)
BackOff(w, at) ==
    LET n == IF steps[w] < Len(Retry[w]) THEN steps[w] + 1 ELSE Len(Retry[w])
        ended == steps[w] >= Len(Retry[w]) /\ w \notin Endless
    IN  /\ steps' = [steps EXCEPT ![w] = n]
        /\ floor' = [floor EXCEPT ![w] = IF ended THEN -Late ELSE at + Retry[w][n]]
        /\ exhausted' = IF ended THEN exhausted \cup {w} ELSE exhausted

Recover(w) ==
    /\ steps' = [steps EXCEPT ![w] = 0]
    /\ floor' = [floor EXCEPT ![w] = -Late]
    /\ exhausted' = exhausted \ {w}

-----------------------------------------------------------------------------
(***************************************************************************)
(* Reconciliation                                                          *)
(***************************************************************************)

Begin(who) ==
    /\ pass.at = "free"
    /\ pass' = [NoPass EXCEPT !.at = "read", !.who = who]

(* The deadline of one wakeup is read.                                     *)
ReadDue ==
    /\ pass.at = "read"
    /\ pass.wakeup <= Count
    /\ pass' = [pass EXCEPT !.wakeup = @ + 1, !.target = Sooner(@, Deadline(pass.wakeup))]
    /\ UNCHANGED <<due, slot, object, backoff, turn, requests, touched, unarmed, restarts, faults>>

(* The read fails: the wakeup backs off once for each floor, and its floor *)
(* is read in place of its due time.                                       *)
ReadFails ==
    /\ pass.at = "read"
    /\ pass.wakeup <= Count
    /\ faults > 0
    /\ pass.wakeup \notin exhausted
    /\ faults' = faults - 1
    /\ LET w == pass.wakeup
       IN  /\ IF floor[w] <= pass.now THEN BackOff(w, pass.now) ELSE UNCHANGED backoff
           /\ pass' = [pass EXCEPT !.wakeup = w + 1,
                                   !.target = IF w \in exhausted' THEN @ ELSE Sooner(@, floor'[w])]
    /\ UNCHANGED <<due, slot, object, turn, requests, touched, unarmed, restarts>>

(* With nothing due the slot is cleared.  Else an alarm that comes in time *)
(* is kept, unless the turn's end forces a new one in place of its guard.  *)
Kept == pass.who # "turn" /\ slot # Never /\ pass.now < slot /\ slot <= pass.target

(* What ends with the reconciliation: the request, the acquisition or the  *)
(* turn that it belongs to.                                                *)
Conclude ==
    /\ pass' = NoPass
    /\ object' = IF pass.who = "acquire" THEN "up" ELSE object
    /\ unarmed' = IF pass.who \in Requests THEN unarmed ELSE {}
    /\ turn' = IF pass.who = "turn" THEN Asleep ELSE turn
    /\ IF pass.who \in Requests
       THEN /\ requests' = [requests EXCEPT ![pass.who] = "idle"]
            /\ touched' = [touched EXCEPT ![pass.who] = {}]
       ELSE UNCHANGED <<requests, touched>>

(* An alarm that is overdue is deleted before the new one is set.          *)
Replace ==
    IF slot # Never /\ slot <= pass.now
    THEN slot' = Never /\ pass' = [pass EXCEPT !.at = "cleared"]
    ELSE UNCHANGED slot /\ pass' = [pass EXCEPT !.at = "arm"]

Compare ==
    /\ pass.at = "read"
    /\ pass.wakeup > Count
    /\ IF pass.target = Never
       THEN slot' = Never /\ Conclude
       ELSE IF Kept
       THEN UNCHANGED slot /\ Conclude
       ELSE /\ Replace
            /\ UNCHANGED <<object, unarmed, turn, requests, touched>>
    /\ UNCHANGED <<due, backoff, restarts, faults>>

Arm ==
    /\ pass.at \in {"arm", "cleared"}
    /\ slot' = Later(pass.target, pass.now + 1)
    /\ Conclude
    /\ UNCHANGED <<due, backoff, restarts, faults>>

-----------------------------------------------------------------------------
(***************************************************************************)
(* The object and its requests                                             *)
(***************************************************************************)

(* A request, or an alarm, acquires the object: it reconciles and serves.  *)
Acquire ==
    /\ object = "down"
    /\ object' = "acquiring"
    /\ Begin("acquire")
    /\ UNCHANGED <<due, slot, backoff, turn, requests, touched, unarmed, restarts, faults>>

(* A request commits: work of a wakeup becomes due now, later, or not at   *)
(* all.                                                                    *)
Handle(r, w, at) ==
    /\ object = "up"
    /\ requests[r] = "idle"
    /\ due[w] # at
    /\ due' = [due EXCEPT ![w] = at]
    /\ requests' = [requests EXCEPT ![r] = "handler"]
    /\ touched' = [touched EXCEPT ![r] = {w}]
    /\ UNCHANGED <<slot, object, backoff, turn, pass, unarmed, restarts, faults>>

(* The handler returns, fails or is interrupted: in each case its          *)
(* finalizer reconciles, once it has the permit.                           *)
ReturnUnlessInterrupted(r) ==
    /\ requests[r] = "handler"
    /\ \/ /\ requests' = [requests EXCEPT ![r] = "reconcile"]
          /\ Begin(r)
          /\ UNCHANGED touched
       \/ /\ requests' = [requests EXCEPT ![r] = "idle"]
          /\ touched' = [touched EXCEPT ![r] = {}]
          /\ UNCHANGED pass
    /\ UNCHANGED <<due, slot, object, backoff, turn, unarmed, restarts, faults>>
Return(r) ==
    /\ requests[r] = "handler"
    /\ requests' = [requests EXCEPT ![r] = "reconcile"]
    /\ Begin(r)
    /\ UNCHANGED <<due, slot, object, backoff, turn, touched, unarmed, restarts, faults>>

(* The object stops.  An alarm whose turn had not armed its guard yet is   *)
(* delivered again; one that was deleted to be replaced is not.            *)
Stop ==
    /\ object # "down"
    /\ restarts > 0
    /\ restarts' = restarts - 1
    /\ object' = "down"
    /\ unarmed' = IF pass.at = "cleared" THEN All
              ELSE unarmed \cup exhausted \cup Touched
    /\ slot' = IF turn.at = "fired" THEN 0 ELSE slot
    /\ floor' = [w \in All |-> -Late]
    /\ steps' = [w \in All |-> 0]
    /\ exhausted' = {}
    /\ turn' = Asleep
    /\ pass' = NoPass
    /\ requests' = [r \in Requests |-> "idle"]
    /\ touched' = [r \in Requests |-> {}]
    /\ UNCHANGED <<due, faults>>

-----------------------------------------------------------------------------
(***************************************************************************)
(* The alarm turn                                                          *)
(***************************************************************************)

(* The platform empties the slot and calls the object, which it starts     *)
(* first when it is down (Acquire).                                        *)
Fire ==
    /\ object = "up"
    /\ turn.at = "idle"
    /\ slot # Never
    /\ slot <= 0
    /\ slot' = Never
    /\ turn' = [Asleep EXCEPT !.at = "fired"]
    /\ UNCHANGED <<due, object, backoff, pass, requests, touched, unarmed, restarts, faults>>

Unguarded ==
    /\ turn.at = "fired"
    /\ turn' = [turn EXCEPT !.at = "visit"]
    /\ UNCHANGED <<due, slot, object, backoff, pass, requests, touched, unarmed, restarts, faults>>
GuardTurn ==
    /\ turn.at = "fired"
    /\ slot' = Guard
    /\ turn' = [turn EXCEPT !.at = "visit"]
    /\ UNCHANGED <<due, object, backoff, pass, requests, touched, unarmed, restarts, faults>>

(* The wakeups that a turn gives a sooner deadline when no alarm that soon *)
(* is left: a request has replaced the guard, or its reconciliation has    *)
(* already passed them.                                                    *)
Hastened(w) ==
    /\ Deadline(w)' # Never
    /\ Deadline(w) # Never => Deadline(w)' < Deadline(w)
Overtaken == {w \in All : Hastened(w) /\ (slot = Never \/ slot > Guard \/ w < pass.wakeup)}

OnTo == [Asleep EXCEPT !.at = "visit", !.wakeup = turn.wakeup + 1]

(* A wakeup runs when it is due, its floor is past and its schedule goes   *)
(* on.                                                                     *)
Visit ==
    /\ turn.at = "visit"
    /\ turn.wakeup <= Count
    /\ LET w == turn.wakeup
           runs == w \notin exhausted /\ floor[w] <= 0 /\ due[w] # Never /\ due[w] <= 0
       IN  turn' = IF runs THEN [turn EXCEPT !.at = "run", !.since = 0] ELSE OnTo
    /\ UNCHANGED <<due, slot, object, backoff, pass, requests, touched, unarmed, restarts, faults>>

(* The work that a run of w leaves: its own, and what it feeds to others.  *)
(* A run whose work a request has done in the meantime changes nothing.    *)
Leaves(w, at, fed) ==
    IF due[w] = Never THEN due
    ELSE [v \in All |-> IF v = w THEN at ELSE IF v \in fed THEN 0 ELSE due[v]]
Fed(w) == SUBSET {v \in All : <<w, v>> \in Feeds}

(* The run changes the work of its wakeup and reports whether it stopped   *)
(* at its bound; one that has not done its work may change nothing.        *)
Run(at, more, fed) ==
    /\ turn.at = "run"
    /\ more => at = due[turn.wakeup]
    /\ due' = Leaves(turn.wakeup, at, fed)
    /\ turn' = [turn EXCEPT !.at = "after", !.more = more]
    /\ UNCHANGED <<slot, object, backoff, pass, requests, touched, restarts, faults>>
    /\ unarmed' = unarmed \cup Overtaken

(* A run that left work which was due before it backs off as one that      *)
(* failed; any other recovers.                                             *)
After ==
    /\ turn.at = "after"
    /\ LET w == turn.wakeup
           stuck == ~turn.more /\ due[w] # Never /\ due[w] <= turn.since
       IN  IF stuck THEN BackOff(w, 0) ELSE Recover(w)
    /\ turn' = OnTo
    /\ UNCHANGED <<due, slot, object, pass, requests, touched, restarts, faults>>
    /\ unarmed' = unarmed \cup Overtaken

(* The run fails, with or without a change to its work.                    *)
RunFails(at, fed) ==
    /\ turn.at = "run"
    /\ due' = Leaves(turn.wakeup, at, fed)
    /\ BackOff(turn.wakeup, 0)
    /\ turn' = OnTo
    /\ UNCHANGED <<slot, object, pass, requests, touched, restarts, faults>>
    /\ unarmed' = unarmed \cup Overtaken

(* The read of the due time fails, before or after the run.                *)
VisitFails ==
    /\ turn.at \in {"visit", "after"}
    /\ turn.wakeup <= Count
    /\ faults > 0
    /\ faults' = faults - 1
    /\ turn.at = "visit" => turn.wakeup \notin exhausted /\ floor[turn.wakeup] <= 0
    /\ BackOff(turn.wakeup, 0)
    /\ turn' = OnTo
    /\ UNCHANGED <<due, slot, object, pass, requests, touched, restarts>>
    /\ unarmed' = unarmed \cup Overtaken

(* The turn ends with a reconciliation that replaces its guard.            *)
Close ==
    /\ turn.at = "visit"
    /\ turn.wakeup > Count
    /\ turn' = [turn EXCEPT !.at = "close"]
    /\ Begin("turn")
    /\ UNCHANGED <<due, slot, object, backoff, requests, touched, unarmed, restarts, faults>>

-----------------------------------------------------------------------------
(* Time passes, but not while a time that is still compared with others    *)
(* would be kept as too late.                                              *)
Earlier(t) == IF t = Never \/ t = -Late THEN t ELSE t - 1
Tick ==
    /\ turn.at \in {"run", "after"} => turn.since > -Late
    /\ pass.at # "free" => pass.now > -Late
    /\ due' = [w \in All |-> Earlier(due[w])]
    /\ slot' = Earlier(slot)
    /\ floor' = [w \in All |-> Earlier(floor[w])]
    /\ turn' = IF turn.at \in {"run", "after"} THEN [turn EXCEPT !.since = @ - 1] ELSE turn
    /\ pass' = IF pass.at = "free" THEN pass
               ELSE [pass EXCEPT !.now = @ - 1, !.target = Earlier(@)]
    /\ UNCHANGED <<object, steps, exhausted, requests, touched, unarmed, restarts, faults>>

Reconciles == ReadDue \/ ReadFails \/ Compare \/ Arm
Turns ==
    \/ Fire \/ GuardTurn \/ Visit \/ After \/ VisitFails \/ Close
    \/ /\ turn.at = "run"
       /\ \E fed \in Fed(turn.wakeup), more \in BOOLEAN,
             at \in {Never, due[turn.wakeup]} \cup 1..Horizon :
             Run(at, more, fed) \/ RunFails(at, fed)

Next ==
    \/ Acquire \/ Stop \/ Tick \/ Reconciles \/ Turns
    \/ \E r \in Requests, w \in All, at \in {Never} \cup 0..Horizon : Handle(r, w, at)
    \/ \E r \in Requests : Return(r)

Spec == Init /\ [][Next]_vars

(* The clock goes on, the platform calls the object when its alarm is due, *)
(* and its turns, reconciliations and finalizers go on while it runs.      *)
FairSpec ==
    /\ Spec
    /\ WF_vars(Tick)
    /\ WF_vars(Acquire /\ slot # Never /\ slot <= 0)
    /\ WF_vars(Reconciles)
    /\ SF_vars(Turns)
    /\ \A r \in Requests : SF_vars(Return(r))
=============================================================================
