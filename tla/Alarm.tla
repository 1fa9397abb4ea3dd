------------------------------- MODULE Alarm --------------------------------
(***************************************************************************)
(* What the scheduler of a Cloudflare object (Wakeups) keeps, and what its *)
(* one alarm slot promises to the work that is waiting.                    *)
(*                                                                         *)
(* Time is kept as the time left, down to -Late: zero is now, and -Late is *)
(* that long ago or longer.                                                *)
(***************************************************************************)
EXTENDS Integers, Sequences

CONSTANTS Count,        \* wakeups are visited in the order 1..Count
          Requests,     \* requests of the object
          Guard,        \* the recovery alarm of a turn
          Horizon,      \* bound: how far ahead work is due
          Late,         \* bound: how far back a time is kept
          Retry,        \* the delays of each wakeup's retry schedule
          Endless,      \* wakeups whose schedule repeats its last delay
          Feeds,        \* <<v, w>>: a run of v can commit work of w
          Never,        \* no time
          MaxRestarts,  \* bound: how often the object stops
          MaxFaults     \* bound: failed reads of a due time

ASSUME AlarmAssumption ==
    /\ Count \in Nat \ {0}
    /\ Guard \in Nat \ {0}
    /\ Horizon \in Nat
    /\ Late \in Nat \ {0}
    /\ Retry \in [1..Count -> Seq(Nat \ {0})]
    /\ Endless \subseteq 1..Count
    /\ \A w \in Endless : Retry[w] # <<>>
    /\ Feeds \subseteq (1..Count) \X (1..Count)
    /\ Never \notin Int \cup Requests \cup {"turn", "acquire"}
    /\ Requests \cap {"turn", "acquire"} = {}
    /\ MaxRestarts \in Nat
    /\ MaxFaults \in Nat

VARIABLES
    due,        \* the committed due time of each wakeup, or Never
    slot,       \* the alarm slot, or Never
    object,     \* "down", "acquiring" or "up"
    floor,      \* the time before which a wakeup does not run
    steps,      \* the delays a wakeup has taken from its schedule
    exhausted,  \* wakeups whose schedule has ended
    turn,       \* the alarm turn
    pass,       \* the reconciliation that holds the permit
    requests,   \* where each request is
    touched,    \* the wakeups whose due time a request has changed
    unarmed,    \* wakeups whose work was left without an alarm
    restarts,   \* how often the object may still stop
    faults      \* reads of a due time that may still fail

All == 1..Count
Later(s, t) == IF s > t THEN s ELSE t
Sooner(s, t) == IF s = Never \/ (t # Never /\ t < s) THEN t ELSE s

(* An exhausted wakeup has no deadline, and none comes before its floor.   *)
Deadline(w) ==
    IF w \in exhausted \/ due[w] = Never THEN Never ELSE Later(due[w], floor[w])

Touched == UNION {touched[r] : r \in Requests}

-----------------------------------------------------------------------------
(* Type correctness, with every backoff inside its schedule                *)
(* (wakeup.ts:167).                                                        *)
ScheduleOK(w) ==
    /\ steps[w] <= Len(Retry[w])
    /\ floor[w] <= 0 \/ \E n \in DOMAIN Retry[w] : floor[w] <= Retry[w][n]

Time == {t \in Int : t >= -Late}

Turn ==
    [at : {"idle", "fired", "visit", "run", "after", "close"},
     wakeup : 1..(Count + 1), since : -Late..0, more : BOOLEAN]

Pass ==
    [at : {"free", "read", "arm", "cleared"}, who : Requests \cup {"turn", "acquire", Never},
     wakeup : 1..(Count + 1), now : -Late..0, target : {Never} \cup Time]

TurnOK == turn \in Turn /\ (turn.at \in {"run", "after"} => turn.wakeup \in All)

PassOK ==
    /\ pass \in Pass
    /\ pass.at # "free" => pass.who # Never
    /\ pass.at \in {"arm", "cleared"} => pass.target # Never /\ pass.wakeup = Count + 1

WellTyped ==
    /\ due \in [All -> {Never} \cup -Late..Horizon]
    /\ slot \in {Never} \cup Time
    /\ object \in {"down", "acquiring", "up"}
    /\ steps \in [All -> Nat]
    /\ floor \in [All -> Time]
    /\ \A w \in All : ScheduleOK(w)
    /\ exhausted \subseteq All \ Endless
    /\ TurnOK
    /\ PassOK
    /\ requests \in [Requests -> {"idle", "handler", "reconcile"}]
    /\ touched \in [Requests -> SUBSET All]
    /\ unarmed \subseteq All
    /\ restarts \in Nat
    /\ faults \in 0..MaxFaults

(* At any moment the object may stop: the slot then holds an alarm for all *)
(* the committed work, not later than it is due and its floor, or than a   *)
(* recovery takes.  Excepted is the work of requests still to reconcile    *)
(* and of schedules that have ended, what a run made sooner when the guard *)
(* was gone or a request was just looking, and the moment between the      *)
(* deletion of an overdue alarm and the next (wakeup.ts:208,               *)
(* wakeup.ts:239).  The floors are lost when the object stops, and the     *)
(* alarm that was set for one stays.                                       *)
Armed ==
    \A w \in All \ exhausted :
        /\ due[w] # Never
        /\ w \notin unarmed \cup Touched
        => \/ turn.at = "fired" \/ pass.at = "cleared"
           \/ /\ slot # Never
              /\ \/ slot <= Later(Guard, Later(due[w], floor[w]))
                 \/ /\ object # "up"
                    /\ \E n \in DOMAIN Retry[w] : slot <= Later(due[w], Retry[w][n])

(* An object at rest has the earliest of its deadlines in the slot, and,   *)
(* unless a due time could not be read, no alarm without one, after any    *)
(* race of requests with turns (wakeup.ts:236).                            *)
RestIsTimely ==
    /\ object = "up" /\ turn.at = "idle" /\ pass.at = "free"
    /\ \A r \in Requests : requests[r] = "idle"
    => LET deadlines == {Deadline(w) : w \in All} \ {Never}
       IN  /\ deadlines = {} /\ faults = MaxFaults => slot = Never
           /\ \A t \in deadlines : slot # Never /\ slot <= Later(t, 1)

(* The slot holds the alarm the work needs, at rest and when the object    *)
(* stops at any other moment.                                              *)
AlarmIsSet == WellTyped /\ Armed /\ RestIsTimely
=============================================================================
