------------------------------ MODULE Activity ------------------------------
(***************************************************************************)
(* The activity manager (ecosystem/activity.py): API calls inject activity  *)
(* into deployments, at once or again and again, and a thread that the       *)
(* first recurring activity starts runs what is due, outside the lock.       *)
(*                                                                         *)
(* Activities are numbered in the order of their injection.  Whether a       *)
(* deployment accepts an activity is left open; the time of its next run is  *)
(* "later" until it is "due".  A cron expression may have no occurrence       *)
(* within the year after a run (29 February): then scheduling raises.        *)
(***************************************************************************)
EXTENDS Naturals, Sequences

CONSTANTS
  MaxActivities,
  Loop,          (* threads the scheduler may be started as: a bound on those  *)
                 (* that live at once                                        *)
  NoLoop

ASSUME ActivityAssumption == MaxActivities \in Nat /\ NoLoop \notin Loop

VARIABLES
  activity,   (* _records, in their order: whether active, the next run, and   *)
              (* whether cancelled; what runs report is left out              *)
  starting,   (* API threads about to make sure that the scheduler runs       *)
  scheduler,  (* _scheduler_thread                                           *)
  stopping,   (* _scheduler_stop                                             *)
  loop,       (* what each scheduler thread does                              *)
  closing,    (* close waits for the scheduler                                *)
  stray       (* history: a scheduler was started beside one that close left   *)

activityVars == <<activity, starting, scheduler, stopping, loop, closing, stray>>

Activities == DOMAIN activity
LoopIdle   == [at |-> "off", due |-> {}, raised |-> FALSE]

ActivityInit ==
  /\ activity = << >>
  /\ starting = 0 /\ closing = FALSE /\ stopping = FALSE
  /\ scheduler = NoLoop
  /\ loop = [t \in Loop |-> LoopIdle]
  /\ stray = FALSE

Alive(t)  == loop[t].at # "off"

(* What is due runs in the order of the records.                            *)
First(due) == {a \in due : \A b \in due : a <= b}
Inside(t)  == IF loop[t].at = "inside" THEN First(loop[t].due) ELSE {}

Due(a) == activity[a].active /\ activity[a].next = "due"

-----------------------------------------------------------------------------
(* The API.                                                                *)

(* An activity of mode "once" is recorded when it has run.                   *)
InjectOnce ==
  /\ Len(activity) < MaxActivities
  /\ activity' = Append(activity, [active |-> FALSE, next |-> "none", cancelled |-> FALSE])
  /\ UNCHANGED <<starting, scheduler, stopping, loop, closing, stray>>

(* Modes "interval", "recurring" and "cron".                                *)
InjectRecurring ==
  /\ Len(activity) < MaxActivities
  /\ activity' = Append(activity, [active |-> TRUE, next |-> "later", cancelled |-> FALSE])
  /\ starting' = starting + 1
  /\ UNCHANGED <<scheduler, stopping, loop, closing, stray>>

(* Faulty variant: a new scheduler for every activity.                       *)
EnsureAnother ==
  /\ starting > 0 /\ starting' = starting - 1
  /\ stopping' = FALSE
  /\ \E t \in {u \in Loop : ~Alive(u)} :
       /\ scheduler' = t
       /\ loop' = [loop EXCEPT ![t] = [LoopIdle EXCEPT !.at = "waiting"]]
       /\ stray' = (stray \/ (scheduler = NoLoop /\ \E u \in Loop : Alive(u)))
  /\ UNCHANGED <<activity, closing>>

EnsureScheduler ==
  /\ starting > 0 /\ starting' = starting - 1
  /\ IF scheduler # NoLoop /\ Alive(scheduler)
     THEN UNCHANGED <<scheduler, stopping, loop, stray>>
     ELSE /\ stopping' = FALSE
          /\ \E t \in {u \in Loop : ~Alive(u)} :
               /\ scheduler' = t
               /\ loop' = [loop EXCEPT ![t] = [LoopIdle EXCEPT !.at = "waiting"]]
               /\ stray' = (stray \/ \E u \in Loop : Alive(u))
  /\ UNCHANGED <<activity, closing>>

CancelActivity(a) ==
  /\ activity' = [activity EXCEPT ![a].active = FALSE, ![a].next = "none", ![a].cancelled = TRUE]
  /\ UNCHANGED <<starting, scheduler, stopping, loop, closing, stray>>

(* close waits for the thread for a second, and forgets it in any case.      *)
CloseManager ==
  /\ ~closing /\ closing' = TRUE
  /\ stopping' = TRUE
  /\ UNCHANGED <<activity, starting, scheduler, loop, stray>>

CloseReturns ==
  /\ closing /\ closing' = FALSE
  /\ scheduler' = NoLoop
  /\ UNCHANGED <<activity, starting, stopping, loop, stray>>

-----------------------------------------------------------------------------
(* The scheduler.                                                          *)

(* Time passes.                                                            *)
FallDue(a) ==
  /\ activity[a].next = "later"
  /\ activity' = [activity EXCEPT ![a].next = "due"]
  /\ UNCHANGED <<starting, scheduler, stopping, loop, closing, stray>>

LoopWakes(t) ==
  /\ loop[t].at = "waiting"
  /\ loop' = [loop EXCEPT ![t].at = IF stopping THEN "off" ELSE "collecting"]
  /\ UNCHANGED <<activity, starting, scheduler, stopping, closing, stray>>

LoopCollects(t) ==
  /\ loop[t].at = "collecting"
  /\ loop' = [loop EXCEPT ![t].at = "running", ![t].due = {a \in Activities : Due(a)}]
  /\ UNCHANGED <<activity, starting, scheduler, stopping, closing, stray>>

RoundEnds(t) ==
  /\ loop[t].at = "running" /\ loop[t].due = {}
  /\ loop' = [loop EXCEPT ![t].at = "waiting"]
  /\ UNCHANGED <<activity, starting, scheduler, stopping, closing, stray>>

(* Faulty variant: what was due when it was collected runs.                  *)
RunBeginsBlindly(t) ==
  /\ loop[t].at = "running" /\ loop[t].due # {}
  /\ loop' = [loop EXCEPT ![t].at = "inside"]
  /\ UNCHANGED <<activity, starting, scheduler, stopping, closing, stray>>

(* An activity that is active no more is passed over.                        *)
RunBegins(t) ==
  /\ loop[t].at = "running"
  /\ \E a \in First(loop[t].due) :
       \/ activity[a].active  /\ loop' = [loop EXCEPT ![t].at = "inside"]
       \/ ~activity[a].active /\ loop' = [loop EXCEPT ![t].due = @ \ {a}]
  /\ UNCHANGED <<activity, starting, scheduler, stopping, closing, stray>>

Next(a) == IF activity[a].active THEN "later" ELSE "none"

(* Faulty variant: the next run is left to the next round.                   *)
RunEndsUnscheduled(t) ==
  /\ \E a \in Inside(t) :
       /\ loop' = [loop EXCEPT ![t].at = "running", ![t].due = @ \ {a}]
       /\ activity' = [activity EXCEPT ![a].next = "none"]
  /\ UNCHANGED <<starting, scheduler, stopping, closing, stray>>

(* Whether the deployment took it or not, an activity that is still active    *)
(* is scheduled again ...                                                  *)
RunEnds(t) ==
  /\ \E a \in Inside(t) :
       /\ loop' = [loop EXCEPT ![t].at = "running", ![t].due = @ \ {a}]
       /\ activity' = [activity EXCEPT ![a].next = Next(a)]
  /\ UNCHANGED <<starting, scheduler, stopping, closing, stray>>

(* ... unless that raises, which ends the thread.                           *)
SchedulingRaises(t) ==
  /\ \E a \in Inside(t) : activity[a].active
  /\ loop' = [loop EXCEPT ![t] = [LoopIdle EXCEPT !.raised = TRUE]]
  /\ UNCHANGED <<activity, starting, scheduler, stopping, closing, stray>>

Inject == InjectOnce \/ InjectRecurring

LoopSteps(t) == LoopWakes(t) \/ LoopCollects(t) \/ RoundEnds(t) \/ RunBegins(t) \/ RunEnds(t)

ActivityNext ==
  \/ Inject \/ EnsureScheduler \/ CloseManager \/ CloseReturns
  \/ \E a \in Activities : CancelActivity(a) \/ FallDue(a)
  \/ \E t \in Loop : LoopSteps(t) \/ SchedulingRaises(t)

(* API calls go on, a thread that can run does, and an injection ends.        *)
ActivityFairness ==
  /\ WF_activityVars(EnsureScheduler)
  /\ \A t \in Loop : WF_activityVars(LoopSteps(t))

ActivitySpec == ActivityInit /\ [][ActivityNext]_activityVars /\ ActivityFairness

-----------------------------------------------------------------------------
(* A cancelled activity does not begin another run and is never scheduled     *)
(* again, though the run that cancel met may still end.                      *)
CancelEnds ==
  [][\A a \in Activities : activity[a].cancelled =>
       /\ ~activity'[a].active /\ activity'[a].next = "none"
       /\ \A t \in Loop : a \in Inside(t)' => a \in Inside(t)]_activityVars

(* An activity runs once for every time it falls due: a run begins only when  *)
(* it is due, and never beside another - unless close gave up on a scheduler  *)
(* and an injection after that started one beside it.                        *)
RunsOncePerDue ==
  [][\A t \in Loop : \A a \in Inside(t)' \ Inside(t) :
       stray \/ (Due(a) /\ \A u \in Loop : a \notin Inside(u))]_activityVars

(* Runs begin when they are due and only then, whatever cancels, closes and  *)
(* injections come between the steps of a scheduler.                        *)
RunsWhenDue == CancelEnds /\ RunsOncePerDue

(* An active activity comes round again: it is due later, or falls due and    *)
(* then runs, unless close asked the scheduler to stop or scheduling raised.   *)
Interrupted == stopping \/ \E t \in Loop : loop[t].raised
Overdue(a) == a \in Activities /\ activity[a].active /\ activity[a].next # "later"
KeepsRunning == \A a \in 1 .. MaxActivities : Overdue(a) ~> ~Overdue(a) \/ Interrupted
=============================================================================
