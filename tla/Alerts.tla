------------------------------- MODULE Alerts -------------------------------
(***************************************************************************)
(* The alert router (alerts/router.py).  Threads that dispatch events or   *)
(* record bandit metrics send alerts at the same time; the destinations    *)
(* are called on a pool of worker threads; a table of the last deliveries  *)
(* throttles repetitions.  No lock protects any of it, not even while it   *)
(* is scanned for what may be dropped.                                     *)
(*                                                                         *)
(* A destination is its place in the configuration, which does not demand  *)
(* that names differ.  Its severity floor and its service and action       *)
(* filters are abstracted to the set of alerts they admit.  Bounds:        *)
(* MaxAlerts, MaxTime.                                                     *)
(***************************************************************************)
EXTENDS Naturals, Sequences, FiniteSets, SequencesExt

CONSTANTS
  Caller,       (* threads in send_alert                                    *)
  Alert,        (* title and severity of an alert                           *)
  Quiet,        (* alerts of red-team traffic, suppressed                   *)
  Destinations, (* how many are configured                                  *)
  ThrottleKey,  (* of a destination and an alert: its name, title, severity *)
  Admits,       (* for each destination: the alerts its filters admit       *)
  Throttle,     (* throttle_seconds                                         *)
  StaleAfter,   (* stale_after_seconds of the throttle table                *)
  MaxKeys,      (* _MAX_THROTTLE_KEYS                                       *)
  MaxAlerts, MaxTime,
  NoAlert

ASSUME AlertsAssumption ==
  /\ Destinations \in Nat
  /\ DOMAIN ThrottleKey = (1 .. Destinations) \X Alert
  /\ Admits \in [1 .. Destinations -> SUBSET Alert]
  /\ Throttle \in Nat /\ StaleAfter \in Nat /\ StaleAfter >= Throttle
  /\ MaxKeys \in Nat \ {0} /\ Quiet \subseteq Alert

Place == 1 .. Destinations
Key == {ThrottleKey[x] : x \in Place \X Alert}

VARIABLES
  now,
  lastSent,   (* _last_sent, in insertion order: [key, at]                  *)
  call,       (* what each caller is doing: its alert, which of them it is, *)
              (* the destinations it has still to check, to submit and to   *)
              (* wait for, the keys it found stale and whether the table    *)
              (* changed its size while it looked                           *)
  job,        (* the pool's job of each caller for each destination         *)
  sent,       (* alerts sent so far                                         *)
  acks,       (* history: of each key, when its deliveries succeeded, and   *)
              (* of which alert                                             *)
  raced,      (* history: keys two callers were ever busy with at once      *)
  forgotten   (* history: keys the table dropped that were not stale        *)

alertVars == <<now, lastSent, call, job, sent, acks, raced, forgotten>>

Resting == [at |-> "idle", alert |-> NoAlert, of |-> 0, check |-> << >>, eligible |-> << >>,
            wait |-> << >>, stale |-> {}, disturbed |-> FALSE]
NoJobs  == [i \in Place |-> "none"]

AlertInit ==
  /\ now = 0 /\ lastSent = << >> /\ sent = 0
  /\ call = [c \in Caller |-> Resting]
  /\ job  = [c \in Caller |-> NoJobs]
  /\ acks = [k \in Key |-> << >>]
  /\ raced = {} /\ forgotten = {}

KeysOf(table) == {table[i].key : i \in DOMAIN table}
LastSentAt(k) == lastSent[CHOOSE i \in DOMAIN lastSent : lastSent[i].key = k].at

(* _is_throttled *)
IsThrottled(k) == Throttle > 0 /\ k \in KeysOf(lastSent) /\ now - LastSentAt(k) < Throttle

(* A dict keeps the place of a key that is assigned again.                  *)
Stamp(table, k) ==
  IF k \in KeysOf(table)
  THEN [i \in DOMAIN table |-> IF table[i].key = k THEN [key |-> k, at |-> now] ELSE table[i]]
  ELSE Append(table, [key |-> k, at |-> now])

Without(table, k) ==
  IF k \in KeysOf(table)
  THEN RemoveAt(table, CHOOSE i \in DOMAIN table : table[i].key = k)
  ELSE table

(* The keys of a table that are due to be dropped.                          *)
StaleKeys(table) == {table[i].key : i \in {j \in DOMAIN table : now - table[j].at >= StaleAfter}}

BusyWith(c, k) ==
  \E i \in ToSet(call[c].eligible) \cup ToSet(call[c].wait) : ThrottleKey[i, call[c].alert] = k

(* c goes on with next; the table may have a new size then, which those who  *)
(* are looking through it notice or not.                                    *)
GoOn(c, next) ==
  call' = [o \in Caller |->
             IF o = c THEN next
             ELSE IF Len(lastSent') # Len(lastSent) THEN [call[o] EXCEPT !.disturbed = TRUE]
             ELSE call[o]]

----------------------------------------------------------------------------
(* send_alert, up to the loop over the destinations.                        *)
SendAlert(c, a) ==
  /\ call[c] = Resting /\ sent < MaxAlerts
  /\ sent' = sent + 1
  /\ IF a \in Quiet THEN UNCHANGED call
     ELSE call' = [call EXCEPT ![c] =
                     [Resting EXCEPT !.at = "route", !.alert = a, !.of = sent + 1,
                                     !.check = [i \in Place |-> i]]]
  /\ UNCHANGED <<now, lastSent, job, acks, raced, forgotten>>

(* _route_block_reason for the next destination.                            *)
RouteAlert(c) ==
  LET i == Head(call[c].check)  k == ThrottleKey[i, call[c].alert] IN
  /\ call[c].check # << >>
  /\ call' = [call EXCEPT ![c].check = Tail(@),
                          ![c].eligible = IF call[c].alert \in Admits[i] /\ ~IsThrottled(k)
                                          THEN Append(@, i) ELSE @]
  /\ raced' = IF \E o \in Caller \ {c} : BusyWith(o, k) THEN raced \cup {k} ELSE raced
  /\ UNCHANGED <<now, lastSent, job, sent, acks, forgotten>>

(* One job per eligible destination is handed to the pool.                  *)
Submit(c) ==
  /\ call[c].at = "route" /\ call[c].check = << >>
  /\ call' = [call EXCEPT ![c].at = "wait", ![c].wait = call[c].eligible, ![c].eligible = << >>]
  /\ job' = [job EXCEPT ![c] =
               [i \in Place |-> IF i \in ToSet(call[c].eligible) THEN "queued" ELSE "none"]]
  /\ UNCHANGED <<now, lastSent, sent, acks, raced, forgotten>>

(* A worker runs a job: it succeeds, or its adapter raises or times out.    *)
RunJob(c, i) ==
  /\ job[c][i] = "queued"
  /\ \/ /\ job' = [job EXCEPT ![c][i] = "sent"]
        /\ acks' = [acks EXCEPT ![ThrottleKey[i, call[c].alert]] =
                       Append(@, [at |-> now, of |-> call[c].of])]
     \/ job' = [job EXCEPT ![c][i] = "failed"] /\ UNCHANGED acks
  /\ UNCHANGED <<now, lastSent, call, sent, raced, forgotten>>

(* Faulty variant: only a delivery that succeeded ends the wait.            *)
CollectSent(c) ==
  LET i == Head(call[c].wait) IN
  /\ call[c].at = "wait" /\ call[c].wait # << >> /\ job[c][i] = "sent"
  /\ lastSent' = Stamp(lastSent, ThrottleKey[i, call[c].alert])
  /\ GoOn(c, [call[c] EXCEPT !.wait = Tail(@), !.at = "prune"])
  /\ UNCHANGED <<now, job, sent, acks, raced, forgotten>>

(* Faulty variant: one failure ends the wait for the others.                *)
CollectAborts(c) ==
  LET i == Head(call[c].wait) IN
  /\ call[c].at = "wait" /\ call[c].wait # << >> /\ job[c][i] \in {"sent", "failed"}
  /\ IF job[c][i] = "sent"
     THEN /\ lastSent' = Stamp(lastSent, ThrottleKey[i, call[c].alert])
          /\ GoOn(c, [call[c] EXCEPT !.wait = Tail(@), !.at = "prune"])
     ELSE UNCHANGED lastSent /\ GoOn(c, [call[c] EXCEPT !.wait = << >>])
  /\ UNCHANGED <<now, job, sent, acks, raced, forgotten>>

(* future.result() of the next destination: only a success is remembered.   *)
Collect(c) ==
  LET i == Head(call[c].wait) IN
  /\ call[c].at = "wait" /\ call[c].wait # << >> /\ job[c][i] \in {"sent", "failed"}
  /\ IF job[c][i] = "sent"
     THEN /\ lastSent' = Stamp(lastSent, ThrottleKey[i, call[c].alert])
          /\ GoOn(c, [call[c] EXCEPT !.wait = Tail(@), !.at = "prune"])
     ELSE UNCHANGED lastSent /\ GoOn(c, [call[c] EXCEPT !.wait = Tail(@)])
  /\ UNCHANGED <<now, job, sent, acks, raced, forgotten>>

(* _prune_throttle_cache of a table that is too large: it is looked through. *)
BeginScan(c) ==
  /\ call[c].at = "prune"
  /\ call' = [call EXCEPT ![c] =
       IF Len(lastSent) <= MaxKeys THEN [@ EXCEPT !.at = "wait"]
       ELSE [@ EXCEPT !.at = "scan", !.stale = StaleKeys(lastSent), !.disturbed = FALSE]]
  /\ UNCHANGED <<now, lastSent, job, sent, acks, raced, forgotten>>

(* When the table changed its size meanwhile, the error may end the rest.   *)
EndScan(c) ==
  /\ call[c].at = "scan"
  /\ \/ call' = [call EXCEPT ![c].at = "drop"]
     \/ call[c].disturbed /\ call' = [call EXCEPT ![c].at = "wait", ![c].stale = {}]
  /\ UNCHANGED <<now, lastSent, job, sent, acks, raced, forgotten>>

(* History: k is taken off the table.                                       *)
Dropped(k) ==
  forgotten' = IF k \in KeysOf(lastSent) /\ now - LastSentAt(k) < StaleAfter
               THEN forgotten \cup {k} ELSE forgotten

(* What was found stale goes, be it that it was sent again since.           *)
DropStale(c) ==
  /\ call[c].at = "drop"
  /\ \E k \in call[c].stale :
       /\ lastSent' = Without(lastSent, k)
       /\ Dropped(k)
       /\ GoOn(c, [call[c] EXCEPT !.stale = @ \ {k}])
  /\ UNCHANGED <<now, job, sent, acks, raced>>

(* Is the table still too large?  Others may be asking the same.            *)
CheckSize(c) ==
  /\ call[c].at = "drop" /\ call[c].stale = {}
  /\ call' = [call EXCEPT ![c].at = IF Len(lastSent) <= MaxKeys THEN "wait" ELSE "evict"]
  /\ UNCHANGED <<now, lastSent, job, sent, acks, raced, forgotten>>

(* The key that was inserted first goes.  Of an empty table there is none,   *)
(* and the error ends it.                                                   *)
DropOldest(c) ==
  /\ call[c].at = "evict"
  /\ IF lastSent = << >> THEN UNCHANGED <<lastSent, forgotten>>
     ELSE lastSent' = Tail(lastSent) /\ Dropped(Head(lastSent).key)
  /\ GoOn(c, [call[c] EXCEPT !.at = IF lastSent = << >> THEN "wait" ELSE "drop"])
  /\ UNCHANGED <<now, job, sent, acks, raced>>

Finish(c) ==
  /\ call[c].at = "wait" /\ call[c].wait = << >>
  /\ call' = [call EXCEPT ![c] = Resting]
  /\ job'  = [job EXCEPT ![c] = NoJobs]
  /\ UNCHANGED <<now, lastSent, sent, acks, raced, forgotten>>

Tick ==
  /\ now < MaxTime
  /\ now' = now + 1
  /\ UNCHANGED <<lastSent, call, job, sent, acks, raced, forgotten>>

CallerStep(c) ==
  \/ RouteAlert(c) \/ Submit(c) \/ Collect(c) \/ Finish(c)
  \/ BeginScan(c) \/ EndScan(c) \/ DropStale(c) \/ CheckSize(c) \/ DropOldest(c)

AlertNext ==
  \/ \E c \in Caller : CallerStep(c) \/ \E a \in Alert : SendAlert(c, a)
  \/ \E c \in Caller, i \in Place : RunJob(c, i)
  \/ Tick

AlertSpec == AlertInit /\ [][AlertNext]_alertVars

(* Threads run; every adapter has a timeout, so a job always ends: somebody   *)
(* goes on with an alert while it is under way.                              *)
AlertFairness ==
  \A c \in Caller : WF_alertVars(CallerStep(c) \/ \E i \in Place : RunJob(c, i))

FairAlertSpec == AlertSpec /\ AlertFairness

----------------------------------------------------------------------------
(* docs/user-guide.md, line 519: a minimum time between two alerts of the   *)
(* same combination.  It holds for a key that no two callers sent at once   *)
(* and that the table never dropped early - whatever other keys do, and if   *)
(* several destinations of one name take one alert each, which is no        *)
(* repetition.                                                              *)
SerialThrottle ==
  \A k \in Key \ (raced \cup forgotten) : \A i \in 2 .. Len(acks[k]) :
    acks[k][i].of # acks[k][i - 1].of => acks[k][i].at - acks[k][i - 1].at >= Throttle

(* What was delivered is remembered once its caller is done, however the    *)
(* other destinations of the alert fared - in a table that holds a key once  *)
(* and is larger than its limit only while someone is about to prune it, be  *)
(* it that another one's error ended a scan.                                *)
DeliveryIsRemembered ==
  /\ Len(lastSent) > MaxKeys =>
       \E c \in Caller : call[c].at \in {"prune", "scan", "drop", "evict"}
  /\ Cardinality(KeysOf(lastSent)) = Len(lastSent)
  /\ \A k \in Key \ forgotten :
       LET last == acks[k][Len(acks[k])].at IN
       acks[k] # << >> /\ now - last < Throttle =>
         \/ k \in KeysOf(lastSent) /\ LastSentAt(k) >= last
         \/ \E c \in Caller : BusyWith(c, k)

(* What a destination took is remembered, and not repeated too soon.         *)
AlertsThrottled == SerialThrottle /\ DeliveryIsRemembered

(* No destination, failing or slow, keeps an alert from coming to its end.  *)
EveryAlertEnds == \A c \in Caller : []<>(call[c].at = "idle")
=============================================================================
