------------------------------ MODULE MCEvents ------------------------------
(* The event bus - three events of two publishers, more than the window      *)
(* holds, and one handler: what the bus does for a handler does not depend on *)
(* the others - or the alert router, which is such a handler: two alerts of  *)
(* two callers, one that two destinations of one name take, one for a third  *)
(* destination and one that is suppressed, and a throttle table of one key.  *)
(* In the initial state of each nothing is due in the other that fairness    *)
(* would ask for.                                                           *)
EXTENDS EventBus, Alerts

CONSTANTS p1, p2, a1, a2, a3

VARIABLE part

MCPublisher == {p1, p2}
MCUid == {<<p1, 1>>, <<p1, 2>>, <<p2, 1>>}

MCAlert  == {a1, a2, a3}
MCQuiet  == {a2}
MCDestinations == <<"soc", "soc", "pager">>
MCThrottleKey == [x \in (1 .. 3) \X MCAlert |-> <<MCDestinations[x[1]], x[2]>>]
MCAdmits == <<{a1, a2}, {a1}, {a3}>>

eventsVars == <<busVars, alertVars, part>>

EventsInit ==
  /\ BusInit /\ AlertInit
  /\ part \in {"bus", "alerts"}
  /\ part = "alerts" => backend = "memory"

EventsNext ==
  /\ UNCHANGED part
  /\ \/ part = "bus" /\ BusNext /\ UNCHANGED alertVars
     \/ part = "alerts" /\ AlertNext /\ UNCHANGED busVars

EventsSpec ==
  /\ EventsInit /\ [][EventsNext]_eventsVars
  /\ BusFairness /\ AlertFairness

(* The bus alone.                                                           *)
BusOnlySpec ==
  /\ EventsInit /\ part = "bus" /\ [][EventsNext]_eventsVars
  /\ BusFairness
=============================================================================
