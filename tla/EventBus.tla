------------------------------ MODULE EventBus ------------------------------
(***************************************************************************)
(* The event bus (core/event_bus.py): threads publish events of one topic, *)
(* handlers subscribe to it, and an event travels either by a direct call  *)
(* of the handlers or through Redis and the bus's listener thread.  When   *)
(* Redis fails the bus falls back to direct calls.  The bus implements     *)
(* EventLog.  Event n of publisher p is <<p, n>>; bound: those of Uid.     *)
(***************************************************************************)
EXTENDS EventLog

CONSTANTS
  Publisher,  (* threads that publish                                       *)
  Listener,   (* the thread of _listener_loop                               *)
  Handler,    (* callbacks given to subscribe                               *)
  None

Thread == Publisher \cup {Listener}

ASSUME BusAssumption == Listener \notin Publisher /\ None \notin Uid

VARIABLES
  backend,     (* _stats.backend                                            *)
  subs,        (* _subscriptions[topic]                                     *)
  stop,        (* _stop_event                                               *)
  closed,      (* close() has run: _listener_thread is None                 *)
  wire,        (* Redis: messages for the bus's pubsub connection           *)
  listening,   (* Redis: the pubsub connection is subscribed                *)
  thread,      (* [at, uid, todo] of every thread                           *)
  count,       (* events each publisher has published                       *)
  got,         (* history: events each handler was called with, in order    *)
  owed,        (* history: the subscribers at the time of each publish      *)
  logged,      (* history: events that entered the log                      *)
  viaRedis,    (* history: events whose publish left the log to the listener*)
  relayed,     (* history: events Redis passed on                           *)
  lost,        (* history: events Redis had no listener for, or not anymore *)
  doubtful     (* history: events Redis accepted although publish raised    *)

hist == <<got, owed, logged, viaRedis, relayed, lost, doubtful>>
busVars == <<logVars, backend, subs, stop, closed, wire, listening, thread, count, hist>>

SetOf(s) == {s[i] : i \in DOMAIN s}

BusInit ==
  /\ LogInit
  /\ backend \in {"memory", "redis"}   \* _initialize_redis may have failed
  /\ subs = << >> /\ stop = FALSE /\ closed = FALSE
  /\ wire = << >> /\ listening = FALSE
  /\ thread = [t \in Thread |-> [at |-> IF t = Listener THEN "none" ELSE "idle",
                                 uid |-> None, todo |-> << >>]]
  /\ count = [p \in Publisher |-> 0]
  /\ got  = [h \in Handler |-> << >>]
  /\ owed = [u \in Uid |-> {}]
  /\ logged = {} /\ viaRedis = {} /\ relayed = {} /\ lost = {} /\ doubtful = {}

GoTo(t, place) == thread' = [thread EXCEPT ![t].at = place]

(* _listener_active_locked *)
ListenerActive == ~closed /\ thread[Listener].at \notin {"none", "dead"}

(* Faulty variant: every append is a new entry.                             *)
AppendTwice(u) == Record(u) /\ logged' = logged \cup {u}

(* _append_recent_event_locked *)
AppendEvent(u) ==
  /\ IF InWindow(u) THEN UNCHANGED logVars ELSE Record(u)
  /\ logged' = logged \cup {u}

(* _degrade_to_memory.  What is still on the wire may never be received.    *)
Degrade ==
  /\ backend' = "memory"
  /\ stop' = (stop \/ backend = "redis")
  /\ lost' = lost \cup SetOf(wire)

(* Redis passes a message on to the bus's own pubsub connection.            *)
Relay(u) == wire' = Append(wire, u) /\ relayed' = relayed \cup {u}

----------------------------------------------------------------------------
(* Each handler subscribes once, before close.                              *)
Subscribe(h) ==
  /\ ~closed /\ h \notin SetOf(subs)
  /\ subs' = Append(subs, h)
  /\ IF backend = "redis" /\ ~ListenerActive
     THEN stop' = FALSE /\ GoTo(Listener, "starting")
     ELSE UNCHANGED <<stop, thread>>
  /\ UNCHANGED <<logVars, backend, closed, wire, listening, count, hist>>

(* publish, its first locked section: the event is logged here unless the   *)
(* listener will do so.                                                     *)
Publish(p) ==
  LET u == <<p, count[p] + 1>> IN
  /\ thread[p].at = "idle" /\ u \in Uid
  /\ count' = [count EXCEPT ![p] = @ + 1]
  /\ owed' = [owed EXCEPT ![u] = SetOf(subs)]
  /\ IF backend # "redis" \/ ~ListenerActive
     THEN AppendEvent(u) /\ UNCHANGED viaRedis
     ELSE viaRedis' = viaRedis \cup {u} /\ UNCHANGED <<logVars, logged>>
  /\ thread' = [thread EXCEPT ![p].at = "route", ![p].uid = u]
  /\ UNCHANGED <<backend, subs, stop, closed, wire, listening, got,
                 relayed, lost, doubtful>>

(* Faulty variant: the route depends on the listener and not on the backend.*)
RouteByListener(p) ==
  /\ thread[p].at = "route"
  /\ GoTo(p, IF backend = "redis" /\ ListenerActive THEN "send" ELSE "dispatch")
  /\ UNCHANGED <<logVars, backend, subs, stop, closed, wire, listening, count, hist>>

(* publish reads the backend again, without the lock.                       *)
Route(p) ==
  /\ thread[p].at = "route"
  /\ GoTo(p, IF backend = "redis" THEN "send" ELSE "dispatch")
  /\ UNCHANGED <<logVars, backend, subs, stop, closed, wire, listening, count, hist>>

(* Faulty variant: publish goes on to the local dispatch.                   *)
SendAndDispatch(p) ==
  LET u == thread[p].uid IN
  /\ thread[p].at = "send" /\ backend = "redis"
  /\ IF listening THEN Relay(u) /\ UNCHANGED lost
                  ELSE lost' = lost \cup {u} /\ UNCHANGED <<wire, relayed>>
  /\ GoTo(p, "dispatch")
  /\ UNCHANGED <<logVars, backend, subs, stop, closed, listening, count,
                 got, owed, logged, viaRedis, doubtful>>

(* Redis hands the message to whoever is subscribed at this moment.         *)
Send(p) ==
  LET u == thread[p].uid IN
  /\ thread[p].at = "send" /\ backend = "redis"
  /\ IF listening THEN Relay(u) /\ UNCHANGED lost
                  ELSE lost' = lost \cup {u} /\ UNCHANGED <<wire, relayed>>
  /\ GoTo(p, "idle")
  /\ UNCHANGED <<logVars, backend, subs, stop, closed, listening, count,
                 got, owed, logged, viaRedis, doubtful>>

(* Faulty variant: the bus degrades and forgets the event.                  *)
SendFailsSilently(p) ==
  /\ thread[p].at = "send"
  /\ Degrade
  /\ GoTo(p, "idle")
  /\ UNCHANGED <<logVars, subs, closed, wire, listening, count,
                 got, owed, logged, viaRedis, relayed, doubtful>>

(* Redis raises, perhaps after it took the message, or the client is gone:  *)
(* the bus degrades and the publisher calls the handlers itself.            *)
SendFails(p) ==
  LET u == thread[p].uid IN
  /\ thread[p].at = "send"
  /\ Degrade
  /\ \/ UNCHANGED <<wire, relayed, doubtful>>
     \/ /\ backend = "redis" /\ listening
        /\ Relay(u)
        /\ doubtful' = doubtful \cup {u}
  /\ GoTo(p, "dispatch")
  /\ UNCHANGED <<logVars, subs, closed, listening, count, got, owed, logged, viaRedis>>

(* _dispatch_local copies the handlers under the lock and calls them one by *)
(* one without it.                                                          *)
Rest(t) == IF t = Listener THEN "check" ELSE "idle"

Dispatch(t) ==
  /\ thread[t].at = "dispatch"
  /\ thread' = [thread EXCEPT ![t].todo = subs,
                              ![t].at = IF subs = << >> THEN Rest(t) ELSE "deliver"]
  /\ UNCHANGED <<logVars, backend, subs, stop, closed, wire, listening, count, hist>>

Deliver(t) ==
  LET todo == thread[t].todo IN
  /\ thread[t].at = "deliver"
  /\ got' = [got EXCEPT ![Head(todo)] = Append(@, thread[t].uid)]
  /\ thread' = [thread EXCEPT ![t].todo = Tail(todo),
                              ![t].at = IF Len(todo) = 1 THEN Rest(t) ELSE "deliver"]
  /\ UNCHANGED <<logVars, backend, subs, stop, closed, wire, listening, count,
                 owed, logged, viaRedis, relayed, lost, doubtful>>

----------------------------------------------------------------------------
(* _listener_loop                                                           *)
PSubscribe ==
  /\ thread[Listener].at = "starting"
  /\ listening' = TRUE
  /\ GoTo(Listener, "check")
  /\ UNCHANGED <<logVars, backend, subs, stop, closed, wire, count, hist>>

CheckStop ==
  /\ thread[Listener].at = "check"
  /\ GoTo(Listener, IF stop THEN "dead" ELSE "waiting")
  /\ UNCHANGED <<logVars, backend, subs, stop, closed, wire, listening, count, hist>>

NoMessage ==
  /\ thread[Listener].at = "waiting" /\ wire = << >>
  /\ GoTo(Listener, "check")
  /\ UNCHANGED <<logVars, backend, subs, stop, closed, wire, listening, count, hist>>

Receive ==
  /\ thread[Listener].at = "waiting" /\ wire # << >>
  /\ wire' = Tail(wire)
  /\ AppendEvent(Head(wire))
  /\ thread' = [thread EXCEPT ![Listener].at = "dispatch", ![Listener].uid = Head(wire)]
  /\ UNCHANGED <<backend, subs, stop, closed, listening, count,
                 got, owed, viaRedis, relayed, lost, doubtful>>

(* The connection fails, or close() closed it under the listener.           *)
ListenFails ==
  /\ thread[Listener].at \in {"starting", "waiting"}
  /\ Degrade
  /\ GoTo(Listener, "dead")
  /\ UNCHANGED <<logVars, subs, closed, wire, listening, count,
                 got, owed, logged, viaRedis, relayed, doubtful>>

(* close(), as stop_all calls it; publishers may still be at work.          *)
Close ==
  /\ ~closed
  /\ closed' = TRUE /\ stop' = TRUE
  /\ UNCHANGED <<logVars, backend, subs, wire, listening, thread, count, hist>>

PublisherStep(p) ==
  Publish(p) \/ Route(p) \/ Send(p) \/ SendFails(p) \/ Dispatch(p) \/ Deliver(p)

ListenerStep ==
  PSubscribe \/ CheckStop \/ NoMessage \/ Receive \/ ListenFails
    \/ Dispatch(Listener) \/ Deliver(Listener)

BusNext ==
  \/ \E h \in Handler : Subscribe(h)
  \/ \E p \in Publisher : PublisherStep(p)
  \/ ListenerStep
  \/ Close

BusSpec == BusInit /\ [][BusNext]_busVars

(* A publish call runs to its end, the listener thread is scheduled: but    *)
(* nobody has to publish, subscribe or close, and Redis need not fail.      *)
BusFairness ==
  /\ \A p \in Publisher :
       WF_busVars(Route(p) \/ Send(p) \/ SendFails(p) \/ Dispatch(p) \/ Deliver(p))
  /\ WF_busVars(PSubscribe \/ CheckStop \/ Receive \/ Dispatch(Listener) \/ Deliver(Listener))

FairBusSpec == BusSpec /\ BusFairness

----------------------------------------------------------------------------
PublisherAt == {"idle", "route", "send", "dispatch", "deliver"}
ListenerAt  == {"none", "starting", "check", "waiting", "dispatch", "deliver", "dead"}

ThreadState == [at : PublisherAt \cup ListenerAt, uid : Uid \cup {None}, todo : Seq(Handler)]

(* A thread under way has an event, one that calls handlers has one left.   *)
ThreadOK(t) ==
  /\ thread[t].at \in IF t = Listener THEN ListenerAt ELSE PublisherAt
  /\ thread[t].at \in {"route", "send", "dispatch", "deliver"} => thread[t].uid \in Uid
  /\ (thread[t].todo # << >>) <=> (thread[t].at = "deliver")

(* The type of the bus's state, and what its threads have in hand.          *)
BusTypeOK ==
  /\ backend \in {"memory", "redis"} /\ subs \in Seq(Handler)
  /\ stop \in BOOLEAN /\ closed \in BOOLEAN /\ listening \in BOOLEAN
  /\ wire \in Seq(Uid) /\ recent \in Seq(Entry) /\ nextId \in Nat \ {0}
  /\ thread \in [Thread -> ThreadState] /\ \A t \in Thread : ThreadOK(t)

(* No handler is called twice with an event - whichever way it travelled -  *)
(* except when Redis took a message and publish raised all the same.        *)
AtMostOnce ==
  \A h \in Handler : \A i, j \in DOMAIN got[h] :
    (i # j /\ got[h][i] = got[h][j]) => got[h][i] \in doubtful

(* A handler sees the events of one publisher in the order it published     *)
(* them, except that after a fallback one may overtake one left to Redis.   *)
InPublishOrder ==
  \A h \in Handler : \A i, j \in DOMAIN got[h] :
    LET first == got[h][i]  second == got[h][j] IN
    (i < j /\ second[1] = first[1] /\ second[2] < first[2]) =>
      second \in relayed /\ backend = "memory"

(* What a handler sees of a publisher is neither repeated nor reordered.     *)
DeliveredOnceInOrder == AtMostOnce /\ InPublishOrder

(* What a handler was called with is in the log that the dashboard reads,   *)
(* except for the events caught between the two by a fallback to memory.    *)
DeliveredIsLogged ==
  \A h \in Handler : \A i \in DOMAIN got[h] :
    got[h][i] \in logged \/ (got[h][i] \in viaRedis /\ backend = "memory")

(* What a handler was called with came once, in order, and is in the log.    *)
DeliveredAsLogged == DeliveredOnceInOrder /\ DeliveredIsLogged

Owed(u) == owed[u] # {}
ReceivedByAll(u) == \A h \in owed[u] : u \in SetOf(got[h])

(* Every published event reaches every handler subscribed by then, unless   *)
(* Redis had no listener for it or the bus was closed: as what is owed and    *)
(* what was received stays so, it never stays owed for good.                *)
DeliveredEventually ==
  \A u \in Uid : []<>(Owed(u) => ReceivedByAll(u) \/ u \in lost \/ closed)

(* docs/architecture.md, line 68: the event bus publishes it to all         *)
(* subscribers.  Refuted: between the start of the listener thread and its  *)
(* psubscribe an event is neither logged nor delivered.                     *)
ReachesAllSubscribers ==
  \A u \in Uid : Owed(u) ~> (ReceivedByAll(u) \/ closed \/ backend = "memory")
=============================================================================
