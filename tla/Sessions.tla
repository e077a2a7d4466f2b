------------------------------ MODULE Sessions ------------------------------
(***************************************************************************)
(* The session manager (core/session.py).  Threads of one or several       *)
(* processes record what intruders do, in Redis as long as it answers and  *)
(* in the process's own memory from its first failure on.  In memory an    *)
(* operation is one locked step; in Redis it is a chain of round trips,    *)
(* each of which may raise, before or after it took effect.  Reads that     *)
(* only fill a reply (tags of an event, counters, exported events) are not  *)
(* steps of their own.                                                      *)
(*                                                                         *)
(* Events are numbered as record_event is called.  A session's keys in     *)
(* Redis have one lifetime, as every operation renews them together, and   *)
(* it is far longer than an operation.  Bound: MaxOps calls.               *)
(***************************************************************************)
EXTENDS Naturals, Sequences, FiniteSets, Functions, RecentUse

CONSTANTS
  Process,      (* processes that share the Redis                           *)
  Worker,       (* their threads                                            *)
  Sid,          (* session ids                                              *)
  Backends,     (* the backends a process may start with: without "redis"   *)
                (* none is configured, and it may be down when it is        *)
  TagRequest,   (* sets of tags, as add_session_tags is given them          *)
  Service,      (* services a narrative may touch                           *)
  MaxEvents,    (* max_events_per_session                                   *)
  MaxSessions,  (* _MAX_MEMORY_SESSIONS                                     *)
  MaxTags,      (* _MAX_SESSION_TAGS                                        *)
  MaxTouched,   (* _MAX_TOUCHED_SERVICES                                    *)
  MaxDepth,     (* the largest discovery_depth                              *)
  MaxOps,
  None

ASSUME SessionsAssumption ==
  /\ {MaxEvents, MaxSessions, MaxTags, MaxTouched, MaxDepth} \subseteq Nat \ {0} /\ MaxOps \in Nat
  /\ Backends \subseteq {"memory", "redis"}
  /\ \A tags \in TagRequest : tags \subseteq Nat /\ IsFiniteSet(tags)
  /\ None \notin Process \cup Sid
  /\ None \notin [events : Seq(Nat), total : Nat, tags : SUBSET Nat, touched : Seq(Service), depth : Nat]

VARIABLES
  home,      (* the process of each worker                                  *)
  backend,   (* _backend of each process                                    *)
  memory,    (* _sessions of each process: session data or None             *)
  order,     (* the order of its _sessions, oldest first                    *)
  redis,     (* session data in Redis, or None                              *)
  index,     (* the ids in the sessions and the created index               *)
  op,        (* the call each worker is in                                  *)
  ops,       (* calls made so far                                           *)
  events,    (* record_event calls made so far                              *)
  log,       (* history: what was written to each session since it began,   *)
             (* in Redis (None) and in each process                         *)
  mixed,     (* history: <<s, "write">> or <<s, "add">> when two writers of *)
             (* the narrative or the tags of s read the same state          *)
  unlisted,  (* history: live sessions that an export took off the index     *)
  recency    (* history: session ids of each process, latest activity last  *)

stores == <<backend, memory, order, redis, index>>
hist   == <<log, mixed, unlisted, recency>>
sessionVars == <<home, stores, op, ops, events, hist>>

NewSession == [events |-> << >>, total |-> 0, tags |-> {}, touched |-> << >>, depth |-> 0]
NoLog == [events |-> << >>, services |-> << >>]
Idle  == [at |-> "idle", kind |-> "none", n |-> 0, sid |-> None, arg |-> None, seen |-> None,
          held |-> FALSE]

SessionInit ==
  /\ home \in [Worker -> Process]
  /\ backend \in [Process -> Backends]
  /\ memory = [p \in Process |-> [s \in Sid |-> None]]
  /\ order  = [p \in Process |-> << >>]
  /\ redis  = [s \in Sid |-> None] /\ index = {}
  /\ op = [w \in Worker |-> Idle] /\ ops = 0 /\ events = 0
  /\ log = [p \in Process \cup {None} |-> [s \in Sid |-> NoLog]]
  /\ mixed = {} /\ unlisted = {} /\ recency = [p \in Process |-> << >>]

LastOf(s, k) == SubSeq(s, IF Len(s) > k THEN Len(s) - k + 1 ELSE 1, Len(s))
Smallest(S, k) == {x \in S : Cardinality({y \in S : y < x}) < k}

----------------------------------------------------------------------------
(* What the operations do to a session.                                     *)

(* Faulty variant: the counter is the length of the retained list.          *)
WithRetainedCount(s, n) ==
  LET kept == LastOf(Append(s.events, n), MaxEvents) IN
  [s EXCEPT !.events = kept, !.total = Len(kept)]

WithEvent(s, n) == [s EXCEPT !.events = LastOf(Append(@, n), MaxEvents), !.total = @ + 1]

(* Faulty variant: the tags already there are not counted.                  *)
WithTagsUncounted(s, tags, known) ==
  [s EXCEPT !.tags = @ \cup Smallest(tags \ known, MaxTags)]

(* The tags in their sorted order, as many as the cap leaves room for.      *)
WithTags(s, tags, known) ==
  [s EXCEPT !.tags = @ \cup Smallest(tags \ known, MaxTags - Cardinality(known))]

WithService(s, service) ==
  [s EXCEPT !.touched = IF service \in Listed(@) THEN @ ELSE LastOf(Append(@, service), MaxTouched),
            !.depth   = IF @ < MaxDepth THEN @ + 1 ELSE @]

Changed(s, o) ==
  CASE o.kind = "record"  -> WithEvent(s, o.n)
    [] o.kind = "tag"     -> WithTags(s, o.arg, s.tags)
    [] o.kind = "resolve" -> WithService(s, o.arg)
    [] o.kind = "create"  -> s

Logged(l, o) ==
  CASE o.kind = "record"  -> [l EXCEPT !.events = Append(@, o.n)]
    [] o.kind = "resolve" -> [l EXCEPT !.services = Append(@, o.arg)]
    [] OTHER -> l

----------------------------------------------------------------------------
(* The public methods look at the backend first.                            *)
Begin(w, kind, s, arg) ==
  /\ op[w] = Idle /\ ops < MaxOps
  /\ ops' = ops + 1
  /\ events' = IF kind = "record" THEN events + 1 ELSE events
  /\ op' = [op EXCEPT ![w] =
       [at   |-> CASE backend[home[w]] = "memory" -> "memory"
                   [] kind = "export" -> "collect"
                   [] OTHER -> "ensure",
        kind |-> kind, n |-> IF kind = "record" THEN events' ELSE 0, sid |-> s, arg |-> arg, seen |-> None,
        held |-> FALSE]]
  /\ UNCHANGED <<home, stores, hist>>

GetOrCreate(w, s)  == Begin(w, "create", s, None)
RecordEvent(w, s)  == Begin(w, "record", s, None)
ResolveNarrative(w, s, service) == Begin(w, "resolve", s, service)
ExportSessions(w)  == Begin(w, "export", None, None)

(* Only the witchbait detector of a process tags, holding its own lock.     *)
AddTags(w, s, tags) ==
  /\ \A v \in Worker : home[v] = home[w] => op[v].kind # "tag"
  /\ Begin(w, "tag", s, tags)

----------------------------------------------------------------------------
(* The operations in memory, under the lock.                                *)

(* An absent session is created, and takes the place of the first in line;  *)
(* a present one moves to the end, unless only its narrative is resolved.   *)
Evicted(p, s) ==
  IF memory[p][s] = None /\ Len(order[p]) >= MaxSessions THEN {Head(order[p])} ELSE {}

(* Faulty variant: recording does not move a session to the end.            *)
OrderedByCreation(p, o) ==
  IF memory[p][o.sid] = None
  THEN Append(IF Evicted(p, o.sid) = {} THEN order[p] ELSE Tail(order[p]), o.sid)
  ELSE order[p]

Ordered(p, o) ==
  IF memory[p][o.sid] # None /\ o.kind = "resolve" THEN order[p]
  ELSE Used(order[p], o.sid, MaxSessions)

InMemory(w) ==
  LET o == op[w]  p == home[w]  fresh == memory[p][o.sid] = None  out == Evicted(p, o.sid) IN
  /\ o.at = "memory" /\ o.kind # "export"
  /\ memory' = [memory EXCEPT ![p] = [s \in Sid |->
       CASE s = o.sid -> Changed(IF fresh THEN NewSession ELSE @[s], o)
         [] s \in out -> None
         [] OTHER     -> @[s]]]
  /\ order' = [order EXCEPT ![p] = Ordered(p, o)]
  /\ log' = [log EXCEPT ![p] = [s \in Sid |->
       CASE s = o.sid -> Logged(IF fresh THEN NoLog ELSE @[s], o)
         [] s \in out -> NoLog
         [] OTHER     -> @[s]]]
  /\ recency' = IF fresh \/ o.kind # "resolve"
                THEN [recency EXCEPT ![p] = Used(@, o.sid, Len(@) + 1)] ELSE recency
  /\ op' = [op EXCEPT ![w] = Idle]
  /\ UNCHANGED <<home, backend, redis, index, ops, events, mixed, unlisted>>

(* An export reads; in memory that is all it does.                          *)
ExportMemory(w) ==
  /\ op[w].at = "memory" /\ op[w].kind = "export"
  /\ op' = [op EXCEPT ![w] = Idle]
  /\ UNCHANGED <<home, stores, ops, events, hist>>

----------------------------------------------------------------------------
(* The operations in Redis.                                                 *)

(* _redis_or_fallback and _degrade_to_memory: the operation starts over in  *)
(* the memory of its process, which never goes back to Redis.  Other        *)
(* threads of it that already hold the client finish one more round trip.   *)
FallBack(w) ==
  LET inRedis == {v \in Worker : home[v] = home[w] /\ op[v].at \notin {"idle", "memory"}} IN
  /\ backend' = [backend EXCEPT ![home[w]] = "memory"]
  /\ \E H \in IF backend[home[w]] = "redis" THEN SUBSET (inRedis \ {w}) ELSE {{}} :
       op' = [v \in Worker |->
         CASE v = w   -> [op[v] EXCEPT !.at = "memory", !.held = FALSE]
           [] v \in H -> [op[v] EXCEPT !.held = TRUE]
           [] OTHER   -> op[v]]

(* A round trip took effect: the operation is at next, or the reply is lost.*)
Reply(w, next) ==
  \/ op' = [op EXCEPT ![w] = next] /\ UNCHANGED backend
  \/ FallBack(w)

Connected(w, at) == op[w].at = at /\ (backend[home[w]] = "redis" \/ op[w].held)
Goto(w, at, seen) == [op[w] EXCEPT !.at = at, !.seen = seen, !.held = FALSE]

(* Faulty variant: the failure of Redis is only logged.                     *)
RedisFailsSilently(w) ==
  /\ op[w].at \notin {"idle", "memory"}
  /\ backend' = [backend EXCEPT ![home[w]] = "memory"]
  /\ op' = [op EXCEPT ![w] = Idle]
  /\ UNCHANGED <<home, memory, order, redis, index, ops, events, log, mixed, unlisted, recency>>

(* Redis raises and nothing happened, or the client is already dropped.     *)
RedisFails(w) ==
  /\ op[w].at \notin {"idle", "memory"}
  /\ FallBack(w)
  /\ UNCHANGED <<home, memory, order, redis, index, ops, events, hist>>

AfterEnsure(w) ==
  CASE op[w].kind = "create"  -> Idle
    [] op[w].kind = "record"  -> Goto(w, "push", None)
    [] op[w].kind = "tag"     -> Goto(w, "tags", None)
    [] op[w].kind = "resolve" -> Goto(w, "read", None)

(* _get_or_create_redis: one transaction, which every operation runs first. *)
Ensure(w) ==
  LET s == op[w].sid IN
  /\ Connected(w, "ensure")
  /\ redis' = [redis EXCEPT ![s] = IF @ = None THEN NewSession ELSE @]
  /\ index' = index \cup {s}
  /\ unlisted' = unlisted \ {s}
  /\ Reply(w, AfterEnsure(w))
  /\ UNCHANGED <<home, memory, order, ops, events, log, mixed, recency>>

(* _record_event_redis: the list and both counters in one transaction.      *)
Push(w) ==
  LET s == op[w].sid IN
  /\ Connected(w, "push")
  /\ redis' = [redis EXCEPT ![s] = WithEvent(@, op[w].n)]
  /\ log' = [log EXCEPT ![None][s] = Logged(@, op[w])]
  /\ Reply(w, Idle)
  /\ UNCHANGED <<home, memory, order, index, ops, events, mixed, unlisted, recency>>

(* _add_session_tags_redis reads the tags, and adds what there is room for. *)
ReadTags(w) ==
  LET s == op[w].sid  known == Smallest(redis[s].tags, MaxTags) IN
  /\ Connected(w, "tags")
  /\ mixed' = IF \E v \in Worker \ {w} : op[v].at = "add" /\ op[v].sid = s
              THEN mixed \cup {<<s, "add">>} ELSE mixed
  /\ Reply(w, IF op[w].arg \subseteq known \/ Cardinality(known) = MaxTags
              THEN Idle ELSE Goto(w, "add", known))
  /\ UNCHANGED <<home, memory, order, redis, index, ops, events, log, unlisted, recency>>

AddMissingTags(w) ==
  /\ Connected(w, "add")
  /\ redis' = [redis EXCEPT ![op[w].sid] = WithTags(@, op[w].arg, op[w].seen)]
  /\ Reply(w, Idle)
  /\ UNCHANGED <<home, memory, order, index, ops, events, log, mixed, unlisted, recency>>

(* Faulty variant: what Redis returned is not parsed into the narrative.    *)
ReadNoNarrative(w) ==
  LET s == op[w].sid IN
  /\ Connected(w, "read")
  /\ Reply(w, Goto(w, "write", NewSession))
  /\ UNCHANGED <<home, memory, order, redis, index, ops, events, hist>>

(* _resolve_narrative_context_redis reads the narrative and writes it back. *)
ReadNarrative(w) ==
  LET s == op[w].sid IN
  /\ Connected(w, "read")
  /\ mixed' = IF \E v \in Worker \ {w} : op[v].at = "write" /\ op[v].sid = s
              THEN mixed \cup {<<s, "write">>} ELSE mixed
  /\ Reply(w, Goto(w, "write", redis[s]))
  /\ UNCHANGED <<home, memory, order, redis, index, ops, events, log, unlisted, recency>>

WriteNarrative(w) ==
  LET s == op[w].sid  new == WithService(op[w].seen, op[w].arg) IN
  /\ Connected(w, "write")
  /\ redis' = [redis EXCEPT ![s].touched = new.touched, ![s].depth = new.depth]
  /\ log' = [log EXCEPT ![None][s] = Logged(@, op[w])]
  /\ Reply(w, Idle)
  /\ UNCHANGED <<home, memory, order, index, ops, events, mixed, unlisted, recency>>

(* _export_sessions_redis: the ids of the index, then their metadata, up to *)
(* the limit; ids without any are taken off the index.                      *)
CollectIds(w) ==
  /\ Connected(w, "collect")
  /\ Reply(w, IF index = {} THEN Idle ELSE Goto(w, "metadata", index))
  /\ UNCHANGED <<home, memory, order, redis, index, ops, events, log, mixed, unlisted, recency>>

ReadMetadata(w) ==
  /\ Connected(w, "metadata")
  /\ \E stale \in SUBSET {s \in op[w].seen : redis[s] = None} :
       Reply(w, IF stale = {} THEN Idle ELSE Goto(w, "prune", stale))
  /\ UNCHANGED <<home, memory, order, redis, index, ops, events, log, mixed, unlisted, recency>>

PruneIndex(w) ==
  /\ Connected(w, "prune")
  /\ index' = index \ op[w].seen
  /\ unlisted' = unlisted \cup {s \in op[w].seen : redis[s] # None}
  /\ Reply(w, Idle)
  /\ UNCHANGED <<home, memory, order, redis, ops, events, log, mixed, recency>>

(* The lifetime of a session's keys ends.                                   *)
Expire(s) ==
  /\ redis[s] # None
  /\ \A w \in Worker : op[w].sid # s
  /\ redis' = [redis EXCEPT ![s] = None]
  /\ log' = [log EXCEPT ![None][s] = NoLog]
  /\ mixed' = mixed \ {<<s, "write">>, <<s, "add">>} /\ unlisted' = unlisted \ {s}
  /\ UNCHANGED <<home, backend, memory, order, index, op, ops, events, recency>>

----------------------------------------------------------------------------
Call(w) ==
  \/ \E s \in Sid :
       \/ GetOrCreate(w, s) \/ RecordEvent(w, s)
       \/ \E tags \in TagRequest : AddTags(w, s, tags)
       \/ \E service \in Service : ResolveNarrative(w, s, service)
  \/ ExportSessions(w)

RoundTrip(w) ==
  \/ Ensure(w) \/ Push(w) \/ ReadTags(w) \/ AddMissingTags(w) \/ ReadNarrative(w)
  \/ WriteNarrative(w) \/ CollectIds(w) \/ ReadMetadata(w) \/ PruneIndex(w) \/ RedisFails(w)

SessionNext ==
  \/ \E w \in Worker : Call(w) \/ RoundTrip(w) \/ InMemory(w) \/ ExportMemory(w)
  \/ \E s \in Sid : Expire(s)

SessionSpec == SessionInit /\ [][SessionNext]_sessionVars

----------------------------------------------------------------------------
SessionData == [events : Seq(1 .. MaxOps), total : Nat, tags : SUBSET UNION TagRequest,
                touched : Seq(Service), depth : 0 .. MaxDepth]

Capped(d) ==
  Len(d.events) <= MaxEvents /\ Len(d.touched) <= MaxTouched /\ IsInjective(d.touched)

(* Types, and every cap of a session and of the memory store; two processes *)
(* that tag one session of Redis at once may exceed the cap of tags.        *)
SessionTypeOK ==
  /\ \A s \in Sid : redis[s] # None =>
       /\ redis[s] \in SessionData /\ Capped(redis[s])
       /\ Cardinality(redis[s].tags) <= MaxTags \/ <<s, "add">> \in mixed
  /\ \A p \in Process :
       /\ backend[p] \in {"memory", "redis"}
       /\ Len(order[p]) <= MaxSessions /\ IsInjective(order[p])
       /\ Listed(order[p]) = {s \in Sid : memory[p][s] # None}
       /\ \A s \in Listed(order[p]) :
            /\ memory[p][s] \in SessionData /\ Capped(memory[p][s])
            /\ Cardinality(memory[p][s].tags) <= MaxTags

(* Every store and, for each session in it, what was written to it.         *)
Kept == {[data |-> redis[s], log |-> log[None][s]] : s \in {s \in Sid : redis[s] # None}}
  \cup UNION {{[data |-> memory[p][s], log |-> log[p][s]] : s \in Listed(order[p])} : p \in Process}

Copies(where, s, n) ==
  Cardinality({i \in DOMAIN where[s].events : where[s].events[i] = n})

(* docs/user-guide.md, line 224: a session's counter tracks all of its      *)
(* events, and of the events themselves it keeps the most recent ones.      *)
RetainedAreNewest ==
  \A k \in Kept :
    k.data.total = Len(k.log.events) /\ k.data.events = LastOf(k.log.events, MaxEvents)

(* What the stores keep of a session is within its caps and the newest.      *)
RetainedWithinCaps == SessionTypeOK /\ RetainedAreNewest

(* An event is recorded once when record_event returns - and once in each   *)
(* store if Redis kept it and its reply was lost.                           *)
RecordedOnce ==
  [][\A w \in Worker : op[w].kind = "record" /\ op'[w] = Idle =>
       LET inRedis  == Copies(log'[None], op[w].sid, op[w].n)
           inMemory == Copies(log'[home[w]], op[w].sid, op[w].n)
       IN  IF op[w].at = "memory" THEN inMemory = 1 /\ inRedis <= 1
                                  ELSE inMemory = 0 /\ inRedis = 1]_sessionVars

(* No update of a narrative is lost, unless two writers read it at once:    *)
(* its depth counts them, and the services last touched are all there.      *)
Complete(d, visits) ==
  /\ d.depth = IF Len(visits) < MaxDepth THEN Len(visits) ELSE MaxDepth
  /\ Listed(d.touched) \subseteq Listed(visits)
  /\ Cardinality(Listed(visits)) <= MaxTouched => Listed(visits) = Listed(d.touched)
  /\ visits # << >> => visits[Len(visits)] \in Listed(d.touched)

NarrativeComplete ==
  /\ \A s \in Sid : redis[s] # None =>
       <<s, "write">> \in mixed \/ Complete(redis[s], log[None][s].services)
  /\ \A p \in Process : \A s \in Listed(order[p]) :
       Complete(memory[p][s], log[p][s].services)

(* Every live session is in the index exports read, unless one that saw it  *)
(* expired took it off after it came back; its next operation heals that.   *)
LiveIsListed == \A s \in Sid : redis[s] # None => s \in index \cup unlisted

(* What is kept of a session is within the caps, and a live one is listed.   *)
RetainedAndListed == RetainedWithinCaps /\ LiveIsListed

(* What the full memory store drops is the session that has been inactive   *)
(* for longest: created, recorded to or tagged before all others.           *)
DropsLeastRecent ==
  [][\A p \in Process : \A out \in Listed(order[p]) \ Listed(order'[p]) :
       \A s \in Listed(order[p]) \ {out} :
         \E i, j \in DOMAIN recency[p] : i < j /\ recency[p][i] = out /\ recency[p][j] = s]_sessionVars
=============================================================================
