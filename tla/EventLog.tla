------------------------------ MODULE EventLog ------------------------------
(***************************************************************************)
(* What EventBus (core/event_bus.py) promises about its recent events: a   *)
(* log whose entries are numbered without gaps and never change, and of    *)
(* which only the newest Window entries can still be read.                 *)
(***************************************************************************)
EXTENDS Naturals, Sequences, FiniteSets

CONSTANTS
  Uid,     (* event uids: one per publish                                   *)
  Window   (* maxlen of the _recent_events deque                            *)

ASSUME WindowAssumption == Window \in Nat \ {0}

VARIABLES
  recent,  (* _recent_events                                                *)
  nextId   (* _next_event_id                                                *)

logVars == <<recent, nextId>>

Entry == [id : Nat \ {0}, uid : Uid]

InWindow(u) == \E i \in DOMAIN recent : recent[i].uid = u

(* Faulty variant: the deque has no maxlen.                                 *)
PushUnbounded(log, e) == Append(log, e)

(* deque(maxlen = Window).append *)
Push(log, e) == Append(IF Len(log) < Window THEN log ELSE Tail(log), e)

LogInit == recent = << >> /\ nextId = 1

Record(u) ==
  /\ recent' = Push(recent, [id |-> nextId, uid |-> u])
  /\ nextId' = nextId + 1

LogNext == \E u \in Uid : ~InWindow(u) /\ Record(u)

LogSpec == LogInit /\ [][LogNext]_logVars

(* The window is the newest part of a log numbered without gaps.            *)
WindowIsContiguous ==
  /\ Len(recent) <= Window
  /\ \A i \in DOMAIN recent : recent[i].id + Len(recent) = nextId + i - 1

(* No event is in it twice. *)
WindowHasNoDuplicates ==
  \A i, j \in DOMAIN recent : recent[i].uid = recent[j].uid => i = j

----------------------------------------------------------------------------
(* recent_events_since(cursor, limit): what is sent, and the next cursor.   *)

Floor   == recent[1].id
Ceiling == recent[Len(recent)].id

(* Faulty variant: a cursor that fell out of the window starts one too late. *)
EffectiveSkipsFloor(cursor) ==
  IF cursor < Floor - 1 THEN Floor ELSE IF cursor > Ceiling THEN Ceiling ELSE cursor

Effective(cursor) ==
  IF cursor < Floor - 1 THEN Floor - 1 ELSE IF cursor > Ceiling THEN Ceiling ELSE cursor

Newer(cursor) == {i \in DOMAIN recent : recent[i].id > Effective(cursor)}

(* The entries that are newer, in their order, and at most limit of them.   *)
Pending(cursor, limit) ==
  LET count    == Cardinality(Newer(cursor))
      place(k) == CHOOSE i \in Newer(cursor) : Cardinality({j \in Newer(cursor) : j <= i}) = k
  IN  [k \in 1 .. (IF count > limit THEN limit ELSE count) |-> recent[place(k)]]

Since(cursor, limit) ==
  IF recent = << >> THEN [events |-> << >>, cursor |-> cursor]
  ELSE LET pending == Pending(cursor, limit)
       IN  [events |-> pending,
            cursor |-> IF pending = << >> THEN Effective(cursor)
                       ELSE pending[Len(pending)].id]
=============================================================================
