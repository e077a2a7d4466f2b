--------------------------- MODULE ConnectionServer ---------------------------
(*****************************************************************************)
(* The threaded server of an emulator (services/ssh/emulator.py, and the     *)
(* same in the HTTP, database and LLM emulators): an accept loop hands every *)
(* connection to a thread, a semaphore bounds them, and a stop waits for the *)
(* loop but not for the threads: they end later, beside those of the next    *)
(* start.  A connection is used once.  Bound: MaxStarts.                     *)
(*****************************************************************************)
EXTENDS Naturals, FiniteSets, RecentUse

CONSTANTS
  Connection,  (* connections that clients open                              *)
  Slots,       (* max_concurrent_connections                                 *)
  Failures,    (* auth_failures_before_success                                *)
  MaxStarts

ASSUME ServerAssumption ==
  Slots \in Nat \ {0} /\ Failures \in Nat /\ MaxStarts \in Nat \ {0}

VARIABLES
  server,      (* the latest server object: servers started so far           *)
  stage,       (* "up", "stopping" - shutdown() waits for the loop - or "down" *)
  free,        (* of every server: the free _connection_slots                *)
  conn         (* of every connection: where it is, and of which server      *)

serverVars == <<server, stage, free, conn>>

ServerInit ==
  /\ server = 0 /\ stage = "down"
  /\ free = [n \in 1 .. MaxStarts |-> 0]
  /\ conn = [c \in Connection |-> [at |-> "new", of |-> 0]]

Gone      == [at |-> "gone", of |-> 0]
Open(c)   == conn[c].at = "open"
Accepting == \E c \in Connection : conn[c].at = "accepting"

StartServer ==
  /\ stage = "down" /\ server < MaxStarts
  /\ server' = server + 1 /\ stage' = "up"
  /\ free' = [free EXCEPT ![server + 1] = Slots]
  /\ UNCHANGED conn

(* The loop takes one connection at a time, and a slot for it or none.       *)
Accept(c) ==
  /\ stage = "up" /\ ~Accepting /\ conn[c].at = "new"
  /\ IF free[server] > 0
     THEN /\ free' = [free EXCEPT ![server] = @ - 1]
          /\ conn' = [conn EXCEPT ![c] = [at |-> "accepting", of |-> server]]
     ELSE conn' = [conn EXCEPT ![c] = Gone] /\ UNCHANGED free
  /\ UNCHANGED <<server, stage>>

SpawnHandler(c) ==
  /\ conn[c].at = "accepting"
  /\ conn' = [conn EXCEPT ![c].at = "open"]
  /\ UNCHANGED <<server, stage, free>>

(* The thread cannot be started.                                             *)
SpawnFails(c) ==
  /\ conn[c].at = "accepting"
  /\ conn' = [conn EXCEPT ![c] = Gone]
  /\ free' = [free EXCEPT ![conn[c].of] = @ + 1]
  /\ UNCHANGED <<server, stage>>

(* Faulty variant: the slot is given back to the server of the day.          *)
EndAtCurrent(c) ==
  /\ Open(c)
  /\ conn' = [conn EXCEPT ![c] = Gone]
  /\ free' = [free EXCEPT ![server] = @ + 1]
  /\ UNCHANGED <<server, stage>>

(* process_request_thread: however the handler ends, its slot is released.   *)
EndHandler(c) ==
  /\ Open(c)
  /\ conn' = [conn EXCEPT ![c] = Gone]
  /\ free' = [free EXCEPT ![conn[c].of] = @ + 1]
  /\ UNCHANGED <<server, stage>>

Shutdown ==
  /\ stage = "up"
  /\ stage' = "stopping"
  /\ UNCHANGED <<server, free, conn>>

(* The loop has ended: the rest of stop().                                   *)
CloseServer ==
  /\ stage = "stopping" /\ ~Accepting
  /\ stage' = "down"
  /\ UNCHANGED <<server, free, conn>>

(* What the server does by itself.                                           *)
ServerStep ==
  \/ StartServer \/ Shutdown
  \/ \E c \in Connection : Accept(c) \/ SpawnHandler(c) \/ SpawnFails(c)

(* What an emulator makes of it: it ends handlers, and finishes a stop.      *)
ServerNext == ServerStep \/ CloseServer \/ \E c \in Connection : EndHandler(c)

ServerSpec == ServerInit /\ [][ServerNext]_serverVars

-----------------------------------------------------------------------------
Holds(n) == {c \in Connection : conn[c].of = n /\ conn[c].at \in {"accepting", "open"}}

(* Every server ever started has its slots, taken or free: none is lost when *)
(* a thread cannot start, none is given to a successor when the handler of a *)
(* stopped server ends - so no server passes its maximum of connections.     *)
SlotsKept ==
  \A n \in 1 .. server : free[n] + Cardinality(Holds(n)) = Slots
=============================================================================
