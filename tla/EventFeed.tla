----------------------------- MODULE EventFeed -----------------------------
(***************************************************************************)
(* The live event feed: /ws/events (dashboard/api.py) polls the bus's log  *)
(* for each websocket, and the dashboard page (dashboard/app/page.tsx)     *)
(* shows the batches, keeps a cursor, and reconnects with it - also to an  *)
(* API that restarted and numbers its events from 1 again.                 *)
(***************************************************************************)
EXTENDS EventLog

CONSTANTS
  Page,       (* open dashboard pages                                       *)
  BatchLimit, (* batch_limit                                                *)
  MaxDrops, MaxRestarts, (* bounds of the model                             *)
  Disconnected (* what has no cursor: a page without a websocket    *)

ASSUME FeedAssumption == BatchLimit \in Nat \ {0} /\ Disconnected \notin Nat

VARIABLES
  server,    (* cursor of each page's websocket loop, or Disconnected       *)
  onWire,    (* batches sent to a page and not yet received                 *)
  cursor,    (* streamCursorRef of each page                                *)
  shown,     (* history: ids of this API process a page received            *)
  stale,     (* history: pages whose cursor counts another process's events *)
  drops, restarts

feedVars == <<server, onWire, cursor, shown, stale, drops, restarts>>

IdsOf(events) == [i \in DOMAIN events |-> events[i].id]

FeedInit ==
  /\ LogInit
  /\ server = [p \in Page |-> Disconnected]
  /\ onWire = [p \in Page |-> << >>]
  /\ cursor = [p \in Page |-> 0]
  /\ shown  = [p \in Page |-> << >>]
  /\ stale = {} /\ drops = 0 /\ restarts = 0

(* The bus records an event.  Bound: each uid is used once a process.       *)
Happen(u) ==
  /\ u = nextId
  /\ Record(u)
  /\ UNCHANGED feedVars

Connect(p) ==
  /\ server[p] = Disconnected
  /\ server' = [server EXCEPT ![p] = cursor[p]]
  /\ UNCHANGED <<logVars, onWire, cursor, shown, stale, drops, restarts>>

(* One round of the websocket loop; an empty batch is not sent.             *)
Poll(p) ==
  LET batch == Since(server[p], BatchLimit) IN
  /\ server[p] # Disconnected
  /\ batch # [events |-> << >>, cursor |-> server[p]]
  /\ server' = [server EXCEPT ![p] = batch.cursor]
  /\ onWire' = IF batch.events = << >> THEN onWire ELSE [onWire EXCEPT ![p] = Append(@, batch)]
  /\ UNCHANGED <<logVars, cursor, shown, stale, drops, restarts>>

(* Faulty variant: the page shows a batch and keeps its old cursor.         *)
OnMessageKeepsCursor(p) ==
  LET batch == Head(onWire[p]) IN
  /\ onWire[p] # << >>
  /\ onWire' = [onWire EXCEPT ![p] = Tail(@)]
  /\ shown' = [shown EXCEPT ![p] = @ \o IdsOf(batch.events)]
  /\ UNCHANGED <<logVars, server, cursor, stale, drops, restarts>>

OnMessage(p) ==
  LET batch == Head(onWire[p]) IN
  /\ onWire[p] # << >>
  /\ onWire' = [onWire EXCEPT ![p] = Tail(@)]
  /\ shown' = [shown EXCEPT ![p] = @ \o IdsOf(batch.events)]
  /\ cursor' = [cursor EXCEPT ![p] = IF batch.cursor > @ THEN batch.cursor ELSE @]
  /\ UNCHANGED <<logVars, server, stale, drops, restarts>>

(* A websocket breaks: what it still carried is lost.                       *)
Drop(p) ==
  /\ server[p] # Disconnected
  /\ drops < MaxDrops
  /\ drops' = drops + 1
  /\ server' = [server EXCEPT ![p] = Disconnected]
  /\ onWire' = [onWire EXCEPT ![p] = << >>]
  /\ UNCHANGED <<logVars, cursor, shown, stale, restarts>>

(* The API process restarts: an empty log numbered from 1, no websockets.   *)
Restart ==
  /\ restarts < MaxRestarts
  /\ restarts' = restarts + 1
  /\ recent' = << >> /\ nextId' = 1
  /\ server' = [p \in Page |-> Disconnected]
  /\ onWire' = [p \in Page |-> << >>]
  /\ shown'  = [p \in Page |-> << >>]
  /\ stale'  = {p \in Page : cursor[p] > 0}
  /\ UNCHANGED <<cursor, drops>>

FeedNext ==
  \/ \E u \in Uid : Happen(u)
  \/ \E p \in Page : Connect(p) \/ Poll(p) \/ OnMessage(p) \/ Drop(p)
  \/ Restart

feedAll == <<logVars, feedVars>>

FeedSpec == FeedInit /\ [][FeedNext]_feedAll

(* A page retries until it is connected; the loop polls on; TCP delivers.   *)
FeedFairness ==
  \A p \in Page : WF_feedAll(Connect(p)) /\ WF_feedAll(Poll(p)) /\ WF_feedAll(OnMessage(p))

FairFeedSpec == FeedSpec /\ FeedFairness

----------------------------------------------------------------------------
(* However often its websocket breaks, a page shows no event twice, none out *)
(* of order, and skips none it could still have read: every event of the     *)
(* window that its cursor has passed was shown - within one API process.     *)
ShownInOrder ==
  \A p \in Page \ stale :
    /\ \A i, j \in DOMAIN shown[p] : i < j => shown[p][i] < shown[p][j]
    /\ \A i \in DOMAIN recent :
         recent[i].id <= cursor[p] => \E k \in DOMAIN shown[p] : shown[p][k] = recent[i].id

(* Every page catches up with the log.                                      *)
CatchesUp ==
  \A p \in Page : <>[](p \in stale \/ recent = << >> \/ cursor[p] = Ceiling)
=============================================================================
