----------------------------- MODULE RabbitHole -----------------------------
(***************************************************************************)
(* The rabbit-hole engine behind the shells and databases (engine/): the   *)
(* worlds, credential graphs and narrative contexts of sessions, which are *)
(* kept in three dictionaries of limited size.  The engine is shared by    *)
(* the threads of all connections and takes no lock.  A session is one     *)
(* connection, its thread serves its requests one after the other, and     *)
(* `thread` says where it is.                                              *)
(*                                                                         *)
(* What is written in answers is abstracted to its number in the cascade.  *)
(* The local LLM is in module LocalLlm.  Bound: MaxRequests.               *)
(***************************************************************************)
EXTENDS Integers, Sequences, FiniteSets, RecentUse

CONSTANTS
  Intruder,    (* sessions                                                  *)
  MaxBusy,     (* connections that make a request at the same time           *)
  MaxKept,     (* max_worlds, max_graphs, _max_sessions                      *)
  Depth,       (* credentials in a cascade                                   *)
  MaxRequests

ASSUME RabbitHoleAssumption ==
  /\ MaxBusy \in Nat \ {0} /\ MaxKept \in Nat \ {0}
  /\ Depth \in Nat \ {0} /\ MaxRequests \in Nat

Store == {"worlds", "graphs", "contexts"}

VARIABLES
  kept,      (* _worlds, _graphs, _sessions: their keys, oldest first       *)
  hydrated,  (* the kept worlds whose hydrated is set                       *)
  revealed,  (* _revealed_index, from 1; 0 is a key it does not have         *)
  thread,    (* per thread: what is left to do, the step in it, what it read *)
  requests,  (* requests begun                                              *)
  shown,     (* history: the credentials a session got from its graph       *)
  disturbed  (* history: sessions that lost their graph during a request     *)

engineVars == <<kept, hydrated, revealed, shown, disturbed>>
rabbitHoleVars == <<engineVars, thread, requests>>

Idle == [todo |-> << >>, at |-> "idle", seen |-> 0]

RabbitHoleInit ==
  /\ kept = [d \in Store |-> << >>]
  /\ hydrated = {} /\ revealed = [s \in Intruder |-> 0]
  /\ thread = [s \in Intruder |-> Idle] /\ requests = 0
  /\ shown = [s \in Intruder |-> << >>] /\ disturbed = {}

----------------------------------------------------------------------------
(* respond_shell and respond_database_command: the world, which is hydrated  *)
(* with its graph when it is new, the narrative context, and the command.     *)
Opening == <<"worlds", "graphs", "hydrate", "contexts", "command">>

AtStep(t, step) == thread[t].at = step
Task(s) == Head(thread[s].todo)
Ready(s, task) == AtStep(s, "task") /\ Task(s) = task
Goes(t, step) == thread' = [thread EXCEPT ![t].at = step]

(* A thread turns to its next tasks, or its request ends.                    *)
Then(s, todo) ==
  thread' = [thread EXCEPT ![s] =
    IF todo = << >> THEN Idle ELSE [todo |-> todo, at |-> "task", seen |-> 0]]
EndTask(s) == Then(s, Tail(thread[s].todo))

----------------------------------------------------------------------------
(* get_or_create, ensure_graph and resolve_session_context: every call of a  *)
(* method of a dictionary is a step, but for the look that misses, as only    *)
(* the thread itself can change that: it is part of the next one, len.       *)

Found(s, d) ==
  IF s \in Listed(kept[d]) THEN "touch"
  ELSE IF Len(kept[d]) >= MaxKept THEN "drop" ELSE "insert"

LookFor(s, todo) == [todo |-> todo, at |-> Found(s, Head(todo)), seen |-> 0]

(* A request begins with the look for its world.                             *)
Respond(s) ==
  /\ AtStep(s, "idle") /\ requests < MaxRequests
  /\ Cardinality({t \in Intruder : ~AtStep(t, "idle")}) < MaxBusy
  /\ requests' = requests + 1
  /\ thread' = [thread EXCEPT ![s] = LookFor(s, Opening)]
  /\ UNCHANGED engineVars

Look(s) ==
  /\ AtStep(s, "task") /\ Task(s) \in Store
  /\ thread' = [thread EXCEPT ![s] = LookFor(s, @.todo)]
  /\ UNCHANGED <<engineVars, requests>>

(* A world that was hydrated before needs no graph yet.                     *)
Touch(s) ==
  /\ AtStep(s, "touch") /\ s \in Listed(kept[Task(s)])
  /\ kept' = [kept EXCEPT ![Task(s)] = Used(@, s, Len(@))]
  /\ LET rest == Tail(thread[s].todo) IN
     IF Task(s) = "worlds" /\ s \in hydrated /\ "hydrate" \in Listed(rest)
     THEN Then(s, SubSeq(rest, 3, Len(rest))) ELSE Then(s, rest)
  /\ UNCHANGED <<hydrated, revealed, shown, disturbed, requests>>

(* move_to_end raises, as another thread has dropped the key, or popitem, as  *)
(* others have dropped them all: the connection ends.  The model gives its    *)
(* session to the next one.                                                 *)
Raises(s) ==
  /\ \/ AtStep(s, "touch") /\ s \notin Listed(kept[Task(s)])
     \/ AtStep(s, "drop") /\ kept[Task(s)] = << >>
  /\ Then(s, << >>)
  /\ UNCHANGED <<engineVars, requests>>

(* The oldest session may be in the middle of a request.                    *)
Drop(s) ==
  /\ AtStep(s, "drop") /\ kept[Task(s)] # << >>
  /\ LET d == Task(s)
         oldest == Head(kept[d])
     IN  /\ kept' = [kept EXCEPT ![d] = Tail(@)]
         /\ hydrated' = IF d = "worlds" THEN hydrated \ {oldest} ELSE hydrated
         /\ IF d = "graphs"
            THEN /\ thread' = [thread EXCEPT ![s].at = "forget", ![s].seen = oldest]
                 /\ shown' = [shown EXCEPT ![oldest] = << >>]
                 /\ disturbed' = disturbed \cup ({oldest} \ {t \in Intruder : AtStep(t, "idle")})
            ELSE Goes(s, "insert") /\ UNCHANGED <<shown, disturbed>>
  /\ UNCHANGED <<revealed, requests>>

(* Faulty variant: the index of a dropped graph stays.                      *)
ForgetNothing(s) ==
  /\ AtStep(s, "forget")
  /\ Goes(s, "insert")
  /\ UNCHANGED <<engineVars, requests>>

(* The index of the dropped graph goes after the graph: its session may have *)
(* made a new one by then.                                                  *)
Forget(s) ==
  /\ AtStep(s, "forget")
  /\ LET dropped == thread[s].seen IN
     /\ revealed' = [revealed EXCEPT ![dropped] = 0]
     /\ disturbed' = IF AtStep(dropped, "idle") /\ shown[dropped] = << >> THEN disturbed
                     ELSE disturbed \cup {dropped}
  /\ Goes(s, "insert")
  /\ UNCHANGED <<kept, hydrated, shown, requests>>

Insert(s) ==
  /\ AtStep(s, "insert")
  /\ kept' = [kept EXCEPT ![Task(s)] = Append(@, s)]
  /\ revealed' = IF Task(s) = "graphs" THEN [revealed EXCEPT ![s] = 0] ELSE revealed
  /\ EndTask(s)
  /\ UNCHANGED <<hydrated, shown, disturbed, requests>>

(* _hydrate_world marks the world in hand, kept or not, and the look for the  *)
(* context follows.                                                         *)
Hydrate(s) ==
  /\ Ready(s, "hydrate")
  /\ hydrated' = hydrated \cup ({s} \cap Listed(kept["worlds"]))
  /\ thread' = [thread EXCEPT ![s] = LookFor(s, Tail(@.todo))]
  /\ UNCHANGED <<kept, revealed, shown, disturbed, requests>>

----------------------------------------------------------------------------
(* What the command asks for, up to its first look: the credentials, a dot    *)
(* file, another file, a database client or query, or nothing that is kept.   *)
Interpret(s) ==
  /\ Ready(s, "command")
  /\ \/ \E c \in {<<"list">>, << >>} : Then(s, c)
     \/ \E c \in {<<"worlds", "graphs", "reveal">>, <<"worlds">>, <<"graphs", "reveal">>} :
          thread' = [thread EXCEPT ![s] = LookFor(s, c)]
  /\ UNCHANGED <<engineVars, requests>>

(* all_revealed, and the first credential if there is none yet.              *)
ListRevealed(s) ==
  /\ Ready(s, "list")
  /\ IF s \in Listed(kept["graphs"]) /\ revealed[s] > 0
     THEN EndTask(s) ELSE Then(s, <<"graphs", "reveal">>)
  /\ UNCHANGED <<engineVars, requests>>

(* reveal_next reads the index and writes it back.                          *)
ReadIndex(s) ==
  /\ Ready(s, "reveal")
  /\ IF revealed[s] >= Depth THEN EndTask(s)
     ELSE thread' = [thread EXCEPT ![s].at = "record", ![s].seen = revealed[s]]
  /\ UNCHANGED <<engineVars, requests>>

WriteIndex(s) ==
  /\ AtStep(s, "record")
  /\ revealed' = [revealed EXCEPT ![s] = thread[s].seen + 1]
  /\ shown' = [shown EXCEPT ![s] = Append(@, thread[s].seen + 1)]
  /\ EndTask(s)
  /\ UNCHANGED <<kept, hydrated, disturbed, requests>>

----------------------------------------------------------------------------
RabbitHoleNext ==
  \E s \in Intruder :
       \/ Respond(s)
       \/ Look(s) \/ Touch(s) \/ Raises(s)
       \/ Drop(s) \/ Forget(s) \/ Insert(s) \/ Hydrate(s)
       \/ Interpret(s) \/ ListRevealed(s) \/ ReadIndex(s) \/ WriteIndex(s)

RabbitHoleSpec == RabbitHoleInit /\ [][RabbitHoleNext]_rabbitHoleVars

----------------------------------------------------------------------------
(* Properties *)

(* The dictionaries pass their limit only by what threads insert that found  *)
(* room at the same time, and never grow beyond that.                       *)
KeptWithinCaps ==
  \A d \in Store : Len(kept[d]) <= MaxKept + MaxBusy - 1

BeingForgotten == {thread[s].seen : s \in {t \in Intruder : AtStep(t, "forget")}}

(* A session is shown the credentials of its graph one after the other,      *)
(* without a repetition or a gap, and listed exactly those; and no index is  *)
(* kept for a graph that was dropped, unless it was dropped while its session *)
(* was in a request.                                                        *)
CascadeUnfolds ==
  \A s \in Intruder \ disturbed :
    /\ shown[s] = [i \in 1 .. Len(shown[s]) |-> i]
    /\ s \in Listed(kept["graphs"]) => revealed[s] = Len(shown[s])
    /\ s \notin Listed(kept["graphs"]) \cup BeingForgotten => revealed[s] = 0

(* What the engine keeps per session stays bounded and true.                 *)
EngineSound == KeptWithinCaps /\ CascadeUnfolds
=============================================================================
