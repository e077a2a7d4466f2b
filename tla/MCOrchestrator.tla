---------------------------- MODULE MCOrchestrator ----------------------------
(* What the API process does with the event log, the services and its clients: *)
(* the live feed of its pages, the rotations of its services, or the rate      *)
(* limit.  They share nothing, and a behaviour is one of one of them: the     *)
(* pages wait to be connected in its initial state, which is asked for only    *)
(* where the feed is its part.                                              *)
(* Four events through a window of two, two pages, batches of at most two; two *)
(* services, the scheduler and one operator; three clients, one of them        *)
(* tracked at a time.                                                       *)
EXTENDS EventFeed, Rotation, RateLimiter

CONSTANTS ssh, mongo, calm, db

VARIABLE part

MCUid == 1 .. 4

(* The profile db-heavy switches the document database on.                   *)
Switches == [p \in Profile |-> IF p = db THEN {ssh, mongo} ELSE {ssh}]

orchestratorVars == <<feedAll, rotationVars, limiterVars, part>>

OrchestratorInit ==
  /\ FeedInit /\ RotationInit /\ LimiterInit
  /\ part \in {"feed", "rotation", "limits"}
  /\ part = "feed" => feed = calm

OrchestratorNext ==
  /\ UNCHANGED part
  /\ \/ part = "feed" /\ FeedNext /\ UNCHANGED <<rotationVars, limiterVars>>
     \/ part = "rotation" /\ RotationNext /\ UNCHANGED <<feedAll, limiterVars>>
     \/ part = "limits" /\ LimiterNext /\ UNCHANGED <<feedAll, rotationVars>>

OrchestratorSpec ==
  /\ OrchestratorInit /\ [][OrchestratorNext]_orchestratorVars
  /\ part # "feed" \/ FeedFairness
  /\ RotationFairness
=============================================================================
