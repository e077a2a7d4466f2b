----------------------------- MODULE MCEcosystem -----------------------------
(* The threads that run by themselves: the lifecycle thread of the           *)
(* just-in-time deployments, the scheduler of activities, or the worker that *)
(* ships log entries.  They share nothing.  A behaviour is one of one of     *)
(* them, and in the initial state of each nothing is due that fairness would *)
(* ask for.                                                                 *)
EXTENDS JitDeployments, Activity, SiemShipper

CONSTANTS p1, n1

VARIABLE part

OneManifest == { <<[name |-> n1, bind |-> p1]>> }

allVars == <<vars, activityVars, shipperVars, part>>

EcosystemInit ==
  /\ JitInit /\ ActivityInit /\ ShipperInit
  /\ part \in {"jit", "activity", "siem"}
  /\ part # "siem" => transport = "http" /\ keeps

EcosystemNext ==
  /\ UNCHANGED part
  /\ \/ part = "jit" /\ JitNext /\ UNCHANGED <<activityVars, shipperVars>>
     \/ part = "activity" /\ ActivityNext /\ UNCHANGED <<vars, shipperVars>>
     \/ part = "siem" /\ ShipperNext /\ UNCHANGED <<vars, activityVars>>

EcosystemSpec ==
  /\ EcosystemInit /\ [][EcosystemNext]_allVars
  /\ JitFairness /\ ActivityFairness /\ ShipperFairness

(* A just-in-time deployment ends, whoever touches it, and gives its place    *)
(* to the next one.                                                         *)
DeploymentsEnd == MaxTtlTearsDown /\ PoolRecovers

(* The shipping of log entries alone.                                       *)
SiemSpec ==
  /\ EcosystemInit /\ part = "siem" /\ [][EcosystemNext]_allVars
  /\ ShipperFairness
=============================================================================
