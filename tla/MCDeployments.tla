--------------------------- MODULE MCDeployments ---------------------------
(* Two instances.  Through the API alone: two clients, three deployment ids, *)
(* two free ports and one port taken by a baseline service.  With            *)
(* just-in-time deployments: one client at a time beside one deployer and    *)
(* the scheduler, two ids, and a single manifest, so that all meet on its    *)
(* port and its name.                                                       *)
EXTENDS JitDeployments, TLC

CONSTANTS p1, p2, p0, n1, n2, j1

VARIABLE part

Svc(n, b) == [name |-> n, bind |-> b]

MCManifest == { <<Svc(n1, p1)>>, <<Svc(n1, p1), Svc(n2, p2)>>, <<Svc(n2, p0)>> }

ClientAndIdSymmetry == Permutations(Client) \cup Permutations(Id)

(* The bounds of the instance with just-in-time deployments.                *)
WithinBounds ==
  /\ Cardinality({c \in Client : call'[c] # Idle}) <= 1
  /\ Cardinality({d \in Id : records'[d].status # "none"}) <= 2
  /\ \A t \in Thread : call'[t].todo \in {<< >>, <<Svc(n1, p1)>>}

DeploymentsInit == JitInit /\ part \in {"api", "jit"}

DeploymentsNext ==
  /\ UNCHANGED part
  /\ \/ part = "api" /\ DepNext /\ UNCHANGED jitVars
     \/ part = "jit" /\ JitNext /\ WithinBounds

DeploymentsSpec == DeploymentsInit /\ [][DeploymentsNext]_<<vars, part>>
ApiSpec == DeploymentsInit /\ part = "api" /\ [][DeploymentsNext]_<<vars, part>>

(* Registrations made through the API reserve: no two pending or active     *)
(* records claim one binding.  (A just-in-time deploy registers on a thread  *)
(* of its own, and with it this does not hold.)                             *)
ApiReservationsDisjoint == part = "api" => ReservationsDisjoint
=============================================================================
