----------------------------- MODULE MCOperations -----------------------------
(* What emulators and operators do side by side behind the services: the lure *)
(* bandit, the campaigns of the intelligence store or the rows of its tables,  *)
(* the rabbit-hole engine, or the breaker before its local LLM.  They share no *)
(* state but the lock of the store, and which one a behaviour is about is     *)
(* chosen in its initial state.                                             *)
EXTENDS Lures, IntelStore, RabbitHole, LocalLlm, TLC

CONSTANTS w1, w2, t1, t2, t3, ssh, draft, active

VARIABLE part

Arms == {1, 2, 3}
DeniedArms == {3}
ArmsOffered == [c \in Context |-> Arms]
OverrideTimes == {1}

(* The threads of the store are the sessions and connections of the others.  *)
Symmetry == Permutations(Caller) \cup Permutations(Thread)

OperationsInit ==
  /\ LuresInit /\ IntelInit /\ RabbitHoleInit /\ LlmInit
  /\ part \in {"lures", "campaigns", "rows", "engine", "llm"}

(* Whether an operation of the store is about a campaign.                    *)
OfCampaign(c) == c.op # "none" => ((part = "campaigns") <=> (c.campaign # None))

OperationsNext ==
  /\ UNCHANGED part
  /\ \/ part = "lures" /\ LuresNext /\ UNCHANGED <<storeVars, rabbitHoleVars, llmVars>>
     \/ /\ part \in {"campaigns", "rows"} /\ IntelNext
        /\ \A t \in Thread : OfCampaign(call'[t])
        /\ UNCHANGED <<lureVars, rabbitHoleVars, llmVars>>
     \/ part = "engine" /\ RabbitHoleNext /\ UNCHANGED <<lureVars, storeVars, llmVars>>
     \/ part = "llm" /\ LlmNext /\ UNCHANGED <<lureVars, storeVars, rabbitHoleVars>>

operationsVars == <<lureVars, storeVars, rabbitHoleVars, llmVars, part>>

OperationsSpec == OperationsInit /\ [][OperationsNext]_operationsVars

(* The engine keeps its dictionaries small and its cascade in order, and      *)
(* spares an LLM that fails.                                                *)
EngineHolds == []EngineSound /\ CooldownHolds
=============================================================================
