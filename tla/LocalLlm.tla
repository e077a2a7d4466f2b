------------------------------ MODULE LocalLlm ------------------------------
(***************************************************************************)
(* The circuit breaker before the local LLM of the rabbit-hole engine      *)
(* (engine/rabbit_hole.py, _generate_local_text).  The threads of all      *)
(* connections share it without a lock, and a snapshot for the API looks   *)
(* at it, too.  Texts, error messages and the counters that are only shown *)
(* are left out.  Bound: MaxSeconds.                                       *)
(***************************************************************************)
EXTENDS Naturals

CONSTANTS
  Connection,  (* threads with commands for which the LLM is asked           *)
  Api,         (* the thread that answers /engine/local-llm                  *)
  Threshold,   (* failure_threshold                                         *)
  LlmCooldown, (* cooldown_seconds                                          *)
  MaxSeconds

ASSUME LlmAssumption ==
  /\ Api \notin Connection
  /\ Threshold \in Nat \ {0} /\ LlmCooldown \in Nat /\ MaxSeconds \in Nat

VARIABLES
  asking,    (* per thread: "idle", "resetting" or "sending"                *)
  failures,  (* local_llm_consecutive_failures                              *)
  until,     (* local_llm_cooldown_until_monotonic                          *)
  second,    (* the monotonic clock                                         *)
  streak,    (* history: failures since the last success                    *)
  opened,    (* history: the end of the cooldown that the latest failure of  *)
             (* a streak as long as the threshold has to begin              *)
  wiped      (* history: a reset meant for an older cooldown removed it      *)

breakerVars == <<failures, until, streak, opened, wiped>>
llmVars == <<asking, breakerVars, second>>

LlmInit ==
  /\ asking = [t \in Connection \cup {Api} |-> "idle"]
  /\ failures = 0 /\ until = 0 /\ second = 1
  /\ streak = 0 /\ opened = 0 /\ wiped = FALSE

Asks(t, step) == asking' = [asking EXCEPT ![t] = step]

(* _local_llm_cooldown_remaining_seconds finds no cooldown, one that lasts   *)
(* (the thread falls back), or one that is over, which it then resets.       *)
AskCooldown(c) ==
  /\ asking[c] = "idle"
  /\ \/ until = 0 /\ Asks(c, "sending")
     \/ until > second /\ UNCHANGED asking
     \/ until \in 1 .. second /\ Asks(c, "resetting")
  /\ UNCHANGED <<breakerVars, second>>

(* snapshot asks for the time that is left, and may find the cooldown over.  *)
AskSnapshot ==
  /\ asking[Api] = "idle" /\ until \in 1 .. second
  /\ Asks(Api, "resetting")
  /\ UNCHANGED <<breakerVars, second>>

(* By now until may be the end of another cooldown.                         *)
ResetCooldown(t) ==
  /\ asking[t] = "resetting"
  /\ until' = 0
  /\ wiped' = (wiped \/ until > second)
  /\ Asks(t, IF t = Api THEN "idle" ELSE "sending")
  /\ UNCHANGED <<failures, streak, opened, second>>

LlmAnswers(c) ==
  /\ asking[c] = "sending"
  /\ failures' = 0 /\ until' = 0
  /\ streak' = 0 /\ opened' = 0 /\ wiped' = FALSE
  /\ Asks(c, "idle")
  /\ UNCHANGED second

CountFailure ==
  /\ streak' = streak + 1
  /\ IF streak' >= Threshold THEN opened' = second + LlmCooldown /\ wiped' = FALSE
                             ELSE UNCHANGED <<opened, wiped>>

(* Faulty variant: the breaker opens one failure late.                      *)
LlmFailsLate(c) ==
  /\ asking[c] = "sending"
  /\ failures' = failures + 1
  /\ until' = IF failures' > Threshold THEN second + LlmCooldown ELSE until
  /\ CountFailure
  /\ Asks(c, "idle")
  /\ UNCHANGED second

(* Any exception: no connection, a time-out, an answer that is no text.  The  *)
(* few assignments that follow, here and above, are one step.                *)
LlmFails(c) ==
  /\ asking[c] = "sending"
  /\ failures' = failures + 1
  /\ until' = IF failures' >= Threshold THEN second + LlmCooldown ELSE until
  /\ CountFailure
  /\ Asks(c, "idle")
  /\ UNCHANGED second

SecondPasses ==
  /\ second < MaxSeconds
  /\ second' = second + 1
  /\ UNCHANGED <<asking, breakerVars>>

LlmNext ==
  \/ \E c \in Connection : AskCooldown(c) \/ LlmAnswers(c) \/ LlmFails(c)
  \/ \E t \in Connection \cup {Api} : ResetCooldown(t)
  \/ AskSnapshot
  \/ SecondPasses

LlmSpec == LlmInit /\ [][LlmNext]_llmVars

----------------------------------------------------------------------------
(* As many failures in a row as the threshold, in whatever order threads     *)
(* send, fail and look at the cooldown, keep new requests from the LLM for   *)
(* the whole cooldown ("all responses use the rule-based fallback",          *)
(* docs/user-guide.md:396): unless the LLM answers a request that was on its *)
(* way, or a thread that saw an older cooldown end resets the new one.       *)
CooldownHolds ==
  [][\A c \in Connection :
       asking[c] # "sending" /\ asking'[c] = "sending" => second >= opened \/ wiped']_llmVars
=============================================================================
