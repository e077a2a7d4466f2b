----------------------------- MODULE RateLimiter -----------------------------
(***************************************************************************)
(* The rate limit of the dashboard API (dashboard/api.py): a bucket of     *)
(* tokens per client, which the middleware and the websocket handlers      *)
(* consult on the event loop, one after the other.  Time is counted in      *)
(* moments, as short as one likes, and tokens in parts, of which whole        *)
(* numbers flow in per moment (of milliseconds: a token has 60000 and each    *)
(* brings one per request allowed in a minute).  The rounding of floating     *)
(* point numbers is left out.  Bound: MaxMoments.                            *)
(***************************************************************************)
EXTENDS Naturals, Sequences, FiniteSets, SequencesExt, FiniteSetsExt

CONSTANTS
  ClientId,
  Part,        (* parts of a token                                          *)
  Second,      (* moments of a second                                       *)
  Short,       (* those that 0.999 seconds fall short of it                 *)
  Refill,      (* rate_limit_refill_per_second, in parts for each moment     *)
  Capacity,    (* rate_limit_capacity, in tokens                             *)
  MaxTracked,  (* MAX_RATE_LIMIT_TRACKED_CLIENTS                             *)
  StaleAfter,  (* 600 seconds, in moments                                   *)
  MaxMoments

ASSUME RateAssumption ==
  /\ {Part, Second, Refill, Capacity} \subseteq Nat \ {0} /\ Short \in 1 .. Second
  /\ {MaxTracked, StaleAfter, MaxMoments} \subseteq Nat

VARIABLES
  clock,     (* time.monotonic(), in moments                                *)
  tracked,   (* the keys of rate_limit_state, in the order of the dictionary *)
  bucket     (* its entries: parts left, and when they were counted; and as  *)
             (* history, when the client was admitted and when, if it was    *)
             (* refused last, it was told to come back                      *)

limiterVars == <<clock, tracked, bucket>>

LimiterInit == clock = 1 /\ tracked = << >> /\ bucket = << >>

----------------------------------------------------------------------------
(* _trim_rate_limit_state: the table has at most one entry too many.  The    *)
(* first one not seen for ten minutes goes, or else the one seen least       *)
(* recently.                                                                *)
Stale == {i \in DOMAIN tracked : bucket[tracked[i]].at + StaleAfter < clock}
LeastRecent ==
  CHOOSE i \in DOMAIN tracked : \A j \in DOMAIN tracked \ {i} :
    \/ bucket[tracked[i]].at < bucket[tracked[j]].at
    \/ bucket[tracked[i]].at = bucket[tracked[j]].at /\ i < j
Trimmed ==
  IF Len(tracked) <= MaxTracked THEN tracked
  ELSE RemoveAt(tracked, IF Stale # {} THEN Min(Stale) ELSE LeastRecent)

(* What a bucket holds by now.                                              *)
Refilled(b) == Min({Capacity * Part, b.parts + (clock - b.at) * Refill})

(* The seconds until there is a token, rounded up if the rest is a thousandth *)
(* or more.  Faulty variant: never rounded up.                              *)
RetryAfterCut(parts) == Max({1, (Part - parts) \div (Second * Refill)})
RetryAfter(parts) ==
  Max({1, (Part - parts + (Second - Short) * Refill) \div (Second * Refill)})

(* _rate_limit_consume: a client that is not tracked begins with a full bucket. *)
Consume(c) ==
  LET isKnown == c \in ToSet(Trimmed)
      tokens  == IF isKnown THEN Refilled(bucket[c]) ELSE Capacity * Part
      allowed == tokens >= Part
      left    == IF allowed THEN tokens - Part ELSE tokens
      past    == IF isKnown THEN bucket[c].admitted ELSE << >>
  IN  /\ tracked' = IF isKnown THEN Trimmed ELSE Append(Trimmed, c)
      /\ bucket' = [d \in ToSet(tracked') |->
           IF d # c THEN bucket[d]
           ELSE [parts |-> left, at |-> clock,
                 admitted |-> IF allowed THEN Append(past, clock) ELSE past,
                 told |-> IF allowed THEN 0 ELSE clock + RetryAfter(left) * Second]]
      /\ UNCHANGED clock

ClockTicks ==
  /\ clock < MaxMoments
  /\ clock' = clock + 1
  /\ UNCHANGED <<tracked, bucket>>

LimiterNext == ClockTicks \/ \E c \in ClientId : Consume(c)

LimiterSpec == LimiterInit /\ [][LimiterNext]_limiterVars

----------------------------------------------------------------------------
(* Between any two of its requests that were admitted since it is tracked, a *)
(* client made no more than the bucket holds and the time in between adds.    *)
WithinRate ==
  \A c \in ToSet(tracked) :
    LET times == bucket[c].admitted IN
    \A i, j \in DOMAIN times : i <= j =>
      (j - i + 1) * Part <= Capacity * Part + (times[j] - times[i]) * Refill

(* A client that waits as long as Retry-After says, and the thousandth of a   *)
(* second that its rounding may leave out, is not refused again.             *)
RetryIsEnough ==
  \A c \in ToSet(tracked) :
    bucket[c].told # 0 /\ clock >= bucket[c].told + Short
      => bucket[c].parts + (clock - bucket[c].at) * Refill >= Part

(* The limit lets through what it promises, and not more.                   *)
LimitIsKept == WithinRate /\ RetryIsEnough
=============================================================================
