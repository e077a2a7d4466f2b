-------------------------------- MODULE Lures --------------------------------
(***************************************************************************)
(* The lure bandit (intel/lure_bandit.py), which the threads of all         *)
(* emulators ask for lures and operators override and reset, without any    *)
(* lock.  Between two calls of a function another thread may run; what has   *)
(* no call in it is one step.                                              *)
(*                                                                         *)
(* Which of the eligible arms has the best score, or is explored, is left    *)
(* open.  Arms are numbers, in their sorted order.  The bandit is enabled,  *)
(* and the wildcard is a context of its own.  Bounds: MaxTime, MaxTotal.     *)
(***************************************************************************)
EXTENDS Naturals, FiniteSets, Functions, FiniteSetsExt

CONSTANTS
  Caller, Arm,
  Context,              (* contexts emulators select in, with the arms they   *)
  Offered,              (* have for each                                     *)
  Wildcard,             (* "*", the context of overrides for all              *)
  Denylist,
  CapPart, CapWhole,    (* max_arm_exposure_percent is CapPart / CapWhole     *)
  Cooldown,
  Duration,             (* of overrides                                      *)
  MaxTime, MaxTotal

ASSUME LuresAssumption ==
  /\ Arm \cup Duration \cup {CapPart, CapWhole, Cooldown, MaxTime, MaxTotal} \subseteq Nat
  /\ 0 < CapPart /\ CapPart <= CapWhole
  /\ Denylist \subseteq Arm /\ Wildcard \notin Context
  /\ Offered \in [Context -> (SUBSET Arm) \ {{}}]

VARIABLES
  stats,       (* _arm_stats: pulls and last selection of the arms known      *)
  total,       (* _total_selections                                          *)
  overrides,   (* _overrides: arm and end, for some of the contexts           *)
  asked,       (* the call each thread is in                                 *)
  clock,
  torn         (* history: a selection was recorded in the middle of a reset  *)

lureVars == <<stats, total, overrides, asked, clock, torn>>

(* left: arms to check, or contexts to take off.  overtaken, renewed:        *)
(* history, the arms recorded after this call checked them, and the          *)
(* overrides set after it looked for expired ones.                          *)
NotAsking == [at |-> "idle", context |-> Wildcard, since |-> 0, left |-> {}, eligible |-> {},
              arm |-> 0, overtaken |-> {}, renewed |-> {}]

LuresInit ==
  /\ stats = << >> /\ total = 0 /\ overrides = << >>
  /\ asked = [w \in Caller |-> NotAsking]
  /\ clock = 1 /\ torn = FALSE

NewStats == [pulls |-> 0, last |-> 0]

(* A dictionary in which key was given a value.                              *)
Assign(dict, key, value) ==
  [k \in DOMAIN dict \cup {key} |-> IF k = key THEN value ELSE dict[k]]

(* _stats_for_arm adds the arms it does not know.                           *)
Known(K) == [a \in DOMAIN stats \cup K |-> IF a \in DOMAIN stats THEN stats[a] ELSE NewStats]
Stats(a) == Known({a})[a]

OverCap(a) == total > 0 /\ CapPart < CapWhole /\ Stats(a).pulls * CapWhole >= CapPart * total
Cooling(a, time) == Stats(a).last > 0 /\ time < Stats(a).last + Cooldown
Blocked(a, time) == a \in Denylist \/ Cooling(a, time) \/ OverCap(a)

Goto(w, o) == asked' = [asked EXCEPT ![w] = o]

-----------------------------------------------------------------------------
(* select_arm                                                              *)

Select(w, c) ==
  /\ asked[w].at = "idle" /\ total < MaxTotal
  /\ Goto(w, [NotAsking EXCEPT !.at = "check", !.context = c, !.since = clock, !.left = Offered[c]])
  /\ UNCHANGED <<stats, total, overrides, clock, torn>>

(* One arm after the other.                                                *)
Check(w) ==
  LET o == asked[w]  a == Min(o.left)
      eligible == IF Blocked(a, o.since) THEN o.eligible ELSE o.eligible \cup {a}
  IN  /\ o.at = "check"
      /\ stats' = IF a \in Denylist THEN stats ELSE Known({a})
      /\ Goto(w, IF o.left # {a} THEN [o EXCEPT !.left = @ \ {a}, !.eligible = eligible]
                 ELSE IF eligible = {} THEN NotAsking
                 ELSE [o EXCEPT !.at = "scan", !.left = {}, !.eligible = eligible])
      /\ UNCHANGED <<total, overrides, clock, torn>>

(* The scores are computed, which may meet arms a reset made unknown again;  *)
(* and expired overrides are looked for ...                                 *)
Scan(w) ==
  LET o == asked[w]
      time == IF o.eligible = {} THEN clock ELSE o.since
  IN  /\ o.at = "scan"
      /\ stats' = Known(o.eligible)
      /\ Goto(w, [o EXCEPT !.at = "clean", !.since = time, !.renewed = {},
                           !.left = {c \in DOMAIN overrides : overrides[c].until <= time}])
      /\ UNCHANGED <<total, overrides, clock, torn>>

(* ... and taken off one by one; one that is gone by then raises.            *)
Clean(w) ==
  /\ asked[w].at = "clean"
  /\ \E c \in asked[w].left :
       IF c \in DOMAIN overrides
       THEN /\ overrides' = Restrict(overrides, DOMAIN overrides \ {c})
            /\ Goto(w, [asked[w] EXCEPT !.left = @ \ {c}])
       ELSE Goto(w, NotAsking) /\ UNCHANGED overrides
  /\ UNCHANGED <<stats, total, clock, torn>>

Cleaned(w) == asked[w].at = "clean" /\ asked[w].left = {}

(* A snapshot ends here.                                                   *)
EndSnapshot(w) ==
  /\ Cleaned(w) /\ asked[w].eligible = {}
  /\ Goto(w, NotAsking)
  /\ UNCHANGED <<stats, total, overrides, clock, torn>>

Override(c) ==
  {overrides[d].arm : d \in IF c \in DOMAIN overrides THEN {c} ELSE {Wildcard} \cap DOMAIN overrides}

Chosen(o, a) == [NotAsking EXCEPT !.at = "record", !.since = o.since, !.arm = a,
                                  !.overtaken = {a} \cap o.overtaken]

(* Faulty variant: an override goes over the caps.                          *)
ChooseForced(w) ==
  LET pinned == Override(asked[w].context)
  IN  /\ Cleaned(w) /\ asked[w].eligible # {}
      /\ \E a \in IF pinned # {} THEN pinned ELSE asked[w].eligible :
           Goto(w, Chosen(asked[w], a))
      /\ UNCHANGED <<stats, total, overrides, clock, torn>>

(* The override of the context, or the one for all, goes first.              *)
Choose(w) ==
  LET pinned == Override(asked[w].context) \cap asked[w].eligible
  IN  /\ Cleaned(w) /\ asked[w].eligible # {}
      /\ \E a \in IF pinned # {} THEN pinned ELSE asked[w].eligible :
           Goto(w, Chosen(asked[w], a))
      /\ UNCHANGED <<stats, total, overrides, clock, torn>>

Resetting == \E w \in Caller : asked[w].at \in {"overrides", "total"}

Checked(o) == IF o.at = "record" THEN {o.arm} ELSE o.eligible

Overtaken(w, K) ==
  [v \in Caller |-> IF v = w THEN NotAsking
                    ELSE [asked[v] EXCEPT !.overtaken = @ \cup (K \cap Checked(asked[v]))]]

(* Faulty variant: a known arm that was never selected is not counted.        *)
RecordUncounted(w) ==
  LET a == asked[w].arm
  IN  /\ asked[w].at = "record"
      /\ stats' = Assign(stats, a, [pulls |-> Stats(a).pulls + 1, last |-> asked[w].since])
      /\ total' = IF Stats(a).pulls = 0 THEN total ELSE total + 1
      /\ asked' = Overtaken(w, {a})
      /\ torn' = (torn \/ Resetting)
      /\ UNCHANGED <<overrides, clock>>

Record(w) ==
  LET a == asked[w].arm
  IN  /\ asked[w].at = "record"
      /\ stats' = Assign(stats, a, [pulls |-> Stats(a).pulls + 1, last |-> asked[w].since])
      /\ total' = total + 1
      /\ asked' = Overtaken(w, {a})
      /\ torn' = (torn \/ Resetting)
      /\ UNCHANGED <<overrides, clock>>

-----------------------------------------------------------------------------
(* The dashboard: operations that end with a snapshot, which cleans up too.  *)

Snapshot == [NotAsking EXCEPT !.at = "scan"]

BanditArms(w) ==
  /\ asked[w].at = "idle"
  /\ Goto(w, Snapshot)
  /\ UNCHANGED <<stats, total, overrides, clock, torn>>

SetOverride(w, c, a, duration) ==
  /\ asked[w].at = "idle"
  /\ overrides' = Assign(overrides, c, [arm |-> a, until |-> clock + duration])
  /\ asked' = [v \in Caller |-> IF v = w THEN Snapshot
                                ELSE [asked[v] EXCEPT !.renewed = @ \cup ({c} \cap asked[v].left)]]
  /\ UNCHANGED <<stats, total, clock, torn>>

(* reset: three dictionaries and counters, one after the other.               *)
ResetStats(w) ==
  /\ asked[w].at = "idle"
  /\ stats' = << >>
  /\ asked' = [Overtaken(w, Arm) EXCEPT ![w] = [NotAsking EXCEPT !.at = "overrides"]]
  /\ UNCHANGED <<total, overrides, clock, torn>>

ResetOverrides(w) ==
  /\ asked[w].at = "overrides"
  /\ overrides' = << >>
  /\ Goto(w, [asked[w] EXCEPT !.at = "total"])
  /\ UNCHANGED <<stats, total, clock, torn>>

ResetTotal(w) ==
  /\ asked[w].at = "total"
  /\ total' = 0
  /\ asked' = [Overtaken(w, Arm) EXCEPT ![w] = Snapshot]
  /\ UNCHANGED <<stats, overrides, clock, torn>>

PassTime ==
  /\ clock < MaxTime /\ clock' = clock + 1
  /\ UNCHANGED <<stats, total, overrides, asked, torn>>

Emulators(w) ==
  \/ \E c \in Context : Select(w, c)
  \/ Check(w) \/ Scan(w) \/ Clean(w) \/ Choose(w) \/ Record(w)

Operators(w) ==
  \/ BanditArms(w) \/ EndSnapshot(w)
  \/ \E c \in Context \cup {Wildcard}, a \in Arm, d \in Duration : SetOverride(w, c, a, d)
  \/ ResetStats(w) \/ ResetOverrides(w) \/ ResetTotal(w)

LuresNext == PassTime \/ \E w \in Caller : Emulators(w) \/ Operators(w)

LuresSpec == LuresInit /\ [][LuresNext]_lureVars

-----------------------------------------------------------------------------
(* A selected arm is within the caps when its selection is recorded - not     *)
(* denied, cooled down and below its share - whatever overrides and other     *)
(* selections did meanwhile, unless one of the same arm overtook it.          *)
SelectionsWithinCaps ==
  [][\A w \in Caller :
       (asked[w].at = "record" /\ asked'[w].at = "idle" /\ asked[w].overtaken = {} /\ ~torn)
         => ~Blocked(asked[w].arm, asked[w].since)]_lureVars

(* An override pins its arm until it expires (tests/unit/test_intel.py:843):  *)
(* nothing but a reset or another override removes it before, except for the   *)
(* clean-up that had found its predecessor expired.                          *)
OverridesLast ==
  [][\A c \in DOMAIN overrides :
       (overrides[c].until > clock /\ ~(c \in DOMAIN overrides' /\ overrides'[c] = overrides[c])) =>
         \E w \in Caller :
           \/ asked[w].at \in {"overrides", "idle"} /\ asked'[w].at \in {"total", "scan"}
           \/ asked[w].at = "clean" /\ c \in asked[w].renewed]_lureVars

(* A lure is selected within the caps, and the one an operator pinned for as  *)
(* long as was asked for.                                                   *)
SelectionsAsSet == SelectionsWithinCaps /\ OverridesLast

(* The cap cannot shut out all the arms of a context that are not denied, if  *)
(* their shares add up to more than the whole: unless a selection fell into a  *)
(* reset, whose count is then too small for good.                             *)
SomeArmBelowCap ==
  (torn \/ Resetting) \/
    \A K \in SUBSET (Arm \ Denylist) :
      Cardinality(K) * CapPart > CapWhole => \E a \in K : ~OverCap(a)
=============================================================================
