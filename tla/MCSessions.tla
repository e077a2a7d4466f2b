----------------------------- MODULE MCSessions -----------------------------
(* Sessions, or the profiles their visitors are attributed to.  Of sessions  *)
(* two instances: two workers of one or of two processes on Redis with two  *)
(* sessions, and one process in memory with a session more than it holds.   *)
EXTENDS Sessions, Profiles, TLC

CONSTANTS s1, s2, s3, w1, w2, edge, api, ssh, http, low, mid, high

VARIABLE part

TwoSids       == {s1, s2}
ThreeSids     == {s1, s2, s3}
TwoWorkers    == {w1, w2}
TwoProcesses  == {edge, api}
TwoServices   == {ssh, http}
BothBackends  == {"redis", "memory"}
SomeTags      == {{1, 2}, {2}}

(* Low and mid are alike, mid and high are, low and high are not.            *)
Levels == {low, mid, high}
Scores == [pair \in Levels \X Levels |->
             IF pair[1] = pair[2] THEN 2 ELSE IF mid \in {pair[1], pair[2]} THEN 1 ELSE 0]
Skills == (low :> 0) @@ (mid :> 0) @@ (high :> 1)

(* Of an installation whose clock is ahead, or which had nothing to do.      *)
Shared == { <<[id |-> 3, skill |-> 1, metrics |-> high, lastSeen |-> 9],
              [id |-> 2, skill |-> 0, metrics |-> mid, lastSeen |-> 0]>> }

SessionSymmetry == Permutations(TwoSids) \cup Permutations(TwoWorkers)
                     \cup Permutations(TwoProcesses)

Instances ==
  /\ SessionInit /\ ProfilesInit
  /\ \/ part = "redis"  /\ \A p \in Process : backend[p] = "redis"
     \/ part = "memory" /\ (\A p \in Process : backend[p] = "memory") /\ home[w1] = home[w2]
     \/ part = "profiles" /\ (\A p \in Process : backend[p] = "memory") /\ home[w1] = home[w2]

(* The bounds of each.                                                      *)
WithinBounds ==
  /\ part = "redis" =>
       /\ ops' <= (IF home[w1] = home[w2] THEN 4 ELSE 3)
       /\ \A w \in Worker : op'[w].sid # s3 /\ op'[w].arg # http
  /\ part = "memory" =>
       /\ op'[w1] = Idle \/ op'[w2] = Idle
       /\ \A w \in Worker : op'[w].arg # {1, 2}
  /\ \A a \in Analyst :
       /\ task'[a].at \in {"import", "rewrite"} => tasks' <= 3
       /\ task'[a].at = "rewrite" => task'[a].metrics # low

SessionsNext ==
  /\ UNCHANGED part
  /\ IF part = "profiles" THEN ProfilesNext /\ UNCHANGED sessionVars
     ELSE SessionNext /\ UNCHANGED profileVars
  /\ WithinBounds

InstancesSpec == Instances /\ [][SessionsNext]_<<sessionVars, profileVars, part>>
=============================================================================
