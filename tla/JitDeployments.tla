--------------------------- MODULE JitDeployments ---------------------------
(***************************************************************************)
(* EcosystemJITManager (ecosystem/jit.py) on top of the deployment         *)
(* manager: a pool of pre-warmed slots, a TTL per just-in-time deployment, *)
(* a scheduler thread that tears expired ones down, and event callbacks    *)
(* that keep a deployment alive while attackers use its services.          *)
(***************************************************************************)
EXTENDS Deployments

CONSTANTS
  PoolSize,   (* pool_size                                                  *)
  IdleTTL,    (* ttl_idle_seconds, in scheduler periods                     *)
  MaxTTL,     (* ttl_max_seconds, in scheduler periods                      *)
  Reaper      (* the ecosystem-jit-lifecycle thread                         *)

ASSUME JitAssumption ==
  /\ PoolSize \in Nat \ {0}
  /\ IdleTTL \in Nat \ {0} /\ MaxTTL \in Nat /\ MaxTTL >= IdleTTL
  /\ Reaper \in Internal
  /\ None \notin [idle : Nat, life : Nat]
  /\ IsFiniteSet(Internal)

Deployer == Internal \ {Reaper}   \* API threads inside POST /ecosystem/jit/deploy

VARIABLES
  available,  (* _available_slots                                           *)
  warming,    (* _warming_slots: as many replenish workers are asleep       *)
  stage,      (* how far each deployer is                                   *)
  jit,        (* _records: seconds left until idle and maximal expiry       *)
  index,      (* _service_to_deployments                                    *)
  touching,   (* ids an event callback has still to touch                   *)
  reaping,    (* expired_ids the scheduler has still to tear down           *)
  closed      (* _scheduler_stop                                            *)

poolVars == <<available, warming, stage>>
ttlVars  == <<jit, index, touching, reaping, closed>>
jitVars  == <<available, warming, stage, jit, index, touching, reaping, closed>>
vars     == <<depVars, jitVars>>

InFlight == {t \in Deployer : stage[t] # "free"}
SlotHolders == {t \in Deployer : stage[t] = "slot"}
Listed   == {d \in Id : jit[d] # None}
Fresh    == [idle |-> IdleTTL, life |-> MaxTTL]
Expired(d) == jit[d] # None /\ (jit[d].idle = 0 \/ jit[d].life = 0)

JitInit ==
  /\ DepInit
  /\ available = PoolSize /\ warming = 0
  /\ stage = [t \in Deployer |-> "free"]
  /\ jit = [d \in Id |-> None]
  /\ index = [n \in Name |-> {}]
  /\ touching = {} /\ reaping = {} /\ closed = FALSE

----------------------------------------------------------------------------
(* deploy *)

(* Bound: an id is left for every deployment under way.                     *)
TakeSlot(t) ==
  /\ stage[t] = "free"
  /\ available > 0
  /\ IdsLeft(SlotHolders)
  /\ available' = available - 1
  /\ stage' = [stage EXCEPT ![t] = "slot"]
  /\ UNCHANGED <<depVars, warming, ttlVars>>

DeployRegister(t) ==
  /\ stage[t] = "slot"
  /\ \E m \in Manifest : RegisterManifest(t, m)
  /\ stage' = [stage EXCEPT ![t] = "register"]
  /\ UNCHANGED <<available, warming, ttlVars>>

DeployActivate(t) ==
  /\ stage[t] = "register" /\ call[t].at = "ok"
  /\ Activate(t, Target(t))
  /\ stage' = [stage EXCEPT ![t] = "activate"]
  /\ UNCHANGED <<available, warming, ttlVars>>

(* Faulty variant: a failed deploy keeps its slot.                          *)
DeployFailKeepsSlot(t) ==
  /\ stage[t] \in {"register", "activate"} /\ call[t].at = "err"
  /\ stage' = [stage EXCEPT ![t] = "free"]
  /\ call' = [call EXCEPT ![t] = Idle]
  /\ UNCHANGED <<records, runtime, loaded, sockets, overlapped, available, warming, ttlVars>>

(* The slot goes back; what was registered stays registered.                *)
DeployFail(t) ==
  /\ stage[t] \in {"register", "activate"} /\ call[t].at = "err"
  /\ available' = available + 1
  /\ stage' = [stage EXCEPT ![t] = "free"]
  /\ call' = [call EXCEPT ![t] = Idle]
  /\ UNCHANGED <<records, runtime, loaded, sockets, overlapped, warming, ttlVars>>

DeployEnlist(t) ==
  LET d == Target(t) IN
  /\ stage[t] = "activate" /\ call[t].at = "ok"
  /\ jit' = [jit EXCEPT ![d] = Fresh]
  /\ index' = [n \in Name |->
                 IF n \in NamesOf(records[d].services) THEN index[n] \cup {d} ELSE index[n]]
  /\ stage' = [stage EXCEPT ![t] = "replenish"]
  /\ call' = [call EXCEPT ![t] = Idle]
  /\ UNCHANGED <<records, runtime, loaded, sockets, overlapped,
                 available, warming, touching, reaping, closed>>

(* _schedule_pool_replenish and the worker it leaves behind.                *)
ScheduleReplenish(t) ==
  /\ stage[t] = "replenish"
  /\ warming' = warming + 1
  /\ stage' = [stage EXCEPT ![t] = "free"]
  /\ UNCHANGED <<depVars, available, ttlVars>>

WarmSlot ==
  /\ warming > 0
  /\ warming' = warming - 1
  /\ available' = IF available < PoolSize THEN available + 1 ELSE available
  /\ UNCHANGED <<depVars, stage, ttlVars>>

----------------------------------------------------------------------------
(* touch_from_event reads the ids of a service name under the lock, then    *)
(* touch_deployment takes it again for each.  Bound: one event at a time.   *)
TouchFromEvent(n) ==
  /\ touching = {}
  /\ index[n] # {}
  /\ touching' = index[n]
  /\ UNCHANGED <<depVars, poolVars, jit, index, reaping, closed>>

(* Faulty variant: a touch also restarts the maximal TTL.                   *)
TouchRestartsLife(d) ==
  /\ d \in touching
  /\ touching' = touching \ {d}
  /\ jit' = IF jit[d] = None THEN jit ELSE [jit EXCEPT ![d] = Fresh]
  /\ UNCHANGED <<depVars, poolVars, index, reaping, closed>>

TouchDeployment(d) ==
  /\ d \in touching
  /\ touching' = touching \ {d}
  /\ jit' = IF jit[d] = None THEN jit ELSE [jit EXCEPT ![d].idle = IdleTTL]
  /\ UNCHANGED <<depVars, poolVars, index, reaping, closed>>

(* A scheduler period of wall-clock time; _refresh_record_ttl floors at 0.  *)
Older(r) == [idle |-> IF r.idle = 0 THEN 0 ELSE r.idle - 1,
             life |-> IF r.life = 0 THEN 0 ELSE r.life - 1]

Tick ==
  /\ Listed # {}
  /\ jit' = [d \in Id |-> IF jit[d] = None THEN None ELSE Older(jit[d])]
  /\ UNCHANGED <<depVars, poolVars, index, touching, reaping, closed>>

----------------------------------------------------------------------------
(* _scheduler_loop: the expired ids are collected under the lock, and       *)
(* _teardown_expired works through them without it.                         *)
ScanExpired ==
  /\ ~closed
  /\ reaping = {} /\ call[Reaper] = Idle
  /\ \E d \in Id : Expired(d)
  /\ reaping' = {d \in Id : Expired(d)}
  /\ UNCHANGED <<depVars, poolVars, jit, index, touching, closed>>

TeardownExpired(d) ==
  /\ d \in reaping /\ call[Reaper] = Idle
  /\ Delete(Reaper, d)
  /\ UNCHANGED jitVars

(* Faulty variant: the index keeps the id of a record that is gone.         *)
PopRecordOnly ==
  LET d == Target(Reaper) IN
  /\ call[Reaper].at \in {"ok", "err"}
  /\ reaping' = reaping \ {d}
  /\ jit' = [jit EXCEPT ![d] = None]
  /\ call' = [call EXCEPT ![Reaper] = Idle]
  /\ UNCHANGED <<records, runtime, loaded, sockets, overlapped, poolVars, index, touching, closed>>

(* Whatever delete said, the JIT record goes.                               *)
PopRecord ==
  LET d == Target(Reaper) IN
  /\ call[Reaper].at \in {"ok", "err"}
  /\ reaping' = reaping \ {d}
  /\ jit' = [jit EXCEPT ![d] = None]
  /\ index' = [n \in Name |-> index[n] \ {d}]
  /\ call' = [call EXCEPT ![Reaper] = Idle]
  /\ UNCHANGED <<records, runtime, loaded, sockets, overlapped, poolVars, touching, closed>>

Close ==
  /\ ~closed
  /\ closed' = TRUE
  /\ UNCHANGED <<depVars, poolVars, jit, index, touching, reaping>>

----------------------------------------------------------------------------
DeployStep(t) ==
  \/ DeployRegister(t) \/ DeployActivate(t) \/ DeployFail(t)
  \/ DeployEnlist(t)   \/ ScheduleReplenish(t)

ThreadStep(t) == Continue(t) /\ UNCHANGED jitVars

ReaperStep == ScanExpired \/ PopRecord \/ \E d \in Id : TeardownExpired(d)

JitNext ==
  \/ \E t \in Client : ClientCall(t, SlotHolders) /\ UNCHANGED jitVars
  \/ \E t \in Thread : ThreadStep(t)
  \/ \E t \in Deployer : TakeSlot(t) \/ DeployStep(t)
  \/ WarmSlot
  \/ \E n \in Name : TouchFromEvent(n)
  \/ \E d \in Id : TouchDeployment(d)
  \/ Tick
  \/ ReaperStep
  \/ Close

JitSpec == JitInit /\ [][JitNext]_vars

(* Started threads keep running and time passes; nobody has to call.        *)
JitFairness ==
  /\ \A t \in Thread : WF_vars(ThreadStep(t))
  /\ \A t \in Deployer : WF_vars(DeployStep(t))
  /\ WF_vars(WarmSlot) /\ WF_vars(Tick) /\ WF_vars(ReaperStep)

FairJitSpec == JitSpec /\ JitFairness

----------------------------------------------------------------------------
(* Slots are neither lost nor minted: every one is available, warming up,   *)
(* or held by a deployment under way - however deployments fail or race.    *)
SlotsConserved == available + warming + Cardinality(InFlight) = PoolSize

(* What is listed is true: by the service index an event reaches every live  *)
(* just-in-time deployment of its service and no other, and a listed         *)
(* deployment is up unless someone is deleting or has deleted it - no failed *)
(* activation is ever listed.                                               *)
ListingIsTrue ==
  /\ \A n \in Name : index[n] = {d \in Listed : n \in NamesOf(records[d].services)}
  /\ \A d \in Listed \ overlapped :
       records[d].status = "deleted" \/ runtime[d] # None
         \/ \E t \in Thread : Target(t) = d /\ call[t].at = "bury"

(* However often it is touched, a just-in-time deployment is delisted once  *)
(* its maximal time is over, and then the manager's record says deleted.    *)
MaxTtlTearsDown ==
  \A d \in Id : jit[d] # None ~>
    closed \/ d \in overlapped \/ (jit[d] = None /\ records[d].status = "deleted")

(* An exhausted pool recovers by itself.                                    *)
PoolRecovers == available = 0 ~> available > 0
=============================================================================
