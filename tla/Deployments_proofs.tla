---------------------------- MODULE Deployments_proofs ----------------------------
(*****************************************************************************)
(* Proofs about runtime deployments.  The step lemmas are stated for one thread*)
(* of any kind: the API alone and just-in-time deployments beside it are built*)
(* around them.  Records, sockets and what the orchestrator lists agree, slots*)
(* are conserved, the listing is true, and reservations do not meet.         *)
(*****************************************************************************)
EXTENDS MCDeployments, FiniteSetTheorems, TLAPS

(* A step of thread t inside the deployment manager or the orchestrator.    *)
DepStep(t) ==
  \/ \E m \in Manifest : RegisterManifest(t, m)
  \/ \E d \in Id : Activate(t, d) \/ Delete(t, d)
  \/ Continue(t)

----------------------------------------------------------------------------
(* Type correctness *)

(* None stands for no deployment. *)
LEMMA IdleIsNoId == None \notin Id
BY ConstantsAssumption DEF ConstantsAssumption

(* The bindings of a list of services are bindings. *)
LEMMA BindsType ==
  ASSUME NEW s \in Seq(Service)
  PROVE  BindsOf(s) \subseteq Binding
<1>1. \A i \in DOMAIN s : s[i] \in Service
  BY SMT
<1>2. \A i \in DOMAIN s : s[i].bind \in Binding
  BY <1>1 DEF Service
<1> QED BY <1>2 DEF BindsOf

(* What a manifest, or the services of a record, are made of. *)
LEMMA ServicesType ==
  ASSUME NEW s \in {<< >>} \cup Manifest
  PROVE  s \in Seq(Service) /\ BindsOf(s) \subseteq Binding
<1>1. << >> \in Seq(Service)
  OBVIOUS
<1>2. Manifest \subseteq Seq(Service)
  BY ConstantsAssumption DEF ConstantsAssumption
<1>3. s \in Seq(Service)
  BY <1>1, <1>2
<1> QED BY <1>3, BindsType

(* Giving one thread a well-formed call keeps all calls well-formed. *)
LEMMA CallUpdate ==
  ASSUME CallsOK, NEW t \in Thread, NEW c, CallOK(c), call' = [call EXCEPT ![t] = c]
  PROVE  CallsOK'
BY DEF CallsOK, CallOK

(* A new call, or the outcome of one, is typed. *)
LEMMA NewCallOK ==
  ASSUME NEW at \in {"idle", "ok", "err"} \cup ActivateStep \cup DeleteStep,
         NEW d \in Id \cup {None}, at \in ActivateStep \cup DeleteStep => d \in Id
  PROVE  CallOK(NewCall(at, d, << >>))
BY DEF CallOK, CallRecord, NewCall, Step, RegisterStep, ActivateStep, DeleteStep

(* A thread without a call is well-formed. *)
LEMMA IdleOK == CallOK(Idle)
BY NewCallOK DEF Idle, ActivateStep, DeleteStep

(* So is one whose call has just ended. *)
LEMMA OutcomeOK ==
  ASSUME NEW t \in Thread, NEW o \in {"ok", "err"}, NEW d \in Id \cup {None}
  PROVE  CallOK(Outcome(t, o, d))
BY IdleOK, NewCallOK DEF Outcome, ActivateStep, DeleteStep

(* The manager starts type-correct. *)
LEMMA InitType == DepInit => DepTypeOK
<1> SUFFICES ASSUME DepInit PROVE DepTypeOK
  OBVIOUS
<1>1. CallsOK
  BY IdleOK DEF DepInit, CallsOK, CallOK
<1>2. /\ records \in [Id -> [status : {"none", "pending", "active", "deleted"},
                             services : {<< >>} \cup Manifest]]
      /\ runtime \in [Id -> Thread \cup {None}]
      /\ overlapped \subseteq Id
  BY DEF DepInit, NoRecord
<1>3. Baseline \subseteq Binding
  BY ConstantsAssumption DEF ConstantsAssumption
<1>4. loaded \subseteq [bind : Binding, dep : Id \cup {None}, by : Thread \cup {"config"}]
  BY <1>3 DEF DepInit
<1>5. sockets \in [Binding -> [dep : Id \cup {None}, by : Thread \cup {"config", None}]]
  BY DEF DepInit, BaseOwner, Free
<1> QED BY <1>1, <1>2, <1>4, <1>5 DEF DepTypeOK

(* Returning keeps the calls well-formed. *)
LEMMA ReturnType ==
  ASSUME CallsOK, NEW t \in Thread, NEW o \in {"ok", "err"}, Return(t, o)
  PROVE  CallsOK'
<1>1. call[t].id \in Id \cup {None}
  BY DEF CallsOK, CallRecord
<1> QED BY <1>1, OutcomeOK, CallUpdate DEF Return, Target

(* The fields of a call, for the steps that change some of them.            *)
LEMMA CallFields ==
  ASSUME CallsOK, NEW t \in Thread
  PROVE  /\ call[t] = [at |-> call[t].at, id |-> call[t].id, todo |-> call[t].todo,
                       by |-> call[t].by, failed |-> call[t].failed]
         /\ call[t].at \in Step /\ call[t].todo \in Seq(Service)
         /\ call[t].by \in Thread \cup {None} /\ call[t].failed \in BOOLEAN
         /\ call[t].id \in Id \cup {None}
         /\ call[t].at \in ActivateStep \cup DeleteStep => call[t].id \in Id
BY DEF CallsOK, CallOK, CallRecord

(* So does moving on to another step of activate or delete. *)
LEMMA GotoType ==
  ASSUME CallsOK, NEW t \in Thread, call[t].at \in ActivateStep \cup DeleteStep,
         NEW at \in ActivateStep \cup DeleteStep, Goto(t, at)
  PROVE  CallsOK'
<1>1. call[t] \in CallRecord
  BY DEF CallsOK
<1>2. [call[t] EXCEPT !.at = at] = [at |-> at, id |-> call[t].id, todo |-> call[t].todo,
                                    by |-> call[t].by, failed |-> call[t].failed]
  BY <1>1 DEF CallRecord
<1>3. call' = [call EXCEPT ![t] = [call[t] EXCEPT !.at = at]]
  BY DEF Goto
<1>4. /\ call[t].todo \in Seq(Service) /\ call[t].by \in Thread \cup {None}
      /\ call[t].failed \in BOOLEAN
  BY CallFields
<1>5. CallOK([at |-> at, id |-> call[t].id, todo |-> call[t].todo,
              by |-> call[t].by, failed |-> call[t].failed])
  BY <1>4 DEF CallsOK, CallOK, CallRecord, Step, RegisterStep, ActivateStep, DeleteStep
<1> QED BY <1>2, <1>3, <1>5, CallUpdate

----------------------------------------------------------------------------
(* The calls that change more than the step they are at.                    *)
LEMMA AdvanceType ==
  ASSUME CallsOK, NEW t \in Thread, call[t].at \in ActivateStep \cup DeleteStep,
         NEW at \in ActivateStep \cup DeleteStep, NEW todo \in Seq(Service),
         NEW by \in Thread,
         \/ call' = [call EXCEPT ![t].at = at, ![t].todo = todo]
         \/ call' = [call EXCEPT ![t].at = at, ![t].by = by, ![t].todo = todo]
         \/ call' = [call EXCEPT ![t].todo = todo]
         \/ call' = [call EXCEPT ![t].todo = todo, ![t].failed = TRUE]
  PROVE  CallsOK'
<1>1. call \in [Thread -> CallRecord] /\ call[t] \in CallRecord /\ call[t].id \in Id
  BY DEF CallsOK, CallOK
<1>2. PICK c : /\ call' = [call EXCEPT ![t] = c]
               /\ \/ c = [call[t] EXCEPT !.at = at, !.todo = todo]
                  \/ c = [call[t] EXCEPT !.at = at, !.by = by, !.todo = todo]
                  \/ c = [call[t] EXCEPT !.todo = todo]
                  \/ c = [call[t] EXCEPT !.todo = todo, !.failed = TRUE]
  <2>1. CASE call' = [call EXCEPT ![t].at = at, ![t].todo = todo]
    <3>1. call' = [call EXCEPT ![t] = [call[t] EXCEPT !.at = at, !.todo = todo]]
      BY <1>1, <2>1
    <3> QED BY <3>1
  <2>2. CASE call' = [call EXCEPT ![t].at = at, ![t].by = by, ![t].todo = todo]
    <3>1. call' = [call EXCEPT ![t] = [call[t] EXCEPT !.at = at, !.by = by, !.todo = todo]]
      BY <1>1, <2>2
    <3> QED BY <3>1
  <2>3. CASE call' = [call EXCEPT ![t].todo = todo]
    <3>1. call' = [call EXCEPT ![t] = [call[t] EXCEPT !.todo = todo]]
      BY <1>1, <2>3
    <3> QED BY <3>1
  <2>4. CASE call' = [call EXCEPT ![t].todo = todo, ![t].failed = TRUE]
    <3>1. call' = [call EXCEPT ![t] = [call[t] EXCEPT !.todo = todo, !.failed = TRUE]]
      BY <1>1, <2>4
    <3> QED BY <3>1
  <2> QED BY <2>1, <2>2, <2>3, <2>4
<1>3. c \in CallRecord /\ c.id = call[t].id /\ c.at \in ActivateStep \cup DeleteStep
  <2>1. at \in Step
    BY DEF Step
  <2> QED BY <1>1, <1>2, <2>1 DEF CallRecord
<1>4. CallOK(c)
  BY <1>1, <1>3 DEF CallOK, RegisterStep, ActivateStep, DeleteStep
<1> QED BY <1>2, <1>4, CallUpdate

----------------------------------------------------------------------------
(* The parts of a type-correct state, by the actions that change them.      *)

(* A status change keeps the records typed. *)
LEMMA SetStatusType ==
  ASSUME DepTypeOK, NEW d \in Id, NEW s \in {"active", "deleted"}, SetStatus(d, s)
  PROVE  records' \in [Id -> [status : {"none", "pending", "active", "deleted"},
                              services : {<< >>} \cup Manifest]]
BY DEF DepTypeOK, SetStatus

(* The overlap history holds deployment ids only. *)
LEMMA OverlapType ==
  ASSUME DepTypeOK, NEW t \in Thread, NEW d \in Id, MarkOverlap(t, d)
  PROVE  overlapped' \subseteq Id
BY DEF DepTypeOK, MarkOverlap

(* The services of a record are a list of services. *)
LEMMA TodoType ==
  ASSUME DepTypeOK, NEW d \in Id
  PROVE  records[d].services \in Seq(Service) /\ BindsOf(records[d].services) \subseteq Binding
<1>1. records[d].services \in {<< >>} \cup Manifest
  BY DEF DepTypeOK
<1> QED BY <1>1, ServicesType

(* The next service of a call, and the rest of them. *)
LEMMA HeadType ==
  ASSUME CallsOK, NEW t \in Thread, call[t].todo # << >>
  PROVE  Head(call[t].todo).bind \in Binding /\ Tail(call[t].todo) \in Seq(Service)
<1>1. \A s \in Seq(Service) : s # << >> => Head(s) \in Service /\ Tail(s) \in Seq(Service)
  OBVIOUS
<1>2. call[t].todo \in Seq(Service)
  BY CallFields
<1>3. Head(call[t].todo) \in Service /\ Tail(call[t].todo) \in Seq(Service)
  BY <1>1, <1>2
<1> QED BY <1>3 DEF Service

(* Every step keeps the state type-correct. *)
LEMMA RegisterType ==
  ASSUME DepTypeOK, NEW t \in Thread,
         (\E m \in Manifest : RegisterManifest(t, m)) \/ CheckReservation(t) \/ InsertRecord(t)
  PROVE  DepTypeOK'
<1> USE DEF DepTypeOK
<1>1. ASSUME NEW m \in Manifest, RegisterManifest(t, m) PROVE DepTypeOK'
  <2>1. CASE LoadedConflict(m)
    BY <1>1, <2>1, ReturnType DEF RegisterManifest
  <2>2. CASE ~LoadedConflict(m)
    <3>1. CallOK(NewCall("reserve", None, m))
      BY ServicesType DEF CallOK, CallRecord, NewCall, Step, RegisterStep, ActivateStep, DeleteStep
    <3> QED BY <1>1, <2>2, <3>1, CallUpdate DEF RegisterManifest
  <2> QED BY <2>1, <2>2
<1>2. CASE CheckReservation(t)
  <2>1. CASE ReservedConflict(call[t].todo, None)
    BY <1>2, <2>1, ReturnType DEF CheckReservation
  <2>2. CASE ~ReservedConflict(call[t].todo, None)
    <3>1. call[t] \in CallRecord /\ call[t].id = None /\ call[t].todo \in Manifest
      BY <1>2 DEF CheckReservation, CallsOK, CallOK, RegisterStep
    <3>2. CallOK([call[t] EXCEPT !.at = "insert"])
      BY <3>1 DEF CallOK, CallRecord, Step, RegisterStep, ActivateStep, DeleteStep
    <3>3. call' = [call EXCEPT ![t] = [call[t] EXCEPT !.at = "insert"]]
      BY <1>2, <2>2 DEF CheckReservation, Goto
    <3> QED BY <1>2, <3>2, <3>3, CallUpdate DEF CheckReservation
  <2> QED BY <2>1, <2>2
<1>3. CASE InsertRecord(t)
  <2>1. call[t].todo \in Manifest
    BY <1>3 DEF InsertRecord, CallsOK, CallOK, RegisterStep
  <2>2. PICK d \in Id : /\ records' = [records EXCEPT ![d] =
                                [status |-> "pending", services |-> call[t].todo]]
                        /\ call' = [call EXCEPT ![t] = Outcome(t, "ok", d)]
    BY <1>3 DEF InsertRecord
  <2>3. CallsOK'
    BY <2>2, OutcomeOK, CallUpdate
  <2> QED BY <1>3, <2>1, <2>2, <2>3 DEF InsertRecord
<1> QED BY <1>1, <1>2, <1>3

(* The first step of activate or delete. *)
LEMMA ActivateType ==
  ASSUME DepTypeOK, NEW t \in Thread, NEW d \in Id, Activate(t, d) \/ Delete(t, d)
  PROVE  DepTypeOK'
<1>1. records[d].status \in {"none", "pending", "active", "deleted"}
  BY DEF DepTypeOK
<1>2. CallsOK
  BY DEF DepTypeOK
<1>3. CallsOK'
  <2>1. CASE Activate(t, d)
    <3>1. /\ CallOK(NewCall("validate", d, << >>))
          /\ CallOK(Outcome(t, "ok", d)) /\ CallOK(Outcome(t, "err", d))
      BY NewCallOK, OutcomeOK DEF ActivateStep, DeleteStep
    <3>2. CASE records[d].status = "pending"
      BY <1>2, <2>1, <3>1, <3>2, CallUpdate DEF Activate
    <3>3. CASE records[d].status = "active"
      BY <1>2, <2>1, <3>1, <3>3, CallUpdate DEF Activate
    <3>4. CASE records[d].status = "deleted"
      BY <1>2, <2>1, <3>1, <3>4, CallUpdate DEF Activate
    <3> QED BY <1>1, <2>1, <3>2, <3>3, <3>4 DEF Activate
  <2>2. CASE Delete(t, d)
    <3>1. CallOK(NewCall("find", d, << >>)) /\ CallOK(NewCall("bury", d, << >>))
      BY NewCallOK DEF ActivateStep, DeleteStep
    <3> QED BY <1>2, <2>2, <3>1, CallUpdate DEF Delete
  <2> QED BY <2>1, <2>2
<1>4. overlapped' \subseteq Id
  BY OverlapType DEF Activate, Delete
<1> QED BY <1>3, <1>4 DEF DepTypeOK, Activate, Delete

(* The checks of activate change no more than the call.                     *)
LEMMA CheckType ==
  ASSUME DepTypeOK, NEW t \in Thread,
         \/ ValidateActivation(t) \/ RecheckReservation(t) \/ AdmitActivation(t)
         \/ RevalidateActivation(t) \/ AbortActivation(t) \/ FailActivation(t)
         \/ FindDeployment(t)
  PROVE  DepTypeOK'
<1>1. CallsOK
  BY DEF DepTypeOK
<1>2. call[t].at \in ActivateStep \cup DeleteStep
  BY DEF ValidateActivation, RecheckReservation, AdmitActivation, RevalidateActivation,
         AbortActivation, FailActivation, FindDeployment, ActivateStep, DeleteStep
<1>3. Target(t) \in Id
  BY <1>1, <1>2 DEF CallsOK, CallOK, Target
<1>4. records[Target(t)].services \in Seq(Service)
  BY <1>3, TodoType
<1>5. runtime[Target(t)] \in Thread \cup {None}
  BY <1>3 DEF DepTypeOK
<1>6. {"recheck", "admit", "revalidate", "start", "rollback", "stop"}
        \subseteq ActivateStep \cup DeleteStep
  BY DEF ActivateStep, DeleteStep
<1>7. CallsOK'
  <2>1. CASE ValidateActivation(t)
    BY <1>1, <1>2, <1>6, <2>1, ReturnType, GotoType DEF ValidateActivation
  <2>2. CASE RecheckReservation(t)
    BY <1>1, <1>2, <1>6, <2>2, ReturnType, GotoType DEF RecheckReservation
  <2>3. CASE AdmitActivation(t)
    BY <1>1, <1>2, <1>6, <2>3, ReturnType, GotoType DEF AdmitActivation
  <2>4. CASE RevalidateActivation(t)
    BY <1>1, <1>2, <1>4, <1>6, <2>4, ReturnType, AdvanceType DEF RevalidateActivation
  <2>5. CASE AbortActivation(t)
    BY <1>1, <1>2, <1>4, <1>6, <2>5, AdvanceType DEF AbortActivation
  <2>6. CASE FailActivation(t)
    BY <1>1, <2>6, ReturnType DEF FailActivation
  <2>7. CASE FindDeployment(t)
    <3>1. CASE runtime[Target(t)] = None
      BY <1>1, <2>7, <3>1, ReturnType DEF FindDeployment
    <3>2. CASE runtime[Target(t)] # None
      BY <1>1, <1>2, <1>4, <1>5, <1>6, <2>7, <3>2, AdvanceType DEF FindDeployment
    <3> QED BY <3>1, <3>2
  <2> QED BY <2>1, <2>2, <2>3, <2>4, <2>5, <2>6, <2>7
<1>8. UNCHANGED <<records, runtime, loaded, sockets, overlapped>>
  BY DEF ValidateActivation, RecheckReservation, AdmitActivation, RevalidateActivation,
         AbortActivation, FailActivation, FindDeployment
<1> QED BY <1>7, <1>8 DEF DepTypeOK

(* The steps of activate and delete that change records, services or sockets. *)
LEMMA EffectType ==
  ASSUME DepTypeOK, NEW t \in Thread,
         \/ StartService(t) \/ StopService(t) \/ CommitActivation(t) \/ MarkActive(t)
         \/ PurgeDeployment(t) \/ BuryRecord(t)
  PROVE  DepTypeOK'
<1>1. CallsOK
  BY DEF DepTypeOK
<1>2. call[t].at \in ActivateStep \cup DeleteStep
  BY DEF StartService, StopService, CommitActivation, MarkActive, PurgeDeployment,
         BuryRecord, ActivateStep, DeleteStep
<1>3. Target(t) \in Id
  BY <1>1, <1>2 DEF CallsOK, CallOK, Target
<1>4. {"start", "mark", "bury"} \subseteq ActivateStep \cup DeleteStep
  BY DEF ActivateStep, DeleteStep
<1>5. CASE StartService(t)
  <2>1. Head(call[t].todo).bind \in Binding /\ Tail(call[t].todo) \in Seq(Service)
    BY <1>1, <1>5, HeadType DEF StartService
  <2>2. CallsOK'
    BY <1>1, <1>2, <2>1, <1>5, AdvanceType DEF StartService
  <2>3. sockets' \in [Binding -> [dep : Id \cup {None}, by : Thread \cup {"config", None}]]
    BY SMTT(30), <1>3, <1>5, <2>1 DEF StartService, DepTypeOK
  <2> QED BY <1>5, <2>2, <2>3 DEF StartService, DepTypeOK
<1>6. CASE StopService(t)
  <2>1. Head(call[t].todo).bind \in Binding /\ Tail(call[t].todo) \in Seq(Service)
    BY <1>1, <1>6, HeadType DEF StopService
  <2>2. CallsOK'
    BY <1>1, <1>2, <2>1, <1>6, AdvanceType DEF StopService
  <2>3. sockets' \in [Binding -> [dep : Id \cup {None}, by : Thread \cup {"config", None}]]
    BY <1>3, <1>6, <2>1 DEF StopService, DepTypeOK, Free
  <2> QED BY <1>6, <2>2, <2>3 DEF StopService, DepTypeOK
<1>7. CASE CommitActivation(t)
  <2>1. CallsOK'
    BY <1>1, <1>2, <1>4, <1>7, GotoType DEF CommitActivation
  <2>2. BindsOf(records[Target(t)].services) \subseteq Binding
    BY <1>3, TodoType
  <2>3. loaded' \subseteq [bind : Binding, dep : Id \cup {None}, by : Thread \cup {"config"}]
    BY <1>3, <1>7, <2>2 DEF CommitActivation, DepTypeOK
  <2> QED BY <1>3, <1>7, <2>1, <2>3 DEF CommitActivation, DepTypeOK
<1>8. CASE MarkActive(t)
  BY <1>1, <1>3, <1>8, ReturnType, SetStatusType DEF MarkActive, DepTypeOK
<1>9. CASE PurgeDeployment(t)
  <2>1. CallsOK'
    BY <1>1, <1>2, <1>4, <1>9, GotoType DEF PurgeDeployment
  <2> QED BY <1>3, <1>9, <2>1 DEF PurgeDeployment, DepTypeOK
<1>10. CASE BuryRecord(t)
  BY <1>1, <1>3, <1>10, ReturnType, SetStatusType DEF BuryRecord, DepTypeOK
<1> QED BY <1>5, <1>6, <1>7, <1>8, <1>9, <1>10

(* Any step of any thread keeps the state type-correct. *)
LEMMA StepType ==
  ASSUME DepTypeOK, NEW t \in Thread, DepStep(t)
  PROVE  DepTypeOK'
<1>1. CASE \E m \in Manifest : RegisterManifest(t, m)
  BY <1>1, RegisterType
<1>2. CASE \E d \in Id : Activate(t, d) \/ Delete(t, d)
  BY <1>2, ActivateType
<1>3. CASE Continue(t)
  BY <1>3, RegisterType, CheckType, EffectType DEF Continue
<1> QED BY <1>1, <1>2, <1>3 DEF DepStep

(* The next-state relation consists of such steps. *)
LEMMA NextIsStep ==
  ASSUME DepNext
  PROVE  \E t \in Client : DepStep(t)
BY DEF DepNext, ClientCall, DepStep

(* Stuttering keeps the state type-correct. *)
LEMMA DepStutter ==
  ASSUME DepTypeOK, UNCHANGED depVars
  PROVE  DepTypeOK'
BY DEF depVars, DepTypeOK, CallsOK, CallOK

(* Every reachable state is type-correct, whatever the threads, deployments *)
(* and manifests are.                                                       *)
THEOREM TypeCorrect == DepSpec => []DepTypeOK
<1>1. DepTypeOK /\ [DepNext]_depVars => DepTypeOK'
  <2> SUFFICES ASSUME DepTypeOK, [DepNext]_depVars PROVE DepTypeOK'
    OBVIOUS
  <2>1. CASE DepNext
    BY <2>1, NextIsStep, StepType DEF Thread
  <2>2. CASE UNCHANGED depVars
    BY <2>2, DepStutter
  <2> QED BY <2>1, <2>2
<1> QED BY <1>1, InitType, PTL DEF DepSpec

----------------------------------------------------------------------------
(* Serial deployments.  On a deployment whose calls never overlapped, the   *)
(* one pending call - if any - fixes what its record and the orchestrator   *)
(* say; SerialInv is inductive and gives RecordMatchesRuntime.              *)

Working(t, d) == InCall(t) /\ Target(t) = d

StepOK(t, d) ==
  /\ call[t].at \in ActivateStep \ {"mark"} => records[d].status = "pending" /\ runtime[d] = None
  /\ call[t].at = "mark" => records[d].status = "pending" /\ runtime[d] # None
  /\ call[t].at \in {"find", "stop"} => records[d].status = "active" /\ runtime[d] # None
  /\ call[t].at = "bury" => records[d].status # "none" /\ runtime[d] = None

SerialOK(d) ==
  /\ \A t, u \in Thread : Working(t, d) /\ Working(u, d) => t = u
  /\ \A t \in Thread : Working(t, d) => StepOK(t, d)
  /\ ~Busy(d) => (records[d].status = "active" <=> runtime[d] # None)

SerialInv == \A d \in Id \ overlapped : SerialOK(d)

(* Initially no call is pending and nothing runs. *)
LEMMA SerialInit == DepInit => SerialInv
BY DEF DepInit, SerialInv, SerialOK, Working, StepOK, Busy, InCall, Idle, NewCall, NoRecord

(* A step that leaves d's record, runtime and pending calls as they are.    *)
LEMMA SerialFrame ==
  ASSUME NEW d \in Id, SerialOK(d),
         records'[d].status = records[d].status, runtime'[d] = runtime[d],
         \A u \in Thread : Working(u, d)' <=> Working(u, d),
         \A u \in Thread : Working(u, d) => call'[u].at = call[u].at
  PROVE  SerialOK(d)'
BY DEF SerialOK, StepOK, Busy, Working

(* The pending call of t on d ends, or goes on, and no other is on d.       *)
LEMMA SerialOwn ==
  ASSUME NEW d \in Id, NEW t \in Thread,
         \A u \in Thread \ {t} : ~Working(u, d)',
         Working(t, d)' => StepOK(t, d)',
         ~Working(t, d)' => (records'[d].status = "active" <=> runtime'[d] # None)
  PROVE  SerialOK(d)'
BY DEF SerialOK, Busy, Working

(* What thread t leaves alone. *)
LEMMA OthersUnchanged ==
  ASSUME CallsOK, NEW t \in Thread, NEW c, call' = [call EXCEPT ![t] = c]
  PROVE  /\ call'[t] = c
         /\ \A u \in Thread \ {t} : /\ call'[u] = call[u]
                                    /\ \A d \in Id : Working(u, d)' <=> Working(u, d)
BY DEF CallsOK, Working, InCall, Target

(* The fields of a new call. *)
LEMMA NewCallFields ==
  ASSUME NEW at, NEW d, NEW todo
  PROVE  NewCall(at, d, todo).at = at /\ NewCall(at, d, todo).id = d
BY DEF NewCall

(* A call that ended is at idle or at its outcome. *)
LEMMA OutcomeFields ==
  ASSUME NEW t, NEW o, NEW d
  PROVE  Outcome(t, o, d).at \in {"idle", o}
BY NewCallFields DEF Outcome, Idle

(* A thread whose call ended works on no deployment. *)
LEMMA OutcomeEnds ==
  ASSUME CallsOK, NEW t \in Thread, NEW o \in {"ok", "err"}, NEW x,
         call' = [call EXCEPT ![t] = Outcome(t, o, x)]
  PROVE  \A d \in Id : ~Working(t, d)'
BY OthersUnchanged DEF CallsOK, Working, InCall, Outcome, Idle, NewCall

(* Registration: it works on no id until it inserts a fresh one. *)
LEMMA SerialRegister ==
  ASSUME DepTypeOK, SerialInv, NEW t \in Thread,
         (\E m \in Manifest : RegisterManifest(t, m)) \/ CheckReservation(t) \/ InsertRecord(t)
  PROVE  SerialInv'
<1> SUFFICES ASSUME NEW d \in Id \ overlapped PROVE SerialOK(d)'
  BY DEF SerialInv, RegisterManifest, CheckReservation, InsertRecord
<1>1. CallsOK /\ SerialOK(d)
  BY DEF DepTypeOK, SerialInv
<1>2. d # None
  BY IdleIsNoId
<1>3. ~Working(t, d)
  BY <1>1, <1>2 DEF Working, InCall, Target, CallsOK, CallOK, RegisterStep,
        RegisterManifest, CheckReservation, InsertRecord
<1>4. ~Working(t, d)' /\ \A u \in Thread \ {t} : call'[u] = call[u]
  <2>1. CASE \E m \in Manifest : RegisterManifest(t, m)
    <3>1. PICK m \in Manifest : RegisterManifest(t, m)
      BY <2>1
    <3>2. CASE LoadedConflict(m)
      BY <1>1, <3>1, <3>2, OthersUnchanged, OutcomeEnds DEF RegisterManifest, Return
    <3>3. CASE ~LoadedConflict(m)
      <4>1. call' = [call EXCEPT ![t] = NewCall("reserve", None, m)]
        BY <3>1, <3>3 DEF RegisterManifest
      <4>2. call'[t].id = None /\ \A u \in Thread \ {t} : call'[u] = call[u]
        <5>1. call'[t] = NewCall("reserve", None, m)
          BY <1>1, <4>1 DEF CallsOK
        <5> QED BY <1>1, <4>1, <5>1, NewCallFields DEF CallsOK
      <4> QED BY <1>2, <4>2 DEF Working, Target
    <3> QED BY <3>2, <3>3
  <2>2. CASE CheckReservation(t)
    <3>1. call[t].id = None
      BY <1>1, <2>2 DEF CheckReservation, CallsOK, CallOK, RegisterStep
    <3>2. CASE ReservedConflict(call[t].todo, None)
      BY <1>1, <2>2, <3>2, OthersUnchanged, OutcomeEnds DEF CheckReservation, Return
    <3>3. CASE ~ReservedConflict(call[t].todo, None)
      <4>1. call' = [call EXCEPT ![t].at = "insert"]
        BY <2>2, <3>3 DEF CheckReservation, Goto
      <4>2. call'[t].id = None /\ \A u \in Thread \ {t} : call'[u] = call[u]
        BY <1>1, <3>1, <4>1 DEF CallsOK, CallRecord
      <4> QED BY <1>2, <4>2 DEF Working, Target
    <3> QED BY <3>2, <3>3
  <2>3. CASE InsertRecord(t)
    BY <1>1, <1>2, <2>3, OthersUnchanged, OutcomeEnds DEF InsertRecord
  <2> QED BY <2>1, <2>2, <2>3
<1>5. \A u \in Thread : Working(u, d)' <=> Working(u, d)
  BY <1>3, <1>4 DEF Working, InCall, Target
<1>6. CASE records'[d] = records[d]
  BY <1>1, <1>3, <1>4, <1>5, <1>6, SerialFrame
     DEF RegisterManifest, CheckReservation, InsertRecord
<1>7. CASE records'[d] # records[d]
  <2>1. records[d].status = "none" /\ records'[d].status = "pending" /\ runtime' = runtime
    <3>1. InsertRecord(t)
      BY <1>7 DEF RegisterManifest, CheckReservation
    <3>2. PICK e \in Id :
            /\ records[e].status = "none"
            /\ records' = [records EXCEPT ![e] = [status |-> "pending", services |-> call[t].todo]]
      BY <3>1 DEF InsertRecord
    <3>3. e = d
      BY <1>7, <3>2 DEF DepTypeOK
    <3> QED BY <3>1, <3>2, <3>3 DEF DepTypeOK, InsertRecord
  <2>2. \A u \in Thread : ~Working(u, d)
    <3> SUFFICES ASSUME NEW u \in Thread, Working(u, d) PROVE FALSE
      OBVIOUS
    <3>1. call[u].at \in ActivateStep \cup DeleteStep
      BY <1>1, <1>2 DEF Working, InCall, Target, CallsOK, CallOK, CallRecord, Step
    <3>2. StepOK(u, d)
      BY <1>1 DEF SerialOK
    <3> QED BY <2>1, <3>1, <3>2 DEF StepOK, ActivateStep, DeleteStep
  <2>3. runtime[d] = None
    BY <1>1, <2>1, <2>2 DEF SerialOK, Busy, Working
  <2> QED BY <1>5, <2>1, <2>2, <2>3, SerialOwn
<1> QED BY <1>6, <1>7

(* Another call on d makes d overlapped, so d is free when a call starts.   *)
LEMMA SerialStart ==
  ASSUME DepTypeOK, SerialInv, NEW t \in Thread, NEW e \in Id, Activate(t, e) \/ Delete(t, e)
  PROVE  SerialInv'
<1>1. CallsOK /\ records'= records /\ runtime' = runtime /\ ~InCall(t) /\ MarkOverlap(t, e)
  BY DEF DepTypeOK, Activate, Delete
<1>2. records[e].status \in {"pending", "active", "deleted"}
  BY DEF DepTypeOK, Activate, Delete
<1>3. overlapped \subseteq overlapped'
  BY <1>1 DEF MarkOverlap
<1> SUFFICES ASSUME NEW d \in Id \ overlapped' PROVE SerialOK(d)'
  BY DEF SerialInv
<1>4. SerialOK(d) /\ ~Working(t, d)
  BY <1>1, <1>3 DEF SerialInv, Working
<1> DEFINE c == call'[t]
<1>5. \/ c.id = e /\ c.at = "validate" /\ records[e].status = "pending"
      \/ c.id = e /\ c.at = "find" /\ records[e].status = "active"
      \/ c.id = e /\ c.at = "bury" /\ records[e].status # "active"
      \/ c.at \in {"idle", "ok", "err"}
  <2>1. CASE Activate(t, e)
    <3>1. CASE records[e].status = "pending"
      <4>1. call'[t] = NewCall("validate", e, << >>)
        BY <1>1, <2>1, <3>1 DEF Activate, CallsOK
      <4> QED BY <3>1, <4>1, NewCallFields
    <3>2. CASE records[e].status = "active"
      <4>1. call'[t] = Outcome(t, "ok", e)
        BY <1>1, <2>1, <3>2 DEF Activate, CallsOK
      <4> QED BY <4>1, OutcomeFields
    <3>3. CASE records[e].status = "deleted"
      <4>1. call'[t] = Outcome(t, "err", e)
        BY <1>1, <2>1, <3>3 DEF Activate, CallsOK
      <4> QED BY <4>1, OutcomeFields
    <3> QED BY <1>2, <3>1, <3>2, <3>3
  <2>2. CASE Delete(t, e)
    <3>1. call'[t] = NewCall(IF records[e].status = "active" THEN "find" ELSE "bury", e, << >>)
      BY <1>1, <2>2 DEF Delete, CallsOK
    <3> QED BY <3>1, NewCallFields
  <2> QED BY <2>1, <2>2
<1>6. \A u \in Thread \ {t} : call'[u] = call[u] /\ (Working(u, d)' <=> Working(u, d))
  BY <1>1 DEF Activate, Delete, CallsOK, Working, InCall, Target
<1>7. CASE d # e \/ c.at \in {"idle", "ok", "err"}
  <2>1. ~Working(t, d)'
    BY <1>5, <1>6, <1>7 DEF Working, InCall, Target
  <2> QED BY <1>1, <1>4, <1>6, <2>1, SerialFrame
<1>8. CASE d = e /\ c.at \notin {"idle", "ok", "err"}
  <2>1. \A u \in Thread : ~Working(u, d)
    BY <1>1, <1>3, <1>4, <1>8 DEF MarkOverlap, Working
  <2>2. records[d].status = "active" <=> runtime[d] # None
    BY <1>4, <2>1 DEF SerialOK, Busy, Working
  <2>3. StepOK(t, d)'
    BY <1>1, <1>2, <1>5, <1>6, <1>8, <2>2 DEF StepOK, ActivateStep
  <2>4. Working(t, d)'
    BY <1>5, <1>6, <1>8 DEF Working, InCall, Target
  <2> QED BY <1>6, <2>1, <2>3, <2>4, SerialOwn
<1> QED BY <1>7, <1>8

(* A step of the pending call of t on its target moves it to step at, or    *)
(* ends it, and changes the target alone.                                   *)
LEMMA SerialStep ==
  ASSUME DepTypeOK, SerialInv, NEW t \in Thread, call[t].at \in ActivateStep \cup DeleteStep,
         overlapped' = overlapped,
         CallsOK', \A u \in Thread \ {t} : call'[u] = call[u],
         InCall(t)' => call'[t].id = call[t].id,
         \A e \in Id \ {Target(t)} : records'[e] = records[e] /\ runtime'[e] = runtime[e],
         StepOK(t, Target(t)) /\ InCall(t)' => StepOK(t, Target(t))',
         StepOK(t, Target(t)) /\ ~InCall(t)' =>
            (records'[Target(t)].status = "active" <=> runtime'[Target(t)] # None)
  PROVE  SerialInv'
<1> SUFFICES ASSUME NEW d \in Id \ overlapped PROVE SerialOK(d)'
  BY DEF SerialInv
<1>1. SerialOK(d)
  BY DEF SerialInv
<1>2. InCall(t)
  BY DEF InCall, ActivateStep, DeleteStep
<1>3. CASE Target(t) # d
  <2>1. ~Working(t, d) /\ ~Working(t, d)'
    BY <1>3 DEF Working, Target
  <2>2. \A u \in Thread : Working(u, d)' <=> Working(u, d)
    BY <2>1 DEF Working, InCall, Target
  <2> QED BY <1>1, <1>3, <2>1, <2>2, SerialFrame
<1>4. CASE Target(t) = d
  <2>1. Working(t, d) /\ StepOK(t, d)
    BY <1>1, <1>2, <1>4 DEF Working, SerialOK
  <2>2. \A u \in Thread \ {t} : ~Working(u, d)'
    BY <1>1, <2>1 DEF SerialOK, Working, InCall, Target
  <2>3. Working(t, d)' => StepOK(t, d)'
    BY <1>4, <2>1 DEF Working
  <2>4. ~Working(t, d)' => ~InCall(t)'
    BY <1>4 DEF Working, Target
  <2> QED BY <1>4, <2>1, <2>2, <2>3, <2>4, SerialOwn
<1> QED BY <1>3, <1>4

(* Progress from step to step, and returning, in the form SerialStep uses.  *)
LEMMA MovedOn ==
  ASSUME CallsOK, NEW t \in Thread, NEW at, Goto(t, at)
  PROVE  /\ \A u \in Thread \ {t} : call'[u] = call[u]
         /\ call'[t].id = call[t].id /\ call'[t].at = at
BY DEF CallsOK, CallRecord, Goto

(* The same for a thread that has started or stopped one more service. *)
LEMMA Worked ==
  ASSUME CallsOK, NEW t \in Thread, NEW todo,
         \/ call' = [call EXCEPT ![t].todo = todo]
         \/ call' = [call EXCEPT ![t].todo = todo, ![t].failed = TRUE]
  PROVE  /\ \A u \in Thread \ {t} : call'[u] = call[u]
         /\ call'[t].id = call[t].id /\ call'[t].at = call[t].at
BY DEF CallsOK, CallRecord

(* The same for a thread whose call ends. *)
LEMMA Ended ==
  ASSUME CallsOK, NEW t \in Thread, NEW o \in {"ok", "err"}, Return(t, o)
  PROVE  /\ \A u \in Thread \ {t} : call'[u] = call[u]
         /\ ~InCall(t)'
<1>1. call'[t] = Outcome(t, o, Target(t)) /\ \A u \in Thread \ {t} : call'[u] = call[u]
  BY DEF CallsOK, Return
<1> QED BY <1>1, OutcomeFields DEF InCall

(* The steps of activate and delete that change nothing but the call. *)
LEMMA SerialCheck ==
  ASSUME DepTypeOK, SerialInv, NEW t \in Thread,
         \/ ValidateActivation(t) \/ RecheckReservation(t) \/ AdmitActivation(t)
         \/ RevalidateActivation(t) \/ AbortActivation(t) \/ FailActivation(t)
         \/ FindDeployment(t)
  PROVE  SerialInv'
<1>1. CallsOK /\ CallsOK'
  BY CheckType DEF DepTypeOK
<1>2. records' = records /\ runtime' = runtime /\ overlapped' = overlapped
  BY DEF ValidateActivation, RecheckReservation, AdmitActivation, RevalidateActivation,
         AbortActivation, FailActivation, FindDeployment
<1>3. /\ call[t].at \in ActivateStep \cup DeleteStep
      /\ call[t].at \notin {"mark", "stop", "bury"}
  BY DEF ValidateActivation, RecheckReservation, AdmitActivation, RevalidateActivation,
         AbortActivation, FailActivation, FindDeployment, ActivateStep, DeleteStep
<1> DEFINE Early == {"validate", "recheck", "admit", "revalidate", "start", "rollback"}
<1>4. /\ \A u \in Thread \ {t} : call'[u] = call[u]
      /\ \/ ~InCall(t)'
         \/ /\ call'[t].id = call[t].id
            /\ \/ call[t].at \in Early /\ call'[t].at \in Early
               \/ call[t].at = "find" /\ call'[t].at = "stop"
  <2>1. CASE ValidateActivation(t)
    <3>1. Return(t, "err") \/ Goto(t, "recheck")
      BY <2>1 DEF ValidateActivation
    <3> QED BY <1>1, <2>1, <3>1, MovedOn, Ended DEF ValidateActivation
  <2>2. CASE RecheckReservation(t)
    <3>1. Return(t, "err") \/ Goto(t, "admit")
      BY <2>2 DEF RecheckReservation
    <3> QED BY <1>1, <2>2, <3>1, MovedOn, Ended DEF RecheckReservation
  <2>3. CASE AdmitActivation(t)
    <3>1. Return(t, "err") \/ Goto(t, "revalidate")
      BY <2>3 DEF AdmitActivation
    <3> QED BY <1>1, <2>3, <3>1, MovedOn, Ended DEF AdmitActivation
  <2>4. CASE RevalidateActivation(t)
    <3>1. \/ Return(t, "err")
          \/ call' = [call EXCEPT ![t].at = "start", ![t].todo = records[Target(t)].services]
      BY <2>4 DEF RevalidateActivation
    <3>2. \/ ~InCall(t)' /\ \A u \in Thread \ {t} : call'[u] = call[u]
          \/ /\ \A u \in Thread \ {t} : call'[u] = call[u]
             /\ call'[t].id = call[t].id /\ call'[t].at = "start"
      BY <1>1, <3>1, Ended DEF CallsOK, CallRecord
    <3> QED BY <2>4, <3>2 DEF RevalidateActivation
  <2>5. CASE AbortActivation(t)
    <3>1. call' = [call EXCEPT ![t].at = "rollback", ![t].by = t,
                               ![t].todo = records[Target(t)].services]
      BY <2>5 DEF AbortActivation
    <3>2. /\ \A u \in Thread \ {t} : call'[u] = call[u]
          /\ call'[t].id = call[t].id /\ call'[t].at = "rollback"
      BY <1>1, <3>1 DEF CallsOK, CallRecord
    <3> QED BY <2>5, <3>2 DEF AbortActivation
  <2>6. CASE FailActivation(t)
    BY <1>1, <2>6, Ended DEF FailActivation
  <2>7. CASE FindDeployment(t)
    <3>1. \/ Return(t, "err")
          \/ call' = [call EXCEPT ![t].at = "stop", ![t].by = runtime[Target(t)],
                                  ![t].todo = records[Target(t)].services]
      BY <2>7 DEF FindDeployment
    <3>2. \/ ~InCall(t)' /\ \A u \in Thread \ {t} : call'[u] = call[u]
          \/ /\ \A u \in Thread \ {t} : call'[u] = call[u]
             /\ call'[t].id = call[t].id /\ call'[t].at = "stop"
      BY <1>1, <3>1, Ended DEF CallsOK, CallRecord
    <3> QED BY <2>7, <3>2 DEF FindDeployment
  <2> QED BY <2>1, <2>2, <2>3, <2>4, <2>5, <2>6, <2>7
<1>5. StepOK(t, Target(t)) /\ InCall(t)' => StepOK(t, Target(t))'
  BY <1>2, <1>4 DEF StepOK, Target, ActivateStep
<1>6. StepOK(t, Target(t)) => (records[Target(t)].status = "active" <=> runtime[Target(t)] # None)
  BY <1>3 DEF StepOK, ActivateStep, DeleteStep
<1> QED BY <1>1, <1>2, <1>3, <1>4, <1>5, <1>6, SerialStep

(* The steps that change the record or the running services. *)
LEMMA SerialEffect ==
  ASSUME DepTypeOK, SerialInv, NEW t \in Thread,
         \/ StartService(t) \/ StopService(t) \/ CommitActivation(t) \/ MarkActive(t)
         \/ PurgeDeployment(t) \/ BuryRecord(t)
  PROVE  SerialInv'
<1>1. CallsOK /\ CallsOK'
  BY EffectType DEF DepTypeOK
<1>2. call[t].at \in ActivateStep \cup DeleteStep
  BY DEF StartService, StopService, CommitActivation, MarkActive, PurgeDeployment,
         BuryRecord, ActivateStep, DeleteStep
<1>3. /\ Target(t) \in Id /\ t # None
      /\ records \in [Id -> [status : {"none", "pending", "active", "deleted"},
                             services : {<< >>} \cup Manifest]]
      /\ runtime \in [Id -> Thread \cup {None}]
  BY <1>1, <1>2, ConstantsAssumption
     DEF ConstantsAssumption, CallsOK, CallOK, Target, DepTypeOK
<1>4. CASE StartService(t) \/ StopService(t)
  <2>1. /\ \A u \in Thread \ {t} : call'[u] = call[u]
        /\ call'[t].id = call[t].id /\ call'[t].at = call[t].at
    BY <1>1, <1>4, Worked DEF StartService, StopService
  <2>2. StepOK(t, Target(t)) => StepOK(t, Target(t))'
    BY <1>4, <2>1 DEF StepOK, Target, StartService, StopService
  <2> QED BY <1>1, <1>2, <1>4, <2>1, <2>2, SerialStep DEF StartService, StopService, InCall,
            ActivateStep, DeleteStep
<1>5. CASE CommitActivation(t)
  <2>1. /\ \A u \in Thread \ {t} : call'[u] = call[u]
        /\ call'[t].id = call[t].id /\ call'[t].at = "mark" /\ call[t].at = "start"
    BY <1>1, <1>5, MovedOn DEF CommitActivation
  <2>2. StepOK(t, Target(t)) => StepOK(t, Target(t))'
    BY <1>3, <1>5, <2>1 DEF StepOK, Target, CommitActivation, ActivateStep
  <2> QED BY <1>1, <1>2, <1>3, <1>5, <2>1, <2>2, SerialStep DEF CommitActivation, InCall
<1>6. CASE MarkActive(t)
  <2>1. (\A u \in Thread \ {t} : call'[u] = call[u]) /\ ~InCall(t)'
    BY <1>1, <1>6, Ended DEF MarkActive
  <2>2. StepOK(t, Target(t)) =>
          (records'[Target(t)].status = "active" <=> runtime'[Target(t)] # None)
    BY <1>3, <1>6 DEF StepOK, MarkActive, SetStatus
  <2> QED BY <1>1, <1>2, <1>3, <1>6, <2>1, <2>2, SerialStep DEF MarkActive, SetStatus
<1>7. CASE PurgeDeployment(t)
  <2>1. /\ \A u \in Thread \ {t} : call'[u] = call[u]
        /\ call'[t].id = call[t].id /\ call'[t].at = "bury" /\ call[t].at = "stop"
    BY <1>1, <1>7, MovedOn DEF PurgeDeployment
  <2>2. StepOK(t, Target(t)) => StepOK(t, Target(t))'
    BY <1>3, <1>7, <2>1 DEF StepOK, Target, PurgeDeployment, ActivateStep
  <2> QED BY <1>1, <1>2, <1>3, <1>7, <2>1, <2>2, SerialStep DEF PurgeDeployment, InCall
<1>8. CASE BuryRecord(t)
  <2>1. (\A u \in Thread \ {t} : call'[u] = call[u]) /\ ~InCall(t)'
    BY <1>1, <1>8, Ended DEF BuryRecord
  <2>2. StepOK(t, Target(t)) =>
          (records'[Target(t)].status = "active" <=> runtime'[Target(t)] # None)
    BY <1>3, <1>8 DEF StepOK, BuryRecord, SetStatus
  <2> QED BY <1>1, <1>2, <1>3, <1>8, <2>1, <2>2, SerialStep DEF BuryRecord, SetStatus
<1> QED BY <1>4, <1>5, <1>6, <1>7, <1>8

(* Every step of every thread preserves the invariant. *)
LEMMA SerialInductive ==
  ASSUME DepTypeOK, SerialInv, NEW t \in Thread, DepStep(t)
  PROVE  SerialInv'
<1>1. CASE \E m \in Manifest : RegisterManifest(t, m)
  BY <1>1, SerialRegister
<1>2. CASE \E d \in Id : Activate(t, d) \/ Delete(t, d)
  BY <1>2, SerialStart
<1>3. CASE Continue(t)
  BY <1>3, SerialRegister, SerialCheck, SerialEffect DEF Continue
<1> QED BY <1>1, <1>2, <1>3 DEF DepStep

(* So does stuttering. *)
LEMMA SerialStutter ==
  ASSUME SerialInv, UNCHANGED depVars
  PROVE  SerialInv'
BY DEF depVars, SerialInv, SerialOK, StepOK, Busy, Working, InCall, Target

(* The inductive invariant behind RecordsAgree and DeletedStays holds always. *)
THEOREM SerialSafe == DepSpec => []SerialInv
<1>1. DepTypeOK /\ SerialInv /\ [DepNext]_depVars => SerialInv'
  <2> SUFFICES ASSUME DepTypeOK, SerialInv, [DepNext]_depVars PROVE SerialInv'
    OBVIOUS
  <2>1. CASE DepNext
    BY <2>1, NextIsStep, SerialInductive DEF Thread
  <2>2. CASE UNCHANGED depVars
    BY <2>2, SerialStutter
  <2> QED BY <2>1, <2>2
<1> QED BY <1>1, SerialInit, TypeCorrect, PTL DEF DepSpec

(* Between calls, a deployment whose calls never overlapped is recorded     *)
(* active exactly when the orchestrator runs it.                            *)
THEOREM RecordsAgree == DepSpec => []RecordMatchesRuntime
<1>1. SerialInv => RecordMatchesRuntime
  BY DEF SerialInv, SerialOK, RecordMatchesRuntime
<1> QED BY <1>1, SerialSafe, PTL

(* Only three steps write a record, and only MarkActive could revive one.   *)
LEMMA DeletedStep ==
  ASSUME DepTypeOK, SerialInv, NEW t \in Thread, DepStep(t),
         NEW d \in Id \ overlapped', records[d].status = "deleted"
  PROVE  records'[d].status = "deleted"
<1>1. CallsOK /\ DOMAIN records = Id /\ records \in [Id -> [status : {"none", "pending", "active",
        "deleted"}, services : {<< >>} \cup Manifest]]
  BY DEF DepTypeOK
<1>2. CASE InsertRecord(t)
  BY <1>1, <1>2 DEF InsertRecord
<1>3. CASE MarkActive(t)
  <2>1. call[t].at = "mark" /\ overlapped' = overlapped
    BY <1>3 DEF MarkActive
  <2>2. SerialOK(d)
    BY <2>1 DEF SerialInv
  <2>3. InCall(t)
    BY <2>1 DEF InCall
  <2>4. Target(t) # d
    BY <2>1, <2>2, <2>3 DEF SerialOK, StepOK, Working
  <2> QED BY <1>1, <1>3, <2>4 DEF MarkActive, SetStatus
<1>4. CASE BuryRecord(t)
  BY <1>1, <1>4 DEF BuryRecord, SetStatus
<1>5. CASE UNCHANGED records
  BY <1>5
<1>6. InsertRecord(t) \/ MarkActive(t) \/ BuryRecord(t) \/ UNCHANGED records
  BY DEF DepStep, Continue, RegisterManifest, Activate, Delete, CheckReservation,
         ValidateActivation, RecheckReservation, AdmitActivation, RevalidateActivation,
         StartService, AbortActivation, CommitActivation, StopService, FailActivation,
         FindDeployment, PurgeDeployment
<1> QED BY <1>2, <1>3, <1>4, <1>5, <1>6

(* A deleted deployment whose calls never overlapped is never revived.      *)
THEOREM DeletedStays == DepSpec => SerialDeletedStaysDeleted
<1> DEFINE Kept == \A d \in Id \ overlapped' :
                     records[d].status = "deleted" => records'[d].status = "deleted"
<1>1. DepTypeOK /\ SerialInv /\ [DepNext]_depVars => [Kept]_depVars
  <2> SUFFICES ASSUME DepTypeOK, SerialInv, DepNext PROVE Kept
    OBVIOUS
  <2> QED BY NextIsStep, DeletedStep DEF Thread
<1>2. SerialDeletedStaysDeleted <=> [][Kept]_depVars
  BY DEF SerialDeletedStaysDeleted
<1> QED BY <1>1, <1>2, TypeCorrect, SerialSafe, PTL DEF DepSpec

----------------------------------------------------------------------------
(* Sockets.  On a deployment whose calls never overlapped, what listens and   *)
(* what is listed follow from the one pending call: an activation lists       *)
(* nothing before all its sockets are open, a rollback or a deactivation      *)
(* still has to stop whatever listens, and otherwise both agree.              *)
BindsOn(d)  == BindsOf(records[d].services)
Stopping(d) == \E t \in Thread : Working(t, d) /\ call[t].at = "stop"

ListedOK(d) ==
  /\ \A l \in loaded : l.dep = d => l.by = runtime[d] /\ runtime[d] # None
  /\ runtime[d] # None => \A b \in BindsOn(d) : [bind |-> b, dep |-> d, by |-> runtime[d]] \in loaded

HeldOK(d) ==
  /\ \A b \in Binding : sockets[b].dep = d =>
       /\ b \in BindsOn(d)
       /\ \/ runtime[d] # None /\ sockets[b].by = runtime[d]
          \/ \E t \in Thread : /\ Working(t, d) /\ call[t].at \in {"start", "rollback"}
                               /\ sockets[b].by = t
  /\ \A l \in loaded : l.dep = d /\ ~Stopping(d) => sockets[l.bind] = [dep |-> d, by |-> runtime[d]]

UnderWayOK(t, d) ==
  LET todo == BindsOf(call[t].todo) IN
  /\ call[t].at = "start" =>
       /\ todo \subseteq BindsOn(d)
       /\ ~call[t].failed => \A b \in BindsOn(d) \ todo : sockets[b] = [dep |-> d, by |-> t]
  /\ call[t].at \in {"rollback", "stop"} =>
       /\ call[t].by = IF call[t].at = "stop" THEN runtime[d] ELSE t
       /\ \A b \in Binding : sockets[b].dep = d => b \in todo

SocketsOK(d) == ListedOK(d) /\ HeldOK(d) /\ \A t \in Thread : Working(t, d) => UnderWayOK(t, d)

(* What the configuration started is never stopped.                          *)
BaseOK == \A l \in loaded : l.dep = None => l.by = "config" /\ sockets[l.bind] = BaseOwner

SocketsInv == BaseOK /\ \A d \in Id \ overlapped : SocketsOK(d)

(* A deployment of which nothing runs.                                       *)
Bare(d) ==
  /\ \A b \in Binding : sockets[b].dep # d
  /\ \A l \in loaded : l.dep # d
  /\ runtime[d] = None

(* Nothing to say of a deployment of which nothing runs, and that nobody      *)
(* stops.                                                                   *)
LEMMA BareIsOK ==
  ASSUME NEW d \in Id, Bare(d)', DepTypeOK',
         \A u \in Thread : Working(u, d)' =>
           /\ call'[u].at \notin {"rollback", "stop"}
           /\ call'[u].at = "start" => call'[u].todo = records'[d].services
  PROVE  SocketsOK(d)'
<1>1. ListedOK(d)'  BY DEF Bare, ListedOK
<1>2. HeldOK(d)'
  BY DEF Bare, HeldOK, DepTypeOK
<1>3. ASSUME NEW u \in Thread, Working(u, d)' PROVE UnderWayOK(u, d)'
  BY <1>3 DEF UnderWayOK, BindsOn
<1> QED  BY <1>1, <1>2, <1>3 DEF SocketsOK

(* The manager starts with the sockets of its configuration. *)
LEMMA SocketsInit == DepInit => SocketsInv
<1> SUFFICES ASSUME DepInit PROVE SocketsInv
  OBVIOUS
<1>1. BaseOK
  BY ConstantsAssumption DEF ConstantsAssumption, DepInit, BaseOK
<1>2. ASSUME NEW d \in Id PROVE SocketsOK(d)
  <2>1. /\ \A b \in Binding : sockets[b].dep # d
        /\ \A l \in loaded : l.dep # d
        /\ runtime[d] = None /\ \A t \in Thread : ~InCall(t)
    BY IdleIsNoId DEF DepInit, BaseOwner, Free, Idle, NewCall, InCall
  <2> QED  BY <2>1 DEF SocketsOK, ListedOK, HeldOK, Working, Stopping
<1> QED  BY <1>1, <1>2 DEF SocketsInv

(* A step that is about other deployments.                                   *)
LEMMA SocketsFrame ==
  ASSUME NEW d \in Id, SocketsOK(d), DepTypeOK,
         \A b \in Binding : sockets[b].dep = d \/ sockets'[b].dep = d => sockets'[b] = sockets[b],
         {l \in loaded' : l.dep = d} = {l \in loaded : l.dep = d},
         runtime'[d] = runtime[d], records'[d].services = records[d].services,
         \A u \in Thread : Working(u, d)' <=> Working(u, d),
         \A u \in Thread : Working(u, d) => call'[u] = call[u]
  PROVE  SocketsOK(d)'
<1>1. BindsOn(d)' = BindsOn(d)  BY DEF BindsOn
<1>2. Stopping(d)' <=> Stopping(d)  BY DEF Stopping
<1>3. \A l \in loaded' : l.dep = d => l \in loaded
  OBVIOUS
<1>4. \A l \in loaded : l.dep = d => l \in loaded' /\ l.bind \in Binding
  BY DEF DepTypeOK
<1>5. ListedOK(d)'
  <2>1. \A b : [bind |-> b, dep |-> d, by |-> runtime[d]].dep = d  OBVIOUS
  <2> QED  BY <1>1, <1>3, <1>4, <2>1 DEF SocketsOK, ListedOK
<1>6. HeldOK(d)'
  <2>1. ASSUME NEW b \in Binding, sockets'[b].dep = d
        PROVE  /\ b \in BindsOn(d)
               /\ \/ runtime'[d] # None /\ sockets'[b].by = runtime'[d]
                  \/ \E t \in Thread : /\ Working(t, d)' /\ call'[t].at \in {"start", "rollback"}
                                       /\ sockets'[b].by = t
    BY <2>1 DEF SocketsOK, HeldOK
  <2>2. ASSUME NEW l \in loaded', l.dep = d, ~Stopping(d)'
        PROVE  sockets'[l.bind] = [dep |-> d, by |-> runtime'[d]]
    <3>1. l \in loaded /\ l.bind \in Binding  BY <1>3, <1>4, <2>2
    <3>2. sockets[l.bind] = [dep |-> d, by |-> runtime[d]]  BY <3>1, <1>2, <2>2 DEF SocketsOK, HeldOK
    <3> QED  BY <3>1, <3>2
  <2> QED  BY <1>1, <2>1, <2>2 DEF HeldOK
<1>7. ASSUME NEW u \in Thread, Working(u, d)' PROVE UnderWayOK(u, d)'
  <2>1. UnderWayOK(u, d) /\ call'[u] = call[u]  BY <1>7 DEF SocketsOK
  <2>2. BindsOn(d) \subseteq Binding  BY TodoType DEF BindsOn
  <2> QED  BY <1>1, <2>1, <2>2 DEF UnderWayOK
<1> QED  BY <1>5, <1>6, <1>7 DEF SocketsOK

(* The one pending call on a deployment starts, ends or goes on, and neither   *)
(* starts nor stops a service.                                               *)
LEMMA SocketsStay ==
  ASSUME NEW d \in Id, SocketsOK(d), DepTypeOK, NEW t \in Thread,
         \A u \in Thread \ {t} : ~Working(u, d) /\ ~Working(u, d)',
         sockets' = sockets, loaded' = loaded,
         runtime'[d] = runtime[d], records'[d].services = records[d].services,
         Working(t, d) => call[t].at \notin {"start", "rollback", "stop"},
         Working(t, d)' => call'[t].at \notin {"start", "rollback", "stop"}
  PROVE  SocketsOK(d)'
<1>1. BindsOn(d)' = BindsOn(d)  BY DEF BindsOn
<1>2. ~Stopping(d)' /\ ~Stopping(d)  BY DEF Stopping
<1>3. ListedOK(d)'  BY <1>1 DEF SocketsOK, ListedOK
<1>4. HeldOK(d)'
  <2>1. \A b \in Binding : sockets[b].dep = d => b \in BindsOn(d) /\ runtime[d] # None /\ sockets[b].by = runtime[d]
    BY DEF SocketsOK, HeldOK
  <2>2. \A l \in loaded : l.dep = d => sockets[l.bind] = [dep |-> d, by |-> runtime[d]]
    BY <1>2 DEF SocketsOK, HeldOK
  <2> QED  BY <1>1, <2>1, <2>2 DEF HeldOK
<1>5. ASSUME NEW u \in Thread, Working(u, d)' PROVE UnderWayOK(u, d)'
  <2>1. u = t  BY <1>5
  <2> QED  BY <2>1, <1>5 DEF UnderWayOK
<1> QED  BY <1>3, <1>4, <1>5 DEF SocketsOK

(* A step of the pending call of t: the other deployments stay as they are.   *)
LEMMA SocketsStep ==
  ASSUME DepTypeOK, SocketsInv, NEW t \in Thread, NEW d \in Id, Working(t, d),
         overlapped' = overlapped, \A u \in Thread \ {t} : call'[u] = call[u],
         InCall(t)' => call'[t].id = call[t].id,
         BaseOK',
         \A e \in Id \ {d} :
           /\ \A b \in Binding : sockets[b].dep = e \/ sockets'[b].dep = e => sockets'[b] = sockets[b]
           /\ {l \in loaded' : l.dep = e} = {l \in loaded : l.dep = e}
           /\ runtime'[e] = runtime[e] /\ records'[e].services = records[e].services,
         d \notin overlapped => SocketsOK(d)'
  PROVE  SocketsInv'
<1>1. ASSUME NEW e \in Id \ overlapped, e # d PROVE SocketsOK(e)'
  <2>1. ~Working(t, e) /\ ~Working(t, e)'  BY <1>1 DEF Working, Target
  <2>2. \A u \in Thread : Working(u, e)' <=> Working(u, e)
    BY <2>1 DEF Working, InCall, Target
  <2>3. \A u \in Thread : Working(u, e) => call'[u] = call[u]  BY <2>1
  <2>4. SocketsOK(e)  BY DEF SocketsInv
  <2> QED  BY <1>1, <2>2, <2>3, <2>4, SocketsFrame
<1> QED  BY <1>1 DEF SocketsInv

(* What its steps leave alone. *)
LEMMA BaseStays ==
  ASSUME BaseOK, \A l \in loaded' : l.dep = None => l \in loaded,
         \A l \in loaded : sockets[l.bind] = BaseOwner => sockets'[l.bind] = BaseOwner
  PROVE  BaseOK'
BY DEF BaseOK

(* The one thread that works on a deployment: alone before and after.         *)
LEMMA AloneOn ==
  ASSUME SerialInv, NEW t \in Thread, NEW d \in Id \ overlapped, Working(t, d),
         \A u \in Thread \ {t} : call'[u] = call[u]
  PROVE  /\ \A u \in Thread \ {t} : ~Working(u, d) /\ ~Working(u, d)'
         /\ StepOK(t, d)
BY DEF SerialInv, SerialOK, Working, InCall, Target

(* Steps that neither start nor stop a service.                              *)
LEMMA SocketsQuiet ==
  ASSUME DepTypeOK, SerialInv, SocketsInv, NEW t \in Thread, NEW d \in Id, Working(t, d),
         overlapped' = overlapped, \A u \in Thread \ {t} : call'[u] = call[u],
         InCall(t)' => call'[t].id = call[t].id,
         UNCHANGED <<runtime, loaded, sockets>>,
         \A e \in Id : records'[e].services = records[e].services,
         d \notin overlapped => \/ SocketsOK(d)'
                                \/ /\ call[t].at \notin {"start", "rollback", "stop"}
                                   /\ InCall(t)' => call'[t].at \notin {"start", "rollback", "stop"}
  PROVE  SocketsInv'
<1>1. BaseOK'  BY BaseStays DEF SocketsInv
<1>2. ASSUME d \notin overlapped PROVE SocketsOK(d)'
  <2>1. CASE SocketsOK(d)'  BY <2>1
  <2>2. CASE /\ call[t].at \notin {"start", "rollback", "stop"}
             /\ InCall(t)' => call'[t].at \notin {"start", "rollback", "stop"}
    <3>1. SocketsOK(d)  BY <1>2 DEF SocketsInv
    <3>2. \A u \in Thread \ {t} : ~Working(u, d) /\ ~Working(u, d)'  BY <1>2, AloneOn
    <3>3. Working(t, d)' => call'[t].at \notin {"start", "rollback", "stop"}
      BY <2>2 DEF Working
    <3> QED  BY <2>2, <3>1, <3>2, <3>3, SocketsStay
  <2> QED  BY <1>2, <2>1, <2>2
<1> QED  BY <1>1, <1>2, SocketsStep

(* The fields of a record of calls that the steps set. *)
LEMMA WorkedFields ==
  ASSUME CallsOK, NEW t \in Thread, NEW at, NEW todo, NEW by
  PROVE  /\ call' = [call EXCEPT ![t].at = at, ![t].todo = todo] =>
              /\ call'[t].at = at /\ call'[t].todo = todo /\ call'[t].id = call[t].id
              /\ \A u \in Thread \ {t} : call'[u] = call[u]
         /\ call' = [call EXCEPT ![t].at = at, ![t].by = by, ![t].todo = todo] =>
              /\ call'[t].at = at /\ call'[t].todo = todo /\ call'[t].by = by /\ call'[t].id = call[t].id
              /\ \A u \in Thread \ {t} : call'[u] = call[u]
         /\ call' = [call EXCEPT ![t].todo = todo] =>
              /\ call'[t].todo = todo /\ call'[t].at = call[t].at /\ call'[t].id = call[t].id
              /\ call'[t].by = call[t].by /\ call'[t].failed = call[t].failed
              /\ \A u \in Thread \ {t} : call'[u] = call[u]
         /\ call' = [call EXCEPT ![t].todo = todo, ![t].failed = TRUE] =>
              /\ call'[t].todo = todo /\ call'[t].at = call[t].at /\ call'[t].id = call[t].id
              /\ call'[t].by = call[t].by /\ call'[t].failed
              /\ \A u \in Thread \ {t} : call'[u] = call[u]
BY DEF CallsOK, CallRecord

(* The bindings of what is still to do: the next one, and the rest.           *)
LEMMA BindsLeft ==
  ASSUME NEW s \in Seq(Service), s # << >>
  PROVE  BindsOf(s) = {Head(s).bind} \cup BindsOf(Tail(s))
<1>1. /\ Len(s) \in Nat \ {0} /\ Head(s) = s[1] /\ Tail(s) \in Seq(Service)
      /\ Len(Tail(s)) = Len(s) - 1 /\ \A i \in 1 .. Len(s) - 1 : Tail(s)[i] = s[i + 1]
  OBVIOUS
<1>2. ASSUME NEW i \in DOMAIN s PROVE s[i].bind \in {Head(s).bind} \cup BindsOf(Tail(s))
  <2>1. CASE i = 1  BY <1>1, <2>1
  <2>2. CASE i # 1
    <3>1. i - 1 \in 1 .. Len(s) - 1 /\ (i - 1) + 1 = i  BY <1>1, <1>2, <2>2
    <3>2. Tail(s)[i - 1] = s[i] /\ i - 1 \in DOMAIN Tail(s)  BY <3>1, <1>1
    <3> QED  BY <3>2 DEF BindsOf
  <2> QED  BY <2>1, <2>2
<1>3. ASSUME NEW i \in DOMAIN Tail(s) PROVE Tail(s)[i].bind \in BindsOf(s)
  <2>1. i + 1 \in DOMAIN s /\ s[i + 1] = Tail(s)[i]  BY <1>1, <1>3
  <2> QED  BY <2>1 DEF BindsOf
<1>4. Head(s).bind \in BindsOf(s)
  <2>1. 1 \in DOMAIN s  BY <1>1
  <2> QED  BY <2>1, <1>1 DEF BindsOf
<1> QED  BY <1>2, <1>3, <1>4 DEF BindsOf

(* The steps of activate and delete that change nothing but the call.         *)
LEMMA SocketsCheck ==
  ASSUME DepTypeOK, SerialInv, SocketsInv, NEW t \in Thread,
         \/ ValidateActivation(t) \/ RecheckReservation(t) \/ AdmitActivation(t)
         \/ RevalidateActivation(t) \/ AbortActivation(t) \/ FailActivation(t)
         \/ FindDeployment(t)
  PROVE  SocketsInv'
<1>0. PICK d : d = Target(t)  OBVIOUS
<1>1. CallsOK /\ DepTypeOK' /\ UNCHANGED <<records, runtime, loaded, sockets, overlapped>>
  BY CheckType DEF DepTypeOK, ValidateActivation, RecheckReservation, AdmitActivation,
         RevalidateActivation, AbortActivation, FailActivation, FindDeployment
<1>2. call[t].at \in ActivateStep \cup DeleteStep
  BY DEF ValidateActivation, RecheckReservation, AdmitActivation, RevalidateActivation,
         AbortActivation, FailActivation, FindDeployment, ActivateStep, DeleteStep
<1>3. d \in Id /\ Working(t, d)
  BY <1>0, <1>1, <1>2 DEF CallsOK, CallOK, Target, Working, InCall, ActivateStep, DeleteStep
<1>4. ASSUME \/ ValidateActivation(t) \/ RecheckReservation(t) \/ AdmitActivation(t)
      PROVE  SocketsInv'
  <2>1. /\ call[t].at \in {"validate", "recheck", "admit"}
        /\ Return(t, "err") \/ \E at \in {"recheck", "admit", "revalidate"} : Goto(t, at)
    BY <1>4 DEF ValidateActivation, RecheckReservation, AdmitActivation
  <2>2. /\ \A u \in Thread \ {t} : call'[u] = call[u]
        /\ InCall(t)' => call'[t].id = call[t].id /\ call'[t].at \in {"recheck", "admit", "revalidate"}
    BY <1>1, <2>1, MovedOn, Ended
  <2> QED  BY <1>1, <1>3, <2>1, <2>2, SocketsQuiet
<1>5. ASSUME RevalidateActivation(t) PROVE SocketsInv'
  <2>1. /\ call[t].at = "revalidate"
        /\ \/ Return(t, "err")
           \/ call' = [call EXCEPT ![t].at = "start", ![t].todo = records[d].services]
    BY <1>0, <1>5 DEF RevalidateActivation
  <2>2. CASE Return(t, "err")
    BY <1>1, <1>3, <2>1, <2>2, Ended, SocketsQuiet
  <2>3. CASE call' = [call EXCEPT ![t].at = "start", ![t].todo = records[d].services]
    <3>1. /\ call'[t].at = "start" /\ call'[t].todo = records[d].services /\ call'[t].id = call[t].id
          /\ \A u \in Thread \ {t} : call'[u] = call[u]
      BY <1>1, <2>3, WorkedFields
    <3>2. ASSUME d \notin overlapped PROVE SocketsOK(d)'
      <4>1. (\A u \in Thread \ {t} : ~Working(u, d) /\ ~Working(u, d)') /\ runtime[d] = None
        BY <1>3, <2>1, <3>1, <3>2, AloneOn DEF StepOK, ActivateStep
      <4>2. SocketsOK(d)  BY <1>3, <3>2 DEF SocketsInv
      <4>3. Bare(d)'
        BY <1>1, <2>1, <4>1, <4>2 DEF Bare, SocketsOK, ListedOK, HeldOK
      <4> QED  BY <1>1, <1>3, <3>1, <4>1, <4>3, BareIsOK
    <3> QED  BY <1>1, <1>3, <3>1, <3>2, SocketsQuiet
  <2> QED  BY <2>1, <2>2, <2>3
<1>6. ASSUME AbortActivation(t) PROVE SocketsInv'
  <2>1. /\ call[t].at = "start"
        /\ call' = [call EXCEPT ![t].at = "rollback", ![t].by = t, ![t].todo = records[d].services]
    BY <1>0, <1>6 DEF AbortActivation
  <2>2. /\ call'[t].at = "rollback" /\ call'[t].todo = records[d].services /\ call'[t].id = call[t].id
        /\ call'[t].by = t /\ \A u \in Thread \ {t} : call'[u] = call[u]
    BY <1>1, <2>1 DEF CallsOK, CallRecord
  <2>3. ASSUME d \notin overlapped PROVE SocketsOK(d)'
    <3>1. (\A u \in Thread \ {t} : ~Working(u, d) /\ ~Working(u, d)') /\ runtime[d] = None
      BY <1>3, <2>1, <2>2, <2>3, AloneOn DEF StepOK, ActivateStep
    <3>2. SocketsOK(d)  BY <1>3, <2>3 DEF SocketsInv
    <3>3. Working(t, d)'  BY <1>3, <2>2 DEF Working, InCall, Target
    <3>4. BindsOn(d)' = BindsOn(d) /\ BindsOf(call'[t].todo) = BindsOn(d)  BY <1>1, <2>2 DEF BindsOn
    <3>5. ListedOK(d)'  BY <1>1, <3>2, <3>4 DEF SocketsOK, ListedOK
    <3>6. \A b \in Binding : sockets[b].dep = d => b \in BindsOn(d) /\ sockets[b].by = t
      BY <3>1, <3>2 DEF SocketsOK, HeldOK
    <3>7. HeldOK(d)'
      BY <1>1, <2>2, <3>1, <3>2, <3>3, <3>4, <3>6 DEF SocketsOK, HeldOK, ListedOK
    <3>8. UnderWayOK(t, d)'  BY <1>1, <2>2, <3>4, <3>6 DEF UnderWayOK
    <3> QED  BY <3>1, <3>5, <3>7, <3>8 DEF SocketsOK
  <2> QED  BY <1>1, <1>3, <2>2, <2>3, SocketsQuiet
<1>7. ASSUME FailActivation(t) PROVE SocketsInv'
  <2>1. call[t].at = "rollback" /\ call[t].todo = << >> /\ Return(t, "err")
    BY <1>7 DEF FailActivation
  <2>2. (\A u \in Thread \ {t} : call'[u] = call[u]) /\ ~InCall(t)'
    BY <1>1, <2>1, Ended
  <2>3. ASSUME d \notin overlapped PROVE SocketsOK(d)'
    <3>1. (\A u \in Thread \ {t} : ~Working(u, d) /\ ~Working(u, d)') /\ runtime[d] = None
      BY <1>3, <2>1, <2>2, <2>3, AloneOn DEF StepOK, ActivateStep
    <3>2. SocketsOK(d)  BY <1>3, <2>3 DEF SocketsInv
    <3>3. BindsOf(call[t].todo) = {}  BY <2>1 DEF BindsOf
    <3>4. Bare(d)'
      BY <1>1, <1>3, <2>1, <3>1, <3>2, <3>3 DEF Bare, SocketsOK, ListedOK, UnderWayOK
    <3>5. ~Working(t, d)'  BY <2>2 DEF Working
    <3> QED  BY <1>1, <1>3, <3>1, <3>4, <3>5, BareIsOK
  <2> QED  BY <1>1, <1>3, <2>2, <2>3, SocketsQuiet
<1>8. ASSUME FindDeployment(t) PROVE SocketsInv'
  <2>1. /\ call[t].at = "find"
        /\ \/ Return(t, "err")
           \/ call' = [call EXCEPT ![t].at = "stop", ![t].by = runtime[d], ![t].todo = records[d].services]
    BY <1>0, <1>8 DEF FindDeployment
  <2>2. CASE Return(t, "err")
    BY <1>1, <1>3, <2>1, <2>2, Ended, SocketsQuiet
  <2>3. CASE call' = [call EXCEPT ![t].at = "stop", ![t].by = runtime[d], ![t].todo = records[d].services]
    <3>1. /\ call'[t].at = "stop" /\ call'[t].todo = records[d].services /\ call'[t].id = call[t].id
          /\ call'[t].by = runtime[d] /\ \A u \in Thread \ {t} : call'[u] = call[u]
      BY <1>1, <2>3 DEF CallsOK, CallRecord
    <3>2. ASSUME d \notin overlapped PROVE SocketsOK(d)'
      <4>1. (\A u \in Thread \ {t} : ~Working(u, d) /\ ~Working(u, d)') /\ runtime[d] # None
        BY <1>3, <2>1, <3>1, <3>2, AloneOn DEF StepOK
      <4>2. SocketsOK(d)  BY <1>3, <3>2 DEF SocketsInv
      <4>3. Working(t, d)'  BY <1>3, <3>1 DEF Working, InCall, Target
      <4>4. BindsOn(d)' = BindsOn(d) /\ BindsOf(call'[t].todo) = BindsOn(d)  BY <1>1, <3>1 DEF BindsOn
      <4>5. ListedOK(d)'  BY <1>1, <4>2, <4>4 DEF SocketsOK, ListedOK
      <4>6. \A b \in Binding : sockets[b].dep = d => b \in BindsOn(d) /\ sockets[b].by = runtime[d]
        BY <2>1, <4>1, <4>2 DEF SocketsOK, HeldOK
      <4>7. Stopping(d)'  BY <3>1, <4>3 DEF Stopping
      <4>8. HeldOK(d)'  BY <1>1, <4>1, <4>4, <4>6, <4>7 DEF HeldOK
      <4>9. UnderWayOK(t, d)'  BY <1>1, <3>1, <4>4, <4>6 DEF UnderWayOK
      <4> QED  BY <4>1, <4>5, <4>8, <4>9 DEF SocketsOK
    <3> QED  BY <1>1, <1>3, <3>1, <3>2, SocketsQuiet
  <2> QED  BY <2>1, <2>2, <2>3
<1> QED  BY <1>4, <1>5, <1>6, <1>7, <1>8

----------------------------------------------------------------------------
(* One more service is started, or fails to.                                 *)
LEMMA SocketsStart ==
  ASSUME DepTypeOK, SerialInv, SocketsInv, NEW t \in Thread, StartService(t)
  PROVE  SocketsInv'
<1>0. PICK d : d = Target(t)  OBVIOUS
<1>1. /\ CallsOK /\ DepTypeOK' /\ call[t].at = "start" /\ call[t].todo # << >>
      /\ UNCHANGED <<records, runtime, loaded, overlapped>>
  BY EffectType DEF DepTypeOK, StartService
<1>2. d \in Id /\ Working(t, d) /\ d # None /\ call[t].todo \in Seq(Service)
  BY <1>0, <1>1, IdleIsNoId, CallFields DEF CallsOK, CallOK, Target, Working, InCall, ActivateStep
<1>3. PICK b : b = Head(call[t].todo).bind  OBVIOUS
<1>4. PICK rest : rest = Tail(call[t].todo)  OBVIOUS
<1>5. BindsOf(call[t].todo) = {b} \cup BindsOf(rest) /\ b \in Binding
  BY <1>1, <1>2, <1>3, <1>4, BindsLeft, HeadType
<1>6. \/ /\ sockets[b] = Free /\ sockets' = [sockets EXCEPT ![b] = [dep |-> d, by |-> t]]
         /\ call' = [call EXCEPT ![t].todo = rest]
      \/ /\ sockets' = sockets
         /\ call' = [call EXCEPT ![t].todo = rest, ![t].failed = TRUE]
  BY <1>0, <1>3, <1>4 DEF StartService
<1>7. /\ call'[t].at = "start" /\ call'[t].id = call[t].id /\ call'[t].todo = rest
      /\ \A u \in Thread \ {t} : call'[u] = call[u]
      /\ ~call'[t].failed => ~call[t].failed /\ sockets[b] = Free
                             /\ sockets' = [sockets EXCEPT ![b] = [dep |-> d, by |-> t]]
  <2>1. CASE call' = [call EXCEPT ![t].todo = rest]
    <3>1. /\ call'[t].at = call[t].at /\ call'[t].id = call[t].id /\ call'[t].todo = rest
          /\ call'[t].failed = call[t].failed /\ \A u \in Thread \ {t} : call'[u] = call[u]
      BY <1>1, <2>1, WorkedFields
    <3>2. /\ sockets[b] = Free /\ sockets' = [sockets EXCEPT ![b] = [dep |-> d, by |-> t]]
          \/ call' = [call EXCEPT ![t].todo = rest, ![t].failed = TRUE]
      BY <1>6
    <3>3. call' = [call EXCEPT ![t].todo = rest, ![t].failed = TRUE] => call'[t].failed
      BY <1>1, WorkedFields
    <3> QED  BY <1>1, <3>1, <3>2, <3>3
  <2>2. CASE call' = [call EXCEPT ![t].todo = rest, ![t].failed = TRUE]
    BY <1>1, <2>2, WorkedFields
  <2> QED  BY <1>6, <2>1, <2>2
<1>8. sockets \in [Binding -> [dep : Id \cup {None}, by : Thread \cup {"config", None}]]
  BY DEF DepTypeOK
<1>9. /\ \A c \in Binding : c # b => sockets'[c] = sockets[c]
      /\ sockets'[b] = sockets[b] \/ (sockets[b] = Free /\ sockets'[b] = [dep |-> d, by |-> t])
      /\ Free.dep = None /\ [dep |-> d, by |-> t].dep = d /\ [dep |-> d, by |-> t].by = t
  BY <1>5, <1>6, <1>8 DEF Free
<1>10. BaseOK'
  <2>1. Free # BaseOwner  BY ConstantsAssumption DEF ConstantsAssumption, Free, BaseOwner
  <2>2. \A l \in loaded : l.bind \in Binding  BY DEF DepTypeOK
  <2> QED  BY <1>1, <1>9, <2>1, <2>2, BaseStays DEF SocketsInv
<1>11. \A e \in Id \ {d} : \A c \in Binding :
         sockets[c].dep = e \/ sockets'[c].dep = e => sockets'[c] = sockets[c]
  BY <1>9, IdleIsNoId
<1>12. ASSUME d \notin overlapped PROVE SocketsOK(d)'
  <2>1. (\A u \in Thread \ {t} : ~Working(u, d) /\ ~Working(u, d)') /\ runtime[d] = None
    BY <1>1, <1>2, <1>7, <1>12, AloneOn DEF StepOK, ActivateStep
  <2>2. SocketsOK(d) /\ UnderWayOK(t, d)  BY <1>2, <1>12 DEF SocketsInv, SocketsOK
  <2>3. Working(t, d)'  BY <1>2, <1>7 DEF Working, InCall, Target
  <2>4. BindsOn(d)' = BindsOn(d) /\ b \in BindsOn(d) /\ BindsOf(rest) \subseteq BindsOn(d)
    BY <1>1, <1>5, <2>2 DEF BindsOn, UnderWayOK
  <2>5. ListedOK(d)' /\ \A l \in loaded : l.dep # d
    BY <1>1, <2>1, <2>2, <2>4 DEF SocketsOK, ListedOK
  <2>6. HeldOK(d)'
    <3>1. ASSUME NEW c \in Binding, sockets'[c].dep = d
          PROVE  c \in BindsOn(d) /\ sockets'[c].by = t
      <4>1. CASE sockets'[c] = sockets[c]
        BY <2>1, <2>2, <3>1, <4>1 DEF SocketsOK, HeldOK
      <4>2. CASE sockets'[c] # sockets[c]
        BY <1>9, <2>4, <4>2
      <4> QED  BY <4>1, <4>2
    <3> QED  BY <1>1, <1>7, <2>3, <2>4, <2>5, <3>1 DEF HeldOK
  <2>7. UnderWayOK(t, d)'
    <3>1. ASSUME ~call'[t].failed, NEW c \in BindsOn(d) \ BindsOf(rest)
          PROVE  sockets'[c] = [dep |-> d, by |-> t]
      <4>1. c \in Binding  BY <1>2, TodoType DEF BindsOn
      <4>2. CASE c = b  BY <1>7, <1>8, <3>1, <4>1, <4>2
      <4>3. CASE c # b
        <5>1. c \in BindsOn(d) \ BindsOf(call[t].todo)  BY <1>5, <4>3
        <5>2. sockets[c] = [dep |-> d, by |-> t]  BY <1>1, <1>7, <2>2, <3>1, <5>1 DEF UnderWayOK
        <5> QED  BY <1>9, <4>1, <4>3, <5>2
      <4> QED  BY <4>2, <4>3
    <3> QED  BY <1>7, <2>4, <3>1 DEF UnderWayOK
  <2> QED  BY <2>1, <2>5, <2>6, <2>7 DEF SocketsOK
<1>13. \A e \in Id \ {d} :
           /\ \A c \in Binding : sockets[c].dep = e \/ sockets'[c].dep = e => sockets'[c] = sockets[c]
           /\ {l \in loaded' : l.dep = e} = {l \in loaded : l.dep = e}
           /\ runtime'[e] = runtime[e] /\ records'[e].services = records[e].services
  BY <1>1, <1>11
<1> QED  BY <1>1, <1>2, <1>7, <1>10, <1>12, <1>13, SocketsStep

(* One more service is stopped.                                              *)
LEMMA SocketsStop ==
  ASSUME DepTypeOK, SerialInv, SocketsInv, NEW t \in Thread, StopService(t)
  PROVE  SocketsInv'
<1>0. PICK d : d = Target(t)  OBVIOUS
<1>1. /\ CallsOK /\ DepTypeOK' /\ call[t].at \in {"rollback", "stop"} /\ call[t].todo # << >>
      /\ UNCHANGED <<records, runtime, loaded, overlapped>>
  BY EffectType DEF DepTypeOK, StopService
<1>2. d \in Id /\ Working(t, d) /\ d # None /\ call[t].todo \in Seq(Service)
  BY <1>0, <1>1, IdleIsNoId, CallFields DEF CallsOK, CallOK, Target, Working, InCall, ActivateStep, DeleteStep
<1>3. PICK b : b = Head(call[t].todo).bind  OBVIOUS
<1>4. PICK rest : rest = Tail(call[t].todo)  OBVIOUS
<1>5. BindsOf(call[t].todo) = {b} \cup BindsOf(rest) /\ b \in Binding
  BY <1>1, <1>2, <1>3, <1>4, BindsLeft, HeadType
<1>6. PICK owner : owner = [dep |-> d, by |-> call[t].by]  OBVIOUS
<1>7. /\ sockets' = [sockets EXCEPT ![b] = IF sockets[b] = owner THEN Free ELSE sockets[b]]
      /\ call' = [call EXCEPT ![t].todo = rest]
  BY <1>0, <1>3, <1>4, <1>6 DEF StopService
<1>8. /\ call'[t].at = call[t].at /\ call'[t].id = call[t].id /\ call'[t].todo = rest
      /\ call'[t].by = call[t].by /\ \A u \in Thread \ {t} : call'[u] = call[u]
  BY <1>1, <1>7, WorkedFields
<1>9. sockets \in [Binding -> [dep : Id \cup {None}, by : Thread \cup {"config", None}]]
  BY DEF DepTypeOK
<1>10. /\ \A c \in Binding : c # b => sockets'[c] = sockets[c]
       /\ sockets[b] = owner => sockets'[b] = Free
       /\ sockets[b] # owner => sockets'[b] = sockets[b]
       /\ Free.dep = None /\ owner.dep = d
  BY <1>5, <1>6, <1>7, <1>9 DEF Free
<1>11. BaseOK'
  <2>1. owner # BaseOwner  BY <1>2, <1>10 DEF BaseOwner
  <2>2. \A l \in loaded : l.bind \in Binding  BY DEF DepTypeOK
  <2> QED  BY <1>1, <1>10, <2>1, <2>2, BaseStays DEF SocketsInv
<1>12. ASSUME d \notin overlapped PROVE SocketsOK(d)'
  <2>1. (\A u \in Thread \ {t} : ~Working(u, d) /\ ~Working(u, d)') /\ StepOK(t, d)
    BY <1>2, <1>8, <1>12, AloneOn
  <2>2. SocketsOK(d) /\ UnderWayOK(t, d)  BY <1>2, <1>12 DEF SocketsInv, SocketsOK
  <2>3. Working(t, d)'  BY <1>1, <1>2, <1>8 DEF Working, InCall, Target
  <2>4. BindsOn(d)' = BindsOn(d)  BY <1>1 DEF BindsOn
  <2>5. ListedOK(d)'  BY <1>1, <2>2, <2>4 DEF SocketsOK, ListedOK
  <2>6. \A c \in Binding : sockets[c].dep = d =>
          c \in BindsOn(d) /\ sockets[c].by = call[t].by /\ c \in {b} \cup BindsOf(rest)
    <3>1. CASE call[t].at = "rollback"
      BY <1>1, <1>5, <2>1, <2>2, <3>1 DEF SocketsOK, HeldOK, UnderWayOK, StepOK, ActivateStep
    <3>2. CASE call[t].at = "stop"
      BY <1>1, <1>5, <2>1, <2>2, <3>2 DEF SocketsOK, HeldOK, UnderWayOK, StepOK
    <3> QED  BY <1>1, <3>1, <3>2
  <2>7. ASSUME NEW c \in Binding, sockets'[c].dep = d
        PROVE  /\ sockets'[c] = sockets[c] /\ c \in BindsOn(d) /\ c \in BindsOf(rest)
               /\ sockets[c].by = call[t].by
    <3>1. CASE c # b  BY <1>10, <2>6, <2>7, <3>1
    <3>2. CASE c = b
      <4>1. sockets[b] # owner /\ sockets'[b] = sockets[b]
        BY <1>2, <1>10, <2>7, <3>2
      <4>2. sockets[b].dep = d /\ sockets[b].by = call[t].by  BY <2>6, <2>7, <3>2, <4>1
      <4>3. sockets[b] = owner  BY <1>5, <1>6, <1>9, <4>2
      <4> QED  BY <4>1, <4>3
    <3> QED  BY <3>1, <3>2
  <2>8. call[t].by = IF call[t].at = "stop" THEN runtime[d] ELSE t
    BY <1>1, <2>2 DEF UnderWayOK
  <2>9. HeldOK(d)'
    <3>1. CASE call[t].at = "rollback"
      <4>1. \A l \in loaded : l.dep # d
        BY <2>1, <2>2, <3>1 DEF SocketsOK, ListedOK, StepOK, ActivateStep
      <4> QED  BY <1>1, <1>8, <2>3, <2>4, <2>7, <2>8, <3>1, <4>1 DEF HeldOK
    <3>2. CASE call[t].at = "stop"
      <4>1. Stopping(d)'  BY <1>8, <2>3, <3>2 DEF Stopping
      <4>2. runtime[d] # None  BY <2>1, <3>2 DEF StepOK
      <4> QED  BY <1>1, <2>4, <2>7, <2>8, <3>2, <4>1, <4>2 DEF HeldOK
    <3> QED  BY <1>1, <3>1, <3>2
  <2>10. UnderWayOK(t, d)'  BY <1>1, <1>8, <2>7, <2>8 DEF UnderWayOK
  <2> QED  BY <2>1, <2>5, <2>9, <2>10 DEF SocketsOK
<1>13. \A e \in Id \ {d} :
           /\ \A c \in Binding : sockets[c].dep = e \/ sockets'[c].dep = e => sockets'[c] = sockets[c]
           /\ {l \in loaded' : l.dep = e} = {l \in loaded : l.dep = e}
           /\ runtime'[e] = runtime[e] /\ records'[e].services = records[e].services
  BY <1>1, <1>10, IdleIsNoId
<1> QED  BY <1>1, <1>2, <1>8, <1>11, <1>12, <1>13, SocketsStep

(* All sockets are open: the deployment is listed.                           *)
LEMMA SocketsCommit ==
  ASSUME DepTypeOK, SerialInv, SocketsInv, NEW t \in Thread, CommitActivation(t)
  PROVE  SocketsInv'
<1>0. PICK d : d = Target(t)  OBVIOUS
<1>1. /\ CallsOK /\ DepTypeOK' /\ call[t].at = "start" /\ call[t].todo = << >> /\ ~call[t].failed
      /\ UNCHANGED <<records, sockets, overlapped>>
  BY EffectType DEF DepTypeOK, CommitActivation
<1>2. d \in Id /\ Working(t, d) /\ d # None /\ t # None
  BY <1>0, <1>1, IdleIsNoId, ConstantsAssumption
     DEF ConstantsAssumption, CallsOK, CallOK, Target, Working, InCall, ActivateStep
<1>3. PICK new : new = {[bind |-> b, dep |-> d, by |-> t] : b \in BindsOn(d)}  OBVIOUS
<1>4. loaded' = loaded \cup new /\ runtime' = [runtime EXCEPT ![d] = t] /\ Goto(t, "mark")
  BY <1>0, <1>3 DEF CommitActivation, BindsOn
<1>5. /\ call'[t].at = "mark" /\ call'[t].id = call[t].id
      /\ \A u \in Thread \ {t} : call'[u] = call[u]
  BY <1>1, <1>4, MovedOn
<1>6. /\ \A l \in new : l.dep = d /\ l.by = t /\ l.bind \in BindsOn(d)
      /\ \A b \in BindsOn(d) : [bind |-> b, dep |-> d, by |-> t] \in new
  BY <1>3
<1>7. runtime'[d] = t /\ \A e \in Id \ {d} : runtime'[e] = runtime[e]
  BY <1>2, <1>4 DEF DepTypeOK
<1>8. BaseOK'  BY <1>1, <1>2, <1>4, <1>6, BaseStays DEF SocketsInv
<1>9. ASSUME d \notin overlapped PROVE SocketsOK(d)'
  <2>1. (\A u \in Thread \ {t} : ~Working(u, d) /\ ~Working(u, d)') /\ runtime[d] = None
    BY <1>1, <1>2, <1>5, <1>9, AloneOn DEF StepOK, ActivateStep
  <2>2. SocketsOK(d) /\ UnderWayOK(t, d)  BY <1>2, <1>9 DEF SocketsInv, SocketsOK
  <2>3. BindsOn(d)' = BindsOn(d)  BY <1>1 DEF BindsOn
  <2>4. \A l \in loaded : l.dep # d  BY <2>1, <2>2 DEF SocketsOK, ListedOK
  <2>5. \A b \in BindsOn(d) : sockets[b] = [dep |-> d, by |-> t]
    <3>1. BindsOf(call[t].todo) = {}  BY <1>1 DEF BindsOf
    <3> QED  BY <1>1, <2>2, <3>1 DEF UnderWayOK
  <2>6. ListedOK(d)'
    BY <1>2, <1>4, <1>6, <1>7, <2>3, <2>4 DEF ListedOK
  <2>7. HeldOK(d)'
    <3>1. \A b \in Binding : sockets[b].dep = d => b \in BindsOn(d) /\ sockets[b].by = t
      BY <2>1, <2>2 DEF SocketsOK, HeldOK
    <3>2. \A l \in loaded' : l.dep = d => l.bind \in BindsOn(d)  BY <1>4, <1>6, <2>4
    <3> QED  BY <1>1, <1>2, <1>7, <2>3, <2>5, <3>1, <3>2 DEF HeldOK
  <2>8. UnderWayOK(t, d)'  BY <1>5 DEF UnderWayOK
  <2> QED  BY <2>1, <2>6, <2>7, <2>8 DEF SocketsOK
<1>10. \A e \in Id \ {d} :
           /\ \A c \in Binding : sockets[c].dep = e \/ sockets'[c].dep = e => sockets'[c] = sockets[c]
           /\ {l \in loaded' : l.dep = e} = {l \in loaded : l.dep = e}
           /\ runtime'[e] = runtime[e] /\ records'[e].services = records[e].services
  BY <1>1, <1>4, <1>6, <1>7
<1> QED  BY <1>1, <1>2, <1>5, <1>8, <1>9, <1>10, SocketsStep

(* Nothing listens any more: the deployment is unlisted.                     *)
LEMMA SocketsPurge ==
  ASSUME DepTypeOK, SerialInv, SocketsInv, NEW t \in Thread, PurgeDeployment(t)
  PROVE  SocketsInv'
<1>0. PICK d : d = Target(t)  OBVIOUS
<1>1. /\ CallsOK /\ DepTypeOK' /\ call[t].at = "stop" /\ call[t].todo = << >>
      /\ UNCHANGED <<records, sockets, overlapped>>
  BY EffectType DEF DepTypeOK, PurgeDeployment
<1>2. d \in Id /\ Working(t, d) /\ d # None
  BY <1>0, <1>1, IdleIsNoId DEF CallsOK, CallOK, Target, Working, InCall, DeleteStep
<1>3. loaded' = {l \in loaded : l.dep # d} /\ runtime' = [runtime EXCEPT ![d] = None] /\ Goto(t, "bury")
  BY <1>0 DEF PurgeDeployment
<1>4. /\ call'[t].at = "bury" /\ call'[t].id = call[t].id
      /\ \A u \in Thread \ {t} : call'[u] = call[u]
  BY <1>1, <1>3, MovedOn
<1>5. runtime'[d] = None /\ \A e \in Id \ {d} : runtime'[e] = runtime[e]
  BY <1>2, <1>3 DEF DepTypeOK
<1>6. BaseOK'  BY <1>1, <1>3, BaseStays DEF SocketsInv
<1>7. ASSUME d \notin overlapped PROVE SocketsOK(d)'
  <2>1. \A u \in Thread \ {t} : ~Working(u, d) /\ ~Working(u, d)'
    BY <1>2, <1>4, <1>7, AloneOn
  <2>2. UnderWayOK(t, d)  BY <1>2, <1>7 DEF SocketsInv, SocketsOK
  <2>3. BindsOf(call[t].todo) = {}  BY <1>1 DEF BindsOf
  <2>4. Bare(d)'  BY <1>1, <1>3, <1>5, <2>2, <2>3 DEF Bare, UnderWayOK
  <2> QED  BY <1>1, <1>2, <1>4, <2>1, <2>4, BareIsOK
<1>8. \A e \in Id \ {d} :
           /\ \A c \in Binding : sockets[c].dep = e \/ sockets'[c].dep = e => sockets'[c] = sockets[c]
           /\ {l \in loaded' : l.dep = e} = {l \in loaded : l.dep = e}
           /\ runtime'[e] = runtime[e] /\ records'[e].services = records[e].services
  BY <1>1, <1>3, <1>5
<1> QED  BY <1>1, <1>2, <1>4, <1>6, <1>7, <1>8, SocketsStep

(* The status of a record is no matter of its sockets.                       *)
LEMMA SocketsMark ==
  ASSUME DepTypeOK, SerialInv, SocketsInv, NEW t \in Thread, MarkActive(t) \/ BuryRecord(t)
  PROVE  SocketsInv'
<1>0. PICK d : d = Target(t)  OBVIOUS
<1>1. /\ CallsOK /\ call[t].at \in {"mark", "bury"} /\ Return(t, "ok")
      /\ UNCHANGED <<runtime, loaded, sockets, overlapped>>
      /\ \E s \in {"active", "deleted"} : SetStatus(Target(t), s)
  BY DEF DepTypeOK, MarkActive, BuryRecord
<1>2. d \in Id /\ Working(t, d)
  BY <1>0, <1>1 DEF CallsOK, CallOK, Target, Working, InCall, ActivateStep, DeleteStep
<1>3. \A e \in Id : records'[e].services = records[e].services
  BY <1>1 DEF SetStatus, DepTypeOK
<1>4. (\A u \in Thread \ {t} : call'[u] = call[u]) /\ ~InCall(t)'
  BY <1>1, Ended
<1> QED  BY <1>1, <1>2, <1>3, <1>4, SocketsQuiet

----------------------------------------------------------------------------
(* A registration runs nothing, and works on no deployment before it has one. *)
LEMMA SocketsRegister ==
  ASSUME DepTypeOK, SerialInv, SocketsInv, NEW t \in Thread,
         (\E m \in Manifest : RegisterManifest(t, m)) \/ CheckReservation(t) \/ InsertRecord(t)
  PROVE  SocketsInv'
<1>1. /\ DepTypeOK' /\ CallsOK /\ UNCHANGED <<runtime, loaded, sockets, overlapped>>
  BY RegisterType DEF DepTypeOK, RegisterManifest, CheckReservation, InsertRecord
<1>2. \A u \in Thread \ {t} : call'[u] = call[u]
  BY <1>1 DEF CallsOK, RegisterManifest, CheckReservation, InsertRecord, Return, Goto
<1>3. ~InCall(t) \/ Target(t) = None
  BY <1>1 DEF CallsOK, CallOK, RegisterStep, Target, RegisterManifest, CheckReservation, InsertRecord
<1>4. ~InCall(t)' \/ Target(t)' = None
  <2>1. ASSUME \E o \in {"ok", "err"}, x \in Id \cup {None} : call' = [call EXCEPT ![t] = Outcome(t, o, x)]
        PROVE  ~InCall(t)'
    <3>1. PICK o \in {"ok", "err"}, x \in Id \cup {None} : call' = [call EXCEPT ![t] = Outcome(t, o, x)]
      BY <2>1
    <3>2. call'[t] = Outcome(t, o, x)  BY <1>1, <3>1 DEF CallsOK
    <3> QED  BY <3>2, OutcomeFields DEF InCall
  <2>2. ASSUME NEW m \in Manifest, RegisterManifest(t, m) PROVE ~InCall(t)' \/ Target(t)' = None
    <3>1. CASE LoadedConflict(m)
      BY <1>1, <2>1, <2>2, <3>1 DEF RegisterManifest, Return, CallsOK, CallRecord, Target
    <3>2. CASE ~LoadedConflict(m)
      <4>1. call'[t] = NewCall("reserve", None, m)
        BY <1>1, <2>2, <3>2 DEF RegisterManifest, CallsOK
      <4> QED  BY <4>1, NewCallFields DEF Target
    <3> QED  BY <3>1, <3>2
  <2>3. ASSUME CheckReservation(t) PROVE ~InCall(t)' \/ Target(t)' = None
    <3>1. call[t].id = None
      BY <1>1, <2>3 DEF CheckReservation, CallsOK, CallOK, RegisterStep
    <3>2. Return(t, "err") \/ Goto(t, "insert")
      BY <2>3 DEF CheckReservation
    <3>3. CASE Return(t, "err")  BY <1>1, <3>3, Ended
    <3>4. CASE Goto(t, "insert")  BY <1>1, <3>1, <3>4, MovedOn DEF Target
    <3> QED  BY <3>2, <3>3, <3>4
  <2>4. ASSUME InsertRecord(t) PROVE ~InCall(t)'
    BY <2>1, <2>4 DEF InsertRecord
  <2> QED  BY <2>2, <2>3, <2>4
<1>5. \A e \in Id : ~Working(t, e) /\ ~Working(t, e)'
  BY <1>3, <1>4, IdleIsNoId DEF Working, Target
<1>6. \A e \in Id : \A u \in Thread : Working(u, e)' <=> Working(u, e)
  BY <1>2, <1>5 DEF Working, InCall, Target
<1>7. BaseOK'  BY <1>1, BaseStays DEF SocketsInv
<1>8. ASSUME NEW d \in Id \ overlapped PROVE SocketsOK(d)'
  <2>1. SocketsOK(d) /\ SerialOK(d)  BY DEF SocketsInv, SerialInv
  <2>2. CASE records'[d].services = records[d].services
    <3>1. \A u \in Thread : Working(u, d) => call'[u] = call[u]  BY <1>2, <1>5
    <3>2. \A u \in Thread : Working(u, d)' <=> Working(u, d)  BY <1>6
    <3> QED  BY <1>1, <2>1, <2>2, <3>1, <3>2, SocketsFrame
  <2>3. CASE records'[d].services # records[d].services
    <3>1. records[d].status = "none"
      <4>1. CASE InsertRecord(t)
        <5>1. PICK e \in Id : /\ records[e].status = "none"
                              /\ records' = [records EXCEPT ![e] =
                                   [status |-> "pending", services |-> call[t].todo]]
          BY <4>1 DEF InsertRecord
        <5> QED  BY <2>3, <5>1 DEF DepTypeOK
      <4>2. CASE ~InsertRecord(t)
        BY <2>3, <4>2 DEF RegisterManifest, CheckReservation
      <4> QED  BY <4>1, <4>2
    <3>2. \A u \in Thread : ~Working(u, d)
      <4> SUFFICES ASSUME NEW u \in Thread, Working(u, d) PROVE FALSE
        OBVIOUS
      <4>1. call[u].at \in ActivateStep \cup DeleteStep
        BY <1>1, IdleIsNoId DEF Working, InCall, Target, CallsOK, CallOK, CallRecord, Step
      <4>2. StepOK(u, d)  BY <2>1 DEF SerialOK
      <4> QED  BY <3>1, <4>1, <4>2 DEF StepOK, ActivateStep, DeleteStep
    <3>3. runtime[d] = None  BY <2>1, <3>1, <3>2 DEF SerialOK, Busy, Working
    <3>4. Bare(d)'  BY <1>1, <2>1, <3>2, <3>3 DEF Bare, SocketsOK, ListedOK, HeldOK
    <3> QED  BY <1>1, <1>6, <3>2, <3>4, BareIsOK
  <2> QED  BY <2>2, <2>3
<1> QED  BY <1>1, <1>7, <1>8 DEF SocketsInv

(* A call that starts is alone on its deployment, or that has overlapped.     *)
LEMMA SocketsBegin ==
  ASSUME DepTypeOK, SerialInv, SocketsInv, NEW t \in Thread, NEW e \in Id, Activate(t, e) \/ Delete(t, e)
  PROVE  SocketsInv'
<1>1. CallsOK /\ UNCHANGED <<records, runtime, loaded, sockets>> /\ ~InCall(t) /\ MarkOverlap(t, e)
  BY DEF DepTypeOK, Activate, Delete
<1>2. overlapped \subseteq overlapped'
  BY <1>1 DEF MarkOverlap
<1>3. \A u \in Thread \ {t} : call'[u] = call[u]
  BY <1>1 DEF Activate, Delete, CallsOK
<1>4. /\ call'[t].at \in {"idle", "ok", "err", "validate", "find", "bury"}
      /\ InCall(t)' => call'[t].id = e
  <2>1. CASE Activate(t, e)
    <3>1. \/ call'[t] = NewCall("validate", e, << >>)
          \/ call'[t] = Outcome(t, "ok", e) \/ call'[t] = Outcome(t, "err", e)
      <4>1. records[e].status \in {"pending", "active", "deleted"}
        BY <2>1 DEF Activate, DepTypeOK
      <4> QED  BY <1>1, <2>1, <4>1 DEF Activate, CallsOK
    <3> QED  BY <3>1, NewCallFields, OutcomeFields DEF InCall
  <2>2. CASE Delete(t, e)
    <3>1. \E at \in {"find", "bury"} : call'[t] = NewCall(at, e, << >>)
      BY <1>1, <2>2 DEF Delete, CallsOK
    <3> QED  BY <3>1, NewCallFields
  <2> QED  BY <2>1, <2>2
<1>5. ASSUME NEW d \in Id \ overlapped' PROVE SocketsOK(d)'
  <2>1. SocketsOK(d) /\ ~Working(t, d)
    BY <1>1, <1>2 DEF SocketsInv, Working
  <2>2. CASE Working(t, d)'
    <3>1. d = e  BY <1>4, <2>2 DEF Working, Target
    <3>2. \A u \in Thread \ {t} : ~Working(u, d) /\ ~Working(u, d)'
      BY <1>1, <1>3, <3>1 DEF MarkOverlap, Working, InCall, Target
    <3> QED  BY <1>1, <1>4, <2>1, <3>2, SocketsStay
  <2>3. CASE ~Working(t, d)'
    <3>1. \A u \in Thread : Working(u, d)' <=> Working(u, d)
      BY <1>3, <2>1, <2>3 DEF Working, InCall, Target
    <3>2. \A u \in Thread : Working(u, d) => call'[u] = call[u]  BY <1>3, <2>1
    <3> QED  BY <1>1, <2>1, <3>1, <3>2, SocketsFrame
  <2> QED  BY <2>2, <2>3
<1>6. BaseOK'  BY <1>1, BaseStays DEF SocketsInv
<1> QED  BY <1>5, <1>6 DEF SocketsInv

(* Every step of every thread preserves the invariant. *)
LEMMA SocketsInductive ==
  ASSUME DepTypeOK, SerialInv, SocketsInv, NEW t \in Thread, DepStep(t)
  PROVE  SocketsInv'
<1>1. CASE \E m \in Manifest : RegisterManifest(t, m)
  BY <1>1, SocketsRegister
<1>2. CASE \E d \in Id : Activate(t, d) \/ Delete(t, d)
  BY <1>2, SocketsBegin
<1>3. CASE Continue(t)
  <2>1. CASE CheckReservation(t) \/ InsertRecord(t)
    BY <2>1, SocketsRegister
  <2>2. CASE \/ ValidateActivation(t) \/ RecheckReservation(t) \/ AdmitActivation(t)
             \/ RevalidateActivation(t) \/ AbortActivation(t) \/ FailActivation(t)
             \/ FindDeployment(t)
    BY <2>2, SocketsCheck
  <2>3. CASE StartService(t) \/ StopService(t) \/ CommitActivation(t) \/ PurgeDeployment(t)
    BY <2>3, SocketsStart, SocketsStop, SocketsCommit, SocketsPurge
  <2>4. CASE MarkActive(t) \/ BuryRecord(t)
    BY <2>4, SocketsMark
  <2> QED  BY <1>3, <2>1, <2>2, <2>3, <2>4 DEF Continue
<1> QED  BY <1>1, <1>2, <1>3 DEF DepStep

(* So does stuttering. *)
LEMMA SocketsStutter ==
  ASSUME SocketsInv, UNCHANGED depVars
  PROVE  SocketsInv'
BY SMTT(30) DEF depVars, SocketsInv, BaseOK, SocketsOK, ListedOK, HeldOK, UnderWayOK, Stopping, BindsOn,
       Working, InCall, Target

(* The invariant says what SocketsMatch promises. *)
LEMMA SocketsImply ==
  ASSUME DepTypeOK, SocketsInv
  PROVE  SocketsMatch
<1>1. ASSUME NEW b \in Binding, sockets[b].dep # None, sockets[b].dep \notin overlapped
      PROVE  \/ [bind |-> b, dep |-> sockets[b].dep, by |-> sockets[b].by] \in loaded
             \/ \E t \in Thread : /\ Target(t) = sockets[b].dep
                                  /\ call[t].at \in {"start", "rollback", "stop"}
  <2>1. sockets[b].dep \in Id  BY <1>1 DEF DepTypeOK
  <2>2. PICK d : d = sockets[b].dep  OBVIOUS
  <2>3. HeldOK(d) /\ ListedOK(d)  BY <1>1, <2>1, <2>2 DEF SocketsInv, SocketsOK
  <2>4. CASE runtime[d] # None /\ sockets[b].by = runtime[d]
    BY <2>2, <2>3, <2>4 DEF HeldOK, ListedOK
  <2>5. CASE \E t \in Thread : Working(t, d) /\ call[t].at \in {"start", "rollback"}
    BY <2>2, <2>5 DEF Working
  <2> QED  BY <2>2, <2>3, <2>4, <2>5 DEF HeldOK
<1>2. ASSUME NEW l \in loaded, l.dep \notin overlapped,
             ~\E t \in Thread : Target(t) = l.dep /\ call[t].at = "stop"
      PROVE  sockets[l.bind] = [dep |-> l.dep, by |-> l.by]
  <2>1. CASE l.dep = None
    BY <2>1 DEF SocketsInv, BaseOK, BaseOwner
  <2>2. CASE l.dep # None
    <3>1. l.dep \in Id  BY <2>2 DEF DepTypeOK
    <3>2. PICK d : d = l.dep  OBVIOUS
    <3>3. ListedOK(d) /\ HeldOK(d)  BY <1>2, <3>1, <3>2 DEF SocketsInv, SocketsOK
    <3>4. ~Stopping(d)  BY <1>2, <3>2 DEF Stopping, Working
    <3> QED  BY <3>2, <3>3, <3>4 DEF ListedOK, HeldOK
  <2> QED  BY <2>1, <2>2
<1> QED  BY <1>1, <1>2 DEF SocketsMatch

(* What listens is listed, or about to be listed or stopped; and what is      *)
(* listed is served: whatever else starts, fails or stops at the same time.   *)
THEOREM SocketsAlwaysMatch == DepSpec => []SocketsMatch
<1>1. DepTypeOK /\ SerialInv /\ SocketsInv /\ [DepNext]_depVars => SocketsInv'
  <2> SUFFICES ASSUME DepTypeOK, SerialInv, SocketsInv, [DepNext]_depVars PROVE SocketsInv'
    OBVIOUS
  <2>1. CASE DepNext
    BY <2>1, NextIsStep, SocketsInductive DEF Thread
  <2>2. CASE UNCHANGED depVars
    BY <2>2, SocketsStutter
  <2> QED BY <2>1, <2>2
<1>2. DepTypeOK /\ SocketsInv => SocketsMatch  BY SocketsImply
<1> QED BY <1>1, <1>2, SocketsInit, TypeCorrect, SerialSafe, PTL DEF DepSpec

----------------------------------------------------------------------------
PoolOK ==
  /\ available \in Nat /\ warming \in Nat
  /\ stage \in [Deployer -> {"free", "slot", "register", "activate", "replenish"}]

(* The inductive invariant.                                                 *)
SlotInv == PoolOK /\ SlotsConserved

(* There are finitely many deployer threads, so those under way can be counted. *)
LEMMA DeployersFinite ==
  ASSUME NEW S \in SUBSET Deployer
  PROVE  IsFiniteSet(S) /\ Cardinality(S) \in Nat
<1>1. IsFiniteSet(Deployer)
  BY JitAssumption, FS_Subset DEF JitAssumption, Deployer
<1> QED BY <1>1, FS_Subset, FS_CardinalityType

(* A deployer takes up or leaves its place among those in flight, or moves  *)
(* on without leaving it.                                                   *)
LEMMA StageChange ==
  ASSUME PoolOK, NEW t \in Deployer,
         NEW s \in {"free", "slot", "register", "activate", "replenish"},
         stage' = [stage EXCEPT ![t] = s]
  PROVE  /\ stage' \in [Deployer -> {"free", "slot", "register", "activate", "replenish"}]
         /\ Cardinality(InFlight) \in Nat /\ Cardinality(InFlight)' \in Nat
         /\ stage[t] = "free" /\ s # "free" => Cardinality(InFlight)' = Cardinality(InFlight) + 1
         /\ stage[t] # "free" /\ s = "free" => Cardinality(InFlight)' = Cardinality(InFlight) - 1
         /\ stage[t] # "free" /\ s # "free" => Cardinality(InFlight)' = Cardinality(InFlight)
<1>1. IsFiniteSet(InFlight) /\ Cardinality(InFlight) \in Nat
  BY DeployersFinite DEF InFlight
<1>2. IsFiniteSet(InFlight') /\ Cardinality(InFlight') \in Nat
  BY DeployersFinite DEF InFlight
<1>3. CASE stage[t] = "free" /\ s # "free"
  <2>1. InFlight' = InFlight \cup {t} /\ t \notin InFlight
    BY <1>3 DEF InFlight, PoolOK
  <2> QED BY <1>1, <1>2, <1>3, <2>1, FS_AddElement DEF PoolOK
<1>4. CASE stage[t] # "free" /\ s = "free"
  <2>1. InFlight' = InFlight \ {t} /\ t \in InFlight
    BY <1>4 DEF InFlight, PoolOK
  <2> QED BY <1>1, <1>2, <1>4, <2>1, FS_RemoveElement DEF PoolOK
<1>5. CASE stage[t] # "free" /\ s # "free"
  <2>1. InFlight' = InFlight
    BY <1>5 DEF InFlight, PoolOK
  <2> QED BY <1>1, <1>5, <2>1 DEF PoolOK
<1>6. CASE stage[t] = "free" /\ s = "free"
  BY <1>1, <1>2, <1>6 DEF PoolOK
<1> QED BY <1>3, <1>4, <1>5, <1>6

(* Initially every slot is available. *)
LEMMA SlotInit == JitInit => SlotInv
<1> SUFFICES ASSUME JitInit PROVE SlotInv
  OBVIOUS
<1>1. InFlight = {}
  BY DEF JitInit, InFlight
<1>2. Cardinality(InFlight) = 0
  BY <1>1, FS_EmptySet
<1> QED BY <1>2, JitAssumption DEF JitInit, SlotInv, PoolOK, SlotsConserved, JitAssumption

(* A step that leaves the pool alone preserves the count. *)
LEMMA SlotFrame ==
  ASSUME SlotInv, UNCHANGED poolVars
  PROVE  SlotInv'
BY DEF SlotInv, PoolOK, SlotsConserved, InFlight, poolVars

(* The steps of deploy hand a slot on, give it back or leave it where it is. *)
LEMMA SlotDeploy ==
  ASSUME SlotInv, NEW t \in Deployer, TakeSlot(t) \/ DeployStep(t)
  PROVE  SlotInv'
<1> USE DEF SlotInv, SlotsConserved
<1>1. PoolOK /\ PoolSize \in Nat
  BY JitAssumption DEF JitAssumption
<1> DEFINE held == Cardinality(InFlight)
<1>2. CASE TakeSlot(t)
  <2>1. stage[t] = "free" /\ stage' = [stage EXCEPT ![t] = "slot"]
    BY <1>2 DEF TakeSlot
  <2>2. held \in Nat /\ held' = held + 1
    BY <1>1, <2>1, StageChange
  <2>3. PoolOK' /\ held \in Nat /\ held' = held + 1
    BY <1>1, <1>2, <2>1, <2>2 DEF TakeSlot, PoolOK
  <2>4. available' = available - 1 /\ warming' = warming
    BY <1>2 DEF TakeSlot
  <2> QED BY <1>1, <2>3, <2>4 DEF PoolOK
<1>3. CASE DeployRegister(t)
  BY <1>1, <1>3, StageChange DEF DeployRegister, PoolOK
<1>4. CASE DeployActivate(t)
  BY <1>1, <1>4, StageChange DEF DeployActivate, PoolOK
<1>5. CASE DeployFail(t)
  <2>1. stage[t] # "free" /\ stage' = [stage EXCEPT ![t] = "free"]
    BY <1>5 DEF DeployFail
  <2>2. held \in Nat /\ held' = held - 1
    BY <1>1, <2>1, StageChange
  <2>3. PoolOK' /\ held \in Nat /\ held' = held - 1
    BY <1>1, <1>5, <2>1, <2>2 DEF DeployFail, PoolOK
  <2>4. available' = available + 1 /\ warming' = warming
    BY <1>5 DEF DeployFail
  <2> QED BY <1>1, <2>3, <2>4 DEF PoolOK
<1>6. CASE DeployEnlist(t)
  BY <1>1, <1>6, StageChange DEF DeployEnlist, PoolOK
<1>7. CASE ScheduleReplenish(t)
  <2>1. stage[t] # "free" /\ stage' = [stage EXCEPT ![t] = "free"]
    BY <1>7 DEF ScheduleReplenish
  <2>2. held \in Nat /\ held' = held - 1
    BY <1>1, <2>1, StageChange
  <2>3. PoolOK' /\ held \in Nat /\ held' = held - 1
    BY <1>1, <1>7, <2>1, <2>2 DEF ScheduleReplenish, PoolOK
  <2>4. warming' = warming + 1 /\ available' = available
    BY <1>7 DEF ScheduleReplenish
  <2> QED BY <1>1, <2>3, <2>4 DEF PoolOK
<1> QED BY <1>2, <1>3, <1>4, <1>5, <1>6, <1>7 DEF DeployStep

(* While a slot is still warming, the pool is below its size: the cap in    *)
(* the worker never drops a slot.                                           *)
LEMMA SlotWarm ==
  ASSUME SlotInv, WarmSlot
  PROVE  SlotInv'
<1>1. InFlight' = InFlight /\ Cardinality(InFlight) \in Nat
  BY DeployersFinite DEF WarmSlot, InFlight
<1>2. available < PoolSize
  BY <1>1, JitAssumption DEF JitAssumption, SlotInv, PoolOK, SlotsConserved, WarmSlot
<1> QED BY <1>1, <1>2 DEF SlotInv, PoolOK, SlotsConserved, WarmSlot

(* Every step preserves the count. *)
LEMMA SlotNext ==
  ASSUME SlotInv, [JitNext]_vars
  PROVE  SlotInv'
<1>1. CASE \E t \in Deployer : TakeSlot(t) \/ DeployStep(t)
  BY <1>1, SlotDeploy
<1>2. CASE WarmSlot
  BY <1>2, SlotWarm
<1>3. CASE UNCHANGED poolVars
  BY <1>3, SlotFrame
<1>4. \/ \E t \in Deployer : TakeSlot(t) \/ DeployStep(t)
      \/ WarmSlot
      \/ UNCHANGED poolVars
  BY DEF JitNext, vars, jitVars, poolVars, ThreadStep, TouchFromEvent, TouchDeployment,
         Tick, ReaperStep, ScanExpired, PopRecord, TeardownExpired, Close
<1> QED BY <1>1, <1>2, <1>3, <1>4

(* No interleaving of deployments, failures and replenish workers loses or  *)
(* mints a slot, whatever the pool size and the number of threads.          *)
THEOREM SlotsAreConserved == JitSpec => []SlotsConserved
<1>1. SlotInv => SlotsConserved
  BY DEF SlotInv
<1> QED BY <1>1, SlotInit, SlotNext, PTL DEF JitSpec

----------------------------------------------------------------------------
(* With just-in-time deployments, the invariants of the manager are those of  *)
(* its threads, and a thread also takes note of an outcome.                 *)
DepInv == DepTypeOK /\ SerialInv /\ SocketsInv

NoteOutcome(t) ==
  /\ call[t].at \in {"ok", "err"}
  /\ call' = [call EXCEPT ![t] = Idle]
  /\ UNCHANGED <<records, runtime, loaded, sockets, overlapped>>

(* A thread that takes note of an outcome worked on nothing any more. *)
LEMMA NoteKeepsInv ==
  ASSUME DepInv, NEW t \in Thread, NoteOutcome(t)
  PROVE  DepInv'
<1>1. CallsOK /\ DepTypeOK /\ SerialInv /\ SocketsInv  BY DEF DepInv, DepTypeOK
<1>2. /\ UNCHANGED <<records, runtime, loaded, sockets, overlapped>> /\ call'[t] = Idle /\ ~InCall(t)
      /\ \A u \in Thread \ {t} : call'[u] = call[u]
  BY <1>1 DEF NoteOutcome, CallsOK, InCall
<1>3. DepTypeOK'
  <2>1. CallsOK'  BY <1>1, IdleOK, CallUpdate DEF NoteOutcome
  <2> QED  BY <1>1, <1>2, <2>1 DEF DepTypeOK
<1>4. ~InCall(t)'  BY <1>2 DEF InCall, Idle, NewCall
<1>5. ASSUME NEW d \in Id, NEW u \in Thread
      PROVE  (Working(u, d)' <=> Working(u, d)) /\ (Working(u, d) => call'[u] = call[u])
  BY <1>2, <1>4 DEF Working, InCall, Target
<1>6. ASSUME NEW d \in Id \ overlapped PROVE SerialOK(d)' /\ SocketsOK(d)'
  <2>1. SerialOK(d) /\ SocketsOK(d)  BY <1>1 DEF SerialInv, SocketsInv
  <2>2. SerialOK(d)'  BY <1>2, <1>5, <2>1, SerialFrame
  <2>3. SocketsOK(d)'  BY <1>1, <1>2, <1>5, <2>1, SocketsFrame
  <2> QED  BY <2>2, <2>3
<1>7. BaseOK'  BY <1>1, <1>2, BaseStays DEF SocketsInv
<1> QED  BY <1>2, <1>3, <1>6, <1>7 DEF DepInv, SerialInv, SocketsInv

(* Any step of a thread of the manager. *)
LEMMA StepKeepsInv ==
  ASSUME DepInv, NEW t \in Thread, DepStep(t)
  PROVE  DepInv'
<1>1. DepTypeOK /\ SerialInv /\ SocketsInv  BY DEF DepInv
<1> QED  BY <1>1, StepType, SerialInductive, SocketsInductive DEF DepInv

----------------------------------------------------------------------------
(* What deployers rely on between two calls: a registration that went well    *)
(* left a record, and an activation that went well a deployment that is up,   *)
(* unless someone deleted it since.                                          *)
Known(d) == d \in Id /\ records[d].status # "none"

UpOrGone(d) ==
  \/ records[d].status = "deleted"
  \/ runtime[d] # None
  \/ \E t \in Thread : Target(t) = d /\ call[t].at = "bury"

PlaceOK(t) ==
  /\ stage[t] \in {"free", "slot", "replenish"} => call[t] = Idle
  /\ stage[t] = "register" =>
       /\ call[t].at \in RegisterStep \cup {"ok", "err"}
       /\ call[t].at = "ok" => Known(Target(t))
  /\ stage[t] = "activate" =>
       /\ call[t].at \in ActivateStep \cup {"ok", "err"}
       /\ Known(Target(t))
       /\ call[t].at = "ok" /\ Target(t) \notin overlapped => UpOrGone(Target(t))

JitTypeOK ==
  /\ stage \in [Deployer -> {"free", "slot", "register", "activate", "replenish"}]
  /\ jit \in [Id -> [idle : Nat, life : Nat] \cup {None}]
  /\ index \in [Name -> SUBSET Id]

ListInv ==
  /\ JitTypeOK
  /\ \A t \in Deployer : PlaceOK(t)
  /\ \A d \in Listed : Known(d)
  /\ ListingIsTrue

JitInv == DepInv /\ ListInv

(* Who is a thread. *)
LEMMA JitThreads ==
  Deployer \subseteq Thread /\ Client \subseteq Thread /\ Reaper \in Thread /\ Reaper \notin Deployer
BY JitAssumption DEF JitAssumption, Deployer, Thread

(* A record that is there stays, with its services. *)
LEMMA KnownStays ==
  ASSUME DepTypeOK, NEW t \in Thread, DepStep(t), NEW d, Known(d)
  PROVE  Known(d)' /\ records'[d].services = records[d].services
<1>1. /\ CallsOK /\ d \in Id /\ records[d].status # "none"
      /\ records \in [Id -> [status : {"none", "pending", "active", "deleted"}, services : {<< >>} \cup Manifest]]
  BY DEF DepTypeOK, Known
<1>2. CASE InsertRecord(t)  BY <1>1, <1>2 DEF InsertRecord, Known
<1>3. CASE MarkActive(t)  BY <1>1, <1>3 DEF MarkActive, SetStatus, Known
<1>4. CASE BuryRecord(t)  BY <1>1, <1>4 DEF BuryRecord, SetStatus, Known
<1>5. CASE UNCHANGED records  BY <1>1, <1>5 DEF Known
<1>6. InsertRecord(t) \/ MarkActive(t) \/ BuryRecord(t) \/ UNCHANGED records
  BY DEF DepStep, Continue, RegisterManifest, Activate, Delete, CheckReservation,
         ValidateActivation, RecheckReservation, AdmitActivation, RevalidateActivation,
         StartService, AbortActivation, CommitActivation, StopService, FailActivation,
         FindDeployment, PurgeDeployment
<1> QED  BY <1>2, <1>3, <1>4, <1>5, <1>6

(* What only a step of its own changes. *)
LEMMA OneThread ==
  ASSUME CallsOK, NEW t \in Thread, DepStep(t)
  PROVE  /\ \A u \in Thread \ {t} : call'[u] = call[u]
         /\ overlapped \subseteq overlapped'
<1>1. \A c : call' = [call EXCEPT ![t] = c] => \A u \in Thread \ {t} : call'[u] = call[u]
  BY DEF CallsOK
<1>2. CASE \E m \in Manifest : RegisterManifest(t, m)
  BY <1>2, <1>1 DEF RegisterManifest, Return, CallsOK
<1>3. CASE \E d \in Id : Activate(t, d) \/ Delete(t, d)
  BY <1>3, <1>1 DEF Activate, Delete, MarkOverlap, CallsOK
<1>4. CASE Continue(t)
  BY <1>4, <1>1
     DEF CallsOK, Continue, CheckReservation, InsertRecord, ValidateActivation, RecheckReservation,
         AdmitActivation, RevalidateActivation, StartService, AbortActivation, CommitActivation,
         MarkActive, StopService, FailActivation, FindDeployment, PurgeDeployment, BuryRecord, Return, Goto
<1> QED  BY <1>2, <1>3, <1>4 DEF DepStep

(* A deployment that is up, or goes, or is gone, stays so. *)
LEMMA UpOrGoneStays ==
  ASSUME DepTypeOK, SerialInv, NEW t \in Thread, DepStep(t), NEW d \in Id \ overlapped', UpOrGone(d)
  PROVE  UpOrGone(d)'
<1>1. /\ CallsOK /\ runtime \in [Id -> Thread \cup {None}] /\ None \notin Thread
      /\ records \in [Id -> [status : {"none", "pending", "active", "deleted"}, services : {<< >>} \cup Manifest]]
  BY ConstantsAssumption DEF DepTypeOK, ConstantsAssumption
<1>2. CASE records[d].status = "deleted"
  BY <1>2, DeletedStep DEF UpOrGone
<1>3. CASE runtime[d] # None
  <2>1. CASE CommitActivation(t)
    BY <1>1, <1>3, <2>1 DEF CommitActivation, UpOrGone
  <2>2. CASE PurgeDeployment(t)
    <3>1. CASE Target(t) = d
      <4>1. call'[t].at = "bury" /\ call'[t].id = call[t].id
        BY <1>1, <2>2, MovedOn DEF PurgeDeployment
      <4> QED  BY <3>1, <4>1 DEF Target, UpOrGone
    <3>2. CASE Target(t) # d
      BY <1>1, <1>3, <2>2, <3>2 DEF PurgeDeployment, UpOrGone
    <3> QED  BY <3>1, <3>2
  <2>3. CASE UNCHANGED runtime  BY <1>3, <2>3 DEF UpOrGone
  <2>4. CommitActivation(t) \/ PurgeDeployment(t) \/ UNCHANGED runtime
    BY DEF DepStep, Continue, RegisterManifest, Activate, Delete, CheckReservation, InsertRecord,
           ValidateActivation, RecheckReservation, AdmitActivation, RevalidateActivation,
           StartService, AbortActivation, MarkActive, StopService, FailActivation,
           FindDeployment, BuryRecord
  <2> QED  BY <2>1, <2>2, <2>3, <2>4
<1>4. ASSUME NEW u \in Thread, Target(u) = d, call[u].at = "bury" PROVE UpOrGone(d)'
  <2>1. CASE u = t
    <3>1. BuryRecord(t)
      BY <1>4, <2>1
         DEF InCall, DepStep, Continue, RegisterManifest, Activate, Delete, CheckReservation, InsertRecord,
             ValidateActivation, RecheckReservation, AdmitActivation, RevalidateActivation,
             StartService, AbortActivation, CommitActivation, MarkActive, StopService, FailActivation,
             FindDeployment, PurgeDeployment
    <3>2. records'[d].status = "deleted"
      BY <1>1, <1>4, <2>1, <3>1 DEF BuryRecord, SetStatus
    <3> QED  BY <3>2 DEF UpOrGone
  <2>2. CASE u # t
    <3>1. call'[u] = call[u]  BY <1>1, <2>2, OneThread
    <3> QED  BY <1>4, <3>1 DEF UpOrGone, Target
  <2> QED  BY <2>1, <2>2
<1> QED  BY <1>2, <1>3, <1>4 DEF UpOrGone

(* A deployer's own step keeps its place. *)
LEMMA OwnPlace ==
  ASSUME DepInv, NEW t \in Deployer, PlaceOK(t), Continue(t), stage'[t] = stage[t]
  PROVE  PlaceOK(t)'
<1>0. /\ t \in Thread /\ t \notin Client
      /\ DepTypeOK /\ SerialInv /\ CallsOK /\ DepStep(t) /\ CallOK(call[t])
  BY JitThreads, ConstantsAssumption DEF DepInv, DepTypeOK, DepStep, Deployer, ConstantsAssumption, CallsOK
<1>1. CASE stage[t] \notin {"register", "activate"}
  <2>1. call[t].at # "idle"
    <3>1. CASE CheckReservation(t) \/ InsertRecord(t)  BY <3>1 DEF CheckReservation, InsertRecord
    <3>2. CASE ValidateActivation(t) \/ RecheckReservation(t) \/ AdmitActivation(t)
      BY <3>2 DEF ValidateActivation, RecheckReservation, AdmitActivation
    <3>3. CASE RevalidateActivation(t) \/ StartService(t) \/ AbortActivation(t)
      BY <3>3 DEF RevalidateActivation, StartService, AbortActivation
    <3>4. CASE CommitActivation(t) \/ MarkActive(t) \/ StopService(t)
      BY <3>4 DEF CommitActivation, MarkActive, StopService
    <3>5. CASE FailActivation(t) \/ FindDeployment(t) \/ PurgeDeployment(t) \/ BuryRecord(t)
      BY <3>5 DEF FailActivation, FindDeployment, PurgeDeployment, BuryRecord
    <3> QED  BY <3>1, <3>2, <3>3, <3>4, <3>5 DEF Continue
  <2>2. Idle.at = "idle"  BY DEF Idle, NewCall
  <2>3. call[t] # Idle  BY <2>1, <2>2
  <2> QED  BY <1>1, <2>3 DEF PlaceOK
<1>2. CASE stage[t] = "register"
  <2>1. call[t].at \in RegisterStep \cup {"ok", "err"}  BY <1>2 DEF PlaceOK
  <2>2. CheckReservation(t) \/ InsertRecord(t)
    BY <2>1 DEF Continue, RegisterStep, ValidateActivation, RecheckReservation,
         AdmitActivation, RevalidateActivation, StartService, AbortActivation, CommitActivation,
         MarkActive, StopService, FailActivation, FindDeployment, PurgeDeployment, BuryRecord
  <2>3. CASE CheckReservation(t)
    <3>1. call'[t].at \in {"err", "insert"}
      BY <1>0, <2>3, MovedOn DEF CheckReservation, Return, CallsOK, Outcome, NewCall
    <3> QED  BY <1>2, <3>1 DEF PlaceOK, RegisterStep
  <2>4. CASE InsertRecord(t)
    <3>1. PICK d \in Id : /\ records' = [records EXCEPT ![d] = [status |-> "pending", services |-> call[t].todo]]
                          /\ call' = [call EXCEPT ![t] = Outcome(t, "ok", d)]
      BY <2>4 DEF InsertRecord
    <3>2. call'[t].at = "ok" /\ call'[t].id = d  BY <1>0, <3>1 DEF CallsOK, Outcome, NewCall
    <3>3. records'[d].status = "pending"  BY <1>0, <3>1 DEF DepTypeOK
    <3> QED  BY <1>2, <3>2, <3>3 DEF PlaceOK, Known, Target
  <2> QED  BY <2>2, <2>3, <2>4
<1>3. CASE stage[t] = "activate"
  <2>1. call[t].at \in ActivateStep \cup {"ok", "err"} /\ Known(Target(t))  BY <1>3 DEF PlaceOK
  <2>2. PICK d : d = Target(t)  OBVIOUS
  <2>3. Known(d)' /\ Known(d)  BY <1>0, <2>1, <2>2, KnownStays
  <2>4. call[t].at \in ActivateStep
    BY <2>1 DEF Continue, CheckReservation, InsertRecord, ValidateActivation, RecheckReservation,
         AdmitActivation, RevalidateActivation, StartService, AbortActivation, CommitActivation,
         MarkActive, StopService, FailActivation, FindDeployment, PurgeDeployment, BuryRecord
  <2>5. CASE MarkActive(t)
    <3>1. call'[t].at = "ok" /\ call'[t].id = d
      BY <1>0, <2>2, <2>5 DEF MarkActive, Return, CallsOK, Outcome, NewCall
    <3>2. ASSUME d \notin overlapped' PROVE UpOrGone(d)'
      <4>1. call[t].at = "mark" /\ overlapped' = overlapped /\ runtime' = runtime  BY <2>5 DEF MarkActive
      <4>2. Working(t, d) /\ SerialOK(d)
        BY <1>0, <2>2, <2>3, <3>2, <4>1 DEF Working, InCall, Known, SerialInv
      <4>3. runtime[d] # None  BY <1>0, <4>1, <4>2 DEF SerialOK, StepOK
      <4> QED  BY <4>1, <4>3 DEF UpOrGone
    <3> QED  BY <1>3, <2>3, <3>1, <3>2 DEF PlaceOK, Target
  <2>6. CASE ~MarkActive(t)
    <3>1. call'[t].id = call[t].id /\ call'[t].at \in ActivateStep \cup {"err"}
      <4>1. CASE Return(t, "err")
        BY <1>0, <4>1 DEF Return, CallsOK, Outcome, NewCall, Target
      <4>2. CASE \E at \in ActivateStep : Goto(t, at)
        BY <1>0, <4>2, MovedOn
      <4>3. CASE call' = [call EXCEPT ![t].at = "start", ![t].todo = records[Target(t)].services]
        BY <1>0, <4>3, WorkedFields DEF ActivateStep
      <4>4. CASE call' = [call EXCEPT ![t].at = "rollback", ![t].by = t, ![t].todo = records[Target(t)].services]
        BY <1>0, <4>4 DEF ActivateStep, CallsOK, CallRecord
      <4>5. CASE \/ call' = [call EXCEPT ![t].todo = Tail(@)]
                 \/ call' = [call EXCEPT ![t].todo = Tail(@), ![t].failed = TRUE]
        BY <1>0, <2>4, <4>5 DEF CallsOK, CallRecord
      <4> QED
        BY <2>4, <2>6, <4>1, <4>2, <4>3, <4>4, <4>5
           DEF Continue, CheckReservation, InsertRecord, ValidateActivation, RecheckReservation,
             AdmitActivation, RevalidateActivation, StartService, AbortActivation, CommitActivation,
             StopService, FailActivation, FindDeployment, PurgeDeployment, BuryRecord, ActivateStep
    <3>2. call'[t].at # "ok"  BY <3>1 DEF ActivateStep
    <3> QED  BY <1>3, <2>2, <2>3, <3>1, <3>2 DEF PlaceOK, Target
  <2> QED  BY <2>5, <2>6
<1> QED  BY <1>1, <1>2, <1>3

(* The steps of the others keep it too. *)
LEMMA OtherPlace ==
  ASSUME DepInv, NEW t \in Thread, DepStep(t), NEW u \in Deployer, u # t, PlaceOK(u), stage'[u] = stage[u]
  PROVE  PlaceOK(u)'
<1>1. DepTypeOK /\ SerialInv /\ CallsOK /\ u \in Thread  BY JitThreads DEF DepInv, DepTypeOK
<1>2. call'[u] = call[u] /\ overlapped \subseteq overlapped'  BY <1>1, OneThread
<1>3. PICK d : d = Target(u)  OBVIOUS
<1>4. Known(d) => Known(d)'  BY <1>1, KnownStays
<1>5. Known(d) /\ d \notin overlapped' /\ UpOrGone(d) => UpOrGone(d)'
  BY <1>1, UpOrGoneStays DEF Known
<1> QED  BY <1>2, <1>3, <1>4, <1>5 DEF PlaceOK, Target

(* The listing, while the manager works. *)
LEMMA ListingStays ==
  ASSUME DepInv, ListInv, NEW t \in Thread, DepStep(t), UNCHANGED <<jit, index>>
  PROVE  (\A d \in Listed : Known(d))' /\ ListingIsTrue'
<1>1. DepTypeOK /\ SerialInv /\ CallsOK /\ JitTypeOK  BY DEF DepInv, ListInv, DepTypeOK
<1>2. Listed' = Listed /\ Listed \subseteq Id  BY DEF Listed
<1>3. \A d \in Listed : Known(d)' /\ records'[d].services = records[d].services
  BY <1>1, KnownStays DEF ListInv
<1>4. \A n \in Name : index'[n] = {d \in Listed' : n \in NamesOf(records'[d].services)}
  <2>1. SUFFICES ASSUME NEW n \in Name
                 PROVE  index'[n] = {d \in Listed' : n \in NamesOf(records'[d].services)}
    OBVIOUS
  <2>2. index[n] = {d \in Listed : n \in NamesOf(records[d].services)}  BY DEF ListInv, ListingIsTrue
  <2> QED  BY <1>2, <1>3, <2>2
<1>5. ASSUME NEW d \in Listed \ overlapped' PROVE UpOrGone(d)'
  <2>1. d \in Id \ overlapped  BY <1>1, <1>2, <1>5, OneThread
  <2>2. UpOrGone(d)  BY <2>1 DEF ListInv, ListingIsTrue, UpOrGone
  <2> QED  BY <1>1, <2>1, <2>2, UpOrGoneStays
<1> QED  BY <1>2, <1>3, <1>4, <1>5 DEF ListingIsTrue, UpOrGone

(* A step of a thread of the manager, while the just-in-time records stay. *)
LEMMA ThreadKeepsList ==
  ASSUME JitInv, NEW t \in Thread, DepStep(t), UNCHANGED <<jit, index>>, JitTypeOK',
         \A u \in Deployer \ {t} : stage'[u] = stage[u],
         t \in Deployer => PlaceOK(t)'
  PROVE  JitInv'
<1>1. DepInv /\ ListInv /\ \A u \in Deployer : PlaceOK(u)  BY DEF JitInv, ListInv
<1>2. DepInv'  BY <1>1, StepKeepsInv
<1>3. ASSUME NEW u \in Deployer PROVE PlaceOK(u)'
  <2>1. CASE u = t  BY <2>1
  <2>2. CASE u # t  BY <1>1, <2>2, OtherPlace
  <2> QED  BY <2>1, <2>2
<1> QED  BY <1>1, <1>2, <1>3, ListingStays DEF JitInv, ListInv

(* A step of the manager that leaves the just-in-time records alone. *)
LEMMA ManagerKeepsJit ==
  ASSUME JitInv, NEW t \in Thread, DepStep(t), t \in Deployer => Continue(t), UNCHANGED jitVars
  PROVE  JitInv'
<1>1. DepInv /\ JitTypeOK /\ \A u \in Deployer : PlaceOK(u)  BY DEF JitInv, ListInv
<1>2. UNCHANGED <<jit, index, stage>>  BY DEF jitVars
<1>3. JitTypeOK'  BY <1>1, <1>2 DEF JitTypeOK
<1>4. t \in Deployer => PlaceOK(t)'  BY <1>1, <1>2, OwnPlace
<1> QED  BY <1>2, <1>3, <1>4, ThreadKeepsList

(* A deployer registers its manifest, and activates what it registered. *)
LEMMA DeployerCallsKeepJit ==
  ASSUME JitInv, NEW t \in Deployer, DeployRegister(t) \/ DeployActivate(t)
  PROVE  JitInv'
<1>1. /\ DepInv /\ DepTypeOK /\ SerialInv /\ CallsOK /\ JitTypeOK /\ PlaceOK(t) /\ t \in Thread /\ t \notin Client
  BY JitThreads, ConstantsAssumption DEF JitInv, ListInv, DepInv, DepTypeOK, Deployer, ConstantsAssumption
<1>2. UNCHANGED <<jit, index>>  BY DEF DeployRegister, DeployActivate, ttlVars
<1>3. PICK s \in {"register", "activate"} :
        /\ stage' = [stage EXCEPT ![t] = s]
        /\ s = "register" => \E m \in Manifest : RegisterManifest(t, m)
        /\ s = "activate" => stage[t] = "register" /\ call[t].at = "ok" /\ Activate(t, Target(t))
  BY DEF DeployRegister, DeployActivate
<1>4. JitTypeOK' /\ stage'[t] = s /\ \A u \in Deployer \ {t} : stage'[u] = stage[u]
  BY <1>1, <1>2, <1>3 DEF JitTypeOK
<1>5. CASE s = "register"
  <2>1. PICK m \in Manifest : RegisterManifest(t, m)  BY <1>3, <1>5
  <2>2. call'[t].at \in {"err", "reserve"}
    BY <1>1, <2>1 DEF RegisterManifest, Return, CallsOK, Outcome, NewCall
  <2>3. PlaceOK(t)'  BY <1>4, <1>5, <2>2 DEF PlaceOK, RegisterStep
  <2> QED  BY <1>1, <1>2, <1>4, <2>1, <2>3, ThreadKeepsList DEF DepStep
<1>6. CASE s = "activate"
  <2>1. PICK d : d = Target(t)  OBVIOUS
  <2>2. Known(d) /\ Activate(t, d) /\ d \in Id  BY <1>1, <1>3, <1>6, <2>1 DEF PlaceOK, Known
  <2>3. DepStep(t)  BY <2>2 DEF DepStep
  <2>4. Known(d)'  BY <1>1, <2>2, <2>3, KnownStays
  <2>5. records[d].status \in {"pending", "active", "deleted"}  BY <1>1, <2>2 DEF DepTypeOK, Known
  <2>6. /\ call'[t].id = d /\ call'[t].at \in {"validate", "ok", "err"}
        /\ call'[t].at = "ok" => records[d].status = "active"
    <3>1. CASE records[d].status = "pending"
      <4>1. call'[t] = NewCall("validate", d, << >>)  BY <1>1, <2>2, <3>1 DEF Activate, CallsOK
      <4> QED  BY <4>1, NewCallFields
    <3>2. CASE records[d].status = "active"
      <4>1. call'[t] = NewCall("ok", d, << >>)  BY <1>1, <2>2, <3>2 DEF Activate, CallsOK, Outcome
      <4> QED  BY <3>2, <4>1, NewCallFields
    <3>3. CASE records[d].status = "deleted"
      <4>1. call'[t] = NewCall("err", d, << >>)  BY <1>1, <2>2, <3>3 DEF Activate, CallsOK, Outcome
      <4> QED  BY <4>1, NewCallFields
    <3> QED  BY <2>5, <3>1, <3>2, <3>3
  <2>7. ASSUME call'[t].at = "ok", d \notin overlapped' PROVE UpOrGone(d)'
    <3>1. ~InCall(t) /\ MarkOverlap(t, d) /\ runtime' = runtime  BY <2>2 DEF Activate
    <3>2. d \notin overlapped /\ ~Busy(d)  BY <2>7, <3>1 DEF MarkOverlap, Busy
    <3>3. SerialOK(d)  BY <1>1, <2>2, <3>2 DEF SerialInv
    <3>4. runtime[d] # None  BY <2>6, <2>7, <3>2, <3>3 DEF SerialOK
    <3> QED  BY <3>1, <3>4 DEF UpOrGone
  <2>8. PlaceOK(t)'  BY <1>4, <1>6, <2>4, <2>6, <2>7 DEF PlaceOK, ActivateStep, Target
  <2> QED  BY <1>1, <1>2, <1>4, <2>3, <2>8, ThreadKeepsList
<1> QED  BY <1>5, <1>6

(* A thread that takes note of an outcome. *)
LEMMA NoteKeepsRest ==
  ASSUME CallsOK, NEW t \in Thread, NoteOutcome(t)
  PROVE  /\ \A d : (Known(d)' <=> Known(d)) /\ (UpOrGone(d) => UpOrGone(d)')
         /\ call'[t] = Idle
         /\ \A u \in Deployer : u # t /\ PlaceOK(u) /\ stage'[u] = stage[u] => PlaceOK(u)'
<1>1. /\ UNCHANGED <<records, runtime, overlapped>> /\ call'[t] = Idle
      /\ \A u \in Thread \ {t} : call'[u] = call[u]
      /\ call[t].at # "bury"
  BY DEF NoteOutcome, CallsOK
<1>2. \A d : (Known(d)' <=> Known(d)) /\ (UpOrGone(d) => UpOrGone(d)')
  BY <1>1 DEF Known, UpOrGone, Target
<1>3. ASSUME NEW u \in Deployer, u # t, PlaceOK(u), stage'[u] = stage[u] PROVE PlaceOK(u)'
  <2>1. call'[u] = call[u]  BY <1>1, <1>3, JitThreads
  <2> QED  BY <1>1, <1>2, <1>3, <2>1 DEF PlaceOK, Target
<1> QED  BY <1>1, <1>2, <1>3

(* A deployer ends with a deployment that it lists, or without one. *)
LEMMA DeployerEndsKeepJit ==
  ASSUME JitInv, NEW t \in Deployer, DeployFail(t) \/ DeployEnlist(t)
  PROVE  JitInv'
<1>1. /\ DepInv /\ CallsOK /\ JitTypeOK /\ ListingIsTrue /\ (\A u \in Deployer : PlaceOK(u)) /\ t \in Thread
      /\ \A d \in Listed : Known(d)
  BY JitThreads DEF JitInv, ListInv, DepInv, DepTypeOK
<1>2. NoteOutcome(t) /\ UNCHANGED <<records, runtime, overlapped>>
  BY DEF NoteOutcome, DeployFail, DeployEnlist
<1>3. DepInv'  BY <1>1, <1>2, NoteKeepsInv
<1>4. PICK s \in {"free", "replenish"} : stage' = [stage EXCEPT ![t] = s]
  BY DEF DeployFail, DeployEnlist
<1>5. ASSUME NEW u \in Deployer PROVE PlaceOK(u)'
  <2>1. stage'[u] = IF u = t THEN s ELSE stage[u]  BY <1>1, <1>4 DEF JitTypeOK
  <2>2. CASE u = t  BY <1>1, <1>2, <2>1, <2>2, NoteKeepsRest DEF PlaceOK
  <2>3. CASE u # t  BY <1>1, <1>2, <2>1, <2>3, NoteKeepsRest
  <2> QED  BY <2>2, <2>3
<1>6. stage' \in [Deployer -> {"free", "slot", "register", "activate", "replenish"}]
  BY <1>1, <1>4 DEF JitTypeOK
<1>7. \A d : (Known(d)' <=> Known(d)) /\ (UpOrGone(d) => UpOrGone(d)')
  BY <1>1, <1>2, NoteKeepsRest
<1>8. CASE DeployFail(t)
  <2>1. UNCHANGED <<jit, index>>  BY <1>8 DEF DeployFail, ttlVars
  <2>2. Listed' = Listed  BY <2>1 DEF Listed
  <2>3. JitTypeOK'  BY <1>1, <1>6, <2>1 DEF JitTypeOK
  <2>4. ListingIsTrue'  BY <1>1, <1>2, <1>7, <2>1, <2>2 DEF ListingIsTrue, UpOrGone
  <2> QED  BY <1>1, <1>3, <1>5, <1>7, <2>2, <2>3, <2>4 DEF JitInv, ListInv
<1>9. CASE DeployEnlist(t)
  <2>1. PICK d : d = Target(t)  OBVIOUS
  <2>2. /\ stage[t] = "activate" /\ call[t].at = "ok" /\ jit' = [jit EXCEPT ![d] = Fresh]
        /\ index' = [n \in Name |-> IF n \in NamesOf(records[d].services) THEN index[n] \cup {d} ELSE index[n]]
    BY <1>9, <2>1 DEF DeployEnlist
  <2>3. Known(d) /\ d \in Id /\ (d \notin overlapped => UpOrGone(d))
    BY <1>1, <2>1, <2>2 DEF PlaceOK, Known
  <2>4. Fresh \in [idle : Nat, life : Nat] /\ Fresh # None
    BY JitAssumption DEF Fresh, JitAssumption
  <2> HIDE DEF Fresh
  <2>5. Listed' = Listed \cup {d}  BY <1>1, <2>2, <2>3, <2>4 DEF JitTypeOK, Listed
  <2>6. JitTypeOK'  BY <1>1, <1>6, <2>2, <2>3, <2>4 DEF JitTypeOK
  <2>7. \A n \in Name : index'[n] = {e \in Listed' : n \in NamesOf(records'[e].services)}
    BY <1>1, <1>2, <2>2, <2>5 DEF ListingIsTrue
  <2>8. \A e \in Listed' \ overlapped' : UpOrGone(e)'
    BY <1>1, <1>2, <1>7, <2>3, <2>5 DEF ListingIsTrue, UpOrGone
  <2>9. ListingIsTrue'  BY <2>7, <2>8 DEF ListingIsTrue, UpOrGone
  <2>10. \A e \in Listed' : Known(e)'  BY <1>1, <1>7, <2>3, <2>5
  <2> QED  BY <1>3, <1>5, <2>6, <2>9, <2>10 DEF JitInv, ListInv
<1> QED  BY <1>8, <1>9

(* The scheduler drops a record, from the index too. *)
LEMMA PopKeepsJit ==
  ASSUME JitInv, PopRecord
  PROVE  JitInv'
<1>1. /\ DepInv /\ CallsOK /\ JitTypeOK /\ ListingIsTrue /\ (\A u \in Deployer : PlaceOK(u))
      /\ \A d \in Listed : Known(d)
  BY DEF JitInv, ListInv, DepInv, DepTypeOK
<1>2. PICK d : d = Target(Reaper)  OBVIOUS
<1>3. /\ NoteOutcome(Reaper) /\ UNCHANGED <<records, runtime, overlapped, stage>>
      /\ jit' = [jit EXCEPT ![d] = None] /\ index' = [n \in Name |-> index[n] \ {d}]
  BY <1>2 DEF NoteOutcome, PopRecord, poolVars
<1>4. DepInv'  BY <1>1, <1>3, JitThreads, NoteKeepsInv
<1>5. ASSUME NEW u \in Deployer PROVE PlaceOK(u)'
  BY <1>1, <1>3, JitThreads, NoteKeepsRest
<1>6. Listed' = Listed \ {d}
  <2>1. \A e \in Id : jit'[e] = IF e = d THEN None ELSE jit[e]  BY <1>1, <1>3 DEF JitTypeOK
  <2> QED  BY <2>1 DEF Listed
<1>7. JitTypeOK'  BY <1>1, <1>3 DEF JitTypeOK
<1>8. \A e : (Known(e)' <=> Known(e)) /\ (UpOrGone(e) => UpOrGone(e)')
  BY <1>1, <1>3, JitThreads, NoteKeepsRest
<1>9. \A n \in Name : index'[n] = {e \in Listed' : n \in NamesOf(records'[e].services)}
  BY <1>1, <1>3, <1>6 DEF ListingIsTrue
<1>10. \A e \in Listed' \ overlapped' : UpOrGone(e)'
  BY <1>1, <1>3, <1>6, <1>8 DEF ListingIsTrue, UpOrGone
<1>11. ListingIsTrue'  BY <1>9, <1>10 DEF ListingIsTrue, UpOrGone
<1> QED  BY <1>1, <1>4, <1>5, <1>6, <1>7, <1>8, <1>11 DEF JitInv, ListInv

(* The steps that leave the manager alone. *)
LEMMA RestKeepsJit ==
  ASSUME JitInv, UNCHANGED depVars,
         \/ \E t \in Deployer : TakeSlot(t) \/ ScheduleReplenish(t)
         \/ WarmSlot \/ (\E n \in Name : TouchFromEvent(n)) \/ (\E d \in Id : TouchDeployment(d))
         \/ Tick \/ ScanExpired \/ Close \/ UNCHANGED jitVars
  PROVE  JitInv'
<1>1. /\ DepInv /\ DepTypeOK /\ SerialInv /\ SocketsInv /\ JitTypeOK /\ ListingIsTrue
      /\ (\A u \in Deployer : PlaceOK(u)) /\ \A d \in Listed : Known(d)
  BY DEF JitInv, ListInv, DepInv
<1>2. DepInv'  BY <1>1, DepStutter, SerialStutter, SocketsStutter DEF DepInv
<1>3. /\ stage' \in [Deployer -> {"free", "slot", "register", "activate", "replenish"}]
      /\ \A u \in Deployer : \/ stage'[u] = stage[u]
                             \/ {stage[u], stage'[u]} \subseteq {"free", "slot", "replenish"}
  <2>1. CASE \E t \in Deployer : TakeSlot(t) \/ ScheduleReplenish(t)
    BY <1>1, <2>1 DEF TakeSlot, ScheduleReplenish, JitTypeOK
  <2>2. CASE UNCHANGED stage  BY <1>1, <2>2 DEF JitTypeOK
  <2> QED
    BY <2>1, <2>2 DEF WarmSlot, TouchFromEvent, TouchDeployment, Tick, ScanExpired, Close, poolVars, jitVars
<1>4. ASSUME NEW u \in Deployer PROVE PlaceOK(u)'
  <2>1. CASE stage'[u] = stage[u]
    BY <1>1, <2>1 DEF PlaceOK, depVars, Known, Target, UpOrGone
  <2>2. CASE {stage[u], stage'[u]} \subseteq {"free", "slot", "replenish"}
    BY <1>1, <2>2 DEF PlaceOK, depVars
  <2> QED  BY <1>3, <2>1, <2>2
<1>5. index' = index /\ jit' \in [Id -> [idle : Nat, life : Nat] \cup {None}] /\ Listed' = Listed
  <2>1. CASE \E d \in Id : TouchDeployment(d)
    <3>1. PICK d \in Id : TouchDeployment(d)  BY <2>1
    <3>2. index' = index /\ (jit' = jit \/ (jit[d] # None /\ jit' = [jit EXCEPT ![d].idle = IdleTTL]))
      BY <3>1 DEF TouchDeployment
    <3>3. CASE jit' = jit  BY <1>1, <3>2, <3>3 DEF JitTypeOK, Listed
    <3>4. CASE jit[d] # None /\ jit' = [jit EXCEPT ![d].idle = IdleTTL]
      <4>1. jit[d] \in [idle : Nat, life : Nat] /\ IdleTTL \in Nat  BY <1>1, <3>4, JitAssumption DEF JitTypeOK, JitAssumption
      <4>2. PICK r : r = [jit[d] EXCEPT !.idle = IdleTTL]  OBVIOUS
      <4>3. r \in [idle : Nat, life : Nat] /\ r # None  BY <4>1, <4>2, JitAssumption DEF JitAssumption
      <4>4. jit' = [jit EXCEPT ![d] = r]  BY <1>1, <3>4, <4>2 DEF JitTypeOK
      <4> QED  BY <1>1, <3>2, <3>4, <4>3, <4>4 DEF JitTypeOK, Listed
    <3> QED  BY <3>2, <3>3, <3>4
  <2>2. CASE Tick
    <3>1. index' = index /\ jit' = [d \in Id |-> IF jit[d] = None THEN None ELSE Older(jit[d])]
      BY <2>2 DEF Tick
    <3>2. ASSUME NEW r \in [idle : Nat, life : Nat]
          PROVE  Older(r) \in [idle : Nat, life : Nat] /\ Older(r) # None
      BY JitAssumption DEF Older, JitAssumption
    <3>3. \A d \in Id : jit[d] # None => Older(jit[d]) \in [idle : Nat, life : Nat] /\ Older(jit[d]) # None
      BY <1>1, <3>2 DEF JitTypeOK
    <3> QED  BY <3>1, <3>3 DEF Listed
  <2>3. CASE UNCHANGED <<jit, index>>  BY <1>1, <2>3 DEF JitTypeOK, Listed
  <2> QED
    BY <2>1, <2>2, <2>3
       DEF TakeSlot, ScheduleReplenish, WarmSlot, TouchFromEvent, ScanExpired, Close, ttlVars, jitVars
<1>6. JitTypeOK'  BY <1>1, <1>3, <1>5 DEF JitTypeOK
<1>7. ListingIsTrue' /\ \A d \in Listed' : Known(d)'
  BY <1>1, <1>5 DEF ListingIsTrue, depVars, Known, Target
<1> QED  BY <1>2, <1>4, <1>6, <1>7 DEF JitInv, ListInv

(* Nothing is deployed and nothing listed. *)
LEMMA JitInitInv == JitInit => JitInv
<1> SUFFICES ASSUME JitInit PROVE JitInv
  OBVIOUS
<1>1. DepInv  BY InitType, SerialInit, SocketsInit DEF JitInit, DepInv
<1>2. Listed = {}  BY DEF JitInit, Listed
<1>3. \A t \in Deployer : PlaceOK(t)  BY JitThreads DEF JitInit, DepInit, PlaceOK
<1>4. JitTypeOK  BY DEF JitInit, JitTypeOK
<1>5. ListingIsTrue  BY <1>2 DEF JitInit, ListingIsTrue
<1> QED  BY <1>1, <1>2, <1>3, <1>4, <1>5 DEF JitInv, ListInv

(* Every step keeps the invariant. *)
LEMMA JitNextKeepsInv ==
  ASSUME JitInv, [JitNext]_vars
  PROVE  JitInv'
<1>1. CASE \E t \in Client : ClientCall(t, SlotHolders) /\ UNCHANGED jitVars
  <2>1. PICK t \in Client : ClientCall(t, SlotHolders) /\ UNCHANGED jitVars  BY <1>1
  <2>2. t \in Thread /\ t \notin Deployer
    BY JitThreads, ConstantsAssumption DEF ConstantsAssumption, Deployer
  <2>3. DepStep(t)  BY <2>1 DEF ClientCall, DepStep
  <2> QED  BY <2>1, <2>2, <2>3, ManagerKeepsJit
<1>2. CASE \E t \in Thread : ThreadStep(t)
  BY <1>2, ManagerKeepsJit DEF ThreadStep, DepStep
<1>3. CASE \E t \in Deployer : TakeSlot(t) \/ ScheduleReplenish(t)
  BY <1>3, RestKeepsJit DEF TakeSlot, ScheduleReplenish
<1>4. CASE \E t \in Deployer : DeployRegister(t) \/ DeployActivate(t) \/ DeployFail(t) \/ DeployEnlist(t)
  BY <1>4, DeployerCallsKeepJit, DeployerEndsKeepJit
<1>5. CASE \E d \in Id : TeardownExpired(d)
  BY <1>5, JitThreads, ManagerKeepsJit DEF TeardownExpired, DepStep
<1>6. CASE PopRecord  BY <1>6, PopKeepsJit
<1>7. CASE \/ WarmSlot \/ (\E n \in Name : TouchFromEvent(n)) \/ (\E d \in Id : TouchDeployment(d))
           \/ Tick \/ ScanExpired \/ Close
  BY <1>7, RestKeepsJit DEF WarmSlot, TouchFromEvent, TouchDeployment, Tick, ScanExpired, Close
<1>8. CASE UNCHANGED vars
  BY <1>8, RestKeepsJit DEF vars
<1> QED
  BY <1>1, <1>2, <1>3, <1>4, <1>5, <1>6, <1>7, <1>8 DEF JitNext, DeployStep, ReaperStep

(* The invariant of the manager with just-in-time deployments. *)
THEOREM JitSafe == JitSpec => []JitInv
BY JitInitInv, JitNextKeepsInv, PTL DEF JitSpec

(* By the index an event reaches every listed deployment of its service and   *)
(* no other, and what is listed is up unless somebody deletes it: however     *)
(* registrations, activations, deletions, expiry and the API interleave.      *)
THEOREM ListingStaysTrue == JitSpec => []ListingIsTrue
<1>1. JitInv => ListingIsTrue  BY DEF JitInv, ListInv
<1> QED  BY <1>1, JitSafe, PTL

(* What the manager promises of records and of sockets holds with            *)
(* just-in-time deployments beside the API.                                  *)
THEOREM JitKeepsManager == JitSpec => [](RecordMatchesRuntime /\ SocketsMatch)
<1>1. JitInv => RecordMatchesRuntime /\ SocketsMatch
  BY SocketsImply DEF JitInv, DepInv, SerialInv, SerialOK, RecordMatchesRuntime
<1> QED  BY <1>1, JitSafe, PTL

----------------------------------------------------------------------------
(* Reservations.  The API registers one manifest at a time, so between the     *)
(* check and the insert nothing else is reserved.                           *)
Apart(d, svcs) == BindsOf(records[d].services) \cap BindsOf(svcs) = {}

ReservedInv ==
  /\ \A t \in Internal : call[t] = Idle
  /\ \A s, t \in Registering : s = t
  /\ \A t \in Thread : call[t].at = "insert" =>
       \A d \in Reserving \ overlapped : Apart(d, call[t].todo)
  /\ ReservationsDisjoint

(* Only an insert adds to what is reserved: a deployment marked active that    *)
(* was not reserved is one whose calls overlapped.                          *)
LEMMA ReservingShrinks ==
  ASSUME DepTypeOK, SerialInv, NEW t \in Thread, DepStep(t), ~InsertRecord(t),
         NEW d \in Reserving', d \notin overlapped'
  PROVE  d \in Reserving \ overlapped /\ records'[d].services = records[d].services
<1>1. /\ CallsOK /\ overlapped \subseteq overlapped' /\ d \in Id
      /\ records \in [Id -> [status : {"none", "pending", "active", "deleted"}, services : {<< >>} \cup Manifest]]
  BY OneThread DEF DepTypeOK, Reserving
<1>2. CASE MarkActive(t)
  <2>1. PICK e : e = Target(t)  OBVIOUS
  <2>2. call[t].at = "mark" /\ records' = [records EXCEPT ![e].status = "active"] /\ overlapped' = overlapped
    BY <1>2, <2>1 DEF MarkActive, SetStatus
  <2>3. e \in Id  BY <1>1, <2>1, <2>2 DEF CallsOK, CallOK, Target, ActivateStep
  <2>4. CASE d = e
    <3>1. Working(t, d) /\ SerialOK(d)
      BY <1>1, <2>1, <2>2, <2>4 DEF Working, InCall, SerialInv
    <3>2. records[d].status = "pending"  BY <2>2, <3>1 DEF SerialOK, StepOK
    <3> QED  BY <1>1, <2>2, <2>3, <2>4, <3>2 DEF Reserving
  <2>5. CASE d # e  BY <1>1, <2>2, <2>3, <2>5 DEF Reserving
  <2> QED  BY <2>4, <2>5
<1>3. CASE BuryRecord(t)
  <2>1. PICK e : e = Target(t)  OBVIOUS
  <2>2. call[t].at = "bury" /\ records' = [records EXCEPT ![e].status = "deleted"]
    BY <1>3, <2>1 DEF BuryRecord, SetStatus
  <2>3. e \in Id  BY <1>1, <2>1, <2>2 DEF CallsOK, CallOK, Target, DeleteStep
  <2> QED  BY <1>1, <2>2, <2>3 DEF Reserving
<1>4. CASE UNCHANGED records  BY <1>1, <1>4 DEF Reserving
<1>5. MarkActive(t) \/ BuryRecord(t) \/ UNCHANGED records
  BY DEF DepStep, Continue, RegisterManifest, Activate, Delete, CheckReservation,
         ValidateActivation, RecheckReservation, AdmitActivation, RevalidateActivation,
         StartService, AbortActivation, CommitActivation, StopService, FailActivation,
         FindDeployment, PurgeDeployment
<1> QED  BY <1>2, <1>3, <1>4, <1>5

(* A registration starts when no other is under way, and none starts else.    *)
LEMMA RegisteringStep ==
  ASSUME DepTypeOK, ReservedInv, NEW t \in Client, ClientCall(t, {}) \/ Continue(t)
  PROVE  /\ \A u \in Thread : u # t => call'[u] = call[u]
         /\ \A r, s \in Registering' : r = s
         /\ \A u \in Thread : call'[u].at = "insert" /\ ~(u = t /\ CheckReservation(t)) =>
                                call'[u] = call[u] /\ ~InsertRecord(t)
<1>1. CallsOK /\ t \in Thread /\ DepStep(t) /\ (\A u \in Thread : u # t => call'[u] = call[u])
      /\ \A r, s \in Registering : r = s
  BY OneThread DEF DepTypeOK, Thread, DepStep, ClientCall, ReservedInv
<1>2. CASE \E m \in Manifest : RegisterManifest(t, m) /\ Registering \cap Client = {}
  <2>1. PICK m \in Manifest : RegisterManifest(t, m) /\ Registering \cap Client = {}  BY <1>2
  <2>2. Registering = {}
    BY <2>1 DEF ReservedInv, Registering, Idle, NewCall, RegisterStep, Thread
  <2>3. call'[t].at \in {"reserve", "idle", "err"} /\ ~InsertRecord(t)
    <3>1. call'[t] = NewCall("reserve", None, m) \/ call'[t] = Outcome(t, "err", Target(t))
      BY <1>1, <2>1 DEF RegisterManifest, Return, CallsOK
    <3>2. ~InsertRecord(t)  BY <2>1 DEF RegisterManifest, InsertRecord, InCall
    <3> QED  BY <3>1, <3>2, NewCallFields, OutcomeFields
  <2> QED  BY <1>1, <2>2, <2>3 DEF Registering, RegisterStep
<1>3. CASE CheckReservation(t)
  <2>1. t \in Registering /\ call[t].at = "reserve"  BY <1>1, <1>3 DEF CheckReservation, Registering, RegisterStep
  <2>2. Registering' \subseteq Registering  BY <1>1, <2>1 DEF Registering
  <2>3. ~InsertRecord(t)  BY <2>1 DEF InsertRecord
  <2> QED  BY <1>1, <1>3, <2>2, <2>3
<1>4. CASE InsertRecord(t)
  <2>1. t \in Registering  BY <1>1, <1>4 DEF InsertRecord, Registering, RegisterStep
  <2>2. call'[t].at = "idle"
    <3>1. \E d \in Id : call'[t] = Outcome(t, "ok", d)  BY <1>1, <1>4 DEF InsertRecord, CallsOK
    <3> QED  BY <3>1 DEF Outcome, Idle, NewCall
  <2>3. \A u \in Thread : u # t => call'[u].at # "insert"
    BY <1>1, <2>1 DEF Registering, RegisterStep
  <2> QED  BY <1>1, <2>1, <2>2, <2>3 DEF Registering, RegisterStep
<1>5. CASE call'[t].at \notin RegisterStep /\ ~InsertRecord(t)
  <2>1. Registering' \subseteq Registering  BY <1>1, <1>5 DEF Registering
  <2> QED  BY <1>1, <1>5, <2>1 DEF RegisterStep
<1>6. CASE \E d \in Id : Activate(t, d) \/ Delete(t, d)
  <2>1. PICK d \in Id : Activate(t, d) \/ Delete(t, d)  BY <1>6
  <2>2. call'[t].at \notin RegisterStep
    <3>1. records[d].status \in {"pending", "active", "deleted"}
      BY <2>1 DEF DepTypeOK, Activate, Delete
    <3>2. \E at \in {"validate", "find", "bury"} : call'[t] = NewCall(at, d, << >>) \/ call'[t] = Idle
      BY <1>1, <2>1, <3>1 DEF Activate, Delete, Outcome, CallsOK
    <3> QED  BY <3>2 DEF NewCall, Idle, RegisterStep
  <2>3. ~InsertRecord(t)  BY <2>1 DEF Activate, Delete, InCall, InsertRecord
  <2> QED  BY <1>5, <2>2, <2>3
<1>7. CASE Continue(t) /\ ~CheckReservation(t) /\ ~InsertRecord(t)
  <2>1. call[t].at \in ActivateStep \cup DeleteStep
    BY <1>7 DEF Continue, ValidateActivation, RecheckReservation, AdmitActivation,
         RevalidateActivation, StartService, AbortActivation, CommitActivation, MarkActive,
         StopService, FailActivation, FindDeployment, PurgeDeployment, BuryRecord,
         ActivateStep, DeleteStep
  <2>2. \/ call'[t] = Idle
        \/ call'[t].at = call[t].at
        \/ call'[t].at \in ActivateStep \cup DeleteStep
    <3>1. CASE \E o \in {"ok", "err"} : Return(t, o)
      BY <1>1, <3>1 DEF Return, CallsOK, Outcome
    <3>2. CASE \E at \in ActivateStep \cup DeleteStep : Goto(t, at)
      BY <1>1, <3>2, MovedOn
    <3>3. CASE call' = [call EXCEPT ![t].at = "start", ![t].todo = records[Target(t)].services]
      BY <1>1, <3>3 DEF ActivateStep, CallsOK, CallRecord
    <3>4. CASE \E at \in {"rollback", "stop"} : \E by :
                 call' = [call EXCEPT ![t].at = at, ![t].by = by, ![t].todo = records[Target(t)].services]
      BY <1>1, <3>4 DEF ActivateStep, DeleteStep, CallsOK, CallRecord
    <3>5. CASE \/ call' = [call EXCEPT ![t].todo = Tail(@)]
               \/ call' = [call EXCEPT ![t].todo = Tail(@), ![t].failed = TRUE]
      BY <1>1, <3>5 DEF CallsOK, CallRecord
    <3> QED
      BY <1>7, <3>1, <3>2, <3>3, <3>4, <3>5
         DEF Continue, ValidateActivation, RecheckReservation, AdmitActivation,
             RevalidateActivation, StartService, AbortActivation, CommitActivation, MarkActive,
             StopService, FailActivation, FindDeployment, PurgeDeployment, BuryRecord,
             ActivateStep, DeleteStep
  <2>3. call'[t].at \notin RegisterStep
    BY <2>1, <2>2 DEF Idle, NewCall, RegisterStep, ActivateStep, DeleteStep
  <2> QED  BY <1>5, <1>7, <2>3
<1> QED  BY <1>2, <1>3, <1>4, <1>6, <1>7 DEF ClientCall

(* Every step through the API keeps the reservations apart. *)
LEMMA ReservedKept ==
  ASSUME DepTypeOK, SerialInv, ReservedInv, [DepNext]_depVars
  PROVE  ReservedInv'
<1>1. CASE UNCHANGED depVars
  BY <1>1 DEF depVars, ReservedInv, Registering, Reserving, Apart, ReservationsDisjoint
<1>2. CASE DepNext
  <2>1. PICK t \in Client : ClientCall(t, {}) \/ Continue(t)  BY <1>2 DEF DepNext
  <2>2. t \in Thread /\ t \notin Internal /\ DepStep(t) /\ CallsOK
    BY <2>1, ConstantsAssumption DEF ConstantsAssumption, Thread, DepStep, ClientCall, DepTypeOK
  <2>3. /\ \A u \in Thread : u # t => call'[u] = call[u]
        /\ \A r, s \in Registering' : r = s
        /\ \A u \in Thread : call'[u].at = "insert" /\ ~(u = t /\ CheckReservation(t)) =>
                                call'[u] = call[u] /\ ~InsertRecord(t)
    BY <2>1, RegisteringStep
  <2>4. \A u \in Internal : call'[u] = Idle  BY <2>2, <2>3 DEF ReservedInv, Thread
  <2>5. ASSUME ~InsertRecord(t), NEW d \in Reserving', d \notin overlapped'
        PROVE  d \in Reserving \ overlapped /\ records'[d].services = records[d].services
    BY <2>2, <2>5, ReservingShrinks
  <2>6. ASSUME NEW u \in Thread, call'[u].at = "insert", NEW d \in Reserving', d \notin overlapped'
        PROVE  Apart(d, call[u].todo)'
    <3>1. CASE u = t /\ CheckReservation(t)
      <4>1. /\ ~ReservedConflict(call[t].todo, None) /\ Goto(t, "insert") /\ UNCHANGED <<records, overlapped>>
        BY <2>2, <2>6, <3>1 DEF CheckReservation, Return, Outcome, Idle, NewCall, CallsOK
      <4>2. call'[t].todo = call[t].todo  BY <2>2, <4>1 DEF Goto, CallsOK, CallRecord
      <4>3. d \in Reserving /\ d # None  BY <2>6, <4>1, IdleIsNoId DEF Reserving
      <4> QED  BY <3>1, <4>1, <4>2, <4>3 DEF ReservedConflict, Apart
    <3>2. CASE ~(u = t /\ CheckReservation(t))
      <4>1. call'[u] = call[u] /\ ~InsertRecord(t)  BY <2>3, <2>6, <3>2
      <4>2. d \in Reserving \ overlapped /\ records'[d].services = records[d].services
        BY <2>5, <2>6, <4>1
      <4> QED  BY <2>6, <4>1, <4>2 DEF ReservedInv, Apart
    <3> QED  BY <3>1, <3>2
  <2>7. ReservationsDisjoint'
    <3>1. CASE ~InsertRecord(t)
      BY <2>5, <3>1 DEF ReservedInv, ReservationsDisjoint
    <3>2. CASE InsertRecord(t)
      <4>1. PICK e \in Id : records[e].status = "none"
                            /\ records' = [records EXCEPT ![e] = [status |-> "pending", services |-> call[t].todo]]
        BY <3>2 DEF InsertRecord
      <4>2. call[t].at = "insert" /\ overlapped' = overlapped  BY <3>2 DEF InsertRecord
      <4>3. /\ records'[e].services = call[t].todo
            /\ \A d \in Id : d # e => records'[d] = records[d]
        BY <4>1 DEF DepTypeOK
      <4>4. \A d \in Reserving' \ overlapped' : d # e => d \in Reserving \ overlapped
        BY <4>2, <4>3 DEF Reserving
      <4>5. \A d \in Reserving' \ overlapped' : d # e => Apart(d, call[t].todo)
        BY <2>2, <4>2, <4>4 DEF ReservedInv
      <4>6. \A d \in Reserving' : d \in Id  BY DEF Reserving
      <4>7. ASSUME NEW d \in Reserving' \ overlapped', NEW f \in Reserving' \ overlapped', d # f
            PROVE  BindsOf(records'[d].services) \cap BindsOf(records'[f].services) = {}
        <5>1. CASE d # e /\ f # e
          BY <4>3, <4>4, <4>6, <4>7, <5>1 DEF ReservedInv, ReservationsDisjoint
        <5>2. CASE d = e
          BY <4>3, <4>5, <4>6, <4>7, <5>2 DEF Apart
        <5>3. CASE f = e
          BY <4>3, <4>5, <4>6, <4>7, <5>3 DEF Apart
        <5> QED  BY <5>1, <5>2, <5>3
      <4> QED  BY <4>7 DEF ReservationsDisjoint
    <3> QED  BY <3>1, <3>2
  <2> QED  BY <2>3, <2>4, <2>6, <2>7 DEF ReservedInv
<1> QED  BY <1>1, <1>2

(* Nothing is reserved. *)
LEMMA ReservedInit == DepInit => ReservedInv
BY DEF DepInit, ReservedInv, Idle, NewCall, Registering, RegisterStep, ReservationsDisjoint, Reserving,
       NoRecord, Thread

(* ApiReservationsDisjoint: through the API, whose registrations do not overlap, no two pending or *)
(* active records claim one binding, so what was registered can be activated. *)
THEOREM ReservationsApart == DeploymentsSpec => []ApiReservationsDisjoint
<1> DEFINE ApiInv == part = "api" => DepTypeOK /\ SerialInv /\ ReservedInv
<1>1. DeploymentsInit => ApiInv
  BY InitType, SerialInit, ReservedInit DEF DeploymentsInit, JitInit
<1>2. ApiInv /\ [DeploymentsNext]_<<vars, part>> => ApiInv'
  <2> SUFFICES ASSUME ApiInv, [DeploymentsNext]_<<vars, part>>, part' = "api"
               PROVE  (DepTypeOK /\ SerialInv /\ ReservedInv)'
    OBVIOUS
  <2>1. part = "api" /\ DepTypeOK /\ SerialInv /\ ReservedInv /\ [DepNext]_depVars
    BY DEF DeploymentsNext, vars
  <2>2. ReservedInv'  BY <2>1, ReservedKept
  <2>3. DepTypeOK' /\ SerialInv'
    <3>1. CASE DepNext  BY <2>1, <3>1, NextIsStep, StepType, SerialInductive DEF Thread
    <3>2. CASE UNCHANGED depVars  BY <2>1, <3>2, DepStutter, SerialStutter
    <3> QED  BY <2>1, <3>1, <3>2
  <2> QED  BY <2>2, <2>3
<1>3. ApiInv => ApiReservationsDisjoint
  BY DEF ApiReservationsDisjoint, ReservedInv
<1> QED  BY <1>1, <1>2, <1>3, PTL DEF DeploymentsSpec
==============================================================================
