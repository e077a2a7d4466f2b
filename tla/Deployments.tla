---------------------------- MODULE Deployments ----------------------------
(***************************************************************************)
(* The runtime deployment lifecycle: EcosystemDeploymentManager            *)
(* (ecosystem/deployment.py) over the Orchestrator's runtime deployments   *)
(* (core/orchestrator.py).  Every call runs on a thread of its own and     *)
(* takes each lock only around single dictionary or list accesses, so a    *)
(* call is a chain of atomic steps; call[t].at says which one is next.     *)
(*                                                                         *)
(* A service is abstracted to its name and its one (host, port) binding;   *)
(* timestamps and last_error, which only reports show, are left out.       *)
(***************************************************************************)
EXTENDS Naturals, Sequences, FiniteSets

CONSTANTS
  Client,     (* API worker threads: they drop the outcome of a call         *)
  Internal,   (* threads of other managers: their caller inspects it         *)
  Id,         (* deployment ids, each drawn at most once (uuid4)             *)
  Name,       (* service names                                               *)
  Binding,    (* (host, port) pairs                                          *)
  Manifest,   (* well-formed manifests: what validate_runtime_services and   *)
              (* parse_config accept before they look at loaded_services     *)
  Baseline,   (* bindings of the services started from the configuration    *)
  None

Service == [name : Name, bind : Binding]
Thread  == Client \cup Internal

BindsOf(svcs) == {svcs[i].bind : i \in DOMAIN svcs}
NamesOf(svcs) == {svcs[i].name : i \in DOMAIN svcs}

ASSUME ConstantsAssumption ==
  /\ Client \cap Internal = {}
  /\ Baseline \subseteq Binding
  /\ None \notin Id \cup Thread \cup Manifest \cup {"config"}
  /\ Manifest \subseteq Seq(Service)
  /\ \A m \in Manifest :
       /\ m # << >>
       /\ \A i, j \in DOMAIN m : i # j => m[i].bind # m[j].bind /\ m[i].name # m[j].name

VARIABLES
  records,    (* _deployments: what the manager knows of each id             *)
  runtime,    (* _runtime_deployments: the thread whose activation is        *)
              (* registered for an id, or None                               *)
  loaded,     (* loaded_services: [bind, dep, by]; dep = None is baseline    *)
  sockets,    (* who listens on each binding: [dep, by] or Free              *)
  call,       (* the pending call of each thread                             *)
  overlapped  (* history: ids on which two calls were ever pending at once   *)

depVars == <<records, runtime, loaded, sockets, call, overlapped>>

Free      == [dep |-> None, by |-> None]
BaseOwner == [dep |-> None, by |-> "config"]
NoRecord  == [status |-> "none", services |-> << >>]

NewCall(at, d, todo) == [at |-> at, id |-> d, todo |-> todo, by |-> None, failed |-> FALSE]
Idle == NewCall("idle", None, << >>)

RegisterStep == {"reserve", "insert"}
ActivateStep == {"validate", "recheck", "admit", "revalidate", "start", "rollback", "mark"}
DeleteStep   == {"find", "stop", "bury"}
Step         == {"idle", "ok", "err"} \cup RegisterStep \cup ActivateStep \cup DeleteStep

InCall(t) == call[t].at \notin {"idle", "ok", "err"}
Target(t) == call[t].id
Reserving == {d \in Id : records[d].status \in {"pending", "active"}}

(* A call on d ends.  A client's request is over; another manager goes on.  *)
Outcome(t, outcome, d) == IF t \in Client THEN Idle ELSE NewCall(outcome, d, << >>)

Goto(t, at)         == call' = [call EXCEPT ![t].at = at]
Return(t, outcome)  == call' = [call EXCEPT ![t] = Outcome(t, outcome, Target(t))]
SetStatus(d, s)     == records' = [records EXCEPT ![d].status = s]

(* validate_runtime_services: requested bindings against loaded_services.   *)
LoadedConflict(svcs) == \E l \in loaded : l.bind \in BindsOf(svcs)

(* _validate_reserved_binding_conflicts, ignoring deployment d.             *)
ReservedConflict(svcs, d) ==
  \E e \in Reserving \ {d} : BindsOf(records[e].services) \cap BindsOf(svcs) # {}

DepInit ==
  /\ records = [d \in Id |-> NoRecord]
  /\ runtime = [d \in Id |-> None]
  /\ loaded  = {[bind |-> b, dep |-> None, by |-> "config"] : b \in Baseline}
  /\ sockets = [b \in Binding |-> IF b \in Baseline THEN BaseOwner ELSE Free]
  /\ call    = [t \in Thread |-> Idle]
  /\ overlapped = {}

----------------------------------------------------------------------------
(* register_manifest *)

Registering == {t \in Thread : call[t].at \in RegisterStep}

RegisterManifest(t, m) ==
  /\ ~InCall(t)
  /\ IF LoadedConflict(m)
     THEN Return(t, "err")
     ELSE call' = [call EXCEPT ![t] = NewCall("reserve", None, m)]
  /\ UNCHANGED <<records, runtime, loaded, sockets, overlapped>>

(* Faulty variant: reserved bindings are not looked at.                     *)
CheckReservationSkipped(t) ==
  /\ call[t].at = "reserve"
  /\ Goto(t, "insert")
  /\ UNCHANGED <<records, runtime, loaded, sockets, overlapped>>

CheckReservation(t) ==
  /\ call[t].at = "reserve"
  /\ IF ReservedConflict(call[t].todo, None) THEN Return(t, "err") ELSE Goto(t, "insert")
  /\ UNCHANGED <<records, runtime, loaded, sockets, overlapped>>

InsertRecord(t) ==
  /\ call[t].at = "insert"
  /\ \E d \in Id :
       /\ records[d].status = "none"
       /\ records' = [records EXCEPT ![d] =
                        [status |-> "pending", services |-> call[t].todo]]
       /\ call' = [call EXCEPT ![t] = Outcome(t, "ok", d)]
  /\ UNCHANGED <<runtime, loaded, sockets, overlapped>>

----------------------------------------------------------------------------
(* activate *)

MarkOverlap(t, d) ==
  overlapped' = IF \E u \in Thread \ {t} : InCall(u) /\ Target(u) = d
                THEN overlapped \cup {d} ELSE overlapped

(* Faulty variant: a deleted record is activated like a pending one.        *)
ActivateDeletedToo(t, d) ==
  /\ ~InCall(t)
  /\ records[d].status \in {"pending", "deleted"}
  /\ call' = [call EXCEPT ![t] = NewCall("validate", d, << >>)]
  /\ MarkOverlap(t, d)
  /\ UNCHANGED <<records, runtime, loaded, sockets>>

Activate(t, d) ==
  /\ ~InCall(t)
  /\ records[d].status # "none"
  /\ call' = [call EXCEPT ![t] =
       CASE records[d].status = "pending" -> NewCall("validate", d, << >>)
         [] records[d].status = "active"  -> Outcome(t, "ok", d)
         [] records[d].status = "deleted" -> Outcome(t, "err", d)]
  /\ MarkOverlap(t, d)
  /\ UNCHANGED <<records, runtime, loaded, sockets>>

ValidateActivation(t) ==
  /\ call[t].at = "validate"
  /\ IF LoadedConflict(records[Target(t)].services)
     THEN Return(t, "err")
     ELSE Goto(t, "recheck")
  /\ UNCHANGED <<records, runtime, loaded, sockets, overlapped>>

RecheckReservation(t) ==
  /\ call[t].at = "recheck"
  /\ IF ReservedConflict(records[Target(t)].services, Target(t))
     THEN Return(t, "err") ELSE Goto(t, "admit")
  /\ UNCHANGED <<records, runtime, loaded, sockets, overlapped>>

(* activate_runtime_deployment: "already active" is read under the lock and *)
(* the lock is released before anything starts.                             *)
AdmitActivation(t) ==
  /\ call[t].at = "admit"
  /\ IF runtime[Target(t)] # None
     THEN Return(t, "err")
     ELSE Goto(t, "revalidate")
  /\ UNCHANGED <<records, runtime, loaded, sockets, overlapped>>

(* The bindings once more, and the emulators: a module that is not allowed  *)
(* or does not import is a PluginError.                                     *)
RevalidateActivation(t) ==
  /\ call[t].at = "revalidate"
  /\ \/ Return(t, "err")
     \/ /\ ~LoadedConflict(records[Target(t)].services)
        /\ call' = [call EXCEPT ![t].at = "start", ![t].todo = records[Target(t)].services]
  /\ UNCHANGED <<records, runtime, loaded, sockets, overlapped>>

(* One emulator.start: it fails when the binding is taken, and may fail for *)
(* a reason of its own; gather(return_exceptions=True) goes on either way.  *)
StartService(t) ==
  LET b == Head(call[t].todo).bind IN
  /\ call[t].at = "start"
  /\ call[t].todo # << >>
  /\ \/ /\ sockets[b] = Free
        /\ sockets' = [sockets EXCEPT ![b] = [dep |-> Target(t), by |-> t]]
        /\ call' = [call EXCEPT ![t].todo = Tail(@)]
     \/ /\ call' = [call EXCEPT ![t].todo = Tail(@), ![t].failed = TRUE]
        /\ UNCHANGED sockets
  /\ UNCHANGED <<records, runtime, loaded, overlapped>>

(* Faulty variant: the services that did start are left running.            *)
AbortActivationNoRollback(t) ==
  /\ call[t].at = "start" /\ call[t].todo = << >> /\ call[t].failed
  /\ Return(t, "err")
  /\ UNCHANGED <<records, runtime, loaded, sockets, overlapped>>

(* Any failure stops the services that did start and gives up.              *)
AbortActivation(t) ==
  /\ call[t].at = "start" /\ call[t].todo = << >> /\ call[t].failed
  /\ call' = [call EXCEPT ![t].at = "rollback", ![t].by = t,
                          ![t].todo = records[Target(t)].services]
  /\ UNCHANGED <<records, runtime, loaded, sockets, overlapped>>

CommitActivation(t) ==
  /\ call[t].at = "start" /\ call[t].todo = << >> /\ ~call[t].failed
  /\ loaded' = loaded \cup {[bind |-> b, dep |-> Target(t), by |-> t] :
                              b \in BindsOf(records[Target(t)].services)}
  /\ runtime' = [runtime EXCEPT ![Target(t)] = t]
  /\ Goto(t, "mark")
  /\ UNCHANGED <<records, sockets, overlapped>>

(* Faulty variant: a status no reader of the record knows.                  *)
MarkRunning(t) ==
  /\ call[t].at = "mark"
  /\ SetStatus(Target(t), "running")
  /\ Return(t, "ok")
  /\ UNCHANGED <<runtime, loaded, sockets, overlapped>>

MarkActive(t) ==
  /\ call[t].at = "mark"
  /\ SetStatus(Target(t), "active")
  /\ Return(t, "ok")
  /\ UNCHANGED <<runtime, loaded, sockets, overlapped>>

(* One emulator.stop, of a rollback or of a deactivation: it closes the     *)
(* socket its own start opened and is a no-op when that is closed already.  *)
StopService(t) ==
  LET b == Head(call[t].todo).bind IN
  /\ call[t].at \in {"rollback", "stop"}
  /\ call[t].todo # << >>
  /\ sockets' = [sockets EXCEPT ![b] =
                   IF @ = [dep |-> Target(t), by |-> call[t].by] THEN Free ELSE @]
  /\ call' = [call EXCEPT ![t].todo = Tail(@)]
  /\ UNCHANGED <<records, runtime, loaded, overlapped>>

(* Faulty variant: the start failure is swallowed.                          *)
FailActivationSwallowed(t) ==
  /\ call[t].at = "rollback" /\ call[t].todo = << >>
  /\ Return(t, "ok")
  /\ UNCHANGED <<records, runtime, loaded, sockets, overlapped>>

FailActivation(t) ==
  /\ call[t].at = "rollback" /\ call[t].todo = << >>
  /\ Return(t, "err")
  /\ UNCHANGED <<records, runtime, loaded, sockets, overlapped>>

----------------------------------------------------------------------------
(* delete *)

(* Faulty variant: an active deployment is marked deleted and left running. *)
DeleteRecordOnly(t, d) ==
  /\ ~InCall(t)
  /\ records[d].status # "none"
  /\ call' = [call EXCEPT ![t] = NewCall("bury", d, << >>)]
  /\ MarkOverlap(t, d)
  /\ UNCHANGED <<records, runtime, loaded, sockets>>

Delete(t, d) ==
  /\ ~InCall(t)
  /\ records[d].status # "none"
  /\ call' = [call EXCEPT ![t] =
       NewCall(IF records[d].status = "active" THEN "find" ELSE "bury", d, << >>)]
  /\ MarkOverlap(t, d)
  /\ UNCHANGED <<records, runtime, loaded, sockets>>

(* deactivate_runtime_deployment: a missing deployment is a KeyError.       *)
FindDeployment(t) ==
  /\ call[t].at = "find"
  /\ IF runtime[Target(t)] = None
     THEN Return(t, "err")
     ELSE call' = [call EXCEPT ![t].at = "stop", ![t].by = runtime[Target(t)],
                               ![t].todo = records[Target(t)].services]
  /\ UNCHANGED <<records, runtime, loaded, sockets, overlapped>>

PurgeDeployment(t) ==
  /\ call[t].at = "stop" /\ call[t].todo = << >>
  /\ loaded' = {l \in loaded : l.dep # Target(t)}
  /\ runtime' = [runtime EXCEPT ![Target(t)] = None]
  /\ Goto(t, "bury")
  /\ UNCHANGED <<records, sockets, overlapped>>

BuryRecord(t) ==
  /\ call[t].at = "bury"
  /\ SetStatus(Target(t), "deleted")
  /\ Return(t, "ok")
  /\ UNCHANGED <<runtime, loaded, sockets, overlapped>>

----------------------------------------------------------------------------
(* Steps of a call already made: the thread simply keeps running.           *)
Continue(t) ==
  \/ CheckReservation(t)   \/ InsertRecord(t)
  \/ ValidateActivation(t) \/ RecheckReservation(t)   \/ AdmitActivation(t)
  \/ RevalidateActivation(t) \/ StartService(t)       \/ AbortActivation(t)
  \/ CommitActivation(t)   \/ MarkActive(t)
  \/ StopService(t)        \/ FailActivation(t)
  \/ FindDeployment(t)     \/ PurgeDeployment(t)      \/ BuryRecord(t)

(* Bound: an id is left for every pending registration, and for every       *)
(* thread that is bound to register.                                        *)
IdsLeft(bound) ==
  Cardinality({d \in Id : records[d].status = "none"}) > Cardinality(Registering \cup bound)

(* The API registers on its event loop, one registration at a time; the     *)
(* other two requests run in the server's thread pool.                      *)
ClientCall(t, bound) ==
  \/ /\ Registering \cap Client = {}
     /\ IdsLeft(bound)
     /\ \E m \in Manifest : RegisterManifest(t, m)
  \/ \E d \in Id : Activate(t, d) \/ Delete(t, d)

DepNext == \E t \in Client : ClientCall(t, {}) \/ Continue(t)

DepSpec == DepInit /\ [][DepNext]_depVars

----------------------------------------------------------------------------
CallRecord == [at : Step, id : Id \cup {None}, todo : Seq(Service),
               by : Thread \cup {None}, failed : BOOLEAN]

CallOK(c) ==
  /\ c \in CallRecord
  /\ c.at \in RegisterStep => c.id = None /\ c.todo \in Manifest
  /\ c.at \in ActivateStep \cup DeleteStep => c.id \in Id

CallsOK == call \in [Thread -> CallRecord] /\ \A t \in Thread : CallOK(call[t])

(* Types, and what is under way: a call works on an id, a registration on a *)
(* manifest that has none yet.                                              *)
DepTypeOK ==
  /\ records \in [Id -> [status : {"none", "pending", "active", "deleted"},
                         services : {<< >>} \cup Manifest]]
  /\ runtime \in [Id -> Thread \cup {None}]
  /\ loaded  \subseteq [bind : Binding, dep : Id \cup {None}, by : Thread \cup {"config"}]
  /\ sockets \in [Binding -> [dep : Id \cup {None}, by : Thread \cup {"config", None}]]
  /\ CallsOK
  /\ overlapped \subseteq Id

Busy(d) == \E t \in Thread : InCall(t) /\ Target(t) = d

(* Between calls, and unless two calls on it once overlapped, a deployment  *)
(* the manager reports active is exactly one the orchestrator is running.   *)
RecordMatchesRuntime ==
  \A d \in Id \ overlapped :
    ~Busy(d) => (records[d].status = "active" <=> runtime[d] # None)

(* A listening socket belongs to a service the orchestrator lists, or to a   *)
(* pending call that will list or stop it; and what it lists is served:      *)
(* every listed service holds its own socket, outside a pending delete -     *)
(* whatever else runs at the same time on other deployments.                *)
SocketsMatch ==
  /\ \A b \in Binding :
       LET o == sockets[b] IN
       o.dep # None /\ o.dep \notin overlapped =>
         \/ [bind |-> b, dep |-> o.dep, by |-> o.by] \in loaded
         \/ \E t \in Thread : Target(t) = o.dep /\ call[t].at \in {"start", "rollback", "stop"}
  /\ \A l \in loaded :
       l.dep \notin overlapped /\ ~(\E t \in Thread : Target(t) = l.dep /\ call[t].at = "stop")
         => sockets[l.bind] = [dep |-> l.dep, by |-> l.by]

(* Registrations made through the API reserve: no two pending or active     *)
(* records claim one binding, so a registered manifest can be activated.    *)
(* (A just-in-time deploy registers on a thread of its own: see             *)
(* JitDeployments, where this does not hold.)                               *)
ReservationsDisjoint ==
  \A d, e \in Reserving \ overlapped :
    d # e => BindsOf(records[d].services) \cap BindsOf(records[e].services) = {}

(* "cannot activate a deleted deployment": no step turns a deleted record   *)
(* into an active one.                                                      *)
DeletedNeverActivated ==
  [][\A d \in Id : records[d].status = "deleted" => records'[d].status # "active"]_depVars

(* The same, for deployments whose calls never overlapped.                  *)
SerialDeletedStaysDeleted ==
  [][\A d \in Id \ overlapped' :
       records[d].status = "deleted" => records'[d].status = "deleted"]_depVars
=============================================================================
