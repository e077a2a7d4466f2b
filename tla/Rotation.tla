------------------------------ MODULE Rotation ------------------------------
(***************************************************************************)
(* The services of the configuration and their rotation with the threat    *)
(* feed (core/orchestrator.py, intel/rotation.py).  A scheduler thread and  *)
(* API threads rotate, at the same time if it happens: each reads the feed, *)
(* looks at the loaded services, and updates, stops and starts emulators    *)
(* outside the lock.  stop_all waits for the scheduler, but not for long.   *)
(*                                                                         *)
(* What a profile sets in the configuration of a service is abstracted to   *)
(* the profile.  A service has one binding of its own, so the emulators a   *)
(* rotation stops or starts together do not meet, and are one step.  A      *)
(* deployment made at run time may take the binding of a service that is    *)
(* not loaded.  Bounds: MaxDisturbances, Instance.                          *)
(***************************************************************************)
EXTENDS Naturals, Sequences, FiniteSets, SequencesExt

CONSTANTS
  Configured,  (* names of the configured services                          *)
  Profile,     (* profiles _select_profile may choose                       *)
  Enabled,     (* the services that are enabled under each profile          *)
  Instance,    (* numbers for emulators                                     *)
  Scheduler,   (* the threat-feed-rotation thread                           *)
  Operator,    (* API threads                                               *)
  Deployment,  (* whoever took a binding at run time                        *)
  MaxDisturbances,
  Nothing

Rotator == Operator \cup {Scheduler}

ASSUME RotationAssumption ==
  /\ IsFiniteSet(Configured) /\ Enabled \in [Profile -> SUBSET Configured]
  /\ Instance \subseteq Nat /\ Scheduler \notin Operator
  /\ Nothing \notin Instance /\ Deployment \notin Instance

VARIABLES
  phase,     (* of the process: from "new" to "stopped"                     *)
  feed,      (* the profile the feed calls for                              *)
  services,  (* loaded_services, those from the configuration               *)
  emulator,  (* of each instance: its service, loaded.config, and the         *)
             (* configuration it runs with                                  *)
  socket,    (* who listens for each service: an instance, a deployment or   *)
             (* Nothing                                                                   *)
  rotation,  (* what each thread does                                       *)
  late,      (* history: a rotation was under way when stop_all stopped      *)
  disturbances

rotationVars == <<phase, feed, services, emulator, socket, rotation, late, disturbances>>

Resting == [at |-> "resting", profile |-> Nothing, known |-> {}, opened |-> {}]
Blank   == [name |-> Nothing, config |-> Nothing, runs |-> Nothing]

RotationInit ==
  /\ phase = "new" /\ feed \in Profile
  /\ services = << >>
  /\ emulator = [i \in Instance |-> Blank]
  /\ socket = [s \in Configured |-> Nothing]
  /\ rotation = [t \in Rotator |-> Resting]
  /\ late = FALSE /\ disturbances = 0

Named(s)  == {i \in Instance : emulator[i].name = s}
Loaded(s) == Named(s) \cap ToSet(services)
Closed(S) == [s \in Configured |-> IF socket[s] \in S THEN Nothing ELSE socket[s]]

(* An emulator that nothing refers to any more.                             *)
Unused == {i \in Instance :
  /\ i \notin ToSet(services) /\ \A s \in Configured : socket[s] # i
  /\ \A t \in Rotator : i \notin rotation[t].known \cup rotation[t].opened}

(* New instances for a set of services, one each, while there are numbers.   *)
Numberings(S) == {f \in [S -> Unused] : \A s, u \in S : s # u => f[s] # f[u]}
Instances(S)  == CHOOSE f \in Numberings(S) : TRUE

(* _build_loaded_service, with the configuration of a profile.              *)
Built(f, p, running) ==
  [i \in Instance |->
     IF \E s \in DOMAIN f : f[s] = i
     THEN [name |-> CHOOSE s \in DOMAIN f : f[s] = i, config |-> p,
           runs |-> IF running THEN p ELSE Nothing]
     ELSE IF i \in Unused THEN Blank ELSE emulator[i]]

----------------------------------------------------------------------------
(* The start and the end of the process.                                    *)

Bootstrap ==
  /\ phase = "new" /\ Numberings(Enabled[feed]) # {}
  /\ LET f == Instances(Enabled[feed]) IN
       /\ emulator' = Built(f, feed, FALSE)
       /\ services' = SetToSeq({f[s] : s \in DOMAIN f})
  /\ phase' = "bootstrapped"
  /\ UNCHANGED <<feed, socket, rotation, late, disturbances>>

(* start_all: a start that fails ends the process.  The API may also serve   *)
(* without the services.                                                    *)
StartAll ==
  /\ phase = "bootstrapped"
  /\ \/ /\ phase' = "started"
        /\ socket' = [s \in Configured |-> IF Loaded(s) = {} THEN Nothing ELSE CHOOSE i \in Loaded(s) : TRUE]
        /\ emulator' = [i \in Instance |->
             IF i \in ToSet(services) THEN [emulator[i] EXCEPT !.runs = emulator[i].config]
                                    ELSE emulator[i]]
     \/ phase' = "unstarted" /\ UNCHANGED <<socket, emulator>>
  /\ UNCHANGED <<feed, services, rotation, late, disturbances>>

StopScheduler ==
  /\ phase = "started"
  /\ phase' = "stopping"
  /\ UNCHANGED <<feed, services, emulator, socket, rotation, late, disturbances>>

(* The scheduler has ended, or was waited for long enough.                  *)
StopAll ==
  /\ phase = "stopping"
  /\ phase' = "stopped"
  /\ socket' = Closed(ToSet(services))
  /\ late' = (\E t \in Rotator : rotation[t] # Resting)
  /\ UNCHANGED <<feed, services, emulator, rotation, disturbances>>

----------------------------------------------------------------------------
(* _rotate_services_from_threat_feed and _reconcile_rotated_services        *)

MayRotate(t) == IF t = Scheduler THEN phase = "started" ELSE phase \in {"started", "unstarted"}

Wanted(t)  == Enabled[rotation[t].profile]
Kept(t)    == {i \in rotation[t].known : emulator[i].name \in Wanted(t)}
ToStop(t)  == rotation[t].known \ Kept(t)
ToStart(t) == Wanted(t) \ {emulator[i].name : i \in rotation[t].known}

Moves(t, at) == rotation' = [rotation EXCEPT ![t].at = at]

ReadFeed(t) ==
  /\ rotation[t] = Resting /\ MayRotate(t)
  /\ rotation' = [rotation EXCEPT ![t].at = "read", ![t].profile = feed]
  /\ UNCHANGED <<phase, feed, services, emulator, socket, late, disturbances>>

(* loaded_by_name: of two services of a name the one listed last.           *)
LookAtLoaded(t) ==
  /\ rotation[t].at = "read"
  /\ rotation' = [rotation EXCEPT ![t].at = "set", ![t].known =
       {services[k] : k \in {k \in DOMAIN services :
          \A l \in DOMAIN services : emulator[services[l]].name = emulator[services[k]].name => l <= k}}]
  /\ UNCHANGED <<phase, feed, services, emulator, socket, late, disturbances>>


SetConfigs(t) ==
  /\ rotation[t].at = "set"
  /\ emulator' = [i \in Instance |->
       IF i \in Kept(t) THEN [emulator[i] EXCEPT !.config = rotation[t].profile] ELSE emulator[i]]
  /\ Moves(t, "apply")
  /\ UNCHANGED <<phase, feed, services, socket, late, disturbances>>

(* apply_runtime_config; one that raises is logged and leaves the service with *)
(* what it ran with, or with a mixture of the two.                           *)
ApplyConfigs(t) ==
  /\ rotation[t].at = "apply"
  /\ \E failed \in SUBSET Kept(t), mixed \in SUBSET Kept(t) :
       /\ mixed \subseteq failed
       /\ disturbances' = disturbances + (IF failed = {} THEN 0 ELSE 1)
       /\ disturbances' <= MaxDisturbances
       /\ emulator' = [i \in Instance |->
            IF i \in mixed THEN [emulator[i] EXCEPT !.runs = Nothing]
            ELSE IF i \in Kept(t) \ failed THEN [emulator[i] EXCEPT !.runs = rotation[t].profile]
            ELSE emulator[i]]
  /\ Moves(t, "stop")
  /\ UNCHANGED <<phase, feed, services, socket, late>>

StopServices(t) ==
  /\ rotation[t].at = "stop"
  /\ socket' = Closed(ToStop(t))
  /\ Moves(t, "unlist")
  /\ UNCHANGED <<phase, feed, services, emulator, late, disturbances>>

(* Faulty variant: what was stopped stays listed.                           *)
UnlistNothing(t) ==
  /\ rotation[t].at = "unlist"
  /\ Moves(t, "start")
  /\ UNCHANGED <<phase, feed, services, emulator, socket, late, disturbances>>

(* The others stay, in their order.                                         *)
Staying(t) == {k \in DOMAIN services : services[k] \notin ToStop(t)}

Unlist(t) ==
  LET place(k) == CHOOSE i \in Staying(t) : Cardinality({j \in Staying(t) : j <= i}) = k IN
  /\ rotation[t].at = "unlist"
  /\ services' = [k \in 1 .. Cardinality(Staying(t)) |-> services[place(k)]]
  /\ Moves(t, "start")
  /\ UNCHANGED <<phase, feed, emulator, socket, late, disturbances>>

(* A start fails when the binding is taken, or for a reason of its own.     *)
StartServices(t) ==
  /\ rotation[t].at = "start"
  /\ \E ok \in SUBSET {s \in ToStart(t) : socket[s] = Nothing} :
       LET f == Instances(ok)
           failed == Cardinality({s \in ToStart(t) \ ok : socket[s] = Nothing}) IN
       /\ Numberings(ok) # {} /\ disturbances + failed <= MaxDisturbances
       /\ disturbances' = disturbances + failed
       /\ emulator' = Built(f, rotation[t].profile, TRUE)
       /\ socket' = [s \in Configured |-> IF s \in ok THEN f[s] ELSE socket[s]]
       /\ rotation' = [rotation EXCEPT ![t].at = "list", ![t].opened = {f[s] : s \in ok}]
  /\ UNCHANGED <<phase, feed, services, late>>

List(t) ==
  /\ rotation[t].at = "list"
  /\ services' = services \o SetToSeq(rotation[t].opened)
  /\ rotation' = [rotation EXCEPT ![t] = Resting]
  /\ UNCHANGED <<phase, feed, emulator, socket, late, disturbances>>

----------------------------------------------------------------------------
(* The world: the feed changes; a deployment takes or gives back a binding   *)
(* that no loaded service has.                                              *)
FeedChanges ==
  /\ disturbances < MaxDisturbances /\ disturbances' = disturbances + 1
  /\ feed' \in Profile \ {feed}
  /\ UNCHANGED <<phase, services, emulator, socket, rotation, late>>

Occupy(s) ==
  /\ phase \in {"started", "unstarted"} /\ socket[s] = Nothing /\ Loaded(s) = {}
  /\ disturbances < MaxDisturbances /\ disturbances' = disturbances + 1
  /\ socket' = [socket EXCEPT ![s] = Deployment]
  /\ UNCHANGED <<phase, feed, services, emulator, rotation, late>>

Vacate(s) ==
  /\ socket[s] = Deployment
  /\ socket' = [socket EXCEPT ![s] = Nothing]
  /\ UNCHANGED <<phase, feed, services, emulator, rotation, late, disturbances>>

RotationSteps(t) ==
  \/ LookAtLoaded(t) \/ SetConfigs(t) \/ ApplyConfigs(t) \/ StopServices(t)
  \/ Unlist(t) \/ StartServices(t) \/ List(t)

RotationNext ==
  \/ Bootstrap \/ StartAll \/ StopScheduler \/ StopAll \/ FeedChanges
  \/ \E s \in Configured : Occupy(s) \/ Vacate(s)
  \/ \E t \in Rotator : ReadFeed(t) \/ RotationSteps(t)

(* Threads run, and the scheduler rotates after every interval.             *)
RotationFairness ==
  /\ WF_rotationVars(ReadFeed(Scheduler))
  /\ \A t \in Rotator : WF_rotationVars(RotationSteps(t))

RotationSpec == RotationInit /\ [][RotationNext]_rotationVars /\ RotationFairness

----------------------------------------------------------------------------
AboutToUnlist(i) == \E t \in Rotator : rotation[t].at = "unlist" /\ i \in ToStop(t)
AboutToList(i)   == \E t \in Rotator : i \in rotation[t].opened

(* However rotations overlap: what listens is loaded or about to be listed,    *)
(* what is loaded listens or is about to be unlisted, and so is one of two     *)
(* loaded services of a name.  After stop_all nothing listens, unless a      *)
(* rotation was still under way.                                            *)
ServicesMatch ==
  /\ \A s \in Configured : socket[s] \in Instance =>
       emulator[socket[s]].name = s /\ (socket[s] \in ToSet(services) \/ AboutToList(socket[s]))
  /\ phase \in {"started", "stopping"} =>
       \A i \in ToSet(services) : socket[emulator[i].name] = i \/ AboutToUnlist(i)
  /\ phase # "stopped" =>
       \A i, j \in ToSet(services) : i # j /\ emulator[i].name = emulator[j].name =>
         AboutToUnlist(i) \/ AboutToUnlist(j)
  /\ phase = "stopped" /\ ~late => \A s \in Configured : socket[s] \notin Instance

(* Rotations that overlapped, starts that failed and bindings that were      *)
(* taken are made good: once the feed is steady, the services that run and   *)
(* the configurations they report and run with become those it calls for.   *)
FollowsFeed ==
  /\ \A i \in ToSet(services) : emulator[i] =
       [name |-> emulator[i].name, config |-> feed, runs |-> feed]
  /\ \A s \in Configured :
       IF s \in Enabled[feed] THEN socket[s] \in ToSet(services) \cup {Deployment}
                              ELSE Loaded(s) = {} /\ socket[s] \notin Instance

=============================================================================
