------------------------------ MODULE HttpLogin ------------------------------
(*****************************************************************************)
(* The requests of the HTTP emulator (services/http/emulator.py): a POST to  *)
(* a login route is refused until the session has failed a number of times.  *)
(* The session is a cookie of the client's choice, so threads of one session *)
(* run side by side; each reads its failures, waits as long as they call     *)
(* for, and only then counts its own.  The counters are in a dictionary of   *)
(* limited size in the order of use that a stop clears.  A stream holds its  *)
(* connection until it ends or the client goes.                              *)
(*                                                                           *)
(* A connection is one request; what its pages show is left out.             *)
(*****************************************************************************)
EXTENDS ConnectionServer

CONSTANTS
  Session,       (* values of the cookie CPSESSID                            *)
  MaxTracked     (* _MAX_AUTH_ATTEMPTS_TRACKED                               *)

ASSUME HttpAssumption == MaxTracked \in Nat \ {0}

VARIABLES
  visit,   (* of every connection: its session and its place               *)
  tracked,   (* _auth_attempts: sessions in the order of use                 *)
  attempts,  (* _auth_attempts: of every session its count                   *)
  refused,   (* history: requests refused since its counter last began       *)
  admitted,  (* history: sessions let in since then                          *)
  since      (* history: sessions counted since a session was                *)

httpVars == <<serverVars, visit, tracked, attempts, refused, admitted, since>>

HttpInit ==
  /\ ServerInit
  /\ visit = [c \in Connection |-> [at |-> "new"]]
  /\ tracked = << >>
  /\ attempts = [s \in Session |-> 0]
  /\ refused = [s \in Session |-> {}]
  /\ admitted = {}
  /\ since = [s \in Session |-> {}]

Counted(s) == IF s \in Listed(tracked) THEN attempts[s] ELSE 0

(* _route_post: _auth_should_reject reads the count under the lock.          *)
CheckLogin(c, s) ==
  /\ Open(c) /\ visit[c].at = "new"
  /\ IF Counted(s) < Failures
     THEN visit' = [visit EXCEPT ![c] = [at |-> "delay", session |-> s]] /\ UNCHANGED admitted
     ELSE /\ visit' = [visit EXCEPT ![c] = [at |-> "answer", session |-> s]]
          /\ admitted' = admitted \cup {s}
  /\ UNCHANGED <<serverVars, tracked, attempts, refused, since>>

(* After its delay the failure is counted under the lock.                    *)
CountFailure(c) ==
  LET s == visit[c].session IN
  /\ Open(c) /\ visit[c].at = "delay"
  /\ visit' = [visit EXCEPT ![c].at = "answer"]
  /\ tracked' = Used(tracked, s, MaxTracked)
  /\ attempts' = [attempts EXCEPT ![s] = Counted(s) + 1]
  /\ refused' = [refused EXCEPT ![s] = IF Counted(s) = 0 THEN {c} ELSE @ \cup {c}]
  /\ admitted' = IF Counted(s) = 0 THEN admitted \ {s} ELSE admitted
  /\ since' = [r \in Session |-> IF r = s THEN {} ELSE since[r] \cup {s}]
  /\ UNCHANGED serverVars

(* The answer is written - or the client is gone.                            *)
AnswerLogin(c) ==
  /\ visit[c].at = "answer"
  /\ EndHandler(c)
  /\ visit' = [visit EXCEPT ![c].at = "ended"]
  /\ UNCHANGED <<tracked, attempts, refused, admitted, since>>

(* Any other request, which for a stream (_respond_backup_stream and          *)
(* _respond_infinite_exfil_stream) may take its time: to its end, or until a *)
(* write fails.                                                              *)
EndOther(c) ==
  /\ visit[c].at = "new"
  /\ EndHandler(c)
  /\ visit' = [visit EXCEPT ![c].at = "ended"]
  /\ UNCHANGED <<tracked, attempts, refused, admitted, since>>

StopHttp ==
  /\ CloseServer
  /\ tracked' = << >>
  /\ refused' = [s \in Session |-> {}] /\ admitted' = {}
  /\ since' = [s \in Session |-> {}]
  /\ UNCHANGED <<visit, attempts>>

RequestStep(c) ==
  (\E s \in Session : CheckLogin(c, s)) \/ CountFailure(c) \/ AnswerLogin(c) \/ EndOther(c)

HttpNext ==
  \/ /\ ServerStep
     /\ UNCHANGED <<visit, tracked, attempts, refused, admitted, since>>
  \/ \E c \in Connection : RequestStep(c)
  \/ StopHttp

HttpSpec == HttpInit /\ [][HttpNext]_httpVars

-----------------------------------------------------------------------------
(* However the threads of a session overlap, each of its refusals is counted *)
(* once; a session that was let in has been refused often enough for it; and *)
(* a counter is dropped only when as many other sessions as the dictionary   *)
(* holds were refused since it last counted.                                 *)
AdmitsAfterFailures ==
  \A s \in Session :
    /\ IF s \in Listed(tracked) THEN attempts[s] = Cardinality(refused[s])
       ELSE refused[s] = {} \/ Cardinality(since[s]) >= MaxTracked
    /\ s \in admitted => Cardinality(refused[s]) >= Failures
=============================================================================
