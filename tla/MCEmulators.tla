----------------------------- MODULE MCEmulators -----------------------------
(* Emulators with threads per connection: SSH, HTTP or the vulnerable LLM.   *)
(* They share nothing.  Four connections, of which SSH takes three and the   *)
(* LLM three as its requests, of two visitors; one slot less than SSH has    *)
(* connections.                                                             *)
EXTENDS SshShell, HttpLogin, PersonaTraps, TLC

CONSTANTS home, etc, env, config, jailbreak, chat, db, aws, marker

VARIABLE part

Directories == {home, etc}

(* One file shows a token of a session and one of a request, the other one   *)
(* of a session; a canary response needs those of the install and a session. *)
Asks      == {env, config, jailbreak, chat}
TokensOf  == (env :> <<db, aws>>) @@ (config :> <<db>>) @@ (jailbreak :> <<marker, db>>) @@ (chat :> << >>)
FileReads == {env, config}

EmulatorSymmetry == Permutations(Connection) \cup Permutations(Session)

EmulatorsInit ==
  /\ ShellInit /\ HttpInit /\ TrapsInit
  /\ part \in {"ssh", "http", "traps"}

(* No more than n of them take part.                                         *)
AtMost(n, f) == Cardinality({c \in DOMAIN f : f[c].at # "new"}) <= n

(* The visitors who asked something.                                         *)
Asking == {request[r].session : r \in {q \in Request : request[q].at # "new"}}

emulatorsVars == <<shellVars, httpVars, trapVars, part>>

EmulatorsNext ==
  /\ UNCHANGED part
  /\ \/ /\ part = "ssh" /\ ShellNext
        /\ UNCHANGED <<visit, tracked, attempts, refused, admitted, since, trapVars>>
        /\ AtMost(3, conn')
     \/ /\ part = "http" /\ HttpNext
        /\ UNCHANGED <<shell, states, cwd, said, others, cleared, trapVars>>
     \/ /\ part = "traps" /\ TrapsNext /\ UNCHANGED <<shellVars, httpVars>>
        /\ AtMost(3, request') /\ Cardinality(Asking') <= 2

EmulatorsSpec == EmulatorsInit /\ [][EmulatorsNext]_emulatorsVars
=============================================================================
