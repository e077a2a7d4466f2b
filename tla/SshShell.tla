------------------------------- MODULE SshShell -------------------------------
(*****************************************************************************)
(* The dialogue of the SSH emulator (services/ssh/emulator.py): a login that *)
(* fails a number of times, then commands against a working directory.  The  *)
(* directories of all sessions are in one dictionary of limited size in the  *)
(* order of use; a thread finds its state under a lock and uses it without,  *)
(* and a stop clears the dictionary under the threads.                       *)
(*                                                                           *)
(* Every connection is a session of its own.  What a command prints is left  *)
(* out.  Bounds: MaxCommands of a connection.                                *)
(*****************************************************************************)
EXTENDS ConnectionServer

CONSTANTS
  Directory,     (* known directories                                        *)
  Home,          (* the one a session begins in                              *)
  MaxStates,     (* _MAX_SHELL_STATES                                        *)
  MaxCommands

ASSUME SshAssumption ==
  Home \in Directory /\ MaxStates \in Nat \ {0} /\ MaxCommands \in Nat

VARIABLES
  shell,    (* of every connection: its place, login attempts and commands   *)
  states,   (* _shell_state: sessions in the order of use                    *)
  cwd,      (* of every session: the directory in its state                  *)
  said,     (* history: the directory the last cd went to                    *)
  others,   (* history: sessions that used their state since it did          *)
  cleared   (* history: sessions whose state a stop cleared since            *)

shellVars == <<serverVars, shell, states, cwd, said, others, cleared>>

ShellInit ==
  /\ ServerInit
  /\ shell = [c \in Connection |-> [at |-> "login", tries |-> 0, commands |-> 0]]
  /\ states = << >>
  /\ cwd  = [c \in Connection |-> Home]
  /\ said = [c \in Connection |-> Home]
  /\ others = [c \in Connection |-> {}]
  /\ cleared = {}

(* A user name and a password: recorded, and refused the first times.        *)
Login(c) ==
  /\ Open(c) /\ shell[c].at = "login"
  /\ shell' = [shell EXCEPT ![c].tries = @ + 1,
                            ![c].at = IF shell[c].tries + 1 <= Failures THEN "login" ELSE "prompt"]
  /\ UNCHANGED <<serverVars, states, cwd, said, others, cleared>>

(* exit, an empty line, a timeout or the end of the connection.              *)
Leave(c) ==
  /\ shell[c].at \in {"login", "prompt"}
  /\ EndHandler(c)
  /\ shell' = [shell EXCEPT ![c] = [at |-> "left", tries |-> 0, commands |-> 0]]
  /\ UNCHANGED <<states, cwd, said, others, cleared>>

(* What is found in the dictionary, or begun there.                           *)
Found(c) == IF c \in Listed(states) THEN cwd[c] ELSE Home

(* _session_shell_state for the next command, under the lock.                *)
FindState(c) ==
  /\ Open(c) /\ shell[c].at = "prompt" /\ shell[c].commands < MaxCommands
  /\ states' = Used(states, c, MaxStates)
  /\ cwd' = [cwd EXCEPT ![c] = Found(c)] /\ said' = [said EXCEPT ![c] = Found(c)]
  /\ others' = [o \in Connection |-> IF o = c THEN {} ELSE others[o] \cup {c}]
  /\ cleared' = cleared \ {c}
  /\ shell' = [shell EXCEPT ![c].at = "command", ![c].commands = @ + 1]
  /\ UNCHANGED serverVars

(* _render_command with that state: cd to a known directory writes to it,    *)
(* which is in vain when it is not in the dictionary any more.               *)
RunCommand(c) ==
  /\ Open(c) /\ shell[c].at = "command"
  /\ \/ \E d \in Directory :
          /\ said' = [said EXCEPT ![c] = d]
          /\ cwd' = IF c \in Listed(states) THEN [cwd EXCEPT ![c] = d] ELSE cwd
     \/ UNCHANGED <<cwd, said>>
  /\ shell' = [shell EXCEPT ![c].at = "prompt"]
  /\ UNCHANGED <<serverVars, states, others, cleared>>

StopShell ==
  /\ CloseServer
  /\ states' = << >>
  /\ cleared' = cleared \cup Listed(states)
  /\ UNCHANGED <<shell, cwd, said, others>>

ShellStep(c) == Login(c) \/ Leave(c) \/ FindState(c) \/ RunCommand(c)

ShellNext ==
  \/ ServerStep /\ UNCHANGED <<shell, states, cwd, said, others, cleared>>
  \/ \E c \in Connection : ShellStep(c)
  \/ StopShell

ShellSpec == ShellInit /\ [][ShellNext]_shellVars

-----------------------------------------------------------------------------
(* A session finds the directory its last cd went to.  It will be back at   *)
(* home only after the limit's worth of other sessions ran a command since   *)
(* its own last one, or a stop: no state goes while others are idle for      *)
(* longer, and no cd is lost in a state that is found again.                 *)
ForgetsOnlyIdle ==
  /\ Len(states) <= MaxStates /\ Cardinality(Listed(states)) = Len(states)
  /\ \A c \in Connection :
       Found(c) # said[c] => c \in cleared \/ Cardinality(others[c]) >= MaxStates
=============================================================================
