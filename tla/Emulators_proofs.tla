----------------------------- MODULE Emulators_proofs -----------------------------
(*****************************************************************************)
(* Proofs about the emulators.  Whatever a handler does, the server it runs on*)
(* keeps its slots: the server is proved about once, and the SSH and the HTTP*)
(* emulator implement its specification.  What a shell, a login and a persona*)
(* remember of a visitor is kept while it is used, and no answer shows a token*)
(* that was not reported for its session.                                    *)
(*****************************************************************************)
EXTENDS SshShell, HttpLogin, PersonaTraps, RecentUse_proofs

(* Where connections and servers can be.  What the slots are counted from is *)
(* finite, however many connections there are.                               *)
Place == [at : {"new", "accepting", "open", "gone"}, of : 0 .. MaxStarts]

ServerTypeOK ==
  /\ server \in 0 .. MaxStarts /\ stage \in {"up", "stopping", "down"}
  /\ free \in [1 .. MaxStarts -> Nat]
  /\ conn \in [Connection -> Place]

Busy(c) == conn[c].at \in {"accepting", "open"}

ServerInv ==
  /\ ServerTypeOK
  /\ stage = "up" => server # 0
  /\ \A c \in Connection : Busy(c) => conn[c].of \in 1 .. server
  /\ \A n \in 1 .. server : IsFiniteSet(Holds(n))
  /\ SlotsKept

(* One connection more is held: by server n, which had a free slot for it.   *)
LEMMA Taken ==
  ASSUME NEW held, IsFiniteSet(held), NEW c, c \notin held,
         NEW slots \in Nat, slots > 0, slots + Cardinality(held) = Slots
  PROVE  /\ IsFiniteSet(held \cup {c})
         /\ slots - 1 + Cardinality(held \cup {c}) = Slots
  <1>1. IsFiniteSet(held \cup {c}) /\ Cardinality(held \cup {c}) = Cardinality(held) + 1
    BY FS_AddElement
  <1>2. Cardinality(held) \in Nat
    BY FS_CardinalityType
  <1> QED
    BY <1>1, <1>2

(* One connection less.                                                      *)
LEMMA GivenBack ==
  ASSUME NEW held, IsFiniteSet(held), NEW c \in held,
         NEW slots \in Nat, slots + Cardinality(held) = Slots
  PROVE  /\ IsFiniteSet(held \ {c})
         /\ slots + 1 + Cardinality(held \ {c}) = Slots
  <1>1. IsFiniteSet(held \ {c}) /\ Cardinality(held \ {c}) = Cardinality(held) - 1
    BY FS_RemoveElement
  <1>2. Cardinality(held) \in Nat
    BY FS_CardinalityType
  <1> QED
    BY <1>1, <1>2

(* A handler that ends, or never begins, gives its slot to its own server.   *)
LEMMA EndKeepsInv ==
  ASSUME ServerInv, NEW c \in Connection, Busy(c),
         conn' = [conn EXCEPT ![c] = Gone],
         free' = [free EXCEPT ![conn[c].of] = @ + 1],
         UNCHANGED <<server, stage>>
  PROVE  ServerInv'
  <1> USE ServerAssumption
  <1>1. PICK m \in 1 .. server : m = conn[c].of /\ m \in 1 .. MaxStarts /\ m # 0
    BY DEF ServerInv, ServerTypeOK
  <1>2. ServerTypeOK'
    BY <1>1 DEF ServerInv, ServerTypeOK, Place, Gone
  <1>3. \A d \in Connection : Busy(d)' => d # c /\ conn'[d] = conn[d] /\ Busy(d)
    BY DEF ServerInv, ServerTypeOK, Busy, Gone
  <1>4. Holds(m)' = Holds(m) \ {c} /\ c \in Holds(m)
    BY <1>1 DEF Holds, Busy, Gone, ServerInv, ServerTypeOK
  <1>5. \A n \in 1 .. server : n # m => Holds(n)' = Holds(n) /\ free'[n] = free[n]
    BY <1>1 DEF Holds, Gone, ServerInv, ServerTypeOK
  <1>6. free'[m] = free[m] + 1 /\ free[m] \in Nat
    BY <1>1 DEF ServerInv, ServerTypeOK
  <1>7. IsFiniteSet(Holds(m) \ {c}) /\ free[m] + 1 + Cardinality(Holds(m) \ {c}) = Slots
    BY <1>1, <1>4, <1>6, GivenBack DEF ServerInv, SlotsKept
  <1>8. \A n \in 1 .. server' :
          IsFiniteSet(Holds(n)') /\ free'[n] + Cardinality(Holds(n)') = Slots
    BY <1>4, <1>5, <1>6, <1>7 DEF ServerInv, SlotsKept
  <1> QED
    BY <1>2, <1>3, <1>8 DEF ServerInv, SlotsKept

(* A new connection takes a slot of the latest server, or is closed.         *)
LEMMA AcceptKeepsInv ==
  ASSUME ServerInv, NEW c \in Connection, Accept(c)
  PROVE  ServerInv'
  <1> USE ServerAssumption
  <1>1. server \in 1 .. MaxStarts /\ server \in 1 .. server /\ ~Busy(c) /\ free[server] \in Nat
    BY DEF Accept, ServerInv, ServerTypeOK, Busy
  <1>2. CASE free[server] > 0
    <2>1. /\ free' = [free EXCEPT ![server] = @ - 1]
          /\ conn' = [conn EXCEPT ![c] = [at |-> "accepting", of |-> server]]
          /\ server' = server /\ stage' = stage
      BY <1>2 DEF Accept
    <2>2. ServerTypeOK'
      BY <1>1, <1>2, <2>1 DEF ServerInv, ServerTypeOK, Place
    <2>3. \A d \in Connection : Busy(d)' => conn'[d].of \in 1 .. server
      BY <1>1, <2>1 DEF ServerInv, ServerTypeOK, Busy
    <2>4. Holds(server)' = Holds(server) \cup {c} /\ c \notin Holds(server)
      BY <1>1, <2>1 DEF Holds, Busy, ServerInv, ServerTypeOK
    <2>5. \A n \in 1 .. server : n # server => Holds(n)' = Holds(n) /\ free'[n] = free[n]
      BY <1>1, <2>1 DEF Holds, Busy, ServerInv, ServerTypeOK
    <2>6. /\ IsFiniteSet(Holds(server) \cup {c})
          /\ free[server] - 1 + Cardinality(Holds(server) \cup {c}) = Slots
      BY <1>1, <1>2, <2>4, Taken DEF ServerInv, SlotsKept
    <2>7. free'[server] = free[server] - 1
      BY <1>1, <2>1 DEF ServerInv, ServerTypeOK
    <2>8. \A n \in 1 .. server' :
            IsFiniteSet(Holds(n)') /\ free'[n] + Cardinality(Holds(n)') = Slots
      BY <2>1, <2>4, <2>5, <2>6, <2>7 DEF ServerInv, SlotsKept
    <2> QED
      BY <1>1, <2>1, <2>2, <2>3, <2>8 DEF ServerInv, SlotsKept
  <1>3. CASE ~(free[server] > 0)
    <2>1. conn' = [conn EXCEPT ![c] = Gone] /\ UNCHANGED <<server, stage, free>>
      BY <1>3 DEF Accept
    <2>2. ServerTypeOK'
      BY <2>1 DEF ServerInv, ServerTypeOK, Place, Gone
    <2>3. \A d \in Connection : Busy(d)' => Busy(d) /\ conn'[d] = conn[d]
      BY <2>1 DEF ServerInv, ServerTypeOK, Busy, Gone
    <2>4. \A n \in 1 .. server : Holds(n)' = Holds(n)
      BY <1>1, <2>1 DEF Holds, Busy, Gone, ServerInv, ServerTypeOK
    <2> QED
      BY <2>1, <2>2, <2>3, <2>4 DEF ServerInv, SlotsKept
  <1> QED
    BY <1>2, <1>3

(* A new server begins with all its slots, which no connection has.          *)
LEMMA StartKeepsInv ==
  ASSUME ServerInv, StartServer
  PROVE  ServerInv'
  <1> USE ServerAssumption
  <1>0. server \in Nat /\ server + 1 \in 1 .. MaxStarts
    BY DEF StartServer, ServerInv, ServerTypeOK
  <1>1. PICK next \in 1 .. MaxStarts :
          /\ next = server + 1 /\ server' = next /\ stage' = "up"
          /\ free' = [free EXCEPT ![next] = Slots] /\ conn' = conn
    <2> DEFINE next == server + 1
    <2> next \in 1 .. MaxStarts
      BY <1>0
    <2> WITNESS next \in 1 .. MaxStarts
    <2> QED
      BY DEF StartServer
  <1>2. ServerTypeOK'
    BY <1>1 DEF ServerInv, ServerTypeOK
  <1>3. \A n \in 1 .. server : Holds(n)' = Holds(n) /\ free'[n] = free[n]
    BY <1>1 DEF Holds, ServerInv, ServerTypeOK
  <1>4. Holds(next)' = {}
    BY <1>1 DEF Holds, ServerInv, ServerTypeOK, Busy
  <1>5. free'[next] = Slots
    BY <1>1 DEF ServerInv, ServerTypeOK
  <1>6. \A n \in 1 .. server' :
          IsFiniteSet(Holds(n)') /\ free'[n] + Cardinality(Holds(n)') = Slots
    <2> SUFFICES ASSUME NEW n \in 1 .. server'
                 PROVE  IsFiniteSet(Holds(n)') /\ free'[n] + Cardinality(Holds(n)') = Slots
      OBVIOUS
    <2>1. CASE n = next
      BY <1>4, <1>5, <2>1, FS_EmptySet
    <2>2. CASE n # next
      <3>1. n \in 1 .. server
        BY <1>0, <1>1, <2>2
      <3> QED
        BY <1>3, <3>1 DEF ServerInv, SlotsKept
    <2> QED
      BY <2>1, <2>2
  <1>7. \A c \in Connection : Busy(c)' => conn'[c].of \in 1 .. server'
    BY <1>1 DEF ServerInv, ServerTypeOK, Busy
  <1> QED
    BY <1>0, <1>1, <1>2, <1>6, <1>7 DEF ServerInv, SlotsKept

(* Steps that leave the slots and their holders alone.                       *)
LEMMA SameHolders ==
  ASSUME ServerInv, ServerTypeOK', UNCHANGED <<server, free>>, stage' = "up" => stage = "up",
         \A c \in Connection : conn'[c].of = conn[c].of /\ (Busy(c)' <=> Busy(c))
  PROVE  ServerInv'
  <1>1. \A n \in 1 .. server : Holds(n)' = Holds(n)
    BY DEF Holds, Busy
  <1> QED
    BY <1>1 DEF ServerInv, SlotsKept

(* No step of a server breaks its invariant.                                 *)
LEMMA ServerStepKeepsInv ==
  ServerInv /\ [ServerNext]_serverVars => ServerInv'
  <1> SUFFICES ASSUME ServerInv, [ServerNext]_serverVars
               PROVE  ServerInv'
    OBVIOUS
  <1>1. CASE StartServer
    BY <1>1, StartKeepsInv
  <1>2. CASE Shutdown \/ CloseServer \/ UNCHANGED serverVars
    <2>1. UNCHANGED <<server, free, conn>> /\ ServerTypeOK' /\ (stage' = "up" => stage = "up")
      BY <1>2 DEF Shutdown, CloseServer, serverVars, ServerInv, ServerTypeOK
    <2>2. \A c \in Connection : conn'[c].of = conn[c].of /\ (Busy(c)' <=> Busy(c))
      BY <2>1 DEF Busy
    <2> QED
      BY <2>1, <2>2, SameHolders
  <1>3. ASSUME NEW c \in Connection, Accept(c)
        PROVE  ServerInv'
    BY <1>3, AcceptKeepsInv
  <1>4. ASSUME NEW c \in Connection, SpawnHandler(c)
        PROVE  ServerInv'
    <2>1. conn' = [conn EXCEPT ![c].at = "open"] /\ UNCHANGED <<server, stage, free>> /\ Busy(c)
      BY <1>4 DEF SpawnHandler, Busy
    <2>2. ServerTypeOK'
      BY <2>1 DEF ServerInv, ServerTypeOK, Place
    <2>3. \A d \in Connection : conn'[d].of = conn[d].of /\ (Busy(d)' <=> Busy(d))
      BY <2>1 DEF Busy, ServerInv, ServerTypeOK, Place
    <2> QED
      BY <2>1, <2>2, <2>3, SameHolders
  <1>5. ASSUME NEW c \in Connection, SpawnFails(c) \/ EndHandler(c)
        PROVE  ServerInv'
    BY <1>5, EndKeepsInv DEF SpawnFails, EndHandler, Open, Busy
  <1> QED
    BY <1>1, <1>2, <1>3, <1>4, <1>5 DEF ServerNext, ServerStep

(* Every server ever started keeps its slots, for any number of connections,  *)
(* slots and restarts (services/ssh/emulator.py, lines 20 to 45).            *)
THEOREM ServerKeepsSlots == ServerSpec => []SlotsKept
  <1>1. ServerInit => ServerInv
    <2> SUFFICES ASSUME ServerInit PROVE ServerInv
      OBVIOUS
    <2>1. ServerTypeOK
      BY ServerAssumption DEF ServerInit, ServerTypeOK, Place
    <2> QED
      BY <2>1 DEF ServerInit, ServerInv, SlotsKept, Busy
  <1>2. ServerInv => SlotsKept
    BY DEF ServerInv
  <1> QED
    BY <1>1, <1>2, ServerStepKeepsInv, PTL DEF ServerSpec

(* The SSH emulator implements the server: its dialogue only ends handlers,  *)
(* and finishes a stop with the shells it clears.                            *)
THEOREM ShellImplementsServer == ShellSpec => ServerSpec
  <1>1. ShellInit => ServerInit
    BY DEF ShellInit
  <1>2. [ShellNext]_shellVars => [ServerNext]_serverVars
    <2> SUFFICES ASSUME [ShellNext]_shellVars PROVE [ServerNext]_serverVars
      OBVIOUS
    <2>1. CASE ServerStep
      BY <2>1 DEF ServerNext
    <2>2. ASSUME NEW c \in Connection, ShellStep(c)
          PROVE  EndHandler(c) \/ UNCHANGED serverVars
      BY <2>2 DEF ShellStep, Login, Leave, FindState, RunCommand
    <2>3. CASE StopShell
      BY <2>3 DEF StopShell, ServerNext
    <2>4. CASE UNCHANGED shellVars
      BY <2>4 DEF shellVars
    <2> QED
      BY <2>1, <2>2, <2>3, <2>4 DEF ShellNext, ServerNext
  <1> QED
    BY <1>1, <1>2, PTL DEF ShellSpec, ServerSpec

(* So does the HTTP emulator.                                                *)
THEOREM HttpImplementsServer == HttpSpec => ServerSpec
  <1>1. HttpInit => ServerInit
    BY DEF HttpInit
  <1>2. [HttpNext]_httpVars => [ServerNext]_serverVars
    <2> SUFFICES ASSUME [HttpNext]_httpVars PROVE [ServerNext]_serverVars
      OBVIOUS
    <2>1. CASE ServerStep
      BY <2>1 DEF ServerNext
    <2>2. ASSUME NEW c \in Connection, RequestStep(c)
          PROVE  EndHandler(c) \/ UNCHANGED serverVars
      BY <2>2 DEF RequestStep, CheckLogin, CountFailure, AnswerLogin, EndOther
    <2>3. CASE StopHttp
      BY <2>3 DEF StopHttp, ServerNext
    <2>4. CASE UNCHANGED httpVars
      BY <2>4 DEF httpVars
    <2> QED
      BY <2>1, <2>2, <2>3, <2>4 DEF HttpNext, ServerNext
  <1> QED
    BY <1>1, <1>2, PTL DEF HttpSpec, ServerSpec

(* No slot of the SSH or the HTTP emulator is lost or made, whatever is      *)
(* typed, counted, streamed, stopped and started.                            *)
THEOREM EmulatorsKeepSlots ==
  (ShellSpec => []SlotsKept) /\ (HttpSpec => []SlotsKept)
  BY ServerKeepsSlots, ShellImplementsServer, HttpImplementsServer, PTL

----------------------------------------------------------------------------
ShellRecord == [at : {"login", "prompt", "command", "left"}, tries : Nat, commands : Nat]

ShellTypeOK ==
  /\ shell \in [Connection -> ShellRecord]
  /\ states \in Seq(Connection) /\ Len(states) =< MaxStates /\ IsInjective(states)
  /\ cwd \in [Connection -> Directory] /\ said \in [Connection -> Directory]
  /\ others \in [Connection -> SUBSET Connection] /\ \A c \in Connection : IsFiniteSet(others[c])

(* Whose state may be missing, and why it is.                                *)
Excused(c) == c \in cleared \/ Cardinality(others[c]) >= MaxStates

(* Who has a state finds in it what the last cd said; who has none, but ran a *)
(* command and is in one or was away from home, has an excuse.                *)
ShellInv ==
  /\ ShellTypeOK /\ InOrderOfUse(states, others)
  /\ \A c \in Listed(states) : cwd[c] = said[c]
  /\ \A c \in Connection \ Listed(states) :
       shell[c].at = "command" \/ said[c] # Home => Excused(c)

(* No shell is open and no state is kept. *)
LEMMA ShellInitInv == ASSUME ShellInit PROVE ShellInv
<1>1. states = << >> /\ Listed(states) = {}  BY DEF ShellInit, Listed
<1>2. ShellTypeOK
  <2>1. shell \in [Connection -> ShellRecord]  BY DEF ShellInit, ShellRecord
  <2>2. states \in Seq(Connection) /\ Len(states) =< MaxStates /\ IsInjective(states)
    BY <1>1, SshAssumption DEF SshAssumption, IsInjective
  <2>3. \A c \in Connection : IsFiniteSet(others[c])  BY FS_EmptySet DEF ShellInit
  <2> QED  BY <2>1, <2>2, <2>3, SshAssumption DEF ShellInit, ShellTypeOK, SshAssumption
<1> QED  BY <1>1, <1>2 DEF ShellInv, ShellInit, InOrderOfUse

(* What a key that is used does to the excuses of the others.                *)
LEMMA FindKeepsInv == ASSUME ShellInv, NEW c \in Connection, FindState(c) PROVE ShellInv'
<1>1. /\ states \in Seq(Connection) /\ Len(states) =< MaxStates /\ IsInjective(states)
      /\ InOrderOfUse(states, others) /\ \A o \in Connection : IsFiniteSet(others[o])
      /\ MaxStates \in Nat \ {0} /\ Home \in Directory
  BY SshAssumption DEF ShellInv, ShellTypeOK, SshAssumption
<1>2. /\ states' = Used(states, c, MaxStates) /\ others' = UsedSince(others, Connection, c)
      /\ cwd' = [cwd EXCEPT ![c] = Found(c)] /\ said' = [said EXCEPT ![c] = Found(c)]
      /\ cleared' = cleared \ {c}
      /\ shell' = [shell EXCEPT ![c].at = "command", ![c].commands = @ + 1]
  BY DEF FindState, UsedSince
<1>3. /\ states' \in Seq(Connection) /\ Len(states') =< MaxStates /\ IsInjective(states')
      /\ c \in Listed(states') /\ Listed(states') \subseteq Listed(states) \cup {c}
      /\ InOrderOfUse(states', others') /\ \A o \in Connection : IsFiniteSet(others'[o])
      /\ \A o \in Listed(states) \ Listed(states') : Cardinality(others'[o]) >= MaxStates
  BY <1>1, <1>2, UsedResult
<1>4. Found(c) \in Directory
  BY <1>1 DEF Found, ShellInv, ShellTypeOK
<1>5. ShellTypeOK'
  <2>1. shell' \in [Connection -> ShellRecord]
    <3> DEFINE new == [shell[c] EXCEPT !.at = "command", !.commands = @ + 1]
    <3>1. shell' = [shell EXCEPT ![c] = new]  BY <1>2
    <3>2. shell[c] \in ShellRecord  BY DEF ShellInv, ShellTypeOK
    <3>3. shell[c].commands + 1 \in Nat  BY <3>2 DEF ShellRecord
    <3>4. new \in ShellRecord  BY <3>2, <3>3 DEF ShellRecord
    <3> HIDE DEF new
    <3> QED  BY <3>1, <3>4 DEF ShellInv, ShellTypeOK
  <2>2. others' \in [Connection -> SUBSET Connection]
    BY <1>2 DEF UsedSince, ShellInv, ShellTypeOK
  <2> QED  BY <1>2, <1>3, <1>4, <2>1, <2>2 DEF ShellInv, ShellTypeOK
<1>6. \A o \in Listed(states') : cwd'[o] = said'[o]
  <2> SUFFICES ASSUME NEW o \in Listed(states') PROVE cwd'[o] = said'[o]  OBVIOUS
  <2>0. o \in Connection  BY <1>3 DEF Listed
  <2>1. CASE o = c  BY <1>2, <2>0, <2>1 DEF ShellInv, ShellTypeOK
  <2>2. CASE o # c  BY <1>2, <1>3, <2>0, <2>2 DEF ShellInv, ShellTypeOK
  <2> QED  BY <2>1, <2>2
<1>7. ASSUME NEW o \in Connection \ Listed(states'), shell'[o].at = "command" \/ said'[o] # Home
      PROVE  Excused(o)'
  <2>1. o # c  BY <1>3
  <2>2. shell'[o] = shell[o] /\ said'[o] = said[o] /\ others'[o] = others[o] \cup {c}
    BY <1>2, <2>1 DEF ShellInv, ShellTypeOK, UsedSince
  <2>3. CASE o \in Listed(states)  BY <1>3, <2>3 DEF Excused
  <2>4. CASE o \notin Listed(states)
    <3>1. Excused(o)  BY <1>7, <2>2, <2>4 DEF ShellInv
    <3>2. CASE o \in cleared  BY <1>2, <2>1, <3>2 DEF Excused
    <3>3. CASE Cardinality(others[o]) >= MaxStates
      <4>1. IsFiniteSet(others'[o]) /\ others[o] \subseteq others'[o]  BY <1>3, <2>2
      <4>2. /\ Cardinality(others[o]) =< Cardinality(others'[o])
            /\ Cardinality(others[o]) \in Nat /\ Cardinality(others'[o]) \in Nat
        BY <1>1, <4>1, FS_Subset, FS_CardinalityType
      <4> QED  BY <3>3, <4>2, <1>1 DEF Excused
    <3> QED  BY <3>1, <3>2, <3>3 DEF Excused
  <2> QED  BY <2>3, <2>4
<1> QED  BY <1>3, <1>5, <1>6, <1>7 DEF ShellInv

(* A command uses the state of its connection and may push out the one used   *)
(* least recently.                                                            *)
LEMMA RunKeepsInv == ASSUME ShellInv, NEW c \in Connection, RunCommand(c) PROVE ShellInv'
<1>1. /\ shell[c].at = "command" /\ shell' = [shell EXCEPT ![c].at = "prompt"]
      /\ UNCHANGED <<states, others, cleared>>
  BY DEF RunCommand
<1>2. \/ \E d \in Directory : /\ said' = [said EXCEPT ![c] = d]
                             /\ cwd' = IF c \in Listed(states) THEN [cwd EXCEPT ![c] = d] ELSE cwd
      \/ UNCHANGED <<cwd, said>>
  BY DEF RunCommand
<1>3. cwd' \in [Connection -> Directory] /\ said' \in [Connection -> Directory]
  BY <1>2 DEF ShellInv, ShellTypeOK
<1>4. ShellTypeOK'
  <2>1. shell' \in [Connection -> ShellRecord]
    BY <1>1 DEF ShellInv, ShellTypeOK, ShellRecord
  <2> QED  BY <1>1, <1>3, <2>1 DEF ShellInv, ShellTypeOK
<1>5. \A o \in Connection : o # c => said'[o] = said[o] /\ cwd'[o] = cwd[o] /\ shell'[o] = shell[o]
  BY <1>1, <1>2 DEF ShellInv, ShellTypeOK
<1>6. c \in Listed(states) => cwd'[c] = said'[c]
  BY <1>2 DEF ShellInv, ShellTypeOK
<1>7. c \notin Listed(states) => Excused(c)
  BY <1>1 DEF ShellInv
<1>8. Listed(states) \subseteq Connection /\ \A o \in Connection : Excused(o)' <=> Excused(o)
  BY <1>1 DEF ShellInv, ShellTypeOK, Listed, Excused
<1> QED  BY <1>1, <1>4, <1>5, <1>6, <1>7, <1>8 DEF ShellInv

(* Steps in which no state changes, and no connection enters a command.       *)
LEMMA ShellRestKeepsInv ==
  ASSUME ShellInv, UNCHANGED <<states, cwd, said, others>>, shell' \in [Connection -> ShellRecord],
         \A c \in Connection : shell'[c].at = "command" => shell[c].at = "command",
         cleared \subseteq cleared'
  PROVE  ShellInv'
<1>1. ShellTypeOK'  BY DEF ShellInv, ShellTypeOK
<1>2. \A c \in Connection : Excused(c) => Excused(c)'  BY DEF Excused
<1> QED  BY <1>1, <1>2 DEF ShellInv

(* Every step of the emulator keeps the invariant. *)
LEMMA ShellNextKeepsInv == ASSUME ShellInv, [ShellNext]_shellVars PROVE ShellInv'
<1>0. shell \in [Connection -> ShellRecord]  BY DEF ShellInv, ShellTypeOK
<1>1. CASE UNCHANGED <<shell, states, cwd, said, others, cleared>>
  BY <1>0, <1>1, ShellRestKeepsInv
<1>2. ASSUME NEW c \in Connection, Login(c) PROVE ShellInv'
  <2>1. /\ shell' = [shell EXCEPT ![c].tries = @ + 1,
              ![c].at = IF shell[c].tries + 1 <= Failures THEN "login" ELSE "prompt"]
        /\ UNCHANGED <<states, cwd, said, others, cleared>>
    BY <1>2 DEF Login
  <2>2. /\ shell' \in [Connection -> ShellRecord]
        /\ \A o \in Connection : shell'[o].at = "command" => shell[o].at = "command"
    <3> DEFINE place == IF shell[c].tries + 1 <= Failures THEN "login" ELSE "prompt"
               new == [shell[c] EXCEPT !.tries = @ + 1, !.at = place]
    <3>1. shell' = [shell EXCEPT ![c] = new]  BY <2>1
    <3>2. place \in {"login", "prompt"}  OBVIOUS
    <3> HIDE DEF place
    <3>3. new \in ShellRecord /\ new.at = place
      <4>1. shell[c] \in ShellRecord  BY <1>0
      <4>2. shell[c].tries + 1 \in Nat  BY <4>1 DEF ShellRecord
      <4> QED  BY <3>2, <4>1, <4>2 DEF ShellRecord
    <3> HIDE DEF new
    <3> QED  BY <1>0, <3>1, <3>2, <3>3
  <2> QED  BY <2>1, <2>2, ShellRestKeepsInv
<1>3. ASSUME NEW c \in Connection, Leave(c) PROVE ShellInv'
  <2>1. /\ shell' = [shell EXCEPT ![c] = [at |-> "left", tries |-> 0, commands |-> 0]]
        /\ UNCHANGED <<states, cwd, said, others, cleared>>
    BY <1>3 DEF Leave
  <2>2. /\ shell' \in [Connection -> ShellRecord]
        /\ \A o \in Connection : shell'[o].at = "command" => shell[o].at = "command"
    BY <1>0, <2>1 DEF ShellRecord
  <2> QED  BY <2>1, <2>2, ShellRestKeepsInv
<1>4. CASE StopShell
  <2>1. /\ states' = << >> /\ cleared' = cleared \cup Listed(states)
        /\ UNCHANGED <<shell, cwd, said, others>>
    BY <1>4 DEF StopShell
  <2>2. Listed(states') = {} /\ IsInjective(states') /\ InOrderOfUse(states', others')
        /\ states' \in Seq(Connection) /\ Len(states') =< MaxStates
    BY <2>1, SshAssumption DEF Listed, IsInjective, InOrderOfUse, SshAssumption
  <2>3. ShellTypeOK'  BY <2>1, <2>2 DEF ShellInv, ShellTypeOK
  <2>4. \A c \in Connection : c \in Listed(states) \/ Excused(c) => Excused(c)'
    BY <2>1 DEF Excused
  <2> QED  BY <2>1, <2>2, <2>3, <2>4 DEF ShellInv
<1> QED  BY <1>1, <1>2, <1>3, <1>4, FindKeepsInv, RunKeepsInv DEF ShellNext, ShellStep, shellVars

(* SshShell.ForgetsOnlyIdle, for any number of connections and limit: a       *)
(* session that does not find the directory it went to was idle while as many *)
(* others as there are states ran a command, or a stop cleared it.           *)
THEOREM ShellForgetsOnlyIdle == ShellSpec => []ForgetsOnlyIdle
<1>1. ShellInv => ForgetsOnlyIdle
  <2> SUFFICES ASSUME ShellInv PROVE ForgetsOnlyIdle  OBVIOUS
  <2>1. states \in Seq(Connection) /\ Len(states) =< MaxStates /\ IsInjective(states)
    BY DEF ShellInv, ShellTypeOK
  <2>2. Cardinality(Listed(states)) = Len(states)  BY <2>1, DistinctKeys
  <2>3. \A c \in Connection : Found(c) # said[c] => Excused(c)
    BY DEF Found, ShellInv
  <2> QED  BY <2>1, <2>2, <2>3 DEF ForgetsOnlyIdle, Excused
<1>2. ShellInit => ShellInv  BY ShellInitInv
<1>3. ShellInv /\ [ShellNext]_shellVars => ShellInv'  BY ShellNextKeepsInv
<1> QED  BY <1>1, <1>2, <1>3, PTL DEF ShellSpec

----------------------------------------------------------------------------
VisitRecord == [at : {"new", "ended"}] \cup [at : {"delay", "answer", "ended"}, session : Session]

HttpTypeOK ==
  /\ visit \in [Connection -> VisitRecord]
  /\ tracked \in Seq(Session) /\ Len(tracked) =< MaxTracked /\ IsInjective(tracked)
  /\ attempts \in [Session -> Nat]
  /\ refused \in [Session -> SUBSET Connection] /\ \A s \in Session : IsFiniteSet(refused[s])
  /\ since \in [Session -> SUBSET Session] /\ \A s \in Session : IsFiniteSet(since[s])

(* A request is counted once; a counter that is there counts the refusals,    *)
(* of which there is one.                                                   *)
CountedOnce ==
  /\ \A s \in Session : \A c \in refused[s] : visit[c].at \in {"answer", "ended"}
  /\ \A s \in Listed(tracked) : attempts[s] = Cardinality(refused[s]) /\ attempts[s] # 0

DroppedIdle ==
  \A s \in Session \ Listed(tracked) : refused[s] = {} \/ Cardinality(since[s]) >= MaxTracked

AdmittedLate == \A s \in admitted \cap Session : Cardinality(refused[s]) >= Failures

HttpInv ==
  HttpTypeOK /\ InOrderOfUse(tracked, since) /\ CountedOnce /\ DroppedIdle /\ AdmittedLate

(* No session is tracked. *)
LEMMA HttpInitInv == ASSUME HttpInit PROVE HttpInv
<1>1. Listed(tracked) = {} /\ tracked = << >>  BY DEF HttpInit, Listed
<1>2. HttpTypeOK
  <2>1. tracked \in Seq(Session) /\ Len(tracked) =< MaxTracked /\ IsInjective(tracked)
    BY <1>1, HttpAssumption DEF HttpAssumption, IsInjective
  <2>2. visit \in [Connection -> VisitRecord]  BY DEF HttpInit, VisitRecord
  <2> QED  BY <2>1, <2>2, FS_EmptySet DEF HttpInit, HttpTypeOK
<1> QED  BY <1>1, <1>2 DEF HttpInit, HttpInv, InOrderOfUse, CountedOnce, DroppedIdle, AdmittedLate

(* Steps that count nothing.                                                *)
LEMMA HttpRestKeepsInv ==
  ASSUME HttpInv, UNCHANGED <<tracked, attempts, refused, since>>,
         visit' \in [Connection -> VisitRecord],
         \A c \in Connection : visit[c].at \in {"answer", "ended"} => visit'[c].at \in {"answer", "ended"},
         \A s \in admitted' \cap Session : s \in admitted \/ Cardinality(refused[s]) >= Failures
  PROVE  HttpInv'
<1>1. HttpTypeOK'  BY DEF HttpInv, HttpTypeOK
<1>2. \A s \in Session : refused[s] \subseteq Connection  BY DEF HttpInv, HttpTypeOK
<1>3. CountedOnce'  BY <1>2 DEF HttpInv, CountedOnce
<1> QED  BY <1>1, <1>3 DEF HttpInv, DroppedIdle, AdmittedLate

(* A login is answered from the counter, which is there or counts from        *)
(* nothing.                                                                   *)
LEMMA CheckKeepsInv ==
  ASSUME HttpInv, NEW c \in Connection, NEW s \in Session, CheckLogin(c, s)
  PROVE  HttpInv'
<1>1. /\ UNCHANGED <<tracked, attempts, refused, since>> /\ visit[c].at = "new"
      /\ visit \in [Connection -> VisitRecord]
  BY DEF CheckLogin, HttpInv, HttpTypeOK
<1>2. \E place \in {"delay", "answer"} :
        /\ visit' = [visit EXCEPT ![c] = [at |-> place, session |-> s]]
        /\ admitted' \subseteq IF place = "answer" THEN admitted \cup {s} ELSE admitted
        /\ place = "answer" => ~(Counted(s) < Failures)
  BY DEF CheckLogin
<1>3. /\ visit' \in [Connection -> VisitRecord]
      /\ \A d \in Connection : visit[d].at \in {"answer", "ended"} => visit'[d].at \in {"answer", "ended"}
  BY <1>1, <1>2 DEF VisitRecord
<1>4. ~(Counted(s) < Failures) => Cardinality(refused[s]) >= Failures
  <2>1. Failures \in Nat /\ Cardinality(refused[s]) \in Nat
    BY ServerAssumption, FS_CardinalityType DEF ServerAssumption, HttpInv, HttpTypeOK
  <2>2. CASE s \in Listed(tracked)
    BY <2>1, <2>2 DEF Counted, HttpInv, CountedOnce
  <2>3. CASE s \notin Listed(tracked)  BY <2>1, <2>3 DEF Counted
  <2> QED  BY <2>2, <2>3
<1>5. \A r \in admitted' \cap Session : r \in admitted \/ Cardinality(refused[r]) >= Failures
  BY <1>2, <1>4
<1> QED  BY <1>1, <1>3, <1>5, HttpRestKeepsInv

(* A refusal is counted, and may push out the counter used least recently. *)
LEMMA CountKeepsInv == ASSUME HttpInv, NEW c \in Connection, CountFailure(c) PROVE HttpInv'
<1> DEFINE s == visit[c].session
<1>1. /\ visit \in [Connection -> VisitRecord] /\ visit[c].at = "delay" /\ s \in Session
  <2>1. visit \in [Connection -> VisitRecord] /\ visit[c].at = "delay"
    BY DEF CountFailure, HttpInv, HttpTypeOK
  <2>2. visit[c] \in VisitRecord  BY <2>1
  <2>3. visit[c] \in [at : {"delay", "answer", "ended"}, session : Session]
    BY <2>1, <2>2 DEF VisitRecord
  <2> QED  BY <2>1, <2>3
<1>2. /\ visit' = [visit EXCEPT ![c].at = "answer"]
      /\ tracked' = Used(tracked, s, MaxTracked)
      /\ attempts' = [attempts EXCEPT ![s] = Counted(s) + 1]
      /\ refused' = [refused EXCEPT ![s] = IF Counted(s) = 0 THEN {c} ELSE @ \cup {c}]
      /\ admitted' = IF Counted(s) = 0 THEN admitted \ {s} ELSE admitted
      /\ since' = UsedSince(since, Session, s)
  BY DEF CountFailure, UsedSince
<1> HIDE DEF s
<1>3. /\ tracked \in Seq(Session) /\ Len(tracked) =< MaxTracked /\ IsInjective(tracked)
      /\ InOrderOfUse(tracked, since) /\ \A o \in Session : IsFiniteSet(since[o])
      /\ MaxTracked \in Nat \ {0}
  BY HttpAssumption DEF HttpInv, HttpTypeOK, HttpAssumption
<1>4. /\ tracked' \in Seq(Session) /\ Len(tracked') =< MaxTracked /\ IsInjective(tracked')
      /\ s \in Listed(tracked') /\ Listed(tracked') \subseteq Listed(tracked) \cup {s}
      /\ InOrderOfUse(tracked', since') /\ \A o \in Session : IsFiniteSet(since'[o])
      /\ \A o \in Listed(tracked) \ Listed(tracked') : Cardinality(since'[o]) >= MaxTracked
  BY <1>1, <1>2, <1>3, UsedResult
<1>5. \A o \in Listed(tracked) \cup Listed(tracked') : o \in Session
  BY <1>3, <1>4 DEF Listed
<1>6. /\ \A r \in Session : r # s => /\ refused'[r] = refused[r] /\ attempts'[r] = attempts[r]
                                    /\ since'[r] = since[r] \cup {s} /\ (r \in admitted' <=> r \in admitted)
      /\ \A d \in Connection : d # c => visit'[d] = visit[d]
      /\ visit'[c].at = "answer" /\ attempts'[s] = Counted(s) + 1
  BY <1>1, <1>2 DEF HttpInv, HttpTypeOK, UsedSince, VisitRecord
<1>7. c \notin refused[s] /\ IsFiniteSet(refused[s]) /\ refused[s] \subseteq Connection
      /\ Cardinality(refused[s]) \in Nat
  BY <1>1, FS_CardinalityType DEF HttpInv, HttpTypeOK, CountedOnce
<1>8. /\ Counted(s) \in Nat
      /\ Counted(s) # 0 => s \in Listed(tracked) /\ Counted(s) = Cardinality(refused[s])
      /\ Counted(s) = 0 => s \notin Listed(tracked)
  BY <1>1 DEF Counted, HttpInv, HttpTypeOK, CountedOnce
<1>9. /\ refused'[s] \subseteq Connection /\ IsFiniteSet(refused'[s])
      /\ \A d \in refused'[s] : d = c \/ d \in refused[s]
      /\ Cardinality(refused'[s]) = Counted(s) + 1
  <2>1. CASE Counted(s) = 0
    <3>1. refused'[s] = {c}  BY <1>1, <1>2, <2>1 DEF HttpInv, HttpTypeOK
    <3>2. IsFiniteSet({c}) /\ Cardinality({c}) = 1  BY FS_Singleton
    <3> QED  BY <3>1, <3>2, <2>1
  <2>2. CASE Counted(s) # 0
    <3>1. refused'[s] = refused[s] \cup {c}  BY <1>1, <1>2, <2>2 DEF HttpInv, HttpTypeOK
    <3>2. /\ IsFiniteSet(refused[s] \cup {c})
          /\ Cardinality(refused[s] \cup {c}) = Cardinality(refused[s]) + 1
      BY <1>7, FS_AddElement
    <3> QED  BY <3>1, <3>2, <2>2, <1>7, <1>8
  <2> QED  BY <2>1, <2>2
<1>10. HttpTypeOK'
  <2>1. visit' \in [Connection -> VisitRecord]
    <3> DEFINE new == [visit[c] EXCEPT !.at = "answer"]
    <3>1. visit' = [visit EXCEPT ![c] = new]  BY <1>2
    <3>2. visit[c] \in VisitRecord  BY <1>1
    <3>3. visit[c] \in [at : {"delay", "answer", "ended"}, session : Session]
      BY <1>1, <3>2 DEF VisitRecord
    <3>4. new \in VisitRecord  BY <3>3 DEF VisitRecord
    <3> HIDE DEF new
    <3> QED  BY <3>1, <3>4, <1>1
  <2>2. attempts' \in [Session -> Nat]  BY <1>1, <1>2, <1>8 DEF HttpInv, HttpTypeOK
  <2>3. refused' \in [Session -> SUBSET Connection]
    BY <1>1, <1>2, <1>7 DEF HttpInv, HttpTypeOK
  <2>4. \A r \in Session : IsFiniteSet(refused'[r])
    BY <1>6, <1>9 DEF HttpInv, HttpTypeOK
  <2>5. since' \in [Session -> SUBSET Session]
    BY <1>1, <1>2 DEF UsedSince, HttpInv, HttpTypeOK
  <2> QED  BY <1>4, <2>1, <2>2, <2>3, <2>4, <2>5 DEF HttpTypeOK
<1>11. CountedOnce'
  <2>1. ASSUME NEW r \in Session, NEW d \in refused'[r] PROVE visit'[d].at \in {"answer", "ended"}
    <3>1. CASE d = c  BY <3>1, <1>6
    <3>2. CASE d # c
      <4>1. d \in refused[r]  BY <3>2, <2>1, <1>6, <1>9
      <4>2. d \in Connection  BY <4>1 DEF HttpInv, HttpTypeOK
      <4> QED  BY <3>2, <4>1, <4>2, <1>6 DEF HttpInv, CountedOnce
    <3> QED  BY <3>1, <3>2
  <2>2. ASSUME NEW r \in Listed(tracked')
        PROVE  attempts'[r] = Cardinality(refused'[r]) /\ attempts'[r] # 0
    <3>1. CASE r = s  BY <3>1, <1>6, <1>8, <1>9
    <3>2. CASE r # s  BY <3>2, <1>4, <1>5, <1>6 DEF HttpInv, CountedOnce
    <3> QED  BY <3>1, <3>2
  <2> QED  BY <2>1, <2>2 DEF CountedOnce
<1>12. DroppedIdle'
  <2> SUFFICES ASSUME NEW r \in Session \ Listed(tracked')
               PROVE  refused'[r] = {} \/ Cardinality(since'[r]) >= MaxTracked
    BY DEF DroppedIdle
  <2>1. CASE r \in Listed(tracked)  BY <2>1, <1>4
  <2>2. CASE r \notin Listed(tracked)
    <3>1. r # s  BY <1>4
    <3>2. CASE refused[r] = {}  BY <3>1, <3>2, <1>6
    <3>3. CASE Cardinality(since[r]) >= MaxTracked
      <4>1. IsFiniteSet(since'[r]) /\ since[r] \subseteq since'[r]  BY <3>1, <1>4, <1>6
      <4>2. /\ Cardinality(since[r]) =< Cardinality(since'[r])
            /\ Cardinality(since[r]) \in Nat /\ Cardinality(since'[r]) \in Nat
        BY <1>3, <4>1, FS_Subset, FS_CardinalityType
      <4> QED  BY <3>3, <4>2, <1>3
    <3> QED  BY <2>2, <3>2, <3>3 DEF HttpInv, DroppedIdle
  <2> QED  BY <2>1, <2>2
<1>13. AdmittedLate'
  <2> SUFFICES ASSUME NEW r \in admitted' \cap Session
               PROVE  Cardinality(refused'[r]) >= Failures
    BY DEF AdmittedLate
  <2>1. CASE r # s  BY <2>1, <1>6 DEF HttpInv, AdmittedLate
  <2>2. CASE r = s
    <3>1. Counted(s) # 0 /\ s \in admitted  BY <2>2, <1>2
    <3>2. Counted(s) >= Failures  BY <3>1, <1>1, <1>8 DEF HttpInv, AdmittedLate
    <3>3. Failures \in Nat  BY ServerAssumption DEF ServerAssumption
    <3> QED  BY <2>2, <3>2, <3>3, <1>8, <1>9
  <2> QED  BY <2>1, <2>2
<1> QED  BY <1>4, <1>10, <1>11, <1>12, <1>13 DEF HttpInv

(* A stop forgets the counters. *)
LEMMA StopHttpKeepsInv == ASSUME HttpInv, StopHttp PROVE HttpInv'
<1>1. /\ tracked' = << >> /\ refused' = [s \in Session |-> {}] /\ admitted' = {}
      /\ since' = [s \in Session |-> {}] /\ UNCHANGED <<visit, attempts>>
  BY DEF StopHttp
<1>2. Listed(tracked') = {}  BY <1>1 DEF Listed
<1>3. HttpTypeOK'
  <2>1. tracked' \in Seq(Session) /\ Len(tracked') =< MaxTracked /\ IsInjective(tracked')
    BY <1>1, HttpAssumption DEF HttpAssumption, IsInjective
  <2> QED  BY <1>1, <2>1, FS_EmptySet DEF HttpInv, HttpTypeOK
<1> QED  BY <1>1, <1>2, <1>3 DEF HttpInv, InOrderOfUse, CountedOnce, DroppedIdle, AdmittedLate

(* Every step of the emulator keeps the invariant. *)
LEMMA HttpNextKeepsInv == ASSUME HttpInv, [HttpNext]_httpVars PROVE HttpInv'
<1>0. visit \in [Connection -> VisitRecord]  BY DEF HttpInv, HttpTypeOK
<1>1. CASE UNCHANGED <<visit, tracked, attempts, refused, admitted, since>>
  BY <1>0, <1>1, HttpRestKeepsInv
<1>2. ASSUME NEW c \in Connection, AnswerLogin(c) \/ EndOther(c) PROVE HttpInv'
  <2>1. /\ visit' = [visit EXCEPT ![c].at = "ended"]
        /\ UNCHANGED <<tracked, attempts, refused, admitted, since>>
    BY <1>2 DEF AnswerLogin, EndOther
  <2>2. /\ visit' \in [Connection -> VisitRecord]
        /\ \A d \in Connection :
             visit[d].at \in {"answer", "ended"} => visit'[d].at \in {"answer", "ended"}
    <3> DEFINE new == [visit[c] EXCEPT !.at = "ended"]
    <3>1. visit' = [visit EXCEPT ![c] = new]  BY <2>1
    <3>2. visit[c] \in VisitRecord  BY <1>0
    <3>3. new \in VisitRecord /\ new.at = "ended"
      <4>1. CASE visit[c] \in [at : {"new", "ended"}]  BY <4>1 DEF VisitRecord
      <4>2. CASE visit[c] \in [at : {"delay", "answer", "ended"}, session : Session]
        BY <4>2 DEF VisitRecord
      <4> QED  BY <4>1, <4>2, <3>2 DEF VisitRecord
    <3> HIDE DEF new
    <3> QED  BY <3>1, <3>3, <1>0
  <2> QED  BY <2>1, <2>2, HttpRestKeepsInv
<1> QED  BY <1>1, <1>2, CheckKeepsInv, CountKeepsInv, StopHttpKeepsInv DEF HttpNext, RequestStep, httpVars

(* HttpLogin.AdmitsAfterFailures, for any number of connections, sessions,    *)
(* failures and limit: concurrent refusals of a session are each counted      *)
(* once, and nobody is let in before as many as it takes.                    *)
THEOREM HttpAdmitsAfterFailures == HttpSpec => []AdmitsAfterFailures
<1>1. HttpInv => AdmitsAfterFailures
  BY DEF HttpInv, CountedOnce, DroppedIdle, AdmittedLate, AdmitsAfterFailures
<1>2. HttpInit => HttpInv  BY HttpInitInv
<1>3. HttpInv /\ [HttpNext]_httpVars => HttpInv'  BY HttpNextKeepsInv
<1> QED  BY <1>1, <1>2, <1>3, PTL DEF HttpSpec

----------------------------------------------------------------------------
Template == UNION {Listed(Needs[a]) : a \in Ask}
Token    == [template : Template, token : Nat]
Kept     == [template : Template, of : SUBSET Visitor, token : Nat]
Entry    == [shown : Seq(Token), issued : Seq(Token)]

(* Where a request can be once it was read, and what it then has.            *)
RequestPlace == {"enter", "look", "issue", "report", "send", "raised", "ended"}
Begun == [at : RequestPlace, session : Visitor, ask : Ask, world : Nat,
          shown : Seq(Token), issued : Seq(Token)]

TrapsTypeOK ==
  /\ request \in [Request -> {[at |-> "new"]} \cup Begun]
  /\ kept \subseteq Kept /\ minted \in Nat
  /\ worlds \in Seq(Visitor)
  /\ worldOf \in [Visitor -> Nat]
  /\ files \in Seq(Seq(FileAsk))
  /\ content \in Seq([FileAsk -> Entry])
  /\ reported \in [Visitor -> SUBSET Token]
  /\ \A a \in answers : a.session \in Visitor

(* A world that is listed was made, and has its files.                       *)
WorldsMade ==
  /\ Len(files) = Len(content)
  /\ \A s \in Listed(worlds) : worldOf[s] \in 1 .. Len(content)
  /\ \A r \in Request :
       At(r, "look") \/ (At(r, "issue") /\ request[r].ask \in FileAsk)
         => request[r].ask \in FileAsk /\ request[r].world \in 1 .. Len(content)

(* What is shown is what was issued: on the way, and in every cached file.   *)
ShownIsIssued ==
  /\ \A r \in Request : ~At(r, "new") => request[r].shown = request[r].issued
  /\ \A w \in 1 .. Len(content) : \A f \in FileAsk : content[w][f].shown = content[w][f].issued

(* What will be sent was reported.                                           *)
ReportedFirst ==
  \A r \in Request : At(r, "send") => Listed(request[r].shown) \subseteq reported[request[r].session]

TrapsInv == TrapsTypeOK /\ WorldsMade /\ ShownIsIssued /\ ReportedFirst /\ ShownIsReported

(* A dictionary that a key is used in has the keys it had, and this one.     *)
LEMMA UsedKeys ==
  ASSUME NEW Kind, NEW table \in Seq(Kind), NEW k \in Kind, NEW limit \in Nat \ {0}
  PROVE  /\ Used(table, k, limit) \in Seq(Kind)
         /\ Listed(Used(table, k, limit)) \subseteq Listed(table) \cup {k}
  <1> DEFINE place  == IF k \in Listed(table) THEN CHOOSE i \in DOMAIN table : table[i] = k ELSE 1
             before == SubSeq(table, 1, place - 1)
             after  == SubSeq(table, place + 1, Len(table))
  <1>1. ASSUME NEW seq \in Seq(Kind)
        PROVE  /\ Append(seq, k) \in Seq(Kind)
               /\ Listed(Append(seq, k)) \subseteq Listed(seq) \cup {k}
    BY DEF Listed
  <1>2. CASE ~(k \in Listed(table) \/ Len(table) >= limit)
    BY <1>1, <1>2 DEF Used
  <1>3. CASE k \in Listed(table) \/ Len(table) >= limit
    <2>1. place \in 1 .. Len(table)
      BY <1>3 DEF Listed
    <2> HIDE DEF place
    <2>2. before \o after \in Seq(Kind) /\ Listed(before \o after) \subseteq Listed(table)
      <3>1. before \in Seq(Kind) /\ after \in Seq(Kind)
        BY <2>1
      <3>2. Listed(before) \subseteq Listed(table)
        BY <2>1 DEF Listed
      <3>3. Listed(after) \subseteq Listed(table)
        BY <2>1 DEF Listed
      <3> HIDE DEF before, after
      <3>4. ASSUME NEW i \in DOMAIN (before \o after)
            PROVE  (before \o after)[i] \in Listed(before) \cup Listed(after)
        <4>1. CASE i \in 1 .. Len(before)
          BY <3>1, <4>1 DEF Listed
        <4>2. CASE i \notin 1 .. Len(before)
          <5>1. i - Len(before) \in 1 .. Len(after) /\ (before \o after)[i] = after[i - Len(before)]
            BY <3>1, <4>2
          <5> QED
            BY <3>1, <5>1 DEF Listed
        <4> QED
          BY <4>1, <4>2
      <3>5. Listed(before \o after) \subseteq Listed(before) \cup Listed(after)
        BY <3>4 DEF Listed
      <3> QED
        BY <3>1, <3>2, <3>3, <3>5
    <2>3. Used(table, k, limit) = Append(before \o after, k)
      BY <1>3 DEF Used, place
    <2> QED
      BY <1>1, <2>2, <2>3
  <1> QED
    BY <1>2, <1>3

(* Before and after its first step a request has this.                       *)
LEMMA RequestBegun ==
  ASSUME TrapsTypeOK, NEW r \in Request, ~At(r, "new")
  PROVE  request[r] \in Begun
  BY DEF TrapsTypeOK, At

(* A request that is read.                                                   *)
LEMMA CheckPackKeepsInv ==
  ASSUME TrapsInv, NEW r \in Request, NEW s \in Visitor, NEW a \in Ask, CheckPack(r, s, a)
  PROVE  TrapsInv'
  <1>1. /\ request' = [request EXCEPT ![r] = request'[r]]
        /\ request'[r] \in Begun /\ request'[r].at \in {"enter", "send"}
        /\ request'[r].shown = << >> /\ request'[r].issued = << >>
        /\ request'[r].session = s
    BY DEF CheckPack, TrapsInv, TrapsTypeOK, Begun, RequestPlace
  <1>2. UNCHANGED <<kept, worlds, worldOf, files, content, minted, reported, answers>>
    BY DEF CheckPack
  <1>3. \A q \in Request : q # r => request'[q] = request[q]
    BY <1>1 DEF TrapsInv, TrapsTypeOK
  <1>4. TrapsTypeOK'
    BY <1>1, <1>2 DEF TrapsInv, TrapsTypeOK
  <1>5. WorldsMade'
    BY <1>1, <1>2, <1>3 DEF TrapsInv, WorldsMade, At
  <1>6. ShownIsIssued'
    BY <1>1, <1>2, <1>3 DEF TrapsInv, ShownIsIssued, At
  <1>7. ReportedFirst'
    BY <1>1, <1>2, <1>3 DEF TrapsInv, ReportedFirst, At, Listed
  <1> QED
    BY <1>2, <1>4, <1>5, <1>6, <1>7 DEF TrapsInv, ShownIsReported

(* What a step of one request has to show when only that request changes in  *)
(* what the invariant is about.                                              *)
LEMMA OneRequestKeepsInv ==
  ASSUME TrapsInv, NEW r \in Request, NEW new \in Begun,
         request' = [request EXCEPT ![r] = new], new.shown = new.issued,
         new.at \in {"look", "issue"} /\ new.ask \in FileAsk => new.world \in 1 .. Len(content),
         new.at = "look" => new.ask \in FileAsk,
         new.at = "send" => Listed(new.shown) \subseteq reported[new.session],
         UNCHANGED <<kept, minted, worlds, worldOf, content, reported, answers>>,
         files' \in Seq(Seq(FileAsk)), Len(files') = Len(files)
  PROVE  TrapsInv'
  <1>1. request'[r] = new /\ \A q \in Request : q # r => request'[q] = request[q]
    BY DEF TrapsInv, TrapsTypeOK
  <1>2. TrapsTypeOK'
    BY DEF TrapsInv, TrapsTypeOK
  <1>3. WorldsMade'
    BY <1>1 DEF TrapsInv, WorldsMade, At
  <1>4. ShownIsIssued'
    BY <1>1 DEF TrapsInv, ShownIsIssued, At
  <1>5. ReportedFirst'
    BY <1>1 DEF TrapsInv, ReportedFirst, At
  <1> QED
    BY <1>2, <1>3, <1>4, <1>5 DEF TrapsInv, ShownIsReported

(* A request that enters its bucket keeps what is known of the tokens. *)
LEMMA EnterTrapsKeepsInv ==
  ASSUME TrapsInv, NEW r \in Request, EnterTraps(r)
  PROVE  TrapsInv'
  <1> USE PersonaAssumption
  <1>1. request[r] \in Begun /\ request[r].shown = request[r].issued
    BY RequestBegun DEF TrapsInv, ShownIsIssued, EnterTraps, At
  <1>2. PICK place \in {"raised", "issue"} :
          /\ request' = [request EXCEPT ![r].at = place]
          /\ place = "issue" => request[r].ask \notin FileAsk
    BY DEF EnterTraps, Move
  <1> DEFINE new == [request[r] EXCEPT !.at = place]
  <1>3. new \in Begun /\ new.shown = new.issued /\ new.at = place /\ new.ask = request[r].ask
    BY <1>1 DEF Begun, RequestPlace
  <1>4. request' = [request EXCEPT ![r] = new]
    BY <1>2
  <1>5. /\ UNCHANGED <<kept, minted, worlds, worldOf, files, content, reported, answers>>
        /\ files \in Seq(Seq(FileAsk))
    BY DEF EnterTraps, TrapsInv, TrapsTypeOK
  <1> HIDE DEF new
  <1> QED
    BY <1>2, <1>3, <1>4, <1>5, OneRequestKeepsInv

(* A tool finds the world of its session, or makes it.                       *)
LEMMA EnterWorldKeepsInv ==
  ASSUME TrapsInv, NEW r \in Request, EnterWorld(r)
  PROVE  TrapsInv'
  <1> USE PersonaAssumption
  <1> DEFINE v == request[r].session
             place == IF request[r].ask \in FileAsk THEN "look" ELSE "issue"
             world == IF v \notin Listed(worlds) THEN Len(content) + 1 ELSE worldOf[v]
             new == [request[r] EXCEPT !.at = place, !.world = world]
             fresh == [f \in FileAsk |-> NoFile]
  <1>1. /\ request[r] \in Begun /\ request[r].shown = request[r].issued
        /\ v \in Visitor
    BY RequestBegun DEF TrapsInv, ShownIsIssued, EnterWorld, At, Begun
  <1>2. world \in Nat \ {0}
    BY <1>1 DEF TrapsInv, TrapsTypeOK, WorldsMade
  <1>3. /\ new \in Begun /\ new.shown = new.issued
        /\ new.at \in {"look", "issue"} /\ (new.at = "look" => new.ask \in FileAsk)
        /\ new.world = world
    BY <1>1, <1>2 DEF Begun, RequestPlace
  <1>4. /\ request' = [request EXCEPT ![r] = new]
        /\ worlds' = Used(worlds, v, MaxWorlds)
        /\ worldOf' = [worldOf EXCEPT ![v] = world]
        /\ UNCHANGED <<kept, minted, reported, answers>>
    BY DEF EnterWorld
  <1>5. worlds' \in Seq(Visitor) /\ \A s \in Listed(worlds') : s \in Listed(worlds) \/ s = v
    <2>1. worlds \in Seq(Visitor) /\ MaxWorlds \in Nat \ {0}
      BY DEF TrapsInv, TrapsTypeOK
    <2> QED
      BY <1>1, <1>4, <2>1, UsedKeys
  <1>6. fresh \in [FileAsk -> Entry] /\ << >> \in Seq(FileAsk) /\ \A f \in FileAsk : fresh[f] = NoFile
    BY DEF NoFile, Entry
  <1>7. /\ content' \in Seq([FileAsk -> Entry]) /\ files' \in Seq(Seq(FileAsk))
        /\ Len(files') = Len(content') /\ Len(content') \in Nat /\ Len(content') >= Len(content)
        /\ world \in 1 .. Len(content')
        /\ \A w \in 1 .. Len(content') :
             \/ w \in 1 .. Len(content) /\ content'[w] = content[w]
             \/ content'[w] = fresh
    <2> HIDE DEF fresh
    <2>1. CASE v \notin Listed(worlds)
      <3>1. content' = Append(content, fresh) /\ files' = Append(files, << >>)
        BY <2>1 DEF EnterWorld, fresh
      <3> QED
        BY <1>6, <2>1, <3>1 DEF TrapsInv, TrapsTypeOK, WorldsMade
    <2>2. CASE v \in Listed(worlds)
      <3>1. content' = content /\ files' = files
        BY <2>2 DEF EnterWorld
      <3> QED
        BY <2>2, <3>1 DEF TrapsInv, TrapsTypeOK, WorldsMade
    <2> QED
      BY <2>1, <2>2
  <1> HIDE DEF new, world, fresh, place
  <1>8. request'[r] = new /\ \A q \in Request : q # r => request'[q] = request[q]
    BY <1>4 DEF TrapsInv, TrapsTypeOK
  <1>9. TrapsTypeOK'
    BY <1>1, <1>2, <1>3, <1>4, <1>5, <1>7 DEF TrapsInv, TrapsTypeOK
  <1>10. WorldsMade'
    <2>1. \A s \in Listed(worlds') : worldOf'[s] \in 1 .. Len(content')
      <3> SUFFICES ASSUME NEW s \in Listed(worlds') PROVE worldOf'[s] \in 1 .. Len(content')
        OBVIOUS
      <3>1. CASE s = v
        BY <1>1, <1>4, <1>7, <3>1 DEF TrapsInv, TrapsTypeOK
      <3>2. CASE s # v
        BY <1>1, <1>4, <1>5, <1>7, <3>2 DEF TrapsInv, TrapsTypeOK, WorldsMade
      <3> QED
        BY <3>1, <3>2
    <2>2. ASSUME NEW q \in Request, At(q, "look")' \/ (At(q, "issue")' /\ request'[q].ask \in FileAsk)
          PROVE  request'[q].ask \in FileAsk /\ request'[q].world \in 1 .. Len(content')
      <3>1. CASE q = r
        BY <1>3, <1>7, <1>8, <2>2, <3>1 DEF At
      <3>2. CASE q # r
        <4>1. request[q].ask \in FileAsk /\ request[q].world \in 1 .. Len(content)
          BY <1>8, <2>2, <3>2 DEF TrapsInv, WorldsMade, At
        <4>2. Len(content) \in Nat
          BY DEF TrapsInv, TrapsTypeOK
        <4> QED
          BY SMTT(30), <1>7, <1>8, <3>2, <4>1, <4>2
      <3> QED
        BY <3>1, <3>2
    <2> QED
      BY <1>7, <2>1, <2>2 DEF WorldsMade
  <1>11. ShownIsIssued'
    <2>1. \A w \in 1 .. Len(content') : \A f \in FileAsk :
            content'[w][f].shown = content'[w][f].issued
      <3> SUFFICES ASSUME NEW w \in 1 .. Len(content'), NEW f \in FileAsk
                   PROVE  content'[w][f].shown = content'[w][f].issued
        OBVIOUS
      <3>1. CASE content'[w] = fresh
        BY <1>6, <3>1 DEF NoFile
      <3>2. CASE content'[w] # fresh
        BY <1>7, <3>2 DEF TrapsInv, ShownIsIssued
      <3> QED
        BY <3>1, <3>2
    <2> QED
      BY <1>3, <1>8, <2>1 DEF TrapsInv, ShownIsIssued, At
  <1>12. ReportedFirst' /\ ShownIsReported'
    BY <1>3, <1>4, <1>8 DEF TrapsInv, ReportedFirst, ShownIsReported, At
  <1> QED
    BY <1>9, <1>10, <1>11, <1>12 DEF TrapsInv

(* A file that is found is shown with the tokens it was issued.              *)
LEMMA LookKeepsInv ==
  ASSUME TrapsInv, NEW r \in Request, LookForFile(r)
  PROVE  TrapsInv'
  <1> USE PersonaAssumption
  <1> DEFINE w == request[r].world
             f == request[r].ask
             found == [request[r] EXCEPT !.at = "report", !.shown = content[w][f].shown,
                                         !.issued = content[w][f].issued]
             missing == [request[r] EXCEPT !.at = "issue"]
  <1>1. /\ request[r] \in Begun /\ request[r].shown = request[r].issued
        /\ f \in FileAsk /\ w \in 1 .. Len(content) /\ w \in 1 .. Len(files)
    BY RequestBegun DEF TrapsInv, ShownIsIssued, LookForFile, At, WorldsMade
  <1>2. /\ content[w][f] \in Entry /\ content[w][f].shown = content[w][f].issued
        /\ files \in Seq(Seq(FileAsk)) /\ files[w] \in Seq(FileAsk)
    BY SMTT(30), <1>1 DEF TrapsInv, TrapsTypeOK, ShownIsIssued
  <1>3. UNCHANGED <<kept, minted, worlds, worldOf, content, reported, answers>>
    BY DEF LookForFile
  <1>4. CASE f \in Listed(files[w])
    <2>1. request' = [request EXCEPT ![r] = found] /\ files' = [files EXCEPT ![w] = Used(files[w], f, MaxFilesKept)]
      BY <1>4 DEF LookForFile
    <2>2. found \in Begun /\ found.shown = found.issued /\ found.at = "report"
      BY <1>1, <1>2 DEF Begun, RequestPlace, Entry
    <2>3. Used(files[w], f, MaxFilesKept) \in Seq(FileAsk)
      <3>1. PICK table : table = files[w]
        OBVIOUS
      <3>2. f \in FileAsk /\ table \in Seq(FileAsk) /\ MaxFilesKept \in Nat \ {0}
        BY <1>1, <1>2, <3>1
      <3>3. Used(table, f, MaxFilesKept) \in Seq(FileAsk)
        BY <3>2, UsedKeys
      <3> QED
        BY <3>1, <3>3
    <2>4. files' \in Seq(Seq(FileAsk)) /\ Len(files') = Len(files)
      BY <1>1, <1>2, <2>1, <2>3
    <2> HIDE DEF found
    <2> QED
      BY <1>3, <2>1, <2>2, <2>4, OneRequestKeepsInv
  <1>5. CASE f \notin Listed(files[w])
    <2>1. request' = [request EXCEPT ![r] = missing] /\ files' = files
      BY <1>5 DEF LookForFile, Move
    <2>2. /\ missing \in Begun /\ missing.shown = missing.issued /\ missing.at = "issue"
          /\ missing.world \in 1 .. Len(content)
      BY <1>1 DEF Begun, RequestPlace
    <2> HIDE DEF missing
    <2> QED
      BY <1>2, <1>3, <2>1, <2>2, OneRequestKeepsInv
  <1> QED
    BY <1>4, <1>5

(* A token that is issued is shown.                                          *)
LEMMA IssueKeepsInv ==
  ASSUME TrapsInv, NEW r \in Request, IssueToken(r)
  PROVE  TrapsInv'
  <1> USE PersonaAssumption
  <1> DEFINE s == request[r].session
             needs == Needs[request[r].ask]
             t == needs[Len(request[r].issued) + 1]
             token == IF KeptFor(t, s) = {} THEN minted + 1
                      ELSE (CHOOSE k \in KeptFor(t, s) : TRUE).token
             entry == [template |-> t, token |-> token]
             new == [request[r] EXCEPT !.shown = Append(request[r].shown, entry),
                                       !.issued = Append(request[r].issued, entry)]
  <1>1. /\ request[r] \in Begun /\ request[r].shown = request[r].issued /\ request[r].at = "issue"
        /\ Len(request[r].issued) < Len(needs)
    BY RequestBegun DEF TrapsInv, ShownIsIssued, IssueToken, At
  <1>2. t \in Template
    BY <1>1 DEF Begun, Template, Listed
  <1>3. token \in Nat /\ minted' \in Nat
    <2>1. KeptFor(t, s) \subseteq Kept /\ minted \in Nat
      BY DEF TrapsInv, TrapsTypeOK, KeptFor
    <2>2. minted' \in Nat
      <3>1. minted' = minted \/ minted' = minted + 1
        BY Zenon DEF IssueToken
      <3> QED
        BY <2>1, <3>1
    <2>3. CASE KeptFor(t, s) = {}
      BY <2>1, <2>2, <2>3
    <2>4. CASE KeptFor(t, s) # {}
      <3> HIDE DEF t
      <3>1. (CHOOSE k \in KeptFor(t, s) : TRUE) \in Kept
        BY <2>1, <2>4
      <3> QED
        BY <2>2, <2>4, <3>1 DEF Kept
    <2> QED
      BY <2>3, <2>4
  <1>4. kept' \subseteq Kept
    <2>1. kept' \subseteq kept \cup {[template |-> t, of |-> Owner(t, s), token |-> token]}
      BY DEF IssueToken
    <2>2. Owner(t, s) \subseteq Visitor
      BY <1>1 DEF Owner, Begun
    <2> HIDE DEF t, token
    <2> QED
      BY <1>2, <1>3, <2>1, <2>2 DEF TrapsInv, TrapsTypeOK, Kept
  <1>5. request' = [request EXCEPT ![r] = new]
    BY DEF IssueToken
  <1>6. UNCHANGED <<worlds, worldOf, files, content, reported, answers>>
    BY DEF IssueToken
  <1> HIDE DEF t, token
  <1>7. entry \in Token
    BY <1>2, <1>3 DEF Token
  <1> HIDE DEF entry
  <1>8. /\ new \in Begun /\ new.shown = new.issued /\ new.at = "issue"
        /\ new.ask = request[r].ask /\ new.world = request[r].world
    <2>1. Append(request[r].shown, entry) \in Seq(Token) /\ Append(request[r].issued, entry) \in Seq(Token)
      BY <1>1, <1>7 DEF Begun
    <2> QED
      BY <1>1, <2>1 DEF Begun
  <1> HIDE DEF new
  <1>9. request'[r] = new /\ \A q \in Request : q # r => request'[q] = request[q]
    BY <1>5 DEF TrapsInv, TrapsTypeOK
  <1>10. TrapsTypeOK'
    BY <1>3, <1>4, <1>5, <1>6, <1>8 DEF TrapsInv, TrapsTypeOK
  <1>11. WorldsMade'
    BY <1>1, <1>6, <1>8, <1>9 DEF TrapsInv, WorldsMade, At
  <1>12. ShownIsIssued' /\ ReportedFirst' /\ ShownIsReported'
    BY <1>6, <1>8, <1>9 DEF TrapsInv, ShownIsIssued, ReportedFirst, ShownIsReported, At
  <1> QED
    BY <1>10, <1>11, <1>12 DEF TrapsInv

(* A file is kept as it is shown.                                            *)
LEMMA FinishKeepsInv ==
  ASSUME TrapsInv, NEW r \in Request, FinishBody(r)
  PROVE  TrapsInv'
  <1> USE PersonaAssumption
  <1> DEFINE w == request[r].world
             f == request[r].ask
             new == [request[r] EXCEPT !.at = "report"]
             entry == [shown |-> request[r].shown, issued |-> request[r].issued]
  <1>1. /\ request[r] \in Begun /\ request[r].shown = request[r].issued
        /\ f \in FileAsk => w \in 1 .. Len(content) /\ w \in 1 .. Len(files)
    BY RequestBegun DEF TrapsInv, ShownIsIssued, FinishBody, At, WorldsMade
  <1>2. /\ new \in Begun /\ new.shown = new.issued /\ new.at = "report"
        /\ entry \in Entry /\ entry.shown = entry.issued
    BY <1>1 DEF Begun, RequestPlace, Entry
  <1>3. request' = [request EXCEPT ![r] = new]
        /\ UNCHANGED <<kept, minted, worlds, worldOf, reported, answers>>
    BY DEF FinishBody, Move
  <1>4. CASE f \notin FileAsk
    <2>1. UNCHANGED <<files, content>> /\ files \in Seq(Seq(FileAsk))
      BY <1>4 DEF FinishBody, TrapsInv, TrapsTypeOK
    <2> HIDE DEF new
    <2> QED
      BY <1>2, <1>3, <2>1, OneRequestKeepsInv
  <1>5. CASE f \in FileAsk
    <2>1. /\ files' = [files EXCEPT ![w] = Used(files[w], f, MaxFilesKept)]
          /\ content' = [content EXCEPT ![w] = [content[w] EXCEPT ![f] = entry]]
      BY <1>5 DEF FinishBody
    <2> HIDE DEF new, entry
    <2>2. files' \in Seq(Seq(FileAsk)) /\ Len(files') = Len(files)
      <3>1. Used(files[w], f, MaxFilesKept) \in Seq(FileAsk)
        <4>1. files[w] \in Seq(FileAsk)
          BY <1>1, <1>5 DEF TrapsInv, TrapsTypeOK
        <4> QED
          BY SMTT(30), <1>5, <4>1, UsedKeys
      <3> QED
        BY <1>1, <1>5, <2>1, <3>1 DEF TrapsInv, TrapsTypeOK
    <2>3. content' \in Seq([FileAsk -> Entry]) /\ Len(content') = Len(content)
      BY <1>1, <1>2, <1>5, <2>1 DEF TrapsInv, TrapsTypeOK
    <2>4. \A v \in 1 .. Len(content) : \A g \in FileAsk :
            content'[v][g] = (IF v = w /\ g = f THEN entry ELSE content[v][g])
      BY SMTT(30), <1>1, <1>5, <2>1 DEF TrapsInv, TrapsTypeOK
    <2>5. request'[r] = new /\ \A q \in Request : q # r => request'[q] = request[q]
      BY <1>3 DEF TrapsInv, TrapsTypeOK
    <2>6. TrapsTypeOK'
      BY <1>2, <1>3, <2>2, <2>3 DEF TrapsInv, TrapsTypeOK
    <2>7. WorldsMade'
      BY <1>2, <1>3, <2>2, <2>3, <2>5 DEF TrapsInv, WorldsMade, At
    <2>8. ShownIsIssued'
      <3>1. ASSUME NEW v \in 1 .. Len(content), NEW g \in FileAsk
            PROVE  content'[v][g].shown = content'[v][g].issued
        <4>1. content[v][g].shown = content[v][g].issued
          BY DEF TrapsInv, ShownIsIssued
        <4> QED
          BY <1>2, <2>4, <4>1
      <3> QED
        BY <1>2, <2>3, <2>5, <3>1 DEF TrapsInv, ShownIsIssued, At
    <2>9. ReportedFirst' /\ ShownIsReported'
      BY <1>2, <1>3, <2>5 DEF TrapsInv, ReportedFirst, ShownIsReported, At
    <2> QED
      BY <2>6, <2>7, <2>8, <2>9 DEF TrapsInv
  <1> QED
    BY <1>4, <1>5

(* What was issued is reported, and so all that is shown.                    *)
LEMMA ReportKeepsInv ==
  ASSUME TrapsInv, NEW r \in Request, ReportTokens(r)
  PROVE  TrapsInv'
  <1> DEFINE s == request[r].session
             new == [request[r] EXCEPT !.at = "send"]
             all == reported[s] \cup Listed(request[r].issued)
  <1>1. /\ request[r] \in Begun /\ request[r].shown = request[r].issued
        /\ s \in Visitor /\ Listed(request[r].issued) \subseteq Token
    BY RequestBegun DEF TrapsInv, ShownIsIssued, ReportTokens, At, Begun, Listed
  <1>2. /\ new \in Begun /\ new.shown = new.issued /\ new.at = "send"
        /\ new.session = s /\ new.shown = request[r].shown
    BY <1>1 DEF Begun, RequestPlace
  <1>3. /\ request' = [request EXCEPT ![r] = new]
        /\ reported' = [reported EXCEPT ![s] = all]
        /\ UNCHANGED <<kept, minted, worlds, worldOf, files, content, answers>>
    BY DEF ReportTokens, Move
  <1>4. Listed(new.shown) \subseteq all
    BY <1>1, <1>2
  <1>5. reported' \in [Visitor -> SUBSET Token] /\ reported'[s] = all
        /\ \A v \in Visitor : reported[v] \subseteq reported'[v]
    BY <1>1, <1>3 DEF TrapsInv, TrapsTypeOK
  <1> HIDE DEF new, all
  <1>6. request'[r] = new /\ \A q \in Request : q # r => request'[q] = request[q]
    BY <1>3 DEF TrapsInv, TrapsTypeOK
  <1>7. TrapsTypeOK'
    BY <1>2, <1>3, <1>5 DEF TrapsInv, TrapsTypeOK
  <1>8. WorldsMade' /\ ShownIsIssued'
    BY <1>2, <1>3, <1>6 DEF TrapsInv, WorldsMade, ShownIsIssued, At
  <1>9. ReportedFirst'
    <2> SUFFICES ASSUME NEW q \in Request, At(q, "send")'
                 PROVE  Listed(request'[q].shown) \subseteq reported'[request'[q].session]
      BY DEF ReportedFirst
    <2>1. CASE q = r
      BY <1>2, <1>4, <1>5, <1>6, <2>1
    <2>2. CASE q # r
      <3>1. At(q, "send") /\ request'[q] = request[q]
        BY <1>6, <2>2 DEF At
      <3>2. request[q].session \in Visitor
        BY <3>1, RequestBegun DEF TrapsInv, At, Begun
      <3> QED
        BY <1>5, <3>1, <3>2 DEF TrapsInv, ReportedFirst
    <2> QED
      BY <2>1, <2>2
  <1>10. ShownIsReported'
    <2>1. \A a \in answers : reported[a.session] \subseteq reported'[a.session]
      BY <1>5 DEF TrapsInv, TrapsTypeOK
    <2> QED
      BY <1>3, <2>1 DEF TrapsInv, ShownIsReported
  <1> QED
    BY <1>7, <1>8, <1>9, <1>10 DEF TrapsInv

(* An answer that is sent shows what was reported.                           *)
LEMMA SendKeepsInv ==
  ASSUME TrapsInv, NEW r \in Request, SendAnswer(r)
  PROVE  TrapsInv'
  <1> DEFINE new == [request[r] EXCEPT !.at = "ended"]
             sent == [of |-> r, session |-> request[r].session, ask |-> request[r].ask,
                      world |-> request[r].world, shown |-> request[r].shown]
  <1>1. /\ request[r] \in Begun /\ request[r].shown = request[r].issued
        /\ request[r].session \in Visitor
        /\ Listed(request[r].shown) \subseteq reported[request[r].session]
    BY RequestBegun DEF TrapsInv, ShownIsIssued, ReportedFirst, SendAnswer, At, Begun
  <1>2. new \in Begun /\ new.shown = new.issued /\ new.at = "ended"
    BY <1>1 DEF Begun, RequestPlace
  <1>3. /\ request' = [request EXCEPT ![r] = new]
        /\ answers' \subseteq answers \cup {sent}
        /\ UNCHANGED <<kept, minted, worlds, worldOf, files, content, reported>>
    BY DEF SendAnswer, Move
  <1>4. sent.session \in Visitor /\ Listed(sent.shown) \subseteq reported[sent.session]
    BY <1>1
  <1> HIDE DEF new, sent
  <1>5. request'[r] = new /\ \A q \in Request : q # r => request'[q] = request[q]
    BY <1>3 DEF TrapsInv, TrapsTypeOK
  <1>6. TrapsTypeOK'
    BY <1>2, <1>3, <1>4 DEF TrapsInv, TrapsTypeOK
  <1>7. WorldsMade' /\ ShownIsIssued' /\ ReportedFirst'
    BY <1>2, <1>3, <1>5 DEF TrapsInv, WorldsMade, ShownIsIssued, ReportedFirst, At
  <1>8. ShownIsReported'
    BY <1>3, <1>4 DEF TrapsInv, ShownIsReported
  <1> QED
    BY <1>6, <1>7, <1>8 DEF TrapsInv

(* The invariant of the tokens, over a behaviour. *)
LEMMA TrapsInitInv == ASSUME TrapsInit PROVE TrapsInv
  BY DEF TrapsInit, TrapsInv, TrapsTypeOK, WorldsMade, ShownIsIssued, ReportedFirst,
         ShownIsReported, At, Listed

(* Every step keeps the agreement. *)
LEMMA TrapsStepInv == ASSUME TrapsInv, [TrapsNext]_trapVars PROVE TrapsInv'
  <1>1. CASE StopPersona \/ UNCHANGED trapVars
    <2>1. UNCHANGED <<request, kept, minted, worlds, worldOf, files, content, reported, answers>>
      BY <1>1 DEF StopPersona, trapVars
    <2> QED
      BY <2>1 DEF TrapsInv, TrapsTypeOK, WorldsMade, ShownIsIssued, ReportedFirst,
                  ShownIsReported, At
  <1>2. ASSUME NEW r \in Request, TrapStep(r)
        PROVE  TrapsInv'
    BY <1>2, CheckPackKeepsInv, EnterTrapsKeepsInv, EnterWorldKeepsInv, LookKeepsInv,
       IssueKeepsInv, FinishKeepsInv, ReportKeepsInv, SendKeepsInv DEF TrapStep
  <1> QED
    BY <1>1, <1>2 DEF TrapsNext

(* Every token an answer shows was reported for its session before, for any  *)
(* number of requests, sessions, asks and templates and any cache limits     *)
(* (services/vuln_llm/emulator.py, lines 630 to 691).                        *)
THEOREM TokensReported == TrapsSpec => []ShownIsReported
  <1>1. TrapsInit => TrapsInv
    BY TrapsInitInv
  <1>2. TrapsInv /\ [TrapsNext]_trapVars => TrapsInv'
    BY TrapsStepInv
  <1>3. TrapsInv => ShownIsReported
    BY DEF TrapsInv
  <1> QED
    BY <1>1, <1>2, <1>3, PTL DEF TrapsSpec

----------------------------------------------------------------------------
(* Tokens that are kept: of every template and owner one.                    *)
BucketsOK ==
  /\ buckets \in Seq(Visitor) /\ Len(buckets) =< MaxBuckets /\ IsInjective(buckets)
  /\ idle \in [Visitor -> SUBSET Visitor] /\ \A s \in Visitor : IsFiniteSet(idle[s])
  /\ InOrderOfUse(buckets, idle)
  /\ dropped \subseteq Visitor
  /\ \A s \in dropped : s \in Listed(buckets) \/ Cardinality(idle[s]) >= MaxBuckets

KeptOnce == \A k, l \in kept : k.template = l.template /\ k.of = l.of => k.token = l.token

(* A token shown to a session is the one that is kept for it, unless none is   *)
(* kept of its template or the bucket of the session was dropped.            *)
Backed(x, s) ==
  \/ x.template \notin PerSession \cup PerInstall
  \/ x.template \in PerSession /\ s \in dropped
  \/ [template |-> x.template, of |-> Owner(x.template, s), token |-> x.token] \in kept

ReadsFile(r) == At(r, "look") \/ (At(r, "issue") /\ request[r].ask \in FileAsk)

(* A world belongs to one session, also after it was dropped.                *)
OwnedBy(owner) ==
  /\ \A s \in Listed(worlds) : owner[worldOf[s]] = s
  /\ \A r \in Request : ReadsFile(r) => owner[request[r].world] = request[r].session
  /\ \A w \in 1 .. Len(content) : \A f \in FileAsk : \A x \in Listed(content[w][f].shown) :
       Backed(x, owner[w])

ShownBacked ==
  /\ \A r \in Request : ~At(r, "new") =>
       \A x \in Listed(request[r].shown) : Backed(x, request[r].session)
  /\ \A a \in answers : \A x \in Listed(a.shown) : Backed(x, a.session)

TokensInv ==
  /\ BucketsOK /\ KeptOnce /\ ShownBacked
  /\ \E owner \in [1 .. Len(content) -> Visitor] : OwnedBy(owner)

(* No bucket, no token and no request. *)
LEMMA TokensInitInv == ASSUME TrapsInit PROVE TokensInv
<1>1. BucketsOK
  <2>1. /\ buckets = << >> /\ dropped = {} /\ idle = [s \in Visitor |-> {}]
    BY DEF TrapsInit
  <2>2. Len(buckets) =< MaxBuckets  BY <2>1, PersonaAssumption DEF PersonaAssumption
  <2> QED  BY <2>1, <2>2, FS_EmptySet DEF BucketsOK, IsInjective, InOrderOfUse
<1>2. KeptOnce /\ ShownBacked  BY DEF TrapsInit, KeptOnce, ShownBacked, At
<1>3. \E owner \in [1 .. Len(content) -> Visitor] : OwnedBy(owner)
  <2>1. Len(content) = 0 /\ Listed(worlds) = {}  BY DEF TrapsInit, Listed
  <2>2. \A r \in Request : ~ReadsFile(r)  BY DEF TrapsInit, ReadsFile, At
  <2>3. \E owner : owner \in [1 .. Len(content) -> Visitor]
    <3>1. [w \in 1 .. Len(content) |-> CHOOSE s \in Visitor : TRUE] \in [1 .. Len(content) -> Visitor]
      BY <2>1
    <3> QED  BY <3>1
  <2>4. \A owner : OwnedBy(owner)
    <3>1. 1 .. Len(content) = {}  BY <2>1
    <3> QED  BY <2>1, <2>2, <3>1 DEF OwnedBy
  <2> QED  BY <2>3, <2>4
<1> QED  BY <1>1, <1>2, <1>3 DEF TokensInv

(* Steps of one request that keep the tokens and the worlds.                 *)
LEMMA OneRequestKeepsTokens ==
  ASSUME TrapsInv, TokensInv, NEW r \in Request, NEW new \in Begun,
         request' = [request EXCEPT ![r] = new],
         UNCHANGED <<kept, buckets, idle, dropped, worlds, worldOf, content>>,
         \A x \in Listed(new.shown) : Backed(x, new.session),
         \A a \in answers' : a \in answers \/ (a.shown = new.shown /\ a.session = new.session),
         new.at = "look" \/ (new.at = "issue" /\ new.ask \in FileAsk)
           => ReadsFile(r) /\ new.world = request[r].world /\ new.session = request[r].session
  PROVE  TokensInv'
<1>1. request'[r] = new /\ \A q \in Request : q # r => request'[q] = request[q]
  BY DEF TrapsInv, TrapsTypeOK
<1>2. \A x, s : Backed(x, s)' <=> Backed(x, s)  BY DEF Backed
<1>3. BucketsOK' /\ KeptOnce'  BY DEF TokensInv, BucketsOK, KeptOnce
<1>4. ShownBacked'  BY <1>1, <1>2 DEF TokensInv, ShownBacked, At
<1>5. PICK owner \in [1 .. Len(content) -> Visitor] : OwnedBy(owner)  BY DEF TokensInv
<1>6. OwnedBy(owner)'  BY <1>1, <1>2, <1>5 DEF OwnedBy, ReadsFile, At
<1>7. owner \in [1 .. Len(content') -> Visitor]  BY <1>5
<1> QED  BY <1>3, <1>4, <1>6, <1>7 DEF TokensInv

(* A request that is let in has no token yet. *)
LEMMA CheckPackKeepsTokens ==
  ASSUME TrapsInv, TokensInv, NEW r \in Request, NEW s \in Visitor, NEW a \in Ask, CheckPack(r, s, a)
  PROVE  TokensInv'
<1> DEFINE new == [at |-> IF pack THEN "enter" ELSE "send", session |-> s, ask |-> a, world |-> 0,
                   shown |-> << >>, issued |-> << >>]
<1>1. request' = [request EXCEPT ![r] = new] /\ new \in Begun /\ new.at \in {"enter", "send"}
      /\ new.shown = << >>
  BY DEF CheckPack, Begun, RequestPlace
<1>2. UNCHANGED <<kept, buckets, idle, dropped, worlds, worldOf, content, answers>>
  BY DEF CheckPack
<1> HIDE DEF new
<1>3. \A x \in Listed(new.shown) : Backed(x, new.session)  BY <1>1 DEF Listed
<1> QED  BY <1>1, <1>2, <1>3, OneRequestKeepsTokens

(* A request that only moves on.                                            *)
LEMMA MoveKeepsTokens ==
  ASSUME TrapsInv, TokensInv, NEW r \in Request, ~At(r, "new"),
         NEW place \in {"raised", "issue", "report", "send", "ended"},
         request' = [request EXCEPT ![r].at = place],
         UNCHANGED <<kept, buckets, idle, dropped, worlds, worldOf, content>>,
         \A a \in answers' : a \in answers \/ (a.shown = request[r].shown /\ a.session = request[r].session),
         place = "issue" /\ request[r].ask \in FileAsk => ReadsFile(r)
  PROVE  TokensInv'
<1> DEFINE new == [request[r] EXCEPT !.at = place]
<1>1. request[r] \in Begun  BY RequestBegun DEF TrapsInv
<1>2. /\ new \in Begun /\ new.at = place /\ new.shown = request[r].shown /\ new.ask = request[r].ask
      /\ new.world = request[r].world /\ new.session = request[r].session
  BY <1>1 DEF Begun, RequestPlace
<1>3. request' = [request EXCEPT ![r] = new]  OBVIOUS
<1> HIDE DEF new
<1>4. \A x \in Listed(new.shown) : Backed(x, new.session)  BY <1>2 DEF TokensInv, ShownBacked
<1>5. \A a \in answers' : a \in answers \/ (a.shown = new.shown /\ a.session = new.session)
  BY <1>2
<1>6. new.at = "look" \/ (new.at = "issue" /\ new.ask \in FileAsk)
        => ReadsFile(r) /\ new.world = request[r].world /\ new.session = request[r].session
  BY <1>2
<1>7. UNCHANGED <<kept, buckets, idle, dropped, worlds, worldOf, content>>  OBVIOUS
<1> QED  BY <1>2, <1>3, <1>4, <1>5, <1>6, <1>7, OneRequestKeepsTokens

(* A request that looks for its file in the world it entered. *)
LEMMA LookKeepsTokens ==
  ASSUME TrapsInv, TokensInv, NEW r \in Request, LookForFile(r)
  PROVE  TokensInv'
<1> DEFINE w == request[r].world
           f == request[r].ask
           new == [request[r] EXCEPT !.at = "report", !.shown = content[w][f].shown,
                                     !.issued = content[w][f].issued]
<1>1. /\ request[r] \in Begun /\ f \in FileAsk /\ w \in 1 .. Len(content) /\ ReadsFile(r) /\ ~At(r, "new")
  BY RequestBegun DEF TrapsInv, LookForFile, At, WorldsMade, ReadsFile
<1>2. UNCHANGED <<kept, buckets, idle, dropped, worlds, worldOf, content, answers>>
  BY DEF LookForFile
<1>3. CASE f \in Listed(files[w])
  <2>1. request' = [request EXCEPT ![r] = new]  BY <1>3 DEF LookForFile
  <2>2. content[w][f] \in Entry  BY <1>1 DEF TrapsInv, TrapsTypeOK
  <2>3. /\ new \in Begun /\ new.at = "report" /\ new.shown = content[w][f].shown
        /\ new.session = request[r].session
    BY <1>1, <2>2 DEF Begun, RequestPlace, Entry
  <2> HIDE DEF new
  <2>4. \A x \in Listed(new.shown) : Backed(x, new.session)
    <3>1. PICK owner \in [1 .. Len(content) -> Visitor] : OwnedBy(owner)  BY DEF TokensInv
    <3> QED  BY <1>1, <2>3, <3>1 DEF OwnedBy
  <2> QED  BY <1>2, <2>1, <2>3, <2>4, OneRequestKeepsTokens
<1>4. CASE f \notin Listed(files[w])
  <2>1. request' = [request EXCEPT ![r].at = "issue"]  BY <1>4 DEF LookForFile, Move
  <2> QED  BY <1>1, <1>2, <2>1, MoveKeepsTokens
<1> QED  BY <1>3, <1>4

(* Entering a world uses the bucket, and may drop the one used least          *)
(* recently.                                                                  *)
LEMMA EnterWorldKeepsTokens ==
  ASSUME TrapsInv, TrapsInv', TokensInv, NEW r \in Request, EnterWorld(r)
  PROVE  TokensInv'
<1> DEFINE v == request[r].session
           L == Len(content)
           fresh == v \notin Listed(worlds)
           world == IF fresh THEN L + 1 ELSE worldOf[v]
           place == IF request[r].ask \in FileAsk THEN "look" ELSE "issue"
           new == [request[r] EXCEPT !.at = place, !.world = world]
           none == [f \in FileAsk |-> NoFile]
<1>1. /\ request[r] \in Begun /\ v \in Visitor /\ ~At(r, "new") /\ L \in Nat
      /\ \A s \in Listed(worlds) : worldOf[s] \in 1 .. L
      /\ \A q \in Request : ReadsFile(q) => request[q].world \in 1 .. L
  <2>1. request[r].at = "enter"  BY DEF EnterWorld, At
  <2>2. ~At(r, "new")  BY <2>1 DEF At
  <2>3. request[r] \in Begun  BY <2>2, RequestBegun DEF TrapsInv
  <2>4. v \in Visitor  BY <2>3 DEF Begun
  <2>5. L \in Nat  BY DEF TrapsInv, TrapsTypeOK
  <2>6. \A s \in Listed(worlds) : worldOf[s] \in 1 .. L  BY DEF TrapsInv, WorldsMade
  <2>7. \A q \in Request : ReadsFile(q) => request[q].world \in 1 .. L
    BY DEF TrapsInv, WorldsMade, ReadsFile
  <2> QED  BY <2>2, <2>3, <2>4, <2>5, <2>6, <2>7
<1>2. /\ request' = [request EXCEPT ![r] = new] /\ worlds' = Used(worlds, v, MaxWorlds)
      /\ worldOf' = [worldOf EXCEPT ![v] = world]
      /\ UNCHANGED <<kept, buckets, idle, dropped, answers>>
      /\ fresh => content' = Append(content, none)
      /\ ~fresh => content' = content
  BY DEF EnterWorld
<1>3. new.world = world /\ new.session = v /\ new.shown = request[r].shown
  BY <1>1 DEF Begun
<1>4. worldOf'[v] = world /\ \A s \in Visitor : s # v => worldOf'[s] = worldOf[s]
  BY <1>1, <1>2 DEF TrapsInv, TrapsTypeOK
<1>5. request'[r] = new /\ \A q \in Request : q # r => request'[q] = request[q]
  BY <1>2 DEF TrapsInv, TrapsTypeOK
<1>6. Listed(worlds') \subseteq Listed(worlds) \cup {v} /\ Listed(worlds) \subseteq Visitor
  <2>1. worlds \in Seq(Visitor) /\ MaxWorlds \in Nat \ {0}
    BY PersonaAssumption DEF TrapsInv, TrapsTypeOK, PersonaAssumption
  <2>2. Listed(worlds) \subseteq Visitor  BY <2>1 DEF Listed
  <2> QED  BY <1>1, <1>2, <2>1, <2>2, UsedKeys
<1>7. \A x, s : Backed(x, s)' <=> Backed(x, s)  BY <1>2 DEF Backed
<1>8. BucketsOK' /\ KeptOnce'  BY <1>2 DEF TokensInv, BucketsOK, KeptOnce
<1> HIDE DEF new, place
<1>9. ShownBacked'
  <2>1. \A x \in Listed(new.shown) : Backed(x, new.session)
    BY <1>1, <1>3 DEF TokensInv, ShownBacked
  <2> QED  BY <1>2, <1>5, <1>7, <2>1 DEF TokensInv, ShownBacked, At
<1>10. PICK owner \in [1 .. L -> Visitor] : OwnedBy(owner)  BY DEF TokensInv
<1>11. CASE ~fresh
  <2>1. world = worldOf[v] /\ content' = content /\ owner[world] = v /\ v \in Listed(worlds)
    BY <1>2, <1>10, <1>11 DEF OwnedBy
  <2>2. \A s \in Listed(worlds') : owner[worldOf'[s]] = s
    BY <1>4, <1>6, <1>10, <2>1 DEF OwnedBy
  <2>3. \A q \in Request : ReadsFile(q)' => owner[request'[q].world] = request'[q].session
    BY <1>3, <1>5, <1>10, <2>1 DEF OwnedBy, ReadsFile, At
  <2>4. \A w \in 1 .. Len(content') : \A f \in FileAsk : \A x \in Listed(content'[w][f].shown) :
          Backed(x, owner[w])'
    BY <1>7, <1>10, <2>1 DEF OwnedBy
  <2>5. OwnedBy(owner)'  BY <2>2, <2>3, <2>4 DEF OwnedBy
  <2>6. owner \in [1 .. Len(content') -> Visitor]  BY <1>10, <2>1
  <2> QED  BY <1>8, <1>9, <2>5, <2>6 DEF TokensInv
<1>12. CASE fresh
  <2>0. content \in Seq([FileAsk -> Entry])  BY DEF TrapsInv, TrapsTypeOK
  <2>1. /\ world = L + 1 /\ Len(content') = L + 1 /\ content'[L + 1] = none
        /\ \A w \in 1 .. L : content'[w] = content[w]
    BY <1>2, <1>12, <2>0, <1>1
  <2>2. PICK mine \in [1 .. L + 1 -> Visitor] :
          mine[L + 1] = v /\ \A w \in 1 .. L : mine[w] = owner[w]
    <3> DEFINE m == [w \in 1 .. L + 1 |-> IF w = L + 1 THEN v ELSE owner[w]]
    <3>1. m \in [1 .. L + 1 -> Visitor] /\ m[L + 1] = v /\ \A w \in 1 .. L : m[w] = owner[w]
      BY <1>1, <1>10
    <3> HIDE DEF m
    <3> QED  BY <3>1
  <2>3. \A s \in Listed(worlds') : mine[worldOf'[s]] = s
    <3> SUFFICES ASSUME NEW s \in Listed(worlds') PROVE mine[worldOf'[s]] = s  OBVIOUS
    <3>1. CASE s = v  BY <3>1, <1>4, <2>1, <2>2
    <3>2. CASE s # v
      <4>1. s \in Listed(worlds) /\ worldOf'[s] = worldOf[s] /\ worldOf[s] \in 1 .. L
        BY <3>2, <1>1, <1>4, <1>6
      <4> QED  BY <4>1, <1>10, <2>2 DEF OwnedBy
    <3> QED  BY <3>1, <3>2
  <2>4. \A q \in Request : ReadsFile(q)' => mine[request'[q].world] = request'[q].session
    <3> SUFFICES ASSUME NEW q \in Request, ReadsFile(q)'
                 PROVE  mine[request'[q].world] = request'[q].session
      OBVIOUS
    <3>1. CASE q = r  BY <3>1, <1>3, <1>5, <2>1, <2>2
    <3>2. CASE q # r
      <4>1. ReadsFile(q) /\ request'[q] = request[q] /\ request[q].world \in 1 .. L
        BY <3>2, <1>1, <1>5 DEF ReadsFile, At
      <4> QED  BY <4>1, <1>10, <2>2 DEF OwnedBy
    <3> QED  BY <3>1, <3>2
  <2>5. ASSUME NEW w \in 1 .. Len(content'), NEW f \in FileAsk, NEW x \in Listed(content'[w][f].shown)
        PROVE  Backed(x, mine[w])'
    <3>1. CASE w = L + 1
      <4>1. content'[w][f].shown = << >>  BY <3>1, <2>1 DEF NoFile
      <4> QED  BY <4>1, <2>5 DEF Listed
    <3>2. CASE w # L + 1
      <4>1. w \in 1 .. L  BY <3>2, <2>1, <1>1
      <4>2. Backed(x, owner[w])  BY <4>1, <2>1, <2>5, <1>10 DEF OwnedBy
      <4> QED  BY <4>1, <4>2, <2>2, <1>7
    <3> QED  BY <3>1, <3>2
  <2>6. OwnedBy(mine)'  BY <2>3, <2>4, <2>5 DEF OwnedBy
  <2>7. mine \in [1 .. Len(content') -> Visitor]  BY <2>1, <2>2
  <2> QED  BY <1>8, <1>9, <2>6, <2>7 DEF TokensInv
<1> QED  BY <1>11, <1>12

(* A body that is finished shows the tokens that are kept. *)
LEMMA FinishKeepsTokens ==
  ASSUME TrapsInv, TokensInv, NEW r \in Request, FinishBody(r)
  PROVE  TokensInv'
<1> DEFINE w == request[r].world
           f == request[r].ask
<1>1. /\ ~At(r, "new") /\ request' = [request EXCEPT ![r].at = "report"]
      /\ UNCHANGED <<kept, buckets, idle, dropped, worlds, worldOf, answers>>
  BY DEF FinishBody, Move, At
<1>2. CASE f \notin FileAsk
  <2>1. content' = content  BY <1>2 DEF FinishBody
  <2> QED  BY <1>1, <2>1, MoveKeepsTokens
<1>3. CASE f \in FileAsk
  <2> DEFINE entry == [shown |-> request[r].shown, issued |-> request[r].issued]
  <2>1. ReadsFile(r) /\ w \in 1 .. Len(content)
    BY <1>3 DEF FinishBody, ReadsFile, TrapsInv, WorldsMade
  <2>2. content' = [content EXCEPT ![w] = [content[w] EXCEPT ![f] = entry]]
    BY <1>3 DEF FinishBody
  <2>3. entry.shown = request[r].shown  OBVIOUS
  <2> HIDE DEF entry
  <2>4. /\ Len(content') = Len(content)
        /\ \A u \in 1 .. Len(content) : \A g \in FileAsk :
             content'[u][g] = (IF u = w /\ g = f THEN entry ELSE content[u][g])
    BY <1>3, <2>1, <2>2 DEF TrapsInv, TrapsTypeOK
  <2>5. ASSUME NEW q \in Request
        PROVE  /\ request'[q].shown = request[q].shown /\ request'[q].session = request[q].session
               /\ ~At(q, "new")' => ~At(q, "new")
               /\ ReadsFile(q)' => ReadsFile(q) /\ request'[q].world = request[q].world
    <3>1. CASE q = r
      <4>1. request[r] \in Begun  BY <1>1, RequestBegun DEF TrapsInv
      <4>2. request'[r] = [request[r] EXCEPT !.at = "report"]  BY <1>1 DEF TrapsInv, TrapsTypeOK
      <4>3. request'[r].at = "report" /\ request'[r].shown = request[r].shown
            /\ request'[r].session = request[r].session
        BY <4>1, <4>2 DEF Begun
      <4> QED  BY <3>1, <4>3, <1>1 DEF At, ReadsFile
    <3>2. CASE q # r
      <4>1. request'[q] = request[q]  BY <3>2, <1>1 DEF TrapsInv, TrapsTypeOK
      <4> QED  BY <4>1 DEF At, ReadsFile
    <3> QED  BY <3>1, <3>2
  <2>6. \A x, s : Backed(x, s)' <=> Backed(x, s)  BY <1>1 DEF Backed
  <2>7. BucketsOK' /\ KeptOnce'  BY <1>1 DEF TokensInv, BucketsOK, KeptOnce
  <2>8. ShownBacked'  BY <1>1, <2>5, <2>6 DEF TokensInv, ShownBacked
  <2>9. PICK owner \in [1 .. Len(content) -> Visitor] : OwnedBy(owner)  BY DEF TokensInv
  <2>10. \A u \in 1 .. Len(content') : \A g \in FileAsk : \A x \in Listed(content'[u][g].shown) :
           Backed(x, owner[u])'
    <3>1. \A x \in Listed(entry.shown) : Backed(x, owner[w])
      BY <1>1, <2>1, <2>3, <2>9 DEF OwnedBy, TokensInv, ShownBacked
    <3>2. \A u \in 1 .. Len(content) : \A g \in FileAsk : \A x \in Listed(content[u][g].shown) :
            Backed(x, owner[u])
      BY <2>9 DEF OwnedBy
    <3> QED  BY <2>4, <2>6, <3>1, <3>2
  <2>11. OwnedBy(owner)'
    <3>1. \A s \in Listed(worlds') : owner[worldOf'[s]] = s  BY <1>1, <2>9 DEF OwnedBy
    <3>2. \A q \in Request : ReadsFile(q)' => owner[request'[q].world] = request'[q].session
      BY <2>5, <2>9 DEF OwnedBy
    <3> QED  BY <2>10, <3>1, <3>2 DEF OwnedBy
  <2>12. owner \in [1 .. Len(content') -> Visitor]  BY <2>4, <2>9
  <2> QED  BY <2>7, <2>8, <2>11, <2>12 DEF TokensInv
<1> QED  BY <1>2, <1>3

(* A token that is issued is the one that is kept, and is kept from then on;  *)
(* a bucket dropped for it was idle for as long as it takes.                 *)
LEMMA IssueKeepsTokens ==
  ASSUME TrapsInv, TrapsInv', TokensInv, NEW r \in Request, IssueToken(r)
  PROVE  TokensInv'
<1> DEFINE s == request[r].session
           needs == Needs[request[r].ask]
           t == needs[Len(request[r].issued) + 1]
           token == IF KeptFor(t, s) = {} THEN minted + 1
                    ELSE (CHOOSE k \in KeptFor(t, s) : TRUE).token
           table == IF t \in PerSession THEN Used(buckets, s, MaxBuckets) ELSE buckets
           gone == Listed(buckets) \ Listed(table)
           entry == [template |-> t, token |-> token]
           record == [template |-> t, of |-> Owner(t, s), token |-> token]
           new == [request[r] EXCEPT !.shown = Append(request[r].shown, entry),
                                     !.issued = Append(request[r].issued, entry)]
<1>1. /\ request[r] \in Begun /\ s \in Visitor /\ ~At(r, "new") /\ request[r].at = "issue"
      /\ request[r].shown \in Seq(Token)
  BY RequestBegun DEF TrapsInv, IssueToken, At, Begun
<1>2. /\ request' = [request EXCEPT ![r] = new] /\ buckets' = table
      /\ kept' = {k \in kept : k.of \cap gone = {}} \cup
           IF t \in PerSession \cup PerInstall THEN {record} ELSE {}
      /\ dropped' = dropped \cup gone
      /\ idle' = IF t \in PerSession THEN UsedSince(idle, Visitor, s) ELSE idle
      /\ UNCHANGED <<worlds, worldOf, content, answers>>
  BY DEF IssueToken, UsedSince
<1>3. /\ new.shown = Append(request[r].shown, entry) /\ new.session = s /\ new.at = "issue"
      /\ new.ask = request[r].ask /\ new.world = request[r].world
  BY <1>1 DEF Begun
<1>4. KeptFor(t, s) # {} => \E k \in KeptFor(t, s) : k.token = token
  <2>1. CASE KeptFor(t, s) # {}
    <3> HIDE DEF t
    <3>1. (CHOOSE k \in KeptFor(t, s) : TRUE) \in KeptFor(t, s)  BY <2>1
    <3> QED  BY <2>1, <3>1
  <2> QED  BY <2>1
<1>5. entry.template = t /\ entry.token = token /\ record.template = t /\ record.of = Owner(t, s)
      /\ record.token = token
  OBVIOUS
<1> HIDE DEF new, t, token
<1>6. MaxBuckets \in Nat \ {0}  BY PersonaAssumption DEF PersonaAssumption
<1>7. BucketsOK'
  <2>1. CASE t \in PerSession
    <3>1. buckets' = Used(buckets, s, MaxBuckets) /\ idle' = UsedSince(idle, Visitor, s)
      BY <1>2, <2>1
    <3>2. /\ buckets \in Seq(Visitor) /\ Len(buckets) =< MaxBuckets /\ IsInjective(buckets)
          /\ InOrderOfUse(buckets, idle) /\ \A o \in Visitor : IsFiniteSet(idle[o])
      BY DEF TokensInv, BucketsOK
    <3> HIDE DEF s
    <3>3. /\ buckets' \in Seq(Visitor) /\ Len(buckets') =< MaxBuckets /\ IsInjective(buckets')
          /\ s \in Listed(buckets') /\ Listed(buckets') \subseteq Listed(buckets) \cup {s}
          /\ InOrderOfUse(buckets', idle') /\ \A o \in Visitor : IsFiniteSet(idle'[o])
          /\ \A o \in Listed(buckets) \ Listed(buckets') : Cardinality(idle'[o]) >= MaxBuckets
      BY <1>1, <1>6, <3>1, <3>2, UsedResult
    <3>4. idle' \in [Visitor -> SUBSET Visitor]
          /\ \A o \in Visitor : o # s => idle'[o] = idle[o] \cup {s}
      BY <1>1, <3>1 DEF UsedSince, TokensInv, BucketsOK
    <3>5. dropped' = dropped \cup (Listed(buckets) \ Listed(buckets'))  BY <1>2
    <3>6. Listed(buckets) \subseteq Visitor  BY <3>2 DEF Listed
    <3>7. dropped' \subseteq Visitor  BY <3>5, <3>6 DEF TokensInv, BucketsOK
    <3>8. ASSUME NEW o \in dropped'
          PROVE  o \in Listed(buckets') \/ Cardinality(idle'[o]) >= MaxBuckets
      <4>1. CASE o \in Listed(buckets)  BY <4>1, <3>3
      <4>2. CASE o \notin Listed(buckets) /\ o # s
        <5>1. o \in Visitor /\ Cardinality(idle[o]) >= MaxBuckets
          BY <4>2, <3>5, <3>8 DEF TokensInv, BucketsOK
        <5>2. IsFiniteSet(idle'[o]) /\ idle[o] \subseteq idle'[o] /\ IsFiniteSet(idle[o])
          BY <4>2, <5>1, <3>2, <3>3, <3>4
        <5>3. /\ Cardinality(idle[o]) =< Cardinality(idle'[o])
              /\ Cardinality(idle[o]) \in Nat /\ Cardinality(idle'[o]) \in Nat
          BY <5>2, FS_Subset, FS_CardinalityType
        <5> QED  BY <5>1, <5>3, <1>6
      <4>3. CASE o = s  BY <4>3, <3>3
      <4> QED  BY <4>1, <4>2, <4>3
    <3> QED  BY <3>3, <3>4, <3>7, <3>8 DEF BucketsOK
  <2>2. CASE t \notin PerSession
    <3>1. buckets' = buckets /\ idle' = idle /\ dropped' = dropped  BY <1>2, <2>2
    <3> QED  BY <3>1 DEF TokensInv, BucketsOK
  <2> QED  BY <2>1, <2>2
<1> HIDE DEF table, gone
<1>8. \A k \in kept' : k \in kept \/ (t \in PerSession \cup PerInstall /\ k = record)
  BY <1>2
<1>9. t \in PerSession \cup PerInstall => record \in kept'
  BY <1>2
<1> HIDE DEF record
<1>10. KeptOnce'
  <2> SUFFICES ASSUME NEW k \in kept', NEW l \in kept', k.template = l.template, k.of = l.of
               PROVE  k.token = l.token
    BY DEF KeptOnce
  <2>1. ASSUME NEW j \in kept, j.template = t, j.of = Owner(t, s) PROVE j.token = token
    <3>1. j \in KeptFor(t, s)  BY <2>1 DEF KeptFor
    <3>2. PICK k2 \in KeptFor(t, s) : k2.token = token  BY <1>4, <3>1
    <3>3. k2 \in kept /\ k2.template = t /\ k2.of = Owner(t, s)  BY <3>2 DEF KeptFor
    <3> QED  BY <2>1, <3>2, <3>3 DEF TokensInv, KeptOnce
  <2>2. CASE k \in kept /\ l \in kept  BY <2>2 DEF TokensInv, KeptOnce
  <2>3. CASE k = record /\ l \in kept  BY <2>1, <2>3, <1>5
  <2>4. CASE k \in kept /\ l = record  BY <2>1, <2>4, <1>5
  <2>5. CASE k = record /\ l = record  BY <2>5
  <2> QED  BY <2>2, <2>3, <2>4, <2>5, <1>8
<1>11. ASSUME NEW x, NEW v, Backed(x, v) PROVE Backed(x, v)'
  <2>1. dropped \subseteq dropped'  BY <1>2
  <2>2. CASE x.template \notin PerSession \cup PerInstall  BY <2>2 DEF Backed
  <2>3. CASE x.template \in PerSession /\ v \in dropped  BY <2>1, <2>3 DEF Backed
  <2>4. CASE [template |-> x.template, of |-> Owner(x.template, v), token |-> x.token] \in kept
    <3> DEFINE k == [template |-> x.template, of |-> Owner(x.template, v), token |-> x.token]
    <3>1. k.of = Owner(x.template, v)  OBVIOUS
    <3>2. k \in kept  BY <2>4
    <3>3. CASE x.template \in PerSession /\ v \in gone
      <4>1. v \in dropped'  BY <3>3, <1>2
      <4> QED  BY <3>3, <4>1 DEF Backed
    <3>4. CASE ~(x.template \in PerSession /\ v \in gone)
      <4>1. k.of \cap gone = {}  BY <3>1, <3>4 DEF Owner
      <4> HIDE DEF k
      <4>2. k \in kept'  BY <3>2, <4>1, <1>2
      <4> QED  BY <4>2 DEF Backed, k
    <3> QED  BY <3>3, <3>4
  <2> QED  BY <1>11, <2>2, <2>3, <2>4 DEF Backed
<1>12. PICK e, v : e = entry /\ v = s  OBVIOUS
<1>13. Backed(e, v)'
  <2>1. CASE t \in PerSession \cup PerInstall
    <3>1. [template |-> e.template, of |-> Owner(e.template, v), token |-> e.token] \in kept'
      BY <1>5, <1>9, <1>12, <2>1 DEF record
    <3> QED  BY <3>1 DEF Backed
  <2>2. CASE t \notin PerSession \cup PerInstall  BY <2>2, <1>5, <1>12 DEF Backed
  <2> QED  BY <2>1, <2>2
<1>14. request'[r] = new /\ \A q \in Request : q # r => request'[q] = request[q]
  BY <1>2 DEF TrapsInv, TrapsTypeOK
<1>15. ShownBacked'
  <2>1. \A x \in Listed(new.shown) : Backed(x, v)'
    <3> SUFFICES ASSUME NEW x \in Listed(new.shown) PROVE Backed(x, v)'  OBVIOUS
    <3>1. entry \in Token
      <4>1. request'[r] \in Begun  BY <1>3, <1>14 DEF TrapsInv, TrapsTypeOK
      <4>2. new.shown \in Seq(Token)  BY <4>1, <1>14 DEF Begun
      <4>3. new.shown[Len(new.shown)] \in Token /\ new.shown[Len(new.shown)] = entry
        <5> HIDE DEF entry
        <5>1. Len(new.shown) = Len(request[r].shown) + 1 /\ new.shown[Len(request[r].shown) + 1] = entry
          BY <1>1, <1>3
        <5> QED  BY <4>2, <5>1, <1>1
      <4> QED  BY <4>3
    <3>2. x \in Listed(request[r].shown) \/ x = entry
      <4> HIDE DEF entry
      <4> QED  BY <1>1, <1>3, <3>1 DEF Listed
    <3>3. CASE x \in Listed(request[r].shown)
      <4>1. Backed(x, v)  BY <3>3, <1>1, <1>12 DEF TokensInv, ShownBacked
      <4> QED  BY <4>1, <1>11
    <3>4. CASE x = entry  BY <3>4, <1>12, <1>13
    <3> QED  BY <3>2, <3>3, <3>4
  <2>2. ASSUME NEW q \in Request, ~At(q, "new")', NEW x \in Listed(request'[q].shown)
        PROVE  Backed(x, request[q].session)'
    <3>1. CASE q = r
      <4>1. request'[q] = new /\ request'[q].session = v  BY <3>1, <1>3, <1>12, <1>14
      <4>2. Backed(x, v)'  BY <2>1, <2>2, <4>1
      <4> QED  BY <4>1, <4>2 DEF Backed
    <3>2. CASE q # r
      <4>1. request'[q] = request[q] /\ ~At(q, "new")  BY <3>2, <2>2, <1>14 DEF At
      <4>2. PICK u : u = request[q].session  OBVIOUS
      <4>3. Backed(x, u)  BY <2>2, <4>1, <4>2 DEF TokensInv, ShownBacked
      <4>4. Backed(x, u)'  BY <4>3, <1>11
      <4> QED  BY <4>1, <4>2, <4>4 DEF Backed
    <3> QED  BY <3>1, <3>2
  <2>3. ASSUME NEW a \in answers', NEW x \in Listed(a.shown)
        PROVE  Backed(x, a.session)'
    <3>1. Backed(x, a.session)  BY <1>2, <2>3 DEF TokensInv, ShownBacked
    <3> QED  BY <3>1, <1>11
  <2> QED  BY <2>2, <2>3 DEF ShownBacked, Backed
<1>16. PICK owner \in [1 .. Len(content) -> Visitor] : OwnedBy(owner)  BY DEF TokensInv
<1>17. OwnedBy(owner)'
  <2>1. \A u \in Listed(worlds') : owner[worldOf'[u]] = u  BY <1>2, <1>16 DEF OwnedBy
  <2>2. \A q \in Request : ReadsFile(q)' => owner[request'[q].world] = request'[q].session
    <3> SUFFICES ASSUME NEW q \in Request, ReadsFile(q)'
                 PROVE  owner[request'[q].world] = request'[q].session
      OBVIOUS
    <3>1. CASE q = r
      <4>1. ReadsFile(r)  BY <3>1, <1>1, <1>3, <1>14 DEF ReadsFile, At
      <4> QED  BY <3>1, <4>1, <1>3, <1>14, <1>16 DEF OwnedBy
    <3>2. CASE q # r
      <4>1. ReadsFile(q) /\ request'[q] = request[q]  BY <3>2, <1>14 DEF ReadsFile, At
      <4> QED  BY <4>1, <1>16 DEF OwnedBy
    <3> QED  BY <3>1, <3>2
  <2>3. ASSUME NEW w \in 1 .. Len(content'), NEW f \in FileAsk, NEW x \in Listed(content'[w][f].shown)
        PROVE  Backed(x, owner[w])'
    <3>1. Backed(x, owner[w])  BY <2>3, <1>2, <1>16 DEF OwnedBy
    <3> QED  BY <3>1, <1>11
  <2> QED  BY <2>1, <2>2, <2>3 DEF OwnedBy
<1>18. owner \in [1 .. Len(content') -> Visitor]  BY <1>2, <1>16
<1> QED  BY <1>7, <1>10, <1>15, <1>17, <1>18 DEF TokensInv

----------------------------------------------------------------------------
(* Requests whose body is there, and not sent yet.                           *)
Due(r) == At(r, "report") \/ At(r, "send")

Reads(r, w, f) == At(r, "issue") /\ request[r].world = w /\ request[r].ask = f

(* Of a file: nobody shows it, or all show it as this.                       *)
Unshown(w, f) ==
  /\ \A r \in Request : Due(r) => request[r].world # w \/ request[r].ask # f
  /\ \A a \in answers : a.world # w \/ a.ask # f

ShownAs(w, f, body) ==
  /\ \A r \in Request : Due(r) => \/ request[r].world # w \/ request[r].ask # f
                                  \/ request[r].shown = body
  /\ \A a \in answers : a.world # w \/ a.ask # f \/ a.shown = body

(* A file was missing twice; or it was not made yet, and at most one request *)
(* makes it; or it was made once, and is shown as it is kept.                *)
Unmade(w, f) ==
  /\ Unshown(w, f) /\ f \notin Listed(files[w])
  /\ \A q, r \in Request : Reads(q, w, f) /\ Reads(r, w, f) => q = r
  /\ f \notin missed[w].once => \A r \in Request : ~Reads(r, w, f)

Made(w, f) ==
  /\ f \in missed[w].once /\ \A r \in Request : ~Reads(r, w, f)
  /\ ShownAs(w, f, content[w][f].shown)

FileKept(w, f) == f \in missed[w].twice \/ Unmade(w, f) \/ Made(w, f)

(* Without a world a file is not shown.                                      *)
InWorld(a) == a.ask \in FileAsk => a.world \in 1 .. Len(content) \/ (a.world = 0 /\ a.shown = << >>)

Missing == [once : SUBSET FileAsk, twice : SUBSET FileAsk]

FilesInv ==
  /\ missed \in Seq(Missing) /\ Len(missed) = Len(content)
  /\ \A w \in 1 .. Len(content), f \in FileAsk : FileKept(w, f)
  /\ \A r \in Request : Due(r) => InWorld(request[r])
  /\ \A a \in answers : InWorld(a)

(* No file is shown and none is kept. *)
LEMMA FilesInitInv == ASSUME TrapsInit PROVE FilesInv
  BY DEF TrapsInit, FilesInv, Due, At

(* A step of one request that leaves the files of the worlds as they are.    *)
LEMMA OneRequestKeepsFiles ==
  ASSUME TrapsInv, FilesInv, NEW r \in Request, NEW new,
         request' = [request EXCEPT ![r] = new], UNCHANGED <<content, missed>>,
         Len(files') = Len(files),
         \A w \in 1 .. Len(content) : Listed(files'[w]) \subseteq Listed(files[w]),
         new.at = "issue" /\ new.ask \in FileAsk => Reads(r, new.world, new.ask),
         new.at \in {"report", "send"} =>
           \/ Due(r) /\ new.world = request[r].world /\ new.ask = request[r].ask
                     /\ new.shown = request[r].shown
           \/ new.ask \notin FileAsk
           \/ new.world = 0 /\ new.shown = << >>
           \/ /\ new.world \in 1 .. Len(content) /\ new.ask \in Listed(files[new.world])
              /\ new.shown = content[new.world][new.ask].shown,
         \A a \in answers' : a \in answers \/
           (Due(r) /\ a.world = request[r].world /\ a.ask = request[r].ask /\ a.shown = request[r].shown)
  PROVE  FilesInv'
<1>1. request'[r] = new /\ \A q \in Request : q # r => request'[q] = request[q]
  BY DEF TrapsInv, TrapsTypeOK
<1>0. Len(content) \in Nat  BY DEF TrapsInv, TrapsTypeOK
<1>2. ASSUME NEW w \in 1 .. Len(content), NEW f \in FileAsk
      PROVE  FileKept(w, f)'
  <2>1. \A q \in Request : Reads(q, w, f)' => Reads(q, w, f)
    BY <1>1 DEF Reads, At
  <2>2. CASE f \in missed[w].twice  BY <2>2 DEF FileKept
  <2>3. CASE Unmade(w, f)
    <3>1. Unshown(w, f)'
      <4>1. \A q \in Request : Due(q)' => request'[q].world # w \/ request'[q].ask # f
        <5> SUFFICES ASSUME NEW q \in Request, Due(q)', request'[q].world = w, request'[q].ask = f
                     PROVE FALSE
          OBVIOUS
        <5>1. CASE q # r  BY <5>1, <1>1, <2>3 DEF Unmade, Unshown, Due, At
        <5>2. CASE q = r
          <6>1. new.at \in {"report", "send"} /\ new.world = w /\ new.ask = f
            BY <5>2, <1>1 DEF Due, At
          <6>2. w # 0  BY <1>0
          <6> QED  BY <6>1, <6>2, <2>3 DEF Unmade, Unshown
        <5> QED  BY <5>1, <5>2
      <4>2. \A a \in answers' : a.world # w \/ a.ask # f
        BY <2>3 DEF Unmade, Unshown
      <4> QED  BY <4>1, <4>2 DEF Unshown
    <3>2. f \notin Listed(files'[w])  BY <2>3 DEF Unmade
    <3> QED  BY <2>1, <2>3, <3>1, <3>2 DEF Unmade, FileKept
  <2>4. CASE Made(w, f)
    <3> DEFINE body == content[w][f].shown
    <3>1. \A q \in Request : Due(q)' => \/ request'[q].world # w \/ request'[q].ask # f
                                        \/ request'[q].shown = body
      <4> SUFFICES ASSUME NEW q \in Request, Due(q)', request'[q].world = w, request'[q].ask = f
                   PROVE request'[q].shown = body
        OBVIOUS
      <4>1. CASE q # r  BY <4>1, <1>1, <2>4 DEF Made, ShownAs, Due, At
      <4>2. CASE q = r
        <5>1. new.at \in {"report", "send"} /\ new.world = w /\ new.ask = f /\ new = request'[q]
          BY <4>2, <1>1 DEF Due, At
        <5>2. w # 0  BY <1>0
        <5> QED  BY <5>1, <5>2, <2>4 DEF Made, ShownAs
      <4> QED  BY <4>1, <4>2
    <3>2. \A a \in answers' : a.world # w \/ a.ask # f \/ a.shown = body
      BY <2>4 DEF Made, ShownAs
    <3> QED  BY <2>1, <2>4, <3>1, <3>2 DEF Made, ShownAs, FileKept
  <2> QED  BY <2>2, <2>3, <2>4 DEF FilesInv, FileKept
<1>3. ASSUME NEW q \in Request, Due(q)' PROVE InWorld(request[q])'
  <2>1. CASE q # r  BY <2>1, <1>1, <1>3 DEF FilesInv, InWorld, Due, At
  <2>2. CASE q = r
    <3>1. new.at \in {"report", "send"} /\ new = request'[q]  BY <2>2, <1>1, <1>3 DEF Due, At
    <3> QED  BY <3>1 DEF FilesInv, InWorld
  <2> QED  BY <2>1, <2>2
<1>4. ASSUME NEW a \in answers' PROVE InWorld(a)'
  BY <1>4 DEF FilesInv, InWorld
<1> QED  BY <1>2, <1>3, <1>4 DEF FilesInv

(* A request that is let in shows nothing yet. *)
LEMMA CheckPackKeepsFiles ==
  ASSUME TrapsInv, FilesInv, NEW r \in Request, NEW s \in Visitor, NEW a \in Ask, CheckPack(r, s, a)
  PROVE  FilesInv'
<1> DEFINE new == [at |-> IF pack THEN "enter" ELSE "send", session |-> s, ask |-> a, world |-> 0,
                   shown |-> << >>, issued |-> << >>]
<1>1. /\ request' = [request EXCEPT ![r] = new] /\ new.at \in {"enter", "send"}
      /\ new.world = 0 /\ new.shown = << >>
  BY DEF CheckPack
<1>2. UNCHANGED <<files, content, missed, answers>>  BY DEF CheckPack
<1> HIDE DEF new
<1> QED  BY <1>1, <1>2, OneRequestKeepsFiles

(* A request that only moves on.                                            *)
LEMMA MoveKeepsFiles ==
  ASSUME TrapsInv, FilesInv, NEW r \in Request, ~At(r, "new"),
         NEW place \in {"raised", "issue", "report", "send", "ended"},
         request' = [request EXCEPT ![r].at = place],
         UNCHANGED <<files, content, missed>>,
         place = "issue" => request[r].ask \notin FileAsk,
         place \in {"report", "send"} => Due(r) \/ request[r].ask \notin FileAsk,
         \A a \in answers' : a \in answers \/
           (Due(r) /\ a.world = request[r].world /\ a.ask = request[r].ask /\ a.shown = request[r].shown)
  PROVE  FilesInv'
<1> DEFINE new == [request[r] EXCEPT !.at = place]
<1>1. request[r] \in Begun  BY RequestBegun DEF TrapsInv
<1>2. /\ new.at = place /\ new.shown = request[r].shown /\ new.ask = request[r].ask
      /\ new.world = request[r].world
  BY <1>1 DEF Begun
<1>3. request' = [request EXCEPT ![r] = new]  OBVIOUS
<1> HIDE DEF new
<1>4. new.at = "issue" /\ new.ask \in FileAsk => Reads(r, new.world, new.ask)  BY <1>2
<1>5. new.at \in {"report", "send"} =>
           \/ Due(r) /\ new.world = request[r].world /\ new.ask = request[r].ask
                     /\ new.shown = request[r].shown
           \/ new.ask \notin FileAsk
  BY <1>2
<1>6. UNCHANGED <<content, missed>> /\ files' = files  OBVIOUS
<1> QED  BY <1>3, <1>4, <1>5, <1>6, OneRequestKeepsFiles

(* A token that is issued changes no file.                                   *)
LEMMA IssueKeepsFiles ==
  ASSUME TrapsInv, FilesInv, NEW r \in Request, IssueToken(r)
  PROVE  FilesInv'
<1>1. PICK look, mint :
        request' = [request EXCEPT ![r].shown = look, ![r].issued = mint]
  BY DEF IssueToken
<1> DEFINE new == [request[r] EXCEPT !.shown = look, !.issued = mint]
<1>2. request[r] \in Begun /\ At(r, "issue")  BY RequestBegun DEF TrapsInv, IssueToken, At
<1>3. new.at = "issue" /\ new.ask = request[r].ask /\ new.world = request[r].world
  BY <1>2 DEF Begun, At
<1>4. request' = [request EXCEPT ![r] = new] /\ UNCHANGED <<files, content, missed, answers>>
  BY ZenonT(30), <1>1 DEF IssueToken
<1> HIDE DEF new
<1>5. Reads(r, new.world, new.ask)  BY <1>2, <1>3 DEF Reads
<1> QED  BY <1>3, <1>4, <1>5, OneRequestKeepsFiles

(* A file that is found is shown as it is kept; one that is not is missing.  *)
LEMMA LookKeepsFiles ==
  ASSUME TrapsInv, FilesInv, NEW r \in Request, LookForFile(r)
  PROVE  FilesInv'
<1> USE PersonaAssumption DEF PersonaAssumption
<1> DEFINE w == request[r].world
           f == request[r].ask
<1>1. /\ request[r] \in Begun /\ f \in FileAsk /\ w \in 1 .. Len(content) /\ w \in 1 .. Len(files)
      /\ files \in Seq(Seq(FileAsk)) /\ files[w] \in Seq(FileAsk) /\ Len(content) \in Nat
  BY RequestBegun DEF TrapsInv, TrapsTypeOK, LookForFile, At, WorldsMade
<1>2. CASE f \in Listed(files[w])
  <2> DEFINE new == [request[r] EXCEPT !.at = "report", !.shown = content[w][f].shown,
                                       !.issued = content[w][f].issued]
  <2>1. /\ request' = [request EXCEPT ![r] = new]
        /\ files' = [files EXCEPT ![w] = Used(files[w], f, MaxFilesKept)]
        /\ UNCHANGED <<content, missed, answers>>
    BY <1>2 DEF LookForFile
  <2>2. new.at = "report" /\ new.world = w /\ new.ask = f /\ new.shown = content[w][f].shown
    BY <1>1 DEF Begun
  <2>3. Listed(Used(files[w], f, MaxFilesKept)) \subseteq Listed(files[w])
    <3>1. MaxFilesKept \in Nat \ {0}  OBVIOUS
    <3> HIDE DEF w, f
    <3>2. Listed(Used(files[w], f, MaxFilesKept)) \subseteq Listed(files[w]) \cup {f}
      BY <1>1, <3>1, UsedKeys
    <3> QED  BY <1>2, <3>2
  <2>4. Len(files') = Len(files) /\ \A v \in 1 .. Len(content) : Listed(files'[v]) \subseteq Listed(files[v])
    <3>1. Len(content) = Len(files)  BY DEF TrapsInv, WorldsMade
    <3> QED  BY <1>1, <2>1, <2>3, <3>1
  <2> HIDE DEF new
  <2> QED  BY <1>1, <1>2, <2>1, <2>2, <2>4, OneRequestKeepsFiles
<1>3. CASE f \notin Listed(files[w])
  <2> DEFINE new == [request[r] EXCEPT !.at = "issue"]
             m == [once |-> missed[w].once \cup {f}, twice |-> missed[w].twice \cup (missed[w].once \cap {f})]
  <2>1. /\ request' = [request EXCEPT ![r] = new] /\ missed' = [missed EXCEPT ![w] = m]
        /\ UNCHANGED <<files, content, answers>>
    BY <1>3 DEF LookForFile, Move
  <2>2. new.at = "issue" /\ new.world = w /\ new.ask = f
    BY <1>1 DEF Begun
  <2>3. missed \in Seq(Missing) /\ Len(missed) = Len(content) /\ missed[w] \in Missing
    BY <1>1 DEF FilesInv
  <2>4. m \in Missing /\ f \in m.once /\ m.twice = missed[w].twice \cup (missed[w].once \cap {f})
        /\ m.once = missed[w].once \cup {f}
    BY <1>1, <2>3 DEF Missing
  <2> HIDE DEF new, m
  <2>5. missed' \in Seq(Missing) /\ Len(missed') = Len(missed) /\ missed'[w] = m
        /\ \A v \in 1 .. Len(content) : v # w => missed'[v] = missed[v]
    BY <1>1, <2>1, <2>3, <2>4
  <2>6. request'[r] = new /\ \A q \in Request : q # r => request'[q] = request[q]
    BY <2>1 DEF TrapsInv, TrapsTypeOK
  <2>7. \A q \in Request : Due(q)' => Due(q) /\ request'[q] = request[q]
    BY <2>2, <2>6 DEF Due, At
  <2>8. ASSUME NEW v \in 1 .. Len(content), NEW g \in FileAsk
        PROVE  FileKept(v, g)'
    <3>1. FileKept(v, g)  BY DEF FilesInv
    <3>2. Unshown(v, g) => Unshown(v, g)'  BY <2>1, <2>7 DEF Unshown
    <3>3. \A body : ShownAs(v, g, body) => ShownAs(v, g, body)'  BY <2>1, <2>7 DEF ShownAs
    <3>4. CASE v = w /\ g = f
      <4>1. CASE f \in missed[w].once
        <5>1. f \in missed'[w].twice  BY <2>4, <2>5, <4>1
        <5> QED  BY <3>4, <5>1 DEF FileKept
      <4>2. CASE f \notin missed[w].once
        <5>1. CASE f \in missed[w].twice
          <6>1. f \in missed'[w].twice  BY <2>4, <2>5, <5>1
          <6> QED  BY <3>4, <6>1 DEF FileKept
        <5>2. CASE f \notin missed[w].twice
          <6>1. Unmade(w, f) /\ \A q \in Request : ~Reads(q, w, f)
            BY <3>1, <3>4, <4>2, <5>2 DEF FileKept, Unmade, Made
          <6>2. \A q \in Request : Reads(q, v, g)' => q = r
            BY <2>6, <3>4, <6>1 DEF Reads, At
          <6>3. g \in missed'[v].once /\ g \notin Listed(files'[v])
            BY <2>1, <2>4, <2>5, <3>4, <1>3
          <6>4. Unshown(v, g)'  BY <3>2, <3>4, <6>1 DEF Unmade
          <6> QED  BY <6>2, <6>3, <6>4 DEF FileKept, Unmade
        <5> QED  BY <5>1, <5>2
      <4> QED  BY <4>1, <4>2
    <3>5. CASE ~(v = w /\ g = f)
      <4>1. g \in missed'[v].once <=> g \in missed[v].once
        <5>1. CASE v = w  BY <2>4, <2>5, <3>5, <5>1
        <5>2. CASE v # w  BY <2>5, <5>2
        <5> QED  BY <5>1, <5>2
      <4>2. g \in missed'[v].twice <=> g \in missed[v].twice
        <5>1. CASE v = w  BY <2>4, <2>5, <3>5, <5>1
        <5>2. CASE v # w  BY <2>5, <5>2
        <5> QED  BY <5>1, <5>2
      <4>3. \A q \in Request : Reads(q, v, g)' => Reads(q, v, g)
        BY <2>2, <2>6, <3>5 DEF Reads, At
      <4>4. Unmade(v, g) => Unmade(v, g)'
        BY <2>1, <3>2, <4>1, <4>3 DEF Unmade
      <4>5. Made(v, g) => Made(v, g)'
        BY <2>1, <3>3, <4>1, <4>3 DEF Made
      <4> QED  BY <3>1, <4>2, <4>4, <4>5 DEF FileKept
    <3> QED  BY <3>4, <3>5
  <2>9. ASSUME NEW q \in Request, Due(q)' PROVE InWorld(request[q])'
    BY <2>1, <2>7, <2>9 DEF FilesInv, InWorld
  <2>10. \A a \in answers' : InWorld(a)'  BY <2>1 DEF FilesInv, InWorld
  <2> QED  BY <2>1, <2>3, <2>5, <2>8, <2>9, <2>10 DEF FilesInv
<1> QED  BY <1>2, <1>3

(* A file that is made is kept as its request shows it.                      *)
LEMMA FinishKeepsFiles ==
  ASSUME TrapsInv, FilesInv, NEW r \in Request, FinishBody(r)
  PROVE  FilesInv'
<1> DEFINE w == request[r].world
           f == request[r].ask
           new == [request[r] EXCEPT !.at = "report"]
           entry == [shown |-> request[r].shown, issued |-> request[r].issued]
<1>1. /\ request[r] \in Begun /\ ~At(r, "new") /\ At(r, "issue")
      /\ request' = [request EXCEPT ![r] = new] /\ UNCHANGED <<missed, answers>>
      /\ f \in FileAsk => w \in 1 .. Len(content)
  BY RequestBegun DEF TrapsInv, FinishBody, Move, At, WorldsMade
<1>2. new.at = "report" /\ new.world = w /\ new.ask = f /\ new.shown = request[r].shown
  BY <1>1 DEF Begun
<1>3. CASE f \notin FileAsk
  <2>1. UNCHANGED <<files, content>>  BY <1>3 DEF FinishBody
  <2> QED  BY <1>1, <1>3, <2>1, MoveKeepsFiles
<1>4. CASE f \in FileAsk
  <2>1. /\ content' = [content EXCEPT ![w] = [content[w] EXCEPT ![f] = entry]]
        /\ files' = [files EXCEPT ![w] = Used(files[w], f, MaxFilesKept)]
    BY <1>4 DEF FinishBody
  <2>2. entry.shown = request[r].shown  OBVIOUS
  <2> HIDE DEF entry, new
  <2>3. /\ Len(content') = Len(content) /\ Len(content) \in Nat
        /\ \A u \in 1 .. Len(content) : \A g \in FileAsk :
             content'[u][g] = (IF u = w /\ g = f THEN entry ELSE content[u][g])
    BY <1>1, <1>4, <2>1 DEF TrapsInv, TrapsTypeOK
  <2>4. \A u \in 1 .. Len(content) : Listed(files'[u]) \subseteq Listed(files[u]) \cup (IF u = w THEN {f} ELSE {})
    <3>1. /\ files \in Seq(Seq(FileAsk)) /\ Len(files) = Len(content) /\ files[w] \in Seq(FileAsk)
          /\ MaxFilesKept \in Nat \ {0}
      BY <1>1, <1>4, PersonaAssumption DEF TrapsInv, TrapsTypeOK, WorldsMade, PersonaAssumption
    <3>2. Listed(Used(files[w], f, MaxFilesKept)) \subseteq Listed(files[w]) \cup {f}
      <4> HIDE DEF w, f
      <4> QED  BY <1>4, <3>1, UsedKeys
    <3> QED  BY <1>1, <1>4, <2>1, <3>1, <3>2
  <2>5. request'[r] = new /\ \A q \in Request : q # r => request'[q] = request[q]
    BY <1>1 DEF TrapsInv, TrapsTypeOK
  <2>6. \A q \in Request : Due(q)' => (Due(q) /\ request'[q] = request[q]) \/ (q = r /\ request'[q] = new)
    BY <2>5 DEF Due, At
  <2>7. ASSUME NEW v \in 1 .. Len(content), NEW g \in FileAsk
        PROVE  FileKept(v, g)'
    <3>1. FileKept(v, g)  BY DEF FilesInv
    <3>2. CASE g \in missed[v].twice  BY <3>2, <1>1 DEF FileKept
    <3>3. \A q \in Request : Reads(q, v, g)' => Reads(q, v, g) /\ q # r
      BY <1>2, <2>5 DEF Reads, At
    <3>4. CASE v = w /\ g = f /\ g \notin missed[v].twice
      <4>1. Reads(r, w, f)  BY <1>1 DEF Reads
      <4>2. Unmade(w, f) /\ f \in missed[w].once
        BY <3>1, <3>4, <4>1 DEF FileKept, Made, Unmade
      <4>3. \A q \in Request : ~Reads(q, v, g)'
        BY <3>3, <3>4, <4>1, <4>2 DEF Unmade
      <4>4. content'[v][g].shown = request[r].shown  BY <2>2, <2>3, <3>4
      <4>5. \A q \in Request : Due(q)' => \/ request'[q].world # v \/ request'[q].ask # g
                                          \/ request'[q].shown = content'[v][g].shown
        BY <1>2, <2>6, <3>4, <4>2, <4>4 DEF Unmade, Unshown
      <4>6. \A a \in answers' : a.world # v \/ a.ask # g
        BY <1>1, <3>4, <4>2 DEF Unmade, Unshown
      <4>7. g \in missed'[v].once  BY <1>1, <3>4, <4>2
      <4> QED  BY <4>3, <4>5, <4>6, <4>7 DEF FileKept, Made, ShownAs
    <3>5. CASE ~(v = w /\ g = f) /\ g \notin missed[v].twice
      <4>1. \A q \in Request : Due(q)' =>
              (Due(q) /\ request'[q] = request[q]) \/ request'[q].world # v \/ request'[q].ask # g
        BY <1>2, <2>6, <3>5
      <4>2. Unmade(v, g) => Unmade(v, g)'
        <5>1. Unshown(v, g) => Unshown(v, g)'  BY <1>1, <4>1 DEF Unshown
        <5>2. g \notin Listed(files[v]) => g \notin Listed(files'[v])  BY <2>4, <3>5
        <5> QED  BY <1>1, <3>3, <5>1, <5>2 DEF Unmade
      <4>3. Made(v, g) => Made(v, g)'
        <5>1. content'[v][g] = content[v][g]  BY <2>3, <3>5
        <5>2. \A body : ShownAs(v, g, body) => ShownAs(v, g, body)'  BY <1>1, <4>1 DEF ShownAs
        <5> QED  BY <1>1, <3>3, <5>1, <5>2 DEF Made
      <4> QED  BY <3>1, <3>5, <4>2, <4>3 DEF FileKept
    <3> QED  BY <3>2, <3>4, <3>5
  <2>8. ASSUME NEW q \in Request, Due(q)' PROVE InWorld(request[q])'
    <3>1. CASE Due(q) /\ request'[q] = request[q]
      BY <3>1, <2>3 DEF FilesInv, InWorld
    <3>2. CASE q = r /\ request'[q] = new
      BY <3>2, <1>1, <1>2, <1>4, <2>3 DEF InWorld
    <3> QED  BY <2>6, <2>8, <3>1, <3>2
  <2>9. \A a \in answers' : InWorld(a)'  BY <1>1, <2>3 DEF FilesInv, InWorld
  <2> QED  BY <1>1, <2>3, <2>7, <2>8, <2>9 DEF FilesInv
<1> QED  BY <1>3, <1>4

(* A world that is new has no files.                                         *)
LEMMA EnterWorldKeepsFiles ==
  ASSUME TrapsInv, FilesInv, NEW r \in Request, EnterWorld(r)
  PROVE  FilesInv'
<1> DEFINE s == request[r].session
           L == Len(content)
           place == IF request[r].ask \in FileAsk THEN "look" ELSE "issue"
           world == IF s \notin Listed(worlds) THEN L + 1 ELSE worldOf[s]
           new == [request[r] EXCEPT !.at = place, !.world = world]
           fresh == [f \in FileAsk |-> NoFile]
           blank == [once |-> {}, twice |-> {}]
<1>1. /\ request[r] \in Begun /\ L \in Nat /\ content \in Seq([FileAsk -> Entry])
      /\ files \in Seq(Seq(FileAsk)) /\ Len(files) = L /\ missed \in Seq(Missing) /\ Len(missed) = L
  BY RequestBegun DEF TrapsInv, TrapsTypeOK, EnterWorld, At, WorldsMade, FilesInv
<1>2. request' = [request EXCEPT ![r] = new] /\ UNCHANGED answers
  BY DEF EnterWorld
<1>3. /\ new.ask = request[r].ask /\ new.at \in {"look", "issue"}
      /\ new.at = "issue" => new.ask \notin FileAsk
  BY <1>1 DEF Begun
<1> HIDE DEF new, world, place
<1>4. CASE s \in Listed(worlds)
  <2>1. UNCHANGED <<files, content, missed>>  BY <1>4 DEF EnterWorld
  <2> QED  BY <1>2, <1>3, <2>1, OneRequestKeepsFiles
<1>5. CASE s \notin Listed(worlds)
  <2>1. /\ files' = Append(files, << >>) /\ content' = Append(content, fresh)
        /\ missed' = Append(missed, blank)
    BY <1>5 DEF EnterWorld
  <2>2. blank \in Missing /\ << >> \in Seq(FileAsk) /\ blank.once = {} /\ blank.twice = {}
        /\ \A f \in FileAsk : fresh[f] = NoFile
    BY DEF Missing
  <2> HIDE DEF fresh, blank
  <2>3. /\ missed' \in Seq(Missing) /\ Len(missed') = L + 1 /\ Len(content') = L + 1
        /\ missed'[L + 1] = blank /\ files'[L + 1] = << >>
        /\ \A w \in 1 .. L : missed'[w] = missed[w] /\ files'[w] = files[w] /\ content'[w] = content[w]
    <3>1. fresh \in [FileAsk -> Entry]  BY <2>2 DEF NoFile, Entry, fresh
    <3> QED  BY <1>1, <2>1, <2>2, <3>1
  <2>4. request'[r] = new /\ \A q \in Request : q # r => request'[q] = request[q]
    BY <1>2 DEF TrapsInv, TrapsTypeOK
  <2>5. \A q \in Request : Due(q)' => Due(q) /\ request'[q] = request[q]
    BY <1>3, <2>4 DEF Due, At
  <2>6. \A w : \A f \in FileAsk : \A q \in Request : Reads(q, w, f)' => Reads(q, w, f)
    BY <1>3, <2>4 DEF Reads, At
  <2>7. ASSUME NEW w \in 1 .. Len(content'), NEW f \in FileAsk
        PROVE  FileKept(w, f)'
    <3>1. CASE w = L + 1
      <4>1. ~(w \in 1 .. L) /\ w # 0  BY <1>1, <3>1
      <4>2. \A q \in Request : ~Reads(q, w, f)'
        <5>1. \A q \in Request : ~Reads(q, w, f)  BY <4>1 DEF Reads, TrapsInv, WorldsMade
        <5> QED  BY <5>1, <2>6
      <4>3. Unshown(w, f)'
        BY <1>2, <2>5, <4>1 DEF FilesInv, InWorld, Unshown
      <4>4. f \notin Listed(files'[w])  BY <2>3, <3>1 DEF Listed
      <4> QED  BY <4>2, <4>3, <4>4 DEF FileKept, Unmade
    <3>2. CASE w # L + 1
      <4>1. w \in 1 .. L  BY <1>1, <2>3, <3>2
      <4>2. FileKept(w, f)  BY <4>1 DEF FilesInv
      <4>3. Unshown(w, f) => Unshown(w, f)'  BY <1>2, <2>5 DEF Unshown
      <4>4. Unmade(w, f) => Unmade(w, f)'
        BY <2>3, <2>6, <4>1, <4>3 DEF Unmade
      <4>5. Made(w, f) => Made(w, f)'
        <5>1. \A body : ShownAs(w, f, body) => ShownAs(w, f, body)'  BY <1>2, <2>5 DEF ShownAs
        <5> QED  BY <2>3, <2>6, <4>1, <5>1 DEF Made
      <4> QED  BY <2>3, <4>1, <4>2, <4>4, <4>5 DEF FileKept
    <3> QED  BY <3>1, <3>2
  <2>8. ASSUME NEW q \in Request, Due(q)' PROVE InWorld(request[q])'
    <3>1. Due(q) /\ request'[q] = request[q]  BY <2>5, <2>8
    <3>2. InWorld(request[q])  BY <3>1 DEF FilesInv
    <3>3. L \in Nat /\ Len(content') = L + 1  BY <1>1, <2>3
    <3> QED  BY <3>1, <3>2, <3>3 DEF InWorld
  <2>9. \A a \in answers' : InWorld(a)'
    BY <1>1, <1>2, <2>3 DEF FilesInv, InWorld
  <2> QED  BY <2>3, <2>7, <2>8, <2>9 DEF FilesInv
<1> QED  BY <1>4, <1>5

(* The steps that neither issue a token nor open a world or a file.          *)
LEMMA OtherStepsKeepTraps ==
  ASSUME TrapsInv, TokensInv, FilesInv, NEW r \in Request,
         EnterTraps(r) \/ ReportTokens(r) \/ SendAnswer(r)
  PROVE  TokensInv' /\ FilesInv'
<1> USE PersonaAssumption DEF PersonaAssumption
<1>1. PICK place \in {"raised", "issue", "send", "ended"} :
        /\ request' = [request EXCEPT ![r].at = place]
        /\ place = "issue" => request[r].ask \notin FileAsk
        /\ place = "send" => Due(r)
  BY DEF EnterTraps, ReportTokens, SendAnswer, Move, Due
<1>2. ~At(r, "new")  BY DEF EnterTraps, ReportTokens, SendAnswer, At
<1>3. UNCHANGED <<kept, buckets, idle, dropped, worlds, worldOf, files, content, missed>>
  BY DEF EnterTraps, ReportTokens, SendAnswer
<1>4. \A a \in answers' : a \in answers \/
         (/\ Due(r) /\ a.world = request[r].world /\ a.ask = request[r].ask /\ a.shown = request[r].shown
          /\ a.session = request[r].session)
  <2>1. CASE EnterTraps(r) \/ ReportTokens(r)  BY <2>1 DEF EnterTraps, ReportTokens
  <2>2. CASE SendAnswer(r)
    <3> DEFINE sent == [of |-> r, session |-> request[r].session, ask |-> request[r].ask,
                          world |-> request[r].world, shown |-> request[r].shown]
    <3>1. answers' \subseteq answers \cup {sent} /\ Due(r)  BY <2>2 DEF SendAnswer, Due
    <3> QED  BY <3>1
  <2> QED  BY <2>1, <2>2
<1>5. TokensInv'  BY <1>1, <1>2, <1>3, <1>4, MoveKeepsTokens
<1>6. FilesInv'
  <2>1. \A a \in answers' : a \in answers \/
         (Due(r) /\ a.world = request[r].world /\ a.ask = request[r].ask /\ a.shown = request[r].shown)
    BY <1>4
  <2> QED  BY <1>1, <1>2, <1>3, <2>1, MoveKeepsFiles
<1> QED  BY <1>5, <1>6

(* What is kept agrees with what is shown, and so what is shown agrees.      *)
LEMMA KeptTokensAgreeFromInv == ASSUME TokensInv PROVE KeptTokensAgree
<1> USE PersonaAssumption DEF PersonaAssumption
<1>1. ASSUME NEW a \in answers, NEW b \in answers, NEW x \in Listed(a.shown), NEW y \in Listed(b.shown),
             x.template = y.template, x.template \in PerSession \cup PerInstall,
             ~(x.template \in PerSession /\ (a.session # b.session \/ a.session \in dropped))
      PROVE  x.token = y.token
  <2>1. Backed(x, a.session) /\ Backed(y, b.session)  BY DEF TokensInv, ShownBacked
  <2>2. Owner(x.template, a.session) = Owner(y.template, b.session)  BY <1>1 DEF Owner
  <2> DEFINE k == [template |-> x.template, of |-> Owner(x.template, a.session), token |-> x.token]
             l == [template |-> y.template, of |-> Owner(y.template, b.session), token |-> y.token]
  <2>3. k \in kept /\ l \in kept  BY <1>1, <2>1 DEF Backed
  <2>4. k.template = l.template /\ k.of = l.of /\ k.token = x.token /\ l.token = y.token
    BY <1>1, <2>2
  <2> HIDE DEF k, l
  <2> QED  BY <2>3, <2>4 DEF TokensInv, KeptOnce
<1>2. \A s \in dropped : s \in Listed(buckets) \/ Cardinality(idle[s]) >= MaxBuckets
  BY DEF TokensInv, BucketsOK
<1> QED  BY <1>1, <1>2 DEF KeptTokensAgree

(* Two answers about one file of one world are the same answer. *)
LEMMA FilesAgreeFromInv == ASSUME FilesInv PROVE FilesAgree
<1> SUFFICES ASSUME NEW a \in answers, NEW b \in answers, a.world = b.world, a.ask = b.ask,
                    a.ask \in FileAsk
             PROVE  a.shown = b.shown \/ a.ask \in missed[a.world].twice
  BY DEF FilesAgree
<1>1. CASE a.world \in 1 .. Len(content)
  <2>1. FileKept(a.world, a.ask)  BY <1>1 DEF FilesInv
  <2> QED  BY <2>1 DEF FileKept, Unmade, Unshown, Made, ShownAs
<1>2. CASE a.world \notin 1 .. Len(content)  BY <1>2 DEF FilesInv, InWorld
<1> QED  BY <1>1, <1>2

(* TrapsHold: answers about one file of one world agree, a session is shown one token per template *)
(* while its bucket is kept, and a bucket that was dropped was idle while as many others were used. *)
THEOREM TrapsKeepAgreement == TrapsSpec => []TrapsHold
<1> DEFINE Inv == TrapsInv /\ TokensInv /\ FilesInv
<1>1. TrapsInit => Inv
  <2> SUFFICES ASSUME TrapsInit PROVE Inv  OBVIOUS
  <2>1. TrapsInv  BY TrapsInitInv
  <2>2. TokensInv  BY TokensInitInv
  <2>3. FilesInv  BY FilesInitInv
  <2> QED  BY <2>1, <2>2, <2>3
<1>2. Inv /\ [TrapsNext]_trapVars => Inv'
  <2> SUFFICES ASSUME TrapsInv, TokensInv, FilesInv, [TrapsNext]_trapVars PROVE Inv'
    OBVIOUS
  <2>1. TrapsInv'  BY TrapsStepInv
  <2>2. CASE StopPersona \/ UNCHANGED trapVars
    <3>1. UNCHANGED <<request, kept, buckets, idle, dropped, worlds, worldOf, files, content, missed, answers>>
      BY <2>2 DEF StopPersona, trapVars
    <3>2. TokensInv'
      BY <3>1 DEF TokensInv, BucketsOK, KeptOnce, ShownBacked, OwnedBy, Backed, ReadsFile, At
    <3>3. FilesInv'
      BY <3>1 DEF FilesInv, FileKept, Unmade, Made, Unshown, ShownAs, Reads, Due, At, InWorld
    <3> QED  BY <2>1, <3>2, <3>3
  <2>3. ASSUME NEW r \in Request, TrapStep(r) PROVE TokensInv' /\ FilesInv'
    <3>1. CASE \E s \in Visitor, a \in Ask : CheckPack(r, s, a)
      BY <3>1, CheckPackKeepsTokens, CheckPackKeepsFiles
    <3>2. CASE EnterTraps(r) \/ ReportTokens(r) \/ SendAnswer(r)  BY <3>2, OtherStepsKeepTraps
    <3>3. CASE EnterWorld(r)  BY <2>1, <3>3, EnterWorldKeepsTokens, EnterWorldKeepsFiles
    <3>4. CASE LookForFile(r)  BY <3>4, LookKeepsTokens, LookKeepsFiles
    <3>5. CASE IssueToken(r)  BY <2>1, <3>5, IssueKeepsTokens, IssueKeepsFiles
    <3>6. CASE FinishBody(r)  BY <3>6, FinishKeepsTokens, FinishKeepsFiles
    <3> QED  BY <2>3, <3>1, <3>2, <3>3, <3>4, <3>5, <3>6 DEF TrapStep
  <2> QED  BY <2>1, <2>2, <2>3 DEF TrapsNext
<1>3. Inv => TrapsHold
  BY KeptTokensAgreeFromInv, FilesAgreeFromInv DEF TrapsInv, TrapsHold
<1> QED  BY <1>1, <1>2, <1>3, PTL DEF TrapsSpec

==============================================================================
