---------------------------- MODULE IntelStore_proofs ----------------------------
(*****************************************************************************)
(* Proofs about the intelligence store and its lock: a writer is alone and no*)
(* wake-up is lost; the store uses its lock as the lock demands, and so      *)
(* campaigns, their versions and the answers agree.  About the lure bandit,    *)
(* which operators set and emulators ask; and about the rabbit-hole engine    *)
(* and the breaker before its LLM, which all connections share.              *)
(*****************************************************************************)
EXTENDS MCOperations, RecentUse_proofs, WellFoundedInduction

Waiting == At("sleeps to write") \cup At("woken to write")

(* The inductive invariant: the counters count, a writer is alone, and who      *)
(* sleeps has someone to wait for.                                          *)
LockInv ==
  /\ place \in [Thread -> Places] /\ writer \in BOOLEAN
  /\ readers = Cardinality(At("reads")) /\ waiters = Cardinality(Waiting)
  /\ writer <=> At("writes") # {}
  /\ \A s, t \in At("writes") : s = t
  /\ writer => At("reads") = {}
  /\ At("sleeps to read") # {} => writer \/ Waiting # {}
  /\ At("sleeps to write") # {} => writer \/ At("reads") # {}

(* Sets of threads are finite, and counting to zero finds them empty.          *)
LEMMA Countable ==
  ASSUME NEW S \in SUBSET Thread
  PROVE  IsFiniteSet(S) /\ Cardinality(S) \in Nat /\ (Cardinality(S) = 0 <=> S = {})
BY LockAssumption, FS_Subset, FS_CardinalityType, FS_EmptySet DEF LockAssumption

(* A thread that joins a set it was not in, or leaves one it was in, counts.   *)
LEMMA OneMore ==
  ASSUME NEW S \in SUBSET Thread, NEW t \in Thread
  PROVE  /\ t \notin S => Cardinality(S \cup {t}) = Cardinality(S) + 1
         /\ t \in S => Cardinality(S \ {t}) = Cardinality(S) - 1
BY Countable, FS_AddElement, FS_RemoveElement

(* What the counters say about the sets.                                     *)
LEMMA Counters ==
  ASSUME LockInv
  PROVE  /\ readers \in Nat /\ (readers = 0 <=> At("reads") = {})
         /\ waiters \in Nat /\ (waiters = 0 <=> Waiting = {})
<1>1. At("reads") \in SUBSET Thread /\ Waiting \in SUBSET Thread  BY DEF At, Waiting
<1> QED  BY <1>1, Countable DEF LockInv

(* One thread goes from where it is to p.                                    *)
LEMMA Moved ==
  ASSUME LockInv, NEW t \in Thread, NEW p \in Places, Moves(t, p)
  PROVE  /\ place' \in [Thread -> Places]
         /\ \A q : At(q)' = IF q = p THEN At(q) \cup {t} ELSE At(q) \ {t}
BY DEF LockInv, Moves, At

(* A thread leaves and wakes all others.                                     *)
LEMMA Notified ==
  ASSUME LockInv, NEW t \in Thread, place[t] \in {"reads", "writes"}, LeavesAndNotifies(t)
  PROVE  /\ place' \in [Thread -> Places]
         /\ At("reads")' = At("reads") \ {t} /\ At("writes")' = At("writes") \ {t}
         /\ Waiting' = Waiting
         /\ At("sleeps to read")' = {} /\ At("sleeps to write")' = {}
<1> USE DEF LockInv, LeavesAndNotifies, Places, Sleeping, Woken
<1>1. place' \in [Thread -> Places]  OBVIOUS
<1>2. At("reads")' = At("reads") \ {t} /\ At("writes")' = At("writes") \ {t}  BY DEF At
<1>3. Waiting' = Waiting  BY DEF At, Waiting
<1>4. At("sleeps to read")' = {} /\ At("sleeps to write")' = {}  BY DEF At
<1> QED  BY <1>1, <1>2, <1>3, <1>4

LEMMA InitLock == ASSUME LockInit PROVE LockInv
<1>1. place \in [Thread -> Places] /\ \A t \in Thread : place[t] = "out"  BY DEF LockInit, Places
<1>2. /\ At("reads") = {} /\ At("writes") = {}
      /\ At("sleeps to read") = {} /\ At("sleeps to write") = {} /\ At("woken to write") = {}
  BY <1>1 DEF At
<1>3. Waiting = {}  BY <1>2 DEF Waiting
<1>4. readers = Cardinality(At("reads")) /\ waiters = Cardinality(Waiting)
  BY <1>2, <1>3, FS_EmptySet DEF LockInit
<1> QED  BY <1>1, <1>2, <1>3, <1>4 DEF LockInit, LockInv

(* A reader enters or goes to sleep.                                         *)
LEMMA LooksToReadKeeps ==
  ASSUME LockInv, NEW t \in Thread, LooksToRead(t), place[t] \in {"out", "woken to read"}
  PROVE  LockInv'
<1>1. t \notin At("reads") /\ t \notin At("writes") /\ t \notin Waiting  BY DEF At, Waiting
<1>2. CASE MayRead
  <2>1. readers' = readers + 1 /\ Moves(t, "reads") /\ UNCHANGED <<writer, waiters>>
    BY <1>2 DEF LooksToRead
  <2>2. /\ place' \in [Thread -> Places]
        /\ \A q : At(q)' = IF q = "reads" THEN At(q) \cup {t} ELSE At(q) \ {t}
    BY <2>1, Moved DEF Places
  <2>3. /\ At("reads")' = At("reads") \cup {t} /\ At("writes")' = At("writes")
        /\ Waiting' = Waiting /\ At("sleeps to read")' \subseteq At("sleeps to read")
        /\ At("sleeps to write")' = At("sleeps to write")
    BY <2>2, <1>1 DEF Waiting
  <2>4. Cardinality(At("reads") \cup {t}) = Cardinality(At("reads")) + 1
    BY <1>1, OneMore DEF At
  <2>5. ~writer /\ waiters = 0  BY <1>2 DEF MayRead
  <2>6. Waiting = {}  BY <2>5, Counters
  <2> QED  BY <2>1, <2>2, <2>3, <2>4, <2>5, <2>6 DEF LockInv
<1>3. CASE ~MayRead
  <2>1. Moves(t, "sleeps to read") /\ UNCHANGED <<readers, writer, waiters>>
    BY <1>3 DEF LooksToRead
  <2>2. /\ place' \in [Thread -> Places]
        /\ \A q : At(q)' = IF q = "sleeps to read" THEN At(q) \cup {t} ELSE At(q) \ {t}
    BY <2>1, Moved DEF Places, Sleeping
  <2>3. /\ At("reads")' = At("reads") /\ At("writes")' = At("writes") /\ Waiting' = Waiting
        /\ At("sleeps to write")' = At("sleeps to write")
    BY <2>2, <1>1 DEF Waiting
  <2>4. writer \/ Waiting # {}  BY <1>3, Counters DEF MayRead, LockInv
  <2> QED  BY <2>1, <2>2, <2>3, <2>4 DEF LockInv
<1> QED  BY <1>2, <1>3

(* A writer enters or goes to sleep; W: the writers waiting without it.        *)
LEMMA LooksToWriteKeeps ==
  ASSUME LockInv, NEW t \in Thread, place[t] \in {"out", "woken to write"},
         NEW others \in Nat, others = Cardinality(Waiting \ {t}), LooksToWrite(t, others)
  PROVE  LockInv'
<1>1. t \notin At("reads") /\ t \notin At("writes") /\ t \notin At("sleeps to read")  BY DEF At
<1>2. CASE MayWrite
  <2>1. writer' = TRUE /\ waiters' = others /\ Moves(t, "writes") /\ UNCHANGED readers
    BY <1>2 DEF LooksToWrite
  <2>2. /\ place' \in [Thread -> Places]
        /\ \A q : At(q)' = IF q = "writes" THEN At(q) \cup {t} ELSE At(q) \ {t}
    BY <2>1, Moved DEF Places
  <2>3. /\ At("reads")' = At("reads") /\ At("writes")' = At("writes") \cup {t}
        /\ Waiting' = Waiting \ {t} /\ At("sleeps to read")' = At("sleeps to read")
    BY <2>2, <1>1 DEF Waiting
  <2>4. ~writer /\ At("reads") = {}  BY <1>2, Counters DEF MayWrite
  <2>5. At("writes") = {}  BY <2>4 DEF LockInv
  <2> QED  BY <2>1, <2>2, <2>3, <2>4, <2>5 DEF LockInv
<1>3. CASE ~MayWrite
  <2>1. waiters' = others + 1 /\ Moves(t, "sleeps to write") /\ UNCHANGED <<writer, readers>>
    BY <1>3 DEF LooksToWrite
  <2>2. /\ place' \in [Thread -> Places]
        /\ \A q : At(q)' = IF q = "sleeps to write" THEN At(q) \cup {t} ELSE At(q) \ {t}
    BY <2>1, Moved DEF Places, Sleeping
  <2>3. /\ At("reads")' = At("reads") /\ At("writes")' = At("writes")
        /\ Waiting' = (Waiting \ {t}) \cup {t} /\ At("sleeps to read")' = At("sleeps to read")
    BY <2>2, <1>1 DEF Waiting
  <2>4. Cardinality((Waiting \ {t}) \cup {t}) = Cardinality(Waiting \ {t}) + 1
    BY OneMore DEF Waiting, At
  <2>5. writer \/ At("reads") # {}  BY <1>3, Counters DEF MayWrite, LockInv
  <2> QED  BY <2>1, <2>2, <2>3, <2>4, <2>5 DEF LockInv
<1> QED  BY <1>2, <1>3

LEMMA ReadExitKeeps == ASSUME LockInv, NEW t \in Thread, ReadExit(t) PROVE LockInv'
<1>1. t \in At("reads") /\ t \notin At("writes") /\ t \notin Waiting
  BY DEF ReadExit, At, Waiting
<1>2. readers' = readers - 1 /\ UNCHANGED <<writer, waiters>>  BY DEF ReadExit
<1>3. Cardinality(At("reads") \ {t}) = readers - 1  BY <1>1, OneMore DEF LockInv, At
<1>4. CASE readers = 1
  <2>1. LeavesAndNotifies(t)  BY <1>4 DEF ReadExit
  <2>2. /\ place' \in [Thread -> Places]
        /\ At("reads")' = At("reads") \ {t} /\ At("writes")' = At("writes") \ {t}
        /\ Waiting' = Waiting /\ At("sleeps to read")' = {} /\ At("sleeps to write")' = {}
    BY <2>1, Notified DEF ReadExit
  <2> QED  BY <1>1, <1>2, <1>3, <2>2 DEF LockInv
<1>5. CASE readers # 1
  <2>1. Moves(t, "out")  BY <1>5 DEF ReadExit
  <2>2. /\ place' \in [Thread -> Places]
        /\ \A q : At(q)' = IF q = "out" THEN At(q) \cup {t} ELSE At(q) \ {t}
    BY <2>1, Moved DEF Places
  <2>3. t \notin At("sleeps to read") /\ t \notin At("sleeps to write") /\ t \notin At("woken to write")
    BY DEF At, ReadExit
  <2>5. /\ At("reads")' = At("reads") \ {t} /\ At("writes")' = At("writes")
        /\ Waiting' = Waiting
        /\ At("sleeps to read")' = At("sleeps to read")
        /\ At("sleeps to write")' = At("sleeps to write")
    BY <2>2, <2>3, <1>1 DEF Waiting
  <2>4. At("reads") \ {t} # {}
    <3>1. readers - 1 # 0  BY <1>5, Counters
    <3> QED  BY <3>1, <1>3, FS_EmptySet
  <2> QED  BY <1>1, <1>2, <1>3, <2>2, <2>4, <2>5 DEF LockInv
<1> QED  BY <1>4, <1>5

LEMMA WriteExitKeeps == ASSUME LockInv, NEW t \in Thread, WriteExit(t) PROVE LockInv'
<1>1. t \in At("writes") /\ t \notin At("reads")  BY DEF WriteExit, At
<1>2. /\ place' \in [Thread -> Places]
      /\ At("reads")' = At("reads") \ {t} /\ At("writes")' = At("writes") \ {t}
      /\ Waiting' = Waiting /\ At("sleeps to read")' = {} /\ At("sleeps to write")' = {}
  BY Notified DEF WriteExit
<1>3. At("writes") \ {t} = {} /\ At("reads") \ {t} = At("reads")  BY <1>1 DEF LockInv
<1>4. writer' = FALSE /\ UNCHANGED <<readers, waiters>>  BY DEF WriteExit
<1> QED  BY <1>2, <1>3, <1>4 DEF LockInv

LEMMA LockStepKeeps == ASSUME LockInv, [LockNext]_lockVars PROVE LockInv'
<1>1. CASE UNCHANGED lockVars  BY <1>1 DEF lockVars, LockInv, At, Waiting
<1>2. ASSUME NEW t \in Thread, ReadEnter(t) \/ ReadWakes(t) PROVE LockInv'
  BY <1>2, LooksToReadKeeps DEF ReadEnter, ReadWakes
<1>3. ASSUME NEW t \in Thread, WriteEnter(t) PROVE LockInv'
  <2>1. t \notin Waiting  BY <1>3 DEF WriteEnter, Waiting, At
  <2>2. Waiting \ {t} = Waiting  BY <2>1
  <2>3. waiters \in Nat /\ waiters = Cardinality(Waiting \ {t})  BY <2>2, Counters DEF LockInv
  <2> QED  BY <1>3, <2>3, LooksToWriteKeeps DEF WriteEnter
<1>4. ASSUME NEW t \in Thread, WriteWakes(t) PROVE LockInv'
  <2>1. t \in Waiting  BY <1>4 DEF WriteWakes, Waiting, At
  <2>2. Cardinality(Waiting \ {t}) = waiters - 1  BY <2>1, OneMore DEF LockInv, Waiting, At
  <2>3. Cardinality(Waiting \ {t}) \in Nat  BY Countable DEF Waiting, At
  <2> QED  BY <1>4, <2>2, <2>3, LooksToWriteKeeps DEF WriteWakes
<1>5. ASSUME NEW t \in Thread, ReadExit(t) \/ WriteExit(t) PROVE LockInv'
  BY <1>5, ReadExitKeeps, WriteExitKeeps
<1> QED  BY <1>1, <1>2, <1>3, <1>4, <1>5 DEF LockNext

LEMMA LockInvImplies == ASSUME LockInv PROVE Exclusive /\ NobodyStuck
<1>1. Exclusive
  <2> SUFFICES ASSUME NEW s \in Thread, NEW t \in Thread,
                      place[s] = "writes", place[t] \in {"reads", "writes"}
               PROVE  s = t
    BY DEF Exclusive
  <2>1. s \in At("writes") /\ (t \in At("reads") \/ t \in At("writes"))  BY DEF At
  <2> QED  BY <2>1 DEF LockInv
<1>2. NobodyStuck
  <2> SUFFICES ASSUME NEW t \in Thread, place[t] \in Sleeping
               PROVE  \E s \in Thread : place[s] \in {"reads", "writes"} \cup Woken
    BY DEF NobodyStuck
  <2>1. t \in At("sleeps to read") \/ t \in At("sleeps to write")  BY DEF At, Sleeping
  <2>2. At("reads") # {} \/ At("writes") # {} \/ At("woken to write") # {}
    BY <2>1 DEF LockInv, Waiting
  <2> QED  BY <2>2 DEF At, Woken
<1> QED  BY <1>1, <1>2

(* In every reachable state of the lock, for any number of threads, who reads   *)
(* or writes while another writes is that writer.                           *)
THEOREM WriterIsAlone == LockSpec => []Exclusive
<1>1. LockInit => LockInv  BY InitLock
<1>2. LockInv /\ [LockNext]_lockVars => LockInv'  BY LockStepKeeps
<1>3. LockInv => Exclusive  BY LockInvImplies
<1> QED  BY <1>1, <1>2, <1>3, PTL DEF LockSpec

(* In every reachable state of the lock, for any number of threads, while one   *)
(* sleeps another one is inside or about to look again: it cannot deadlock.   *)
THEOREM NoWakeUpIsLost == LockSpec => []NobodyStuck
<1>1. LockInit => LockInv  BY InitLock
<1>2. LockInv /\ [LockNext]_lockVars => LockInv'  BY LockStepKeeps
<1>3. LockInv => NobodyStuck  BY LockInvImplies
<1> QED  BY <1>1, <1>2, <1>3, PTL DEF LockSpec

----------------------------------------------------------------------------
(* What AnswersHold and Row say of a call, with the tables as parameters.      *)
RowIn(c, g) == IF c \in DOMAIN g THEN g[c] ELSE Absent

AnswerTrue(c, h, k, r) ==
  /\ c.op = "versions" /\ c.seen # None /\ ~c.deleted =>
       \E i \in DOMAIN h[c.campaign] : h[c.campaign][i].version = c.seen.version
  /\ c.op = "status" /\ c.row # None /\ ~c.written => c.row = c.seen
  /\ c.op = "token" /\ c.next = "read" => c.token \in k
  /\ c.id # 0 => /\ c.id \in DOMAIN r[c.table]
                 /\ r[c.table][c.id] = c.token /\ c.token \in k \cup {None}

(* What a call SELECTed is still so: a writer because it is alone, a change of   *)
(* status as long as nobody else wrote.                                     *)
FreshIn(c, p, g) ==
  /\ p = "writes" => c.next = "write"
  /\ c.row # None => p = "writes" /\ c.row = RowIn(c.campaign, g)
  /\ c.op = "status" /\ c.seen # None /\ ~c.written => c.seen = RowIn(c.campaign, g)

CallsTrue ==
  \A t \in Thread : FreshIn(call[t], place[t], graphs) /\ AnswerTrue(call[t], history, tokens, rows)

(* The inductive invariant.                                                 *)
IntelInv == LockInv /\ IntelTypeOK /\ HistoryTold /\ CallsTrue

Kept == IntelTypeOK' /\ HistoryTold' /\ CallsTrue'

LEMMA InitIntel == ASSUME IntelInit PROVE IntelInv
<1>1. LockInv  BY InitLock DEF IntelInit
<1>2. DOMAIN graphs = {}  BY DEF IntelInit
<1>3. NoCall \in CallRecord /\ CallOK(NoCall)  BY DEF NoCall, CallRecord, CallOK
<1>4. IntelTypeOK  BY <1>2, <1>3 DEF IntelInit, IntelTypeOK
<1>5. HistoryTold  BY <1>2 DEF IntelInit, HistoryTold, Row
<1>6. CallsTrue  BY DEF IntelInit, LockInit, CallsTrue, FreshIn, AnswerTrue, NoCall
<1> QED  BY <1>1, <1>4, <1>5, <1>6 DEF IntelInv

(* One call changes, tokens and rows are only added, and no campaign changes.  *)
LEMMA OneCall ==
  ASSUME IntelInv, NEW t \in Thread, NEW c \in CallRecord, CallOK(c),
         call' = [call EXCEPT ![t] = c],
         UNCHANGED <<graphs, history>>, enabled' \in BOOLEAN,
         tokens \subseteq tokens', tokens' \subseteq Token,
         rows' \in [Table \cup {Reports} -> Seq(Token \cup {None})],
         \A b \in Table \cup {Reports} : \A i \in DOMAIN rows[b] :
           i \in DOMAIN rows'[b] /\ rows'[b][i] = rows[b][i],
         \A s \in Thread \ {t} : place'[s] = "writes" <=> place[s] = "writes",
         FreshIn(c, place'[t], graphs), AnswerTrue(c, history, tokens', rows')
  PROVE  Kept
<1>1. call \in [Thread -> CallRecord] /\ \A s \in Thread : CallOK(call[s])
  BY DEF IntelInv, IntelTypeOK
<1>2. call' \in [Thread -> CallRecord] /\ \A s \in Thread : call'[s] = IF s = t THEN c ELSE call[s]
  BY <1>1
<1>3. IntelTypeOK'
  <2>1. \A s \in Thread : CallOK(call'[s])  BY <1>1, <1>2
  <2>2. \A s \in Thread : CallOK(call[s])'  BY <2>1 DEF CallOK
  <2> QED  BY <1>2, <2>2 DEF IntelInv, IntelTypeOK
<1>4. HistoryTold'  BY DEF IntelInv, HistoryTold, Row
<1>5. CallsTrue'
  <2> SUFFICES ASSUME NEW s \in Thread
               PROVE  FreshIn(call'[s], place'[s], graphs') /\ AnswerTrue(call'[s], history', tokens', rows')
    BY DEF CallsTrue, FreshIn, AnswerTrue, RowIn
  <2>1. CASE s = t  BY <2>1, <1>2
  <2>2. CASE s # t
    <3>1. FreshIn(call[s], place[s], graphs) /\ AnswerTrue(call[s], history, tokens, rows)
      BY DEF IntelInv, CallsTrue
    <3>2. FreshIn(call[s], place'[s], graphs)  BY <2>2, <3>1 DEF FreshIn
    <3>3. AnswerTrue(call[s], history, tokens', rows')
      <4>1. call[s].id # 0 => call[s].table \in Table \cup {Reports}  BY <1>1 DEF CallOK
      <4>2. call[s].id # 0 => /\ call[s].id \in DOMAIN rows'[call[s].table]
                              /\ rows'[call[s].table][call[s].id] = call[s].token
                              /\ call[s].token \in tokens' \cup {None}
        BY <3>1, <4>1 DEF AnswerTrue
      <4> QED  BY <3>1, <4>2 DEF AnswerTrue
    <3> QED  BY <2>2, <1>2, <3>2, <3>3
  <2> QED  BY <2>1, <2>2
<1> QED  BY <1>3, <1>4, <1>5 DEF Kept

(* What the invariant says of one thread.                                     *)
LEMMA TheCall ==
  ASSUME IntelInv, NEW t \in Thread
  PROVE  /\ call[t] \in CallRecord /\ CallOK(call[t])
         /\ FreshIn(call[t], place[t], graphs) /\ AnswerTrue(call[t], history, tokens, rows)
BY DEF IntelInv, IntelTypeOK, CallsTrue

(* Who leaves is out, and whoever else writes goes on.                        *)
LEMMA PlaceKept ==
  ASSUME LockInv, NEW t \in Thread, ReadExit(t) \/ WriteExit(t)
  PROVE  /\ place'[t] = "out"
         /\ \A s \in Thread \ {t} : place'[s] = "writes" <=> place[s] = "writes"
<1>1. place \in [Thread -> Places] /\ place[t] \in {"reads", "writes"}
  BY DEF LockInv, ReadExit, WriteExit
<1>2. CASE LeavesAndNotifies(t)
  <2>1. place'[t] = "out"  BY <1>1, <1>2 DEF LeavesAndNotifies
  <2> SUFFICES ASSUME NEW s \in Thread \ {t} PROVE place'[s] = "writes" <=> place[s] = "writes"
    BY <2>1
  <2>2. CASE place[s] = "sleeps to read"  BY <1>2, <2>2 DEF LeavesAndNotifies
  <2>3. CASE place[s] = "sleeps to write"  BY <1>2, <2>3 DEF LeavesAndNotifies
  <2>4. CASE place[s] \notin {"sleeps to read", "sleeps to write"}
    BY <1>2, <2>4 DEF LeavesAndNotifies
  <2> QED  BY <2>2, <2>3, <2>4
<1>3. CASE Moves(t, "out")
  BY <1>1, <1>3 DEF Moves
<1> QED  BY <1>2, <1>3 DEF ReadExit, WriteExit

(* A campaign's row is what its versions end with.                            *)
LEMMA TheRow ==
  ASSUME IntelInv, NEW c \in Campaign
  PROVE  /\ Row(c) = RowIn(c, graphs) /\ Row(c) \in GraphRow /\ Row(c) # None
         /\ history[c] \in Seq(GraphRow)
         /\ Row(c).version = Len(history[c])
         /\ Row(c) # Absent => /\ Len(history[c]) \in DOMAIN history[c]
                               /\ history[c][Len(history[c])].version = Row(c).version
<1>1. Row(c) = RowIn(c, graphs)  BY DEF Row, RowIn
<1>2. history[c] \in Seq(GraphRow)  BY DEF IntelInv, IntelTypeOK
<1>3. Absent \in GraphRow /\ Absent.version = 0 /\ None \notin GraphRow
  BY StoreAssumption DEF StoreAssumption, Absent, GraphRow
<1>4. /\ \A i \in DOMAIN history[c] : history[c][i].version = i
      /\ Row(c) = IF history[c] = << >> THEN Absent ELSE history[c][Len(history[c])]
  BY DEF IntelInv, HistoryTold
<1>5. CASE history[c] = << >>  BY <1>1, <1>2, <1>3, <1>4, <1>5
<1>6. CASE history[c] # << >>
  <2>1. Len(history[c]) \in DOMAIN history[c]  BY <1>2, <1>6
  <2>2. history[c][Len(history[c])] \in GraphRow  BY <1>2, <2>1
  <2> QED  BY <1>1, <1>2, <1>3, <1>4, <1>6, <2>1, <2>2
<1> QED  BY <1>5, <1>6

(* An operation starts.                                                     *)
LEMMA BeginKeeps ==
  ASSUME IntelInv, NEW t \in Thread, NEW c \in CallRecord, Begin(t, c), CallOK(c),
         c.seen = None, c.row = None, c.id = 0, c.next # "none", c.op = "token" => c.next = "write"
  PROVE  Kept
<1>1. call[t].next = "none" /\ place[t] # "writes"  BY TheCall DEF Begin, CallOK, FreshIn
<1>2. FreshIn(c, place[t], graphs) /\ AnswerTrue(c, history, tokens, rows)
  BY <1>1 DEF FreshIn, AnswerTrue
<1>3. place' = place /\ call' = [call EXCEPT ![t] = c] /\ UNCHANGED <<enabled, tableVars>>
  BY DEF Begin, lockVars
<1> QED  BY <1>2, <1>3, OneCall DEF tableVars, IntelInv, IntelTypeOK

LEMMA OperationsKeep == ASSUME IntelInv, NEW t \in Thread, Operations(t) PROVE Kept
<1> USE StoreAssumption DEF StoreAssumption, NoCall, CallRecord, CallOK
<1>1. ASSUME NEW c \in Campaign, Delete(t, c) PROVE Kept
  BY <1>1, BeginKeeps DEF Delete
<1>2. ASSUME NEW c \in Campaign, Versions(t, c) PROVE Kept
  BY <1>2, BeginKeeps DEF Versions
<1>3. ASSUME NEW c \in Campaign, NEW s \in Status, Upsert(t, c, s) PROVE Kept
  BY <1>3, BeginKeeps DEF Upsert
<1>4. ASSUME NEW c \in Campaign, NEW s \in Status, SetStatus(t, c, s) PROVE Kept
  BY <1>4, BeginKeeps DEF SetStatus
<1>5. ASSUME NEW k \in Token, GenerateToken(t, k) PROVE Kept
  BY <1>5, BeginKeeps DEF GenerateToken
<1>6. ASSUME NEW k \in Token, RecordHit(t, k) PROVE Kept
  BY <1>6, BeginKeeps DEF RecordHit
<1>7. ASSUME NEW b \in Table \ {Hits}, RecordRow(t, b) PROVE Kept
  BY <1>7, BeginKeeps DEF RecordRow
<1>8. CASE RecordReport(t)
  BY <1>8, BeginKeeps DEF RecordReport
<1> QED  BY <1>1, <1>2, <1>3, <1>4, <1>5, <1>6, <1>7, <1>8 DEF Operations

(* A thread enters the lock or sleeps: the call that is to write may write.     *)
LEMMA EnterKeeps == ASSUME IntelInv, NEW t \in Thread, Enter(t) PROVE Kept
<1>1. place[t] \notin {"writes"} /\ place \in [Thread -> Places]
  BY DEF Enter, ReadEnter, ReadWakes, WriteEnter, WriteWakes, IntelInv, LockInv
<1>2. /\ \A s \in Thread \ {t} : place'[s] = place[s]
      /\ place'[t] = "writes" => call[t].next = "write"
  BY <1>1 DEF Enter, ReadEnter, ReadWakes, WriteEnter, WriteWakes, LooksToRead, LooksToWrite, Moves
<1>3. FreshIn(call[t], place'[t], graphs)  BY <1>1, <1>2, TheCall DEF FreshIn
<1>4. UNCHANGED intelVars /\ call' = [call EXCEPT ![t] = call[t]]
  BY DEF Enter, intelVars, IntelInv, IntelTypeOK
<1> QED  BY <1>2, <1>3, <1>4, TheCall, OneCall DEF intelVars, tableVars, IntelInv, IntelTypeOK

(* A thread leaves the lock with c in hand; tokens and rows are only added.     *)
LEMMA LeavesWith ==
  ASSUME IntelInv, NEW t \in Thread, ReadExit(t) \/ WriteExit(t),
         NEW c \in CallRecord, CallOK(c), c.row = None,
         call' = [call EXCEPT ![t] = IF enabled THEN c ELSE NoCall] \/ call' = [call EXCEPT ![t] = c],
         UNCHANGED <<graphs, history>>, enabled' \in BOOLEAN,
         tokens \subseteq tokens', tokens' \subseteq Token,
         rows' \in [Table \cup {Reports} -> Seq(Token \cup {None})],
         \A b \in Table \cup {Reports} : \A i \in DOMAIN rows[b] :
           i \in DOMAIN rows'[b] /\ rows'[b][i] = rows[b][i],
         FreshIn(c, "out", graphs), AnswerTrue(c, history, tokens', rows')
  PROVE  Kept
<1>1. /\ place'[t] = "out"
      /\ \A s \in Thread \ {t} : place'[s] = "writes" <=> place[s] = "writes"
  BY PlaceKept DEF IntelInv
<1>2. /\ NoCall \in CallRecord /\ CallOK(NoCall)
      /\ FreshIn(NoCall, "out", graphs) /\ AnswerTrue(NoCall, history, tokens', rows')
  BY DEF NoCall, CallRecord, CallOK, FreshIn, AnswerTrue
<1>3. PICK d \in {c, NoCall} : call' = [call EXCEPT ![t] = d]  OBVIOUS
<1>4. /\ d \in CallRecord /\ CallOK(d)
      /\ FreshIn(d, place'[t], graphs) /\ AnswerTrue(d, history, tokens', rows')
  BY <1>1, <1>2, <1>3
<1> QED  BY <1>1, <1>3, <1>4, OneCall

(* An operation ends, and changes no table.                                  *)
LEMMA EndsKeeps ==
  ASSUME IntelInv, NEW t \in Thread, ReadExit(t) \/ WriteExit(t), Ends(t),
         enabled' \in BOOLEAN, UNCHANGED tableVars
  PROVE  Kept
<1>1. /\ NoCall \in CallRecord /\ CallOK(NoCall) /\ NoCall.row = None
      /\ FreshIn(NoCall, "out", graphs) /\ AnswerTrue(NoCall, history, tokens', rows')
  BY DEF NoCall, CallRecord, CallOK, FreshIn, AnswerTrue
<1> QED  BY <1>1, LeavesWith DEF Ends, tableVars, IntelInv, IntelTypeOK

LEMMA ReadsKeep == ASSUME IntelInv, NEW t \in Thread, Reads(t) PROVE Kept
<1> USE DEF tableVars
<1>1. /\ place[t] = "reads" => call[t].row = None
      /\ call[t] \in CallRecord /\ CallOK(call[t]) /\ enabled \in BOOLEAN
      /\ IntelTypeOK
  BY TheCall DEF FreshIn, IntelInv, IntelTypeOK
<1>2. CASE ReadVersions(t) \/ ReadBack(t) \/ ReadFails(t)
  BY <1>1, <1>2, EndsKeeps DEF ReadVersions, ReadBack, ReadFails
<1>3. ASSUME Reading(t, "status") \/ Reading(t, "versions"), ReadExit(t), Ends(t),
             UNCHANGED <<enabled, tableVars>>
      PROVE  Kept
  BY <1>1, <1>3, EndsKeeps
<1>4. CASE ReadPrevious(t) /\ Row(call[t].campaign) # Absent
  <2> DEFINE c == [call[t] EXCEPT !.next = "write", !.seen = Row(call[t].campaign)]
  <2>1. /\ call[t].op = "status" /\ call[t].campaign \in Campaign /\ place[t] = "reads"
        /\ ReadExit(t) /\ GoesOn(t, c) /\ UNCHANGED <<enabled, tableVars>>
    BY <1>1, <1>4 DEF ReadPrevious, Reading, CallOK
  <2>2. Row(c.campaign) \in GraphRow /\ Row(c.campaign) # None
        /\ Row(c.campaign) = RowIn(c.campaign, graphs)
    BY <2>1, <1>1, TheRow DEF CallRecord
  <2>3. c \in CallRecord /\ CallOK(c) /\ c.row = None
    BY <1>1, <2>1, <2>2 DEF CallRecord, CallOK
  <2>4. FreshIn(c, "out", graphs) /\ AnswerTrue(c, history, tokens, rows)
    BY <1>1, <2>1, <2>2, <2>3 DEF FreshIn, AnswerTrue, CallOK, CallRecord
  <2> HIDE DEF c
  <2> QED  BY <1>1, <2>1, <2>3, <2>4, LeavesWith DEF GoesOn, IntelTypeOK
<1>5. CASE ReadCampaign(t) /\ Row(call[t].campaign) # Absent
  <2> DEFINE c == [call[t] EXCEPT !.seen = Row(call[t].campaign)]
  <2>1. /\ call[t].op = "versions" /\ call[t].campaign \in Campaign /\ place[t] = "reads"
        /\ ReadExit(t) /\ GoesOn(t, c) /\ UNCHANGED <<enabled, tableVars>>
    BY <1>1, <1>5 DEF ReadCampaign, Reading, CallOK
  <2>2. /\ Row(call[t].campaign) \in GraphRow
        /\ \E i \in DOMAIN history[call[t].campaign] :
             history[call[t].campaign][i].version = Row(call[t].campaign).version
    BY <2>1, <1>5, TheRow
  <2>3. c \in CallRecord /\ CallOK(c) /\ c.row = None
    BY <1>1, <2>1, <2>2 DEF CallRecord, CallOK
  <2>4. FreshIn(c, "out", graphs) /\ AnswerTrue(c, history, tokens, rows)
    BY <1>1, <2>1, <2>2, <2>3 DEF FreshIn, AnswerTrue, CallOK, CallRecord
  <2> HIDE DEF c
  <2> QED  BY <1>1, <2>1, <2>3, <2>4, LeavesWith DEF GoesOn, IntelTypeOK
<1> QED  BY <1>2, <1>3, <1>4, <1>5 DEF Reads, ReadPrevious, ReadCampaign

LEMMA SelectKeeps == ASSUME IntelInv, NEW t \in Thread, SelectGraph(t) PROVE Kept
<1> DEFINE c == [call[t] EXCEPT !.row = Row(call[t].campaign)]
<1>1. /\ place[t] = "writes" /\ call[t].op \in {"upsert", "status"} /\ call[t].row = None
      /\ call[t] \in CallRecord /\ CallOK(call[t]) /\ IntelTypeOK
      /\ UNCHANGED <<lockVars, enabled, tableVars>>
  BY TheCall DEF SelectGraph, IntelInv
<1>2. call' = [call EXCEPT ![t] = c]  BY <1>1 DEF SelectGraph, IntelTypeOK, CallRecord
<1>3. call[t].next = "write" /\ call[t].campaign \in Campaign  BY <1>1, TheCall DEF FreshIn, CallOK
<1>4. Row(call[t].campaign) \in GraphRow /\ Row(call[t].campaign) = RowIn(call[t].campaign, graphs)
  BY <1>3, TheRow
<1>5. c \in CallRecord /\ CallOK(c)  BY <1>1, <1>4 DEF CallRecord, CallOK
<1>6. FreshIn(call[t], "writes", graphs) /\ AnswerTrue(call[t], history, tokens, rows)
  BY <1>1, TheCall
<1>7. FreshIn(c, "writes", graphs)  BY <1>1, <1>3, <1>4, <1>6 DEF FreshIn, CallRecord
<1>8. AnswerTrue(c, history, tokens, rows)
  <2>1. c.op = "status" /\ ~c.written => c.row = c.seen
    BY <1>1, <1>3, <1>4, <1>6 DEF FreshIn, CallOK, CallRecord
  <2> QED  BY <1>1, <1>6, <2>1 DEF AnswerTrue, CallRecord, CallOK
<1> HIDE DEF c
<1> QED  BY <1>1, <1>2, <1>5, <1>7, <1>8, OneCall DEF lockVars, tableVars, IntelTypeOK

LEMMA TokenKeeps == ASSUME IntelInv, NEW t \in Thread, CommitToken(t) PROVE Kept
<1> DEFINE c == [call[t] EXCEPT !.next = "read"]
<1>1. /\ call[t].op = "token" /\ call[t] \in CallRecord /\ CallOK(call[t]) /\ IntelTypeOK
      /\ WriteExit(t) /\ GoesOn(t, c) /\ UNCHANGED <<enabled, graphs, history, rows>>
      /\ tokens' = tokens \cup {call[t].token}
  BY TheCall DEF CommitToken, Writing, IntelInv
<1>2. tokens' \subseteq Token /\ call[t].token \in Token  BY <1>1 DEF CallOK, IntelTypeOK
<1>3. c \in CallRecord /\ CallOK(c) /\ c.row = None  BY <1>1 DEF CallRecord, CallOK
<1>4. FreshIn(c, "out", graphs) /\ AnswerTrue(c, history, tokens', rows)
  BY <1>1, <1>2, <1>3 DEF FreshIn, AnswerTrue, CallOK, CallRecord
<1> HIDE DEF c
<1> QED  BY <1>1, <1>2, <1>3, <1>4, LeavesWith DEF GoesOn, IntelTypeOK

(* What Append adds, and keeps.                                              *)
LEMMA Appended ==
  ASSUME IntelTypeOK, NEW b \in Table \cup {Reports}, NEW k \in Token \cup {None},
         rows' = [rows EXCEPT ![b] = Append(@, k)]
  PROVE  /\ rows' \in [Table \cup {Reports} -> Seq(Token \cup {None})]
         /\ \A a \in Table \cup {Reports} : \A i \in DOMAIN rows[a] :
              i \in DOMAIN rows'[a] /\ rows'[a][i] = rows[a][i]
         /\ Len(rows[b]) + 1 \in DOMAIN rows'[b] /\ rows'[b][Len(rows[b]) + 1] = k
<1>1. rows \in [Table \cup {Reports} -> Seq(Token \cup {None})]  BY DEF IntelTypeOK
<1>2. \A a \in Table \cup {Reports} : rows'[a] = IF a = b THEN Append(rows[b], k) ELSE rows[a]
  BY <1>1
<1>3. rows' \in [Table \cup {Reports} -> Seq(Token \cup {None})]  BY <1>1
<1>4. rows[b] \in Seq(Token \cup {None})  BY <1>1
<1>5. /\ \A i \in DOMAIN rows[b] :
           i \in DOMAIN Append(rows[b], k) /\ Append(rows[b], k)[i] = rows[b][i]
      /\ Len(rows[b]) + 1 \in DOMAIN Append(rows[b], k)
      /\ Append(rows[b], k)[Len(rows[b]) + 1] = k
  BY <1>4
<1> QED  BY <1>2, <1>3, <1>5

LEMMA RowKeeps == ASSUME IntelInv, NEW t \in Thread, CommitRow(t) PROVE Kept
<1> DEFINE id == Len(rows[call[t].table]) + 1
           c == [call[t] EXCEPT !.next = "read", !.id = id]
<1>1. /\ call[t].op = "row" /\ call[t] \in CallRecord /\ CallOK(call[t]) /\ IntelTypeOK
      /\ WriteExit(t) /\ GoesOn(t, c) /\ UNCHANGED <<enabled, graphs, history>>
      /\ tokens' = tokens \cup ({call[t].token} \ {None})
      /\ rows' = [rows EXCEPT ![call[t].table] = Append(@, call[t].token)]
  BY TheCall DEF CommitRow, Writing, IntelInv
<1>2. call[t].table \in Table /\ call[t].token \in Token \cup {None}
  BY <1>1 DEF CallOK, CallRecord
<1>3. tokens' \subseteq Token /\ tokens \subseteq tokens' /\ call[t].token \in tokens' \cup {None}
  BY <1>1, <1>2 DEF IntelTypeOK
<1>4. /\ rows' \in [Table \cup {Reports} -> Seq(Token \cup {None})]
      /\ \A a \in Table \cup {Reports} : \A i \in DOMAIN rows[a] :
           i \in DOMAIN rows'[a] /\ rows'[a][i] = rows[a][i]
      /\ id \in DOMAIN rows'[call[t].table] /\ rows'[call[t].table][id] = call[t].token
  <2>1. PICK b \in Table \cup {Reports}, k \in Token \cup {None} :
          b = call[t].table /\ k = call[t].token
    BY <1>2
  <2>2. rows' = [rows EXCEPT ![b] = Append(@, k)]  BY <1>1, <2>1
  <2>3. /\ rows' \in [Table \cup {Reports} -> Seq(Token \cup {None})]
        /\ \A a \in Table \cup {Reports} : \A i \in DOMAIN rows[a] :
             i \in DOMAIN rows'[a] /\ rows'[a][i] = rows[a][i]
        /\ Len(rows[b]) + 1 \in DOMAIN rows'[b] /\ rows'[b][Len(rows[b]) + 1] = k
    BY <1>1, <2>2, Appended
  <2> QED  BY <2>1, <2>3
<1>5. id \in Nat  BY <1>1, <1>2 DEF IntelTypeOK
<1> HIDE DEF id
<1>6. c \in CallRecord /\ CallOK(c) /\ c.row = None  BY <1>1, <1>5 DEF CallRecord, CallOK
<1>7. FreshIn(c, "out", graphs) /\ AnswerTrue(c, history, tokens', rows')
  BY <1>1, <1>3, <1>4, <1>6 DEF FreshIn, AnswerTrue, CallOK, CallRecord
<1> HIDE DEF c
<1> QED  BY <1>1, <1>3, <1>4, <1>6, <1>7, LeavesWith DEF GoesOn, IntelTypeOK

LEMMA ReportKeeps == ASSUME IntelInv, NEW t \in Thread, CommitReport(t) PROVE Kept
<1>1. /\ WriteExit(t) /\ Ends(t) /\ UNCHANGED <<enabled, graphs, history, tokens>>
      /\ rows' = [rows EXCEPT ![Reports] = Append(@, None)] /\ IntelTypeOK
  BY DEF CommitReport, IntelInv
<1>2. /\ rows' \in [Table \cup {Reports} -> Seq(Token \cup {None})]
      /\ \A a \in Table \cup {Reports} : \A i \in DOMAIN rows[a] :
           i \in DOMAIN rows'[a] /\ rows'[a][i] = rows[a][i]
  BY <1>1, Appended, Reports \in Table \cup {Reports}, None \in Token \cup {None}
<1>3. /\ NoCall \in CallRecord /\ CallOK(NoCall) /\ NoCall.row = None
      /\ FreshIn(NoCall, "out", graphs) /\ AnswerTrue(NoCall, history, tokens', rows')
  BY DEF NoCall, CallRecord, CallOK, FreshIn, AnswerTrue
<1> QED  BY <1>1, <1>2, <1>3, LeavesWith DEF Ends, IntelTypeOK

LEMMA EndingWritesKeep ==
  ASSUME IntelInv, NEW t \in Thread, StatusOfNone(t) \/ WriteFails(t) PROVE Kept
<1>1. enabled' \in BOOLEAN /\ WriteExit(t) /\ Ends(t) /\ UNCHANGED tableVars
  BY DEF StatusOfNone, WriteFails, IntelInv, IntelTypeOK, tableVars
<1> QED  BY <1>1, EndsKeeps

(* A writer is alone: the others have SELECTed nothing, and keep their place.   *)
LEMMA Alone ==
  ASSUME IntelInv, NEW t \in Thread, place[t] = "writes", NEW s \in Thread \ {t}
  PROVE  place[s] # "writes" /\ call[s].row = None
<1>1. place[s] # "writes"  BY DEF IntelInv, LockInv, At
<1> QED  BY <1>1, TheCall DEF FreshIn

(* A writer changes campaign c, whose versions go on being told.               *)
LEMMA CampaignWritten ==
  ASSUME IntelInv, NEW t \in Thread, NEW c \in Campaign, NEW gone \in BOOLEAN,
         place[t] = "writes", WriteExit(t), Done(t, c, gone), UNCHANGED <<enabled, tokens, rows>>,
         DOMAIN graphs' \subseteq Campaign, \A d \in DOMAIN graphs' : graphs'[d] \in GraphRow,
         history' \in [Campaign -> Seq(GraphRow)],
         \A d \in Campaign \ {c} : RowIn(d, graphs') = RowIn(d, graphs) /\ history'[d] = history[d],
         \A i \in DOMAIN history'[c] : history'[c][i].version = i,
         RowIn(c, graphs') = IF history'[c] = << >> THEN Absent ELSE history'[c][Len(history'[c])],
         gone \/ \A i \in DOMAIN history[c] :
                   i \in DOMAIN history'[c] /\ history'[c][i].version = history[c][i].version
  PROVE  Kept
<1>1. call \in [Thread -> CallRecord] /\ \A s \in Thread : CallOK(call[s])
  BY DEF IntelInv, IntelTypeOK
<1>2. NoCall \in CallRecord /\ CallOK(NoCall)  BY DEF NoCall, CallRecord, CallOK
<1> DEFINE hit(s) == call[s].campaign = c /\ call[s].seen # None
<1>4. /\ call'[t] = NoCall
      /\ \A s \in Thread \ {t} :
           call'[s] = IF hit(s) THEN [call[s] EXCEPT !.written = TRUE, !.deleted = @ \/ gone] ELSE call[s]
  BY DEF Done
<1>5. \A s \in Thread : call'[s] \in CallRecord /\ CallOK(call'[s])
  <2> SUFFICES ASSUME NEW s \in Thread PROVE call'[s] \in CallRecord /\ CallOK(call'[s])
    OBVIOUS
  <2>1. CASE s = t  BY <2>1, <1>2, <1>4
  <2>2. CASE s # t /\ hit(s)
    <3>1. call'[s] = [call[s] EXCEPT !.written = TRUE, !.deleted = @ \/ gone]  BY <2>2, <1>4
    <3>2. call[s] \in CallRecord /\ CallOK(call[s]) /\ (call[s].deleted \/ gone) \in BOOLEAN
      BY <1>1 DEF CallRecord
    <3>3. call'[s] \in CallRecord  BY <3>1, <3>2 DEF CallRecord
    <3>4. CallOK(call'[s])  BY <3>1, <3>2 DEF CallRecord, CallOK
    <3> QED  BY <3>3, <3>4
  <2>3. CASE s # t /\ ~hit(s)  BY <2>3, <1>1, <1>4
  <2> QED  BY <2>1, <2>2, <2>3
<1>6. IntelTypeOK'
  <2>1. call' \in [Thread -> CallRecord]  BY <1>5 DEF Done
  <2>2. \A s \in Thread : CallOK(call[s])'  BY <1>5 DEF CallOK
  <2> QED  BY <2>1, <2>2 DEF IntelInv, IntelTypeOK
<1>7. HistoryTold'
  <2> SUFFICES ASSUME NEW d \in Campaign
               PROVE  /\ \A i \in DOMAIN history'[d] : history'[d][i].version = i
                      /\ RowIn(d, graphs') = IF history'[d] = << >> THEN Absent
                                            ELSE history'[d][Len(history'[d])]
    BY DEF HistoryTold, Row, RowIn
  <2>1. CASE d = c  BY <2>1
  <2>2. CASE d # c
    <3>1. /\ \A i \in DOMAIN history[d] : history[d][i].version = i
          /\ RowIn(d, graphs) = IF history[d] = << >> THEN Absent ELSE history[d][Len(history[d])]
      BY DEF IntelInv, HistoryTold, Row, RowIn
    <3>2. RowIn(d, graphs') = RowIn(d, graphs) /\ history'[d] = history[d]  BY <2>2
    <3> QED  BY <3>1, <3>2
  <2> QED  BY <2>1, <2>2
<1>8. CallsTrue'
  <2> SUFFICES ASSUME NEW s \in Thread
               PROVE  FreshIn(call'[s], place'[s], graphs') /\ AnswerTrue(call'[s], history', tokens, rows)
    BY DEF CallsTrue, FreshIn, AnswerTrue, RowIn
  <2>1. CASE s = t
    <3>1. place'[t] = "out"  BY PlaceKept DEF IntelInv
    <3>2. call'[s] = NoCall /\ place'[s] = "out"  BY <2>1, <3>1, <1>4
    <3>3. FreshIn(NoCall, "out", graphs')  BY DEF FreshIn, NoCall
    <3>4. AnswerTrue(NoCall, history', tokens, rows)  BY DEF AnswerTrue, NoCall
    <3> QED  BY <3>2, <3>3, <3>4
  <2>2. CASE s # t
    <3>1. place'[s] # "writes" /\ call[s].row = None  BY <2>2, Alone, PlaceKept DEF IntelInv
    <3>2. /\ FreshIn(call[s], place[s], graphs) /\ AnswerTrue(call[s], history, tokens, rows)
          /\ call[s] \in CallRecord /\ CallOK(call[s])
      BY TheCall
    <3>3. CASE hit(s)
      <4>1. call'[s] = [call[s] EXCEPT !.written = TRUE, !.deleted = @ \/ gone]  BY <2>2, <3>3, <1>4
      <4>2. /\ call'[s].row = None /\ call'[s].written /\ call'[s].campaign = c
            /\ call'[s].deleted = (call[s].deleted \/ gone)
            /\ call'[s].op = call[s].op /\ call'[s].next = call[s].next /\ call'[s].seen = call[s].seen
            /\ call'[s].token = call[s].token /\ call'[s].id = call[s].id
            /\ call'[s].table = call[s].table
        BY <3>1, <3>2, <3>3, <4>1 DEF CallRecord
      <4>3. FreshIn(call'[s], place'[s], graphs')  BY <3>1, <4>2 DEF FreshIn
      <4>4. call'[s].op = "versions" /\ call'[s].seen # None /\ ~call'[s].deleted =>
              \E i \in DOMAIN history'[c] : history'[c][i].version = call'[s].seen.version
        <5>1. CASE gone  BY <5>1, <4>2
        <5>2. CASE ~gone
          <6>1. call[s].op = "versions" /\ call[s].seen # None /\ ~call[s].deleted =>
                  \E i \in DOMAIN history[c] : history[c][i].version = call[s].seen.version
            BY <3>2, <3>3 DEF AnswerTrue
          <6>2. \A i \in DOMAIN history[c] :
                  i \in DOMAIN history'[c] /\ history'[c][i].version = history[c][i].version
            BY <5>2
          <6>3. ~call'[s].deleted => ~call[s].deleted  BY <4>2
          <6>4. call'[s].op = call[s].op /\ call'[s].seen = call[s].seen  BY <4>2
          <6> QED  BY <6>1, <6>2, <6>3, <6>4
        <5> QED  BY <5>1, <5>2
      <4>5. AnswerTrue(call'[s], history', tokens, rows)
        BY <3>2, <4>2, <4>4 DEF AnswerTrue
      <4> QED  BY <4>3, <4>5
    <3>4. CASE ~hit(s)
      <4>1. call'[s] = call[s]  BY <2>2, <3>4, <1>4
      <4>2. FreshIn(call[s], place'[s], graphs')
        BY <3>1, <3>2, <3>4 DEF FreshIn, CallOK
      <4>3. AnswerTrue(call[s], history', tokens, rows)
        BY <3>1, <3>2, <3>4 DEF AnswerTrue, CallOK
      <4> QED  BY <4>1, <4>2, <4>3
    <3> QED  BY <3>3, <3>4
  <2> QED  BY <2>1, <2>2
<1> QED  BY <1>6, <1>7, <1>8 DEF Kept

(* A campaign that is saved goes on to its next version.                       *)
LEMMA Saved ==
  ASSUME IntelInv, NEW c \in Campaign, NEW s \in Status,
         Saves(c, Row(c).version + 1, s)
  PROVE  /\ DOMAIN graphs' \subseteq Campaign /\ \A d \in DOMAIN graphs' : graphs'[d] \in GraphRow
         /\ history' \in [Campaign -> Seq(GraphRow)]
         /\ \A d \in Campaign \ {c} : RowIn(d, graphs') = RowIn(d, graphs) /\ history'[d] = history[d]
         /\ \A i \in DOMAIN history'[c] : history'[c][i].version = i
         /\ RowIn(c, graphs') = IF history'[c] = << >> THEN Absent ELSE history'[c][Len(history'[c])]
         /\ \A i \in DOMAIN history[c] :
              i \in DOMAIN history'[c] /\ history'[c][i].version = history[c][i].version
<1> DEFINE r == [version |-> Row(c).version + 1, status |-> s]
<1>1. /\ Row(c) \in GraphRow /\ history[c] \in Seq(GraphRow) /\ Row(c).version = Len(history[c])
      /\ history \in [Campaign -> Seq(GraphRow)]
      /\ DOMAIN graphs \subseteq Campaign /\ \A d \in DOMAIN graphs : graphs[d] \in GraphRow
      /\ \A i \in DOMAIN history[c] : history[c][i].version = i
  BY TheRow DEF IntelInv, IntelTypeOK, HistoryTold
<1>2. r \in GraphRow /\ r.version = Len(history[c]) + 1  BY <1>1 DEF GraphRow
<1>3. /\ graphs' = [d \in DOMAIN graphs \cup {c} |-> IF d = c THEN r ELSE graphs[d]]
      /\ history' = [history EXCEPT ![c] = Append(@, r)]
  BY DEF Saves
<1> HIDE DEF r
<1>4. /\ DOMAIN graphs' = {c} \cup DOMAIN graphs /\ graphs'[c] = r
      /\ \A d \in DOMAIN graphs \ {c} : graphs'[d] = graphs[d]
  BY <1>3
<1>5. DOMAIN graphs' \subseteq Campaign /\ \A d \in DOMAIN graphs' : graphs'[d] \in GraphRow
  BY <1>1, <1>2, <1>4
<1>6. /\ history'[c] = Append(history[c], r) /\ \A d \in Campaign \ {c} : history'[d] = history[d]
      /\ history' \in [Campaign -> Seq(GraphRow)]
  BY <1>1, <1>2, <1>3
<1>7. \A d \in Campaign \ {c} : RowIn(d, graphs') = RowIn(d, graphs)  BY <1>4 DEF RowIn
<1>8. /\ Len(history'[c]) = Len(history[c]) + 1 /\ DOMAIN history'[c] = 1 .. Len(history[c]) + 1
      /\ history'[c][Len(history[c]) + 1] = r
      /\ \A i \in DOMAIN history[c] : i \in DOMAIN history'[c] /\ history'[c][i] = history[c][i]
  BY <1>1, <1>2, <1>6
<1>9. \A i \in DOMAIN history'[c] : history'[c][i].version = i
  <2> SUFFICES ASSUME NEW i \in DOMAIN history'[c] PROVE history'[c][i].version = i  OBVIOUS
  <2>1. CASE i = Len(history[c]) + 1  BY <2>1, <1>2, <1>8
  <2>2. CASE i # Len(history[c]) + 1
    <3>1. i \in DOMAIN history[c]  BY <2>2, <1>1, <1>8
    <3> QED  BY <3>1, <1>1, <1>8
  <2> QED  BY <2>1, <2>2
<1>10. RowIn(c, graphs') = r  BY <1>4 DEF RowIn
<1>11. history'[c] # << >>  BY <1>8, <1>1
<1> QED  BY <1>5, <1>6, <1>7, <1>8, <1>9, <1>10, <1>11

LEMMA CampaignWritesKeep ==
  ASSUME IntelInv, NEW t \in Thread, CommitUpsert(t) \/ CommitStatus(t) \/ CommitDelete(t)
  PROVE  Kept
<1> DEFINE c == call[t].campaign
<1>1. /\ call[t] \in CallRecord /\ CallOK(call[t]) /\ FreshIn(call[t], place[t], graphs)
      /\ place[t] = "writes" /\ call[t].op \in {"upsert", "status", "delete"} /\ WriteExit(t)
      /\ UNCHANGED <<enabled, tokens, rows>>
  BY TheCall DEF CommitUpsert, CommitStatus, CommitDelete, Writing
<1>2. c \in Campaign /\ (call[t].row # None => call[t].row = Row(c))
  BY <1>1, TheRow DEF CallOK, FreshIn
<1>3. /\ history \in [Campaign -> Seq(GraphRow)]
      /\ DOMAIN graphs \subseteq Campaign /\ \A d \in DOMAIN graphs : graphs[d] \in GraphRow
      /\ \A i \in DOMAIN history[c] : history[c][i].version = i
      /\ RowIn(c, graphs) = IF history[c] = << >> THEN Absent ELSE history[c][Len(history[c])]
  BY <1>2, TheRow DEF IntelInv, IntelTypeOK, HistoryTold
<1>4. ASSUME Saves(c, Row(c).version + 1, call[t].status), Done(t, c, FALSE),
             call[t].op \in {"upsert", "status"}
      PROVE  Kept
  <2>1. call[t].status \in Status  BY <1>1, <1>4 DEF CallOK
  <2> HIDE DEF c
  <2> QED  BY <1>1, <1>2, <1>4, <2>1, Saved, CampaignWritten
<1>5. CASE CommitUpsert(t)
  <2>1. call[t].row = Row(c)  BY <1>2, <1>5 DEF CommitUpsert
  <2> QED  BY <1>4, <1>5, <2>1 DEF CommitUpsert, Writing
<1>6. CASE CommitStatus(t)
  <2>1. call[t].row = Row(c)  BY <1>2, <1>6 DEF CommitStatus
  <2>2. CASE call[t].row.status # call[t].status
    BY <1>4, <1>6, <2>1, <2>2 DEF CommitStatus, Writing
  <2>3. CASE call[t].row.status = call[t].status
    <3>1. UNCHANGED <<graphs, history>> /\ Done(t, c, FALSE)  BY <1>6, <2>3 DEF CommitStatus
    <3> HIDE DEF c
    <3> QED  BY <1>1, <1>2, <1>3, <3>1, CampaignWritten DEF RowIn
  <2> QED  BY <2>2, <2>3
<1>7. CASE CommitDelete(t)
  <2>1. /\ history' = [history EXCEPT ![c] = << >>] /\ Done(t, c, TRUE)
        /\ graphs' = [d \in DOMAIN graphs \ {c} |-> graphs[d]]
    BY <1>7 DEF CommitDelete, Restrict
  <2> HIDE DEF c
  <2>2. history' \in [Campaign -> Seq(GraphRow)] /\ history'[c] = << >>
    BY <1>2, <1>3, <2>1
  <2>3. \A d \in Campaign \ {c} : history'[d] = history[d] /\ RowIn(d, graphs') = RowIn(d, graphs)
    BY <1>2, <1>3, <2>1 DEF RowIn
  <2>4. DOMAIN graphs' \subseteq Campaign /\ \A d \in DOMAIN graphs' : graphs'[d] \in GraphRow
    BY <1>3, <2>1
  <2>5. RowIn(c, graphs') = Absent  BY <2>1 DEF RowIn
  <2>6. \A i \in DOMAIN history'[c] : history'[c][i].version = i  BY <2>2
  <2> QED  BY <1>1, <1>2, <2>1, <2>2, <2>3, <2>4, <2>5, <2>6, CampaignWritten
<1> QED  BY <1>5, <1>6, <1>7

-----------------------------------------------------------------------------
(* Every step of the store is a step of its lock, or leaves the lock alone.     *)
LEMMA StoreStepIsLockStep ==
  ASSUME NEW t \in Thread, Operations(t) \/ Enter(t) \/ Reads(t) \/ Writes(t)
  PROVE  LockNext \/ UNCHANGED lockVars
<1>1. CASE Operations(t)
  BY <1>1 DEF Operations, Delete, Versions, Upsert, SetStatus, GenerateToken, RecordHit, RecordRow,
       RecordReport, Begin
<1>2. CASE Enter(t)  BY <1>2 DEF Enter, LockNext
<1>3. CASE Reads(t)
  BY <1>3 DEF Reads, ReadPrevious, ReadCampaign, ReadVersions, ReadBack, ReadFails, LockNext
<1>4. CASE Writes(t)
  BY <1>4 DEF Writes, SelectGraph, CommitUpsert, CommitStatus, StatusOfNone, CommitDelete,
       CommitToken, CommitRow, CommitReport, WriteFails, LockNext
<1> QED  BY <1>1, <1>2, <1>3, <1>4

(* The store takes and leaves its lock as the lock demands: it implements it.   *)
THEOREM StoreUsesLock == IntelSpec => LockSpec
<1>1. IntelInit => LockInit  BY DEF IntelInit
<1>2. [IntelNext]_storeVars => [LockNext]_lockVars
  BY StoreStepIsLockStep DEF IntelNext, storeVars
<1> QED  BY <1>1, <1>2, PTL DEF IntelSpec, LockSpec

(* No thread of the store waits for ever on a notification that was lost.       *)
THEOREM StoreNeverStuck == IntelSpec => []NobodyStuck
BY StoreUsesLock, NoWakeUpIsLost, PTL

LEMMA IntelStepKeeps == ASSUME IntelInv, [IntelNext]_storeVars PROVE IntelInv'
<1>1. LockInv'
  <2>1. LockNext \/ UNCHANGED lockVars
    BY StoreStepIsLockStep DEF IntelNext, storeVars
  <2> QED  BY <2>1, LockStepKeeps DEF IntelInv
<1>2. Kept
  <2>1. CASE UNCHANGED storeVars
    BY <2>1 DEF storeVars, lockVars, intelVars, tableVars, Kept, IntelInv, IntelTypeOK, CallOK, CallRecord,
         HistoryTold, Row, CallsTrue, FreshIn, AnswerTrue, RowIn
  <2>2. ASSUME NEW t \in Thread, Operations(t) \/ Enter(t) \/ Reads(t) \/ Writes(t) PROVE Kept
    BY <2>2, OperationsKeep, EnterKeeps, ReadsKeep, SelectKeeps, CampaignWritesKeep, EndingWritesKeep,
         TokenKeeps, RowKeeps, ReportKeeps DEF Writes
  <2> QED  BY <2>1, <2>2 DEF IntelNext
<1> QED  BY <1>1, <1>2 DEF IntelInv, Kept

(* The invariant of the store, from which its properties follow. *)
THEOREM StoreInvariant == IntelSpec => []IntelInv
BY InitIntel, IntelStepKeeps, PTL DEF IntelSpec

(* The versions of a campaign are numbered without a gap and end with its own    *)
(* version and status.                                                     *)
THEOREM HistoryIsTold == IntelSpec => []HistoryTold
BY StoreInvariant, PTL DEF IntelInv

(* What operations of several calls are about to answer is true.               *)
THEOREM AnswersAreTrue == IntelSpec => []AnswersHold
<1>1. IntelInv => AnswersHold  BY DEF IntelInv, CallsTrue, AnswerTrue, AnswersHold
<1> QED  BY <1>1, StoreInvariant, PTL

-----------------------------------------------------------------------------
(* What overrides can be set for. *)
Place == Context \cup {Wildcard}

(* What a call has in hand. *)
Asking == [at : {"idle", "check", "scan", "clean", "record", "overrides", "total"},
           context : Place, since : Nat, left : SUBSET (Arm \cup Place), eligible : SUBSET Arm,
           arm : Nat, overtaken : SUBSET Arm, renewed : SUBSET Place]

(* What a call has in hand depends on where it is.                           *)
AskingOK(w) ==
  /\ asked[w].since <= clock
  /\ asked[w].at = "check" => asked[w].left \subseteq Arm /\ asked[w].left # {}
  /\ asked[w].at = "record" => asked[w].arm \in Arm

(* The type of the bandit's state. *)
LureTypeOK ==
  /\ DOMAIN stats \subseteq Arm /\ stats \in [DOMAIN stats -> [pulls : Nat, last : Nat]]
  /\ total \in Nat /\ clock \in Nat /\ torn \in BOOLEAN
  /\ DOMAIN overrides \subseteq Place /\ overrides \in [DOMAIN overrides -> [arm : Arm, until : Nat]]
  /\ asked \in [Caller -> Asking] /\ \A w \in Caller : AskingOK(w)

(* Every selection that counts: the n-th pull of an arm.                      *)
Pulled == UNION {{a} \X (1 .. stats[a].pulls) : a \in DOMAIN stats}

(* The pulls add up to the total, but for a reset that is under way.          *)
CountInv ==
  /\ IsFiniteSet(Pulled)
  /\ ~torn => Cardinality(Pulled) = IF Resetting THEN 0 ELSE total

(* An arm that was found eligible stays so until it is selected.              *)
EligibleInv ==
  ~torn => \A w \in Caller :
    /\ asked[w].at \in {"check", "scan", "clean"} =>
         \A a \in asked[w].eligible \ asked[w].overtaken : ~Blocked(a, asked[w].since)
    /\ asked[w].at = "record" /\ asked[w].overtaken = {} => ~Blocked(asked[w].arm, asked[w].since)

(* What a call takes off has expired, or was set anew.                       *)
ExpiredInv ==
  \A w \in Caller : asked[w].at = "clean" =>
    \A c \in asked[w].left \cap DOMAIN overrides :
      overrides[c].until <= clock \/ c \in asked[w].renewed

(* The inductive invariant of the bandit. *)
LureInv == LureTypeOK /\ CountInv /\ EligibleInv /\ ExpiredInv

(* Where a call is in the middle of a reset. *)
Resets == {"overrides", "total"}

(* What a statistics table says of arms, known or not.                        *)
LEMMA StatsTyped ==
  ASSUME LureTypeOK
  PROVE  \A a \in Arm :
           /\ Stats(a) \in [pulls : Nat, last : Nat]
           /\ a \in DOMAIN stats => Stats(a) = stats[a]
           /\ a \notin DOMAIN stats => Stats(a) = NewStats
BY DEF LureTypeOK, Stats, Known, NewStats

(* What makes the pulls.                                                     *)
LEMMA PulledIs ==
  \A p : p \in Pulled <=> \E a \in DOMAIN stats : \E n \in 1 .. stats[a].pulls : p = <<a, n>>
BY DEF Pulled

(* Adding arms that are not known changes nothing.                           *)
LEMMA KnownKeeps ==
  ASSUME LureTypeOK, stats' = stats \/ \E K \in SUBSET Arm : stats' = Known(K)
  PROVE  /\ DOMAIN stats' \subseteq Arm /\ stats' \in [DOMAIN stats' -> [pulls : Nat, last : Nat]]
         /\ Pulled' = Pulled
         /\ \A a \in Arm : Stats(a)' = Stats(a)
<1>1. CASE stats' = stats
  BY <1>1 DEF LureTypeOK, Pulled, Stats, Known
<1>2. CASE \E K \in SUBSET Arm : stats' = Known(K)
  <2>1. PICK K \in SUBSET Arm : stats' = Known(K)  BY <1>2
  <2>2. /\ DOMAIN stats' = DOMAIN stats \cup K
        /\ \A a \in DOMAIN stats : stats'[a] = stats[a]
        /\ \A a \in K \ DOMAIN stats : stats'[a] = NewStats
    BY <2>1 DEF Known
  <2>3. stats' \in [DOMAIN stats' -> [pulls : Nat, last : Nat]]
    <3>1. NewStats \in [pulls : Nat, last : Nat]  BY DEF NewStats
    <3>2. \A a \in DOMAIN stats' : stats'[a] \in [pulls : Nat, last : Nat]
      BY <2>2, <3>1 DEF LureTypeOK
    <3>3. stats' = [a \in DOMAIN stats' |-> stats'[a]]  BY <2>1 DEF Known
    <3> QED  BY <3>2, <3>3
  <2>4. \A p : p \in Pulled' <=> p \in Pulled
    <3>1. \A p : p \in Pulled' <=> \E a \in DOMAIN stats' : \E n \in 1 .. stats'[a].pulls : p = <<a, n>>
      BY DEF Pulled
    <3>2. \A a \in K \ DOMAIN stats : 1 .. stats'[a].pulls = {}  BY <2>2 DEF NewStats
    <3> QED  BY <2>2, <3>1, <3>2, PulledIs
  <2>5. \A a \in Arm : Stats(a)' = Stats(a)
    BY <2>2 DEF Stats, Known, NewStats, LureTypeOK
  <2> QED  BY <2>2, <2>3, <2>4, <2>5 DEF LureTypeOK
<1> QED  BY <1>1, <1>2

(* Whether an arm is blocked depends on its statistics and the total.         *)
LEMMA BlockedSame ==
  ASSUME NEW a \in Arm, Stats(a)' = Stats(a), total' = total
  PROVE  \A time \in Nat : Blocked(a, time)' <=> Blocked(a, time)
BY DEF Blocked, Cooling, OverCap

(* What EligibleInv and ExpiredInv say of one call. *)
EligibleAt(w) ==
  /\ asked[w].at \in {"check", "scan", "clean"} =>
       \A a \in asked[w].eligible \ asked[w].overtaken : ~Blocked(a, asked[w].since)
  /\ asked[w].at = "record" /\ asked[w].overtaken = {} => ~Blocked(asked[w].arm, asked[w].since)

ExpiredAt(w) ==
  asked[w].at = "clean" =>
    \A c \in asked[w].left \cap DOMAIN overrides :
      overrides[c].until <= clock \/ c \in asked[w].renewed

(* A step that moves one call, and at most adds arms and takes overrides off. *)
LEMMA MoveKeeps ==
  ASSUME LureInv, NEW w \in Caller, NEW o \in Asking, Goto(w, o), AskingOK(w)',
         stats' = stats \/ \E K \in SUBSET Arm : stats' = Known(K),
         UNCHANGED <<total, clock, torn>>,
         o.at \in Resets <=> asked[w].at \in Resets,
         DOMAIN overrides' \subseteq DOMAIN overrides,
         overrides' \in [DOMAIN overrides' -> [arm : Arm, until : Nat]],
         \A c \in DOMAIN overrides' : overrides'[c] = overrides[c],
         torn \/ EligibleAt(w)', ExpiredAt(w)'
  PROVE  LureInv'
<1> USE DEF LureInv
<1>1. /\ asked' \in [Caller -> Asking] /\ asked'[w] = o
      /\ \A v \in Caller \ {w} : asked'[v] = asked[v]
  BY DEF Goto, LureTypeOK
<1>2. /\ DOMAIN stats' \subseteq Arm /\ stats' \in [DOMAIN stats' -> [pulls : Nat, last : Nat]]
      /\ Pulled' = Pulled /\ \A a \in Arm : Stats(a)' = Stats(a)
  BY KnownKeeps
<1>3. \A v \in Caller \ {w} : AskingOK(v)'
  <2>1. \A v \in Caller : AskingOK(v)  BY DEF LureTypeOK
  <2> QED  BY <1>1, <2>1 DEF AskingOK
<1>4. LureTypeOK'
  <2>1. \A v \in Caller : AskingOK(v)'  BY <1>3
  <2> QED  BY <1>1, <1>2, <2>1 DEF LureTypeOK
<1>5. Resetting' <=> Resetting
  BY <1>1 DEF Resetting, Resets
<1>6. CountInv'
  BY <1>2, <1>5 DEF CountInv
<1>7. \A a \in Arm, time \in Nat : Blocked(a, time)' <=> Blocked(a, time)
  BY <1>2, BlockedSame
<1>8. EligibleInv'
  <2> SUFFICES ASSUME ~torn, NEW v \in Caller PROVE EligibleAt(v)'
    BY DEF EligibleInv, EligibleAt
  <2>1. CASE v = w  BY <2>1
  <2>2. CASE v # w
    <3>1. asked'[v] = asked[v] /\ asked[v] \in Asking /\ AskingOK(v)  BY <1>1, <2>2 DEF LureTypeOK
    <3>2. EligibleAt(v)  BY DEF EligibleInv, EligibleAt
    <3>3. asked[v].since \in Nat /\ asked[v].eligible \subseteq Arm  BY <3>1 DEF Asking
    <3>4. asked[v].at = "record" => asked[v].arm \in Arm  BY <3>1 DEF AskingOK
    <3> QED  BY <1>7, <3>1, <3>2, <3>3, <3>4 DEF EligibleAt
  <2> QED  BY <2>1, <2>2
<1>9. ExpiredInv'
  <2> SUFFICES ASSUME NEW v \in Caller PROVE ExpiredAt(v)'
    BY DEF ExpiredInv, ExpiredAt
  <2>1. CASE v = w  BY <2>1
  <2>2. CASE v # w
    BY <1>1, <2>2 DEF ExpiredAt, ExpiredInv
  <2> QED  BY <2>1, <2>2
<1> QED  BY <1>4, <1>6, <1>8, <1>9

(* A call that rests, or asks for nothing, has nothing in hand.               *)
LEMMA EmptyHanded ==
  /\ NotAsking \in Asking /\ Snapshot \in Asking
  /\ NotAsking.at = "idle" /\ Snapshot.at = "scan" /\ Snapshot.eligible = {}
  /\ NotAsking.since = 0 /\ Snapshot.since = 0
BY LuresAssumption DEF LuresAssumption, NotAsking, Snapshot, Asking, Place

(* A call ends, or begins with a snapshot. *)
LEMMA RestKeeps ==
  ASSUME LureInv, NEW w \in Caller, Goto(w, NotAsking) \/ Goto(w, Snapshot),
         asked[w].at \notin Resets,
         stats' = stats \/ \E K \in SUBSET Arm : stats' = Known(K),
         UNCHANGED <<total, overrides, clock, torn>>
  PROVE  LureInv'
<1>1. PICK o \in {NotAsking, Snapshot} : Goto(w, o)  OBVIOUS
<1>2. /\ o \in Asking /\ o.at \in {"idle", "scan"} /\ (o.at = "scan" => o.eligible = {})
      /\ o.since = 0
  BY <1>1, EmptyHanded
<1>3. asked'[w] = o  BY <1>1 DEF Goto, LureInv, LureTypeOK
<1>4. AskingOK(w)'  BY <1>2, <1>3 DEF AskingOK, LureInv, LureTypeOK
<1>5. EligibleAt(w)' /\ ExpiredAt(w)'  BY <1>2, <1>3 DEF EligibleAt, ExpiredAt
<1>6. /\ DOMAIN overrides' \subseteq DOMAIN overrides
      /\ overrides' \in [DOMAIN overrides' -> [arm : Arm, until : Nat]]
      /\ \A c \in DOMAIN overrides' : overrides'[c] = overrides[c]
  BY DEF LureInv, LureTypeOK
<1>7. o.at \in Resets <=> asked[w].at \in Resets  BY <1>2 DEF Resets
<1> QED  BY <1>1, <1>2, <1>4, <1>5, <1>6, <1>7, MoveKeeps

(* A call looks at the arms it was offered. *)
LEMMA SelectArmKeeps ==
  ASSUME LureInv, NEW w \in Caller, NEW c \in Context, Select(w, c)
  PROVE  LureInv'
<1>1. PICK o : o = [NotAsking EXCEPT !.at = "check", !.context = c, !.since = clock, !.left = Offered[c]]
  OBVIOUS
<1>2. o \in Asking
  BY <1>1, LuresAssumption, EmptyHanded DEF LuresAssumption, Asking, Place, LureInv, LureTypeOK, NotAsking
<1>3. o.at = "check" /\ o.since = clock /\ o.left = Offered[c] /\ o.eligible = {}
  BY <1>1 DEF NotAsking
<1>4. Goto(w, o) /\ asked[w].at = "idle" /\ UNCHANGED <<stats, total, overrides, clock, torn>>
  BY <1>1 DEF Select
<1>5. asked'[w] = o  BY <1>4 DEF Goto, LureInv, LureTypeOK
<1>6. AskingOK(w)'
  <2>1. o.left \subseteq Arm /\ o.left # {}  BY <1>3, LuresAssumption DEF LuresAssumption
  <2>2. clock \in Nat /\ clock' = clock  BY <1>4 DEF LureInv, LureTypeOK
  <2> QED  BY <1>3, <1>5, <2>1, <2>2 DEF AskingOK
<1>7. EligibleAt(w)' /\ ExpiredAt(w)'  BY <1>3, <1>5 DEF EligibleAt, ExpiredAt
<1>8. /\ DOMAIN overrides' \subseteq DOMAIN overrides
      /\ overrides' \in [DOMAIN overrides' -> [arm : Arm, until : Nat]]
      /\ \A d \in DOMAIN overrides' : overrides'[d] = overrides[d]
  BY <1>4 DEF LureInv, LureTypeOK
<1>9. o.at \in Resets <=> asked[w].at \in Resets  BY <1>3, <1>4 DEF Resets
<1> QED  BY <1>2, <1>4, <1>6, <1>7, <1>8, <1>9, MoveKeeps

(* A set of numbers that is not empty has a least one.                        *)
LEMMA LeastNumber ==
  ASSUME NEW S \in SUBSET Nat, S # {}
  PROVE  \E x \in S : \A y \in S : x <= y
<1> DEFINE less == {p \in Nat \X Nat : p[1] < p[2]}
<1>1. IsWellFoundedOn(less, Nat)  BY NatLessThanWellFounded, Zenon DEF OpToRel
<1>2. PICK x \in S : \A y \in S : <<y, x>> \notin less  BY <1>1, WFMin
<1>3. ASSUME NEW y \in S PROVE x <= y
  <2>1. x \in Nat /\ y \in Nat /\ <<y, x>> \notin less  BY <1>2
  <2>2. <<y, x>> \in Nat \X Nat /\ <<y, x>>[1] = y /\ <<y, x>>[2] = x  BY <2>1
  <2>3. ~(y < x)  BY <2>1, <2>2
  <2> QED  BY <2>1, <2>3
<1> QED  BY <1>2, <1>3

(* Min takes the least of the arms.                                          *)
LEMMA LeastArm ==
  ASSUME NEW S \in SUBSET Arm, S # {}
  PROVE  Min(S) \in S
<1>1. S \subseteq Nat  BY LuresAssumption DEF LuresAssumption
<1>2. \E x \in S : \A y \in S : x <= y  BY <1>1, LeastNumber
<1> QED  BY <1>2 DEF Min

(* One arm is checked. *)
LEMMA CheckKeeps ==
  ASSUME LureInv, NEW w \in Caller, Check(w)
  PROVE  LureInv'
<1>1. PICK q \in Asking : q = asked[w]  BY DEF LureInv, LureTypeOK
<1>2. PICK a : a = Min(q.left)  OBVIOUS
<1>3. PICK E : E = IF Blocked(a, q.since) THEN q.eligible ELSE q.eligible \cup {a}  OBVIOUS
<1>4. /\ q.at = "check"
      /\ stats' = IF a \in Denylist THEN stats ELSE Known({a})
      /\ Goto(w, IF q.left # {a} THEN [q EXCEPT !.left = @ \ {a}, !.eligible = E]
                 ELSE IF E = {} THEN NotAsking
                 ELSE [q EXCEPT !.at = "scan", !.left = {}, !.eligible = E])
      /\ UNCHANGED <<total, overrides, clock, torn>>
  BY <1>1, <1>2, <1>3 DEF Check
<1>5. q.left \subseteq Arm /\ q.left # {} /\ q.since <= clock /\ q.since \in Nat
  BY <1>1, <1>4 DEF LureInv, LureTypeOK, AskingOK, Asking
<1>6. a \in q.left /\ a \in Arm  BY <1>2, <1>5, LeastArm
<1>7. stats' = stats \/ \E K \in SUBSET Arm : stats' = Known(K)
  BY <1>4, <1>6
<1>8. asked[w].at \notin Resets  BY <1>1, <1>4 DEF Resets
<1>9. CASE q.left = {a} /\ E = {}
  BY <1>4, <1>7, <1>8, <1>9, RestKeeps
<1>10. CASE ~(q.left = {a} /\ E = {})
  <2>1. PICK o : o = IF q.left # {a} THEN [q EXCEPT !.left = @ \ {a}, !.eligible = E]
                     ELSE [q EXCEPT !.at = "scan", !.left = {}, !.eligible = E]
    OBVIOUS
  <2>2. Goto(w, o)  BY <1>4, <1>10, <2>1
  <2>3. E \subseteq Arm  BY <1>1, <1>3, <1>6 DEF Asking
  <2>4. o \in Asking  BY <1>1, <2>1, <2>3 DEF Asking
  <2>5. /\ o.at = IF q.left # {a} THEN "check" ELSE "scan"
        /\ o.since = q.since /\ o.eligible = E /\ o.overtaken = q.overtaken
        /\ o.left = IF q.left # {a} THEN q.left \ {a} ELSE {}
    BY <1>1, <1>4, <2>1 DEF Asking
  <2>6. asked'[w] = o  BY <2>2 DEF Goto, LureInv, LureTypeOK
  <2>7. AskingOK(w)'
    BY <1>4, <1>5, <1>6, <2>5, <2>6 DEF AskingOK
  <2>8. /\ \A b \in Arm : Stats(b)' = Stats(b)
    BY <1>7, KnownKeeps DEF LureInv
  <2>9. \A b \in Arm : \A time \in Nat : Blocked(b, time)' <=> Blocked(b, time)
    BY <1>4, <2>8, BlockedSame
  <2>10. torn \/ \A b \in E \ q.overtaken : ~Blocked(b, q.since)
    BY <1>1, <1>3, <1>4 DEF LureInv, EligibleInv
  <2>11. torn \/ EligibleAt(w)'
    BY <1>5, <2>3, <2>5, <2>6, <2>9, <2>10 DEF EligibleAt
  <2>12. ExpiredAt(w)'  BY <2>5, <2>6 DEF ExpiredAt
  <2>13. /\ DOMAIN overrides' \subseteq DOMAIN overrides
         /\ overrides' \in [DOMAIN overrides' -> [arm : Arm, until : Nat]]
         /\ \A c \in DOMAIN overrides' : overrides'[c] = overrides[c]
    BY <1>4 DEF LureInv, LureTypeOK
  <2>14. o.at \in Resets <=> asked[w].at \in Resets  BY <1>8, <2>5 DEF Resets
  <2> QED  BY <1>4, <1>7, <2>2, <2>4, <2>7, <2>11, <2>12, <2>13, <2>14, MoveKeeps
<1> QED  BY <1>9, <1>10

(* The expired overrides are looked for. *)
LEMMA ScanKeeps ==
  ASSUME LureInv, NEW w \in Caller, Scan(w)
  PROVE  LureInv'
<1>1. PICK q \in Asking : q = asked[w]  BY DEF LureInv, LureTypeOK
<1>2. PICK time : time = IF q.eligible = {} THEN clock ELSE q.since  OBVIOUS
<1>3. PICK gone : gone = {c \in DOMAIN overrides : overrides[c].until <= time}  OBVIOUS
<1>4. PICK o : o = [q EXCEPT !.at = "clean", !.since = time, !.renewed = {}, !.left = gone]  OBVIOUS
<1>5. /\ q.at = "scan" /\ stats' = Known(q.eligible) /\ Goto(w, o)
      /\ UNCHANGED <<total, overrides, clock, torn>>
  BY <1>1, <1>2, <1>3, <1>4 DEF Scan
<1>6. clock \in Nat /\ q.since \in Nat /\ q.since <= clock /\ time \in Nat /\ time <= clock
  BY <1>1, <1>2 DEF LureInv, LureTypeOK, AskingOK, Asking
<1>7. gone \subseteq Place  BY <1>3 DEF LureInv, LureTypeOK
<1>8. o \in Asking  BY <1>1, <1>4, <1>6, <1>7 DEF Asking
<1>9. /\ o.at = "clean" /\ o.since = time /\ o.left = gone
      /\ o.eligible = q.eligible /\ o.overtaken = q.overtaken
  BY <1>1, <1>4 DEF Asking
<1>10. asked'[w] = o  BY <1>5 DEF Goto, LureInv, LureTypeOK
<1>11. AskingOK(w)'  BY <1>5, <1>6, <1>9, <1>10 DEF AskingOK
<1>12. q.eligible \subseteq Arm  BY <1>1 DEF Asking
<1>13. stats' = stats \/ \E K \in SUBSET Arm : stats' = Known(K)  BY <1>5, <1>12
<1>14. \A b \in Arm : \A t \in Nat : Blocked(b, t)' <=> Blocked(b, t)
  <2>1. \A b \in Arm : Stats(b)' = Stats(b)  BY <1>13, KnownKeeps DEF LureInv
  <2> QED  BY <1>5, <2>1, BlockedSame
<1>15. torn \/ EligibleAt(w)'
  <2>1. torn \/ \A b \in q.eligible \ q.overtaken : ~Blocked(b, q.since)
    BY <1>1, <1>5 DEF LureInv, EligibleInv
  <2>2. q.eligible # {} => time = q.since  BY <1>2
  <2> QED  BY <1>6, <1>9, <1>10, <1>12, <1>14, <2>1, <2>2 DEF EligibleAt
<1>16. ExpiredAt(w)'
  <2>1. ASSUME NEW c \in gone, c \in DOMAIN overrides PROVE overrides[c].until <= clock
    <3>1. overrides[c].until \in Nat /\ overrides[c].until <= time
      BY <1>3, <2>1 DEF LureInv, LureTypeOK
    <3> QED  BY <1>6, <3>1
  <2> QED  BY <1>5, <1>9, <1>10, <2>1 DEF ExpiredAt
<1>17. /\ DOMAIN overrides' \subseteq DOMAIN overrides
       /\ overrides' \in [DOMAIN overrides' -> [arm : Arm, until : Nat]]
       /\ \A c \in DOMAIN overrides' : overrides'[c] = overrides[c]
  BY <1>5 DEF LureInv, LureTypeOK
<1>18. o.at \in Resets <=> asked[w].at \in Resets  BY <1>1, <1>5, <1>9 DEF Resets
<1> QED  BY <1>5, <1>8, <1>11, <1>13, <1>15, <1>16, <1>17, <1>18, MoveKeeps

(* An expired override is taken off, or was by another call. *)
LEMMA CleanKeeps ==
  ASSUME LureInv, NEW w \in Caller, Clean(w)
  PROVE  LureInv'
<1>1. PICK q \in Asking : q = asked[w]  BY DEF LureInv, LureTypeOK
<1>2. /\ q.at = "clean" /\ UNCHANGED <<stats, total, clock, torn>>
  BY <1>1 DEF Clean
<1>3. PICK c \in q.left :
        IF c \in DOMAIN overrides
        THEN /\ overrides' = Restrict(overrides, DOMAIN overrides \ {c})
             /\ Goto(w, [q EXCEPT !.left = @ \ {c}])
        ELSE Goto(w, NotAsking) /\ UNCHANGED overrides
  BY <1>1 DEF Clean
<1>4. asked[w].at \notin Resets  BY <1>1, <1>2 DEF Resets
<1>5. CASE c \notin DOMAIN overrides
  BY <1>2, <1>3, <1>4, <1>5, RestKeeps
<1>6. CASE c \in DOMAIN overrides
  <2>1. PICK o : o = [q EXCEPT !.left = @ \ {c}]  OBVIOUS
  <2>2. Goto(w, o) /\ overrides' = Restrict(overrides, DOMAIN overrides \ {c})  BY <1>3, <1>6, <2>1
  <2>3. o \in Asking  BY <1>1, <2>1 DEF Asking
  <2>4. /\ o.at = "clean" /\ o.since = q.since /\ o.left = q.left \ {c} /\ o.renewed = q.renewed
        /\ o.eligible = q.eligible /\ o.overtaken = q.overtaken
    BY <1>1, <1>2, <2>1 DEF Asking
  <2>5. asked'[w] = o  BY <2>2 DEF Goto, LureInv, LureTypeOK
  <2>6. AskingOK(w)'
    BY <1>1, <1>2, <2>4, <2>5 DEF AskingOK, LureInv, LureTypeOK
  <2>7. /\ DOMAIN overrides' = DOMAIN overrides \ {c}
        /\ \A d \in DOMAIN overrides' : overrides'[d] = overrides[d]
        /\ overrides' \in [DOMAIN overrides' -> [arm : Arm, until : Nat]]
    BY <2>2 DEF Restrict, LureInv, LureTypeOK
  <2>8. \A b \in Arm : \A t \in Nat : Blocked(b, t)' <=> Blocked(b, t)
    <3>1. \A b \in Arm : Stats(b)' = Stats(b)  BY <1>2 DEF Stats, Known
    <3> QED  BY <1>2, <3>1, BlockedSame
  <2>9. torn \/ EligibleAt(w)'
    <3>1. torn \/ \A b \in q.eligible \ q.overtaken : ~Blocked(b, q.since)
      BY <1>1, <1>2 DEF LureInv, EligibleInv
    <3>2. q.eligible \subseteq Arm /\ q.since \in Nat  BY <1>1 DEF Asking
    <3> QED  BY <2>4, <2>5, <2>8, <3>1, <3>2 DEF EligibleAt
  <2>10. ExpiredAt(w)'
    BY <1>1, <1>2, <2>4, <2>5, <2>7 DEF ExpiredAt, LureInv, ExpiredInv
  <2>11. o.at \in Resets <=> asked[w].at \in Resets  BY <1>4, <2>4 DEF Resets
  <2> QED  BY <1>2, <2>2, <2>3, <2>6, <2>7, <2>9, <2>10, <2>11, MoveKeeps
<1> QED  BY <1>5, <1>6

(* An eligible arm is chosen. *)
LEMMA ChooseKeeps ==
  ASSUME LureInv, NEW w \in Caller, Choose(w)
  PROVE  LureInv'
<1>1. PICK q \in Asking : q = asked[w]  BY DEF LureInv, LureTypeOK
<1>2. /\ q.at = "clean" /\ q.eligible # {} /\ UNCHANGED <<stats, total, overrides, clock, torn>>
  BY <1>1 DEF Choose, Cleaned
<1>3. PICK a \in q.eligible : Goto(w, Chosen(q, a))
  BY <1>1 DEF Choose
<1>4. PICK o : o = Chosen(q, a)  OBVIOUS
<1>5. a \in Arm /\ q.since \in Nat /\ q.since <= clock /\ q.eligible \subseteq Arm
  BY <1>1 DEF Asking, LureInv, LureTypeOK, AskingOK
<1>6. a \in Nat  BY <1>5, LuresAssumption DEF LuresAssumption
<1>7. /\ o.at = "record" /\ o.since = q.since /\ o.arm = a /\ o.overtaken = {a} \cap q.overtaken
  BY <1>4 DEF Chosen, NotAsking
<1>8. o \in Asking
  <2>1. PICK n \in Asking : n = NotAsking  BY EmptyHanded
  <2>2. o = [n EXCEPT !.at = "record", !.since = q.since, !.arm = a, !.overtaken = {a} \cap q.overtaken]
    BY <1>4, <2>1 DEF Chosen
  <2>3. {a} \cap q.overtaken \in SUBSET Arm  BY <1>5
  <2> HIDE DEF NotAsking
  <2> QED  BY <2>2, <2>3, <1>5, <1>6 DEF Asking
<1>9. Goto(w, o) /\ asked'[w] = o
  <2>1. Goto(w, o)  BY <1>3, <1>4
  <2>2. asked' = [asked EXCEPT ![w] = o]  BY <2>1 DEF Goto
  <2>3. w \in DOMAIN asked  BY DEF LureInv, LureTypeOK
  <2> QED  BY <2>1, <2>2, <2>3
<1>10. AskingOK(w)'  BY <1>2, <1>5, <1>7, <1>9 DEF AskingOK
<1>11. \A b \in Arm : \A t \in Nat : Blocked(b, t)' <=> Blocked(b, t)
  <2>1. \A b \in Arm : Stats(b)' = Stats(b)  BY <1>2 DEF Stats, Known
  <2> QED  BY <1>2, <2>1, BlockedSame
<1>12. torn \/ EligibleAt(w)'
  <2>1. torn \/ a \in q.overtaken \/ ~Blocked(a, q.since)
    BY <1>1, <1>2 DEF LureInv, EligibleInv
  <2> QED  BY <1>5, <1>7, <1>9, <1>11, <2>1 DEF EligibleAt
<1>13. ExpiredAt(w)'  BY <1>7, <1>9 DEF ExpiredAt
<1>14. /\ DOMAIN overrides' \subseteq DOMAIN overrides
       /\ overrides' \in [DOMAIN overrides' -> [arm : Arm, until : Nat]]
       /\ \A c \in DOMAIN overrides' : overrides'[c] = overrides[c]
  BY <1>2 DEF LureInv, LureTypeOK
<1>15. o.at \in Resets <=> asked[w].at \in Resets  BY <1>1, <1>2, <1>7 DEF Resets
<1> QED  BY <1>2, <1>8, <1>9, <1>10, <1>12, <1>13, <1>14, <1>15, MoveKeeps

(* The overrides go in a reset. *)
LEMMA ResetOverridesKeeps ==
  ASSUME LureInv, NEW w \in Caller, ResetOverrides(w)
  PROVE  LureInv'
<1>1. PICK q \in Asking : q = asked[w]  BY DEF LureInv, LureTypeOK
<1>2. PICK o : o = [q EXCEPT !.at = "total"]  OBVIOUS
<1>3. /\ q.at = "overrides" /\ Goto(w, o) /\ overrides' = << >>
      /\ UNCHANGED <<stats, total, clock, torn>>
  BY <1>1, <1>2 DEF ResetOverrides
<1>4. o \in Asking /\ o.at = "total" /\ o.since = q.since  BY <1>1, <1>2 DEF Asking
<1>5. asked'[w] = o  BY <1>3 DEF Goto, LureInv, LureTypeOK
<1>6. AskingOK(w)'
  BY <1>1, <1>3, <1>4, <1>5 DEF AskingOK, LureInv, LureTypeOK
<1>7. EligibleAt(w)' /\ ExpiredAt(w)'  BY <1>4, <1>5 DEF EligibleAt, ExpiredAt
<1>8. /\ DOMAIN overrides' \subseteq DOMAIN overrides
      /\ overrides' \in [DOMAIN overrides' -> [arm : Arm, until : Nat]]
      /\ \A d \in DOMAIN overrides' : overrides'[d] = overrides[d]
  <2>1. DOMAIN overrides' = {}  BY <1>3
  <2>2. overrides' = [d \in {} |-> overrides'[d]]  BY <1>3
  <2> QED  BY <2>1, <2>2
<1>9. o.at \in Resets <=> asked[w].at \in Resets  BY <1>1, <1>3, <1>4 DEF Resets
<1> QED  BY <1>3, <1>4, <1>6, <1>7, <1>8, <1>9, MoveKeeps

(* An operator pins an arm. *)
LEMMA SetOverrideKeeps ==
  ASSUME LureInv, NEW w \in Caller, NEW c \in Place, NEW a \in Arm, NEW duration \in Duration,
         SetOverride(w, c, a, duration)
  PROVE  LureInv'
<1> USE DEF LureInv
<1>1. PICK o : o = [arm |-> a, until |-> clock + duration]  OBVIOUS
<1>2. /\ asked[w].at = "idle" /\ overrides' = Assign(overrides, c, o)
      /\ asked' = [v \in Caller |-> IF v = w THEN Snapshot
                                    ELSE [asked[v] EXCEPT !.renewed = @ \cup ({c} \cap asked[v].left)]]
      /\ UNCHANGED <<stats, total, clock, torn>>
  BY <1>1 DEF SetOverride
<1>3. o \in [arm : Arm, until : Nat]
  BY <1>1, LuresAssumption DEF LuresAssumption, LureTypeOK
<1>4. /\ DOMAIN overrides' = DOMAIN overrides \cup {c}
      /\ \A d \in DOMAIN overrides \ {c} : overrides'[d] = overrides[d]
      /\ overrides' \in [DOMAIN overrides' -> [arm : Arm, until : Nat]]
  BY <1>2, <1>3 DEF Assign, LureTypeOK
<1>5. \A v \in Caller \ {w} :
        /\ asked'[v] \in Asking
        /\ asked'[v].at = asked[v].at /\ asked'[v].since = asked[v].since
        /\ asked'[v].left = asked[v].left /\ asked'[v].eligible = asked[v].eligible
        /\ asked'[v].arm = asked[v].arm /\ asked'[v].overtaken = asked[v].overtaken
        /\ asked'[v].renewed = asked[v].renewed \cup ({c} \cap asked[v].left)
  <2> SUFFICES ASSUME NEW v \in Caller \ {w}
               PROVE  /\ asked'[v] \in Asking
                      /\ asked'[v].at = asked[v].at /\ asked'[v].since = asked[v].since
                      /\ asked'[v].left = asked[v].left /\ asked'[v].eligible = asked[v].eligible
                      /\ asked'[v].arm = asked[v].arm /\ asked'[v].overtaken = asked[v].overtaken
                      /\ asked'[v].renewed = asked[v].renewed \cup ({c} \cap asked[v].left)
    OBVIOUS
  <2>1. PICK q \in Asking : q = asked[v]  BY DEF LureTypeOK
  <2>2. asked'[v] = [q EXCEPT !.renewed = @ \cup ({c} \cap q.left)]  BY <1>2, <2>1
  <2>3. q.renewed \cup ({c} \cap q.left) \in SUBSET Place  BY <2>1 DEF Asking
  <2> QED  BY <2>1, <2>2, <2>3 DEF Asking
<1>6. asked'[w] = Snapshot  BY <1>2
<1>7. LureTypeOK'
  <2>1. asked' \in [Caller -> Asking]  BY <1>2, <1>5, <1>6, EmptyHanded
  <2>2. \A v \in Caller : AskingOK(v)'
    <3>1. \A v \in Caller : AskingOK(v)  BY DEF LureTypeOK
    <3>2. clock' = clock /\ clock \in Nat  BY <1>2 DEF LureTypeOK
    <3> QED  BY <1>5, <1>6, <3>1, <3>2, EmptyHanded DEF AskingOK
  <2>3. DOMAIN overrides' \subseteq Place  BY <1>4 DEF LureTypeOK
  <2> QED  BY <1>2, <1>4, <2>1, <2>2, <2>3 DEF LureTypeOK
<1>8. CountInv'
  <2>1. Resetting' <=> Resetting  BY <1>2, <1>5, <1>6, EmptyHanded DEF Resetting
  <2>2. Pulled' = Pulled  BY <1>2 DEF Pulled
  <2> QED  BY <1>2, <2>1, <2>2 DEF CountInv
<1>9. EligibleInv'
  <2>1. \A b \in Arm : \A t \in Nat : Blocked(b, t)' <=> Blocked(b, t)
    <3>1. \A b \in Arm : Stats(b)' = Stats(b)  BY <1>2 DEF Stats, Known
    <3> QED  BY <1>2, <3>1, BlockedSame
  <2> SUFFICES ASSUME ~torn, NEW v \in Caller PROVE EligibleAt(v)'
    BY <1>2 DEF EligibleInv, EligibleAt
  <2>2. CASE v = w  BY <1>6, <2>2, EmptyHanded DEF EligibleAt
  <2>3. CASE v # w
    <3>1. EligibleAt(v) /\ asked[v] \in Asking /\ AskingOK(v)
      BY DEF EligibleInv, EligibleAt, LureTypeOK
    <3>2. asked[v].since \in Nat /\ asked[v].eligible \subseteq Arm
          /\ (asked[v].at = "record" => asked[v].arm \in Arm)
      BY <3>1 DEF Asking, AskingOK
    <3> QED  BY <1>5, <2>1, <2>3, <3>1, <3>2 DEF EligibleAt
  <2> QED  BY <2>2, <2>3
<1>10. ExpiredInv'
  <2> SUFFICES ASSUME NEW v \in Caller PROVE ExpiredAt(v)'
    BY DEF ExpiredInv, ExpiredAt
  <2>1. CASE v = w  BY <1>6, <2>1, EmptyHanded DEF ExpiredAt
  <2>2. CASE v # w
    <3>1. /\ asked'[v].at = asked[v].at /\ asked'[v].left = asked[v].left
          /\ asked'[v].renewed = asked[v].renewed \cup ({c} \cap asked[v].left)
      BY <1>5, <2>2
    <3>2. asked[v].at = "clean" => \A d \in asked[v].left \cap DOMAIN overrides :
            overrides[d].until <= clock \/ d \in asked[v].renewed
      BY DEF ExpiredInv
    <3>3. clock' = clock  BY <1>2
    <3> QED  BY <1>4, <3>1, <3>2, <3>3 DEF ExpiredAt
  <2> QED  BY <2>1, <2>2
<1> QED  BY <1>7, <1>8, <1>9, <1>10

(* Time passes. *)
LEMMA PassTimeKeeps ==
  ASSUME LureInv, PassTime
  PROVE  LureInv'
<1> USE DEF LureInv
<1>1. /\ clock' = clock + 1 /\ UNCHANGED <<stats, total, overrides, asked, torn>>  BY DEF PassTime
<1>2. LureTypeOK'
  <2>1. \A v \in Caller : AskingOK(v)'
    <3>1. ASSUME NEW v \in Caller PROVE AskingOK(v)'
      <4>1. AskingOK(v) /\ asked[v] \in Asking /\ clock \in Nat  BY DEF LureTypeOK
      <4>2. asked[v].since \in Nat /\ asked[v].since <= clock  BY <4>1 DEF Asking, AskingOK
      <4>3. asked[v].since <= clock'  BY <1>1, <4>1, <4>2
      <4> QED  BY <1>1, <4>1, <4>3 DEF AskingOK
    <3> QED  BY <3>1
  <2> QED  BY <1>1, <2>1 DEF LureTypeOK
<1>3. CountInv'  BY <1>1 DEF CountInv, Resetting, Pulled
<1>4. EligibleInv'
  <2>1. \A b \in Arm : \A t \in Nat : Blocked(b, t)' <=> Blocked(b, t)
    <3>1. \A b \in Arm : Stats(b)' = Stats(b)  BY <1>1 DEF Stats, Known
    <3> QED  BY <1>1, <3>1, BlockedSame
  <2> SUFFICES ASSUME ~torn, NEW v \in Caller PROVE EligibleAt(v)'
    BY <1>1 DEF EligibleInv, EligibleAt
  <2>2. EligibleAt(v) /\ asked[v] \in Asking /\ AskingOK(v)
    BY DEF EligibleInv, EligibleAt, LureTypeOK
  <2>3. asked[v].since \in Nat /\ asked[v].eligible \subseteq Arm
        /\ (asked[v].at = "record" => asked[v].arm \in Arm)
    BY <2>2 DEF Asking, AskingOK
  <2> QED  BY <1>1, <2>1, <2>2, <2>3 DEF EligibleAt
<1>5. ExpiredInv'
  <2> SUFFICES ASSUME NEW v \in Caller, asked[v].at = "clean",
                      NEW c \in asked[v].left \cap DOMAIN overrides
               PROVE  overrides[c].until <= clock + 1 \/ c \in asked[v].renewed
    BY <1>1 DEF ExpiredInv
  <2>1. overrides[c].until <= clock \/ c \in asked[v].renewed  BY DEF ExpiredInv
  <2>2. overrides[c].until \in Nat /\ clock \in Nat  BY DEF LureTypeOK
  <2> QED  BY <2>1, <2>2
<1> QED  BY <1>2, <1>3, <1>4, <1>5

(* What a step that records or resets does to the other calls.                *)
LEMMA OthersOvertaken ==
  ASSUME LureInv, NEW w \in Caller, NEW K \in SUBSET Arm
  PROVE  /\ \A v \in Caller \ {w} : LET o == Overtaken(w, K)[v] IN
              /\ o \in Asking
              /\ o.at = asked[v].at /\ o.since = asked[v].since /\ o.arm = asked[v].arm
              /\ o.left = asked[v].left /\ o.eligible = asked[v].eligible
              /\ o.renewed = asked[v].renewed
              /\ o.overtaken = asked[v].overtaken \cup (K \cap Checked(asked[v]))
         /\ Overtaken(w, K)[w] = NotAsking
         /\ Overtaken(w, K) \in [Caller -> Asking]
<1>1. ASSUME NEW v \in Caller \ {w}
      PROVE  LET o == Overtaken(w, K)[v] IN
              /\ o \in Asking
              /\ o.at = asked[v].at /\ o.since = asked[v].since /\ o.arm = asked[v].arm
              /\ o.left = asked[v].left /\ o.eligible = asked[v].eligible
              /\ o.renewed = asked[v].renewed
              /\ o.overtaken = asked[v].overtaken \cup (K \cap Checked(asked[v]))
  <2>1. PICK q \in Asking : q = asked[v]  BY DEF LureInv, LureTypeOK
  <2>2. Overtaken(w, K)[v] = [q EXCEPT !.overtaken = @ \cup (K \cap Checked(q))]
    BY <2>1 DEF Overtaken
  <2>3. q.overtaken \cup (K \cap Checked(q)) \in SUBSET Arm  BY <2>1 DEF Asking
  <2> QED  BY <2>1, <2>2, <2>3 DEF Asking
<1>2. Overtaken(w, K)[w] = NotAsking  BY DEF Overtaken
<1>3. Overtaken(w, K) = [v \in Caller |-> Overtaken(w, K)[v]]  BY DEF Overtaken
<1>4. \A v \in Caller : Overtaken(w, K)[v] \in Asking  BY <1>1, <1>2, EmptyHanded
<1> QED  BY <1>1, <1>2, <1>3, <1>4

(* One more pull. *)
LEMMA OneMorePull ==
  ASSUME LureInv, NEW a \in Arm, NEW time \in Nat,
         stats' = Assign(stats, a, [pulls |-> Stats(a).pulls + 1, last |-> time])
  PROVE  /\ DOMAIN stats' \subseteq Arm /\ stats' \in [DOMAIN stats' -> [pulls : Nat, last : Nat]]
         /\ \A b \in Arm \ {a} : Stats(b)' = Stats(b)
         /\ IsFiniteSet(Pulled') /\ Cardinality(Pulled') = Cardinality(Pulled) + 1
<1>1. PICK n : n = Stats(a).pulls + 1  OBVIOUS
<1>2. /\ n \in Nat /\ n = Stats(a).pulls + 1 /\ Stats(a).pulls \in Nat
      /\ (a \in DOMAIN stats => Stats(a) = stats[a]) /\ (a \notin DOMAIN stats => n = 1)
  BY <1>1, StatsTyped DEF LureInv, NewStats
<1>3. PICK e : e = [pulls |-> n, last |-> time]  OBVIOUS
<1>4. e \in [pulls : Nat, last : Nat] /\ e.pulls = n  BY <1>2, <1>3
<1>5. /\ DOMAIN stats' = DOMAIN stats \cup {a} /\ stats'[a] = e
      /\ \A b \in DOMAIN stats \ {a} : stats'[b] = stats[b]
      /\ stats' \in [DOMAIN stats' -> [pulls : Nat, last : Nat]]
  BY <1>1, <1>3, <1>4 DEF Assign, LureInv, LureTypeOK
<1>6. \A b \in Arm \ {a} : Stats(b)' = Stats(b)
  BY <1>5 DEF Stats, Known
<1>7. Pulled' = Pulled \cup {<<a, n>>}
  <2>1. \A p : p \in Pulled' <=> \E b \in DOMAIN stats' : \E m \in 1 .. stats'[b].pulls : p = <<b, m>>
    BY DEF Pulled
  <2>2. \A m : m \in 1 .. n <=> m = n \/ (a \in DOMAIN stats /\ m \in 1 .. stats[a].pulls)
    <3>1. CASE a \in DOMAIN stats
      <4>1. n = stats[a].pulls + 1 /\ stats[a].pulls \in Nat  BY <1>2, <3>1
      <4> QED  BY <3>1, <4>1
    <3>2. CASE a \notin DOMAIN stats
      BY <1>2, <3>2
    <3> QED  BY <3>1, <3>2
  <2>3. \A p : p \in Pulled' <=>
          \/ \E b \in DOMAIN stats \ {a} : \E m \in 1 .. stats[b].pulls : p = <<b, m>>
          \/ \E m \in 1 .. n : p = <<a, m>>
    BY <1>4, <1>5, <2>1
  <2>4. \A p : p \in Pulled' <=> p \in Pulled \/ p = <<a, n>>
    BY <2>2, <2>3, PulledIs
  <2> QED  BY <2>4
<1>8. <<a, n>> \notin Pulled
  <2> SUFFICES ASSUME <<a, n>> \in Pulled PROVE FALSE  OBVIOUS
  <2>1. \E b \in DOMAIN stats : \E m \in 1 .. stats[b].pulls : <<a, n>> = <<b, m>>  BY PulledIs
  <2>2. a \in DOMAIN stats /\ n \in 1 .. stats[a].pulls  BY <2>1
  <2>3. n = stats[a].pulls + 1 /\ stats[a].pulls \in Nat  BY <1>2, <2>2
  <2> QED  BY <2>2, <2>3
<1>9. IsFiniteSet(Pulled') /\ Cardinality(Pulled') = Cardinality(Pulled) + 1
  BY <1>7, <1>8, FS_AddElement DEF LureInv, CountInv
<1> QED  BY <1>5, <1>6, <1>9 DEF LureInv, LureTypeOK

(* No pull, no statistics. *)
LEMMA NothingPulled ==
  ASSUME LureTypeOK, Pulled = {}
  PROVE  \A a \in Arm : Stats(a).pulls = 0
<1> SUFFICES ASSUME NEW a \in Arm PROVE Stats(a).pulls = 0  OBVIOUS
<1>1. CASE a \notin DOMAIN stats  BY <1>1, StatsTyped DEF NewStats
<1>2. CASE a \in DOMAIN stats
  <2>1. Stats(a) = stats[a] /\ stats[a].pulls \in Nat  BY <1>2, StatsTyped
  <2>2. \A n \in 1 .. stats[a].pulls : <<a, n>> \in Pulled  BY <1>2, PulledIs
  <2>3. ~(1 <= stats[a].pulls)  BY <2>1, <2>2
  <2> QED  BY <2>1, <2>3
<1> QED  BY <1>1, <1>2

(* A selection is recorded. *)
LEMMA RecordKeeps ==
  ASSUME LureInv, NEW w \in Caller, Record(w)
  PROVE  LureInv'
<1> USE DEF LureInv
<1>1. PICK a : a = asked[w].arm  OBVIOUS
<1>2. /\ asked[w].at = "record"
      /\ stats' = Assign(stats, a, [pulls |-> Stats(a).pulls + 1, last |-> asked[w].since])
      /\ total' = total + 1 /\ asked' = Overtaken(w, {a})
      /\ torn' = (torn \/ Resetting)
      /\ UNCHANGED <<overrides, clock>>
  BY <1>1 DEF Record
<1>3. a \in Arm /\ asked[w].since \in Nat
  BY <1>1, <1>2 DEF LureTypeOK, AskingOK, Asking
<1>4. /\ DOMAIN stats' \subseteq Arm /\ stats' \in [DOMAIN stats' -> [pulls : Nat, last : Nat]]
      /\ \A b \in Arm \ {a} : Stats(b)' = Stats(b)
      /\ IsFiniteSet(Pulled') /\ Cardinality(Pulled') = Cardinality(Pulled) + 1
  BY <1>2, <1>3, OneMorePull
<1>5. /\ asked' \in [Caller -> Asking] /\ asked'[w] = NotAsking
      /\ \A v \in Caller \ {w} :
           /\ asked'[v].at = asked[v].at /\ asked'[v].since = asked[v].since /\ asked'[v].arm = asked[v].arm
           /\ asked'[v].left = asked[v].left /\ asked'[v].eligible = asked[v].eligible
           /\ asked'[v].renewed = asked[v].renewed
           /\ asked'[v].overtaken = asked[v].overtaken \cup ({a} \cap Checked(asked[v]))
  BY <1>2, <1>3, OthersOvertaken
<1>6. LureTypeOK'
  <2>1. \A v \in Caller : AskingOK(v)'
    <3>1. \A v \in Caller : AskingOK(v)  BY DEF LureTypeOK
    <3>2. clock' = clock /\ clock \in Nat  BY <1>2 DEF LureTypeOK
    <3> QED  BY <1>5, <3>1, <3>2, EmptyHanded DEF AskingOK
  <2>2. torn' \in BOOLEAN  BY <1>2, Zenon
  <2>3. total' \in Nat  BY <1>2 DEF LureTypeOK
  <2> QED  BY <1>2, <1>4, <1>5, <2>1, <2>2, <2>3 DEF LureTypeOK
<1>7. ~torn' => ~torn /\ ~Resetting  BY <1>2
<1>8. CountInv'
  <2>1. ~torn' => Cardinality(Pulled) = total  BY <1>7 DEF CountInv
  <2>2. ~torn' => ~Resetting'
    BY <1>5, <1>7, EmptyHanded DEF Resetting
  <2> QED  BY <1>2, <1>4, <2>1, <2>2 DEF CountInv
<1>9. ~torn' => \A b \in Arm \ {a}, t \in Nat : ~Blocked(b, t) => ~Blocked(b, t)'
  <2> SUFFICES ASSUME ~torn', NEW b \in Arm \ {a}, NEW t \in Nat, ~Blocked(b, t)
               PROVE  ~Blocked(b, t)'
    OBVIOUS
  <2>1. Stats(b)' = Stats(b)  BY <1>4
  <2>2. Stats(b) \in [pulls : Nat, last : Nat]  BY StatsTyped
  <2>3. ~OverCap(b)'
    <3>1. PICK n \in Nat : n = Stats(b).pulls  BY <2>2
    <3>2. total \in Nat /\ CapPart \in Nat /\ CapWhole \in Nat /\ CapPart > 0
      BY LuresAssumption DEF LuresAssumption, LureTypeOK
    <3>3. CASE total = 0
      <4>1. Cardinality(Pulled) = 0 /\ IsFiniteSet(Pulled)  BY <1>7, <3>3 DEF CountInv
      <4>2. Pulled = {}  BY <4>1, FS_EmptySet
      <4>3. n = 0  BY <3>1, <4>2, NothingPulled
      <4>4. OverCap(b)' => n * CapWhole >= CapPart * (total + 1)
        BY <1>2, <2>1, <3>1 DEF OverCap
      <4>5. n * CapWhole = 0 /\ CapPart * (total + 1) = CapPart  BY <3>2, <3>3, <4>3
      <4> QED  BY <3>2, <4>4, <4>5
    <3>4. CASE total # 0
      <4>1. ~(CapPart < CapWhole) \/ ~(n * CapWhole >= CapPart * total)
        BY <3>1, <3>2, <3>4 DEF Blocked, OverCap
      <4>2. OverCap(b)' => CapPart < CapWhole /\ n * CapWhole >= CapPart * (total + 1)
        BY <1>2, <2>1, <3>1 DEF OverCap
      <4>3. CapPart * (total + 1) = CapPart * total + CapPart  BY <3>2
      <4>4. CapPart * total \in Nat /\ n * CapWhole \in Nat  BY <3>1, <3>2
      <4> QED  BY <3>2, <4>1, <4>2, <4>3, <4>4
    <3> QED  BY <3>3, <3>4
  <2> QED  BY <2>1, <2>3 DEF Blocked, Cooling
<1>10. EligibleInv'
  <2> SUFFICES ASSUME ~torn', NEW v \in Caller PROVE EligibleAt(v)'
    BY DEF EligibleInv, EligibleAt
  <2>1. CASE v = w  BY <1>5, <2>1, EmptyHanded DEF EligibleAt
  <2>2. CASE v # w
    <3>1. EligibleAt(v) /\ asked[v] \in Asking /\ AskingOK(v)
      BY <1>7 DEF EligibleInv, EligibleAt, LureTypeOK
    <3>2. asked[v].since \in Nat /\ asked[v].eligible \subseteq Arm
          /\ (asked[v].at = "record" => asked[v].arm \in Arm)
      BY <3>1 DEF Asking, AskingOK
    <3>3. CASE asked[v].at = "record"
      <4>1. asked'[v].overtaken = {} => asked[v].overtaken = {} /\ asked[v].arm # a
        BY <1>5, <2>2, <3>3 DEF Checked
      <4> QED  BY <1>5, <1>9, <2>2, <3>1, <3>2, <3>3, <4>1 DEF EligibleAt
    <3>4. CASE asked[v].at # "record"
      <4>1. asked[v].eligible \ asked'[v].overtaken = (asked[v].eligible \ asked[v].overtaken) \ {a}
        BY <1>5, <2>2, <3>4 DEF Checked
      <4> QED  BY <1>5, <1>9, <2>2, <3>1, <3>2, <3>4, <4>1 DEF EligibleAt
    <3> QED  BY <3>3, <3>4
  <2> QED  BY <2>1, <2>2
<1>11. ExpiredInv'
  <2> SUFFICES ASSUME NEW v \in Caller PROVE ExpiredAt(v)'
    BY DEF ExpiredInv, ExpiredAt
  <2>1. CASE v = w  BY <1>5, <2>1, EmptyHanded DEF ExpiredAt
  <2>2. CASE v # w
    BY <1>2, <1>5, <2>2 DEF ExpiredAt, ExpiredInv
  <2> QED  BY <2>1, <2>2
<1> QED  BY <1>6, <1>8, <1>10, <1>11

(* What both halves of a reset do to the calls: whoever has an arm in hand    *)
(* was overtaken.                                                           *)
LEMMA ResetCalls ==
  ASSUME LureInv, NEW w \in Caller, NEW o \in Asking, o.since <= clock, o.at \in {"overrides", "scan"},
         o.eligible = {}, asked' = [Overtaken(w, Arm) EXCEPT ![w] = o],
         UNCHANGED <<overrides, clock, torn>>
  PROVE  /\ asked' \in [Caller -> Asking] /\ asked'[w] = o
         /\ \A v \in Caller \ {w} : asked'[v].at = asked[v].at
         /\ \A v \in Caller : AskingOK(v)'
         /\ EligibleInv' /\ ExpiredInv'
<1> USE DEF LureInv
<1>1. /\ asked' \in [Caller -> Asking] /\ asked'[w] = o
      /\ \A v \in Caller \ {w} :
           /\ asked'[v].at = asked[v].at /\ asked'[v].since = asked[v].since /\ asked'[v].arm = asked[v].arm
           /\ asked'[v].left = asked[v].left /\ asked'[v].eligible = asked[v].eligible
           /\ asked'[v].renewed = asked[v].renewed
           /\ asked'[v].overtaken = asked[v].overtaken \cup (Arm \cap Checked(asked[v]))
  <2>1. Overtaken(w, Arm) \in [Caller -> Asking]  BY OthersOvertaken
  <2>2. /\ asked' \in [Caller -> Asking] /\ asked'[w] = o
        /\ \A v \in Caller \ {w} : asked'[v] = Overtaken(w, Arm)[v]
    BY <2>1
  <2> QED  BY <2>2, OthersOvertaken
<1>2. \A v \in Caller : AskingOK(v)'
  <2>1. \A v \in Caller : AskingOK(v)  BY DEF LureTypeOK
  <2> QED  BY <1>1, <2>1 DEF AskingOK
<1>3. EligibleInv'
  <2> SUFFICES ASSUME NEW v \in Caller PROVE EligibleAt(v)'
    BY DEF EligibleInv, EligibleAt
  <2>1. CASE v = w  BY <1>1, <2>1 DEF EligibleAt
  <2>2. CASE v # w
    <3>1. asked[v] \in Asking /\ AskingOK(v)  BY DEF LureTypeOK
    <3>2. asked[v].eligible \subseteq Arm /\ (asked[v].at = "record" => asked[v].arm \in Arm)
      BY <3>1 DEF Asking, AskingOK
    <3>3. asked[v].at = "record" => asked'[v].overtaken # {}
      BY <1>1, <2>2, <3>2 DEF Checked
    <3>4. asked[v].at # "record" => asked'[v].eligible \ asked'[v].overtaken = {}
      BY <1>1, <2>2, <3>2 DEF Checked
    <3> QED  BY <1>1, <2>2, <3>3, <3>4 DEF EligibleAt
  <2> QED  BY <2>1, <2>2
<1>4. ExpiredInv'
  <2> SUFFICES ASSUME NEW v \in Caller PROVE ExpiredAt(v)'
    BY DEF ExpiredInv, ExpiredAt
  <2>1. CASE v = w  BY <1>1, <2>1 DEF ExpiredAt
  <2>2. CASE v # w
    BY <1>1, <2>2 DEF ExpiredAt, ExpiredInv
  <2> QED  BY <2>1, <2>2
<1> QED  BY <1>1, <1>2, <1>3, <1>4

(* The statistics go in a reset. *)
LEMMA ResetStatsKeeps ==
  ASSUME LureInv, NEW w \in Caller, ResetStats(w)
  PROVE  LureInv'
<1> USE DEF LureInv
<1>1. PICK o : o = [NotAsking EXCEPT !.at = "overrides"]  OBVIOUS
<1>2. /\ stats' = << >> /\ asked' = [Overtaken(w, Arm) EXCEPT ![w] = o]
      /\ UNCHANGED <<total, overrides, clock, torn>>
  BY <1>1 DEF ResetStats
<1>3. o \in Asking /\ o.at = "overrides" /\ o.since = 0 /\ o.eligible = {}
  BY <1>1, EmptyHanded DEF NotAsking, Asking
<1>4. o.since <= clock  BY <1>3 DEF LureTypeOK
<1>5. /\ asked' \in [Caller -> Asking] /\ asked'[w] = o
      /\ \A v \in Caller : AskingOK(v)'
      /\ EligibleInv' /\ ExpiredInv'
  BY <1>2, <1>3, <1>4, ResetCalls
<1>6. DOMAIN stats' = {} /\ stats' \in [{} -> [pulls : Nat, last : Nat]]
  BY <1>2
<1>7. LureTypeOK'
  BY <1>2, <1>5, <1>6 DEF LureTypeOK
<1>8. CountInv'
  <2>1. Pulled' = {}  BY <1>6 DEF Pulled
  <2>2. Resetting'  BY <1>3, <1>5 DEF Resetting
  <2> QED  BY <2>1, <2>2, FS_EmptySet DEF CountInv
<1> QED  BY <1>5, <1>7, <1>8

(* The total goes at the end of a reset. *)
LEMMA ResetTotalKeeps ==
  ASSUME LureInv, NEW w \in Caller, ResetTotal(w)
  PROVE  LureInv'
<1> USE DEF LureInv
<1>1. /\ asked[w].at = "total" /\ total' = 0 /\ asked' = [Overtaken(w, Arm) EXCEPT ![w] = Snapshot]
      /\ UNCHANGED <<stats, overrides, clock, torn>>
  BY DEF ResetTotal
<1>2. Snapshot.since <= clock  BY EmptyHanded DEF LureTypeOK
<1>3. /\ asked' \in [Caller -> Asking] /\ asked'[w] = Snapshot
      /\ \A v \in Caller : AskingOK(v)'
      /\ EligibleInv' /\ ExpiredInv'
  BY <1>1, <1>2, EmptyHanded, ResetCalls
<1>4. LureTypeOK'
  BY <1>1, <1>3 DEF LureTypeOK
<1>5. CountInv'
  <2>1. Resetting  BY <1>1 DEF Resetting
  <2>2. Pulled' = Pulled  BY <1>1 DEF Pulled
  <2> QED  BY <1>1, <2>1, <2>2 DEF CountInv
<1> QED  BY <1>3, <1>4, <1>5

(* Nothing was selected yet. *)
LEMMA LuresInitInv == ASSUME LuresInit PROVE LureInv
<1>1. LureTypeOK
  <2>1. DOMAIN stats = {} /\ DOMAIN overrides = {}  BY DEF LuresInit
  <2>2. stats \in [{} -> [pulls : Nat, last : Nat]] /\ overrides \in [{} -> [arm : Arm, until : Nat]]
    BY DEF LuresInit
  <2>3. asked \in [Caller -> Asking] /\ \A w \in Caller : asked[w] = NotAsking
    BY EmptyHanded DEF LuresInit
  <2>4. \A w \in Caller : AskingOK(w)
    BY <2>3, EmptyHanded DEF AskingOK, LuresInit
  <2>5. torn \in BOOLEAN /\ clock \in Nat /\ total \in Nat  BY DEF LuresInit
  <2> QED  BY <2>1, <2>2, <2>3, <2>4, <2>5 DEF LureTypeOK
<1>2. CountInv
  <2>1. Pulled = {}  BY DEF LuresInit, Pulled
  <2>2. ~Resetting  BY EmptyHanded DEF LuresInit, Resetting
  <2>3. total = 0  BY DEF LuresInit
  <2> QED  BY <2>1, <2>2, <2>3, FS_EmptySet DEF CountInv
<1>3. EligibleInv /\ ExpiredInv
  BY EmptyHanded DEF LuresInit, EligibleInv, ExpiredInv
<1> QED  BY <1>1, <1>2, <1>3 DEF LureInv

(* Every step of the bandit's callers keeps the invariant. *)
LEMMA LureInvKept == ASSUME LureInv, [LuresNext]_lureVars PROVE LureInv'
<1>1. CASE PassTime  BY <1>1, PassTimeKeeps
<1>2. ASSUME NEW w \in Caller, Emulators(w) PROVE LureInv'
  BY <1>2, SelectArmKeeps, CheckKeeps, ScanKeeps, CleanKeeps, ChooseKeeps, RecordKeeps DEF Emulators
<1>3. ASSUME NEW w \in Caller, BanditArms(w) \/ EndSnapshot(w) PROVE LureInv'
  <2>1. asked[w].at \notin Resets  BY <1>3 DEF BanditArms, EndSnapshot, Cleaned, Resets
  <2>2. Goto(w, NotAsking) \/ Goto(w, Snapshot)  BY <1>3 DEF BanditArms, EndSnapshot
  <2>3. UNCHANGED <<stats, total, overrides, clock, torn>>  BY <1>3 DEF BanditArms, EndSnapshot
  <2> QED  BY <2>1, <2>2, <2>3, RestKeeps
<1>4. ASSUME NEW w \in Caller, Operators(w) PROVE LureInv'
  <2>1. CASE \E c \in Context \cup {Wildcard}, a \in Arm, d \in Duration : SetOverride(w, c, a, d)
    BY <2>1, SetOverrideKeeps DEF Place
  <2> QED  BY <1>3, <1>4, <2>1, ResetStatsKeeps, ResetOverridesKeeps, ResetTotalKeeps DEF Operators
<1>5. CASE UNCHANGED lureVars
  <2>1. UNCHANGED <<stats, total, overrides, asked, clock, torn>>  BY <1>5 DEF lureVars
  <2>2. LureTypeOK'  BY <2>1 DEF LureInv, LureTypeOK, AskingOK
  <2>3. CountInv'  BY <2>1 DEF LureInv, CountInv, Pulled, Resetting
  <2>4. EligibleInv' /\ ExpiredInv'
    BY <2>1 DEF LureInv, EligibleInv, ExpiredInv, Blocked, Cooling, OverCap, Stats, Known
  <2> QED  BY <2>2, <2>3, <2>4 DEF LureInv
<1> QED  BY <1>1, <1>2, <1>4, <1>5 DEF LuresNext

(* The invariant holds throughout. *)
LEMMA LuresAlwaysInv == LuresSpec => []LureInv
BY LuresInitInv, LureInvKept, PTL DEF LuresSpec

(* Products keep the order. *)
LEMMA TimesKeepsOrder ==
  ASSUME NEW a \in Nat, NEW b \in Nat, NEW c \in Nat
  PROVE  /\ a <= b => a * c <= b * c
         /\ a < b /\ c > 0 => a * c < b * c
<1>1. ASSUME a <= b PROVE a * c <= b * c
  <2>1. PICK d \in Nat : b = a + d
    <3>1. b - a \in Nat /\ b = a + (b - a)  BY <1>1
    <3> QED  BY <3>1
  <2>2. b * c = a * c + d * c  BY <2>1
  <2>3. a * c \in Nat /\ d * c \in Nat  BY <2>1
  <2> QED  BY <2>2, <2>3
<1>2. ASSUME a < b, c > 0 PROVE a * c < b * c
  <2>1. PICK d \in Nat : b = a + 1 + d
    <3>1. b - a - 1 \in Nat /\ b = a + 1 + (b - a - 1)  BY <1>2
    <3> QED  BY <3>1
  <2>2. b * c = a * c + c + d * c  BY <2>1
  <2>3. a * c \in Nat /\ d * c \in Nat  BY <2>1
  <2> QED  BY <1>2, <2>2, <2>3
<1> QED  BY <1>1, <1>2

(* Shares of a total that add up to more than the whole are not all used up:  *)
(* k arms that were each pulled m times, or more, were pulled k * m times.     *)
LEMMA SharesExceedWhole ==
  ASSUME NEW k \in Nat, NEW m \in Nat, NEW t \in Nat, NEW share \in Nat, NEW whole \in Nat,
         t > 0, m * whole >= share * t, k * m <= t, k * share > whole
  PROVE  FALSE
<1>1. /\ m * whole \in Nat /\ share * t \in Nat /\ k * m \in Nat /\ k * share \in Nat
  OBVIOUS
<1>2. (share * t) * k <= (m * whole) * k  BY <1>1, TimesKeepsOrder
<1>3. (k * m) * whole <= t * whole  BY <1>1, TimesKeepsOrder
<1>4. whole * t < (k * share) * t  BY <1>1, TimesKeepsOrder
<1>5. (share * t) * k = (k * share) * t /\ (m * whole) * k = (k * m) * whole /\ t * whole = whole * t
  OBVIOUS
<1>6. (k * share) * t \in Nat /\ (k * m) * whole \in Nat /\ whole * t \in Nat  BY <1>1
<1> QED  BY <1>2, <1>3, <1>4, <1>5, <1>6

(* The cap, and the pulls that add up, leave an arm.                          *)
LEMMA CapsLeaveAnArm ==
  ASSUME LureInv, ~torn, ~Resetting, NEW K \in SUBSET Arm, Cardinality(K) * CapPart > CapWhole
  PROVE  \E a \in K : ~OverCap(a)
<1> SUFFICES ASSUME \A a \in K : OverCap(a) PROVE FALSE  OBVIOUS
<1>1. /\ CapPart \in Nat /\ CapWhole \in Nat /\ CapPart > 0 /\ CapPart <= CapWhole
      /\ total \in Nat
  BY LuresAssumption DEF LuresAssumption, LureInv, LureTypeOK
<1>2. K # {}
  <2>1. ASSUME K = {} PROVE FALSE
    <3>1. Cardinality(K) = 0  BY <2>1, FS_EmptySet
    <3>2. 0 * CapPart = 0  BY <1>1
    <3> QED  BY <1>1, <3>1, <3>2
  <2> QED  BY <2>1
<1>3. total > 0 /\ \A a \in K : Stats(a).pulls * CapWhole >= CapPart * total
  BY <1>2 DEF OverCap
<1>4. \A a \in K : Stats(a).pulls \in Nat
  BY StatsTyped DEF LureInv
<1> DEFINE T == {m \in Nat : m * CapWhole >= CapPart * total}
<1>5. PICK m \in T : \A n \in T : m <= n
  <2>1. T # {}
    <3>1. PICK a \in K : TRUE  BY <1>2
    <3> QED  BY <1>3, <1>4, <3>1
  <2>2. T \subseteq Nat  OBVIOUS
  <2> HIDE DEF T
  <2> QED  BY <2>1, <2>2, LeastNumber
<1>6. m \in Nat /\ m * CapWhole >= CapPart * total /\ \A a \in K : m <= Stats(a).pulls
  BY <1>3, <1>4, <1>5
<1> HIDE DEF T
<1>7. m > 0
  <2>1. CASE m = 0
    <3>1. m * CapWhole = 0  BY <1>1, <2>1
    <3>2. 0 * total < CapPart * total /\ 0 * total = 0  BY <1>1, <1>3, TimesKeepsOrder
    <3>3. CapPart * total \in Nat  BY <1>1
    <3> QED  BY <1>6, <3>1, <3>2, <3>3
  <2> QED  BY <1>6, <2>1
<1>8. K \X (1 .. m) \subseteq Pulled
  <2> SUFFICES ASSUME NEW a \in K, NEW n \in 1 .. m PROVE <<a, n>> \in Pulled  OBVIOUS
  <2>1. Stats(a).pulls \in Nat /\ n \in Nat /\ 1 <= n /\ n <= Stats(a).pulls  BY <1>4, <1>6
  <2>2. a \in DOMAIN stats
    <3>1. a \notin DOMAIN stats => Stats(a) = NewStats  BY StatsTyped DEF LureInv
    <3>2. NewStats.pulls = 0  BY DEF NewStats
    <3> QED  BY <2>1, <3>1, <3>2
  <2>3. Stats(a) = stats[a]  BY <2>2, StatsTyped DEF LureInv
  <2> QED  BY <2>1, <2>2, <2>3, PulledIs
<1>9. IsFiniteSet(K)
  <2> DEFINE f == [a \in K |-> <<a, 1>>]
  <2>1. \A a \in K : <<a, 1>> \in Pulled  BY <1>6, <1>7, <1>8
  <2>2. f \in [K -> Pulled] /\ \A a, b \in K : f[a] = f[b] => a = b  BY <2>1
  <2> HIDE DEF f
  <2>3. f \in Injection(K, Pulled)  BY <2>2 DEF Injection, IsInjective
  <2> QED  BY <2>3, FS_Injection DEF LureInv, CountInv
<1>10. IsFiniteSet(1 .. m) /\ Cardinality(1 .. m) = m
  <2>1. IsFiniteSet(1 .. m) /\ Cardinality(1 .. m) = IF 1 > m THEN 0 ELSE m - 1 + 1
    BY <1>6, FS_Interval
  <2> QED  BY <1>6, <1>7, <2>1
<1>11. PICK k : k = Cardinality(K)  OBVIOUS
<1>12. k \in Nat  BY <1>9, <1>11, FS_CardinalityType
<1>13. IsFiniteSet(K \X (1 .. m)) /\ Cardinality(K \X (1 .. m)) = k * m
  BY <1>9, <1>10, <1>11, FS_Product
<1>14. Cardinality(K \X (1 .. m)) <= Cardinality(Pulled)
  BY <1>8, FS_Subset DEF LureInv, CountInv
<1>15. k * m <= total  BY <1>13, <1>14 DEF LureInv, CountInv
<1> QED  BY <1>1, <1>3, <1>6, <1>11, <1>12, <1>15, SharesExceedWhole

(* Whatever the shares: if those of the arms that are not denied add up to    *)
(* more than the whole, the cap leaves one of them.                          *)
THEOREM CapsNeverShutOut == LuresSpec => []SomeArmBelowCap
<1>1. LureInv => SomeArmBelowCap  BY CapsLeaveAnArm DEF SomeArmBelowCap
<1> QED  BY <1>1, LuresAlwaysInv, PTL

(* For any callers, arms and caps, a selection that no other of the same arm  *)
(* overtook is within the caps when it is recorded, ...                       *)
THEOREM SelectionsKeepCaps == LuresSpec => SelectionsWithinCaps
<1>1. ASSUME LureInv, [LuresNext]_lureVars, NEW w \in Caller,
             asked[w].at = "record", asked'[w].at = "idle", asked[w].overtaken = {}, ~torn
      PROVE  ~Blocked(asked[w].arm, asked[w].since)
  BY <1>1 DEF LureInv, EligibleInv
<1>2. LureInv /\ [LuresNext]_lureVars =>
        [\A w \in Caller :
           (asked[w].at = "record" /\ asked'[w].at = "idle" /\ asked[w].overtaken = {} /\ ~torn)
             => ~Blocked(asked[w].arm, asked[w].since)]_lureVars
  BY <1>1
<1> QED  BY <1>2, LuresAlwaysInv, PTL DEF LuresSpec, SelectionsWithinCaps

(* ... and an override lasts as long as was asked for, unless a reset, an      *)
(* operator or a clean-up that found its predecessor expired takes it off.      *)
THEOREM OverridesKeepTime == LuresSpec => OverridesLast
<1>1. ASSUME LureInv, LuresNext, NEW c \in DOMAIN overrides, overrides[c].until > clock,
             ~(c \in DOMAIN overrides' /\ overrides'[c] = overrides[c])
      PROVE  \E w \in Caller :
               \/ asked[w].at \in {"overrides", "idle"} /\ asked'[w].at \in {"total", "scan"}
               \/ asked[w].at = "clean" /\ c \in asked[w].renewed
  <2>1. overrides' # overrides  BY <1>1
  <2>2. PICK w \in Caller : Emulators(w) \/ Operators(w)
    BY <1>1, <2>1 DEF LuresNext, PassTime
  <2>3. asked \in [Caller -> Asking]  BY <1>1 DEF LureInv, LureTypeOK
  <2>4. CASE Emulators(w)
    <3>1. Clean(w)
      BY <2>1, <2>4 DEF Emulators, Select, Check, Scan, Choose, Record
    <3>2. PICK d \in asked[w].left : d \in DOMAIN overrides /\ overrides' = Restrict(overrides, DOMAIN overrides \ {d})
      BY <2>1, <3>1 DEF Clean
    <3>3. c = d  BY <1>1, <3>2 DEF Restrict
    <3>4. asked[w].at = "clean" /\ (overrides[c].until <= clock \/ c \in asked[w].renewed)
      BY <1>1, <3>1, <3>2, <3>3 DEF Clean, LureInv, ExpiredInv
    <3>5. overrides[c].until \in Nat /\ clock \in Nat  BY <1>1 DEF LureInv, LureTypeOK
    <3> QED  BY <1>1, <3>4, <3>5
  <2>5. CASE Operators(w)
    <3>1. CASE \E d \in Context \cup {Wildcard}, a \in Arm, time \in Duration : SetOverride(w, d, a, time)
      BY <3>1, EmptyHanded DEF SetOverride
    <3>2. CASE ResetOverrides(w)
      <4>1. PICK q \in Asking : q = asked[w]  BY <2>3
      <4>2. asked'[w] = [q EXCEPT !.at = "total"]  BY <2>3, <3>2, <4>1 DEF ResetOverrides, Goto
      <4>3. asked'[w].at = "total"  BY <4>1, <4>2 DEF Asking
      <4> QED  BY <3>2, <4>3 DEF ResetOverrides
    <3>3. CASE BanditArms(w) \/ EndSnapshot(w) \/ ResetStats(w) \/ ResetTotal(w)
      BY <2>1, <3>3 DEF BanditArms, EndSnapshot, ResetStats, ResetTotal
    <3> QED  BY <2>5, <3>1, <3>2, <3>3 DEF Operators
  <2> QED  BY <2>2, <2>4, <2>5
<1>2. LureInv /\ [LuresNext]_lureVars =>
        [\A c \in DOMAIN overrides :
           (overrides[c].until > clock /\ ~(c \in DOMAIN overrides' /\ overrides'[c] = overrides[c])) =>
             \E w \in Caller :
               \/ asked[w].at \in {"overrides", "idle"} /\ asked'[w].at \in {"total", "scan"}
               \/ asked[w].at = "clean" /\ c \in asked[w].renewed]_lureVars
  BY <1>1
<1> QED  BY <1>2, LuresAlwaysInv, PTL DEF LuresSpec, OverridesLast

(* Both hold for the lures as operators set them. *)
THEOREM SelectionsStayAsSet == LuresSpec => SelectionsAsSet
BY SelectionsKeepCaps, OverridesKeepTime DEF SelectionsAsSet

-----------------------------------------------------------------------------
(* The rabbit-hole engine.  A request of a session is a plan, which a thread   *)
(* goes through from its head.                                               *)

EngineTask == Store \cup {"hydrate", "command", "list", "reveal"}
EngineState == [todo : Seq(EngineTask),
                at : {"idle", "task", "touch", "drop", "forget", "insert", "record"},
                seen : Nat \cup Intruder]

EngineTypeOK ==
  /\ kept \in [Store -> Seq(Intruder)] /\ hydrated \subseteq Intruder
  /\ revealed \in [Intruder -> Nat] /\ thread \in [Intruder -> EngineState]
  /\ requests \in Nat
  /\ shown \in [Intruder -> Seq(Nat)] /\ disturbed \subseteq Intruder

(* The look for a context follows when a world was hydrated, and no plan both  *)
(* hydrates and reveals.                                                     *)
Plan(plan) ==
  /\ \A i \in DOMAIN plan : plan[i] = "hydrate" => i + 1 \in DOMAIN plan /\ plan[i + 1] = "contexts"
  /\ \A i, j \in DOMAIN plan : ~(plan[i] = "hydrate" /\ plan[j] = "reveal")

(* Before a plan reveals, it looks for the graph.                            *)
GraphFirst(plan) ==
  \A i \in DOMAIN plan : plan[i] = "reveal" => \E j \in DOMAIN plan : j < i /\ plan[j] = "graphs"

(* A thread at step w.at of a plan, with these dictionaries.                  *)
Fits(s, w, dicts, lost) ==
  /\ Plan(w.todo) /\ (w.at = "idle" <=> w.todo = << >>)
  /\ w.at \in {"touch", "drop", "insert"} => Head(w.todo) \in Store
  /\ w.at = "forget" => Head(w.todo) = "graphs" /\ w.seen \in Intruder
  /\ w.at = "record" => Head(w.todo) = "reveal" /\ w.seen \in Nat
  /\ w.at \in {"drop", "forget", "insert"} => s \notin Listed(dicts[Head(w.todo)])
  /\ GraphFirst(w.todo) \/ s \in lost \/ s \in Listed(dicts["graphs"])

ThreadsFit == \A s \in Intruder : Fits(s, thread[s], kept, disturbed)

KeptOnce == \A d \in Store : IsInjective(kept[d])

(* Who makes a request, and who found room in a dictionary or made some.      *)
BusyThreads == {t \in Intruder : ~AtStep(t, "idle")}
Entering(d) == {t \in Intruder : thread[t].at \in {"forget", "insert"} /\ Head(thread[t].todo) = d}

FewBusy == IsFiniteSet(BusyThreads) /\ Cardinality(BusyThreads) <= MaxBusy
RoomLeft ==
  \A d \in Store : Len(kept[d]) + Cardinality(Entering(d)) <= MaxKept + MaxBusy - 1

(* What a session was shown, what is kept of it, and what its thread read.    *)
Unfolds(s) ==
  /\ shown[s] = [i \in 1 .. Len(shown[s]) |-> i]
  /\ s \in Listed(kept["graphs"]) => revealed[s] = Len(shown[s])
  /\ s \notin Listed(kept["graphs"]) => shown[s] = << >>
  /\ s \notin Listed(kept["graphs"]) \cup BeingForgotten => revealed[s] = 0
  /\ AtStep(s, "record") => thread[s].seen = revealed[s]

CascadesKept == \A s \in Intruder \ disturbed : Unfolds(s)

EngineInv == EngineTypeOK /\ ThreadsFit /\ KeptOnce /\ FewBusy /\ RoomLeft /\ CascadesKept

-----------------------------------------------------------------------------
(* Dictionaries: a key that is used, the oldest one dropped, a new one.        *)

LEMMA KeyUsed ==
  ASSUME NEW Key, NEW q \in Seq(Key), IsInjective(q), NEW k \in Listed(q)
  PROVE  LET new == Used(q, k, Len(q))
         IN  new \in Seq(Key) /\ Len(new) = Len(q) /\ IsInjective(new) /\ Listed(new) = Listed(q)
<1> DEFINE new == Used(q, k, Len(q))
           h == [o \in Key |-> Listed(q)]
<1>1. k \in Key /\ Len(q) \in Nat \ {0} /\ Len(q) =< Len(q) /\ Listed(q) \subseteq Key
  BY DEF Listed
<1>2. IsFiniteSet(Listed(q))  BY DistinctKeys
<1>3. InOrderOfUse(q, h) /\ \A o \in Key : IsFiniteSet(h[o])
  <2>1. \A o \in Key : h[o] = Listed(q)  OBVIOUS
  <2>2. \A i \in DOMAIN q : q[i] \in Key /\ q[i] \in Listed(q)  BY DEF Listed
  <2> HIDE DEF h
  <2> QED  BY <1>2, <2>1, <2>2 DEF InOrderOfUse
<1> HIDE DEF h
<1>4. new \in Seq(Key) /\ IsInjective(new)  BY <1>1, <1>3, UsedResult
<1>5. Listed(new) = Listed(q)
  <2>1. Listed(new) = {k} \cup Listed(q)  BY <1>1, UsedListed
  <2> QED  BY <2>1
<1>6. Cardinality(Listed(new)) = Len(new) /\ Cardinality(Listed(q)) = Len(q)
  BY <1>4, DistinctKeys
<1> QED  BY <1>4, <1>5, <1>6

LEMMA OldestDropped ==
  ASSUME NEW Key, NEW q \in Seq(Key), IsInjective(q), q # << >>
  PROVE  /\ Head(q) \in Listed(q) /\ Head(q) \in Key
         /\ Tail(q) \in Seq(Key) /\ Len(Tail(q)) = Len(q) - 1 /\ IsInjective(Tail(q))
         /\ Listed(Tail(q)) = Listed(q) \ {Head(q)}
<1>1. Len(q) \in Nat \ {0} /\ DOMAIN q = 1 .. Len(q) /\ Head(q) = q[1]  OBVIOUS
<1>2. Tail(q) \in Seq(Key) /\ Len(Tail(q)) = Len(q) - 1
      /\ \A i \in 1 .. Len(q) - 1 : Tail(q)[i] = q[i + 1]
  OBVIOUS
<1>3. DOMAIN Tail(q) = 1 .. Len(q) - 1  BY <1>1, <1>2
<1>4. 1 \in DOMAIN q /\ \A i \in 1 .. Len(q) - 1 : i + 1 \in DOMAIN q /\ i + 1 # 1  BY <1>1
<1>5. \A i \in DOMAIN q : i = 1 \/ (i - 1 \in 1 .. Len(q) - 1 /\ (i - 1) + 1 = i)  BY <1>1
<1>6. Listed(Tail(q)) \subseteq Listed(q) \ {Head(q)}
  BY <1>1, <1>2, <1>3, <1>4 DEF Listed, IsInjective
<1>7. Listed(q) \ {Head(q)} \subseteq Listed(Tail(q))
  <2> SUFFICES ASSUME NEW i \in DOMAIN q, q[i] # q[1] PROVE q[i] \in Listed(Tail(q))
    BY <1>1 DEF Listed
  <2>1. i - 1 \in DOMAIN Tail(q) /\ Tail(q)[i - 1] = q[i]  BY <1>2, <1>3, <1>5
  <2> QED  BY <2>1 DEF Listed
<1>8. IsInjective(Tail(q))
  <2> SUFFICES ASSUME NEW i \in DOMAIN Tail(q), NEW j \in DOMAIN Tail(q), Tail(q)[i] = Tail(q)[j]
               PROVE  i = j
    BY DEF IsInjective
  <2>1. q[i + 1] = q[j + 1] /\ i + 1 \in DOMAIN q /\ j + 1 \in DOMAIN q  BY <1>2, <1>3, <1>4
  <2>2. i + 1 = j + 1  BY <2>1 DEF IsInjective
  <2> QED  BY <2>2, <1>3, <1>1
<1>9. Head(q) \in Listed(q) /\ Head(q) \in Key  BY <1>1, <1>4 DEF Listed
<1> QED  BY <1>2, <1>6, <1>7, <1>8, <1>9

LEMMA KeyAdded ==
  ASSUME NEW Key, NEW q \in Seq(Key), IsInjective(q), NEW k \in Key, k \notin Listed(q)
  PROVE  /\ Append(q, k) \in Seq(Key) /\ Len(Append(q, k)) = Len(q) + 1
         /\ IsInjective(Append(q, k)) /\ Listed(Append(q, k)) = Listed(q) \cup {k}
<1> DEFINE new == Append(q, k)
<1>1. new \in Seq(Key) /\ Len(new) = Len(q) + 1 /\ Len(q) \in Nat
      /\ DOMAIN new = 1 .. Len(q) + 1 /\ DOMAIN q = 1 .. Len(q)
      /\ new[Len(q) + 1] = k /\ \A i \in 1 .. Len(q) : new[i] = q[i]
  OBVIOUS
<1>2. \A i \in DOMAIN new : i = Len(q) + 1 \/ i \in DOMAIN q  BY <1>1
<1>3. Len(q) + 1 \in DOMAIN new /\ DOMAIN q \subseteq DOMAIN new  BY <1>1
<1> HIDE DEF new
<1>4. Listed(new) = Listed(q) \cup {k}  BY <1>1, <1>2, <1>3 DEF Listed
<1>5. IsInjective(new)
  <2> SUFFICES ASSUME NEW i \in DOMAIN new, NEW j \in DOMAIN new, new[i] = new[j] PROVE i = j
    BY DEF IsInjective
  <2>1. \A m \in DOMAIN q : q[m] # k  BY DEF Listed
  <2> QED  BY <1>1, <1>2, <2>1 DEF IsInjective
<1> QED  BY <1>1, <1>4, <1>5 DEF new

(* What is left of a plan.                                                   *)
LEMMA PlanGoesOn ==
  ASSUME NEW plan \in Seq(EngineTask), NEW rest \in Seq(EngineTask), NEW k \in Nat,
         Len(rest) = Len(plan) - k, \A i \in DOMAIN rest : rest[i] = plan[i + k],
         Plan(plan)
  PROVE  Plan(rest)
<1>1. Len(plan) \in Nat /\ Len(rest) \in Nat /\ DOMAIN plan = 1 .. Len(plan) /\ DOMAIN rest = 1 .. Len(rest)
  OBVIOUS
<1>2. \A i \in DOMAIN rest : i + k \in DOMAIN plan  BY <1>1
<1>3. \A i \in DOMAIN rest : (i + k) + 1 \in DOMAIN plan => i + 1 \in DOMAIN rest /\ (i + k) + 1 = (i + 1) + k
  BY <1>1
<1>4. ASSUME NEW i \in DOMAIN rest, rest[i] = "hydrate"
      PROVE  i + 1 \in DOMAIN rest /\ rest[i + 1] = "contexts"
  <2>1. plan[i + k] = "hydrate" /\ i + k \in DOMAIN plan  BY <1>2, <1>4
  <2>2. (i + k) + 1 \in DOMAIN plan /\ plan[(i + k) + 1] = "contexts"  BY <2>1 DEF Plan
  <2>3. i + 1 \in DOMAIN rest /\ (i + k) + 1 = (i + 1) + k  BY <2>2, <1>3
  <2> QED  BY <2>2, <2>3
<1>5. \A i, j \in DOMAIN rest : ~(rest[i] = "hydrate" /\ rest[j] = "reveal")
  BY <1>2 DEF Plan
<1> QED  BY <1>4, <1>5 DEF Plan

LEMMA TailGoesOn ==
  ASSUME NEW plan \in Seq(EngineTask), plan # << >>, Plan(plan)
  PROVE  /\ Tail(plan) \in Seq(EngineTask) /\ Head(plan) \in EngineTask /\ Plan(Tail(plan))
         /\ Head(plan) = "hydrate" => Tail(plan) # << >> /\ Head(Tail(plan)) = "contexts"
         /\ GraphFirst(plan) /\ Head(plan) # "graphs" => GraphFirst(Tail(plan))
         /\ GraphFirst(plan) => Head(plan) # "reveal"
<1>1. Len(plan) \in Nat \ {0} /\ DOMAIN plan = 1 .. Len(plan) /\ Head(plan) = plan[1]  OBVIOUS
<1>2. Tail(plan) \in Seq(EngineTask) /\ Len(Tail(plan)) = Len(plan) - 1
      /\ \A i \in 1 .. Len(plan) - 1 : Tail(plan)[i] = plan[i + 1]
  OBVIOUS
<1> DEFINE rest == Tail(plan)
<1>3. DOMAIN rest = 1 .. Len(plan) - 1  BY <1>1, <1>2
<1> HIDE DEF rest
<1>4. Plan(rest)  BY <1>1, <1>2, <1>3, PlanGoesOn, 1 \in Nat DEF rest
<1>5. ASSUME Head(plan) = "hydrate" PROVE rest # << >> /\ Head(rest) = "contexts"
  <2>1. 1 \in DOMAIN plan  BY <1>1
  <2>2. 1 + 1 \in DOMAIN plan /\ plan[1 + 1] = "contexts"  BY <1>1, <1>5, <2>1 DEF Plan
  <2>3. 1 \in 1 .. Len(plan) - 1  BY <2>2, <1>1
  <2>4. rest[1] = "contexts" /\ 1 \in DOMAIN rest  BY <2>2, <2>3, <1>2, <1>3 DEF rest
  <2>5. rest \in Seq(EngineTask)  BY <1>2 DEF rest
  <2> QED  BY <2>4, <2>5
<1>6. ASSUME GraphFirst(plan), Head(plan) # "graphs" PROVE GraphFirst(rest)
  <2> SUFFICES ASSUME NEW i \in DOMAIN rest, rest[i] = "reveal"
               PROVE  \E j \in DOMAIN rest : j < i /\ rest[j] = "graphs"
    BY DEF GraphFirst
  <2>1. i + 1 \in DOMAIN plan /\ plan[i + 1] = "reveal" /\ i \in Nat  BY <1>1, <1>2, <1>3 DEF rest
  <2>2. PICK j \in DOMAIN plan : j < i + 1 /\ plan[j] = "graphs"  BY <2>1, <1>6 DEF GraphFirst
  <2>3. j # 1  BY <2>2, <1>1, <1>6
  <2>4. j - 1 \in 1 .. Len(plan) - 1 /\ j - 1 < i /\ (j - 1) + 1 = j  BY <2>1, <2>2, <2>3, <1>1
  <2>5. rest[j - 1] = "graphs"  BY <2>2, <2>4, <1>2 DEF rest
  <2> QED  BY <2>4, <2>5, <1>3
<1>7. ASSUME GraphFirst(plan), Head(plan) = "reveal" PROVE FALSE
  <2>1. 1 \in DOMAIN plan /\ plan[1] = "reveal"  BY <1>1, <1>7
  <2>2. PICK j \in DOMAIN plan : j < 1  BY <2>1, <1>7 DEF GraphFirst
  <2> QED  BY <2>2, <1>1
<1>8. Head(plan) \in EngineTask  BY <1>1
<1> QED  BY <1>2, <1>4, <1>5, <1>6, <1>7, <1>8 DEF rest

-----------------------------------------------------------------------------
(* What a thread does to what is counted: it may have been idle, and it may     *)
(* have made room or found some in a dictionary.                             *)

LEMMA EngineCounts ==
  ASSUME EngineInv
  PROVE  /\ \A t \in Intruder : thread[t] \in EngineState
         /\ \A d \in Store : /\ kept[d] \in Seq(Intruder) /\ Len(kept[d]) \in Nat
                             /\ IsFiniteSet(Entering(d)) /\ Cardinality(Entering(d)) \in Nat
                             /\ Entering(d) \subseteq BusyThreads
         /\ MaxBusy \in Nat \ {0} /\ MaxKept \in Nat \ {0} /\ Cardinality(BusyThreads) \in Nat
<1>1. \A d \in Store : Entering(d) \subseteq BusyThreads  BY DEF Entering, BusyThreads, AtStep
<1>2. IsFiniteSet(BusyThreads)  BY DEF EngineInv, FewBusy
<1>3. \A d \in Store : IsFiniteSet(Entering(d)) /\ Cardinality(Entering(d)) \in Nat
  BY <1>1, <1>2, FS_Subset, FS_CardinalityType
<1>4. Cardinality(BusyThreads) \in Nat  BY <1>2, FS_CardinalityType
<1>5. \A d \in Store : kept[d] \in Seq(Intruder)  BY DEF EngineInv, EngineTypeOK
<1> QED  BY <1>1, <1>3, <1>4, <1>5, RabbitHoleAssumption DEF EngineInv, EngineTypeOK

(* Threads that make a request, after a step of one.                         *)
LEMMA BusyStep ==
  ASSUME EngineInv, NEW t \in Intruder, NEW w \in EngineState,
         thread' = [thread EXCEPT ![t] = w],
         t \in BusyThreads \/ Cardinality(BusyThreads) < MaxBusy
  PROVE  FewBusy'
<1>1. /\ IsFiniteSet(BusyThreads) /\ Cardinality(BusyThreads) \in Nat /\ MaxBusy \in Nat
      /\ Cardinality(BusyThreads) <= MaxBusy
  BY EngineCounts DEF EngineInv, FewBusy
<1>2. BusyThreads' \subseteq BusyThreads \cup {t}
  BY DEF BusyThreads, AtStep, EngineInv, EngineTypeOK
<1>3. IsFiniteSet(BusyThreads \cup {t})
      /\ Cardinality(BusyThreads \cup {t}) =
           IF t \in BusyThreads THEN Cardinality(BusyThreads) ELSE Cardinality(BusyThreads) + 1
  BY <1>1, FS_AddElement
<1>4. Cardinality(BusyThreads \cup {t}) <= MaxBusy  BY <1>1, <1>3
<1>5. IsFiniteSet(BusyThreads') /\ Cardinality(BusyThreads') <= Cardinality(BusyThreads \cup {t})
      /\ Cardinality(BusyThreads') \in Nat /\ Cardinality(BusyThreads \cup {t}) \in Nat
  BY <1>2, <1>3, FS_Subset, FS_CardinalityType
<1> QED  BY <1>1, <1>4, <1>5 DEF FewBusy

(* The room in a dictionary, after a step: nothing is taken, there was some for*)
(* all that are busy, one was dropped, or one was inserted.                   *)
LEMMA RoomStep ==
  ASSUME EngineInv, FewBusy', NEW d \in Store, NEW t \in Intruder,
         Len(kept'[d]) \in Nat, Entering(d)' \subseteq BusyThreads',
         \/ Len(kept'[d]) <= Len(kept[d]) /\ Entering(d)' \subseteq Entering(d)
         \/ Len(kept'[d]) < MaxKept
         \/ Len(kept'[d]) = Len(kept[d]) - 1 /\ Entering(d)' \subseteq Entering(d) \cup {t}
         \/ /\ Len(kept'[d]) = Len(kept[d]) + 1 /\ t \in Entering(d)
            /\ Entering(d)' \subseteq Entering(d) \ {t}
  PROVE  Len(kept'[d]) + Cardinality(Entering(d)') <= MaxKept + MaxBusy - 1
<1> DEFINE before == Cardinality(Entering(d))
           after == Cardinality(Entering(d)')
<1>1. /\ Len(kept[d]) \in Nat /\ IsFiniteSet(Entering(d)) /\ before \in Nat
      /\ MaxBusy \in Nat \ {0} /\ MaxKept \in Nat \ {0}
      /\ Len(kept[d]) + before <= MaxKept + MaxBusy - 1
  BY EngineCounts DEF EngineInv, RoomLeft
<1>2. IsFiniteSet(BusyThreads') /\ Cardinality(BusyThreads') <= MaxBusy  BY DEF FewBusy
<1>3. IsFiniteSet(Entering(d)') /\ after \in Nat /\ after <= MaxBusy
  <2>1. IsFiniteSet(Entering(d)') /\ after <= Cardinality(BusyThreads')  BY <1>2, FS_Subset
  <2>2. after \in Nat /\ Cardinality(BusyThreads') \in Nat  BY <1>2, <2>1, FS_CardinalityType
  <2> QED  BY <1>1, <1>2, <2>1, <2>2
<1>4. Entering(d)' \subseteq Entering(d) => after <= before  BY <1>1, FS_Subset
<1>5. Entering(d)' \subseteq Entering(d) \cup {t} => after <= before + 1
  <2>1. IsFiniteSet(Entering(d) \cup {t})
        /\ Cardinality(Entering(d) \cup {t}) = IF t \in Entering(d) THEN before ELSE before + 1
    BY <1>1, FS_AddElement
  <2>2. Entering(d)' \subseteq Entering(d) \cup {t} => after <= Cardinality(Entering(d) \cup {t})
    BY <2>1, FS_Subset
  <2> QED  BY <1>1, <1>3, <2>1, <2>2
<1>6. t \in Entering(d) /\ Entering(d)' \subseteq Entering(d) \ {t} => after <= before - 1
  <2> SUFFICES ASSUME t \in Entering(d), Entering(d)' \subseteq Entering(d) \ {t}
               PROVE  after <= before - 1
    OBVIOUS
  <2>1. IsFiniteSet(Entering(d) \ {t})
        /\ Cardinality(Entering(d) \ {t}) = IF t \in Entering(d) THEN before - 1 ELSE before
    BY <1>1, FS_RemoveElement
  <2>2. after <= Cardinality(Entering(d) \ {t})  BY <2>1, FS_Subset
  <2> QED  BY <2>1, <2>2
<1> HIDE DEF before, after
<1>7. CASE Len(kept'[d]) <= Len(kept[d]) /\ Entering(d)' \subseteq Entering(d)
  BY <1>1, <1>3, <1>4, <1>7 DEF after
<1>8. CASE Len(kept'[d]) < MaxKept  BY <1>1, <1>3, <1>8 DEF after
<1>9. CASE Len(kept'[d]) = Len(kept[d]) - 1 /\ Entering(d)' \subseteq Entering(d) \cup {t}
  BY <1>1, <1>3, <1>5, <1>9 DEF after
<1>10. CASE /\ Len(kept'[d]) = Len(kept[d]) + 1 /\ t \in Entering(d)
            /\ Entering(d)' \subseteq Entering(d) \ {t}
  BY <1>1, <1>3, <1>6, <1>10 DEF after
<1> QED  BY <1>7, <1>8, <1>9, <1>10

(* The other threads, when one takes a step: their keys stay away, and who lost*)
(* a graph in a request is known.                                            *)
LEMMA ThreadStep ==
  ASSUME EngineInv, NEW t \in Intruder, NEW w \in EngineState,
         thread' = [thread EXCEPT ![t] = w],
         Fits(t, w, kept', disturbed'), disturbed \subseteq disturbed',
         \A d \in Store : Listed(kept'[d]) \subseteq Listed(kept[d]) \cup {t},
         \A s \in Intruder : s \in Listed(kept["graphs"]) /\ ~AtStep(s, "idle") /\ s # t =>
            s \in Listed(kept'["graphs"]) \/ s \in disturbed'
  PROVE  ThreadsFit'
<1> SUFFICES ASSUME NEW s \in Intruder PROVE Fits(s, thread'[s], kept', disturbed')
  BY DEF ThreadsFit
<1>1. thread'[t] = w /\ (s # t => thread'[s] = thread[s])  BY DEF EngineInv, EngineTypeOK
<1>2. CASE s = t  BY <1>1, <1>2
<1>3. CASE s # t
  <2>1. Fits(s, thread[s], kept, disturbed)  BY DEF EngineInv, ThreadsFit
  <2>2. \A d \in Store : s \notin Listed(kept[d]) => s \notin Listed(kept'[d])  BY <1>3
  <2>3. "graphs" \in Store  BY DEF Store
  <2>4. AtStep(s, "idle") => GraphFirst(thread[s].todo)
    BY <2>1 DEF Fits, AtStep, GraphFirst
  <2>5. GraphFirst(thread[s].todo) \/ s \in disturbed' \/ s \in Listed(kept'["graphs"])
    BY <1>3, <2>1, <2>4 DEF Fits
  <2>6. thread[s].at \in {"drop", "forget", "insert"} => Head(thread[s].todo) \in Store
    BY <2>1, <2>3 DEF Fits
  <2> QED  BY <1>1, <1>3, <2>1, <2>2, <2>5, <2>6 DEF Fits
<1> QED  BY <1>2, <1>3

(* A step that leaves the dictionaries alone.                                *)
LEMMA EngineQuietStep ==
  ASSUME EngineInv, NEW t \in Intruder, NEW w \in EngineState,
         thread' = [thread EXCEPT ![t] = w], hydrated' \subseteq Intruder, requests' \in Nat,
         UNCHANGED <<kept, revealed, shown, disturbed>>,
         t \in BusyThreads \/ Cardinality(BusyThreads) < MaxBusy,
         Fits(t, w, kept, disturbed), ~AtStep(t, "forget"), w.at # "forget",
         w.at = "insert" => Len(kept[Head(w.todo)]) < MaxKept,
         w.at = "record" => w.seen = revealed[t]
  PROVE  EngineInv'
<1>1. EngineTypeOK'  BY DEF EngineInv, EngineTypeOK
<1>2. ThreadsFit'  BY ThreadStep
<1>3. KeptOnce'  BY DEF EngineInv, KeptOnce
<1>4. FewBusy'  BY BusyStep
<1>5. thread'[t] = w /\ \A s \in Intruder \ {t} : thread'[s] = thread[s]
  BY DEF EngineInv, EngineTypeOK
<1>6. RoomLeft'
  <2> SUFFICES ASSUME NEW d \in Store
               PROVE  Len(kept'[d]) + Cardinality(Entering(d)') <= MaxKept + MaxBusy - 1
    BY DEF RoomLeft
  <2>1. Entering(d)' \subseteq BusyThreads'  BY DEF Entering, BusyThreads, AtStep
  <2>2. Len(kept[d]) \in Nat  BY EngineCounts
  <2>3. CASE w.at = "insert" /\ Head(w.todo) = d  BY <1>4, <2>1, <2>2, <2>3, RoomStep
  <2>4. CASE ~(w.at = "insert" /\ Head(w.todo) = d)
    <3>1. Entering(d)' \subseteq Entering(d)  BY <1>5, <2>4 DEF Entering
    <3>2. Len(kept'[d]) <= Len(kept[d])  BY <2>2
    <3> QED  BY <1>4, <2>1, <2>2, <3>1, <3>2, RoomStep
  <2> QED  BY <2>3, <2>4
<1>7. BeingForgotten' = BeingForgotten  BY <1>5 DEF BeingForgotten, AtStep
<1>8. CascadesKept'
  <2> SUFFICES ASSUME NEW s \in Intruder \ disturbed PROVE Unfolds(s)'
    BY DEF CascadesKept
  <2>1. Unfolds(s)  BY DEF EngineInv, CascadesKept
  <2>2. AtStep(s, "record")' => thread'[s].seen = revealed[s]
    BY <1>5, <2>1 DEF Unfolds, AtStep
  <2> QED  BY <1>7, <2>1, <2>2 DEF Unfolds
<1> QED  BY <1>1, <1>2, <1>3, <1>4, <1>6, <1>8 DEF EngineInv

(* A thread turns to the rest of a plan, or looks for its first dictionary.     *)
Turned(rest) == IF rest = << >> THEN Idle ELSE [todo |-> rest, at |-> "task", seen |-> 0]

LEMMA TurnedFits ==
  ASSUME NEW s \in Intruder, NEW rest \in Seq(EngineTask), Plan(rest), NEW dicts, NEW lost,
         GraphFirst(rest) \/ s \in lost \/ s \in Listed(dicts["graphs"])
  PROVE  /\ Turned(rest) \in EngineState /\ Turned(rest).at \in {"idle", "task"}
         /\ Fits(s, Turned(rest), dicts, lost)
<1>1. CASE rest = << >>
  <2>1. Turned(rest) = Idle  BY <1>1 DEF Turned
  <2>2. Idle \in EngineState /\ Idle.at = "idle" /\ Idle.todo = << >>
    <3>1. << >> \in Seq(EngineTask) /\ 0 \in Nat  OBVIOUS
    <3> QED  BY <3>1 DEF Idle, EngineState
  <2> QED  BY <1>1, <2>1, <2>2 DEF Fits
<1>2. CASE rest # << >>
  <2>1. Turned(rest) = [todo |-> rest, at |-> "task", seen |-> 0]  BY <1>2 DEF Turned
  <2>2. Turned(rest) \in EngineState /\ Turned(rest).at = "task" /\ Turned(rest).todo = rest
    <3>1. 0 \in Nat  OBVIOUS
    <3> QED  BY <2>1, <3>1 DEF EngineState
  <2> QED  BY <1>2, <2>2 DEF Fits
<1> QED  BY <1>1, <1>2

LEMMA LookFits ==
  ASSUME NEW s \in Intruder, NEW plan \in Seq(EngineTask), Plan(plan), plan # << >>,
         Head(plan) \in Store, GraphFirst(plan) \/ s \in disturbed \/ s \in Listed(kept["graphs"])
  PROVE  LET w == LookFor(s, plan)
         IN  /\ w \in EngineState /\ w.at \in {"touch", "drop", "insert"} /\ Head(w.todo) = Head(plan)
             /\ Fits(s, w, kept, disturbed)
             /\ w.at = "insert" => ~(Len(kept[Head(plan)]) >= MaxKept)
<1> DEFINE w == LookFor(s, plan)
<1>1. w.todo = plan /\ w.at = Found(s, Head(plan)) /\ w.seen = 0 /\ w = [todo |-> w.todo, at |-> w.at, seen |-> w.seen]
  BY DEF LookFor
<1>2. /\ w.at \in {"touch", "drop", "insert"}
      /\ w.at # "touch" => s \notin Listed(kept[Head(plan)])
      /\ w.at = "insert" => ~(Len(kept[Head(plan)]) >= MaxKept)
  BY <1>1 DEF Found
<1> HIDE DEF w
<1>3. 0 \in Nat  OBVIOUS
<1>4. w \in EngineState  BY <1>1, <1>2, <1>3 DEF EngineState
<1>5. Fits(s, w, kept, disturbed)  BY <1>1, <1>2 DEF Fits
<1> QED  BY <1>1, <1>2, <1>4, <1>5 DEF w

(* What a thread that makes a request may rely on.                           *)
LEMMA AtWork ==
  ASSUME EngineInv, NEW s \in Intruder, ~AtStep(s, "idle")
  PROVE  /\ thread[s] \in EngineState /\ thread[s].todo \in Seq(EngineTask) /\ thread[s].todo # << >>
         /\ Plan(thread[s].todo) /\ s \in BusyThreads /\ Fits(s, thread[s], kept, disturbed)
         /\ GraphFirst(thread[s].todo) \/ s \in disturbed \/ s \in Listed(kept["graphs"])
BY DEF EngineInv, EngineTypeOK, EngineState, ThreadsFit, Fits, AtStep, BusyThreads

LEMMA RespondKeepsInv == ASSUME EngineInv, NEW s \in Intruder, Respond(s) PROVE EngineInv'
<1> DEFINE w == LookFor(s, Opening)
<1>1. Opening \in Seq(EngineTask) /\ Opening # << >> /\ Head(Opening) = "worlds" /\ DOMAIN Opening = 1 .. 5
      /\ Opening[1] = "worlds" /\ Opening[2] = "graphs" /\ Opening[3] = "hydrate" /\ Opening[4] = "contexts"
      /\ Opening[5] = "command"
  BY DEF Opening, EngineTask, Store
<1>2. Plan(Opening) /\ GraphFirst(Opening)  BY <1>1 DEF Plan, GraphFirst
<1>3. "worlds" \in Store  BY DEF Store
<1>4. /\ w \in EngineState /\ w.at \in {"touch", "drop", "insert"} /\ Head(w.todo) = "worlds"
      /\ Fits(s, w, kept, disturbed) /\ (w.at = "insert" => ~(Len(kept["worlds"]) >= MaxKept))
  BY <1>1, <1>2, <1>3, LookFits
<1>5. w.at = "insert" => Len(kept[Head(w.todo)]) < MaxKept
  BY <1>3, <1>4, EngineCounts
<1>6. thread' = [thread EXCEPT ![s] = w] /\ requests' = requests + 1 /\ UNCHANGED engineVars
      /\ ~AtStep(s, "forget") /\ Cardinality(BusyThreads) < MaxBusy
  BY DEF Respond, AtStep, BusyThreads
<1>7. requests' \in Nat /\ hydrated' \subseteq Intruder
  BY <1>6 DEF EngineInv, EngineTypeOK, engineVars
<1> HIDE DEF w
<1> QED  BY <1>4, <1>5, <1>6, <1>7, EngineQuietStep DEF engineVars

(* The steps after which a thread looks for a dictionary.                     *)
LEMMA LookKeepsInv ==
  ASSUME EngineInv, NEW s \in Intruder, ~AtStep(s, "idle"), ~AtStep(s, "forget"),
         NEW plan \in Seq(EngineTask), Plan(plan), plan # << >>, Head(plan) \in Store,
         GraphFirst(plan) \/ s \in disturbed \/ s \in Listed(kept["graphs"]),
         thread' = [thread EXCEPT ![s] = LookFor(s, plan)],
         UNCHANGED <<kept, revealed, shown, disturbed, requests>>, hydrated' \subseteq Intruder
  PROVE  EngineInv'
<1> DEFINE w == LookFor(s, plan)
<1>1. /\ w \in EngineState /\ w.at \in {"touch", "drop", "insert"} /\ Head(w.todo) = Head(plan)
      /\ Fits(s, w, kept, disturbed) /\ (w.at = "insert" => ~(Len(kept[Head(plan)]) >= MaxKept))
  BY LookFits
<1>2. w.at = "insert" => Len(kept[Head(w.todo)]) < MaxKept
  BY <1>1, EngineCounts
<1>3. requests' \in Nat /\ s \in BusyThreads  BY AtWork DEF EngineInv, EngineTypeOK
<1>4. thread' = [thread EXCEPT ![s] = w]  OBVIOUS
<1> HIDE DEF w
<1> QED  BY <1>1, <1>2, <1>3, <1>4, EngineQuietStep

(* The steps after which it turns to the rest of its plan.                    *)
LEMMA ThenKeepsInv ==
  ASSUME EngineInv, NEW s \in Intruder, ~AtStep(s, "idle"), ~AtStep(s, "forget"),
         NEW plan \in Seq(EngineTask), Plan(plan), Then(s, plan),
         GraphFirst(plan) \/ s \in disturbed \/ s \in Listed(kept["graphs"]), UNCHANGED <<engineVars, requests>>
  PROVE  EngineInv'
<1> DEFINE w == Turned(plan)
<1>1. w \in EngineState /\ w.at \in {"idle", "task"} /\ Fits(s, w, kept, disturbed)
  BY TurnedFits
<1>2. thread' = [thread EXCEPT ![s] = w]  BY DEF Then, Turned
<1>3. requests' \in Nat /\ s \in BusyThreads /\ hydrated' \subseteq Intruder
  BY AtWork DEF EngineInv, EngineTypeOK, engineVars
<1> HIDE DEF w
<1> QED  BY <1>1, <1>2, <1>3, EngineQuietStep DEF engineVars

LEMMA LookStepKeepsInv == ASSUME EngineInv, NEW s \in Intruder, Look(s) PROVE EngineInv'
<1>1. ~AtStep(s, "idle") /\ ~AtStep(s, "forget") /\ Head(thread[s].todo) \in Store
  BY DEF Look, AtStep, Task
<1>2. thread' = [thread EXCEPT ![s] = LookFor(s, thread[s].todo)] /\ UNCHANGED <<engineVars, requests>>
  BY DEF Look
<1>3. hydrated' \subseteq Intruder  BY <1>2 DEF EngineInv, EngineTypeOK, engineVars
<1> QED  BY <1>1, <1>2, <1>3, AtWork, LookKeepsInv DEF engineVars

LEMMA HydrateKeepsInv == ASSUME EngineInv, NEW s \in Intruder, Hydrate(s) PROVE EngineInv'
<1>1. ~AtStep(s, "idle") /\ ~AtStep(s, "forget") /\ Head(thread[s].todo) = "hydrate"
  BY DEF Hydrate, Ready, AtStep, Task
<1>2. /\ thread' = [thread EXCEPT ![s] = LookFor(s, Tail(thread[s].todo))]
      /\ UNCHANGED <<kept, revealed, shown, disturbed, requests>>
      /\ hydrated' \subseteq hydrated \cup {s}
  BY DEF Hydrate
<1>3. hydrated' \subseteq Intruder  BY <1>2 DEF EngineInv, EngineTypeOK
<1>4. Tail(thread[s].todo) \in Seq(EngineTask) /\ Plan(Tail(thread[s].todo))
      /\ Tail(thread[s].todo) # << >> /\ Head(Tail(thread[s].todo)) = "contexts"
      /\ (GraphFirst(Tail(thread[s].todo)) \/ s \in disturbed \/ s \in Listed(kept["graphs"]))
  BY <1>1, AtWork, TailGoesOn
<1>5. "contexts" \in Store  BY DEF Store
<1> QED  BY <1>1, <1>2, <1>3, <1>4, <1>5, LookKeepsInv

LEMMA RaisesKeepsInv == ASSUME EngineInv, NEW s \in Intruder, Raises(s) PROVE EngineInv'
<1>1. ~AtStep(s, "idle") /\ ~AtStep(s, "forget") /\ Then(s, << >>) /\ UNCHANGED <<engineVars, requests>>
  BY DEF Raises, AtStep
<1>2. << >> \in Seq(EngineTask) /\ Plan(<< >>) /\ GraphFirst(<< >>)  BY DEF Plan, GraphFirst
<1> QED  BY <1>1, <1>2, ThenKeepsInv

(* What a command asks for.                                                  *)
LEMMA CommandPlans ==
  /\ <<"list">> \in Seq(EngineTask) /\ Plan(<<"list">>) /\ GraphFirst(<<"list">>)
  /\ << >> \in Seq(EngineTask) /\ Plan(<< >>) /\ GraphFirst(<< >>)
  /\ \A c \in {<<"worlds", "graphs", "reveal">>, <<"worlds">>, <<"graphs", "reveal">>} :
       c \in Seq(EngineTask) /\ c # << >> /\ Head(c) \in Store /\ Plan(c) /\ GraphFirst(c)
<1>1. <<"list">> \in Seq(EngineTask) /\ Plan(<<"list">>) /\ GraphFirst(<<"list">>)
  BY DEF Plan, GraphFirst, EngineTask, Store
<1>2. << >> \in Seq(EngineTask) /\ Plan(<< >>) /\ GraphFirst(<< >>)  BY DEF Plan, GraphFirst
<1>3. LET c == <<"worlds", "graphs", "reveal">>
      IN  c \in Seq(EngineTask) /\ c # << >> /\ Head(c) \in Store /\ Plan(c) /\ GraphFirst(c)
  <2> DEFINE c == <<"worlds", "graphs", "reveal">>
  <2>1. c \in Seq(EngineTask) /\ c # << >> /\ Head(c) \in Store /\ DOMAIN c = 1 .. 3
        /\ c[1] = "worlds" /\ c[2] = "graphs" /\ c[3] = "reveal"
    BY DEF EngineTask, Store
  <2> HIDE DEF c
  <2>2. Plan(c)  BY <2>1 DEF Plan
  <2>3. GraphFirst(c)
    <3>1. \A i \in DOMAIN c : c[i] = "reveal" => 2 \in DOMAIN c /\ 2 < i /\ c[2] = "graphs"
      BY <2>1
    <3> QED  BY <3>1 DEF GraphFirst
  <2> QED  BY <2>1, <2>2, <2>3 DEF c
<1>4. LET c == <<"worlds">>
      IN  c \in Seq(EngineTask) /\ c # << >> /\ Head(c) \in Store /\ Plan(c) /\ GraphFirst(c)
  BY DEF Plan, GraphFirst, EngineTask, Store
<1>5. LET c == <<"graphs", "reveal">>
      IN  c \in Seq(EngineTask) /\ c # << >> /\ Head(c) \in Store /\ Plan(c) /\ GraphFirst(c)
  <2> DEFINE c == <<"graphs", "reveal">>
  <2>1. c \in Seq(EngineTask) /\ c # << >> /\ Head(c) \in Store /\ DOMAIN c = 1 .. 2
        /\ c[1] = "graphs" /\ c[2] = "reveal"
    BY DEF EngineTask, Store
  <2> HIDE DEF c
  <2>2. Plan(c)  BY <2>1 DEF Plan
  <2>3. GraphFirst(c)
    <3>1. \A i \in DOMAIN c : c[i] = "reveal" => 1 \in DOMAIN c /\ 1 < i /\ c[1] = "graphs"
      BY <2>1
    <3> QED  BY <3>1 DEF GraphFirst
  <2> QED  BY <2>1, <2>2, <2>3 DEF c
<1> QED  BY <1>1, <1>2, <1>3, <1>4, <1>5

LEMMA InterpretKeepsInv == ASSUME EngineInv, NEW s \in Intruder, Interpret(s) PROVE EngineInv'
<1>1. ~AtStep(s, "idle") /\ ~AtStep(s, "forget") /\ UNCHANGED <<engineVars, requests>>
  BY DEF Interpret, Ready, AtStep
<1>2. CASE \E c \in {<<"list">>, << >>} : Then(s, c)
  BY <1>1, <1>2, CommandPlans, ThenKeepsInv
<1>3. CASE \E c \in {<<"worlds", "graphs", "reveal">>, <<"worlds">>, <<"graphs", "reveal">>} :
             thread' = [thread EXCEPT ![s] = LookFor(s, c)]
  <2>1. hydrated' \subseteq Intruder  BY <1>1 DEF EngineInv, EngineTypeOK, engineVars
  <2> QED  BY <1>1, <1>3, <2>1, CommandPlans, LookKeepsInv DEF engineVars
<1> QED  BY <1>2, <1>3 DEF Interpret

LEMMA ListRevealedKeepsInv == ASSUME EngineInv, NEW s \in Intruder, ListRevealed(s) PROVE EngineInv'
<1>1. ~AtStep(s, "idle") /\ ~AtStep(s, "forget") /\ UNCHANGED <<engineVars, requests>>
      /\ Head(thread[s].todo) = "list"
  BY DEF ListRevealed, Ready, AtStep, Task
<1>2. CASE Then(s, Tail(thread[s].todo))
  <2>1. /\ Tail(thread[s].todo) \in Seq(EngineTask) /\ Plan(Tail(thread[s].todo))
        /\ (GraphFirst(Tail(thread[s].todo)) \/ s \in disturbed \/ s \in Listed(kept["graphs"]))
    BY <1>1, AtWork, TailGoesOn
  <2> QED  BY <1>1, <1>2, <2>1, ThenKeepsInv
<1>3. CASE Then(s, <<"graphs", "reveal">>)
  BY <1>1, <1>3, CommandPlans, ThenKeepsInv
<1> QED  BY <1>2, <1>3 DEF ListRevealed, EndTask

LEMMA ReadIndexKeepsInv == ASSUME EngineInv, NEW s \in Intruder, ReadIndex(s) PROVE EngineInv'
<1>1. ~AtStep(s, "idle") /\ ~AtStep(s, "forget") /\ UNCHANGED <<engineVars, requests>>
      /\ Head(thread[s].todo) = "reveal" /\ AtStep(s, "task")
  BY DEF ReadIndex, Ready, AtStep, Task
<1>2. CASE Then(s, Tail(thread[s].todo))
  <2>1. /\ Tail(thread[s].todo) \in Seq(EngineTask) /\ Plan(Tail(thread[s].todo))
        /\ (GraphFirst(Tail(thread[s].todo)) \/ s \in disturbed \/ s \in Listed(kept["graphs"]))
    BY <1>1, AtWork, TailGoesOn
  <2> QED  BY <1>1, <1>2, <2>1, ThenKeepsInv
<1>3. CASE thread' = [thread EXCEPT ![s].at = "record", ![s].seen = revealed[s]]
  <2> DEFINE w == [thread[s] EXCEPT !.at = "record", !.seen = revealed[s]]
  <2>1. thread[s] \in EngineState /\ revealed[s] \in Nat
    BY DEF EngineInv, EngineTypeOK
  <2>2. w \in EngineState /\ w.at = "record" /\ w.seen = revealed[s] /\ w.todo = thread[s].todo
    BY <2>1 DEF EngineState
  <2>3. thread' = [thread EXCEPT ![s] = w]  BY <1>3
  <2> HIDE DEF w
  <2>4. Fits(s, w, kept, disturbed)  BY <1>1, <2>1, <2>2, AtWork DEF Fits
  <2>5. requests' \in Nat /\ s \in BusyThreads /\ hydrated' \subseteq Intruder
    BY <1>1, AtWork DEF EngineInv, EngineTypeOK, engineVars
  <2> QED  BY <1>1, <2>2, <2>3, <2>4, <2>5, EngineQuietStep DEF engineVars
<1> QED  BY <1>2, <1>3 DEF ReadIndex, EndTask

(* The rest of what a step of a dictionary keeps, when no key of another session*)
(* comes, and the steps of a plan go on.                                     *)

LEMMA TouchKeepsInv == ASSUME EngineInv, NEW s \in Intruder, Touch(s) PROVE EngineInv'
<1> DEFINE plan == thread[s].todo
           d == Head(plan)
           rest == Tail(plan)
<1>1. ~AtStep(s, "idle") /\ AtStep(s, "touch") /\ s \in Listed(kept[d])
      /\ kept' = [kept EXCEPT ![d] = Used(kept[d], s, Len(kept[d]))]
      /\ UNCHANGED <<hydrated, revealed, shown, disturbed, requests>>
  BY DEF Touch, Task, AtStep
<1>2. /\ plan \in Seq(EngineTask) /\ plan # << >> /\ Plan(plan) /\ s \in BusyThreads /\ d \in Store
      /\ GraphFirst(plan) \/ s \in disturbed \/ s \in Listed(kept["graphs"])
  BY <1>1, AtWork DEF Fits, AtStep
<1>3. \A e \in Store : /\ kept[e] \in Seq(Intruder) /\ IsInjective(kept[e])
  BY DEF EngineInv, EngineTypeOK, KeptOnce
<1>4. kept \in [Store -> Seq(Intruder)]  BY DEF EngineInv, EngineTypeOK
<1>5. /\ kept'[d] \in Seq(Intruder) /\ Len(kept'[d]) = Len(kept[d])
      /\ IsInjective(kept'[d]) /\ Listed(kept'[d]) = Listed(kept[d])
      /\ \A e \in Store \ {d} : kept'[e] = kept[e]
  BY <1>1, <1>2, <1>3, <1>4, KeyUsed
<1>6. kept' \in [Store -> Seq(Intruder)]  BY <1>1, <1>2, <1>3, <1>4, <1>5
<1>7. \A e \in Store : Len(kept'[e]) = Len(kept[e]) /\ IsInjective(kept'[e])
         /\ Listed(kept'[e]) = Listed(kept[e])
  BY <1>3, <1>5
<1>8. "graphs" \in Store  BY DEF Store
<1>9. \E w \in EngineState : /\ thread' = [thread EXCEPT ![s] = w] /\ w.at \in {"idle", "task"}
                             /\ Fits(s, w, kept', disturbed')
  <2>1. /\ rest \in Seq(EngineTask) /\ Plan(rest)
        /\ GraphFirst(rest) \/ s \in disturbed \/ s \in Listed(kept["graphs"])
    BY <1>1, <1>2, TailGoesOn
  <2>2. CASE Then(s, rest)
    <3>1. Turned(rest) \in EngineState /\ Turned(rest).at \in {"idle", "task"}
          /\ Fits(s, Turned(rest), kept', disturbed')
      BY <2>1, <1>1, <1>7, <1>8, TurnedFits
    <3>2. thread' = [thread EXCEPT ![s] = Turned(rest)]  BY <2>2 DEF Then, Turned
    <3> QED  BY <3>1, <3>2
  <2>3. CASE "hydrate" \in Listed(rest) /\ Then(s, SubSeq(rest, 3, Len(rest)))
    <3> DEFINE new == SubSeq(rest, 3, Len(rest))
    <3> HIDE DEF rest
    <3>1. PICK i \in DOMAIN rest : rest[i] = "hydrate"  BY <2>3 DEF Listed
    <3>2. i + 1 \in DOMAIN rest /\ \A j \in DOMAIN rest : rest[j] # "reveal"
      BY <2>1, <3>1 DEF Plan
    <3>3. Len(rest) \in Nat /\ DOMAIN rest = 1 .. Len(rest)  BY <2>1
    <3>4. Len(rest) >= 2  BY <3>1, <3>2, <3>3
    <3>5. new \in Seq(EngineTask) /\ Len(new) = Len(rest) - 2
          /\ \A j \in 1 .. Len(rest) - 2 : new[j] = rest[j + 2]
      <4>1. new \in Seq(EngineTask)  BY <2>1, <3>3
      <4>2. Len(new) = Len(rest) - 2  BY <2>1, <3>3, <3>4
      <4>3. \A j \in 1 .. Len(rest) - 2 : new[j] = rest[j + 2]  BY <2>1, <3>3, <3>4
      <4> QED  BY <4>1, <4>2, <4>3
    <3>6. DOMAIN new = 1 .. Len(rest) - 2  BY <3>3, <3>4, <3>5
    <3> HIDE DEF new
    <3>7. Plan(new)  BY <2>1, <3>5, <3>6, PlanGoesOn, 2 \in Nat
    <3>8. GraphFirst(new)
      <4>1. \A j \in DOMAIN new : j + 2 \in DOMAIN rest /\ new[j] = rest[j + 2]
        BY <3>3, <3>4, <3>5, <3>6
      <4> QED  BY <3>2, <4>1 DEF GraphFirst
    <3>9. Turned(new) \in EngineState /\ Turned(new).at \in {"idle", "task"}
          /\ Fits(s, Turned(new), kept', disturbed')
      BY <3>5, <3>7, <3>8, TurnedFits
    <3>10. thread' = [thread EXCEPT ![s] = Turned(new)]  BY <2>3 DEF Then, Turned, new
    <3> QED  BY <3>9, <3>10
  <2>4. Then(s, rest) \/ ("hydrate" \in Listed(rest) /\ Then(s, SubSeq(rest, 3, Len(rest))))
    BY DEF Touch
  <2> QED  BY <2>2, <2>3, <2>4
<1>10. PICK w \in EngineState : /\ thread' = [thread EXCEPT ![s] = w] /\ w.at \in {"idle", "task"}
                                /\ Fits(s, w, kept', disturbed')
  BY <1>9
<1> HIDE DEF plan, d, rest
<1>11. EngineTypeOK'
  BY <1>1, <1>6, <1>10 DEF EngineInv, EngineTypeOK
<1>12. ThreadsFit'  BY <1>1, <1>7, <1>8, <1>10, ThreadStep
<1>13. KeptOnce'  BY <1>7 DEF KeptOnce
<1>14. FewBusy'  BY <1>2, <1>10, BusyStep
<1>15. thread'[s] = w /\ \A u \in Intruder \ {s} : thread'[u] = thread[u]
  BY <1>10 DEF EngineInv, EngineTypeOK
<1>16. RoomLeft'
  <2> SUFFICES ASSUME NEW e \in Store
               PROVE  Len(kept'[e]) + Cardinality(Entering(e)') <= MaxKept + MaxBusy - 1
    BY DEF RoomLeft
  <2>1. Entering(e)' \subseteq BusyThreads'  BY DEF Entering, BusyThreads, AtStep
  <2>2. Len(kept[e]) \in Nat  BY EngineCounts
  <2>3. Entering(e)' \subseteq Entering(e)  BY <1>10, <1>15 DEF Entering
  <2>4. Len(kept'[e]) \in Nat /\ Len(kept'[e]) <= Len(kept[e])  BY <2>2, <1>7
  <2> QED  BY <1>14, <2>1, <2>3, <2>4, RoomStep
<1>17. BeingForgotten' = BeingForgotten
  BY <1>1, <1>10, <1>15 DEF BeingForgotten, AtStep
<1>18. CascadesKept'
  <2> SUFFICES ASSUME NEW u \in Intruder \ disturbed PROVE Unfolds(u)'
    BY <1>1 DEF CascadesKept
  <2>1. Unfolds(u)  BY DEF EngineInv, CascadesKept
  <2>2. AtStep(u, "record")' => thread'[u].seen = revealed[u]
    BY <1>10, <1>15, <2>1 DEF Unfolds, AtStep
  <2> QED  BY <1>1, <1>7, <1>8, <1>17, <2>1, <2>2 DEF Unfolds
<1> QED  BY <1>11, <1>12, <1>13, <1>14, <1>16, <1>18 DEF EngineInv

LEMMA InsertKeepsInv == ASSUME EngineInv, NEW s \in Intruder, Insert(s) PROVE EngineInv'
<1> DEFINE plan == thread[s].todo
           d == Head(plan)
           rest == Tail(plan)
           w == Turned(rest)
<1>1. ~AtStep(s, "idle") /\ AtStep(s, "insert") /\ kept' = [kept EXCEPT ![d] = Append(kept[d], s)]
      /\ revealed' = (IF d = "graphs" THEN [revealed EXCEPT ![s] = 0] ELSE revealed)
      /\ Then(s, rest) /\ UNCHANGED <<hydrated, shown, disturbed, requests>>
  BY DEF Insert, Task, AtStep, EndTask
<1>2. /\ plan \in Seq(EngineTask) /\ plan # << >> /\ Plan(plan) /\ s \in BusyThreads /\ d \in Store
      /\ GraphFirst(plan) \/ s \in disturbed \/ s \in Listed(kept["graphs"])
      /\ s \notin Listed(kept[d])
  BY <1>1, AtWork DEF Fits, AtStep
<1>3. \A e \in Store : /\ kept[e] \in Seq(Intruder) /\ IsInjective(kept[e]) /\ Len(kept[e]) \in Nat
  BY DEF EngineInv, EngineTypeOK, KeptOnce
<1>4. kept \in [Store -> Seq(Intruder)]  BY DEF EngineInv, EngineTypeOK
<1>5. /\ kept'[d] \in Seq(Intruder) /\ Len(kept'[d]) = Len(kept[d]) + 1
      /\ IsInjective(kept'[d]) /\ Listed(kept'[d]) = Listed(kept[d]) \cup {s}
      /\ \A e \in Store \ {d} : kept'[e] = kept[e]
  BY <1>1, <1>2, <1>3, <1>4, KeyAdded
<1>6. kept' \in [Store -> Seq(Intruder)]  BY <1>1, <1>2, <1>3, <1>4, <1>5
<1>7. "graphs" \in Store  BY DEF Store
<1>8. w \in EngineState /\ w.at \in {"idle", "task"} /\ Fits(s, w, kept', disturbed')
      /\ thread' = [thread EXCEPT ![s] = w]
  <2>1. /\ rest \in Seq(EngineTask) /\ Plan(rest)
        /\ GraphFirst(rest) \/ s \in disturbed' \/ s \in Listed(kept'["graphs"])
    BY <1>1, <1>2, <1>5, <1>7, TailGoesOn
  <2>2. w \in EngineState /\ w.at \in {"idle", "task"} /\ Fits(s, w, kept', disturbed')
    BY <2>1, TurnedFits
  <2> QED  BY <2>2, <1>1 DEF Then, Turned
<1>9. s \in Entering(d)  BY <1>1 DEF Entering, AtStep
<1> HIDE DEF plan, d, rest, w
<1>10. revealed' \in [Intruder -> Nat]
       /\ \A u \in Intruder : revealed'[u] = IF u = s /\ d = "graphs" THEN 0 ELSE revealed[u]
  <2>1. revealed \in [Intruder -> Nat] /\ 0 \in Nat  BY DEF EngineInv, EngineTypeOK
  <2> QED  BY <1>1, <2>1
<1>11. EngineTypeOK'  BY <1>1, <1>6, <1>8, <1>10 DEF EngineInv, EngineTypeOK
<1>12. ThreadsFit'
  <2>1. \A e \in Store : Listed(kept'[e]) \subseteq Listed(kept[e]) \cup {s}  BY <1>5
  <2>2. Listed(kept["graphs"]) \subseteq Listed(kept'["graphs"])  BY <1>5, <1>7
  <2> QED  BY <1>1, <1>8, <2>1, <2>2, ThreadStep
<1>13. KeptOnce'  BY <1>3, <1>5 DEF KeptOnce
<1>14. FewBusy'  BY <1>2, <1>8, BusyStep
<1>15. thread'[s] = w /\ \A u \in Intruder \ {s} : thread'[u] = thread[u]
  BY <1>8 DEF EngineInv, EngineTypeOK
<1>16. RoomLeft'
  <2> SUFFICES ASSUME NEW e \in Store
               PROVE  Len(kept'[e]) + Cardinality(Entering(e)') <= MaxKept + MaxBusy - 1
    BY DEF RoomLeft
  <2>1. Entering(e)' \subseteq BusyThreads'  BY DEF Entering, BusyThreads, AtStep
  <2>2. Entering(e)' \subseteq Entering(e) \ {s}  BY <1>8, <1>15 DEF Entering
  <2>3. Len(kept'[e]) \in Nat  BY <1>3, <1>5
  <2>4. CASE e = d  BY <1>5, <1>9, <1>14, <2>1, <2>2, <2>3, <2>4, RoomStep
  <2>5. CASE e # d
    <3>1. Len(kept'[e]) <= Len(kept[e])  BY <1>3, <1>5, <2>5
    <3> QED  BY <1>14, <2>1, <2>2, <2>3, <3>1, RoomStep
  <2> QED  BY <2>4, <2>5
<1>17. BeingForgotten' = BeingForgotten
  BY <1>1, <1>8, <1>15 DEF BeingForgotten, AtStep
<1>18. CascadesKept'
  <2> SUFFICES ASSUME NEW u \in Intruder \ disturbed PROVE Unfolds(u)'
    BY <1>1 DEF CascadesKept
  <2>1. Unfolds(u)  BY DEF EngineInv, CascadesKept
  <2>2. CASE u = s /\ d = "graphs"
    <3>1. shown[u] = << >> /\ revealed'[u] = 0 /\ shown' = shown
      BY <2>1, <2>2, <1>1, <1>2, <1>10 DEF Unfolds
    <3>2. ~AtStep(u, "record")'  BY <2>2, <1>8, <1>15 DEF AtStep
    <3>3. u \in Listed(kept'["graphs"])  BY <2>2, <1>5
    <3>4. Len(shown'[u]) = 0 /\ shown'[u] = [i \in 1 .. Len(shown'[u]) |-> i]  BY <3>1
    <3> QED  BY <3>1, <3>2, <3>3, <3>4 DEF Unfolds
  <2>3. CASE ~(u = s /\ d = "graphs")
    <3>1. revealed'[u] = revealed[u] /\ shown'[u] = shown[u]  BY <1>1, <1>10, <2>3
    <3>2. u \in Listed(kept'["graphs"]) <=> u \in Listed(kept["graphs"])  BY <1>5, <1>7, <2>3
    <3>3. AtStep(u, "record")' => thread'[u].seen = revealed[u]
      BY <1>8, <1>15, <2>1 DEF Unfolds, AtStep
    <3> QED  BY <1>17, <2>1, <3>1, <3>2, <3>3 DEF Unfolds
  <2> QED  BY <2>2, <2>3
<1> QED  BY <1>11, <1>12, <1>13, <1>14, <1>16, <1>18 DEF EngineInv

LEMMA DropKeepsInv == ASSUME EngineInv, NEW s \in Intruder, Drop(s) PROVE EngineInv'
<1> DEFINE plan == thread[s].todo
           d == Head(plan)
           oldest == Head(kept[d])
<1>1. ~AtStep(s, "idle") /\ AtStep(s, "drop") /\ kept[d] # << >> /\ kept' = [kept EXCEPT ![d] = Tail(kept[d])]
      /\ hydrated' \subseteq hydrated /\ UNCHANGED <<revealed, requests>>
  BY DEF Drop, Task, AtStep
<1>2. \/ /\ d = "graphs"
         /\ thread' = [thread EXCEPT ![s].at = "forget", ![s].seen = oldest]
         /\ shown' = [shown EXCEPT ![oldest] = << >>]
         /\ disturbed' = disturbed \cup ({oldest} \ {t \in Intruder : AtStep(t, "idle")})
      \/ d # "graphs" /\ thread' = [thread EXCEPT ![s].at = "insert"] /\ UNCHANGED <<shown, disturbed>>
  BY DEF Drop, Task, Goes
<1>3. /\ plan \in Seq(EngineTask) /\ Plan(plan) /\ plan # << >> /\ s \in BusyThreads /\ d \in Store
      /\ GraphFirst(plan) \/ s \in disturbed \/ s \in Listed(kept["graphs"])
      /\ s \notin Listed(kept[d]) /\ thread[s] \in EngineState
  BY <1>1, AtWork DEF Fits, AtStep
<1>4. \A e \in Store : /\ kept[e] \in Seq(Intruder) /\ IsInjective(kept[e]) /\ Len(kept[e]) \in Nat
  BY DEF EngineInv, EngineTypeOK, KeptOnce
<1>5. kept \in [Store -> Seq(Intruder)]  BY DEF EngineInv, EngineTypeOK
<1>6. /\ oldest \in Listed(kept[d]) /\ oldest \in Intruder
      /\ kept'[d] \in Seq(Intruder) /\ Len(kept'[d]) = Len(kept[d]) - 1
      /\ IsInjective(kept'[d]) /\ Listed(kept'[d]) = Listed(kept[d]) \ {oldest}
      /\ \A e \in Store \ {d} : kept'[e] = kept[e]
  BY <1>1, <1>3, <1>4, <1>5, OldestDropped
<1>7. kept' \in [Store -> Seq(Intruder)]  BY <1>1, <1>3, <1>4, <1>5, <1>6
<1>8. "graphs" \in Store /\ oldest # s  BY <1>3, <1>6 DEF Store
<1>9. PICK w \in EngineState :
         /\ thread' = [thread EXCEPT ![s] = w] /\ w.todo = plan
         /\ IF d = "graphs" THEN w.at = "forget" /\ w.seen = oldest ELSE w.at = "insert"
  <2>1. CASE d = "graphs"
    <3> DEFINE w == [thread[s] EXCEPT !.at = "forget", !.seen = oldest]
    <3>1. w \in EngineState /\ w.at = "forget" /\ w.seen = oldest /\ w.todo = plan
      BY <1>3, <1>6 DEF EngineState
    <3>2. thread' = [thread EXCEPT ![s] = w]  BY <1>2, <2>1
    <3> HIDE DEF w
    <3> QED  BY <2>1, <3>1, <3>2
  <2>2. CASE d # "graphs"
    <3> DEFINE w == [thread[s] EXCEPT !.at = "insert"]
    <3>1. w \in EngineState /\ w.at = "insert" /\ w.todo = plan  BY <1>3 DEF EngineState
    <3>2. thread' = [thread EXCEPT ![s] = w]  BY <1>2, <2>2
    <3> HIDE DEF w
    <3> QED  BY <2>2, <3>1, <3>2
  <2> QED  BY <2>1, <2>2
<1>10. d = Head(w.todo)  BY <1>9
<1>11. AtStep(s, "drop") /\ \A u \in Intruder : AtStep(u, "idle") <=> thread[u].at = "idle"
  BY <1>1 DEF AtStep
<1> HIDE DEF plan, d, oldest
<1>12. shown' \in [Intruder -> Seq(Nat)]
       /\ \A u \in Intruder : shown'[u] = IF u = oldest /\ d = "graphs" THEN << >> ELSE shown[u]
  <2>1. shown \in [Intruder -> Seq(Nat)] /\ << >> \in Seq(Nat)  BY DEF EngineInv, EngineTypeOK
  <2> QED  BY <1>2, <1>6, <2>1
<1>13. EngineTypeOK'
  BY <1>1, <1>2, <1>6, <1>7, <1>9, <1>12 DEF EngineInv, EngineTypeOK
<1>14. Fits(s, w, kept', disturbed')
  <2>1. s \notin Listed(kept'[d])  BY <1>3, <1>6
  <2>2. GraphFirst(plan) \/ s \in disturbed' \/ s \in Listed(kept'["graphs"])
    BY <1>2, <1>3, <1>6, <1>8
  <2>3. w.at \in {"forget", "insert"}  BY <1>9
  <2> QED  BY <1>3, <1>6, <1>9, <1>10, <2>1, <2>2, <2>3 DEF Fits
<1>15. ThreadsFit'
  <2>1. \A e \in Store : Listed(kept'[e]) \subseteq Listed(kept[e]) \cup {s}  BY <1>6
  <2>2. \A u \in Intruder : u \in Listed(kept["graphs"]) /\ ~AtStep(u, "idle") /\ u # s =>
            u \in Listed(kept'["graphs"]) \/ u \in disturbed'
    BY <1>2, <1>6, <1>8
  <2>3. disturbed \subseteq disturbed'  BY <1>2
  <2> QED  BY <1>9, <1>14, <2>1, <2>2, <2>3, ThreadStep
<1>16. KeptOnce'  BY <1>4, <1>6 DEF KeptOnce
<1>17. FewBusy'  BY <1>3, <1>9, BusyStep
<1>18. thread'[s] = w /\ \A u \in Intruder \ {s} : thread'[u] = thread[u]
  BY <1>9 DEF EngineInv, EngineTypeOK
<1>19. RoomLeft'
  <2> SUFFICES ASSUME NEW e \in Store
               PROVE  Len(kept'[e]) + Cardinality(Entering(e)') <= MaxKept + MaxBusy - 1
    BY DEF RoomLeft
  <2>1. Entering(e)' \subseteq BusyThreads'  BY DEF Entering, BusyThreads, AtStep
  <2>2. Len(kept'[e]) \in Nat
    <3>1. kept'[e] \in Seq(Intruder)  BY <1>7
    <3> QED  BY <3>1
  <2>3. CASE e = d
    <3>1. Entering(e)' \subseteq Entering(e) \cup {s}  BY <1>18 DEF Entering
    <3> QED  BY <1>6, <1>17, <2>1, <2>2, <2>3, <3>1, RoomStep
  <2>4. CASE e # d
    <3>1. Entering(e)' \subseteq Entering(e)  BY <1>10, <1>18, <2>4 DEF Entering
    <3>2. Len(kept'[e]) <= Len(kept[e])  BY <1>4, <1>6, <2>4
    <3> QED  BY <1>17, <2>1, <2>2, <3>1, <3>2, RoomStep
  <2> QED  BY <2>3, <2>4
<1>20. BeingForgotten' = BeingForgotten \cup (IF d = "graphs" THEN {oldest} ELSE {})
  <2>1. \A u \in Intruder : AtStep(u, "forget")' <=>
           IF u = s THEN d = "graphs" ELSE AtStep(u, "forget")
    BY <1>9, <1>18 DEF AtStep
  <2>2. ~AtStep(s, "forget")  BY <1>11 DEF AtStep
  <2>3. d = "graphs" => thread'[s].seen = oldest  BY <1>9, <1>18
  <2> QED  BY <1>18, <2>1, <2>2, <2>3 DEF BeingForgotten
<1>21. CascadesKept'
  <2> SUFFICES ASSUME NEW u \in Intruder \ disturbed' PROVE Unfolds(u)'
    BY DEF CascadesKept
  <2>1. u \notin disturbed  BY <1>2
  <2>2. Unfolds(u)  BY <2>1 DEF EngineInv, CascadesKept
  <2>3. revealed'[u] = revealed[u]  BY <1>1
  <2>4. CASE u = oldest /\ d = "graphs"
    <3>1. AtStep(u, "idle")  BY <1>2, <2>4
    <3>2. u # s /\ ~AtStep(u, "record")'  BY <1>8, <2>4, <3>1, <1>18 DEF AtStep
    <3>3. u \notin Listed(kept'["graphs"]) /\ u \in BeingForgotten' /\ shown'[u] = << >>
      BY <1>6, <1>12, <1>20, <2>4
    <3>4. Len(shown'[u]) = 0 /\ shown'[u] = [i \in 1 .. Len(shown'[u]) |-> i]  BY <3>3
    <3> QED  BY <3>2, <3>3, <3>4 DEF Unfolds
  <2>5. CASE ~(u = oldest /\ d = "graphs")
    <3>1. shown'[u] = shown[u]  BY <1>12, <2>5
    <3>2. u \in Listed(kept'["graphs"]) <=> u \in Listed(kept["graphs"])  BY <1>6, <1>8, <2>5
    <3>3. u \in BeingForgotten' <=> u \in BeingForgotten  BY <1>20, <2>5
    <3>4. AtStep(u, "record")' => thread'[u].seen = revealed[u]
      BY <1>9, <1>18, <2>2 DEF Unfolds, AtStep
    <3> QED  BY <2>2, <2>3, <3>1, <3>2, <3>3, <3>4 DEF Unfolds
  <2> QED  BY <2>4, <2>5
<1> QED  BY <1>13, <1>15, <1>16, <1>17, <1>19, <1>21 DEF EngineInv

LEMMA ForgetKeepsInv == ASSUME EngineInv, NEW s \in Intruder, Forget(s) PROVE EngineInv'
<1> DEFINE plan == thread[s].todo
           dropped == thread[s].seen
           w == [thread[s] EXCEPT !.at = "insert"]
<1>1. /\ AtStep(s, "forget") /\ ~AtStep(s, "idle")
      /\ revealed' = [revealed EXCEPT ![dropped] = 0]
      /\ disturbed' = IF AtStep(dropped, "idle") /\ shown[dropped] = << >> THEN disturbed
                      ELSE disturbed \cup {dropped}
      /\ thread' = [thread EXCEPT ![s].at = "insert"]
      /\ UNCHANGED <<kept, hydrated, shown, requests>>
  BY DEF Forget, AtStep, Goes
<1>2. /\ plan \in Seq(EngineTask) /\ Plan(plan) /\ plan # << >> /\ s \in BusyThreads /\ Head(plan) = "graphs"
      /\ GraphFirst(plan) \/ s \in disturbed \/ s \in Listed(kept["graphs"])
      /\ s \notin Listed(kept["graphs"]) /\ dropped \in Intruder /\ thread[s] \in EngineState
  BY <1>1, AtWork DEF Fits, AtStep
<1>3. w \in EngineState /\ w.at = "insert" /\ w.todo = plan /\ thread' = [thread EXCEPT ![s] = w]
  BY <1>1, <1>2 DEF EngineState
<1> HIDE DEF w, plan
<1>4. thread'[s] = w /\ \A u \in Intruder \ {s} : thread'[u] = thread[u]
  BY <1>3 DEF EngineInv, EngineTypeOK
<1>5. revealed' \in [Intruder -> Nat]
      /\ \A u \in Intruder : revealed'[u] = IF u = dropped THEN 0 ELSE revealed[u]
  <2>1. revealed \in [Intruder -> Nat] /\ 0 \in Nat  BY DEF EngineInv, EngineTypeOK
  <2> QED  BY <1>1, <2>1
<1>6. EngineTypeOK'
  <2>1. disturbed' \subseteq Intruder  BY <1>1, <1>2 DEF EngineInv, EngineTypeOK
  <2>2. thread' \in [Intruder -> EngineState]  BY <1>3 DEF EngineInv, EngineTypeOK
  <2> QED  BY <1>1, <1>5, <2>1, <2>2 DEF EngineInv, EngineTypeOK
<1>7. "graphs" \in Store  BY DEF Store
<1>8. disturbed \subseteq disturbed'  BY <1>1
<1>9. Fits(s, w, kept', disturbed')  BY <1>1, <1>2, <1>3, <1>7, <1>8 DEF Fits
<1>10. ThreadsFit'  BY <1>1, <1>3, <1>8, <1>9, ThreadStep
<1>11. KeptOnce'  BY <1>1 DEF EngineInv, KeptOnce
<1>12. FewBusy'  BY <1>2, <1>3, BusyStep
<1>13. RoomLeft'
  <2> SUFFICES ASSUME NEW e \in Store
               PROVE  Len(kept'[e]) + Cardinality(Entering(e)') <= MaxKept + MaxBusy - 1
    BY DEF RoomLeft
  <2>1. Entering(e)' \subseteq BusyThreads'  BY DEF Entering, BusyThreads, AtStep
  <2>2. Len(kept'[e]) \in Nat /\ Len(kept'[e]) <= Len(kept[e])  BY <1>1, EngineCounts
  <2>3. thread[s].todo = w.todo /\ thread[s].at = "forget"  BY <1>1, <1>3 DEF AtStep, plan
  <2>4. Entering(e)' \subseteq Entering(e)  BY <1>4, <2>3 DEF Entering
  <2> QED  BY <1>12, <2>1, <2>2, <2>4, RoomStep
<1>14. BeingForgotten \subseteq BeingForgotten' \cup {dropped}
  <2> SUFFICES ASSUME NEW u \in Intruder, AtStep(u, "forget")
               PROVE  thread[u].seen \in BeingForgotten' \cup {dropped}
    BY DEF BeingForgotten
  <2> QED  BY <1>4 DEF BeingForgotten, AtStep
<1>15. CascadesKept'
  <2> SUFFICES ASSUME NEW u \in Intruder \ disturbed' PROVE Unfolds(u)'
    BY DEF CascadesKept
  <2>1. Unfolds(u)  BY <1>8 DEF EngineInv, CascadesKept
  <2>2. CASE u = dropped
    <3>1. AtStep(u, "idle") /\ shown[u] = << >>  BY <1>1, <2>2
    <3>2. u # s  BY <1>1, <3>1
    <3>3. ~AtStep(u, "record")'  BY <1>4, <3>1, <3>2 DEF AtStep
    <3>4. revealed'[u] = 0 /\ shown'[u] = shown[u]  BY <1>1, <1>2, <1>5, <2>2
    <3>5. Len(shown'[u]) = 0  BY <3>1, <3>4
    <3> QED  BY <1>1, <2>1, <3>3, <3>4, <3>5 DEF Unfolds
  <2>3. CASE u # dropped
    <3>1. revealed'[u] = revealed[u]  BY <1>5, <2>3
    <3>2. AtStep(u, "record")' => thread'[u].seen = revealed[u]
      BY <1>3, <1>4, <2>1 DEF Unfolds, AtStep
    <3>3. u \notin BeingForgotten' => u \notin BeingForgotten  BY <1>14, <2>3
    <3> QED  BY <1>1, <2>1, <3>1, <3>2, <3>3 DEF Unfolds
  <2> QED  BY <2>2, <2>3
<1> QED  BY <1>6, <1>10, <1>11, <1>12, <1>13, <1>15 DEF EngineInv

(* One more of a cascade.                                                    *)
LEMMA CascadeGrows ==
  ASSUME NEW q \in Seq(Nat), q = [i \in 1 .. Len(q) |-> i], NEW n, n = Len(q) + 1
  PROVE  LET new == Append(q, n) IN new = [i \in 1 .. Len(new) |-> i] /\ Len(new) = Len(q) + 1
<1> DEFINE new == Append(q, n)
<1>1. Len(q) \in Nat /\ n \in Nat  OBVIOUS
<1>2. /\ new \in Seq(Nat) /\ Len(new) = Len(q) + 1 /\ new[Len(q) + 1] = n
      /\ \A i \in 1 .. Len(q) : new[i] = q[i]
  BY <1>1
<1>3. \A i \in 1 .. Len(q) : q[i] = i  OBVIOUS
<1>4. \A i \in 1 .. Len(q) + 1 : i = Len(q) + 1 \/ i \in 1 .. Len(q)  BY <1>1
<1> HIDE DEF new
<1>5. \A i \in 1 .. Len(new) : new[i] = i  BY <1>2, <1>3, <1>4
<1>6. new = [i \in 1 .. Len(new) |-> new[i]]  BY <1>2
<1> QED  BY <1>2, <1>5, <1>6 DEF new

LEMMA WriteIndexKeepsInv == ASSUME EngineInv, NEW s \in Intruder, WriteIndex(s) PROVE EngineInv'
<1> DEFINE plan == thread[s].todo
           rest == Tail(plan)
           w == Turned(rest)
           n == thread[s].seen + 1
<1>1. /\ AtStep(s, "record") /\ ~AtStep(s, "idle")
      /\ revealed' = [revealed EXCEPT ![s] = n] /\ shown' = [shown EXCEPT ![s] = Append(@, n)]
      /\ Then(s, rest) /\ UNCHANGED <<kept, hydrated, disturbed, requests>>
  BY DEF WriteIndex, AtStep, EndTask
<1>2. /\ plan \in Seq(EngineTask) /\ plan # << >> /\ Plan(plan) /\ s \in BusyThreads /\ Head(plan) = "reveal"
      /\ GraphFirst(plan) \/ s \in disturbed \/ s \in Listed(kept["graphs"])
      /\ thread[s].seen \in Nat
  BY <1>1, AtWork DEF Fits, AtStep
<1>3. /\ rest \in Seq(EngineTask) /\ Plan(rest)
      /\ s \in disturbed \/ s \in Listed(kept["graphs"])
  BY <1>2, TailGoesOn
<1>4. w \in EngineState /\ w.at \in {"idle", "task"} /\ Fits(s, w, kept', disturbed')
      /\ thread' = [thread EXCEPT ![s] = w]
  <2>1. w \in EngineState /\ w.at \in {"idle", "task"} /\ Fits(s, w, kept', disturbed')
    BY <1>1, <1>3, TurnedFits
  <2> QED  BY <2>1, <1>1 DEF Then, Turned
<1>5. n \in Nat  BY <1>2
<1> HIDE DEF plan, rest, w
<1>6. thread'[s] = w /\ \A u \in Intruder \ {s} : thread'[u] = thread[u]
  BY <1>4 DEF EngineInv, EngineTypeOK
<1>7. /\ revealed' \in [Intruder -> Nat] /\ revealed'[s] = n
      /\ \A u \in Intruder \ {s} : revealed'[u] = revealed[u]
  BY <1>1, <1>5 DEF EngineInv, EngineTypeOK
<1>8. /\ shown[s] \in Seq(Nat) /\ shown'[s] = Append(shown[s], n) /\ shown' \in [Intruder -> Seq(Nat)]
      /\ \A u \in Intruder \ {s} : shown'[u] = shown[u]
  <2>1. shown \in [Intruder -> Seq(Nat)]  BY DEF EngineInv, EngineTypeOK
  <2>2. Append(shown[s], n) \in Seq(Nat)  BY <1>5, <2>1
  <2> HIDE DEF n
  <2> QED  BY <1>1, <2>1, <2>2
<1>9. EngineTypeOK'  BY <1>1, <1>4, <1>7, <1>8 DEF EngineInv, EngineTypeOK
<1>10. ThreadsFit'  BY <1>1, <1>4, ThreadStep
<1>11. KeptOnce'  BY <1>1 DEF EngineInv, KeptOnce
<1>12. FewBusy'  BY <1>2, <1>4, BusyStep
<1>13. RoomLeft'
  <2> SUFFICES ASSUME NEW e \in Store
               PROVE  Len(kept'[e]) + Cardinality(Entering(e)') <= MaxKept + MaxBusy - 1
    BY DEF RoomLeft
  <2>1. Entering(e)' \subseteq BusyThreads'  BY DEF Entering, BusyThreads, AtStep
  <2>2. Len(kept'[e]) \in Nat /\ Len(kept'[e]) <= Len(kept[e])  BY <1>1, EngineCounts
  <2>3. Entering(e)' \subseteq Entering(e)  BY <1>4, <1>6 DEF Entering
  <2> QED  BY <1>12, <2>1, <2>2, <2>3, RoomStep
<1>14. BeingForgotten' = BeingForgotten  BY <1>1, <1>4, <1>6 DEF BeingForgotten, AtStep
<1>15. CascadesKept'
  <2> SUFFICES ASSUME NEW u \in Intruder \ disturbed PROVE Unfolds(u)'
    BY <1>1 DEF CascadesKept
  <2>1. Unfolds(u)  BY DEF EngineInv, CascadesKept
  <2>2. CASE u = s
    <3>1. u \in Listed(kept["graphs"])  BY <1>3, <2>2
    <3>2. n = Len(shown[u]) + 1 /\ shown[u] = [i \in 1 .. Len(shown[u]) |-> i]
      BY <2>1, <2>2, <3>1, <1>1 DEF Unfolds
    <3>3. shown'[u] = [i \in 1 .. Len(shown'[u]) |-> i] /\ Len(shown'[u]) = Len(shown[u]) + 1
      <4> DEFINE q == shown[u]
      <4>1. q \in Seq(Nat) /\ shown'[u] = Append(q, n)  BY <1>8, <2>2
      <4>2. q = [i \in 1 .. Len(q) |-> i] /\ n = Len(q) + 1  BY <3>2
      <4> HIDE DEF q, n
      <4>3. LET new == Append(q, n) IN new = [i \in 1 .. Len(new) |-> i] /\ Len(new) = Len(q) + 1
        BY <4>1, <4>2, CascadeGrows
      <4> QED  BY <4>1, <4>3 DEF q
    <3>4. ~AtStep(u, "record")'  BY <2>2, <1>4, <1>6 DEF AtStep
    <3>5. revealed'[u] = Len(shown'[u])  BY <1>7, <2>2, <3>2, <3>3
    <3> HIDE DEF n
    <3> QED  BY <1>1, <3>1, <3>3, <3>4, <3>5 DEF Unfolds
  <2>3. CASE u # s
    <3>1. revealed'[u] = revealed[u] /\ shown'[u] = shown[u]  BY <1>7, <1>8, <2>3
    <3>2. AtStep(u, "record")' => thread'[u].seen = revealed[u]
      BY <1>6, <2>1, <2>3 DEF Unfolds, AtStep
    <3> QED  BY <1>1, <1>14, <2>1, <3>1, <3>2 DEF Unfolds
  <2> QED  BY <2>2, <2>3
<1> QED  BY <1>9, <1>10, <1>11, <1>12, <1>13, <1>15 DEF EngineInv

LEMMA EngineInitInv == RabbitHoleInit => EngineInv
<1> SUFFICES ASSUME RabbitHoleInit PROVE EngineInv  OBVIOUS
<1> USE DEF RabbitHoleInit
<1>1. Idle \in EngineState /\ Idle.at = "idle" /\ Idle.todo = << >>
  <2>1. << >> \in Seq(EngineTask) /\ 0 \in Nat  OBVIOUS
  <2> QED  BY <2>1 DEF Idle, EngineState
<1>2. EngineTypeOK
  <2>1. << >> \in Seq(Intruder) /\ << >> \in Seq(Nat) /\ 0 \in Nat  OBVIOUS
  <2> QED  BY <1>1, <2>1 DEF EngineTypeOK
<1>3. ThreadsFit
  <2>1. Plan(<< >>) /\ GraphFirst(<< >>)  BY DEF Plan, GraphFirst
  <2> QED  BY <1>1, <2>1 DEF ThreadsFit, Fits
<1>4. Listed(<< >>) = {} /\ "graphs" \in Store  BY DEF Listed, Store
<1>5. KeptOnce  BY DEF KeptOnce, IsInjective
<1>6. BusyThreads = {} /\ \A d \in Store : Entering(d) = {}
  BY <1>1 DEF BusyThreads, Entering, AtStep
<1>7. IsFiniteSet({}) /\ Cardinality({}) = 0  BY FS_EmptySet
<1>8. MaxBusy \in Nat \ {0} /\ MaxKept \in Nat \ {0}  BY RabbitHoleAssumption
<1>9. FewBusy  BY <1>6, <1>7, <1>8 DEF FewBusy
<1>10. RoomLeft
  <2>1. \A d \in Store : Len(kept[d]) = 0 /\ Cardinality(Entering(d)) = 0  BY <1>6, <1>7
  <2> QED  BY <1>8, <2>1 DEF RoomLeft
<1>11. CascadesKept
  <2>1. \A s \in Intruder : shown[s] = << >> /\ revealed[s] = 0 /\ Len(shown[s]) = 0
    OBVIOUS
  <2>2. << >> = [i \in 1 .. 0 |-> i]  OBVIOUS
  <2>3. \A s \in Intruder : ~AtStep(s, "record") /\ s \notin Listed(kept["graphs"])
    BY <1>1, <1>4 DEF AtStep
  <2> QED  BY <2>1, <2>2, <2>3 DEF CascadesKept, Unfolds
<1> QED  BY <1>2, <1>3, <1>5, <1>9, <1>10, <1>11 DEF EngineInv

LEMMA EngineStutters == ASSUME EngineInv, UNCHANGED rabbitHoleVars PROVE EngineInv'
<1> USE DEF rabbitHoleVars, engineVars, EngineInv
<1>1. EngineTypeOK' /\ KeptOnce'  BY DEF EngineTypeOK, KeptOnce
<1>2. ThreadsFit'  BY DEF ThreadsFit
<1>3. FewBusy' /\ RoomLeft'  BY DEF FewBusy, RoomLeft, BusyThreads, Entering, AtStep
<1>4. BeingForgotten' = BeingForgotten  BY DEF BeingForgotten, AtStep
<1>5. CascadesKept'  BY <1>4 DEF CascadesKept, Unfolds, AtStep
<1> QED  BY <1>1, <1>2, <1>3, <1>5

LEMMA EngineStepKeepsInv == EngineInv /\ [RabbitHoleNext]_rabbitHoleVars => EngineInv'
BY EngineStutters, RespondKeepsInv, LookStepKeepsInv, TouchKeepsInv, RaisesKeepsInv, DropKeepsInv,
   ForgetKeepsInv, InsertKeepsInv, HydrateKeepsInv, InterpretKeepsInv, ListRevealedKeepsInv,
   ReadIndexKeepsInv, WriteIndexKeepsInv DEF RabbitHoleNext

(* The property, from its parts.                                            *)
LEMMA EngineInvSound == ASSUME EngineInv PROVE EngineSound
<1>1. KeptWithinCaps
  <2> SUFFICES ASSUME NEW d \in Store PROVE Len(kept[d]) <= MaxKept + MaxBusy - 1
    BY DEF KeptWithinCaps
  <2>1. /\ Len(kept[d]) \in Nat /\ Cardinality(Entering(d)) \in Nat /\ MaxKept \in Nat /\ MaxBusy \in Nat
        /\ Len(kept[d]) + Cardinality(Entering(d)) <= MaxKept + MaxBusy - 1
    BY EngineCounts DEF EngineInv, RoomLeft
  <2> QED  BY <2>1
<1>2. CascadeUnfolds  BY DEF EngineInv, CascadesKept, Unfolds, CascadeUnfolds
<1> QED  BY <1>1, <1>2 DEF EngineSound

(* The breaker before the local LLM.  The counter counts the streak, and the   *)
(* latest cooldown is over, is what the breaker keeps, or was wiped.           *)
LlmInv ==
  /\ asking \in [Connection \cup {Api} -> {"idle", "resetting", "sending"}]
  /\ {failures, until, second, streak, opened} \subseteq Nat /\ wiped \in BOOLEAN
  /\ failures = streak
  /\ wiped \/ opened <= second \/ until = opened

(* Who turns to the LLM in a step does so after the cooldown, or its end was   *)
(* removed.                                                                  *)
LlmStep ==
  \A c \in Connection :
    asking[c] # "sending" /\ asking'[c] = "sending" => second >= opened \/ wiped'

LEMMA LlmInitInv == LlmInit => LlmInv
<1> SUFFICES ASSUME LlmInit PROVE LlmInv  OBVIOUS
<1>1. 0 <= 1 /\ 0 \in Nat /\ 1 \in Nat  OBVIOUS
<1> QED  BY <1>1 DEF LlmInit, LlmInv

LEMMA LlmKeepsInv ==
  ASSUME LlmInv, [LlmNext]_llmVars PROVE LlmInv' /\ LlmStep
<1> USE DEF LlmInv
<1>0. /\ failures \in Nat /\ until \in Nat /\ second \in Nat /\ streak \in Nat /\ opened \in Nat
      /\ Threshold \in Nat /\ LlmCooldown \in Nat
  BY LlmAssumption
<1>1. CASE UNCHANGED llmVars  BY <1>1 DEF llmVars, breakerVars, LlmStep
<1>2. CASE \E c \in Connection : AskCooldown(c)
  <2>1. PICK c \in Connection : AskCooldown(c)  BY <1>2
  <2>2. UNCHANGED <<breakerVars, second>>  BY <2>1 DEF AskCooldown
  <2>3. asking' = asking \/ (until = 0 /\ Asks(c, "sending")) \/ Asks(c, "resetting")
    BY <2>1 DEF AskCooldown
  <2>4. LlmInv'  BY <2>2, <2>3 DEF breakerVars, Asks
  <2>5. until = 0 => second >= opened \/ wiped  BY <1>0
  <2> QED  BY <2>2, <2>3, <2>4, <2>5 DEF LlmStep, Asks, breakerVars
<1>3. CASE \E c \in Connection : LlmAnswers(c)
  <2>1. PICK c \in Connection : LlmAnswers(c)  BY <1>3
  <2>2. opened' = 0 /\ second' = second /\ failures' = 0 /\ until' = 0 /\ streak' = 0 /\ wiped' = FALSE
        /\ Asks(c, "idle")
    BY <2>1 DEF LlmAnswers
  <2>3. 0 \in Nat /\ opened' <= second'  BY <1>0, <2>2
  <2>4. LlmInv'  BY <1>0, <2>2, <2>3 DEF Asks
  <2> QED  BY <2>2, <2>4 DEF LlmStep, Asks
<1>4. CASE \E c \in Connection : LlmFails(c)
  <2>1. PICK c \in Connection : LlmFails(c)  BY <1>4
  <2>2. Asks(c, "idle") /\ second' = second /\ failures' = failures + 1 /\ streak' = streak + 1
        /\ failures' = streak'
    BY <2>1 DEF LlmFails, CountFailure
  <2>3. CASE streak' >= Threshold
    <3>1. until' = second + LlmCooldown /\ opened' = second + LlmCooldown /\ wiped' = FALSE
      BY <2>1, <2>2, <2>3 DEF LlmFails, CountFailure
    <3>2. {failures', until', second', streak', opened'} \subseteq Nat /\ until' = opened'
      BY <1>0, <2>2, <3>1
    <3>3. LlmInv'  BY <2>2, <3>1, <3>2 DEF Asks
    <3> QED  BY <2>2, <3>3 DEF LlmStep, Asks
  <2>4. CASE ~(streak' >= Threshold)
    <3>1. UNCHANGED <<until, opened, wiped>>  BY <2>1, <2>2, <2>4 DEF LlmFails, CountFailure
    <3>2. {failures', streak'} \subseteq Nat  BY <1>0, <2>2
    <3>3. LlmInv'  BY <2>2, <3>1, <3>2 DEF Asks
    <3> QED  BY <2>2, <3>3 DEF LlmStep, Asks
  <2> QED  BY <2>3, <2>4
<1>5. CASE \E t \in Connection \cup {Api} : ResetCooldown(t)
  <2>1. PICK t \in Connection \cup {Api} : ResetCooldown(t)  BY <1>5
  <2>2. /\ until' = 0 /\ wiped' = (wiped \/ until > second)
        /\ UNCHANGED <<failures, streak, opened, second>>
        /\ Asks(t, IF t = Api THEN "idle" ELSE "sending")
    BY <2>1 DEF ResetCooldown
  <2>3. wiped' \/ opened <= second
    <3>1. until > second \/ until <= second  BY <1>0
    <3> QED  BY <2>2, <3>1
  <2>4. 0 \in Nat  OBVIOUS
  <2>5. LlmInv'  BY <2>2, <2>3, <2>4 DEF Asks
  <2>6. wiped' \/ second >= opened  BY <2>3, <1>0
  <2> QED  BY <2>5, <2>6 DEF LlmStep
<1>6. CASE AskSnapshot
  <2>1. UNCHANGED <<breakerVars, second>> /\ Asks(Api, "resetting")  BY <1>6 DEF AskSnapshot
  <2> QED  BY <2>1, LlmAssumption DEF LlmStep, Asks, breakerVars
<1>7. CASE SecondPasses
  <2>1. UNCHANGED <<asking, breakerVars>> /\ second' = second + 1  BY <1>7 DEF SecondPasses
  <2>2. second' \in Nat /\ (opened <= second => opened <= second')  BY <1>0, <2>1
  <2> QED  BY <2>1, <2>2 DEF LlmStep, breakerVars
<1> QED  BY <1>1, <1>2, <1>3, <1>4, <1>5, <1>6, <1>7 DEF LlmNext

-----------------------------------------------------------------------------
(* A behaviour of operations is one of each component.                       *)
LEMMA OperationsSteps ==
  OperationsSpec => /\ RabbitHoleInit /\ [][RabbitHoleNext]_rabbitHoleVars
                    /\ LlmInit /\ [][LlmNext]_llmVars
<1>1. OperationsInit => RabbitHoleInit /\ LlmInit  BY DEF OperationsInit
<1>2. [OperationsNext]_operationsVars => [RabbitHoleNext]_rabbitHoleVars /\ [LlmNext]_llmVars
  BY DEF OperationsNext, operationsVars
<1> QED  BY <1>1, <1>2, PTL DEF OperationsSpec

(* However the threads of the connections fall together in the engine, its     *)
(* dictionaries stay small, a cascade unfolds in order, and an LLM that fails  *)
(* is spared for the cooldown: for any number of sessions and any limits.      *)
THEOREM EngineAlwaysHolds == OperationsSpec => EngineHolds
<1>1. RabbitHoleInit => EngineInv  BY EngineInitInv
<1>2. EngineInv /\ [RabbitHoleNext]_rabbitHoleVars => EngineInv'  BY EngineStepKeepsInv
<1>3. EngineInv => EngineSound  BY EngineInvSound
<1>4. LlmInit => LlmInv  BY LlmInitInv
<1>5. LlmInv /\ [LlmNext]_llmVars => LlmInv'  BY LlmKeepsInv
<1>6. LlmInv /\ [LlmNext]_llmVars =>
        [\A c \in Connection :
           asking[c] # "sending" /\ asking'[c] = "sending" => second >= opened \/ wiped']_llmVars
  BY LlmKeepsInv DEF LlmStep
<1> QED  BY <1>1, <1>2, <1>3, <1>4, <1>5, <1>6, OperationsSteps, PTL DEF EngineHolds, CooldownHolds
==============================================================================
