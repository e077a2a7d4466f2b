-------------------------- MODULE EventBus_proofs --------------------------
(*****************************************************************************)
(* Proofs about events and alerts: what the window of recent events holds and*)
(* is asked for; that the bus keeps such a window whoever publishes, and every*)
(* handler sees it in its order; that a page of the dashboard shows it in     *)
(* order and passes over none of it; and that alerts are throttled.           *)
(*****************************************************************************)
EXTENDS EventBus, Alerts, EventFeed, RecentUse_proofs

LogTypeOK == recent \in Seq(Entry) /\ nextId \in Nat \ {0}

LogInv == LogTypeOK /\ WindowIsContiguous /\ WindowHasNoDuplicates

(* What deque.append leaves: the new entry last, the others in their order, *)
(* moved k places down - one if the window was full, else none.             *)
Shifted(log, new, e, k) ==
  /\ new \in Seq(Entry)
  /\ Len(new) = Len(log) + 1 - k /\ Len(new) <= Window /\ k <= Len(log)
  /\ new[Len(new)] = e
  /\ \A i \in 1 .. Len(log) - k : new[i] = log[i + k]

(* What appending to the bounded window yields. *)
LEMMA PushResult ==
  ASSUME NEW log \in Seq(Entry), NEW e \in Entry, Len(log) <= Window
  PROVE  \E k \in {0, 1} : Shifted(log, Push(log, e), e, k)
<1>0. Window \in Nat \ {0}  BY WindowAssumption DEF WindowAssumption
<1>1. CASE Len(log) < Window
  <2>1. Push(log, e) = Append(log, e)  BY <1>1 DEF Push
  <2>2. Shifted(log, Append(log, e), e, 0)
    BY <1>0, <1>1 DEF Shifted
  <2> QED  BY <2>1, <2>2
<1>2. CASE Len(log) = Window
  <2>1. Push(log, e) = Append(Tail(log), e) /\ log # << >>
    BY <1>0, <1>2 DEF Push
  <2>2. /\ Tail(log) \in Seq(Entry)
        /\ Len(Tail(log)) = Len(log) - 1
        /\ \A i \in 1 .. Len(log) - 1 : Tail(log)[i] = log[i + 1]
    BY <2>1
  <2>3. Shifted(log, Append(Tail(log), e), e, 1)
    <3> DEFINE t == Tail(log)
    <3>1. Len(log) \in Nat \ {0}  BY <1>0, <1>2
    <3>2. /\ Append(t, e) \in Seq(Entry) /\ Len(Append(t, e)) = Len(log)
          /\ Append(t, e)[Len(log)] = e
          /\ \A i \in 1 .. Len(log) - 1 : Append(t, e)[i] = t[i]
      BY <2>2, <3>1
    <3> QED  BY <3>1, <3>2, <2>2, <1>2 DEF Shifted
  <2> QED  BY <2>1, <2>3
<1>3. Len(log) < Window \/ Len(log) = Window  BY <1>0
<1> QED  BY <1>1, <1>2, <1>3

(* The empty log satisfies the invariant. *)
LEMMA LogInitInv == LogInit => LogInv
BY WindowAssumption DEF WindowAssumption, LogInit, LogInv, LogTypeOK, WindowIsContiguous,
   WindowHasNoDuplicates

(* What recording an event does to the window, whatever event it is: the    *)
(* entry is new and last, and the others keep their order, moved k places.   *)
LEMMA RecordResult ==
  ASSUME LogTypeOK, WindowIsContiguous, NEW u \in Uid, Record(u)
  PROVE  /\ LogTypeOK' /\ WindowIsContiguous' /\ nextId' = nextId + 1
         /\ \E k \in {0, 1} :
              Shifted(recent, recent', [id |-> nextId, uid |-> u], k)
<1> DEFINE e == [id |-> nextId, uid |-> u]
           new == recent'
<1>0. recent \in Seq(Entry) /\ nextId \in Nat \ {0} /\ Len(recent) \in Nat
  BY DEF LogTypeOK
<1>1. e \in Entry /\ new = Push(recent, e) /\ nextId' = nextId + 1
  BY <1>0 DEF Entry, Record
<1>2. PICK k \in {0, 1} : Shifted(recent, new, e, k)
  BY <1>0, <1>1, PushResult DEF WindowIsContiguous
<1>3. /\ new \in Seq(Entry) /\ Len(new) \in Nat
      /\ Len(new) = Len(recent) + 1 - k /\ Len(new) <= Window
      /\ new[Len(new)] = e
      /\ \A i \in 1 .. Len(new) - 1 : i + k \in 1 .. Len(recent) /\ new[i] = recent[i + k]
  BY <1>0, <1>2 DEF Shifted
<1>4. LogTypeOK'  BY <1>0, <1>1, <1>3 DEF LogTypeOK
<1>5. ASSUME NEW i \in 1 .. Len(new)
      PROVE  new[i].id + Len(new) = nextId' + i - 1
  <2>1. CASE i = Len(new)
    <3>1. new[i].id = nextId  BY <2>1, <1>3
    <3> QED  BY <3>1, <2>1, <1>0, <1>1, <1>3
  <2>2. CASE i # Len(new)
    <3>1. i + k \in 1 .. Len(recent) /\ new[i].id = recent[i + k].id
      <4>1. i \in 1 .. Len(new) - 1  BY <2>2, <1>3
      <4> QED  BY <4>1, <1>3
    <3>2. recent[i + k].id \in Nat
      <4>1. recent[i + k] \in Entry  BY <3>1, <1>0
      <4> QED  BY <4>1 DEF Entry
    <3>3. recent[i + k].id + Len(recent) = nextId + (i + k) - 1
      BY <3>1, <1>0 DEF WindowIsContiguous
    <3>4. i \in Nat /\ k \in Nat /\ Len(new) = Len(recent) + 1 - k
      BY <1>3
    <3>5. recent[i + k].id + Len(new) = nextId + 1 + i - 1
      <4> DEFINE x == recent[i + k].id
      <4>1. x \in Nat /\ x + Len(recent) = nextId + (i + k) - 1  BY <3>2, <3>3
      <4> HIDE DEF x
      <4>2. x + (Len(recent) + 1 - k) = nextId + 1 + i - 1
        <5> DEFINE n == Len(recent)  m == nextId
        <5>1. n \in Nat /\ m \in Nat /\ x + n = m + (i + k) - 1  BY <4>1, <1>0
        <5> HIDE DEF n, m
        <5>2. x + (n + 1 - k) = m + 1 + i - 1  BY <5>1, <4>1, <3>4
        <5> QED  BY <5>2 DEF n, m
      <4> QED  BY <4>2, <3>4 DEF x
    <3> QED  BY <3>1, <3>5, <1>1
  <2> QED  BY <2>1, <2>2
<1>6. WindowIsContiguous'
  BY <1>3, <1>5 DEF WindowIsContiguous
<1> QED  BY <1>1, <1>2, <1>4, <1>6

(* Recording an event that is not in the window preserves the invariant. *)
LEMMA RecordKeepsInv ==
  ASSUME LogInv, NEW u \in Uid, ~InWindow(u), Record(u)
  PROVE  LogInv'
<1> DEFINE e == [id |-> nextId, uid |-> u]
           new == recent'
<1>0. recent \in Seq(Entry) /\ nextId \in Nat \ {0} /\ Len(recent) \in Nat
  BY DEF LogInv, LogTypeOK
<1>1. LogTypeOK' /\ WindowIsContiguous' /\ nextId' = nextId + 1
  BY RecordResult DEF LogInv
<1>2. PICK k \in {0, 1} : Shifted(recent, new, e, k)
  BY RecordResult DEF LogInv
<1>3. /\ new \in Seq(Entry) /\ Len(new) \in Nat
      /\ Len(new) = Len(recent) + 1 - k /\ Len(new) <= Window
      /\ new[Len(new)] = e
      /\ \A i \in 1 .. Len(new) - 1 : i + k \in 1 .. Len(recent) /\ new[i] = recent[i + k]
  BY <1>0, <1>2 DEF Shifted
<1>7. ASSUME NEW i \in 1 .. Len(new) - 1
      PROVE  new[i].uid = recent[i + k].uid /\ new[i].uid # u
  <2>1. i + k \in 1 .. Len(recent) /\ new[i] = recent[i + k]  BY <1>3
  <2> QED  BY <2>1, <1>0 DEF InWindow
<1>8. ASSUME NEW i \in 1 .. Len(new), NEW j \in 1 .. Len(new), new[i].uid = new[j].uid
      PROVE  i = j
  <2>1. CASE i # Len(new) /\ j # Len(new)
    <3>1. i \in 1 .. Len(new) - 1 /\ j \in 1 .. Len(new) - 1  BY <2>1, <1>3
    <3>2. recent[i + k].uid = recent[j + k].uid  BY <3>1, <1>7, <1>8
    <3>3. i + k \in 1 .. Len(recent) /\ j + k \in 1 .. Len(recent)  BY <3>1, <1>3
    <3>4. i + k = j + k
      BY <3>2, <3>3, <1>0 DEF LogInv, WindowHasNoDuplicates
    <3> QED  BY <3>4
  <2>2. CASE i = Len(new) /\ j # Len(new)
    <3>1. j \in 1 .. Len(new) - 1 /\ new[i].uid = u  BY <2>2, <1>3
    <3> QED  BY <3>1, <1>7, <1>8
  <2>3. CASE i # Len(new) /\ j = Len(new)
    <3>1. i \in 1 .. Len(new) - 1 /\ new[j].uid = u  BY <2>3, <1>3
    <3> QED  BY <3>1, <1>7, <1>8
  <2> QED  BY <2>1, <2>2, <2>3
<1>9. WindowHasNoDuplicates'
  <2>1. DOMAIN new = 1 .. Len(new)  BY <1>3
  <2>2. \A i, j \in DOMAIN new : new[i].uid = new[j].uid => i = j  BY <2>1, <1>8
  <2> QED  BY <2>2 DEF WindowHasNoDuplicates
<1> QED  BY <1>1, <1>9 DEF LogInv

(* So does a step that leaves the log alone. *)
LEMMA LogStutterInv == LogInv /\ UNCHANGED logVars => LogInv'
BY DEF LogInv, LogTypeOK, WindowIsContiguous, WindowHasNoDuplicates, logVars

(* The inductive invariant of the log holds always. *)
LEMMA LogAlwaysInv == LogSpec => []LogInv
<1>1. LogInv /\ [LogNext]_logVars => LogInv'
  BY RecordKeepsInv, LogStutterInv DEF LogNext
<1> QED  BY <1>1, LogInitInv, PTL DEF LogSpec

(* No event number is missing from the window and none is out of place:     *)
(* recent_events_since may compute with the first and the last number.      *)
THEOREM WindowStaysContiguous == LogSpec => []WindowIsContiguous
BY LogAlwaysInv, PTL DEF LogInv

(* An event that comes back through Redis while it is in the window gets no *)
(* second entry: dashboard pages see it once.                               *)
THEOREM NoDuplicateInWindow == LogSpec => []WindowHasNoDuplicates
BY LogAlwaysInv, PTL DEF LogInv

----------------------------------------------------------------------------
(* What recent_events_since answers.                                        *)

(* The window ends just before the next number, and is as long as its first  *)
(* and last entries say.                                                    *)
LEMMA EndsOfWindow ==
  ASSUME LogTypeOK, WindowIsContiguous, recent # << >>
  PROVE  /\ Len(recent) \in Nat \ {0} /\ DOMAIN recent = 1 .. Len(recent)
         /\ Floor \in Nat \ {0} /\ Ceiling \in Nat
         /\ Floor + Len(recent) = nextId /\ Ceiling + 1 = nextId
         /\ \A i \in 1 .. Len(recent) : recent[i].id = Floor + i - 1
<1>1. /\ Len(recent) \in Nat \ {0} /\ nextId \in Nat /\ DOMAIN recent = 1 .. Len(recent)
      /\ \A i \in 1 .. Len(recent) : recent[i] \in Entry
  BY DEF LogTypeOK
<1>2. \A i \in 1 .. Len(recent) :
        recent[i].id \in Nat \ {0} /\ recent[i].id + Len(recent) = nextId + i - 1
  BY <1>1 DEF WindowIsContiguous, Entry
<1>3. 1 \in 1 .. Len(recent) /\ Len(recent) \in 1 .. Len(recent)  BY <1>1
<1>4. Floor \in Nat \ {0} /\ Floor + Len(recent) = nextId  BY <1>1, <1>2, <1>3 DEF Floor
<1>5. Ceiling \in Nat /\ Ceiling + 1 = nextId  BY <1>1, <1>2, <1>3 DEF Ceiling
<1>6. \A i \in 1 .. Len(recent) : recent[i].id = Floor + i - 1  BY <1>1, <1>2, <1>4
<1> QED  BY <1>1, <1>4, <1>5, <1>6

LEMMA EffectiveResult ==
  ASSUME LogTypeOK, WindowIsContiguous, recent # << >>, NEW from \in Nat
  PROVE  /\ Effective(from) \in Nat
         /\ Floor <= Effective(from) + 1 /\ Effective(from) <= Ceiling
         /\ from <= Ceiling => from <= Effective(from)
         /\ from >= Floor - 1 /\ from <= Ceiling => Effective(from) = from
BY EndsOfWindow DEF Effective, LogTypeOK

(* The entries that are newer than a cursor are those from a place on. *)
LEMMA NewerIsSuffix ==
  ASSUME LogTypeOK, WindowIsContiguous, recent # << >>, NEW from \in Nat
  PROVE  LET m == Effective(from) - Floor + 1 IN
         /\ m \in 0 .. Len(recent) /\ Len(recent) - m = Ceiling - Effective(from)
         /\ Newer(from) = m + 1 .. Len(recent)
<1> DEFINE m == Effective(from) - Floor + 1  eff == Effective(from)
<1>1. /\ Len(recent) \in Nat \ {0} /\ DOMAIN recent = 1 .. Len(recent)
      /\ Floor \in Nat \ {0} /\ Ceiling \in Nat
      /\ Floor + Len(recent) = nextId /\ Ceiling + 1 = nextId /\ nextId \in Nat
      /\ \A i \in 1 .. Len(recent) : recent[i].id = Floor + i - 1
  BY EndsOfWindow DEF LogTypeOK
<1>2. eff \in Nat /\ Floor <= eff + 1 /\ eff <= Ceiling  BY EffectiveResult
<1>3. m \in 0 .. Len(recent) /\ Len(recent) - m = Ceiling - eff
  BY SMTT(30), <1>1, <1>2
<1>4. ASSUME NEW i \in 1 .. Len(recent) PROVE recent[i].id > eff <=> i \in m + 1 .. Len(recent)
  <2>1. recent[i].id = Floor + i - 1 /\ Floor \in Nat /\ eff \in Nat /\ Len(recent) \in Nat
    BY <1>1, <1>2
  <2>2. PICK id, first, passed, len \in Int :
          recent[i].id = id /\ Floor = first /\ eff = passed /\ Len(recent) = len
    BY <2>1
  <2>3. id = first + i - 1 /\ i \in 1 .. len /\ m = passed - first + 1  BY <2>1, <2>2
  <2> HIDE DEF m, eff
  <2>4. id > passed <=> i \in m + 1 .. len  BY <2>3
  <2> QED  BY <2>2, <2>4
<1>5. Newer(from) = {i \in 1 .. Len(recent) : recent[i].id > eff}  BY <1>1 DEF Newer
<1>6. m + 1 .. Len(recent) \subseteq 1 .. Len(recent)  BY <1>3
<1> HIDE DEF m, eff
<1>7. Newer(from) = m + 1 .. Len(recent)  BY <1>4, <1>5, <1>6
<1> QED  BY <1>3, <1>7 DEF m, eff

(* However far behind or ahead a cursor is: what is sent are the entries that *)
(* follow the effective cursor, without a gap, and the next cursor is the     *)
(* number of the last of them.                                              *)
LEMMA SinceResult ==
  ASSUME LogTypeOK, WindowIsContiguous, recent # << >>,
         NEW from \in Nat, NEW limit \in Nat \ {0}
  PROVE  LET batch == Since(from, limit)  eff == Effective(from)  n == Len(batch.events) IN
         /\ batch = [events |-> batch.events, cursor |-> batch.cursor]
         /\ batch.events \in Seq(Entry) /\ n \in Nat
         /\ batch.cursor = eff + n /\ batch.cursor <= Ceiling
         /\ n = 0 <=> eff = Ceiling
         /\ \A k \in 1 .. n : batch.events[k].id = eff + k
<1> DEFINE eff == Effective(from)  m == eff - Floor + 1  L == Len(recent)
           N == Newer(from)  many == Cardinality(N)
           place(k) == CHOOSE i \in N : Cardinality({j \in N : j <= i}) = k
           n == IF many > limit THEN limit ELSE many
           p == Pending(from, limit)
<1>1. /\ L \in Nat \ {0} /\ Floor \in Nat \ {0} /\ Ceiling \in Nat
      /\ \A i \in 1 .. L : recent[i].id = Floor + i - 1 /\ recent[i] \in Entry
  BY EndsOfWindow DEF LogTypeOK
<1>2. eff \in Nat /\ Floor <= eff + 1 /\ eff <= Ceiling  BY EffectiveResult
<1>3. m \in 0 .. L /\ L - m = Ceiling - eff /\ N = m + 1 .. L  BY NewerIsSuffix
<1>0. m \in Nat /\ L \in Nat /\ m <= L /\ Floor + m = eff + 1  BY <1>1, <1>2, <1>3
<1> HIDE DEF N, L, m
<1>4. many = L - m
  <2>1. m + 1 \in Int /\ L \in Int  BY <1>0
  <2>2. Cardinality(m + 1 .. L) = IF m + 1 > L THEN 0 ELSE L - (m + 1) + 1
    BY <2>1, FS_Interval
  <2> QED  BY <2>2, <1>0, <1>3
<1>5. ASSUME NEW k \in 1 .. many PROVE place(k) = m + k
  <2>1. ASSUME NEW i \in N PROVE Cardinality({j \in N : j <= i}) = i - m
    <3>0. m + 1 \in Int /\ i \in Int /\ m + 1 <= i /\ i <= L  BY <1>0, <1>3
    <3>1. {j \in N : j <= i} = m + 1 .. i  BY <3>0, <1>0, <1>3
    <3>2. Cardinality(m + 1 .. i) = IF m + 1 > i THEN 0 ELSE i - (m + 1) + 1
      BY <3>0, FS_Interval
    <3>3. Cardinality(m + 1 .. i) = i - m  BY <3>0, <3>2, <1>0
    <3> QED  BY <3>1, <3>3, Zenon
  <2>2. m + k \in N /\ (m + k) - m = k  BY <1>0, <1>3, <1>4
  <2>3. \A i \in N : i - m = k => i = m + k  BY <1>0, <1>3
  <2> QED  BY <2>1, <2>2, <2>3
<1>6. n \in 0 .. many /\ n \in Nat /\ (n = 0 <=> many = 0)  BY <1>0, <1>4
<1>7. p = [k \in 1 .. n |-> recent[place(k)]]  BY DEF Pending, N
<1> HIDE DEF place, n, many, p
<1>8. ASSUME NEW k \in 1 .. n
      PROVE  recent[place(k)] \in Entry /\ recent[place(k)].id = eff + k
  <2>1. place(k) = m + k /\ m + k \in 1 .. L  BY <1>0, <1>4, <1>5, <1>6
  <2>2. recent[m + k].id = Floor + (m + k) - 1 /\ recent[m + k] \in Entry  BY <1>1, <2>1
  <2>3. Floor + (m + k) - 1 = eff + k  BY <1>0, <1>1, <1>2, <1>6
  <2> QED  BY <2>1, <2>2, <2>3
<1>9. p \in Seq(Entry) /\ Len(p) = n /\ \A k \in 1 .. n : p[k].id = eff + k
  BY <1>6, <1>7, <1>8
<1>10. p = << >> <=> n = 0  BY <1>6, <1>9
<1>11. Since(from, limit) =
         [events |-> p, cursor |-> IF p = << >> THEN eff ELSE p[Len(p)].id]
  BY DEF Since, p
<1>12. (IF p = << >> THEN eff ELSE p[Len(p)].id) = eff + n
  <2>1. CASE n = 0  BY <2>1, <1>2, <1>10
  <2>2. CASE n # 0
    <3>1. n \in 1 .. n /\ p[Len(p)].id = eff + n  BY <2>2, <1>6, <1>9
    <3> QED  BY <2>2, <3>1, <1>10
  <2> QED  BY <2>1, <2>2
<1>13. Since(from, limit) = [events |-> p, cursor |-> eff + n]  BY <1>11, <1>12
<1>14. eff + n <= Ceiling /\ (n = 0 <=> eff = Ceiling)  BY <1>0, <1>1, <1>2, <1>3, <1>4, <1>6
<1> HIDE DEF eff
<1> QED  BY <1>6, <1>9, <1>13, <1>14 DEF eff

----------------------------------------------------------------------------

(* The bus starts type-correct. *)
LEMMA BusInitType == ASSUME BusInit PROVE BusTypeOK
<1>1. thread \in [Thread -> ThreadState]
  BY DEF BusInit, ThreadState, PublisherAt, ListenerAt
<1>2. ASSUME NEW t \in Thread PROVE ThreadOK(t)
  <2>1. /\ thread[t].at = IF t = Listener THEN "none" ELSE "idle"
        /\ thread[t].todo = << >>
    BY DEF BusInit
  <2> QED  BY <2>1 DEF ThreadOK, PublisherAt, ListenerAt
<1>3. stop \in BOOLEAN /\ closed \in BOOLEAN /\ listening \in BOOLEAN
  BY Zenon DEF BusInit
<1>4. subs \in Seq(Handler) /\ wire \in Seq(Uid) /\ recent \in Seq(Entry)
  BY DEF BusInit, LogInit
<1>5. backend \in {"memory", "redis"} /\ nextId \in Nat \ {0}
  BY DEF BusInit, LogInit
<1> QED  BY <1>1, <1>2, <1>3, <1>4, <1>5, Zenon DEF BusTypeOK

(* A step that sends thread t to a place and leaves its event and its       *)
(* handlers alone.                                                          *)
LEMMA GoToOK ==
  ASSUME BusTypeOK, NEW t \in Thread, NEW place, GoTo(t, place),
         place \in IF t = Listener THEN ListenerAt ELSE PublisherAt,
         place \in {"route", "send", "dispatch", "deliver"} => thread[t].uid \in Uid,
         thread[t].at # "deliver", place # "deliver"
  PROVE  thread' \in [Thread -> ThreadState] /\ \A s \in Thread : ThreadOK(s)'
<1>1. thread \in [Thread -> ThreadState] /\ \A s \in Thread : ThreadOK(s)
  BY DEF BusTypeOK
<1>2. thread' = [thread EXCEPT ![t] = [thread[t] EXCEPT !.at = place]]
  BY <1>1 DEF GoTo
<1>3. [thread[t] EXCEPT !.at = place] \in ThreadState
  BY <1>1 DEF ThreadState
<1>4. thread' \in [Thread -> ThreadState]
  BY <1>1, <1>2, <1>3
<1>5. ASSUME NEW s \in Thread PROVE ThreadOK(s)'
  <2>1. CASE s = t
    <3>1. thread'[s].at = place /\ thread'[s].uid = thread[t].uid
          /\ thread'[s].todo = thread[t].todo
      BY <2>1, <1>1, <1>2 DEF ThreadState
    <3>2. thread[t].todo = << >>  BY <1>1 DEF ThreadOK
    <3> QED  BY <2>1, <3>1, <3>2 DEF ThreadOK
  <2>2. CASE s # t
    <3>1. thread'[s] = thread[s]  BY <2>2, <1>1, <1>2
    <3> QED  BY <3>1, <1>1 DEF ThreadOK
  <2> QED  BY <2>1, <2>2
<1> QED  BY <1>4, <1>5

(* The same for a step that changes more of thread t's state.               *)
LEMMA ThreadBecomesOK ==
  ASSUME BusTypeOK, NEW t \in Thread, NEW r \in ThreadState,
         thread' = [thread EXCEPT ![t] = r],
         r.at \in IF t = Listener THEN ListenerAt ELSE PublisherAt,
         r.at \in {"route", "send", "dispatch", "deliver"} => r.uid \in Uid,
         (r.todo # << >>) <=> (r.at = "deliver")
  PROVE  thread' \in [Thread -> ThreadState] /\ \A s \in Thread : ThreadOK(s)'
<1>1. thread \in [Thread -> ThreadState] /\ \A s \in Thread : ThreadOK(s)
  BY DEF BusTypeOK
<1>2. thread' \in [Thread -> ThreadState]  BY <1>1
<1>3. ASSUME NEW s \in Thread PROVE ThreadOK(s)'
  <2>1. CASE s = t
    <3>1. thread'[s] = r  BY <2>1, <1>1
    <3> QED  BY <2>1, <3>1 DEF ThreadOK
  <2>2. CASE s # t
    <3>1. thread'[s] = thread[s]  BY <2>2, <1>1
    <3> QED  BY <3>1, <1>1 DEF ThreadOK
  <2> QED  BY <2>1, <2>2
<1> QED  BY <1>2, <1>3

(* What an append does to the log: nothing, or one new entry.               *)
LEMMA AppendIsLogStep ==
  ASSUME recent \in Seq(Entry), nextId \in Nat \ {0}, NEW u \in Uid, AppendEvent(u)
  PROVE  /\ [LogNext]_logVars
         /\ recent' \in Seq(Entry) /\ nextId' \in Nat \ {0}
<1>1. CASE InWindow(u)
  BY <1>1 DEF AppendEvent, logVars
<1>2. CASE ~InWindow(u)
  <2>1. Record(u)  BY <1>2 DEF AppendEvent
  <2>2. [id |-> nextId, uid |-> u] \in Entry  BY DEF Entry
  <2>3. recent' \in Seq(Entry)
    <3>1. CASE Len(recent) < Window
      BY <3>1, <2>1, <2>2 DEF Record, Push
    <3>2. CASE ~(Len(recent) < Window)
      <4>1. recent # << >>
        BY <3>2, WindowAssumption DEF WindowAssumption
      <4>2. Tail(recent) \in Seq(Entry)  BY <4>1
      <4> QED  BY <3>2, <4>2, <2>1, <2>2 DEF Record, Push
    <3> QED  BY <3>1, <3>2
  <2> QED  BY <2>1, <2>3, <1>2 DEF Record, LogNext
<1> QED  BY <1>1, <1>2

(* What every step must leave: the types, and a step of the log or none.    *)
Kept == BusTypeOK' /\ [LogNext]_logVars

(* subscribe, which may start the listener thread. *)
LEMMA SubscribeKeeps == ASSUME BusTypeOK, NEW h \in Handler, Subscribe(h) PROVE Kept
<1>1. Listener \in Thread  BY DEF Thread
<1>2. subs' \in Seq(Handler)  BY DEF Subscribe, BusTypeOK
<1>4. stop' \in BOOLEAN  BY Zenon DEF Subscribe, BusTypeOK
<1>3. thread' \in [Thread -> ThreadState] /\ \A s \in Thread : ThreadOK(s)'
  <2>1. CASE backend = "redis" /\ ~ListenerActive
    <3>1. GoTo(Listener, "starting")  BY <2>1 DEF Subscribe
    <3>2. ~closed  BY DEF Subscribe
    <3>3. thread[Listener].at # "deliver"  BY <2>1, <3>2 DEF ListenerActive
    <3> QED  BY <1>1, <3>1, <3>3, GoToOK DEF ListenerAt
  <2>2. CASE ~(backend = "redis" /\ ~ListenerActive)
    <3>1. thread' = thread  BY <2>2 DEF Subscribe
    <3>2. thread \in [Thread -> ThreadState] /\ \A s \in Thread : ThreadOK(s)
      BY DEF BusTypeOK
    <3> QED  BY <3>1, <3>2 DEF ThreadOK
  <2> QED  BY <2>1, <2>2
<1> QED  BY <1>2, <1>3, <1>4 DEF Subscribe, Kept, BusTypeOK, logVars

(* The first locked section of publish, which may log the event. *)
LEMMA PublishKeeps == ASSUME BusTypeOK, NEW p \in Publisher, Publish(p) PROVE Kept
<1> DEFINE u == <<p, count[p] + 1>>
           r == [thread[p] EXCEPT !.at = "route", !.uid = u]
<1>1. p \in Thread /\ p # Listener  BY BusAssumption DEF BusAssumption, Thread
<1>2. u \in Uid /\ thread[p].at = "idle"  BY DEF Publish
<1>3. thread[p] \in ThreadState /\ ThreadOK(p)  BY <1>1 DEF BusTypeOK
<1>4. thread' = [thread EXCEPT ![p].at = "route", ![p].uid = u]  BY DEF Publish
<1>5. thread' = [thread EXCEPT ![p] = r]
  BY <1>1, <1>4 DEF BusTypeOK, ThreadState
<1>6. r \in ThreadState /\ r.at = "route" /\ r.uid = u /\ r.todo = thread[p].todo
  BY <1>2, <1>3 DEF ThreadState, PublisherAt
<1>7. thread[p].todo = << >>  BY <1>2, <1>3 DEF ThreadOK
<1>8. thread' \in [Thread -> ThreadState] /\ \A s \in Thread : ThreadOK(s)'
  <2>1. (r.todo # << >>) <=> (r.at = "deliver")  BY <1>6, <1>7
  <2>2. r.at \in IF p = Listener THEN ListenerAt ELSE PublisherAt
    BY <1>1, <1>6 DEF PublisherAt
  <2> HIDE DEF r
  <2> QED  BY <1>1, <1>2, <1>5, <1>6, <2>1, <2>2, ThreadBecomesOK
<1>9. [LogNext]_logVars /\ recent' \in Seq(Entry) /\ nextId' \in Nat \ {0}
  <2>1. CASE backend # "redis" \/ ~ListenerActive
    <3>1. AppendEvent(u)  BY <2>1 DEF Publish
    <3> QED  BY <3>1, <1>2, AppendIsLogStep DEF BusTypeOK
  <2>2. CASE ~(backend # "redis" \/ ~ListenerActive)
    <3>1. UNCHANGED logVars  BY <2>2 DEF Publish, logVars
    <3> QED  BY <3>1 DEF BusTypeOK, logVars
  <2> QED  BY <2>1, <2>2
<1> QED  BY <1>8, <1>9 DEF Publish, Kept, BusTypeOK
(* The steps of one thread that only change where it is.                    *)
LEMMA RouteKeeps == ASSUME BusTypeOK, NEW p \in Publisher, Route(p) PROVE Kept
<1>1. p \in Thread /\ p # Listener  BY BusAssumption DEF BusAssumption, Thread
<1>2. ThreadOK(p) /\ thread[p].at = "route"  BY <1>1 DEF BusTypeOK, Route
<1>3. thread[p].uid \in Uid  BY <1>2 DEF ThreadOK
<1>4. thread' \in [Thread -> ThreadState] /\ \A s \in Thread : ThreadOK(s)'
  <2>1. CASE backend = "redis"
    <3>1. GoTo(p, "send")  BY <2>1 DEF Route
    <3> QED  BY <3>1, <1>1, <1>2, <1>3, GoToOK DEF PublisherAt
  <2>2. CASE backend # "redis"
    <3>1. GoTo(p, "dispatch")  BY <2>2 DEF Route
    <3> QED  BY <3>1, <1>1, <1>2, <1>3, GoToOK DEF PublisherAt
  <2> QED  BY <2>1, <2>2
<1> QED  BY <1>4 DEF Route, Kept, BusTypeOK, logVars

(* publish through Redis. *)
LEMMA SendKeeps == ASSUME BusTypeOK, NEW p \in Publisher, Send(p) PROVE Kept
<1>1. p \in Thread /\ p # Listener  BY BusAssumption DEF BusAssumption, Thread
<1>2. ThreadOK(p) /\ thread[p].at = "send" /\ GoTo(p, "idle")
  BY <1>1 DEF BusTypeOK, Send
<1>3. thread[p].uid \in Uid  BY <1>2 DEF ThreadOK
<1>4. thread' \in [Thread -> ThreadState] /\ \A s \in Thread : ThreadOK(s)'
  BY <1>1, <1>2, <1>3, GoToOK DEF PublisherAt
<1>5. wire' \in Seq(Uid)
  <2>1. wire' = wire \/ wire' = Append(wire, thread[p].uid)
    BY Zenon DEF Send, Relay
  <2>2. wire \in Seq(Uid)  BY DEF BusTypeOK
  <2>3. Append(wire, thread[p].uid) \in Seq(Uid)
    <3> DEFINE u == thread[p].uid
    <3>1. u \in Uid  BY <1>3
    <3> HIDE DEF u
    <3>2. Append(wire, u) \in Seq(Uid)  BY <2>2, <3>1
    <3> QED  BY <3>2 DEF u
  <2> QED  BY <2>1, <2>2, <2>3, Zenon
<1> QED  BY <1>4, <1>5 DEF Send, Kept, BusTypeOK, logVars

(* What the fallback to memory changes keeps its type. *)
LEMMA DegradeTypes ==
  ASSUME BusTypeOK, Degrade
  PROVE  backend' \in {"memory", "redis"} /\ stop' \in BOOLEAN
<1>1. backend' \in {"memory", "redis"}  BY DEF Degrade
<1>2. stop' \in BOOLEAN  BY Zenon DEF Degrade, BusTypeOK
<1> QED  BY <1>1, <1>2

(* publish when Redis raises. *)
LEMMA SendFailsKeeps == ASSUME BusTypeOK, NEW p \in Publisher, SendFails(p) PROVE Kept
<1>1. p \in Thread /\ p # Listener  BY BusAssumption DEF BusAssumption, Thread
<1>2. ThreadOK(p) /\ thread[p].at = "send" /\ GoTo(p, "dispatch")
  BY <1>1 DEF BusTypeOK, SendFails
<1>3. thread[p].uid \in Uid  BY <1>2 DEF ThreadOK
<1>4. thread' \in [Thread -> ThreadState] /\ \A s \in Thread : ThreadOK(s)'
  BY <1>1, <1>2, <1>3, GoToOK DEF PublisherAt
<1>5. wire' \in Seq(Uid)
  <2>1. wire' = wire \/ wire' = Append(wire, thread[p].uid)
    BY Zenon DEF SendFails, Relay
  <2>2. wire \in Seq(Uid)  BY DEF BusTypeOK
  <2>3. Append(wire, thread[p].uid) \in Seq(Uid)
    <3> DEFINE u == thread[p].uid
    <3>1. u \in Uid  BY <1>3
    <3> HIDE DEF u
    <3>2. Append(wire, u) \in Seq(Uid)  BY <2>2, <3>1
    <3> QED  BY <3>2 DEF u
  <2> QED  BY <2>1, <2>2, <2>3, Zenon
<1>6. backend' \in {"memory", "redis"} /\ stop' \in BOOLEAN
  BY DegradeTypes DEF SendFails
<1> QED  BY <1>4, <1>5, <1>6 DEF SendFails, Kept, BusTypeOK, logVars

(* Where a thread is once it has called its last handler.                   *)
LEMMA RestOK ==
  ASSUME NEW t \in Thread
  PROVE  /\ Rest(t) \in IF t = Listener THEN ListenerAt ELSE PublisherAt
         /\ Rest(t) \notin {"route", "send", "dispatch", "deliver"}
         /\ {"dispatch", "deliver"} \subseteq IF t = Listener THEN ListenerAt ELSE PublisherAt
         /\ Rest(t) \in PublisherAt \cup ListenerAt
         /\ "deliver" \in PublisherAt \cup ListenerAt
BY DEF Rest, ListenerAt, PublisherAt

(* Copying the handlers. *)
LEMMA DispatchKeeps == ASSUME BusTypeOK, NEW t \in Thread, Dispatch(t) PROVE Kept
<1> DEFINE at == IF subs = << >> THEN Rest(t) ELSE "deliver"
           r == [thread[t] EXCEPT !.todo = subs, !.at = at]
<1>1. thread[t] \in ThreadState /\ ThreadOK(t) /\ thread[t].at = "dispatch" /\ subs \in Seq(Handler)
  BY DEF BusTypeOK, Dispatch
<1>2. thread[t].uid \in Uid  BY <1>1 DEF ThreadOK
<1>3. /\ at \in IF t = Listener THEN ListenerAt ELSE PublisherAt
      /\ at \in PublisherAt \cup ListenerAt
      /\ (subs # << >>) <=> (at = "deliver")
  BY RestOK
<1>4. thread' = [thread EXCEPT ![t] = r]
  <2>1. thread' = [thread EXCEPT ![t].todo = subs, ![t].at = at]  BY DEF Dispatch
  <2> HIDE DEF at
  <2> QED  BY <2>1, <1>1 DEF BusTypeOK, ThreadState
<1> HIDE DEF at
<1>5. r \in ThreadState /\ r.at = at /\ r.uid = thread[t].uid /\ r.todo = subs
  BY <1>1, <1>3 DEF ThreadState
<1>6. thread' \in [Thread -> ThreadState] /\ \A s \in Thread : ThreadOK(s)'
  <2> HIDE DEF r
  <2>1. (r.todo # << >>) <=> (r.at = "deliver")  BY <1>3, <1>5
  <2>2. r.at \in IF t = Listener THEN ListenerAt ELSE PublisherAt  BY <1>3, <1>5
  <2> QED  BY <1>2, <1>4, <1>5, <2>1, <2>2, ThreadBecomesOK
<1> QED  BY <1>6 DEF Dispatch, Kept, BusTypeOK, logVars

(* Calling one handler. *)
LEMMA DeliverKeeps == ASSUME BusTypeOK, NEW t \in Thread, Deliver(t) PROVE Kept
<1> DEFINE todo == thread[t].todo
           at == IF Len(todo) = 1 THEN Rest(t) ELSE "deliver"
           r == [thread[t] EXCEPT !.todo = Tail(todo), !.at = at]
<1>1. thread[t] \in ThreadState /\ ThreadOK(t) /\ thread[t].at = "deliver"
  BY DEF BusTypeOK, Deliver
<1>2. thread[t].uid \in Uid /\ todo # << >> /\ todo \in Seq(Handler)
  BY <1>1 DEF ThreadOK, ThreadState
<1>3. /\ at \in IF t = Listener THEN ListenerAt ELSE PublisherAt
      /\ at \in PublisherAt \cup ListenerAt
      /\ (Len(todo) # 1) <=> (at = "deliver")
  BY RestOK
<1>4. Tail(todo) \in Seq(Handler) /\ ((Tail(todo) # << >>) <=> (Len(todo) # 1))
  <2>1. \A s \in Seq(Handler) : s # << >> =>
          Tail(s) \in Seq(Handler) /\ Len(Tail(s)) = Len(s) - 1 /\ Len(s) \in Nat
    OBVIOUS
  <2>2. \A s \in Seq(Handler) : (s = << >>) <=> (Len(s) = 0)
    OBVIOUS
  <2> HIDE DEF todo
  <2>3. /\ Tail(todo) \in Seq(Handler) /\ Len(Tail(todo)) = Len(todo) - 1 /\ Len(todo) \in Nat
        /\ (Tail(todo) = << >>) <=> (Len(Tail(todo)) = 0)
    BY <1>2, <2>1, <2>2
  <2> QED  BY <2>3
<1>5. thread' = [thread EXCEPT ![t] = r]
  <2>1. thread' = [thread EXCEPT ![t].todo = Tail(todo), ![t].at = at]  BY DEF Deliver
  <2> HIDE DEF at, todo
  <2> QED  BY <2>1, <1>1 DEF BusTypeOK, ThreadState
<1> HIDE DEF at, todo
<1>6. r \in ThreadState /\ r.at = at /\ r.uid = thread[t].uid /\ r.todo = Tail(todo)
  BY <1>1, <1>3, <1>4 DEF ThreadState
<1>7. thread' \in [Thread -> ThreadState] /\ \A s \in Thread : ThreadOK(s)'
  <2> HIDE DEF r
  <2>1. (r.todo # << >>) <=> (r.at = "deliver")  BY <1>3, <1>4, <1>6
  <2>2. r.at \in IF t = Listener THEN ListenerAt ELSE PublisherAt  BY <1>3, <1>6
  <2> QED  BY <1>2, <1>5, <1>6, <2>1, <2>2, ThreadBecomesOK
<1> QED  BY <1>7 DEF Deliver, Kept, BusTypeOK, logVars

(* The listener takes a message from Redis and logs it. *)
LEMMA ReceiveKeeps == ASSUME BusTypeOK, Receive PROVE Kept
<1> DEFINE r == [thread[Listener] EXCEPT !.at = "dispatch", !.uid = Head(wire)]
<1>1. Listener \in Thread  BY DEF Thread
<1>2. thread[Listener] \in ThreadState /\ ThreadOK(Listener) /\ thread[Listener].at = "waiting"
  BY <1>1 DEF BusTypeOK, Receive
<1>3. wire # << >> /\ Head(wire) \in Uid /\ wire' \in Seq(Uid)
  BY DEF BusTypeOK, Receive
<1>4. thread' = [thread EXCEPT ![Listener] = r]
  <2>1. thread' = [thread EXCEPT ![Listener].at = "dispatch", ![Listener].uid = Head(wire)]
    BY DEF Receive
  <2> QED  BY <2>1, <1>1, <1>2 DEF BusTypeOK, ThreadState
<1>5. r \in ThreadState /\ r.at = "dispatch" /\ r.uid = Head(wire) /\ r.todo = thread[Listener].todo
  BY <1>2, <1>3 DEF ThreadState, ListenerAt
<1>6. thread[Listener].todo = << >>  BY <1>2 DEF ThreadOK
<1>7. thread' \in [Thread -> ThreadState] /\ \A s \in Thread : ThreadOK(s)'
  <2> HIDE DEF r
  <2>1. (r.todo # << >>) <=> (r.at = "deliver")  BY <1>5, <1>6
  <2>2. r.at \in ListenerAt  BY <1>5 DEF ListenerAt
  <2> QED  BY <1>1, <1>3, <1>4, <1>5, <2>1, <2>2, ThreadBecomesOK
<1>8. [LogNext]_logVars /\ recent' \in Seq(Entry) /\ nextId' \in Nat \ {0}
  BY <1>3, AppendIsLogStep DEF Receive, BusTypeOK
<1> QED  BY <1>3, <1>7, <1>8 DEF Receive, Kept, BusTypeOK

(* The other moves of the listener thread. *)
LEMMA ListenerMovesKeep ==
  ASSUME BusTypeOK, PSubscribe \/ CheckStop \/ NoMessage \/ ListenFails
  PROVE  Kept
<1>1. Listener \in Thread  BY DEF Thread
<1>2. CASE PSubscribe
  <2>1. thread[Listener].at # "deliver" /\ GoTo(Listener, "check")  BY <1>2 DEF PSubscribe
  <2>2. thread' \in [Thread -> ThreadState] /\ \A s \in Thread : ThreadOK(s)'
    BY <2>1, <1>1, GoToOK DEF ListenerAt
  <2>3. listening' \in BOOLEAN  BY <1>2, Zenon DEF PSubscribe
  <2> QED  BY <1>2, <2>2, <2>3 DEF PSubscribe, Kept, BusTypeOK, logVars
<1>3. CASE CheckStop
  <2>1. thread[Listener].at # "deliver"  BY <1>3 DEF CheckStop
  <2>2. GoTo(Listener, "dead") \/ GoTo(Listener, "waiting")  BY <1>3, Zenon DEF CheckStop, GoTo
  <2>3. thread' \in [Thread -> ThreadState] /\ \A s \in Thread : ThreadOK(s)'
    BY <2>1, <2>2, <1>1, GoToOK DEF ListenerAt
  <2> QED  BY <1>3, <2>3 DEF CheckStop, Kept, BusTypeOK, logVars
<1>4. CASE NoMessage
  <2>1. thread[Listener].at # "deliver" /\ GoTo(Listener, "check")  BY <1>4 DEF NoMessage
  <2>2. thread' \in [Thread -> ThreadState] /\ \A s \in Thread : ThreadOK(s)'
    BY <2>1, <1>1, GoToOK DEF ListenerAt
  <2> QED  BY <1>4, <2>2 DEF NoMessage, Kept, BusTypeOK, logVars
<1>5. CASE ListenFails
  <2>1. thread[Listener].at # "deliver" /\ GoTo(Listener, "dead")  BY <1>5 DEF ListenFails
  <2>2. thread' \in [Thread -> ThreadState] /\ \A s \in Thread : ThreadOK(s)'
    BY <2>1, <1>1, GoToOK DEF ListenerAt
  <2>3. backend' \in {"memory", "redis"} /\ stop' \in BOOLEAN
    BY <1>5, DegradeTypes DEF ListenFails
  <2> QED  BY <1>5, <2>2, <2>3 DEF ListenFails, Kept, BusTypeOK, logVars
<1> QED  BY <1>2, <1>3, <1>4, <1>5

(* close. *)
LEMMA CloseKeeps == ASSUME BusTypeOK, Close PROVE Kept
<1>1. closed' \in BOOLEAN /\ stop' \in BOOLEAN  BY Zenon DEF Close
<1>2. thread' \in [Thread -> ThreadState] /\ \A s \in Thread : ThreadOK(s)'
  <2>1. thread' = thread  BY DEF Close
  <2>2. thread \in [Thread -> ThreadState] /\ \A s \in Thread : ThreadOK(s)  BY DEF BusTypeOK
  <2> QED  BY <2>1, <2>2 DEF ThreadOK
<1> QED  BY <1>1, <1>2 DEF Close, Kept, BusTypeOK, logVars

(* Every step of the bus keeps its types and is a step of the log. *)
LEMMA BusStepKeeps == ASSUME BusTypeOK, [BusNext]_busVars PROVE Kept
<1>1. CASE \E h \in Handler : Subscribe(h)
  BY <1>1, SubscribeKeeps
<1>2. ASSUME NEW p \in Publisher, PublisherStep(p) PROVE Kept
  <2>1. p \in Thread  BY DEF Thread
  <2> QED  BY <1>2, <2>1, PublishKeeps, RouteKeeps, SendKeeps, SendFailsKeeps, DispatchKeeps,
              DeliverKeeps DEF PublisherStep
<1>3. CASE ListenerStep
  <2>1. Listener \in Thread  BY DEF Thread
  <2> QED  BY <1>3, <2>1, ListenerMovesKeep, ReceiveKeeps, DispatchKeeps, DeliverKeeps
           DEF ListenerStep
<1>4. CASE Close
  BY <1>4, CloseKeeps
<1>5. CASE UNCHANGED busVars
  <2>1. thread' \in [Thread -> ThreadState] /\ \A s \in Thread : ThreadOK(s)'
    <3>1. thread' = thread  BY <1>5 DEF busVars
    <3>2. thread \in [Thread -> ThreadState] /\ \A s \in Thread : ThreadOK(s)  BY DEF BusTypeOK
    <3> QED  BY <3>1, <3>2 DEF ThreadOK
  <2> QED  BY <1>5, <2>1 DEF busVars, Kept, BusTypeOK, logVars
<1> QED  BY <1>1, <1>2, <1>3, <1>4, <1>5 DEF BusNext

(* Every reachable state of the bus has the declared types, and a thread    *)
(* under way has an event of its own.                                       *)
THEOREM BusTypeCorrect == BusSpec => []BusTypeOK
<1>1. BusTypeOK /\ [BusNext]_busVars => BusTypeOK'  BY BusStepKeeps DEF Kept
<1> QED  BY <1>1, BusInitType, PTL DEF BusSpec

(* However publishers, listener, Redis and the fallback interleave, what    *)
(* they do to the window of recent events is what EventLog allows.          *)
THEOREM BusImplementsLog == BusSpec => LogSpec
<1>1. BusTypeOK /\ [BusNext]_busVars => [LogNext]_logVars  BY BusStepKeeps DEF Kept
<1>2. BusInit => LogInit  BY DEF BusInit
<1> QED  BY <1>1, <1>2, BusTypeCorrect, PTL DEF BusSpec, LogSpec

(* The bus's window never holds an event twice and skips no number.         *)
THEOREM BusWindowSound == BusSpec => [](WindowHasNoDuplicates /\ WindowIsContiguous)
BY BusImplementsLog, NoDuplicateInWindow, WindowStaysContiguous, PTL

----------------------------------------------------------------------------
(* An event that a publisher has published.                                 *)
Issued(u) ==
  /\ u \in Uid /\ u[1] \in Publisher /\ u[2] \in 1 .. count[u[1]]
  /\ u = <<u[1], u[2]>>

(* A publisher, and the listener, that have an event in hand.               *)
Holds(p) == thread[p].at \in {"route", "send", "dispatch", "deliver"}
Listens  == thread[Listener].at \in {"dispatch", "deliver"}

(* u was published before v, if one publisher published both.               *)
Before(u, v) == u[1] = v[1] => u[2] < v[2]

BusHistOK ==
  /\ count \in [Publisher -> Nat] /\ got \in [Handler -> Seq(Uid)]
  /\ logged \subseteq Uid /\ viaRedis \subseteq Uid /\ relayed \subseteq Uid /\ doubtful \subseteq Uid

Once(s) == \A i, j \in DOMAIN s : s[i] = s[j] => i = j

(* Who has which event in hand.                                             *)
InHand ==
  /\ \A p \in Publisher : Holds(p) => count[p] > 0 /\ thread[p].uid = <<p, count[p]>>
  /\ \A p \in Publisher : thread[p].at \in {"route", "send"} => thread[p].uid \in logged \cup viaRedis
  /\ \A t \in Thread : thread[t].at \in {"dispatch", "deliver"} =>
       thread[t].uid \in logged \/ (thread[t].uid \in viaRedis /\ backend = "memory")
  /\ Once(subs) /\ \A t \in Thread : Once(thread[t].todo)
  /\ Listens => thread[Listener].uid \in relayed

(* What travels through Redis does so once and in order.                    *)
InTransit ==
  /\ \A u \in relayed : Issued(u)
  /\ \A i \in DOMAIN wire : wire[i] \in relayed
  /\ \A i, j \in DOMAIN wire : i < j => Before(wire[i], wire[j])
  /\ Listens => \A i \in DOMAIN wire : Before(thread[Listener].uid, wire[i])
  /\ backend = "redis" => \A p \in Publisher : thread[p].at \notin {"dispatch", "deliver"}
  /\ \A p \in Publisher : thread[p].at \in {"route", "send"} => thread[p].uid \notin relayed
  /\ \A p \in Publisher : thread[p].at \in {"dispatch", "deliver"} /\ thread[p].uid \in relayed =>
       thread[p].uid \in doubtful
  /\ \A h \in Handler : \A i \in DOMAIN got[h] : Issued(got[h][i])

(* What handler h was called with, and what it still may be called with.    *)
Called(h) == SetOf(got[h])

Uncalled ==
  \A h \in Handler :
    /\ \A p \in Publisher : thread[p].at \in {"route", "send"} => thread[p].uid \notin Called(h)
    /\ \A i \in DOMAIN wire : wire[i] \in Called(h) => wire[i] \in doubtful
    /\ \A t \in Thread :
         /\ thread[t].at = "dispatch" /\ thread[t].uid \in Called(h) => thread[t].uid \in doubtful
         /\ thread[t].at = "deliver" /\ h \in SetOf(thread[t].todo) /\ thread[t].uid \in Called(h)
              => thread[t].uid \in doubtful
    /\ backend = "redis" => \A g \in Called(h) :
         /\ \A i \in DOMAIN wire : Before(g, wire[i])
         /\ Listens /\ g[1] = thread[Listener].uid[1] => g[2] <= thread[Listener].uid[2]


(* What handlers were called with, once and in order, and what was logged.  *)
DeliveredRight == AtMostOnce /\ InPublishOrder /\ DeliveredIsLogged

BusRest == BusHistOK /\ InHand /\ InTransit /\ Uncalled /\ DeliveredRight

(* The inductive invariant of the bus.                                      *)
BusInv == BusTypeOK /\ BusRest

(* Publishers and the listener are threads, and apart.                      *)
LEMMA PublisherIsThread ==
  ASSUME NEW p \in Publisher PROVE p \in Thread /\ p # Listener
BY BusAssumption DEF BusAssumption, Thread

(* The listener is a thread. *)
LEMMA ListenerIsThread == Listener \in Thread
BY DEF Thread

(* The steps after which the threads that moved have nothing in hand.       *)
LEMMA RestingStep ==
  ASSUME BusInv, BusTypeOK',
         UNCHANGED <<count, got, logged, viaRedis, relayed, doubtful>>,
         wire' = wire, Once(subs'),
         backend' = backend \/ backend' = "memory",
         \A t \in Thread :
           \/ thread'[t] = thread[t]
           \/ /\ thread'[t].at \notin {"route", "send", "dispatch", "deliver"}
              /\ thread'[t].todo = << >>
  PROVE  BusRest'
<1> USE DEF BusInv, BusRest
<1>1. BusHistOK'  BY DEF BusHistOK
<1>2. InHand'
  <2>1. \A t \in Thread : Once(thread'[t].todo)  BY DEF InHand, Once
  <2> QED  BY <2>1, PublisherIsThread, ListenerIsThread DEF InHand, Holds, Listens
<1>3. InTransit'
  BY PublisherIsThread, ListenerIsThread DEF InTransit, Listens, Issued, Before
<1>4. Uncalled'
  BY PublisherIsThread, ListenerIsThread DEF Uncalled, Listens, Before, Called, SetOf
<1>5. DeliveredRight'
  BY DEF DeliveredRight, AtMostOnce, InPublishOrder, DeliveredIsLogged
<1> QED  BY <1>1, <1>2, <1>3, <1>4, <1>5

(* Subscribing, closing and what the listener does without a message.       *)
LEMMA RestingSteps ==
  ASSUME BusInv, BusTypeOK',
         \/ \E h \in Handler : Subscribe(h)
         \/ PSubscribe \/ CheckStop \/ NoMessage \/ ListenFails \/ Close
         \/ \E t \in Thread : Dispatch(t) /\ subs = << >>
         \/ UNCHANGED busVars
  PROVE  BusRest'
<1>1. thread \in [Thread -> ThreadState] /\ thread' \in [Thread -> ThreadState]
      /\ \A t \in Thread : ThreadOK(t) /\ ThreadOK(t)'
  BY DEF BusTypeOK, BusInv
<1>2. UNCHANGED <<count, got, logged, viaRedis, relayed, doubtful>> /\ wire' = wire
  BY DEF Subscribe, PSubscribe, CheckStop, NoMessage, ListenFails, Close, Dispatch, busVars, hist
<1>3. backend' = backend \/ backend' = "memory"
  BY DEF Subscribe, PSubscribe, CheckStop, NoMessage, ListenFails, Close, Dispatch, busVars, Degrade
<1>4. Once(subs')
  <2>1. CASE \E h \in Handler : Subscribe(h)
    <3>1. PICK h \in Handler : Subscribe(h)  BY <2>1
    <3>2. subs' = Append(subs, h) /\ h \notin SetOf(subs) /\ subs \in Seq(Handler) /\ Once(subs)
      BY <3>1 DEF Subscribe, BusInv, BusRest, BusTypeOK, InHand
    <3> QED  BY <3>2 DEF Once, SetOf
  <2>2. CASE ~\E h \in Handler : Subscribe(h)
    <3>1. subs' = subs
      BY <2>2 DEF PSubscribe, CheckStop, NoMessage, ListenFails, Close, Dispatch, busVars
    <3>2. Once(subs)  BY DEF BusInv, BusRest, InHand
    <3> QED  BY <3>1, <3>2
  <2> QED  BY <2>1, <2>2
<1>5. ASSUME NEW t \in Thread
      PROVE  \/ thread'[t] = thread[t]
             \/ /\ thread'[t].at \notin {"route", "send", "dispatch", "deliver"}
                /\ thread'[t].todo = << >>
  <2>1. \/ thread' = thread
        \/ \E p \in {"starting", "check", "dead", "waiting"} :
             thread' = [thread EXCEPT ![Listener].at = p]
        \/ \E s \in Thread : thread' = [thread EXCEPT ![s].todo = << >>, ![s].at = Rest(s)]
    <3>1. CASE \E h \in Handler : Subscribe(h)  BY <3>1 DEF Subscribe, GoTo
    <3>2. CASE PSubscribe  BY <3>2 DEF PSubscribe, GoTo
    <3>3. CASE CheckStop  BY <3>3 DEF CheckStop, GoTo
    <3>4. CASE NoMessage  BY <3>4 DEF NoMessage, GoTo
    <3>5. CASE ListenFails  BY <3>5 DEF ListenFails, GoTo
    <3>6. CASE Close  BY <3>6 DEF Close
    <3>7. CASE UNCHANGED busVars  BY <3>7 DEF busVars
    <3>8. ASSUME NEW s \in Thread, Dispatch(s), subs = << >>
          PROVE  thread' = [thread EXCEPT ![s].todo = << >>, ![s].at = Rest(s)]
      BY <3>8 DEF Dispatch
    <3> QED  BY <3>1, <3>2, <3>3, <3>4, <3>5, <3>6, <3>7, <3>8
  <2>2. \A s \in Thread : Rest(s) \notin {"route", "send", "dispatch", "deliver"}
    BY RestOK
  <2>3. thread'[t] = thread[t] \/ thread'[t].at \notin {"route", "send", "dispatch", "deliver"}
    BY <1>1, <2>1, <2>2, ListenerIsThread DEF ThreadState
  <2> QED  BY <1>1, <2>3 DEF ThreadOK
<1> QED  BY <1>2, <1>3, <1>4, <1>5, RestingStep

(* What a step changes in the state of one thread.                          *)
LEMMA ThreadMoves ==
  ASSUME BusTypeOK, NEW t \in Thread, NEW place, NEW uid, NEW todo,
         thread' = [thread EXCEPT ![t] = [at |-> place, uid |-> uid, todo |-> todo]]
  PROVE  /\ thread'[t] = [at |-> place, uid |-> uid, todo |-> todo]
         /\ \A s \in Thread : s # t => thread'[s] = thread[s]
BY DEF BusTypeOK

(* publish, up to the log. *)
LEMMA PublishRest ==
  ASSUME BusInv, BusTypeOK', NEW p \in Publisher, Publish(p) PROVE BusRest'
<1> USE DEF BusInv, BusRest
<1> DEFINE u == <<p, count[p] + 1>>
<1>1. p \in Thread /\ p # Listener  BY PublisherIsThread
<1>2. /\ u \in Uid /\ thread[p].at = "idle" /\ u[1] = p /\ u[2] = count[p] + 1
      /\ count' = [count EXCEPT ![p] = @ + 1]
      /\ UNCHANGED <<got, relayed, doubtful, wire, backend, subs>>
  BY DEF Publish
<1>3. /\ thread'[p].at = "route" /\ thread'[p].uid = u /\ thread'[p].todo = thread[p].todo
      /\ \A s \in Thread : s # p => thread'[s] = thread[s]
  BY <1>1 DEF Publish, BusTypeOK, ThreadState
<1>4. /\ u \in logged' \cup viaRedis' /\ logged \subseteq logged' /\ viaRedis \subseteq viaRedis'
      /\ logged' \subseteq Uid /\ viaRedis' \subseteq Uid
  BY ZenonT(30), <1>2 DEF Publish, AppendEvent, BusHistOK
<1>5. count[p] \in Nat /\ count' \in [Publisher -> Nat] /\ count'[p] = count[p] + 1
      /\ \A q \in Publisher : q # p => count'[q] = count[q]
  BY <1>2 DEF BusHistOK
<1>6. \A v : Issued(v) => Issued(v)' /\ v # u
  BY <1>2, <1>5 DEF Issued, BusHistOK
<1> HIDE DEF u
<1>7. BusHistOK'  BY <1>2, <1>4, <1>5 DEF BusHistOK
<1>8. InHand'
  <2>1. \A q \in Publisher : Holds(q)' => count'[q] > 0 /\ thread'[q].uid = <<q, count'[q]>>
    <3>1. u = <<p, count'[p]>>  BY <1>5 DEF u
    <3>2. \A q \in Publisher : q # p => thread'[q] = thread[q] /\ count'[q] = count[q]
      BY <1>3, <1>5, PublisherIsThread
    <3> QED  BY <1>3, <1>5, <3>1, <3>2 DEF InHand, Holds
  <2>2. \A t \in Thread : Once(thread'[t].todo)  BY <1>3 DEF InHand
  <2>3. \A t \in Thread : thread'[t].at \in {"dispatch", "deliver"} => thread'[t] = thread[t]
    BY <1>3
  <2>4. Once(subs')  BY <1>2 DEF InHand, Once
  <2> QED  BY <1>1, <1>2, <1>3, <1>4, <2>1, <2>2, <2>3, <2>4, PublisherIsThread, ListenerIsThread
           DEF InHand, Listens
<1>9. InTransit'
  <2>1. u \notin relayed  BY <1>6 DEF InTransit
  <2>2. \A v : Issued(v) => Issued(v)'  BY <1>6
  <2> QED  BY <1>1, <1>2, <1>3, <2>1, <2>2, PublisherIsThread, ListenerIsThread
           DEF InTransit, Listens, Before
<1>10. Uncalled'
  <2>1. \A h \in Handler : u \notin Called(h)  BY <1>6 DEF InTransit, Called, SetOf
  <2>2. \A h \in Handler : Called(h)' = Called(h)  BY <1>2 DEF Called, SetOf
  <2> QED  BY <1>1, <1>2, <1>3, <2>1, <2>2, PublisherIsThread, ListenerIsThread
           DEF Uncalled, Listens, Before, SetOf
<1>11. DeliveredRight'
  BY <1>2, <1>4 DEF DeliveredRight, AtMostOnce, InPublishOrder, DeliveredIsLogged
<1> QED  BY <1>7, <1>8, <1>9, <1>10, <1>11

(* publish takes its way. *)
LEMMA RouteRest ==
  ASSUME BusInv, BusTypeOK', NEW p \in Publisher, Route(p) PROVE BusRest'
<1> USE DEF BusInv, BusRest
<1>1. p \in Thread /\ p # Listener  BY PublisherIsThread
<1>2. /\ thread[p].at = "route"
      /\ UNCHANGED <<got, relayed, doubtful, wire, backend, subs, count, logged, viaRedis>>
  BY DEF Route, hist
<1>3. /\ thread'[p].at = IF backend = "redis" THEN "send" ELSE "dispatch"
      /\ thread'[p].uid = thread[p].uid /\ thread'[p].todo = thread[p].todo
      /\ \A s \in Thread : s # p => thread'[s] = thread[s]
  BY <1>1 DEF Route, GoTo, BusTypeOK, ThreadState
<1>4. backend \in {"redis", "memory"}  BY DEF BusTypeOK
<1>7. BusHistOK'  BY <1>2 DEF BusHistOK
<1>8. InHand'
  <2>1. \A q \in Publisher : Holds(q)' => Holds(q) /\ thread'[q].uid = thread[q].uid
    BY <1>1, <1>2, <1>3, PublisherIsThread DEF Holds
  <2>2. \A t \in Thread : Once(thread'[t].todo)  BY <1>3 DEF InHand
  <2>3. Once(subs')  BY <1>2 DEF InHand, Once
  <2> QED  BY <1>1, <1>2, <1>3, <1>4, <2>1, <2>2, <2>3, PublisherIsThread, ListenerIsThread
           DEF InHand, Listens
<1>9. InTransit'
  BY <1>1, <1>2, <1>3, <1>4, PublisherIsThread, ListenerIsThread
     DEF InTransit, Listens, Before, Issued
<1>10. Uncalled'
  <2>2. \A h \in Handler : Called(h)' = Called(h)  BY <1>2 DEF Called, SetOf
  <2> QED  BY <1>1, <1>2, <1>3, <2>2, PublisherIsThread, ListenerIsThread
           DEF Uncalled, Listens, Before, SetOf
<1>11. DeliveredRight'
  BY <1>2 DEF DeliveredRight, AtMostOnce, InPublishOrder, DeliveredIsLogged
<1> QED  BY <1>7, <1>8, <1>9, <1>10, <1>11

(* An event on its way to Redis comes after whatever its publisher sent.    *)
LEMMA SentIsLatest ==
  ASSUME BusInv, NEW p \in Publisher, thread[p].at = "send"
  PROVE  /\ Issued(thread[p].uid) /\ thread[p].uid \notin relayed
         /\ \A h \in Handler : thread[p].uid \notin Called(h)
         /\ \A g : Issued(g) /\ g # thread[p].uid => Before(g, thread[p].uid)
<1> USE DEF BusInv, BusRest
<1>1. p \in Thread  BY PublisherIsThread
<1>2. thread[p].uid = <<p, count[p]>> /\ count[p] > 0 /\ count[p] \in Nat
  BY DEF InHand, Holds, BusHistOK
<1>3. thread[p].uid \in Uid  BY <1>1 DEF BusTypeOK, ThreadOK
<1>4. Issued(thread[p].uid)  BY <1>2, <1>3 DEF Issued
<1>5. thread[p].uid \notin relayed /\ \A h \in Handler : thread[p].uid \notin Called(h)
  BY DEF InTransit, Uncalled
<1>6. ASSUME NEW g, Issued(g), g # thread[p].uid PROVE Before(g, thread[p].uid)
  <2>1. CASE g[1] = p
    <3>1. g[2] \in 1 .. count[p] /\ g = <<p, g[2]>>  BY <1>6, <2>1 DEF Issued
    <3>2. g[2] # count[p]  BY <1>2, <1>6, <3>1
    <3>3. g[2] < count[p]  BY <1>2, <3>1, <3>2
    <3> QED  BY <1>2, <3>3 DEF Before
  <2>2. CASE g[1] # p
    BY <1>2, <2>2 DEF Before
  <2> QED  BY <2>1, <2>2
<1> QED  BY <1>4, <1>5, <1>6

(* The messages on the wire when one more may have been put there.          *)
LEMMA WireGrows ==
  ASSUME BusInv, NEW p \in Publisher, thread[p].at = "send",
         UNCHANGED <<wire, relayed>> \/ Relay(thread[p].uid)
  PROVE  /\ \A u \in relayed' : Issued(u)
         /\ relayed \subseteq relayed' /\ relayed' \subseteq relayed \cup {thread[p].uid}
         /\ \A i \in DOMAIN wire' : wire'[i] \in relayed'
         /\ \A i, j \in DOMAIN wire' : i < j => Before(wire'[i], wire'[j])
         /\ Listens => \A i \in DOMAIN wire' : Before(thread[Listener].uid, wire'[i])
         /\ \A h \in Handler :
              /\ \A i \in DOMAIN wire' : wire'[i] \in Called(h) => wire'[i] \in doubtful
              /\ backend = "redis" => \A g \in Called(h) : \A i \in DOMAIN wire' : Before(g, wire'[i])
<1> USE DEF BusInv, BusRest
<1> DEFINE v == thread[p].uid
<1>1. /\ Issued(v) /\ v \notin relayed /\ \A h \in Handler : v \notin Called(h)
      /\ \A g : Issued(g) /\ g # v => Before(g, v)
  BY SentIsLatest
<1>2. /\ \A u \in relayed : Issued(u) /\ Before(u, v)
      /\ \A h \in Handler : \A g \in Called(h) : Before(g, v)
  BY <1>1 DEF InTransit, Called, SetOf
<1>3. UNCHANGED <<wire, relayed>> \/ (wire' = Append(wire, v) /\ relayed' = relayed \cup {v})
  BY DEF Relay
<1>4. wire \in Seq(Uid) /\ v \in Uid  BY <1>1 DEF BusTypeOK, Issued
<1> HIDE DEF v
<1>5. /\ wire' \in Seq(Uid)
      /\ \A i \in DOMAIN wire' : (i \in DOMAIN wire /\ wire'[i] = wire[i]) \/ (wire'[i] = v /\ v \in relayed')
      /\ \A i, j \in DOMAIN wire' : i < j => i \in DOMAIN wire /\ wire'[i] = wire[i]
  BY <1>3, <1>4
<1>6. \A i, j \in DOMAIN wire' : i < j => Before(wire'[i], wire'[j])
  <2> SUFFICES ASSUME NEW i \in DOMAIN wire', NEW j \in DOMAIN wire', i < j
               PROVE  Before(wire'[i], wire'[j])
    OBVIOUS
  <2>1. i \in DOMAIN wire /\ wire'[i] = wire[i]  BY <1>5
  <2>2. wire[i] \in relayed  BY <2>1 DEF InTransit
  <2>3. CASE j \in DOMAIN wire /\ wire'[j] = wire[j]
    BY <2>1, <2>3 DEF InTransit
  <2>4. CASE wire'[j] = v
    BY <1>2, <2>1, <2>2, <2>4
  <2> QED  BY <1>5, <2>3, <2>4
<1>7. /\ \A u \in relayed' : Issued(u)
      /\ relayed \subseteq relayed' /\ relayed' \subseteq relayed \cup {v}
      /\ \A i \in DOMAIN wire' : wire'[i] \in relayed'
  BY <1>1, <1>2, <1>3, <1>5 DEF InTransit
<1>8. Listens => \A i \in DOMAIN wire' : Before(thread[Listener].uid, wire'[i])
  BY <1>2, <1>5 DEF InTransit, InHand
<1>9. ASSUME NEW h \in Handler
      PROVE  /\ \A i \in DOMAIN wire' : wire'[i] \in Called(h) => wire'[i] \in doubtful
             /\ backend = "redis" => \A g \in Called(h) : \A i \in DOMAIN wire' : Before(g, wire'[i])
  BY <1>1, <1>2, <1>5 DEF Uncalled
<1> QED  BY <1>6, <1>7, <1>8, <1>9 DEF v

(* publish through Redis, and what follows when that raises. *)
LEMMA SendRest ==
  ASSUME BusInv, BusTypeOK', NEW p \in Publisher, Send(p) \/ SendFails(p) PROVE BusRest'
<1> USE DEF BusInv, BusRest
<1> DEFINE v == thread[p].uid
<1>1. p \in Thread /\ p # Listener  BY PublisherIsThread
<1>2. /\ thread[p].at = "send"
      /\ UNCHANGED <<got, subs, count, logged, viaRedis>>
  BY DEF Send, SendFails
<1>3. UNCHANGED <<wire, relayed>> \/ Relay(v)  BY DEF Send, SendFails
<1>4. /\ thread'[p].at = IF Send(p) THEN "idle" ELSE "dispatch"
      /\ thread'[p].uid = v /\ thread'[p].todo = thread[p].todo
      /\ \A s \in Thread : s # p => thread'[s] = thread[s]
  <2>1. thread' = [thread EXCEPT ![p].at = IF Send(p) THEN "idle" ELSE "dispatch"]
    BY DEF Send, SendFails, GoTo
  <2> QED  BY <1>1, <2>1 DEF BusTypeOK, ThreadState
<1>5. /\ Send(p) => backend' = backend /\ doubtful' = doubtful
      /\ ~Send(p) => backend' = "memory" /\ doubtful \subseteq doubtful' /\ doubtful' \subseteq doubtful \cup {v}
                     /\ (v \in relayed' => v \in relayed \/ v \in doubtful')
  BY DEF Send, SendFails, Degrade, Relay
<1>6. /\ \A u \in relayed' : Issued(u)
      /\ relayed \subseteq relayed' /\ relayed' \subseteq relayed \cup {v}
      /\ \A i \in DOMAIN wire' : wire'[i] \in relayed'
      /\ \A i, j \in DOMAIN wire' : i < j => Before(wire'[i], wire'[j])
      /\ Listens => \A i \in DOMAIN wire' : Before(thread[Listener].uid, wire'[i])
      /\ \A h \in Handler :
           /\ \A i \in DOMAIN wire' : wire'[i] \in Called(h) => wire'[i] \in doubtful
           /\ backend = "redis" => \A g \in Called(h) : \A i \in DOMAIN wire' : Before(g, wire'[i])
  BY <1>2, <1>3, WireGrows
<1>7. /\ Issued(v) /\ v \notin relayed /\ \A h \in Handler : v \notin Called(h)
  BY <1>2, SentIsLatest
<1>8. doubtful \subseteq doubtful' /\ doubtful' \subseteq doubtful \cup {v}
      /\ backend' \in {backend, "memory"} /\ v \in Uid
  BY <1>5, <1>7 DEF Issued
<1>9. \A q \in Publisher : q # p => (thread[q].at \in {"route", "send", "dispatch", "deliver"} => thread[q].uid # v)
  <2>1. \A q \in Publisher : thread[q].at \in {"route", "send", "dispatch", "deliver"} =>
          thread[q].uid = <<q, count[q]>>
    BY DEF InHand, Holds
  <2> QED  BY <1>2, <2>1
<1>10. v \in logged \cup viaRedis  BY <1>2 DEF InHand
<1> HIDE DEF v
<1>11. BusHistOK'  BY <1>2, <1>6, <1>8 DEF BusHistOK
<1>12. InHand'
  <2>1. \A q \in Publisher : Holds(q)' => Holds(q) /\ thread'[q].uid = thread[q].uid
    BY <1>1, <1>2, <1>4, PublisherIsThread DEF Holds, v
  <2>2. \A t \in Thread : Once(thread'[t].todo)  BY <1>4 DEF InHand
  <2>3. Once(subs')  BY <1>2 DEF InHand, Once
  <2>4. ASSUME NEW t \in Thread, thread'[t].at \in {"dispatch", "deliver"}
        PROVE  thread'[t].uid \in logged \/ (thread'[t].uid \in viaRedis /\ backend' = "memory")
    BY <1>4, <1>5, <1>8, <1>10, <2>4 DEF InHand
  <2>5. \A q \in Publisher : thread'[q].at \in {"route", "send"} => thread'[q] = thread[q]
    BY <1>4, PublisherIsThread
  <2>6. Listens' => Listens /\ thread'[Listener].uid = thread[Listener].uid
    BY <1>1, <1>4, ListenerIsThread DEF Listens
  <2> QED  BY <1>2, <1>6, <2>1, <2>2, <2>3, <2>4, <2>5, <2>6 DEF InHand
<1>13. InTransit'
  <2>1. \A u : Issued(u)' <=> Issued(u)  BY <1>2 DEF Issued
  <2>2. Listens' => Listens /\ thread'[Listener].uid = thread[Listener].uid
    BY <1>1, <1>4, ListenerIsThread DEF Listens
  <2>3. \A q \in Publisher : thread'[q].at \in {"route", "send"} =>
          q # p /\ thread'[q] = thread[q] /\ thread'[q].uid # v
    BY <1>4, <1>9, PublisherIsThread
  <2>4. \A q \in Publisher : thread'[q].at \in {"route", "send"} => thread'[q].uid \notin relayed'
    BY <1>6, <2>3 DEF InTransit
  <2>5. ASSUME NEW q \in Publisher, thread'[q].at \in {"dispatch", "deliver"}
        PROVE  backend' # "redis" /\ (thread'[q].uid \in relayed' => thread'[q].uid \in doubtful')
    <3>1. CASE q = p
      BY <1>4, <1>5, <1>7, <2>5, <3>1
    <3>2. CASE q # p
      <4>1. thread'[q] = thread[q]  BY <3>2, <1>4, PublisherIsThread
      <4>2. thread[q].uid # v  BY <1>9, <3>2, <4>1, <2>5
      <4>3. thread[q].uid \in relayed => thread[q].uid \in doubtful  BY <4>1, <2>5 DEF InTransit
      <4>4. backend # "redis"  BY <4>1, <2>5 DEF InTransit
      <4> QED  BY <4>1, <4>2, <4>3, <4>4, <1>6, <1>8
    <3> QED  BY <3>1, <3>2
  <2>6. \A h \in Handler : \A i \in DOMAIN got'[h] : Issued(got'[h][i])  BY <1>2 DEF InTransit
  <2>7. Listens' => \A i \in DOMAIN wire' : Before(thread'[Listener].uid, wire'[i])
    BY <1>6, <2>2
  <2>8. \A i, j \in DOMAIN wire' : i < j => Before(wire'[i], wire'[j])  BY <1>6
  <2>9. \A i \in DOMAIN wire' : wire'[i] \in relayed'  BY <1>6
  <2>10. \A u \in relayed' : Issued(u)'  BY <1>6, <2>1
  <2>11. (\A h \in Handler : \A i \in DOMAIN got[h] : Issued(got[h][i]))'
    BY <1>2, <2>1, <2>6 DEF Issued
  <2> QED  BY <2>4, <2>5, <2>7, <2>8, <2>9, <2>10, <2>11 DEF InTransit, Before
<1>14. Uncalled'
  <2>1. \A h \in Handler : Called(h)' = Called(h)  BY <1>2 DEF Called, SetOf
  <2>2. Listens' => Listens /\ thread'[Listener].uid = thread[Listener].uid
    BY <1>1, <1>4, ListenerIsThread DEF Listens
  <2>3. backend' = "redis" => backend = "redis"  BY <1>8
  <2>4. ASSUME NEW h \in Handler, NEW t \in Thread
        PROVE /\ thread'[t].at = "dispatch" /\ thread'[t].uid \in Called(h) => thread'[t].uid \in doubtful'
              /\ thread'[t].at = "deliver" /\ h \in SetOf(thread'[t].todo) /\ thread'[t].uid \in Called(h)
                   => thread'[t].uid \in doubtful'
    <3>1. CASE t = p  BY <1>4, <1>7, <3>1
    <3>2. CASE t # p  BY <1>4, <1>8, <3>2 DEF Uncalled
    <3> QED  BY <3>1, <3>2
  <2>5. ASSUME NEW h \in Handler, NEW q \in Publisher, thread'[q].at \in {"route", "send"}
        PROVE  thread'[q].uid \notin Called(h)
    <3>1. thread'[q] = thread[q]  BY <1>4, <2>5, PublisherIsThread
    <3> QED  BY <3>1, <2>5 DEF Uncalled
  <2>6. ASSUME NEW h \in Handler, NEW i \in DOMAIN wire', wire'[i] \in Called(h)
        PROVE  wire'[i] \in doubtful'
    BY <1>6, <1>8, <2>6
  <2>7. ASSUME NEW h \in Handler, backend' = "redis", NEW g \in Called(h)
        PROVE  /\ \A i \in DOMAIN wire' : Before(g, wire'[i])
               /\ Listens' /\ g[1] = thread'[Listener].uid[1] => g[2] <= thread'[Listener].uid[2]
    BY <1>6, <2>2, <2>3, <2>7 DEF Uncalled
  <2>8. \A g, w : Before(g, w)' <=> Before(g, w)  BY DEF Before
  <2>9. \A h \in Handler, t \in Thread : (h \in SetOf(thread[t].todo))' <=> h \in SetOf(thread'[t].todo)
    BY DEF SetOf
  <2> QED  BY <2>1, <2>4, <2>5, <2>6, <2>7 DEF Uncalled, Before, SetOf
<1>15. DeliveredRight'
  <2>1. backend = "memory" => backend' = "memory"  BY <1>8
  <2> QED  BY <1>2, <1>6, <1>8, <2>1
        DEF DeliveredRight, AtMostOnce, InPublishOrder, DeliveredIsLogged
<1> QED  BY <1>11, <1>12, <1>13, <1>14, <1>15

(* The listener takes a message. *)
LEMMA ReceiveRest ==
  ASSUME BusInv, BusTypeOK', Receive PROVE BusRest'
<1> USE DEF BusInv, BusRest
<1> DEFINE v == Head(wire)
<1>1. Listener \in Thread /\ \A q \in Publisher : q \in Thread /\ q # Listener
  BY PublisherIsThread, ListenerIsThread
<1>2. /\ thread[Listener].at = "waiting" /\ wire \in Seq(Uid) /\ wire # << >>
      /\ wire' = Tail(wire)
      /\ UNCHANGED <<got, subs, count, viaRedis, relayed, doubtful, backend>>
  BY DEF Receive, BusTypeOK
<1>3. /\ thread'[Listener].at = "dispatch" /\ thread'[Listener].uid = v
      /\ thread'[Listener].todo = thread[Listener].todo
      /\ \A s \in Thread : s # Listener => thread'[s] = thread[s]
  BY <1>1 DEF Receive, BusTypeOK, ThreadState
<1>4. /\ v = wire[1] /\ 1 \in DOMAIN wire
      /\ \A i \in DOMAIN wire' : i + 1 \in DOMAIN wire /\ wire'[i] = wire[i + 1] /\ i \in Nat
                                 /\ i > 0 /\ 1 < i + 1
  BY <1>2
<1>5. v \in Uid /\ v \in relayed /\ \A i \in DOMAIN wire' : Before(v, wire'[i])
  BY <1>2, <1>4 DEF InTransit, BusHistOK
<1>6. logged \subseteq logged' /\ v \in logged' /\ logged' \subseteq Uid
  BY <1>5 DEF Receive, AppendEvent, BusHistOK
<1>7. Listens'  BY <1>3 DEF Listens
<1> HIDE DEF v
<1>8. BusHistOK'  BY <1>2, <1>6 DEF BusHistOK
<1>9. InHand'
  <2>1. \A q \in Publisher : thread'[q] = thread[q] /\ (Holds(q)' <=> Holds(q))
    BY <1>1, <1>3 DEF Holds
  <2>2. \A t \in Thread : Once(thread'[t].todo)  BY <1>3 DEF InHand
  <2>3. Once(subs')  BY <1>2 DEF InHand, Once
  <2>4. ASSUME NEW t \in Thread, thread'[t].at \in {"dispatch", "deliver"}
        PROVE  thread'[t].uid \in logged' \/ (thread'[t].uid \in viaRedis /\ backend' = "memory")
    BY <1>2, <1>3, <1>6, <2>4 DEF InHand
  <2> QED  BY <1>2, <1>3, <1>5, <1>6, <2>1, <2>2, <2>3, <2>4 DEF InHand
<1>10. InTransit'
  <2>1. \A u : Issued(u)' <=> Issued(u)  BY <1>2 DEF Issued
  <2>2. (\A h \in Handler : \A i \in DOMAIN got[h] : Issued(got[h][i]))'
    BY <1>2, <2>1 DEF InTransit, Issued
  <2>3. ASSUME NEW i \in DOMAIN wire', NEW j \in DOMAIN wire', i < j
        PROVE  Before(wire'[i], wire'[j])
    <3>1. i + 1 < j + 1  BY <1>4, <2>3
    <3> QED  BY <1>4, <3>1 DEF InTransit
  <2>4. \A q \in Publisher : thread'[q] = thread[q]  BY <1>1, <1>3
  <2>5. \A i \in DOMAIN wire' : wire'[i] \in relayed  BY <1>4 DEF InTransit
  <2>6. \A u \in relayed : Issued(u)'  BY <2>1 DEF InTransit
  <2> QED  BY <1>2, <1>3, <1>5, <2>2, <2>3, <2>4, <2>5, <2>6 DEF InTransit, Before
<1>11. Uncalled'
  <2>1. \A h \in Handler : Called(h)' = Called(h)  BY <1>2 DEF Called, SetOf
  <2>2. \A q \in Publisher : thread'[q] = thread[q]  BY <1>1, <1>3
  <2>3. ASSUME NEW h \in Handler, NEW t \in Thread
        PROVE /\ thread'[t].at = "dispatch" /\ thread'[t].uid \in Called(h) => thread'[t].uid \in doubtful
              /\ thread'[t].at = "deliver" /\ h \in SetOf(thread'[t].todo) /\ thread'[t].uid \in Called(h)
                   => thread'[t].uid \in doubtful
    <3>1. CASE t = Listener  BY <1>3, <1>4, <3>1 DEF Uncalled
    <3>2. CASE t # Listener  BY <1>3, <3>2 DEF Uncalled
    <3> QED  BY <3>1, <3>2
  <2>4. ASSUME NEW h \in Handler, backend = "redis", NEW g \in Called(h)
        PROVE  /\ \A i \in DOMAIN wire' : Before(g, wire'[i])
               /\ g[1] = v[1] => g[2] <= v[2]
    <3>1. Before(g, v) /\ \A i \in DOMAIN wire' : Before(g, wire'[i])
      BY <1>4, <2>4 DEF Uncalled
    <3>2. Issued(g) /\ Issued(v)  BY <1>5 DEF InTransit, Called, SetOf
    <3>3. g[2] \in Int /\ v[2] \in Int  BY <3>2 DEF Issued
    <3> QED  BY <3>1, <3>3 DEF Before
  <2>5. \A h \in Handler : \A i \in DOMAIN wire' : wire'[i] \in Called(h) => wire'[i] \in doubtful
    BY <1>4 DEF Uncalled
  <2> QED  BY <1>2, <1>3, <2>1, <2>2, <2>3, <2>4, <2>5 DEF Uncalled, Before, SetOf
<1>12. DeliveredRight'
  BY <1>2, <1>6 DEF DeliveredRight, AtMostOnce, InPublishOrder, DeliveredIsLogged
<1> QED  BY <1>8, <1>9, <1>10, <1>11, <1>12

(* The handlers are copied. *)
LEMMA DispatchRest ==
  ASSUME BusInv, BusTypeOK', NEW t \in Thread, Dispatch(t), subs # << >> PROVE BusRest'
<1> USE DEF BusInv, BusRest
<1>1. /\ thread[t].at = "dispatch"
      /\ UNCHANGED <<got, relayed, doubtful, wire, backend, subs, count, logged, viaRedis>>
  BY DEF Dispatch, hist
<1>2. /\ thread'[t].at = "deliver" /\ thread'[t].uid = thread[t].uid /\ thread'[t].todo = subs
      /\ \A s \in Thread : s # t => thread'[s] = thread[s]
  BY DEF Dispatch, BusTypeOK, ThreadState
<1>3. \A q \in Publisher : q \in Thread /\ q # Listener  BY PublisherIsThread
<1>4. BusHistOK'  BY <1>1 DEF BusHistOK
<1>5. InHand'
  <2>1. \A q \in Publisher : (Holds(q)' <=> Holds(q)) /\ thread'[q].uid = thread[q].uid
    BY <1>1, <1>2, <1>3 DEF Holds
  <2>2. \A s \in Thread : Once(thread'[s].todo)  BY <1>2 DEF InHand
  <2>3. Once(subs')  BY <1>1 DEF InHand, Once
  <2> QED  BY <1>1, <1>2, <1>3, <2>1, <2>2, <2>3, ListenerIsThread DEF InHand, Listens
<1>6. InTransit'
  BY <1>1, <1>2, <1>3, ListenerIsThread DEF InTransit, Listens, Before, Issued
<1>7. Uncalled'
  <2>1. \A h \in Handler : Called(h)' = Called(h)  BY <1>1 DEF Called, SetOf
  <2> QED  BY <1>1, <1>2, <1>3, <2>1, ListenerIsThread DEF Uncalled, Listens, Before, SetOf
<1>8. DeliveredRight'
  BY <1>1 DEF DeliveredRight, AtMostOnce, InPublishOrder, DeliveredIsLogged
<1> QED  BY <1>4, <1>5, <1>6, <1>7, <1>8

(* A sequence with one more element.                                        *)
LEMMA OneLonger ==
  ASSUME NEW S, NEW q \in Seq(S), NEW x \in S, NEW r, r = Append(q, x)
  PROVE  /\ Len(q) \in Nat /\ DOMAIN q = 1 .. Len(q)
         /\ DOMAIN r = 1 .. Len(q) + 1 /\ r[Len(q) + 1] = x
         /\ \A i \in 1 .. Len(q) : r[i] = q[i]
OBVIOUS

(* What handler h was called with after one more call.                      *)
LEMMA OneMoreCall ==
  ASSUME BusInv, NEW t \in Thread, Deliver(t)
  PROVE  LET h == Head(thread[t].todo)  v == thread[t].uid IN
         /\ h \in Handler /\ Issued(v)
         /\ \A i \in DOMAIN got[h] : i \in 1 .. Len(got[h])
         /\ Len(got[h]) \in Nat
         /\ DOMAIN got'[h] = 1 .. Len(got[h]) + 1
         /\ \A i \in 1 .. Len(got[h]) : i \in DOMAIN got[h] /\ got'[h][i] = got[h][i]
         /\ got'[h][Len(got[h]) + 1] = v
         /\ \A g \in Handler : g # h => got'[g] = got[g]
         /\ got' \in [Handler -> Seq(Uid)]
<1> USE DEF BusInv, BusRest
<1> DEFINE h == Head(thread[t].todo)
           v == thread[t].uid
<1>1. /\ thread[t].at = "deliver" /\ thread[t].todo # << >> /\ thread[t].todo \in Seq(Handler)
      /\ v \in Uid
  BY DEF Deliver, BusTypeOK, ThreadOK, ThreadState
<1>2. h \in Handler  BY <1>1
<1>3. Issued(v)
  <2>1. CASE t \in Publisher
    <3>1. v = <<t, count[t]>> /\ count[t] > 0 /\ count[t] \in Nat
      BY <1>1, <2>1 DEF InHand, Holds, BusHistOK
    <3> QED  BY <1>1, <2>1, <3>1 DEF Issued
  <2>2. CASE t = Listener
    BY <1>1, <2>2 DEF InHand, InTransit, Listens
  <2> QED  BY <2>1, <2>2 DEF Thread
<1>4. got[h] \in Seq(Uid)  BY <1>2 DEF BusHistOK
<1>5. got' = [got EXCEPT ![h] = Append(@, v)]  BY DEF Deliver
<1> HIDE DEF h, v
<1>6. got'[h] = Append(got[h], v) /\ \A g \in Handler : g # h => got'[g] = got[g]
  BY <1>2, <1>5 DEF BusHistOK
<1>7. Append(got[h], v) \in Seq(Uid)  BY <1>1, <1>4
<1>8. got' \in [Handler -> Seq(Uid)]  BY <1>2, <1>5, <1>7 DEF BusHistOK
<1>9. /\ Len(got[h]) \in Nat /\ DOMAIN got[h] = 1 .. Len(got[h])
      /\ DOMAIN got'[h] = 1 .. Len(got[h]) + 1 /\ got'[h][Len(got[h]) + 1] = v
      /\ \A i \in 1 .. Len(got[h]) : got'[h][i] = got[h][i]
  BY <1>1, <1>4, <1>6, OneLonger
<1> QED  BY <1>2, <1>3, <1>6, <1>8, <1>9 DEF h, v

(* One handler is called. *)
LEMMA DeliverRest ==
  ASSUME BusInv, BusTypeOK', NEW t \in Thread, Deliver(t) PROVE BusRest'
<1> USE DEF BusInv, BusRest
<1>1. /\ thread[t].at = "deliver" /\ thread[t].todo # << >> /\ thread[t].todo \in Seq(Handler)
      /\ UNCHANGED <<relayed, doubtful, wire, backend, subs, count, logged, viaRedis>>
  BY DEF Deliver, BusTypeOK, ThreadOK, ThreadState
<1>2. PICK h, v : h = Head(thread[t].todo) /\ v = thread[t].uid  OBVIOUS
<1>3. PICK n : n = Len(got[h])  OBVIOUS
<1>4. /\ h \in Handler /\ Issued(v)
      /\ \A i \in DOMAIN got[h] : i \in 1 .. n
      /\ n \in Nat
      /\ DOMAIN got'[h] = 1 .. n + 1
      /\ \A i \in 1 .. n : i \in DOMAIN got[h] /\ got'[h][i] = got[h][i]
      /\ got'[h][n + 1] = v
      /\ \A g \in Handler : g # h => got'[g] = got[g]
      /\ got' \in [Handler -> Seq(Uid)]
  BY <1>2, <1>3, OneMoreCall
<1>5. /\ \A q \in Publisher : q \in Thread /\ q # Listener
      /\ Listener \in Thread
  BY PublisherIsThread, ListenerIsThread
<1>6. /\ thread'[t].at \in {"deliver", Rest(t)} /\ thread'[t].uid = v
      /\ thread'[t].todo = Tail(thread[t].todo)
      /\ \A s \in Thread : s # t => thread'[s] = thread[s]
  BY <1>2 DEF Deliver, BusTypeOK, ThreadState
<1>7. Rest(t) \notin {"route", "send", "dispatch", "deliver"}  BY RestOK
<1>8. /\ Once(thread'[t].todo) /\ h \notin SetOf(thread'[t].todo)
      /\ SetOf(thread'[t].todo) \subseteq SetOf(thread[t].todo) /\ h \in SetOf(thread[t].todo)
  <2>1. Once(thread[t].todo)  BY DEF InHand
  <2>2. PICK r : r = thread[t].todo  OBVIOUS
  <2>3. r \in Seq(Handler) /\ r # << >> /\ h = Head(r) /\ Once(r)  BY <1>1, <1>2, <2>1, <2>2
  <2>4. /\ \A i \in DOMAIN Tail(r) : i + 1 \in DOMAIN r /\ Tail(r)[i] = r[i + 1] /\ i + 1 # 1 /\ i \in Nat
        /\ 1 \in DOMAIN r /\ r[1] = h
    BY <2>3
  <2>5. Once(Tail(r))
    <3> SUFFICES ASSUME NEW i \in DOMAIN Tail(r), NEW j \in DOMAIN Tail(r), Tail(r)[i] = Tail(r)[j]
                 PROVE  i = j
      BY DEF Once
    <3>1. i + 1 = j + 1  BY <2>3, <2>4 DEF Once
    <3> QED  BY <2>4, <3>1
  <2>6. h \notin SetOf(Tail(r))  BY <2>3, <2>4 DEF SetOf, Once
  <2>7. SetOf(Tail(r)) \subseteq SetOf(r) /\ h \in SetOf(r)  BY <2>4 DEF SetOf
  <2> QED  BY <1>6, <2>2, <2>5, <2>6, <2>7
<1>9. /\ Called(h)' = Called(h) \cup {v}
      /\ \A g \in Handler : g # h => Called(g)' = Called(g)
  BY <1>4 DEF Called, SetOf
<1>10. v \in Called(h) => v \in doubtful  BY <1>1, <1>2, <1>4, <1>8 DEF Uncalled
<1>11. v \in logged \/ (v \in viaRedis /\ backend = "memory")  BY <1>1, <1>2 DEF InHand
<1>12. \/ t \in Publisher /\ v = <<t, count[t]>> /\ (v \in relayed => v \in doubtful) /\ backend # "redis"
       \/ t = Listener /\ v \in relayed /\ \A i \in DOMAIN wire : Before(v, wire[i])
  <2>1. CASE t \in Publisher  BY <1>1, <1>2, <2>1 DEF InHand, Holds, InTransit
  <2>2. CASE t = Listener  BY <1>1, <1>2, <2>2 DEF InHand, InTransit, Listens
  <2> QED  BY <2>1, <2>2 DEF Thread
<1>13. \A g : Issued(g)' <=> Issued(g)  BY <1>1 DEF Issued
<1>14. BusHistOK'  BY <1>1, <1>4 DEF BusHistOK
<1>15. InHand'
  <2>1. \A q \in Publisher : Holds(q)' => Holds(q) /\ thread'[q].uid = thread[q].uid
    BY <1>1, <1>2, <1>5, <1>6, <1>7 DEF Holds
  <2>2. \A s \in Thread : Once(thread'[s].todo)  BY <1>6, <1>8 DEF InHand
  <2>3. Once(subs')  BY <1>1 DEF InHand, Once
  <2>4. Listens' => Listens /\ thread'[Listener].uid = thread[Listener].uid
    BY <1>1, <1>2, <1>5, <1>6, <1>7 DEF Listens
  <2>5. ASSUME NEW s \in Thread, thread'[s].at \in {"dispatch", "deliver"}
        PROVE  thread'[s].uid \in logged \/ (thread'[s].uid \in viaRedis /\ backend = "memory")
    BY <1>6, <1>11, <2>5 DEF InHand
  <2>6. \A q \in Publisher : thread'[q].at \in {"route", "send"} => thread'[q] = thread[q]
    BY <1>5, <1>6, <1>7
  <2> QED  BY <1>1, <2>1, <2>2, <2>3, <2>4, <2>5, <2>6 DEF InHand
<1>16. InTransit'
  <2>1. Listens' => Listens /\ thread'[Listener].uid = thread[Listener].uid
    BY <1>1, <1>2, <1>5, <1>6, <1>7 DEF Listens
  <2>2. \A q \in Publisher : thread'[q].at \in {"route", "send"} => thread'[q] = thread[q]
    BY <1>5, <1>6, <1>7
  <2>3. \A q \in Publisher : thread'[q].at \in {"dispatch", "deliver"} =>
          thread[q].at \in {"dispatch", "deliver"} /\ thread'[q].uid = thread[q].uid
    BY <1>1, <1>2, <1>5, <1>6, <1>7
  <2>4. (\A g \in Handler : \A i \in DOMAIN got[g] : Issued(got[g][i]))'
    <3> SUFFICES ASSUME NEW g \in Handler, NEW i \in DOMAIN got'[g]
                 PROVE  Issued(got[g][i])'
      OBVIOUS
    <3>1. PICK e : e = got'[g][i]  OBVIOUS
    <3>2. Issued(e)
      <4>1. CASE e = v  BY <1>4, <4>1
      <4>2. CASE e \in Called(g)  BY <4>2 DEF InTransit, Called, SetOf
      <4> QED  BY <1>9, <3>1, <4>1, <4>2 DEF Called, SetOf
    <3> QED  BY <1>1, <3>1, <3>2 DEF Issued
  <2>5. \A u \in relayed : Issued(u)'  BY <1>13 DEF InTransit
  <2> QED  BY <1>1, <2>1, <2>2, <2>3, <2>4, <2>5 DEF InTransit, Before
<1>17. ASSUME NEW s \in Thread, s # t, thread[s].at \in {"route", "send", "dispatch", "deliver"},
              thread[s].uid = v
       PROVE  v \in doubtful /\ thread[s].at \in {"dispatch", "deliver"}
  <2>1. CASE s \in Publisher
    <3>1. thread[s].uid = <<s, count[s]>>  BY <1>17, <2>1 DEF InHand, Holds
    <3>2. t = Listener /\ v \in relayed  BY <1>12, <1>17, <3>1
    <3> QED  BY <1>17, <2>1, <3>2 DEF InTransit
  <2>2. CASE s = Listener
    <3>1. thread[Listener].at \in {"dispatch", "deliver"}
      BY <1>17, <2>2 DEF BusTypeOK, ThreadOK, ListenerAt
    <3>2. v \in relayed  BY <1>17, <2>2, <3>1 DEF InHand, Listens
    <3>3. t \in Publisher  BY <1>17, <2>2 DEF Thread
    <3> QED  BY <1>12, <1>17, <2>2, <3>1, <3>2, <3>3
  <2> QED  BY <2>1, <2>2 DEF Thread
<1>18. Uncalled'
  <2>1. ASSUME NEW g \in Handler, NEW q \in Publisher, thread'[q].at \in {"route", "send"}
        PROVE  thread'[q].uid \notin Called(g)'
    <3>1. q \in Thread /\ q # t /\ thread'[q] = thread[q]  BY <1>5, <1>6, <1>7, <2>1
    <3>2. thread[q].uid # v  BY <1>17, <2>1, <3>1
    <3> QED  BY <1>9, <2>1, <3>1, <3>2 DEF Uncalled
  <2>2. ASSUME NEW g \in Handler, NEW i \in DOMAIN wire, wire[i] \in Called(g)'
        PROVE  wire[i] \in doubtful
    <3>1. CASE wire[i] \in Called(g)  BY <3>1 DEF Uncalled
    <3>2. CASE wire[i] = v /\ t \in Publisher  BY <1>5, <1>12, <3>2 DEF InTransit
    <3>3. CASE wire[i] = v /\ t = Listener
      <4>1. v[2] < v[2] /\ v[2] \in Int  BY <1>4, <1>5, <1>12, <3>3 DEF Before, Issued
      <4> QED  BY <4>1
    <3> QED  BY <1>9, <1>12, <2>2, <3>1, <3>2, <3>3
  <2>3. ASSUME NEW g \in Handler, NEW s \in Thread, thread'[s].uid \in Called(g)',
               \/ thread'[s].at = "dispatch"
               \/ thread'[s].at = "deliver" /\ g \in SetOf(thread'[s].todo)
        PROVE  thread'[s].uid \in doubtful
    <3>1. CASE s = t
      <4>1. g # h /\ g \in SetOf(thread[t].todo) /\ v \in Called(g)
        BY <1>6, <1>7, <1>8, <1>9, <2>3, <3>1
      <4> QED  BY <1>1, <1>2, <1>6, <3>1, <4>1 DEF Uncalled
    <3>2. CASE s # t /\ thread[s].uid = v
      BY <1>6, <1>17, <2>3, <3>2
    <3>3. CASE s # t /\ thread[s].uid # v
      <4>1. thread'[s] = thread[s] /\ thread[s].uid \in Called(g)  BY <1>6, <1>9, <2>3, <3>3
      <4> QED  BY <2>3, <4>1 DEF Uncalled
    <3> QED  BY <3>1, <3>2, <3>3
  <2>4. ASSUME NEW g \in Handler, backend = "redis", NEW e \in Called(g)'
        PROVE  /\ \A i \in DOMAIN wire : Before(e, wire[i])
               /\ Listens' /\ e[1] = thread'[Listener].uid[1] => e[2] <= thread'[Listener].uid[2]
    <3>1. t = Listener /\ Listens /\ \A i \in DOMAIN wire : Before(v, wire[i])
      BY <1>1, <1>12, <2>4 DEF Listens
    <3>2. thread'[Listener].uid = v  BY <1>6, <3>1
    <3>3. CASE e = v
      <4>1. e[2] <= v[2]  BY <1>4, <3>3 DEF Issued
      <4> QED  BY <3>1, <3>2, <3>3, <4>1
    <3>4. CASE e \in Called(g)
      BY <1>2, <2>4, <3>1, <3>2, <3>4 DEF Uncalled
    <3> QED  BY <1>9, <3>3, <3>4
  <2> QED  BY <1>1, <2>1, <2>2, <2>3, <2>4 DEF Uncalled, Before, SetOf
<1>19. AtMostOnce'
  <2> SUFFICES ASSUME NEW g \in Handler, NEW i \in DOMAIN got'[g], NEW j \in DOMAIN got'[g],
                      i # j, got'[g][i] = got'[g][j]
               PROVE  got'[g][i] \in doubtful
    BY <1>1 DEF AtMostOnce
  <2>1. CASE g # h  BY <1>4, <2>1 DEF DeliveredRight, AtMostOnce
  <2>2. CASE g = h /\ i \in 1 .. n /\ j \in 1 .. n  BY <1>4, <2>2 DEF DeliveredRight, AtMostOnce
  <2>3. CASE g = h /\ (i = n + 1 \/ j = n + 1)
    <3>1. \E k \in 1 .. n : got[h][k] = v  BY <1>4, <2>3
    <3>2. v \in Called(h)  BY <1>4, <3>1 DEF Called, SetOf
    <3> QED  BY <1>4, <1>10, <2>3, <3>2
  <2> QED  BY <1>4, <2>1, <2>2, <2>3
<1>20. InPublishOrder'
  <2> SUFFICES ASSUME NEW g \in Handler, NEW i \in DOMAIN got'[g], NEW j \in DOMAIN got'[g],
                      i < j, got'[g][j][1] = got'[g][i][1], got'[g][j][2] < got'[g][i][2]
               PROVE  got'[g][j] \in relayed /\ backend = "memory"
    BY <1>1 DEF InPublishOrder
  <2>1. CASE g # h  BY <1>4, <2>1 DEF DeliveredRight, InPublishOrder
  <2>2. CASE g = h /\ i \in 1 .. n /\ j \in 1 .. n  BY <1>4, <2>2 DEF DeliveredRight, InPublishOrder
  <2>3. CASE g = h /\ i \in 1 .. n /\ j = n + 1
    <3>1. PICK e : e = got[h][i]  OBVIOUS
    <3>2. e \in Called(h) /\ Issued(e) /\ v[1] = e[1] /\ v[2] < e[2] /\ got'[g][j] = v
      BY <1>4, <2>3, <3>1 DEF Called, SetOf, InTransit
    <3>3. e[2] \in Int /\ v[2] \in Int  BY <1>4, <3>2 DEF Issued
    <3>4. CASE t \in Publisher
      <4>1. v[1] = t /\ v[2] = count[t]  BY <1>5, <1>12, <3>4
      <4>2. e[2] <= count[t]  BY <3>2, <3>4, <4>1 DEF Issued, BusHistOK
      <4> QED  BY <3>2, <3>3, <4>1, <4>2
    <3>5. CASE t = Listener
      <4>1. v \in relayed  BY <1>5, <1>12, <3>5
      <4>2. backend = "redis" => e[2] <= v[2]
        BY <1>1, <1>2, <1>4, <3>2, <3>5 DEF Uncalled, Listens
      <4>3. backend \in {"memory", "redis"}  BY DEF BusTypeOK
      <4> QED  BY <3>2, <3>3, <4>1, <4>2, <4>3
    <3> QED  BY <1>12, <3>4, <3>5
  <2> QED  BY <1>4, <2>1, <2>2, <2>3
<1>21. DeliveredIsLogged'
  <2> SUFFICES ASSUME NEW g \in Handler, NEW i \in DOMAIN got'[g]
               PROVE  got'[g][i] \in logged \/ (got'[g][i] \in viaRedis /\ backend = "memory")
    BY <1>1 DEF DeliveredIsLogged
  <2>1. PICK e : e = got'[g][i]  OBVIOUS
  <2>2. CASE e = v  BY <1>11, <2>1, <2>2
  <2>3. CASE e \in Called(g)
    BY <2>1, <2>3 DEF DeliveredRight, DeliveredIsLogged, Called, SetOf
  <2> QED  BY <1>9, <2>1, <2>2, <2>3 DEF Called, SetOf
<1> QED  BY <1>14, <1>15, <1>16, <1>18, <1>19, <1>20, <1>21 DEF DeliveredRight

(* Nobody has published anything yet. *)
LEMMA BusInitInv == ASSUME BusInit PROVE BusInv
<1>1. BusTypeOK  BY BusInitType
<1>2. /\ wire = << >> /\ subs = << >> /\ relayed = {} /\ doubtful = {} /\ logged = {} /\ viaRedis = {}
      /\ \A t \in Thread : thread[t].at \in {"none", "idle"} /\ thread[t].todo = << >>
      /\ got = [h \in Handler |-> << >>] /\ count = [p \in Publisher |-> 0]
  BY DEF BusInit
<1>3. \A h \in Handler : got[h] = << >> /\ Called(h) = {} /\ DOMAIN got[h] = {}
  BY <1>2 DEF Called, SetOf
<1>4. BusHistOK  BY <1>2 DEF BusHistOK
<1>5. InHand  BY <1>2, PublisherIsThread, ListenerIsThread DEF InHand, Holds, Listens, Once
<1>6. InTransit
  BY <1>2, <1>3, PublisherIsThread, ListenerIsThread DEF InTransit, Holds, Listens
<1>7. Uncalled  BY <1>2, <1>3, PublisherIsThread, ListenerIsThread DEF Uncalled
<1>8. DeliveredRight
  BY <1>3 DEF DeliveredRight, AtMostOnce, InPublishOrder, DeliveredIsLogged
<1> QED  BY <1>1, <1>4, <1>5, <1>6, <1>7, <1>8 DEF BusInv, BusRest

(* Every step of the bus keeps its invariant. *)
LEMMA BusInvKept == ASSUME BusInv, [BusNext]_busVars PROVE BusInv'
<1>1. BusTypeOK'  BY BusStepKeeps DEF Kept, BusInv
<1>2. CASE BusNext
  <2>1. \A p \in Publisher : p \in Thread  BY PublisherIsThread
  <2>2. CASE \/ \E h \in Handler : Subscribe(h)
             \/ PSubscribe \/ CheckStop \/ NoMessage \/ ListenFails \/ Close
    BY <1>1, <2>2, RestingSteps DEF BusInv
  <2>3. CASE Receive
    BY <1>1, <2>3, ReceiveRest DEF BusInv
  <2>4. ASSUME NEW p \in Publisher, Publish(p) \/ Route(p) \/ Send(p) \/ SendFails(p)
        PROVE  BusInv'
    BY <1>1, <2>4, PublishRest, RouteRest, SendRest DEF BusInv
  <2>5. ASSUME NEW t \in Thread, Dispatch(t) \/ Deliver(t) PROVE BusInv'
    BY <1>1, <2>5, RestingSteps, DispatchRest, DeliverRest DEF BusInv
  <2> QED  BY <1>2, <2>1, <2>2, <2>3, <2>4, <2>5, ListenerIsThread
           DEF BusNext, PublisherStep, ListenerStep
<1>3. CASE UNCHANGED busVars
  BY <1>1, <1>3, RestingSteps DEF BusInv
<1> QED  BY <1>2, <1>3

(* A handler is called with an event once and in the order of its publisher, *)
(* and what it was called with is in the log, but for what a fallback to     *)
(* memory caught between the two.                                            *)
THEOREM HandlersSeeTheLog == BusSpec => []DeliveredAsLogged
<1>1. BusInv => DeliveredAsLogged
  BY DEF BusInv, BusRest, DeliveredRight, DeliveredOnceInOrder, DeliveredAsLogged
<1> QED  BY <1>1, BusInitInv, BusInvKept, PTL DEF BusSpec

----------------------------------------------------------------------------
(* The feed: what a page was shown, what its websocket still carries, and     *)
(* what the loop will send next follow one another in the log.               *)

Batch == [events : Seq(Entry), cursor : Nat]

FeedTypeOK ==
  /\ server \in [Page -> Nat \cup {Disconnected}] /\ onWire \in [Page -> Seq(Batch)]
  /\ cursor \in [Page -> Nat] /\ shown \in [Page -> Seq(Nat)] /\ stale \subseteq Page

(* The cursor of a page just before batch k of w, and after the last.        *)
CursorBefore(w, cur, k) == IF k = 1 THEN cur ELSE w[k - 1].cursor
Ahead(w, cur)     == IF w = << >> THEN cur ELSE w[Len(w)].cursor

(* A batch sent after the cursor was low has the entries between low and its *)
(* own cursor, all those of the log that are left among them.                *)
BatchOK(log, low, b) ==
  /\ low <= b.cursor
  /\ \A i, j \in DOMAIN b.events : i < j => b.events[i].id < b.events[j].id
  /\ \A i \in DOMAIN b.events : low < b.events[i].id /\ b.events[i].id <= b.cursor
  /\ \A i \in DOMAIN log : low < log[i].id /\ log[i].id <= b.cursor =>
       \E m \in DOMAIN b.events : b.events[m].id = log[i].id

PageOK(log, next, srv, w, cur, sh) ==
  /\ IF srv = Disconnected THEN w = << >> ELSE srv = Ahead(w, cur)
  /\ cur < next
  /\ \A k \in 1 .. Len(w) : w[k].cursor < next /\ BatchOK(log, CursorBefore(w, cur, k), w[k])
  /\ \A i, j \in DOMAIN sh : i < j => sh[i] < sh[j]
  /\ \A i \in DOMAIN sh : sh[i] <= cur
  /\ \A i \in DOMAIN log : log[i].id <= cur => \E k \in DOMAIN sh : sh[k] = log[i].id

FeedInv ==
  /\ LogTypeOK /\ WindowIsContiguous /\ FeedTypeOK
  /\ \A p \in Page \ stale :
       PageOK(recent, nextId, server[p], onWire[p], cursor[p], shown[p])

(* Entries of a log, and batches on a websocket, by their places. *)
LEMMA EntriesOf ==
  ASSUME NEW log \in Seq(Entry)
  PROVE  /\ Len(log) \in Nat /\ DOMAIN log = 1 .. Len(log)
         /\ \A i \in 1 .. Len(log) : log[i] \in Entry /\ log[i].id \in Nat
<1>1. Len(log) \in Nat /\ DOMAIN log = 1 .. Len(log)  OBVIOUS
<1>2. ASSUME NEW i \in 1 .. Len(log) PROVE log[i] \in Entry /\ log[i].id \in Nat
  <2>1. log[i] \in Entry  OBVIOUS
  <2> QED  BY <2>1 DEF Entry
<1> QED  BY <1>1, <1>2

(* A sequence of batches, taken apart. *)
LEMMA BatchesOf ==
  ASSUME NEW w \in Seq(Batch)
  PROVE  /\ Len(w) \in Nat /\ DOMAIN w = 1 .. Len(w)
         /\ \A k \in 1 .. Len(w) :
              w[k] \in Batch /\ w[k].cursor \in Nat /\ w[k].events \in Seq(Entry)
<1>1. Len(w) \in Nat /\ DOMAIN w = 1 .. Len(w)  OBVIOUS
<1>2. ASSUME NEW k \in 1 .. Len(w)
      PROVE  w[k] \in Batch /\ w[k].cursor \in Nat /\ w[k].events \in Seq(Entry)
  <2>1. w[k] \in Batch  OBVIOUS
  <2> QED  BY <2>1 DEF Batch
<1> QED  BY <1>1, <1>2

(* The ids of the entries of a log, place by place. *)
LEMMA IdsOfResult ==
  ASSUME NEW log \in Seq(Entry)
  PROVE  /\ IdsOf(log) \in Seq(Nat) /\ Len(IdsOf(log)) = Len(log)
         /\ \A i \in 1 .. Len(log) : IdsOf(log)[i] = log[i].id
<1>1. /\ Len(log) \in Nat /\ DOMAIN log = 1 .. Len(log)
      /\ \A i \in 1 .. Len(log) : log[i].id \in Nat
  BY EntriesOf
<1>2. IdsOf(log) = [i \in 1 .. Len(log) |-> log[i].id]  BY <1>1 DEF IdsOf
<1> QED  BY <1>1, <1>2

(* CursorBefore the first event every page and the log are empty. *)
LEMMA FeedInitInv == ASSUME FeedInit PROVE FeedInv
<1>1. LogTypeOK /\ WindowIsContiguous  BY LogInitInv DEF FeedInit, LogInv
<1>2. FeedTypeOK  BY DEF FeedInit, FeedTypeOK
<1>3. ASSUME NEW p \in Page PROVE PageOK(recent, nextId, server[p], onWire[p], cursor[p], shown[p])
  BY DEF FeedInit, LogInit, PageOK
<1> QED  BY <1>1, <1>2, <1>3 DEF FeedInv

(* A page does not depend on entries that leave the window, and a new one is  *)
(* ahead of it.                                                             *)
LEMMA NewEntryIsAhead ==
  ASSUME LogTypeOK, WindowIsContiguous, NEW u \in Uid, Record(u), FeedTypeOK, NEW p \in Page,
         PageOK(recent, nextId, server[p], onWire[p], cursor[p], shown[p])
  PROVE  PageOK(recent', nextId', server[p], onWire[p], cursor[p], shown[p])
<1> DEFINE e == [id |-> nextId, uid |-> u]  w == onWire[p]  cur == cursor[p]
<1>1. nextId' = nextId + 1 /\ nextId \in Nat /\ cur \in Nat /\ w \in Seq(Batch)
  BY RecordResult DEF LogTypeOK, FeedTypeOK
<1>2. PICK k \in {0, 1} : Shifted(recent, recent', e, k)  BY RecordResult
<1>3. ASSUME NEW i \in DOMAIN recent'
      PROVE  recent'[i].id = nextId \/ \E j \in DOMAIN recent : recent[j] = recent'[i]
  <2>1. recent' \in Seq(Entry) /\ recent \in Seq(Entry)  BY <1>2 DEF Shifted, LogTypeOK
  <2>2. Len(recent') = Len(recent) + 1 - k /\ k <= Len(recent) /\ i \in 1 .. Len(recent')
        /\ Len(recent) \in Nat /\ Len(recent') \in Nat
    BY <1>2, <2>1 DEF Shifted
  <2>3. CASE i = Len(recent')  BY <1>2, <2>3 DEF Shifted
  <2>4. CASE i # Len(recent')
    <3>1. i \in 1 .. Len(recent) - k /\ i + k \in DOMAIN recent  BY <2>1, <2>2, <2>4
    <3> QED  BY <3>1, <1>2 DEF Shifted
  <2> QED  BY <2>3, <2>4
<1>4. ASSUME NEW n \in 1 .. Len(w)
      PROVE  w[n].cursor < nextId' /\ BatchOK(recent', CursorBefore(w, cur, n), w[n])
  <2>1. w[n].cursor < nextId /\ BatchOK(recent, CursorBefore(w, cur, n), w[n]) /\ w[n].cursor \in Nat
    <3>1. w[n].cursor < nextId /\ BatchOK(recent, CursorBefore(w, cur, n), w[n])  BY DEF PageOK
    <3>2. w[n].cursor \in Nat  BY <1>1, BatchesOf
    <3> QED  BY <3>1, <3>2
  <2>2. ASSUME NEW i \in DOMAIN recent', CursorBefore(w, cur, n) < recent'[i].id,
               recent'[i].id <= w[n].cursor
        PROVE  \E m \in DOMAIN w[n].events : w[n].events[m].id = recent'[i].id
    <3>1. PICK j \in DOMAIN recent : recent[j] = recent'[i]  BY <1>1, <1>3, <2>1, <2>2
    <3> QED  BY <3>1, <2>1, <2>2 DEF BatchOK
  <2> QED  BY <2>1, <2>2, <1>1 DEF BatchOK
<1>5. ASSUME NEW i \in DOMAIN recent', recent'[i].id <= cur
      PROVE  \E m \in DOMAIN shown[p] : shown[p][m] = recent'[i].id
  <2>1. PICK j \in DOMAIN recent : recent[j] = recent'[i]  BY <1>1, <1>3, <1>5 DEF PageOK
  <2> QED  BY <2>1, <1>5 DEF PageOK
<1>6. cur < nextId'  BY <1>1 DEF PageOK
<1> QED  BY <1>4, <1>5, <1>6 DEF PageOK

(* An event that happens moves the window and changes no page. *)
LEMMA HappenKeepsInv ==
  ASSUME FeedInv, NEW u \in Uid, Happen(u)
  PROVE  FeedInv'
<1>1. Record(u) /\ UNCHANGED feedVars  BY DEF Happen
<1>2. LogTypeOK' /\ WindowIsContiguous'  BY <1>1, RecordResult DEF FeedInv
<1>3. FeedTypeOK'  BY <1>1 DEF FeedInv, FeedTypeOK, feedVars
<1>4. ASSUME NEW p \in Page \ stale'
      PROVE  PageOK(recent, nextId, server[p], onWire[p], cursor[p], shown[p])'
  <2>1. PageOK(recent', nextId', server[p], onWire[p], cursor[p], shown[p])
    BY <1>1, NewEntryIsAhead DEF FeedInv, feedVars
  <2> QED  BY <2>1, <1>1 DEF feedVars
<1> QED  BY <1>2, <1>3, <1>4 DEF FeedInv

(* The step of one page leaves the others alone. *)
LEMMA OnePageSteps ==
  ASSUME FeedInv, NEW p \in Page, UNCHANGED <<logVars, stale>>, FeedTypeOK',
         \A q \in Page \ {p} : /\ server'[q] = server[q] /\ onWire'[q] = onWire[q]
                               /\ cursor'[q] = cursor[q] /\ shown'[q] = shown[q],
         p \notin stale => PageOK(recent, nextId, server'[p], onWire'[p], cursor'[p], shown'[p])
  PROVE  FeedInv'
<1>1. LogTypeOK' /\ WindowIsContiguous'
  BY DEF FeedInv, LogTypeOK, WindowIsContiguous, logVars
<1>2. ASSUME NEW q \in Page \ stale'
      PROVE  PageOK(recent, nextId, server[q], onWire[q], cursor[q], shown[q])'
  <2>1. recent' = recent /\ nextId' = nextId /\ stale' = stale  BY DEF logVars
  <2>2. CASE q = p  BY <2>1, <2>2
  <2>3. CASE q # p
    <3>1. PageOK(recent, nextId, server[q], onWire[q], cursor[q], shown[q])
      BY <2>1 DEF FeedInv
    <3> QED  BY <3>1, <2>1, <2>3
  <2> QED  BY <2>2, <2>3
<1> QED  BY <1>1, <1>2 DEF FeedInv

(* A page that opens or reloads its websocket begins with nothing on its      *)
(* way.                                                                       *)
LEMMA ConnectKeepsInv == ASSUME FeedInv, NEW p \in Page, Connect(p) PROVE FeedInv'
<1>1. FeedTypeOK'  BY DEF FeedInv, FeedTypeOK, Connect
<1>2. ASSUME p \notin stale
      PROVE  PageOK(recent, nextId, server'[p], onWire'[p], cursor'[p], shown'[p])
  <2>1. PageOK(recent, nextId, server[p], onWire[p], cursor[p], shown[p]) /\ server[p] = Disconnected
    BY <1>2 DEF FeedInv, Connect
  <2>2. onWire'[p] = << >> /\ onWire[p] = << >> /\ server'[p] = cursor[p] /\ cursor[p] \in Nat
        /\ cursor'[p] = cursor[p] /\ shown'[p] = shown[p]
    BY <2>1 DEF PageOK, Connect, FeedInv, FeedTypeOK
  <2> QED  BY <2>1, <2>2, FeedAssumption DEF PageOK, Ahead, FeedAssumption
<1> QED  BY <1>1, <1>2, OnePageSteps DEF Connect, FeedInv, FeedTypeOK

(* A websocket that breaks loses what it carries, and no more. *)
LEMMA DropKeepsInv == ASSUME FeedInv, NEW p \in Page, Drop(p) PROVE FeedInv'
<1>1. FeedTypeOK'  BY DEF FeedInv, FeedTypeOK, Drop
<1>2. ASSUME p \notin stale
      PROVE  PageOK(recent, nextId, server'[p], onWire'[p], cursor'[p], shown'[p])
  <2>1. PageOK(recent, nextId, server[p], onWire[p], cursor[p], shown[p])
    BY <1>2 DEF FeedInv
  <2>2. onWire'[p] = << >> /\ server'[p] = Disconnected /\ cursor'[p] = cursor[p] /\ shown'[p] = shown[p]
    BY DEF Drop, FeedInv, FeedTypeOK
  <2> QED  BY <2>1, <2>2 DEF PageOK
<1> QED  BY <1>1, <1>2, OnePageSteps DEF Drop, FeedInv, FeedTypeOK

(* Places in a sequence that is put after another of length n.               *)
LEMMA ShiftedPlaces ==
  ASSUME NEW n \in Nat, NEW L \in Nat
  PROVE  /\ \A m \in 1 .. L : n + m \in n + 1 .. n + L /\ (n + m) - n = m
         /\ \A i \in n + 1 .. n + L : i - n \in 1 .. L /\ n + (i - n) = i
         /\ \A k \in 1 .. n + L : k \in 1 .. n \/ k \in n + 1 .. n + L
OBVIOUS

(* The second of two sequences that are put together.                        *)
LEMMA SecondPart ==
  ASSUME NEW S, NEW a \in Seq(S), NEW b \in Seq(S), NEW i \in 1 .. Len(b)
  PROVE  (a \o b)[Len(a) + i] = b[i]
<1>1. Len(a) \in Nat /\ Len(b) \in Nat /\ i \in Nat /\ 1 <= i /\ i <= Len(b)  OBVIOUS
<1>2. Len(a) + i \in 1 .. Len(a) + Len(b) /\ Len(a) + i > Len(a) /\ Len(a) + i - Len(a) = i
  BY <1>1
<1> QED  BY <1>2

(* A page that has received its next batch. *)
LEMMA ReceivedBatch ==
  ASSUME FeedTypeOK, LogTypeOK, NEW p \in Page, NEW w, NEW cur, NEW sh,
         w = onWire[p], cur = cursor[p], sh = shown[p], w # << >>,
         PageOK(recent, nextId, server[p], w, cur, sh)
  PROVE  /\ Head(w).cursor >= cur
         /\ PageOK(recent, nextId, server[p], Tail(w), Head(w).cursor, sh \o IdsOf(Head(w).events))
<1> DEFINE b == Head(w)  t == Tail(w)  ids == IdsOf(b.events)  n == Len(sh)
<1>1. w \in Seq(Batch) /\ Len(w) \in Nat \ {0} /\ cur \in Nat /\ sh \in Seq(Nat) /\ n \in Nat
  BY DEF FeedTypeOK
<1>2. b = w[1] /\ b \in Batch /\ t \in Seq(Batch) /\ Len(t) = Len(w) - 1
      /\ \A k \in 1 .. Len(t) : t[k] = w[k + 1]
  BY <1>1
<1>3. b.events \in Seq(Entry) /\ b.cursor \in Nat  BY <1>2 DEF Batch
<1>4. ids \in Seq(Nat) /\ Len(ids) = Len(b.events) /\ \A i \in 1 .. Len(ids) : ids[i] = b.events[i].id
  BY <1>3, IdsOfResult
<1>5. BatchOK(recent, cur, b) /\ b.cursor < nextId
  <2>1. 1 \in 1 .. Len(w) /\ CursorBefore(w, cur, 1) = cur  BY <1>1 DEF CursorBefore
  <2> QED  BY <2>1, <1>2 DEF PageOK
<1>6. b.cursor >= cur  BY <1>5, <1>3, <1>1 DEF BatchOK
<1>0. DOMAIN sh = 1 .. n  BY <1>1
<1> HIDE DEF b, t, ids, n
<1>7. ASSUME NEW k \in 1 .. Len(t)
      PROVE  t[k].cursor < nextId /\ BatchOK(recent, CursorBefore(t, b.cursor, k), t[k])
  <2>1. k + 1 \in 1 .. Len(w) /\ t[k] = w[k + 1]  BY <1>1, <1>2
  <2>2. CursorBefore(t, b.cursor, k) = CursorBefore(w, cur, k + 1)
    <3>1. CASE k = 1
      <4>1. CursorBefore(t, b.cursor, k) = b.cursor /\ CursorBefore(w, cur, k + 1) = w[k + 1 - 1].cursor
        BY <3>1 DEF CursorBefore
      <4> QED  BY <4>1, <3>1, <1>2
    <3>2. CASE k # 1
      <4>1. k - 1 \in 1 .. Len(t) /\ (k - 1) + 1 = k /\ k + 1 - 1 = k /\ k + 1 # 1
        BY <3>2, <1>1, <1>2
      <4>2. t[k - 1] = w[k]  BY <4>1, <1>2
      <4> QED  BY <3>2, <4>1, <4>2 DEF CursorBefore
    <3> QED  BY <3>1, <3>2
  <2> QED  BY <2>1, <2>2 DEF PageOK
<1>8. IF server[p] = Disconnected THEN t = << >> ELSE server[p] = Ahead(t, b.cursor)
  <2>1. server[p] # Disconnected /\ server[p] = w[Len(w)].cursor  BY DEF PageOK, Ahead
  <2>2. CASE t = << >>
    <3>1. Len(w) = 1  BY <2>2, <1>1, <1>2
    <3> QED  BY <2>1, <2>2, <3>1, <1>2 DEF Ahead
  <2>3. CASE t # << >>
    <3>1. Len(t) \in 1 .. Len(t) /\ Len(t) + 1 = Len(w)  BY <2>3, <1>1, <1>2
    <3>2. t[Len(t)] = w[Len(w)]  BY <3>1, <1>2
    <3> QED  BY <2>1, <2>3, <3>2 DEF Ahead
  <2> QED  BY <2>2, <2>3
<1> DEFINE new == sh \o ids
<1>9. /\ new \in Seq(Nat) /\ Len(new) = n + Len(ids) /\ Len(ids) \in Nat
      /\ \A i \in 1 .. n : new[i] = sh[i]
      /\ \A i \in n + 1 .. n + Len(ids) : i - n \in 1 .. Len(ids) /\ new[i] = ids[i - n]
  <2>1. Len(sh) = n /\ Len(ids) \in Nat  BY <1>4 DEF n
  <2>0. sh \in Seq(Nat) /\ ids \in Seq(Nat)  BY <1>1, <1>4
  <2>2. new \in Seq(Nat) /\ Len(new) = Len(sh) + Len(ids)  BY <2>0
  <2>3. \A i \in 1 .. Len(sh) : new[i] = sh[i]  BY <2>0
  <2>4. ASSUME NEW i \in n + 1 .. n + Len(ids)
        PROVE  i - n \in 1 .. Len(ids) /\ new[i] = ids[i - n]
    <3>0. n \in Nat  BY <1>1
    <3>1. i - n \in 1 .. Len(ids) /\ n + (i - n) = i  BY <3>0, <2>1, ShiftedPlaces
    <3>2. new[Len(sh) + (i - n)] = ids[i - n]  BY SMTT(30), <2>0, <3>1, SecondPart
    <3> QED  BY <2>1, <3>1, <3>2
  <2> QED  BY <2>1, <2>2, <2>3, <2>4
<1> HIDE DEF new
<1>10. /\ \A i \in 1 .. n : sh[i] <= cur /\ sh[i] \in Nat
       /\ \A i, j \in 1 .. n : i < j => sh[i] < sh[j]
  <2>1. DOMAIN sh = 1 .. n  BY <1>1 DEF n
  <2>2. \A i \in 1 .. n : sh[i] \in Nat  BY <2>1, <1>1
  <2> QED  BY <2>1, <2>2 DEF PageOK
<1>11. /\ \A i \in 1 .. Len(ids) : cur < ids[i] /\ ids[i] <= b.cursor /\ ids[i] \in Nat
       /\ \A i, j \in 1 .. Len(ids) : i < j => ids[i] < ids[j]
  <2>1. DOMAIN b.events = 1 .. Len(ids)  BY <1>3, <1>4
  <2>2. \A i \in 1 .. Len(ids) : ids[i] \in Nat /\ ids[i] = b.events[i].id  BY <1>4
  <2>3. /\ \A i \in 1 .. Len(ids) : cur < b.events[i].id /\ b.events[i].id <= b.cursor
        /\ \A i, j \in 1 .. Len(ids) : i < j => b.events[i].id < b.events[j].id
    BY <2>1, <1>5 DEF BatchOK
  <2> QED  BY <2>2, <2>3
<1>12. DOMAIN new = 1 .. n + Len(ids)  BY <1>9
<1>13. ASSUME NEW i \in DOMAIN new PROVE new[i] <= b.cursor
  <2>1. CASE i \in 1 .. n  BY <2>1, <1>1, <1>3, <1>6, <1>9, <1>10
  <2>2. CASE i \in n + 1 .. n + Len(ids)  BY <2>2, <1>9, <1>11
  <2>3. i \in 1 .. n \/ i \in n + 1 .. n + Len(ids)  BY <1>1, <1>9, <1>12
  <2> QED  BY <2>1, <2>2, <2>3
<1>14. ASSUME NEW i \in DOMAIN new, NEW j \in DOMAIN new, i < j PROVE new[i] < new[j]
  <2>1. CASE j \in 1 .. n
    <3>1. i \in 1 .. n  BY <2>1, <1>14, <1>12, <1>1
    <3> QED  BY <2>1, <3>1, <1>9, <1>10, <1>14
  <2>2. CASE j \in n + 1 .. n + Len(ids) /\ i \in 1 .. n
    <3>1. new[i] <= cur /\ new[i] \in Nat  BY <2>2, <1>9, <1>10
    <3>2. cur < new[j] /\ new[j] \in Nat  BY <2>2, <1>9, <1>11
    <3> QED  BY <3>1, <3>2, <1>1
  <2>3. CASE j \in n + 1 .. n + Len(ids) /\ i \in n + 1 .. n + Len(ids)
    <3>1. /\ i - n \in 1 .. Len(ids) /\ j - n \in 1 .. Len(ids)
          /\ new[i] = ids[i - n] /\ new[j] = ids[j - n]
      BY <2>3, <1>9
    <3>2. i - n < j - n  BY <2>3, <1>1, <1>9, <1>14
    <3> QED  BY <3>1, <3>2, <1>11
  <2>4. \A k \in DOMAIN new : k \in 1 .. n \/ k \in n + 1 .. n + Len(ids)  BY <1>1, <1>9, <1>12
  <2> QED  BY <2>1, <2>2, <2>3, <2>4
<1>15. ASSUME NEW i \in DOMAIN recent, recent[i].id <= b.cursor
       PROVE  \E k \in DOMAIN new : new[k] = recent[i].id
  <2>0. recent[i].id \in Nat  BY EntriesOf DEF LogTypeOK
  <2>1. CASE recent[i].id <= cur
    <3>1. PICK k \in DOMAIN sh : sh[k] = recent[i].id  BY <2>1 DEF PageOK
    <3>2. k \in 1 .. n /\ k \in DOMAIN new  BY <3>1, <1>0, <1>1, <1>9, <1>12
    <3> QED  BY <3>1, <3>2, <1>9
  <2>2. CASE ~(recent[i].id <= cur)
    <3>1. cur < recent[i].id  BY <2>0, <2>2, <1>1
    <3>2. PICK m \in DOMAIN b.events : b.events[m].id = recent[i].id
      BY <3>1, <1>5, <1>15 DEF BatchOK
    <3>3. m \in 1 .. Len(ids) /\ ids[m] = recent[i].id  BY <3>2, <1>3, <1>4
    <3>0. n \in Nat /\ Len(ids) \in Nat  BY <1>1, <1>9
    <3>4. n + m \in n + 1 .. n + Len(ids) /\ (n + m) - n = m  BY <3>0, <3>3, ShiftedPlaces
    <3>5. n + m \in DOMAIN new  BY <3>4, <1>1, <1>12
    <3>6. new[n + m] = ids[m]  BY <3>4, <1>9
    <3> QED  BY <3>3, <3>5, <3>6
  <2> QED  BY <2>1, <2>2
<1>16. PageOK(recent, nextId, server[p], t, b.cursor, new)
  BY <1>5, <1>7, <1>8, <1>13, <1>14, <1>15 DEF PageOK
<1> QED  BY <1>6, <1>16 DEF b, t, new, ids

(* A batch that arrives is shown, and the cursor passes what it held. *)
LEMMA ReceiveKeepsInv == ASSUME FeedInv, NEW p \in Page, OnMessage(p) PROVE FeedInv'
<1> DEFINE b == Head(onWire[p])
<1>1. onWire[p] \in Seq(Batch) /\ onWire[p] # << >> /\ cursor[p] \in Nat /\ shown[p] \in Seq(Nat)
  BY DEF FeedInv, FeedTypeOK, OnMessage
<1>2. b \in Batch /\ Tail(onWire[p]) \in Seq(Batch)  BY <1>1
<1>3. IdsOf(b.events) \in Seq(Nat)  BY <1>2, IdsOfResult DEF Batch
<1>4. shown[p] \o IdsOf(b.events) \in Seq(Nat)  BY <1>1, <1>3
<1>5. b.cursor \in Nat  BY <1>2 DEF Batch
<1>6. FeedTypeOK'
  BY <1>2, <1>4, <1>5 DEF FeedInv, FeedTypeOK, OnMessage
<1>7. ASSUME p \notin stale
      PROVE  PageOK(recent, nextId, server'[p], onWire'[p], cursor'[p], shown'[p])
  <2>1. PageOK(recent, nextId, server[p], onWire[p], cursor[p], shown[p])
    BY <1>7 DEF FeedInv
  <2>2. /\ b.cursor >= cursor[p]
        /\ PageOK(recent, nextId, server[p], Tail(onWire[p]), b.cursor, shown[p] \o IdsOf(b.events))
    BY <2>1, <1>1, ReceivedBatch DEF FeedInv
  <2>3. onWire'[p] = Tail(onWire[p]) /\ shown'[p] = shown[p] \o IdsOf(b.events) /\ server'[p] = server[p]
    BY DEF OnMessage, FeedInv, FeedTypeOK
  <2>4. cursor'[p] = b.cursor  BY <2>2, <1>1, <1>5 DEF OnMessage, FeedInv, FeedTypeOK
  <2> QED  BY <2>2, <2>3, <2>4
<1> QED  BY <1>6, <1>7, OnePageSteps DEF OnMessage, FeedInv, FeedTypeOK

(* A page whose next batch is on its way. *)
LEMMA SentBatch ==
  ASSUME FeedTypeOK, LogTypeOK, WindowIsContiguous, NEW p \in Page, NEW w, NEW cur,
         w = onWire[p], cur = cursor[p], server[p] # Disconnected, NEW b, b = Since(server[p], BatchLimit),
         b # [events |-> << >>, cursor |-> server[p]],
         PageOK(recent, nextId, server[p], w, cur, shown[p])
  PROVE  /\ b.events # << >>
         /\ PageOK(recent, nextId, b.cursor, Append(w, b), cur, shown[p])
<1> DEFINE c == server[p]  eff == Effective(c)  n == Len(b.events)  L == Len(w)  a == Append(w, b)
<1>1. /\ w \in Seq(Batch) /\ L \in Nat /\ cur \in Nat /\ c \in Nat
      /\ BatchLimit \in Nat \ {0} /\ nextId \in Nat
  BY FeedAssumption DEF FeedTypeOK, LogTypeOK, FeedAssumption
<1>2. c = Ahead(w, cur) /\ c < nextId
  <2>1. c = Ahead(w, cur) /\ cur < nextId  BY DEF PageOK
  <2>2. CASE w = << >>  BY <2>1, <2>2 DEF Ahead
  <2>3. CASE w # << >>
    <3>1. L \in 1 .. Len(w) /\ c = w[L].cursor  BY <2>1, <2>3, <1>1 DEF Ahead
    <3> QED  BY <2>1, <3>1 DEF PageOK
  <2> QED  BY <2>2, <2>3
<1>3. recent # << >>  BY DEF Since
<1>4. /\ Floor \in Nat \ {0} /\ Ceiling \in Nat /\ Ceiling + 1 = nextId
      /\ Len(recent) \in Nat /\ DOMAIN recent = 1 .. Len(recent)
      /\ Floor + Len(recent) = nextId
      /\ \A i \in 1 .. Len(recent) : recent[i].id = Floor + i - 1
  BY <1>3, EndsOfWindow
<1>5. eff \in Nat /\ c <= eff /\ (c >= Floor - 1 => eff = c) /\ (c < Floor - 1 => eff = Floor - 1)
      /\ Floor <= eff + 1 /\ eff <= Ceiling
  <2>1. c <= Ceiling  BY <1>1, <1>2, <1>4
  <2> QED  BY <2>1, <1>1, <1>4 DEF Effective
<1>6. /\ b = [events |-> b.events, cursor |-> b.cursor] /\ b.events \in Seq(Entry) /\ n \in Nat
      /\ b.cursor = eff + n /\ b.cursor <= Ceiling /\ (n = 0 <=> eff = Ceiling)
      /\ \A k \in 1 .. n : b.events[k].id = eff + k
  BY <1>1, <1>3, SinceResult
<1> HIDE DEF n, L, eff
<1>7. n # 0
  <2> SUFFICES ASSUME n = 0 PROVE FALSE  OBVIOUS
  <2>1. eff = Ceiling /\ eff = c
    <3>1. eff = Ceiling  BY <1>6
    <3>2. CASE c >= Floor - 1  BY <3>1, <3>2, <1>5
    <3>3. CASE c < Floor - 1  BY <3>1, <3>3, <1>1, <1>3, <1>4, <1>5
    <3> QED  BY <3>1, <3>2, <3>3, <1>1, <1>4
  <2>2. b.cursor = c  BY <2>1, <1>1, <1>6
  <2>3. b.events = << >>  BY <1>6 DEF n
  <2> QED  BY <2>2, <2>3, <1>6
<1>8. b.events # << >> /\ DOMAIN b.events = 1 .. n  BY <1>6, <1>7 DEF n
<1>9. b.cursor \in Nat /\ b.cursor < nextId /\ c <= b.cursor /\ b \in Batch
  <2>0. /\ eff \in Nat /\ n \in Nat /\ b.cursor = eff + n /\ b.cursor <= Ceiling /\ c <= eff
        /\ c \in Nat /\ Ceiling + 1 = nextId /\ Ceiling \in Nat
    BY <1>1, <1>4, <1>5, <1>6
  <2>1. b.cursor \in Nat /\ b.cursor < nextId /\ c <= b.cursor
    BY <2>0
  <2>2. b \in Batch  BY <2>1, <1>6 DEF Batch
  <2> QED  BY <2>1, <2>2
<1>10. BatchOK(recent, c, b)
  <2>1. \A i, j \in 1 .. n : i < j => b.events[i].id < b.events[j].id  BY <1>5, <1>6
  <2>2. \A i \in 1 .. n : c < b.events[i].id /\ b.events[i].id <= b.cursor  BY SMTT(30), <1>1, <1>5, <1>6
  <2>3. ASSUME NEW i \in 1 .. Len(recent), c < recent[i].id, recent[i].id <= b.cursor
        PROVE  \E m \in 1 .. n : b.events[m].id = recent[i].id
    <3>1. recent[i].id = Floor + i - 1 /\ recent[i].id \in Nat  BY <1>4
    <3>2. recent[i].id > eff  BY <2>3, <3>1, <1>1, <1>4, <1>5
    <3>3. recent[i].id - eff \in 1 .. n  BY <2>3, <3>1, <3>2, <1>5, <1>6
    <3>4. b.events[recent[i].id - eff].id = eff + (recent[i].id - eff)  BY <3>3, <1>6
    <3>5. eff + (recent[i].id - eff) = recent[i].id  BY <3>1, <1>5
    <3> QED  BY <3>3, <3>4, <3>5
  <2> QED  BY <2>1, <2>2, <2>3, <1>4, <1>8, <1>9 DEF BatchOK
<1>11. /\ a \in Seq(Batch) /\ Len(a) = L + 1 /\ a[L + 1] = b /\ a # << >>
       /\ \A k \in 1 .. L : a[k] = w[k]
  BY <1>1, <1>9 DEF L
<1> HIDE DEF a
<1>12. ASSUME NEW k \in 1 .. Len(a)
       PROVE  a[k].cursor < nextId /\ BatchOK(recent, CursorBefore(a, cur, k), a[k])
  <2>1. CASE k = L + 1
    <3>1. CursorBefore(a, cur, k) = c
      <4>1. CASE L = 0
        <5>1. w = << >> /\ k = 1  BY <2>1, <4>1, <1>1 DEF L
        <5> QED  BY <5>1, <1>2 DEF CursorBefore, Ahead
      <4>2. CASE L # 0
        <5>1. k # 1 /\ k - 1 = L /\ L \in 1 .. L /\ w # << >>  BY <2>1, <4>2, <1>1 DEF L
        <5>2. CursorBefore(a, cur, k) = a[L].cursor  BY <5>1 DEF CursorBefore
        <5>3. a[L] = w[L]  BY <5>1, <1>11
        <5> QED  BY <5>1, <5>2, <5>3, <1>2 DEF Ahead, L
      <4> QED  BY <4>1, <4>2
    <3> QED  BY <2>1, <3>1, <1>9, <1>10, <1>11
  <2>2. CASE k # L + 1
    <3>1. k \in 1 .. L  BY <2>2, <1>1, <1>11
    <3>2. CursorBefore(a, cur, k) = CursorBefore(w, cur, k)
      <4>1. CASE k = 1  BY <4>1 DEF CursorBefore
      <4>2. CASE k # 1
        <5>1. k - 1 \in 1 .. L  BY <3>1, <4>2, <1>1
        <5> QED  BY <4>2, <5>1, <1>11 DEF CursorBefore
      <4> QED  BY <4>1, <4>2
    <3>3. a[k] = w[k]  BY <3>1, <1>11
    <3>4. w[k].cursor < nextId /\ BatchOK(recent, CursorBefore(w, cur, k), w[k])
      BY <3>1 DEF PageOK, L
    <3> QED  BY <3>2, <3>3, <3>4
  <2> QED  BY <2>1, <2>2
<1>13. b.cursor = Ahead(a, cur) /\ b.cursor # Disconnected
  BY <1>9, <1>11, FeedAssumption DEF Ahead, FeedAssumption
<1>14. PageOK(recent, nextId, b.cursor, a, cur, shown[p])  BY <1>12, <1>13 DEF PageOK
<1> QED  BY <1>8, <1>14 DEF a

(* What a round of the loop computes for any page, however wrong its cursor. *)
LEMMA BatchTypes ==
  ASSUME LogTypeOK, WindowIsContiguous, NEW c \in Nat
  PROVE  LET b == Since(c, BatchLimit) IN b \in Batch /\ b.cursor \in Nat
<1>1. CASE recent = << >>
  <2>1. Since(c, BatchLimit) = [events |-> << >>, cursor |-> c]  BY <1>1 DEF Since
  <2>2. << >> \in Seq(Entry)  OBVIOUS
  <2> QED  BY <2>1, <2>2 DEF Batch
<1>2. CASE recent # << >>
  <2> DEFINE b == Since(c, BatchLimit)
  <2>1. /\ b = [events |-> b.events, cursor |-> b.cursor] /\ b.events \in Seq(Entry)
        /\ Len(b.events) \in Nat /\ b.cursor = Effective(c) + Len(b.events)
    BY <1>2, SinceResult, FeedAssumption DEF FeedAssumption
  <2>2. Effective(c) \in Nat  BY <1>2, EffectiveResult
  <2>3. b.cursor \in Nat  BY <2>1, <2>2
  <2> HIDE DEF b
  <2>4. b \in Batch  BY <2>1, <2>3 DEF Batch
  <2> QED  BY <2>3, <2>4 DEF b
<1> QED  BY <1>1, <1>2

(* A round of the loop sends the page what its cursor has not passed. *)
LEMMA PollKeepsInv == ASSUME FeedInv, NEW p \in Page, Poll(p) PROVE FeedInv'
<1> DEFINE b == Since(server[p], BatchLimit)
<1>1. server[p] # Disconnected /\ server[p] \in Nat /\ onWire[p] \in Seq(Batch)
  BY DEF FeedInv, FeedTypeOK, Poll
<1>2. b \in Batch /\ b.cursor \in Nat  BY <1>1, BatchTypes DEF FeedInv
<1>3. /\ server' = [server EXCEPT ![p] = b.cursor]
      /\ onWire' = IF b.events = << >> THEN onWire ELSE [onWire EXCEPT ![p] = Append(@, b)]
      /\ UNCHANGED <<logVars, cursor, shown, stale>>
      /\ b # [events |-> << >>, cursor |-> server[p]]
  BY DEF Poll
<1> HIDE DEF b
<1>4. Append(onWire[p], b) \in Seq(Batch)  BY <1>1, <1>2
<1>5. FeedTypeOK'  BY <1>2, <1>3, <1>4 DEF FeedInv, FeedTypeOK
<1>6. ASSUME p \notin stale
      PROVE  PageOK(recent, nextId, server'[p], onWire'[p], cursor'[p], shown'[p])
  <2>1. PageOK(recent, nextId, server[p], onWire[p], cursor[p], shown[p])
    BY <1>6 DEF FeedInv
  <2>2. /\ b.events # << >>
        /\ PageOK(recent, nextId, b.cursor, Append(onWire[p], b), cursor[p], shown[p])
    BY <2>1, <1>1, <1>3, SentBatch DEF FeedInv, b
  <2>3. onWire'[p] = Append(onWire[p], b) /\ server'[p] = b.cursor
        /\ cursor'[p] = cursor[p] /\ shown'[p] = shown[p]
    BY <2>2, <1>3 DEF FeedInv, FeedTypeOK
  <2> QED  BY <2>2, <2>3
<1>7. \A q \in Page \ {p} : /\ server'[q] = server[q] /\ onWire'[q] = onWire[q]
                             /\ cursor'[q] = cursor[q] /\ shown'[q] = shown[q]
  BY <1>3 DEF FeedInv, FeedTypeOK
<1> QED  BY <1>3, <1>5, <1>6, <1>7, OnePageSteps

(* After a restart every page that is not stale begins from nothing. *)
LEMMA RestartKeepsInv == ASSUME FeedInv, Restart PROVE FeedInv'
<1>1. recent' = << >> /\ nextId' = 1  BY DEF Restart
<1>2. LogTypeOK' /\ WindowIsContiguous'
  BY <1>1, WindowAssumption DEF LogTypeOK, WindowIsContiguous, WindowAssumption
<1>3. FeedTypeOK'  BY DEF FeedInv, FeedTypeOK, Restart
<1>4. ASSUME NEW p \in Page \ stale'
      PROVE  PageOK(recent, nextId, server[p], onWire[p], cursor[p], shown[p])'
  <2>1. /\ server'[p] = Disconnected /\ onWire'[p] = << >> /\ shown'[p] = << >>
        /\ cursor'[p] = cursor[p] /\ ~(cursor[p] > 0) /\ cursor[p] \in Nat
    BY <1>4 DEF FeedInv, FeedTypeOK, Restart
  <2> QED  BY <2>1, <1>1 DEF PageOK
<1> QED  BY <1>2, <1>3, <1>4 DEF FeedInv

(* A step of others. *)
LEMMA FeedStutters == ASSUME FeedInv, UNCHANGED feedAll PROVE FeedInv'
<1>1. /\ recent' = recent /\ nextId' = nextId /\ server' = server /\ onWire' = onWire
      /\ cursor' = cursor /\ shown' = shown /\ stale' = stale
  BY DEF feedAll, feedVars, logVars
<1> QED  BY <1>1 DEF FeedInv, FeedTypeOK, LogTypeOK, WindowIsContiguous

(* The invariant holds of every behaviour of the feed. *)
LEMMA FeedAlwaysInv == FeedSpec => []FeedInv
<1>1. FeedInv /\ [FeedNext]_feedAll => FeedInv'
  BY HappenKeepsInv, ConnectKeepsInv, PollKeepsInv, ReceiveKeepsInv, DropKeepsInv,
     RestartKeepsInv, FeedStutters DEF FeedNext
<1> QED  BY <1>1, FeedInitInv, PTL DEF FeedSpec

(* However websockets break and batches are lost, of whatever size the window *)
(* and the batches are: a page shows the events in order and none twice, and   *)
(* has been shown every event of the window that its cursor has passed.        *)
THEOREM FeedShowsInOrder == FeedSpec => []ShownInOrder
<1>1. FeedInv => ShownInOrder  BY DEF FeedInv, PageOK, ShownInOrder
<1> QED  BY <1>1, FeedAlwaysInv, PTL

----------------------------------------------------------------------------
(* What the table of the last deliveries holds, and what a key's history.   *)
Delivery == [key : Key, at : Nat]
Taken    == [at : Nat, of : Nat]

KeysDiffer(table) == \A i, j \in DOMAIN table : table[i].key = table[j].key => i = j

Pruning  == {"prune", "scan", "drop", "evict"}
JobState == {"none", "queued", "sent", "failed"}

AlertCall == [at : {"idle", "route", "wait"} \cup Pruning, alert : Alert \cup {NoAlert}, of : Nat,
              check : Seq(Place), eligible : Seq(Place), wait : Seq(Place),
              stale : SUBSET Key, disturbed : BOOLEAN]

(* A caller has destinations in hand only in its part of the call.          *)
AlertCallOK(c) ==
  /\ call[c].at # "idle" => call[c].alert \in Alert
  /\ call[c].at # "route" => call[c].check = << >> /\ call[c].eligible = << >>
  /\ call[c].at \in {"idle", "route"} => call[c].wait = << >> /\ job[c] = NoJobs
  /\ \A i \in Place : job[c][i] = "queued" => i \in ToSet(call[c].wait)

(* The type of the router's state.                                          *)
AlertTypeOK ==
  /\ now \in Nat /\ lastSent \in Seq(Delivery) /\ sent \in Nat
  /\ call \in [Caller -> AlertCall]
  /\ job \in [Caller -> [Place -> JobState]]
  /\ \A c \in Caller : AlertCallOK(c)
  /\ acks \in [Key -> Seq(Taken)]

(* c is going to prune the table, and no error will keep it from that.      *)
WillPrune(c) ==
  \/ call[c].at \in {"prune", "drop", "evict"}
  \/ call[c].at = "scan" /\ ~call[c].disturbed

(* The table holds a key once, and somebody sees to its size.               *)
TableSound ==
  /\ KeysDiffer(lastSent)
  /\ \A i \in DOMAIN lastSent : lastSent[i].at <= now
  /\ Len(lastSent) > MaxKeys => \E c \in Caller : WillPrune(c)

LastAck(k) == acks[k][Len(acks[k])].at
LastOf(k)  == acks[k][Len(acks[k])].of
(* The last delivery of k was less than the throttle ago.                   *)
Recent(k) == acks[k] # << >> /\ now - LastAck(k) < Throttle

(* A delivery that was just made is in the table or about to come in.       *)
InTable(k) == \E i \in DOMAIN lastSent : lastSent[i].key = k /\ lastSent[i].at >= LastAck(k)
Coming(c, k) ==
  \E i \in ToSet(call[c].wait) : ThrottleKey[i, call[c].alert] = k /\ job[c][i] = "sent"
Remembered(k) == InTable(k) \/ \E c \in Caller : Coming(c, k)

(* While one caller at a time is busy with a key it is throttled, but for    *)
(* the other destinations of the same alert.                                *)
ThrottleInv ==
  /\ \A k \in Key : \A i \in DOMAIN acks[k] : acks[k][i].at <= now
  /\ \A k \in Key \ forgotten : Recent(k) => Remembered(k)
  /\ \A k \in Key \ raced : \A c, o \in Caller : BusyWith(c, k) /\ BusyWith(o, k) => c = o
  /\ \A k \in Key \ (raced \cup forgotten) : \A c \in Caller :
       BusyWith(c, k) /\ Recent(k) => LastOf(k) = call[c].of
  /\ SerialThrottle

(* The inductive invariant of the router.                                   *)
AlertInv == AlertTypeOK /\ TableSound /\ ThrottleInv

(* What ToSet makes of the sequences of destinations.                       *)
LEMMA SetsOfSequences ==
  ASSUME NEW S
  PROVE  /\ ToSet(<< >>) = {}
         /\ \A s \in Seq(S) : ToSet(s) \subseteq S /\ (ToSet(s) = {} <=> s = << >>)
         /\ \A s \in Seq(S), e \in S :
              Append(s, e) \in Seq(S) /\ ToSet(Append(s, e)) = ToSet(s) \cup {e}
         /\ \A s \in Seq(S) : s # << >> =>
              /\ Tail(s) \in Seq(S) /\ Head(s) \in S
              /\ ToSet(s) = {Head(s)} \cup ToSet(Tail(s))
<1>1. ToSet(<< >>) = {}  BY DEF ToSet
<1>2. \A s \in Seq(S) : ToSet(s) \subseteq S /\ (ToSet(s) = {} <=> s = << >>)  BY DEF ToSet
<1>3. ASSUME NEW s \in Seq(S), NEW e \in S
      PROVE  Append(s, e) \in Seq(S) /\ ToSet(Append(s, e)) = ToSet(s) \cup {e}
  <2>1. /\ Append(s, e) \in Seq(S) /\ DOMAIN Append(s, e) = 1 .. Len(s) + 1 /\ DOMAIN s = 1 .. Len(s)
        /\ Len(s) \in Nat
        /\ \A i \in 1 .. Len(s) : Append(s, e)[i] = s[i]
        /\ Append(s, e)[Len(s) + 1] = e
    OBVIOUS
  <2> QED  BY <2>1 DEF ToSet
<1>4. ASSUME NEW s \in Seq(S), s # << >>
      PROVE  /\ Tail(s) \in Seq(S) /\ Head(s) \in S
             /\ ToSet(s) = {Head(s)} \cup ToSet(Tail(s))
  <2>1. /\ Len(s) \in Nat \ {0} /\ DOMAIN s = 1 .. Len(s) /\ DOMAIN Tail(s) = 1 .. Len(s) - 1
        /\ Tail(s) \in Seq(S) /\ Head(s) = s[1] /\ Head(s) \in S
        /\ \A i \in 1 .. Len(s) - 1 : Tail(s)[i] = s[i + 1]
    BY <1>4
  <2>2. \A i \in 1 .. Len(s) : i = 1 \/ (i - 1 \in 1 .. Len(s) - 1 /\ s[i] = Tail(s)[i - 1])
    <3> SUFFICES ASSUME NEW i \in 1 .. Len(s), i # 1
                 PROVE  i - 1 \in 1 .. Len(s) - 1 /\ s[i] = Tail(s)[i - 1]
      OBVIOUS
    <3>1. i - 1 \in 1 .. Len(s) - 1 /\ (i - 1) + 1 = i  BY <2>1
    <3> QED  BY <2>1, <3>1
  <2>3. \A i \in 1 .. Len(s) - 1 : i + 1 \in 1 .. Len(s)  BY <2>1
  <2>4. ToSet(s) = {s[i] : i \in 1 .. Len(s)} /\ ToSet(Tail(s)) = {Tail(s)[i] : i \in 1 .. Len(s) - 1}
    BY <2>1 DEF ToSet
  <2>5. ASSUME NEW e \in ToSet(s) PROVE e \in {Head(s)} \cup ToSet(Tail(s))
    <3>1. PICK i \in 1 .. Len(s) : e = s[i]  BY <2>4, <2>5
    <3> QED  BY <2>1, <2>2, <2>4, <3>1
  <2>6. ASSUME NEW e \in {Head(s)} \cup ToSet(Tail(s)) PROVE e \in ToSet(s)
    <3>1. CASE e = Head(s)  BY <2>1, <2>4, <3>1
    <3>2. CASE e \in ToSet(Tail(s))
      <4>1. PICK i \in 1 .. Len(s) - 1 : e = Tail(s)[i]  BY <2>4, <3>2
      <4>2. i + 1 \in 1 .. Len(s) /\ e = s[i + 1]  BY <2>1, <2>3, <4>1
      <4> QED  BY <2>4, <4>2
    <3> QED  BY <2>6, <3>1, <3>2
  <2>7. ToSet(s) = {Head(s)} \cup ToSet(Tail(s))  BY <2>5, <2>6
  <2> QED  BY <2>1, <2>7
<1> QED  BY <1>1, <1>2, <1>3, <1>4

(* A delivery of now is put into the table.                                 *)
LEMMA StampResult ==
  ASSUME NEW table \in Seq(Delivery), KeysDiffer(table), now \in Nat, NEW k \in Key
  PROVE  LET new == Stamp(table, k) IN
         /\ new \in Seq(Delivery) /\ KeysDiffer(new)
         /\ \E i \in DOMAIN new : new[i] = [key |-> k, at |-> now]
         /\ \A i \in DOMAIN table : table[i].key # k => \E j \in DOMAIN new : new[j] = table[i]
         /\ \A j \in DOMAIN new :
              new[j] = [key |-> k, at |-> now] \/ \E i \in DOMAIN table : new[j] = table[i]
<1> DEFINE new == Stamp(table, k)
           e == [key |-> k, at |-> now]
<1>1. e \in Delivery /\ e.key = k  BY DEF Delivery
<1>2. Len(table) \in Nat /\ DOMAIN table = 1 .. Len(table) /\ \A i \in 1 .. Len(table) : table[i] \in Delivery
  OBVIOUS
<1>3. CASE k \in KeysOf(table)
  <2>1. new = [i \in DOMAIN table |-> IF table[i].key = k THEN e ELSE table[i]]
    BY <1>3 DEF Stamp
  <2>2. PICK i0 \in DOMAIN table : table[i0].key = k  BY <1>3 DEF KeysOf
  <2> HIDE DEF new, e
  <2>3. DOMAIN new = DOMAIN table
        /\ \A i \in DOMAIN table : new[i] = IF table[i].key = k THEN e ELSE table[i]
    BY <2>1
  <2>4. new \in Seq(Delivery)  BY <1>1, <1>2, <2>1
  <2>5. \A i \in DOMAIN table : new[i].key = table[i].key  BY <1>1, <2>3
  <2>6. KeysDiffer(new)  BY <2>3, <2>5 DEF KeysDiffer
  <2>7. new[i0] = e /\ i0 \in DOMAIN new  BY <2>2, <2>3
  <2> QED  BY <2>3, <2>4, <2>6, <2>7 DEF new, e
<1>4. CASE k \notin KeysOf(table)
  <2>1. new = Append(table, e)  BY <1>4 DEF Stamp
  <2>2. \A i \in DOMAIN table : table[i].key # k  BY <1>4 DEF KeysOf
  <2> HIDE DEF new, e
  <2>3. /\ new \in Seq(Delivery) /\ DOMAIN new = 1 .. Len(table) + 1
        /\ \A i \in 1 .. Len(table) : new[i] = table[i] /\ i \in DOMAIN table
        /\ new[Len(table) + 1] = e
    BY <1>1, <1>2, <2>1
  <2>4. \A j \in DOMAIN new : j \in DOMAIN table \/ j = Len(table) + 1  BY <1>2, <2>3
  <2>5. KeysDiffer(new)
    <3> SUFFICES ASSUME NEW i \in DOMAIN new, NEW j \in DOMAIN new, new[i].key = new[j].key
                 PROVE  i = j
      BY DEF KeysDiffer
    <3>1. CASE i \in DOMAIN table /\ j \in DOMAIN table  BY <1>2, <2>3, <3>1 DEF KeysDiffer
    <3>2. CASE i \in DOMAIN table /\ j = Len(table) + 1  BY <1>1, <1>2, <2>2, <2>3, <3>2
    <3>3. CASE j \in DOMAIN table /\ i = Len(table) + 1  BY <1>1, <1>2, <2>2, <2>3, <3>3
    <3> QED  BY <2>4, <3>1, <3>2, <3>3
  <2>6. \A i \in DOMAIN table : i \in DOMAIN new /\ new[i] = table[i]  BY <1>2, <2>3
  <2>7. Len(table) + 1 \in DOMAIN new  BY <1>2, <2>3
  <2> QED  BY <2>3, <2>4, <2>5, <2>6, <2>7 DEF new, e
<1> QED  BY <1>3, <1>4

(* What a table is left with when a key is taken off it.                    *)
LessKey(new, old, k) ==
  /\ new \in Seq(Delivery) /\ KeysDiffer(new)
  /\ \A j \in DOMAIN new : \E i \in DOMAIN old : new[j] = old[i]
  /\ \A i \in DOMAIN old : old[i].key # k => \E j \in DOMAIN new : new[j] = old[i]

(* A sequence without its element at i.                                     *)
LEMMA Removed ==
  ASSUME NEW S, NEW s \in Seq(S), NEW i \in DOMAIN s
  PROVE  LET new == RemoveAt(s, i) IN
         /\ new \in Seq(S) /\ DOMAIN new = 1 .. Len(s) - 1
         /\ \A j \in 1 .. Len(s) - 1 : new[j] = IF j < i THEN s[j] ELSE s[j + 1]
<1> DEFINE low == SubSeq(s, 1, i - 1)  high == SubSeq(s, i + 1, Len(s))
<1>1. PICK n : n = Len(s)  OBVIOUS
<1>2. n \in Nat /\ i \in 1 .. n /\ DOMAIN s = 1 .. n  BY <1>1
<1>3. n \in Nat /\ i \in Nat /\ i - 1 \in Nat /\ n - i \in Nat /\ i >= 1 /\ i <= n  BY <1>2
<1>4. low \in Seq(S) /\ Len(low) = i - 1 /\ \A j \in 1 .. i - 1 : low[j] = s[j]
  BY <1>1, <1>2, <1>3
<1>5. high \in Seq(S) /\ Len(high) = n - i /\ \A j \in 1 .. n - i : high[j] = s[j + i]
  <2>1. high \in Seq(S) /\ Len(high) = n - i  BY <1>1, <1>2, <1>3
  <2>2. \A j \in 1 .. n - i : i + 1 + j - 1 = j + i  BY <1>3
  <2>3. \A j \in 1 .. n - i : high[j] = s[i + 1 + j - 1]  BY <1>1, <1>2, <1>3
  <2> QED  BY <2>1, <2>2, <2>3
<1>6. RemoveAt(s, i) = low \o high  BY DEF RemoveAt
<1> HIDE DEF low, high
<1>7. PICK new : new = low \o high  OBVIOUS
<1>8. new \in Seq(S) /\ Len(new) = n - 1
  <2>1. Len(new) = (i - 1) + (n - i)
    <3>1. \A a, b \in Seq(S) : Len(a \o b) = Len(a) + Len(b)  OBVIOUS
    <3>2. low \in Seq(S) /\ high \in Seq(S)  BY <1>4, <1>5
    <3> QED  BY <1>4, <1>5, <1>7, <3>1, <3>2
  <2>2. (i - 1) + (n - i) = n - 1  BY <1>3
  <2> QED  BY <1>4, <1>5, <1>7, <2>1, <2>2
<1>9. DOMAIN new = 1 .. n - 1  BY <1>8
<1>10. ASSUME NEW j \in 1 .. n - 1 PROVE new[j] = IF j < i THEN s[j] ELSE s[j + 1]
  <2>1. j \in Nat /\ j >= 1 /\ j <= n - 1  BY <1>3, <1>10
  <2>2. new[j] = IF j <= Len(low) THEN low[j] ELSE high[j - Len(low)]
    <3>1. j \in 1 .. Len(low) + Len(high)  BY <1>3, <1>4, <1>5, <2>1
    <3> QED  BY <1>4, <1>5, <1>7, <3>1
  <2>3. CASE j < i  BY <1>3, <1>4, <2>1, <2>2, <2>3
  <2>4. CASE ~(j < i)
    <3>1. j - (i - 1) \in 1 .. n - i /\ (j - (i - 1)) + i = j + 1 /\ ~(j <= i - 1)
      BY <1>3, <2>1, <2>4
    <3> QED  BY <1>4, <1>5, <2>2, <2>4, <3>1
  <2> QED  BY <2>3, <2>4
<1> QED  BY <1>1, <1>6, <1>7, <1>8, <1>9, <1>10

LEMMA WithoutResult ==
  ASSUME NEW table \in Seq(Delivery), KeysDiffer(table), NEW k
  PROVE  LessKey(Without(table, k), table, k)
<1> DEFINE new == Without(table, k)
<1>1. CASE k \notin KeysOf(table)
  BY <1>1 DEF Without, LessKey
<1>2. CASE k \in KeysOf(table)
  <2>1. PICK i : i = CHOOSE x \in DOMAIN table : table[x].key = k  OBVIOUS
  <2>2. i \in DOMAIN table /\ table[i].key = k  BY <1>2, <2>1 DEF KeysOf
  <2>3. new = RemoveAt(table, i)  BY <1>2, <2>1 DEF Without
  <2>4. PICK n : n = Len(table)  OBVIOUS
  <2> HIDE DEF new
  <2>5. /\ new \in Seq(Delivery) /\ DOMAIN new = 1 .. n - 1
        /\ \A j \in 1 .. n - 1 : new[j] = IF j < i THEN table[j] ELSE table[j + 1]
    BY <2>2, <2>3, <2>4, Removed
  <2>6. n \in Nat /\ DOMAIN table = 1 .. n /\ i \in 1 .. n  BY <2>2, <2>4
  <2>7. \A j \in 1 .. n - 1 : (j < i => j \in 1 .. n) /\ (~(j < i) => j + 1 \in 1 .. n)
    BY <2>6
  <2>8. \A j \in DOMAIN new : \E x \in DOMAIN table : new[j] = table[x]
    BY <2>5, <2>6, <2>7
  <2>9. ASSUME NEW x \in DOMAIN table, table[x].key # k
        PROVE  \E j \in DOMAIN new : new[j] = table[x]
    <3>1. x \in 1 .. n /\ x # i  BY <2>2, <2>6, <2>9
    <3>2. CASE x < i
      <4>1. x \in 1 .. n - 1  BY <2>6, <3>1, <3>2
      <4> QED  BY <2>5, <3>2, <4>1
    <3>3. CASE ~(x < i)
      <4>1. x - 1 \in 1 .. n - 1 /\ ~(x - 1 < i) /\ (x - 1) + 1 = x  BY <2>6, <3>1, <3>3
      <4> QED  BY <2>5, <4>1
    <3> QED  BY <3>2, <3>3
  <2>10. KeysDiffer(new)
    <3> SUFFICES ASSUME NEW a \in DOMAIN new, NEW b \in DOMAIN new, new[a].key = new[b].key
                 PROVE  a = b
      BY DEF KeysDiffer
    <3>1. a \in 1 .. n - 1 /\ b \in 1 .. n - 1  BY <2>5
    <3>2. PICK x : x = IF a < i THEN a ELSE a + 1  OBVIOUS
    <3>3. PICK y : y = IF b < i THEN b ELSE b + 1  OBVIOUS
    <3>4. x \in DOMAIN table /\ y \in DOMAIN table /\ new[a] = table[x] /\ new[b] = table[y]
      BY <2>5, <2>6, <2>7, <3>1, <3>2, <3>3
    <3>5. x = y  BY <3>4 DEF KeysDiffer
    <3> QED  BY <2>6, <3>1, <3>2, <3>3, <3>5
  <2> QED  BY <2>5, <2>8, <2>9, <2>10 DEF LessKey, new
<1> QED  BY <1>1, <1>2

LEMMA TailResult ==
  ASSUME NEW table \in Seq(Delivery), KeysDiffer(table), table # << >>
  PROVE  LessKey(Tail(table), table, Head(table).key)
<1> DEFINE new == Tail(table)
<1>1. PICK n : n = Len(table)  OBVIOUS
<1>2. /\ n \in Nat \ {0} /\ DOMAIN table = 1 .. n /\ Head(table) = table[1]
      /\ new \in Seq(Delivery) /\ Len(new) = n - 1
  BY <1>1
<1>3. DOMAIN new = 1 .. n - 1  BY <1>2
<1>4. \A j \in 1 .. n - 1 : new[j] = table[j + 1] /\ j + 1 \in 1 .. n  BY <1>1, <1>2
<1> HIDE DEF new
<1>5. \A j \in DOMAIN new : \E i \in DOMAIN table : new[j] = table[i]  BY <1>2, <1>3, <1>4
<1>6. ASSUME NEW i \in DOMAIN table, table[i].key # Head(table).key
      PROVE  \E j \in DOMAIN new : new[j] = table[i]
  <2>1. i \in 1 .. n /\ i # 1  BY <1>2, <1>6
  <2>2. i - 1 \in 1 .. n - 1 /\ (i - 1) + 1 = i  BY <1>2, <2>1
  <2> QED  BY <1>3, <1>4, <2>2
<1>7. KeysDiffer(new)
  <2> SUFFICES ASSUME NEW a \in DOMAIN new, NEW b \in DOMAIN new, new[a].key = new[b].key
               PROVE  a = b
    BY DEF KeysDiffer
  <2>1. a + 1 = b + 1  BY <1>2, <1>3, <1>4 DEF KeysDiffer
  <2> QED  BY <1>2, <1>3, <2>1
<1> QED  BY <1>2, <1>5, <1>6, <1>7 DEF LessKey, new

(* What the place of a destination in hand makes of an alert.               *)
LEMMA PlaceFacts ==
  /\ NoJobs \in [Place -> JobState] /\ \A i \in Place : NoJobs[i] = "none"
  /\ \A i \in Place, a \in Alert : ThrottleKey[i, a] \in Key
  /\ [i \in Place |-> i] \in Seq(Place)
  /\ Throttle \in Nat /\ StaleAfter \in Nat /\ StaleAfter >= Throttle /\ MaxKeys \in Nat \ {0}
<1>1. [i \in Place |-> i] \in Seq(Place)
  BY AlertsAssumption DEF AlertsAssumption, Place
<1>2. NoJobs \in [Place -> JobState] /\ \A i \in Place : NoJobs[i] = "none"
  BY DEF NoJobs, JobState
<1>3. \A i \in Place, a \in Alert : ThrottleKey[i, a] \in Key  BY DEF Key
<1>4. Throttle \in Nat /\ StaleAfter \in Nat /\ StaleAfter >= Throttle /\ MaxKeys \in Nat \ {0}
  BY AlertsAssumption DEF AlertsAssumption
<1> QED  BY <1>1, <1>2, <1>3, <1>4

(* What a caller has in hand that others' steps leave.                      *)
SameHands(o) ==
  /\ call'[o].alert = call[o].alert /\ call'[o].of = call[o].of /\ call'[o].check = call[o].check
  /\ call'[o].eligible = call[o].eligible /\ call'[o].wait = call[o].wait

LEMMA GoneOn ==
  ASSUME call \in [Caller -> AlertCall], NEW c \in Caller, NEW r \in AlertCall, GoOn(c, r)
  PROVE  /\ call' \in [Caller -> AlertCall] /\ call'[c] = r
         /\ \A o \in Caller : o # c => SameHands(o) /\ call'[o].at = call[o].at
         /\ Len(lastSent') = Len(lastSent) => \A o \in Caller : o # c => call'[o] = call[o]
<1>1. \A o \in Caller : o # c =>
        call'[o] = IF Len(lastSent') # Len(lastSent) THEN [call[o] EXCEPT !.disturbed = TRUE]
                   ELSE call[o]
  BY DEF GoOn
<1>2. call'[c] = r /\ DOMAIN call' = Caller  BY DEF GoOn
<1>3. ASSUME NEW e \in AlertCall
      PROVE  LET d == [e EXCEPT !.disturbed = TRUE] IN
             /\ d \in AlertCall /\ d.at = e.at /\ d.alert = e.alert /\ d.of = e.of
             /\ d.check = e.check /\ d.eligible = e.eligible /\ d.wait = e.wait
  BY DEF AlertCall
<1>4. ASSUME NEW o \in Caller, o # c
      PROVE  call'[o] \in AlertCall /\ SameHands(o) /\ call'[o].at = call[o].at
  <2>1. call[o] \in AlertCall  OBVIOUS
  <2>2. CASE Len(lastSent') # Len(lastSent)
    <3>1. call'[o] = [call[o] EXCEPT !.disturbed = TRUE]  BY <1>1, <1>4, <2>2
    <3> QED  BY <1>3, <2>1, <3>1 DEF SameHands
  <2>3. CASE Len(lastSent') = Len(lastSent)
    <3>1. call'[o] = call[o]  BY <1>1, <1>4, <2>3
    <3> QED  BY <2>1, <3>1 DEF SameHands
  <2> QED  BY <2>2, <2>3
<1>5. call' = [o \in Caller |-> call'[o]]  BY DEF GoOn
<1>6. \A o \in Caller : call'[o] \in AlertCall  BY <1>2, <1>4
<1>7. call' \in [Caller -> AlertCall]  BY <1>5, <1>6
<1> QED  BY <1>1, <1>2, <1>4, <1>7

(* The history of a key that was delivered.                                 *)
LEMMA RecentFacts ==
  ASSUME AlertInv, NEW k \in Key, Recent(k)
  PROVE  /\ LastAck(k) \in Nat /\ LastOf(k) \in Nat /\ LastAck(k) <= now /\ now \in Nat
         /\ now - LastAck(k) < Throttle
<1>1. acks[k] \in Seq(Taken) /\ acks[k] # << >> /\ now \in Nat
  BY DEF AlertInv, AlertTypeOK, Recent
<1>2. PICK n : n = Len(acks[k])  OBVIOUS
<1>3. n \in DOMAIN acks[k] /\ acks[k][n] \in Taken  BY <1>1, <1>2
<1> QED  BY <1>1, <1>2, <1>3 DEF AlertInv, LastAck, LastOf, Recent, ThrottleInv, Taken

(* A step that delivers nothing and makes nobody busy.                      *)
LEMMA NothingDelivered ==
  ASSUME AlertInv, AlertTypeOK', TableSound', UNCHANGED <<now, acks, raced>>,
         forgotten \subseteq forgotten',
         \A c \in Caller, k \in Key :
           BusyWith(c, k)' => BusyWith(c, k) /\ call'[c].of = call[c].of,
         \A k \in Key \ forgotten' : Recent(k) /\ Remembered(k) => Remembered(k)'
  PROVE  AlertInv'
<1> USE DEF AlertInv
<1>1. \A k \in Key : (Recent(k)' <=> Recent(k)) /\ LastOf(k)' = LastOf(k)
  BY DEF Recent, LastAck, LastOf
<1>2. SerialThrottle'  BY DEF ThrottleInv, SerialThrottle
<1>3. \A k \in Key \ forgotten' : Recent(k)' => Remembered(k)'  BY <1>1 DEF ThrottleInv
<1>4. \A k \in Key \ raced' : \A c, o \in Caller : BusyWith(c, k)' /\ BusyWith(o, k)' => c = o
  BY DEF ThrottleInv
<1>5. \A k \in Key \ (raced' \cup forgotten') : \A c \in Caller :
        BusyWith(c, k)' /\ Recent(k)' => LastOf(k)' = call'[c].of
  BY <1>1 DEF ThrottleInv
<1>6. \A k \in Key : \A i \in DOMAIN acks'[k] : acks'[k][i].at <= now'  BY DEF ThrottleInv
<1>7. ThrottleInv'  BY <1>2, <1>3, <1>4, <1>5, <1>6 DEF ThrottleInv
<1> QED  BY <1>7

(* One that leaves the table alone, too.                                    *)
LEMMA SameBusy ==
  ASSUME AlertInv, AlertTypeOK', UNCHANGED <<now, lastSent, acks, forgotten, raced>>,
         \A c \in Caller : WillPrune(c) => Len(lastSent) <= MaxKeys \/ WillPrune(c)',
         \A c \in Caller, k \in Key :
           /\ BusyWith(c, k)' => BusyWith(c, k) /\ call'[c].of = call[c].of
           /\ Coming(c, k) => Coming(c, k)'
  PROVE  AlertInv'
<1>1. lastSent \in Seq(Delivery) /\ MaxKeys \in Nat  BY PlaceFacts DEF AlertInv, AlertTypeOK
<1>2. Len(lastSent) \in Nat  BY <1>1
<1>4. TableSound'  BY <1>1, <1>2 DEF AlertInv, TableSound, KeysDiffer
<1>3. \A k \in Key : Remembered(k) => Remembered(k)'  BY DEF Remembered, InTable, LastAck
<1> QED  BY <1>3, <1>4, NothingDelivered

(* What is in hand decides with what a caller is busy.                      *)
LEMMA HandsDecide ==
  ASSUME NEW o, SameHands(o), job'[o] = job[o], NEW k
  PROVE  /\ BusyWith(o, k)' <=> BusyWith(o, k)
         /\ Coming(o, k)' <=> Coming(o, k)
BY DEF SameHands, BusyWith, Coming

(* A caller that goes on with pruning, whoever drops what.                  *)
LEMMA PruneStep ==
  ASSUME AlertInv, NEW c \in Caller, call' \in [Caller -> AlertCall],
         call[c].at \in Pruning, call'[c].at \in Pruning \cup {"wait"},
         \A o \in Caller : SameHands(o), \A o \in Caller : o # c => call'[o].at = call[o].at,
         UNCHANGED <<now, job, sent, acks, raced>>,
         lastSent' \in Seq(Delivery), TableSound', forgotten \subseteq forgotten',
         \A k \in Key \ forgotten' : Recent(k) /\ InTable(k) => InTable(k)'
  PROVE  AlertInv'
<1>1. \A o \in Caller : AlertCallOK(o)'
  <2>1. AlertCallOK(c)'
    BY DEF AlertInv, AlertTypeOK, AlertCallOK, SameHands, Pruning
  <2>2. ASSUME NEW o \in Caller, o # c PROVE AlertCallOK(o)'
    BY <2>2 DEF AlertInv, AlertTypeOK, AlertCallOK, SameHands
  <2> QED  BY <2>1, <2>2
<1>2. AlertTypeOK'  BY <1>1 DEF AlertInv, AlertTypeOK
<1>3. \A o \in Caller, k \in Key :
        /\ BusyWith(o, k)' <=> BusyWith(o, k)
        /\ Coming(o, k)' <=> Coming(o, k)
  BY HandsDecide
<1>4. \A o \in Caller : call'[o].of = call[o].of  BY DEF SameHands
<1>5. \A k \in Key \ forgotten' : Recent(k) /\ Remembered(k) => Remembered(k)'
  BY <1>3 DEF Remembered
<1> QED  BY <1>2, <1>3, <1>4, <1>5, NothingDelivered

(* A key is dropped.                                                        *)
LEMMA DropStep ==
  ASSUME AlertInv, NEW c \in Caller, NEW r \in AlertCall, NEW k,
         call[c].at \in Pruning, r.at = "drop",
         /\ r.alert = call[c].alert /\ r.of = call[c].of /\ r.check = call[c].check
         /\ r.eligible = call[c].eligible /\ r.wait = call[c].wait,
         GoOn(c, r), LessKey(lastSent', lastSent, k), Dropped(k),
         UNCHANGED <<now, job, sent, acks, raced>>
  PROVE  AlertInv'
<1>1. /\ call \in [Caller -> AlertCall] /\ now \in Nat /\ lastSent \in Seq(Delivery)
      /\ KeysDiffer(lastSent) /\ \A i \in DOMAIN lastSent : lastSent[i].at <= now
  BY DEF AlertInv, AlertTypeOK, TableSound
<1>2. /\ call' \in [Caller -> AlertCall] /\ call'[c] = r
      /\ \A o \in Caller : o # c => SameHands(o) /\ call'[o].at = call[o].at
  BY <1>1, GoneOn
<1>3. \A o \in Caller : SameHands(o)  BY <1>2 DEF SameHands
<1>4. /\ lastSent' \in Seq(Delivery) /\ KeysDiffer(lastSent')
      /\ \A j \in DOMAIN lastSent' : \E i \in DOMAIN lastSent : lastSent'[j] = lastSent[i]
      /\ \A i \in DOMAIN lastSent : lastSent[i].key # k =>
           \E j \in DOMAIN lastSent' : lastSent'[j] = lastSent[i]
  BY DEF LessKey
<1>5. WillPrune(c)'  BY <1>2 DEF WillPrune
<1>6. TableSound'  BY <1>1, <1>4, <1>5 DEF TableSound, KeysDiffer
<1>7. forgotten \subseteq forgotten'  BY DEF Dropped
<1>8. ASSUME NEW l \in Key \ forgotten', Recent(l), InTable(l) PROVE InTable(l)'
  <2>1. PICK i \in DOMAIN lastSent : lastSent[i].key = l /\ lastSent[i].at >= LastAck(l)
    BY <1>8 DEF InTable
  <2>2. l # k
    <3> SUFFICES ASSUME l = k PROVE FALSE
      OBVIOUS
    <3>1. \A j \in DOMAIN lastSent : lastSent[j].key = k => j = i  BY <1>1, <2>1 DEF KeysDiffer
    <3>2. LastSentAt(k) = lastSent[i].at /\ k \in KeysOf(lastSent)
      BY <2>1, <3>1 DEF LastSentAt, KeysOf
    <3>3. ~(now - lastSent[i].at < StaleAfter)  BY <1>8, <3>2 DEF Dropped
    <3>4. lastSent[i].at \in Nat
      <4>1. lastSent[i] \in Delivery  BY <1>1
      <4> QED  BY <4>1 DEF Delivery
    <3>5. LastAck(l) \in Nat /\ now - LastAck(l) < Throttle  BY <1>8, RecentFacts
    <3>6. PICK t, ack : t = lastSent[i].at /\ ack = LastAck(l)  OBVIOUS
    <3>7. t \in Nat /\ ack \in Nat /\ t >= ack /\ ~(now - t < StaleAfter) /\ now - ack < Throttle
      BY <2>1, <3>3, <3>4, <3>5, <3>6
    <3>8. now \in Nat /\ Throttle \in Nat /\ StaleAfter \in Nat /\ StaleAfter >= Throttle
      BY <1>1, PlaceFacts
    <3> QED  BY <3>7, <3>8
  <2>3. PICK j \in DOMAIN lastSent' : lastSent'[j] = lastSent[i]  BY <1>4, <2>1, <2>2
  <2>4. LastAck(l)' = LastAck(l)  BY DEF LastAck
  <2> QED  BY <2>1, <2>3, <2>4 DEF InTable
<1>9. call'[c].at \in Pruning  BY <1>2 DEF Pruning
<1> QED  BY <1>2, <1>3, <1>4, <1>6, <1>7, <1>8, <1>9, PruneStep

(* An alert is sent. *)
LEMMA SendAlertKeeps ==
  ASSUME AlertInv, NEW c \in Caller, NEW a \in Alert, SendAlert(c, a) PROVE AlertInv'
<1>0. AlertTypeOK  BY DEF AlertInv
<1>1. call[c] = Resting /\ UNCHANGED <<now, lastSent, job, acks, forgotten, raced>> /\ sent' = sent + 1
  BY DEF SendAlert
<1>2. call \in [Caller -> AlertCall] /\ AlertCallOK(c) /\ sent \in Nat /\ sent' \in Nat
  BY <1>0, <1>1 DEF AlertTypeOK
<1>3. CASE a \in Quiet
  <2>1. call' = call  BY <1>3 DEF SendAlert
  <2>2. AlertTypeOK'  BY <1>0, <1>1, <1>2, <2>1 DEF AlertTypeOK, AlertCallOK
  <2>3. \A o \in Caller : WillPrune(o) => WillPrune(o)'  BY <2>1 DEF WillPrune
  <2>4. \A o \in Caller, k \in Key :
          /\ BusyWith(o, k)' => BusyWith(o, k) /\ call'[o].of = call[o].of
          /\ Coming(o, k) => Coming(o, k)'
    BY <1>1, <2>1 DEF BusyWith, Coming
  <2> QED  BY <1>1, <2>2, <2>3, <2>4, SameBusy
<1>4. CASE a \notin Quiet
  <2>1. PICK r : r = [Resting EXCEPT !.at = "route", !.alert = a, !.of = sent + 1,
                                     !.check = [i \in Place |-> i]]
    OBVIOUS
  <2>2. call' = [call EXCEPT ![c] = r]  BY <1>4, <2>1, Zenon DEF SendAlert
  <2>3. /\ r \in AlertCall /\ r.at = "route" /\ r.alert = a /\ r.eligible = << >> /\ r.wait = << >>
    <3>1. PICK all : all = [i \in Place |-> i]  OBVIOUS
    <3>2. all \in Seq(Place) /\ sent + 1 \in Nat
      <4>1. sent + 1 \in Nat  BY <1>2
      <4> QED  BY <3>1, <4>1, PlaceFacts
    <3>3. r = [at |-> "route", alert |-> a, of |-> sent + 1, check |-> all, eligible |-> << >>,
               wait |-> << >>, stale |-> {}, disturbed |-> FALSE]
      BY <2>1, <3>1 DEF Resting
    <3> QED  BY <3>2, <3>3 DEF AlertCall
  <2>4. /\ call' \in [Caller -> AlertCall] /\ call'[c] = r
        /\ \A o \in Caller : o # c => call'[o] = call[o]
    BY <1>2, <2>2, <2>3
  <2>5. call[c].at = "idle" /\ call[c].wait = << >> /\ call[c].eligible = << >>  BY <1>1 DEF Resting
  <2>6. AlertCallOK(c)'
    BY <1>1, <1>2, <2>3, <2>4, <2>5, PlaceFacts, SetsOfSequences DEF AlertCallOK
  <2>7. \A o \in Caller : AlertCallOK(o)'
    BY <1>0, <1>1, <2>4, <2>6 DEF AlertTypeOK, AlertCallOK
  <2>8. AlertTypeOK'  BY <1>0, <1>1, <1>2, <2>4, <2>7 DEF AlertTypeOK
  <2>9. \A o \in Caller : WillPrune(o) => WillPrune(o)'  BY <2>4, <2>5 DEF WillPrune
  <2>10. \A o \in Caller, k \in Key :
           /\ BusyWith(o, k)' => BusyWith(o, k) /\ call'[o].of = call[o].of
           /\ Coming(o, k) => Coming(o, k)'
    <3>1. \A k \in Key : ~ BusyWith(c, k)'  BY <2>3, <2>4, SetsOfSequences DEF BusyWith
    <3>2. \A k \in Key : ~ Coming(c, k)  BY <2>5, SetsOfSequences DEF Coming
    <3> QED  BY <1>1, <2>4, <3>1, <3>2 DEF BusyWith, Coming
  <2> QED  BY <1>1, <2>8, <2>9, <2>10, SameBusy
<1> QED  BY <1>3, <1>4

(* The jobs are handed to the pool. *)
LEMMA SubmitKeeps ==
  ASSUME AlertInv, NEW c \in Caller, Submit(c) PROVE AlertInv'
<1>0. AlertTypeOK  BY DEF AlertInv
<1>1. call[c].at = "route" /\ call[c].check = << >>
      /\ UNCHANGED <<now, lastSent, sent, acks, forgotten, raced>>
  BY DEF Submit
<1>2. call \in [Caller -> AlertCall] /\ AlertCallOK(c) /\ job \in [Caller -> [Place -> JobState]]
  BY <1>0 DEF AlertTypeOK
<1>3. /\ call'[c].at = "wait" /\ call'[c].alert = call[c].alert /\ call'[c].check = << >>
      /\ call'[c].eligible = << >> /\ call'[c].wait = call[c].eligible
      /\ call'[c].of = call[c].of
      /\ call' \in [Caller -> AlertCall]
      /\ \A o \in Caller : o # c => call'[o] = call[o]
  <2>1. PICK e : e = call[c]  OBVIOUS
  <2>2. PICK r : r = [e EXCEPT !.at = "wait", !.wait = e.eligible, !.eligible = << >>]  OBVIOUS
  <2>3. call' = [call EXCEPT ![c] = r]
    <3>1. call' = [call EXCEPT ![c] = [@ EXCEPT !.at = "wait", !.wait = call[c].eligible,
                                                !.eligible = << >>]]
      BY <1>2 DEF Submit
    <3> QED  BY <1>2, <2>1, <2>2, <3>1
  <2>4. e \in AlertCall  BY <1>2, <2>1
  <2>5. /\ r \in AlertCall /\ r.at = "wait" /\ r.alert = e.alert /\ r.check = e.check
        /\ r.eligible = << >> /\ r.wait = e.eligible /\ r.of = e.of
    <3>0. e.eligible \in Seq(Place) /\ << >> \in Seq(Place)  BY <2>4 DEF AlertCall
    <3>1. PICK w, z : w = e.eligible /\ z = << >> /\ w \in Seq(Place) /\ z \in Seq(Place)
      BY <3>0
    <3>2. r = [e EXCEPT !.at = "wait", !.wait = w, !.eligible = z]  BY <2>2, <3>1
    <3>3. /\ r \in AlertCall /\ r.at = "wait" /\ r.alert = e.alert /\ r.check = e.check
          /\ r.eligible = z /\ r.wait = w /\ r.of = e.of
      BY <2>4, <3>1, <3>2 DEF AlertCall
    <3> QED  BY <3>1, <3>3
  <2> QED  BY <1>1, <1>2, <2>1, <2>3, <2>5
<1>4. /\ job' \in [Caller -> [Place -> JobState]]
      /\ \A i \in Place : job'[c][i] = "queued" => i \in ToSet(call[c].eligible)
      /\ \A o \in Caller : o # c => job'[o] = job[o]
  BY <1>2 DEF Submit, JobState
<1>5. call[c].wait = << >>  BY <1>1, <1>2 DEF AlertCallOK
<1>6. AlertCallOK(c)'  BY <1>1, <1>2, <1>3, <1>4 DEF AlertCallOK
<1>7. \A o \in Caller : AlertCallOK(o)'
  BY <1>0, <1>3, <1>4, <1>6 DEF AlertTypeOK, AlertCallOK
<1>8. AlertTypeOK'  BY <1>0, <1>1, <1>3, <1>4, <1>7 DEF AlertTypeOK
<1>9. \A o \in Caller : WillPrune(o) => WillPrune(o)'  BY <1>1, <1>3 DEF WillPrune
<1>10. \A o \in Caller, k \in Key :
         /\ BusyWith(o, k)' => BusyWith(o, k) /\ call'[o].of = call[o].of
         /\ Coming(o, k) => Coming(o, k)'
  <2>1. \A k \in Key : BusyWith(c, k)' => BusyWith(c, k)
    BY <1>3, SetsOfSequences DEF BusyWith
  <2>2. \A k \in Key : ~ Coming(c, k)  BY <1>5, SetsOfSequences DEF Coming
  <2>3. \A o \in Caller, k \in Key : o # c =>
          (BusyWith(o, k)' <=> BusyWith(o, k)) /\ (Coming(o, k)' <=> Coming(o, k))
    BY <1>3, <1>4 DEF BusyWith, Coming
  <2> QED  BY <1>3, <2>1, <2>2, <2>3
<1> QED  BY <1>1, <1>8, <1>9, <1>10, SameBusy

(* A call ends. *)
LEMMA FinishKeeps ==
  ASSUME AlertInv, NEW c \in Caller, Finish(c) PROVE AlertInv'
<1>0. AlertTypeOK  BY DEF AlertInv
<1>1. call[c].at = "wait" /\ call[c].wait = << >>
      /\ UNCHANGED <<now, lastSent, sent, acks, forgotten, raced>>
  BY DEF Finish
<1>2. call \in [Caller -> AlertCall] /\ AlertCallOK(c) /\ job \in [Caller -> [Place -> JobState]]
  BY <1>0 DEF AlertTypeOK
<1>3. /\ call'[c] = Resting /\ call' \in [Caller -> AlertCall]
      /\ \A o \in Caller : o # c => call'[o] = call[o]
  <2>1. Resting \in AlertCall  BY DEF Resting, AlertCall
  <2> QED  BY <1>2, <2>1 DEF Finish
<1>4. /\ job'[c] = NoJobs /\ job' \in [Caller -> [Place -> JobState]]
      /\ \A o \in Caller : o # c => job'[o] = job[o]
  BY <1>2, PlaceFacts DEF Finish
<1>5. call'[c].at = "idle" /\ call'[c].check = << >> /\ call'[c].eligible = << >>
      /\ call'[c].wait = << >>
  BY <1>3 DEF Resting
<1>6. AlertCallOK(c)'  BY <1>4, <1>5, PlaceFacts DEF AlertCallOK
<1>7. \A o \in Caller : AlertCallOK(o)'
  BY <1>0, <1>3, <1>4, <1>6 DEF AlertTypeOK, AlertCallOK
<1>8. AlertTypeOK'  BY <1>0, <1>1, <1>3, <1>4, <1>7 DEF AlertTypeOK
<1>9. \A o \in Caller : WillPrune(o) => WillPrune(o)'  BY <1>1, <1>3 DEF WillPrune
<1>10. \A o \in Caller, k \in Key :
         /\ BusyWith(o, k)' => BusyWith(o, k) /\ call'[o].of = call[o].of
         /\ Coming(o, k) => Coming(o, k)'
  <2>1. \A k \in Key : ~ BusyWith(c, k)'  BY <1>5, SetsOfSequences DEF BusyWith
  <2>2. \A k \in Key : ~ Coming(c, k)  BY <1>1, SetsOfSequences DEF Coming
  <2>3. \A o \in Caller, k \in Key : o # c =>
          (BusyWith(o, k)' <=> BusyWith(o, k)) /\ (Coming(o, k)' <=> Coming(o, k))
    BY <1>3, <1>4 DEF BusyWith, Coming
  <2> QED  BY <1>3, <2>1, <2>2, <2>3
<1> QED  BY <1>1, <1>8, <1>9, <1>10, SameBusy

(* Time passes. *)
LEMMA TickKeeps == ASSUME AlertInv, Tick PROVE AlertInv'
<1>0. AlertTypeOK /\ TableSound /\ ThrottleInv  BY DEF AlertInv
<1>1. now' = now + 1 /\ UNCHANGED <<lastSent, call, job, sent, acks, raced, forgotten>> /\ now \in Nat
  BY <1>0 DEF Tick, AlertTypeOK
<1>2. AlertTypeOK'  BY <1>0, <1>1 DEF AlertTypeOK, AlertCallOK
<1>3. TableSound'
  <2>1. \A i \in DOMAIN lastSent : lastSent[i].at \in Nat
    <3>1. \A i \in DOMAIN lastSent : lastSent[i] \in Delivery  BY <1>0 DEF AlertTypeOK
    <3> QED  BY <3>1 DEF Delivery
  <2>2. \A i \in DOMAIN lastSent : lastSent[i].at <= now'  BY <1>0, <1>1, <2>1 DEF TableSound
  <2>3. \A c \in Caller : WillPrune(c)' <=> WillPrune(c)  BY <1>1 DEF WillPrune
  <2> QED  BY <1>0, <1>1, <2>2, <2>3 DEF TableSound, KeysDiffer
<1>4. \A k \in Key : \A i \in DOMAIN acks[k] : acks[k][i].at \in Nat
  <2>1. \A k \in Key : \A i \in DOMAIN acks[k] : acks[k][i] \in Taken  BY <1>0 DEF AlertTypeOK
  <2> QED  BY <2>1 DEF Taken
<1>5. \A k \in Key : Recent(k)' => Recent(k)
  <2> SUFFICES ASSUME NEW k \in Key, Recent(k)' PROVE Recent(k)
    OBVIOUS
  <2>1. acks[k] # << >> /\ acks[k] \in Seq(Taken)  BY <1>0, <1>1 DEF Recent, AlertTypeOK
  <2>2. Len(acks[k]) \in DOMAIN acks[k]  BY <2>1
  <2>3. LastAck(k) \in Nat  BY <1>4, <2>2 DEF LastAck
  <2>4. LastAck(k)' = LastAck(k)  BY <1>1 DEF LastAck
  <2>5. now' - LastAck(k) < Throttle  BY <2>4 DEF Recent
  <2>6. PICK ack : ack = LastAck(k)  OBVIOUS
  <2>7. now - ack < Throttle
    <3>1. PICK t : t = now  OBVIOUS
    <3>2. t \in Nat /\ ack \in Nat /\ (t + 1) - ack < Throttle  BY <1>1, <2>3, <2>5, <2>6, <3>1
    <3>3. Throttle \in Nat  BY PlaceFacts
    <3>4. t - ack < Throttle  BY <3>2, <3>3
    <3> QED  BY <3>1, <3>4
  <2> QED  BY <2>1, <2>6, <2>7 DEF Recent
<1>6. \A k \in Key : (Remembered(k)' <=> Remembered(k)) /\ LastOf(k)' = LastOf(k)
  BY <1>1 DEF Remembered, InTable, Coming, LastAck, LastOf
<1>7. \A k \in Key, c \in Caller : BusyWith(c, k)' <=> BusyWith(c, k)  BY <1>1 DEF BusyWith
<1>8. \A k \in Key : \A i \in DOMAIN acks[k] : acks[k][i].at <= now'
  BY <1>0, <1>1, <1>4 DEF ThrottleInv
<1>9. SerialThrottle'  BY <1>0, <1>1 DEF ThrottleInv, SerialThrottle
<1>10. ThrottleInv'  BY <1>0, <1>1, <1>5, <1>6, <1>7, <1>8, <1>9 DEF ThrottleInv
<1> QED  BY <1>2, <1>3, <1>10 DEF AlertInv

(* The destination that comes next is checked. *)
LEMMA RouteAlertKeeps ==
  ASSUME AlertInv, NEW c \in Caller, RouteAlert(c) PROVE AlertInv'
<1>0. AlertTypeOK /\ TableSound /\ ThrottleInv  BY DEF AlertInv
<1>1. call[c].check # << >> /\ UNCHANGED <<now, lastSent, job, sent, acks, forgotten>>
  BY DEF RouteAlert
<1>2. call \in [Caller -> AlertCall] /\ AlertCallOK(c) /\ call[c] \in AlertCall
  BY <1>0 DEF AlertTypeOK
<1>3. call[c].at = "route" /\ call[c].alert \in Alert /\ call[c].wait = << >> /\ job[c] = NoJobs
  BY <1>1, <1>2 DEF AlertCallOK, AlertCall
<1>4. PICK i, a : i = Head(call[c].check) /\ a = call[c].alert  OBVIOUS
<1>5. i \in Place /\ Tail(call[c].check) \in Seq(Place)
  BY <1>1, <1>2, <1>4, SetsOfSequences DEF AlertCall
<1>6. PICK k : k = ThrottleKey[i, a]  OBVIOUS
<1>7. k \in Key  BY <1>3, <1>4, <1>5, <1>6, PlaceFacts
<1>8. PICK new : /\ new \in Seq(Place)
                 /\ \/ new = call[c].eligible
                    \/ ~IsThrottled(k) /\ ToSet(new) = ToSet(call[c].eligible) \cup {i}
                 /\ call' = [call EXCEPT ![c].check = Tail(@), ![c].eligible = new]
  <2>1. call[c].eligible \in Seq(Place)  BY <1>2 DEF AlertCall
  <2>2. Append(call[c].eligible, i) \in Seq(Place)
        /\ ToSet(Append(call[c].eligible, i)) = ToSet(call[c].eligible) \cup {i}
    BY <1>5, <2>1, SetsOfSequences
  <2>3. CASE a \in Admits[i] /\ ~IsThrottled(k)
    <3>1. call' = [call EXCEPT ![c].check = Tail(@), ![c].eligible = Append(@, i)]
      BY <1>4, <1>6, <2>3 DEF RouteAlert
    <3>2. call' = [call EXCEPT ![c].check = Tail(@), ![c].eligible = Append(call[c].eligible, i)]
      BY <1>2, <3>1 DEF AlertCall
    <3> QED  BY <2>2, <2>3, <3>2
  <2>4. CASE ~(a \in Admits[i] /\ ~IsThrottled(k))
    <3>1. call' = [call EXCEPT ![c].check = Tail(@), ![c].eligible = @]
      BY <1>4, <1>6, <2>4 DEF RouteAlert
    <3>2. call' = [call EXCEPT ![c].check = Tail(@), ![c].eligible = call[c].eligible]
      BY <1>2, <3>1 DEF AlertCall
    <3> QED  BY <2>1, <3>2
  <2> QED  BY <2>3, <2>4
<1>9. /\ call'[c].at = "route" /\ call'[c].alert = a /\ call'[c].eligible = new
      /\ call'[c].of = call[c].of /\ call'[c].wait = << >> /\ call' \in [Caller -> AlertCall]
      /\ \A o \in Caller : o # c => call'[o] = call[o]
  <2>1. PICK e, rest : e = call[c] /\ rest = Tail(call[c].check) /\ rest \in Seq(Place)  BY <1>5
  <2>2. PICK r : r = [e EXCEPT !.check = rest, !.eligible = new]  OBVIOUS
  <2>3. call' = [call EXCEPT ![c] = r]  BY <1>2, <1>8, <2>1, <2>2 DEF AlertCall
  <2>4. e \in AlertCall /\ new \in Seq(Place)  BY <1>2, <1>8, <2>1
  <2>5. /\ r \in AlertCall /\ r.at = e.at /\ r.alert = e.alert /\ r.of = e.of
        /\ r.eligible = new /\ r.wait = e.wait
    BY <2>1, <2>2, <2>4 DEF AlertCall
  <2> QED  BY <1>2, <1>3, <1>4, <2>1, <2>3, <2>5
<1>10. AlertTypeOK'
  <2>1. AlertCallOK(c)'  BY <1>1, <1>3, <1>4, <1>9, PlaceFacts DEF AlertCallOK
  <2>2. \A o \in Caller : AlertCallOK(o)'  BY <1>0, <1>1, <1>9, <2>1 DEF AlertTypeOK, AlertCallOK
  <2> QED  BY <1>0, <1>1, <1>9, <2>2 DEF AlertTypeOK
<1>11. TableSound'
  <2>1. \A o \in Caller : WillPrune(o) => WillPrune(o)'  BY <1>3, <1>9 DEF WillPrune
  <2> QED  BY <1>0, <1>1, <2>1 DEF TableSound, KeysDiffer
<1>12. \A o \in Caller, l \in Key : o # c => (BusyWith(o, l)' <=> BusyWith(o, l))
  BY <1>9 DEF BusyWith
<1>13. ASSUME NEW l \in Key, BusyWith(c, l)', ~BusyWith(c, l) PROVE l = k /\ ~IsThrottled(k)
  <2>1. PICK j \in ToSet(new) : ThrottleKey[j, a] = l
    BY <1>9, <1>13, SetsOfSequences DEF BusyWith
  <2>2. j \notin ToSet(call[c].eligible)  BY <1>4, <1>13, <2>1 DEF BusyWith
  <2> QED  BY <1>6, <1>8, <2>1, <2>2
<1>14. \A o \in Caller : call'[o].of = call[o].of  BY <1>9
<1>15. /\ raced \subseteq raced'
       /\ (\E o \in Caller \ {c} : BusyWith(o, k)) => k \in raced'
  BY <1>4, <1>6 DEF RouteAlert
<1>16. \A l \in Key : /\ Remembered(l) => Remembered(l)'
                      /\ (Recent(l)' <=> Recent(l)) /\ LastOf(l)' = LastOf(l)
  <2>1. \A o \in Caller, l \in Key : Coming(o, l) => Coming(o, l)'
    <3>1. \A l \in Key : ~ Coming(c, l)  BY <1>3, SetsOfSequences DEF Coming
    <3> QED  BY <1>1, <1>9, <3>1 DEF Coming
  <2> QED  BY <1>1, <2>1 DEF Remembered, InTable, LastAck, LastOf, Recent
<1>17. ASSUME k \notin raced' \cup forgotten, ~IsThrottled(k), Recent(k) PROVE FALSE
  <2>1. Remembered(k)  BY <1>0, <1>7, <1>17 DEF ThrottleInv
  <2>2. ~\E o \in Caller : Coming(o, k)
    <3>1. ~ Coming(c, k)  BY <1>3, SetsOfSequences DEF Coming
    <3>2. \A o \in Caller \ {c} : ~ BusyWith(o, k)  BY <1>15, <1>17
    <3> QED  BY <3>1, <3>2 DEF Coming, BusyWith
  <2>3. PICK x \in DOMAIN lastSent : lastSent[x].key = k /\ lastSent[x].at >= LastAck(k)
    BY <2>1, <2>2 DEF Remembered, InTable
  <2>4. LastSentAt(k) = lastSent[x].at
    <3>1. \A y \in DOMAIN lastSent : lastSent[y].key = k => y = x
      BY <1>0, <2>3 DEF TableSound, KeysDiffer
    <3> QED  BY <2>3, <3>1 DEF LastSentAt
  <2>5. k \in KeysOf(lastSent)  BY <2>3 DEF KeysOf
  <2>6. lastSent[x].at \in Nat
    <3>1. lastSent[x] \in Delivery  BY <1>0 DEF AlertTypeOK
    <3> QED  BY <3>1 DEF Delivery
  <2>7. LastAck(k) \in Nat /\ now - LastAck(k) < Throttle /\ LastAck(k) <= now /\ now \in Nat
    BY <1>7, <1>17, RecentFacts
  <2>8. Throttle > 0 /\ now - lastSent[x].at < Throttle
    <3>1. PICK t, ack : t = lastSent[x].at /\ ack = LastAck(k)  OBVIOUS
    <3>2. t \in Nat /\ ack \in Nat /\ t >= ack /\ now - ack < Throttle /\ ack <= now /\ now \in Nat
      BY <2>3, <2>6, <2>7, <3>1
    <3>3. Throttle \in Nat  BY PlaceFacts
    <3>4. Throttle > 0 /\ now - t < Throttle  BY <3>2, <3>3
    <3> QED  BY <3>1, <3>4
  <2> QED  BY <1>17, <2>4, <2>5, <2>8 DEF IsThrottled
<1>18. \A l \in Key \ raced' : \A x, o \in Caller : BusyWith(x, l)' /\ BusyWith(o, l)' => x = o
  <2> SUFFICES ASSUME NEW l \in Key, l \notin raced', NEW x \in Caller, NEW o \in Caller,
                      BusyWith(x, l)', BusyWith(o, l)'
               PROVE  x = o
    OBVIOUS
  <2>1. l \notin raced  BY <1>15
  <2>2. CASE BusyWith(x, l) /\ BusyWith(o, l)  BY <1>0, <2>1, <2>2 DEF ThrottleInv
  <2>3. CASE ~BusyWith(x, l) /\ BusyWith(o, l)  BY <1>12, <1>13, <1>15, <2>3
  <2>4. CASE BusyWith(x, l) /\ ~BusyWith(o, l)  BY <1>12, <1>13, <1>15, <2>4
  <2>5. CASE ~BusyWith(x, l) /\ ~BusyWith(o, l)  BY <1>12, <2>5
  <2> QED  BY <2>2, <2>3, <2>4, <2>5
<1>19. \A l \in Key \ (raced' \cup forgotten) : \A o \in Caller :
         BusyWith(o, l)' /\ Recent(l) => LastOf(l) = call[o].of
  <2> SUFFICES ASSUME NEW l \in Key, l \notin raced' \cup forgotten, NEW o \in Caller,
                      BusyWith(o, l)', Recent(l)
               PROVE  LastOf(l) = call[o].of
    OBVIOUS
  <2>1. CASE BusyWith(o, l)  BY <1>0, <1>15, <2>1 DEF ThrottleInv
  <2>2. CASE ~BusyWith(o, l)
    <3>1. o = c  BY <1>12, <2>2
    <3> QED  BY <1>13, <1>17, <2>2, <3>1
  <2> QED  BY <2>1, <2>2
<1>20. ThrottleInv'
  <2>1. SerialThrottle'  BY <1>0, <1>1, <1>15 DEF SerialThrottle, ThrottleInv
  <2>2. \A l \in Key \ forgotten : Recent(l)' => Remembered(l)'  BY <1>0, <1>16 DEF ThrottleInv
  <2>3. \A l \in Key : \A j \in DOMAIN acks[l] : acks[l][j].at <= now  BY <1>0 DEF ThrottleInv
  <2>4. \A l \in Key \ (raced' \cup forgotten') : \A o \in Caller :
          BusyWith(o, l)' /\ Recent(l)' => LastOf(l)' = call'[o].of
    BY <1>1, <1>14, <1>16, <1>19
  <2> QED  BY <1>1, <1>18, <2>1, <2>2, <2>3, <2>4 DEF ThrottleInv
<1> QED  BY <1>10, <1>11, <1>20 DEF AlertInv

(* A destination takes the alert, or its job fails. *)
LEMMA RunJobKeeps ==
  ASSUME AlertInv, NEW c \in Caller, NEW i \in Place, RunJob(c, i) PROVE AlertInv'
<1>0. AlertTypeOK /\ TableSound /\ ThrottleInv  BY DEF AlertInv
<1>1. job[c][i] = "queued" /\ UNCHANGED <<now, lastSent, call, sent, raced, forgotten>>
  BY DEF RunJob
<1>2. /\ call \in [Caller -> AlertCall] /\ AlertCallOK(c) /\ now \in Nat
      /\ job \in [Caller -> [Place -> JobState]] /\ acks \in [Key -> Seq(Taken)]
  BY <1>0 DEF AlertTypeOK
<1>3. PICK k, num : k = ThrottleKey[i, call[c].alert] /\ num = call[c].of  OBVIOUS
<1>4. i \in ToSet(call[c].wait) /\ call[c].at \notin {"idle", "route"} /\ call[c].alert \in Alert
  <2>1. i \in ToSet(call[c].wait)  BY <1>1, <1>2 DEF AlertCallOK
  <2>2. call[c].wait # << >>  BY <2>1, SetsOfSequences
  <2> QED  BY <1>2, <2>1, <2>2 DEF AlertCallOK
<1>5. k \in Key /\ BusyWith(c, k) /\ num \in Nat
  <2>1. call[c].of \in Nat  BY <1>2 DEF AlertCall
  <2> QED  BY <1>3, <1>4, <2>1, PlaceFacts DEF BusyWith
<1>6. PICK end \in {"sent", "failed"} :
        /\ job' = [job EXCEPT ![c][i] = end]
        /\ \/ end = "sent" /\ acks' = [acks EXCEPT ![k] = Append(@, [at |-> now, of |-> num])]
           \/ end = "failed" /\ acks' = acks
  BY <1>3 DEF RunJob
<1>7. /\ job' \in [Caller -> [Place -> JobState]]
      /\ job'[c][i] = end
      /\ \A o \in Caller, j \in Place : ~(o = c /\ j = i) => job'[o][j] = job[o][j]
  BY <1>2, <1>6 DEF JobState
<1>8. \A o \in Caller : AlertCallOK(o)'
  <2>1. \A o \in Caller : o # c => job'[o] = job[o]  BY <1>2, <1>6
  <2>2. AlertCallOK(c)'  BY <1>1, <1>2, <1>4, <1>6, <1>7 DEF AlertCallOK
  <2> QED  BY <1>0, <1>1, <2>1, <2>2 DEF AlertTypeOK, AlertCallOK
<1>9. \A o \in Caller : /\ WillPrune(o)' <=> WillPrune(o)
                        /\ \A l \in Key : BusyWith(o, l)' <=> BusyWith(o, l)
  BY <1>1 DEF WillPrune, BusyWith
<1>10. \A o \in Caller, l \in Key : Coming(o, l) => Coming(o, l)'
  <2> SUFFICES ASSUME NEW o \in Caller, NEW l \in Key, Coming(o, l) PROVE Coming(o, l)'
    OBVIOUS
  <2>1. PICK j \in ToSet(call[o].wait) : ThrottleKey[j, call[o].alert] = l /\ job[o][j] = "sent"
    BY DEF Coming
  <2>2. j \in Place
    <3>1. call[o].wait \in Seq(Place)  BY <1>2 DEF AlertCall
    <3> QED  BY <2>1, <3>1, SetsOfSequences
  <2>3. job'[o][j] = "sent"  BY <1>1, <1>7, <2>1, <2>2
  <2> QED  BY <1>1, <2>1, <2>3 DEF Coming
<1>11. CASE end = "failed"
  <2>1. AlertTypeOK'  BY <1>0, <1>1, <1>6, <1>7, <1>8, <1>11 DEF AlertTypeOK
  <2>2. UNCHANGED <<now, lastSent, acks, forgotten, raced>>  BY <1>1, <1>6, <1>11
  <2> QED  BY <1>1, <1>9, <1>10, <2>1, <2>2, SameBusy
<1>12. CASE end = "sent"
  <2>1. PICK n, e : n = Len(acks[k]) /\ e = [at |-> now, of |-> num]  OBVIOUS
  <2>2. acks[k] \in Seq(Taken) /\ n \in Nat /\ e \in Taken /\ e.at = now /\ e.of = num
    BY <1>2, <1>5, <2>1 DEF Taken
  <2>3. acks' = [acks EXCEPT ![k] = Append(acks[k], e)]  BY <1>6, <1>12, <2>1
  <2>4. /\ acks'[k] \in Seq(Taken) /\ Len(acks'[k]) = n + 1 /\ DOMAIN acks'[k] = 1 .. n + 1
        /\ DOMAIN acks[k] = 1 .. n
        /\ \A j \in 1 .. n : acks'[k][j] = acks[k][j]
        /\ acks'[k][n + 1] = e
        /\ \A l \in Key : l # k => acks'[l] = acks[l]
    BY <1>2, <1>5, <2>1, <2>2, <2>3
  <2>5. acks' \in [Key -> Seq(Taken)]  BY <1>2, <1>5, <2>3, <2>4
  <2>6. AlertTypeOK'  BY <1>0, <1>1, <1>7, <1>8, <2>5 DEF AlertTypeOK
  <2>7. TableSound'  BY <1>0, <1>1, <1>9 DEF TableSound, KeysDiffer
  <2>8. \A l \in Key : l # k =>
          LastAck(l)' = LastAck(l) /\ LastOf(l)' = LastOf(l) /\ (Recent(l)' <=> Recent(l))
    BY <1>1, <2>4 DEF LastAck, LastOf, Recent
  <2>9. LastOf(k)' = num  BY <2>2, <2>4 DEF LastOf
  <2>10. \A l \in Key : \A j \in DOMAIN acks'[l] : acks'[l][j].at <= now
    <3>1. \A j \in DOMAIN acks'[k] : j \in 1 .. n \/ j = n + 1  BY <2>2, <2>4
    <3>2. now <= now  BY <1>2
    <3> QED  BY <1>0, <2>2, <2>4, <3>1, <3>2 DEF ThrottleInv
  <2>11. \A l \in Key \ forgotten : Recent(l)' => Remembered(l)'
    <3> SUFFICES ASSUME NEW l \in Key \ forgotten, Recent(l)' PROVE Remembered(l)'
      OBVIOUS
    <3>1. CASE l = k
      <4>1. Coming(c, k)'  BY <1>1, <1>3, <1>4, <1>7, <1>12 DEF Coming
      <4> QED  BY <3>1, <4>1 DEF Remembered
    <3>2. CASE l # k
      <4>1. Remembered(l)  BY <1>0, <2>8, <3>2 DEF ThrottleInv
      <4> QED  BY <1>1, <1>10, <2>8, <3>2, <4>1 DEF Remembered, InTable
    <3> QED  BY <3>1, <3>2
  <2>12. \A l \in Key \ raced : \A x, o \in Caller : BusyWith(x, l)' /\ BusyWith(o, l)' => x = o
    BY <1>0, <1>9 DEF ThrottleInv
  <2>13. ASSUME NEW l \in Key \ (raced \cup forgotten), NEW o \in Caller,
                BusyWith(o, l)', Recent(l)'
         PROVE  LastOf(l)' = call[o].of
    <3>1. BusyWith(o, l)  BY <1>9, <2>13
    <3>2. CASE l = k
      <4>1. o = c  BY <1>0, <1>5, <3>1, <3>2 DEF ThrottleInv
      <4> QED  BY <1>3, <2>9, <3>2, <4>1
    <3>3. CASE l # k  BY <1>0, <2>8, <2>13, <3>1, <3>3 DEF ThrottleInv
    <3> QED  BY <3>2, <3>3
  <2>14. SerialThrottle'
    <3> SUFFICES ASSUME NEW l \in Key \ (raced \cup forgotten), NEW j \in 2 .. Len(acks'[l]),
                        acks'[l][j].of # acks'[l][j - 1].of
                 PROVE  acks'[l][j].at - acks'[l][j - 1].at >= Throttle
      BY <1>1 DEF SerialThrottle
    <3>1. CASE l # k  BY <1>0, <2>4, <3>1 DEF ThrottleInv, SerialThrottle
    <3>2. CASE l = k /\ j \in 2 .. n
      <4>1. j \in 1 .. n /\ j - 1 \in 1 .. n  BY <2>2, <3>2
      <4>2. acks[k][j].of # acks[k][j - 1].of =>
              acks[k][j].at - acks[k][j - 1].at >= Throttle
        BY <1>0, <2>1, <3>2 DEF ThrottleInv, SerialThrottle
      <4> QED  BY <2>4, <3>2, <4>1, <4>2
    <3>3. CASE l = k /\ j = n + 1 /\ n >= 1
      <4>1. n \in 1 .. n /\ j - 1 = n  BY <2>2, <3>3
      <4>2. acks[k] # << >> /\ LastAck(k) = acks[k][n].at /\ LastOf(k) = acks[k][n].of
        BY <2>1, <2>2, <3>3 DEF LastAck, LastOf
      <4>3. LastOf(k) # num  BY <2>2, <2>4, <3>3, <4>1, <4>2
      <4>4. ~ Recent(k)  BY <1>0, <1>3, <1>5, <3>3, <4>3 DEF ThrottleInv
      <4>5. LastAck(k) \in Nat
        <5>1. acks[k][n] \in Taken  BY <2>2, <2>4, <4>1
        <5> QED  BY <4>2, <5>1 DEF Taken
      <4>6. PICK ack, t : ack = LastAck(k) /\ t = now  OBVIOUS
      <4>7. ~(t - ack < Throttle)  BY <4>2, <4>4, <4>6 DEF Recent
      <4>8. t - ack >= Throttle
        <5>1. t \in Nat /\ ack \in Nat  BY <1>2, <4>5, <4>6
        <5>2. Throttle \in Nat  BY PlaceFacts
        <5> QED  BY <4>7, <5>1, <5>2
      <4>9. acks'[k][j].at = t /\ acks'[k][j - 1].at = ack
        BY <2>2, <2>4, <3>3, <4>1, <4>2, <4>6
      <4> QED  BY <3>3, <4>8, <4>9
    <3> QED  BY <2>2, <2>4, <3>1, <3>2, <3>3
  <2>15. ThrottleInv'
    BY <1>1, <2>10, <2>11, <2>12, <2>13, <2>14 DEF ThrottleInv
  <2> QED  BY <2>6, <2>7, <2>15 DEF AlertInv
<1> QED  BY <1>11, <1>12

(* The answer of one destination is taken. *)
LEMMA CollectKeeps ==
  ASSUME AlertInv, NEW c \in Caller, Collect(c) PROVE AlertInv'
<1>0. AlertTypeOK /\ TableSound /\ ThrottleInv  BY DEF AlertInv
<1>1. /\ call[c].at = "wait" /\ call[c].wait # << >>
      /\ UNCHANGED <<now, job, sent, acks, raced, forgotten>>
  BY DEF Collect
<1>2. /\ call \in [Caller -> AlertCall] /\ AlertCallOK(c) /\ now \in Nat
      /\ lastSent \in Seq(Delivery)
  BY <1>0 DEF AlertTypeOK
<1>3. PICK e : e = call[c]  OBVIOUS
<1>4. e \in AlertCall /\ e.alert \in Alert /\ e.eligible = << >> /\ e.check = << >>
      /\ e.wait \in Seq(Place)
  BY <1>1, <1>2, <1>3 DEF AlertCallOK, AlertCall
<1>5. PICK i, rest : i = Head(e.wait) /\ rest = Tail(e.wait)  OBVIOUS
<1>6. i \in Place /\ rest \in Seq(Place) /\ ToSet(e.wait) = {i} \cup ToSet(rest)
  BY <1>1, <1>3, <1>4, <1>5, SetsOfSequences
<1>7. PICK k : k = ThrottleKey[i, e.alert]  OBVIOUS
<1>8. k \in Key  BY <1>4, <1>6, <1>7, PlaceFacts
<1>9. PICK at : /\ \/ job[c][i] = "sent" /\ at = "prune" /\ lastSent' = Stamp(lastSent, k)
                   \/ job[c][i] # "sent" /\ at = "wait" /\ lastSent' = lastSent
                /\ job[c][i] \in {"sent", "failed"}
                /\ GoOn(c, [e EXCEPT !.wait = rest, !.at = at])
  <2>1. CASE job[c][i] = "sent"
    <3>1. GoOn(c, [call[c] EXCEPT !.wait = Tail(@), !.at = "prune"])
      BY <1>3, <1>5, <2>1 DEF Collect
    <3>2. GoOn(c, [e EXCEPT !.wait = rest, !.at = "prune"])  BY <1>3, <1>4, <1>5, <3>1 DEF AlertCall
    <3> QED  BY <1>3, <1>5, <1>7, <2>1, <3>2 DEF Collect
  <2>2. CASE job[c][i] # "sent"
    <3>1. GoOn(c, [call[c] EXCEPT !.wait = Tail(@)])  BY <1>3, <1>5, <2>2 DEF Collect
    <3>2. [e EXCEPT !.wait = rest, !.at = "wait"] = [call[c] EXCEPT !.wait = Tail(@)]
      BY <1>1, <1>3, <1>4, <1>5 DEF AlertCall
    <3> QED  BY <1>3, <1>5, <2>2, <3>1, <3>2 DEF Collect
  <2> QED  BY <2>1, <2>2
<1>10. PICK r : r = [e EXCEPT !.wait = rest, !.at = at]  OBVIOUS
<1>11. /\ r \in AlertCall /\ r.at = at /\ r.alert = e.alert /\ r.of = e.of /\ r.check = << >>
       /\ r.eligible = << >> /\ r.wait = rest
  <2>1. at \in {"wait", "prune"}  BY <1>9
  <2> QED  BY <1>4, <1>6, <1>10, <2>1 DEF AlertCall, Pruning
<1>12. /\ call' \in [Caller -> AlertCall] /\ call'[c] = r
       /\ \A o \in Caller : o # c => SameHands(o) /\ call'[o].at = call[o].at
       /\ Len(lastSent') = Len(lastSent) => \A o \in Caller : o # c => call'[o] = call[o]
  BY <1>2, <1>9, <1>10, <1>11, GoneOn
<1>13. \A o \in Caller : AlertCallOK(o)'
  <2>1. AlertCallOK(c)'
    BY <1>1, <1>2, <1>3, <1>4, <1>6, <1>9, <1>11, <1>12 DEF AlertCallOK
  <2>2. ASSUME NEW o \in Caller, o # c PROVE AlertCallOK(o)'
    BY <1>0, <1>1, <1>12, <2>2 DEF AlertTypeOK, AlertCallOK, SameHands
  <2> QED  BY <2>1, <2>2
<1>14. \A o \in Caller, l \in Key : o # c =>
         (BusyWith(o, l)' <=> BusyWith(o, l)) /\ (Coming(o, l)' <=> Coming(o, l))
  BY <1>1, <1>12, HandsDecide
<1>15. \A l \in Key : BusyWith(c, l)' => BusyWith(c, l)
  BY <1>3, <1>4, <1>6, <1>11, <1>12 DEF BusyWith
<1>16. ASSUME NEW l \in Key, Coming(c, l), l # k \/ job[c][i] # "sent" PROVE Coming(c, l)'
  <2>1. PICK j \in ToSet(e.wait) : ThrottleKey[j, e.alert] = l /\ job[c][j] = "sent"
    BY <1>3, <1>16 DEF Coming
  <2>2. j \in ToSet(rest)  BY <1>6, <1>7, <1>16, <2>1
  <2> QED  BY <1>1, <1>11, <1>12, <2>1, <2>2 DEF Coming
<1>17. \A o \in Caller : call'[o].of = call[o].of  BY <1>3, <1>11, <1>12 DEF SameHands
<1>18. \A l \in Key : LastAck(l)' = LastAck(l)  BY <1>1 DEF LastAck
<1>19. /\ lastSent' \in Seq(Delivery) /\ TableSound'
       /\ \A l \in Key : Recent(l) /\ Remembered(l) => Remembered(l)'
  <2>1. CASE job[c][i] # "sent" /\ at = "wait" /\ lastSent' = lastSent
    <3>1. \A o \in Caller : WillPrune(o) => WillPrune(o)'
      BY <1>1, <1>12, <2>1 DEF WillPrune
    <3>2. TableSound'  BY <1>0, <1>1, <2>1, <3>1 DEF TableSound, KeysDiffer
    <3>3. \A l \in Key : Remembered(l) => Remembered(l)'
      BY <1>14, <1>16, <1>18, <2>1 DEF Remembered, InTable
    <3> QED  BY <1>2, <2>1, <3>2, <3>3
  <2>2. CASE job[c][i] = "sent" /\ at = "prune" /\ lastSent' = Stamp(lastSent, k)
    <3>1. /\ lastSent' \in Seq(Delivery) /\ KeysDiffer(lastSent')
          /\ \E x \in DOMAIN lastSent' : lastSent'[x] = [key |-> k, at |-> now]
          /\ \A x \in DOMAIN lastSent : lastSent[x].key # k =>
               \E y \in DOMAIN lastSent' : lastSent'[y] = lastSent[x]
          /\ \A y \in DOMAIN lastSent' :
               lastSent'[y] = [key |-> k, at |-> now] \/ \E x \in DOMAIN lastSent : lastSent'[y] = lastSent[x]
      BY <1>0, <1>2, <1>8, <2>2, StampResult DEF TableSound
    <3>2. WillPrune(c)'  BY <1>11, <1>12, <2>2 DEF WillPrune
    <3>3. \A y \in DOMAIN lastSent' : lastSent'[y].at <= now
      <4>1. now <= now  BY <1>2
      <4> QED  BY <1>0, <3>1, <4>1 DEF TableSound
    <3>4. TableSound'  BY <1>1, <3>1, <3>2, <3>3 DEF TableSound
    <3>5. ASSUME NEW l \in Key, Recent(l), Remembered(l) PROVE Remembered(l)'
      <4>1. CASE l = k
        <5>1. PICK x \in DOMAIN lastSent' : lastSent'[x] = [key |-> k, at |-> now]  BY <3>1
        <5>2. LastAck(k) <= now  BY <3>5, <4>1, RecentFacts
        <5>3. now >= LastAck(k)
          <6>1. LastAck(k) \in Nat  BY <3>5, <4>1, RecentFacts
          <6> QED  BY <1>2, <5>2, <6>1
        <5> QED  BY <1>18, <4>1, <5>1, <5>3 DEF Remembered, InTable
      <4>2. CASE l # k /\ InTable(l)
        <5>1. PICK x \in DOMAIN lastSent : lastSent[x].key = l /\ lastSent[x].at >= LastAck(l)
          BY <4>2 DEF InTable
        <5>2. PICK y \in DOMAIN lastSent' : lastSent'[y] = lastSent[x]  BY <3>1, <4>2, <5>1
        <5> QED  BY <1>18, <5>1, <5>2 DEF Remembered, InTable
      <4>3. CASE l # k /\ \E o \in Caller : Coming(o, l)
        BY <1>14, <1>16, <4>3 DEF Remembered
      <4> QED  BY <3>5, <4>1, <4>2, <4>3 DEF Remembered
    <3> QED  BY <3>1, <3>4, <3>5
  <2> QED  BY <1>9, <2>1, <2>2
<1>20. AlertTypeOK'  BY <1>0, <1>1, <1>12, <1>13, <1>19 DEF AlertTypeOK
<1> QED  BY <1>1, <1>14, <1>15, <1>17, <1>19, <1>20, NothingDelivered

(* The table is looked through, or found small enough. *)
LEMMA ScanKeeps ==
  ASSUME AlertInv, NEW c \in Caller, BeginScan(c) \/ EndScan(c) \/ CheckSize(c) PROVE AlertInv'
<1>0. AlertTypeOK /\ TableSound  BY DEF AlertInv
<1>1. call[c].at \in Pruning /\ UNCHANGED <<now, lastSent, job, sent, acks, raced, forgotten>>
  BY DEF BeginScan, EndScan, CheckSize, Pruning
<1>2. /\ call \in [Caller -> AlertCall] /\ lastSent \in Seq(Delivery)
      /\ Len(lastSent) \in Nat /\ MaxKeys \in Nat
  <2>1. call \in [Caller -> AlertCall] /\ lastSent \in Seq(Delivery)  BY <1>0 DEF AlertTypeOK
  <2>2. Len(lastSent) \in Nat  BY <2>1
  <2> QED  BY <2>1, <2>2, PlaceFacts
<1>3. PICK e : e = call[c]  OBVIOUS
<1>4. e \in AlertCall  BY <1>2, <1>3
<1>5. StaleKeys(lastSent) \in SUBSET Key
  <2>1. \A i \in DOMAIN lastSent : lastSent[i] \in Delivery  BY <1>2
  <2>2. \A i \in DOMAIN lastSent : lastSent[i].key \in Key  BY <2>1 DEF Delivery
  <2> QED  BY <2>2 DEF StaleKeys
<1> DEFINE GoesTo(x, ks, b) ==
             /\ call' = [call EXCEPT ![c] = [e EXCEPT !.at = x, !.stale = ks, !.disturbed = b]]
             /\ x \in Pruning \cup {"wait"} /\ ks \in SUBSET Key /\ b \in BOOLEAN
             /\ \/ Len(lastSent) <= MaxKeys
                \/ x \in {"drop", "evict"}
                \/ x = "scan" /\ b = FALSE
                \/ x = "wait" /\ e.at = "scan" /\ e.disturbed
<1>6. PICK at, gone, d : GoesTo(at, gone, d)
  <2>1. e.stale \in SUBSET Key /\ e.disturbed \in BOOLEAN  BY <1>4 DEF AlertCall
  <2>2. ASSUME NEW x
        PROVE  [e EXCEPT !.at = x] = [e EXCEPT !.at = x, !.stale = e.stale, !.disturbed = e.disturbed]
    BY <1>4 DEF AlertCall
  <2>3. CASE BeginScan(c) /\ Len(lastSent) <= MaxKeys
    <3>1. call' = [call EXCEPT ![c] = [e EXCEPT !.at = "wait"]]  BY <1>2, <1>3, <2>3 DEF BeginScan
    <3>2. call' = [call EXCEPT ![c] = [e EXCEPT !.at = "wait", !.stale = e.stale,
                                               !.disturbed = e.disturbed]]
      BY <2>2, <3>1
    <3>3. GoesTo("wait", e.stale, e.disturbed)  BY <2>1, <2>3, <3>2
    <3> HIDE DEF GoesTo
    <3> QED  BY <3>3
  <2>4. CASE BeginScan(c) /\ ~(Len(lastSent) <= MaxKeys)
    <3>1. call' = [call EXCEPT ![c] = [e EXCEPT !.at = "scan", !.stale = StaleKeys(lastSent),
                                               !.disturbed = FALSE]]
      BY <1>2, <1>3, <2>4 DEF BeginScan
    <3>2. GoesTo("scan", StaleKeys(lastSent), FALSE)  BY <1>5, <3>1 DEF Pruning
    <3> HIDE DEF GoesTo
    <3> QED  BY <3>2
  <2>5. CASE EndScan(c) /\ call' = [call EXCEPT ![c].at = "drop"]
    <3>1. call' = [call EXCEPT ![c] = [e EXCEPT !.at = "drop", !.stale = e.stale,
                                               !.disturbed = e.disturbed]]
      BY <1>2, <1>3, <2>2, <2>5
    <3>2. GoesTo("drop", e.stale, e.disturbed)  BY <2>1, <3>1 DEF Pruning
    <3> HIDE DEF GoesTo
    <3> QED  BY <3>2
  <2>6. CASE EndScan(c) /\ call[c].disturbed /\ call' = [call EXCEPT ![c].at = "wait", ![c].stale = {}]
    <3>1. [e EXCEPT !.at = "wait", !.stale = {}]
            = [e EXCEPT !.at = "wait", !.stale = {}, !.disturbed = e.disturbed]
      BY <1>4 DEF AlertCall
    <3>2. call' = [call EXCEPT ![c] = [e EXCEPT !.at = "wait", !.stale = {}]]
      BY <1>2, <1>3, <2>6
    <3>3. call' = [call EXCEPT ![c] = [e EXCEPT !.at = "wait", !.stale = {},
                                               !.disturbed = e.disturbed]]
      BY <3>1, <3>2
    <3>4. e.at = "scan" /\ e.disturbed  BY <1>3, <2>6 DEF EndScan
    <3>5. {} \in SUBSET Key /\ "wait" \in Pruning \cup {"wait"}  OBVIOUS
    <3>6. GoesTo("wait", {}, e.disturbed)  BY <2>1, <3>3, <3>4, <3>5
    <3> HIDE DEF GoesTo
    <3> QED  BY <3>6
  <2>7. CASE CheckSize(c)
    <3>1. PICK x : x = IF Len(lastSent) <= MaxKeys THEN "wait" ELSE "evict"  OBVIOUS
    <3>2. call' = [call EXCEPT ![c] = [e EXCEPT !.at = x, !.stale = e.stale,
                                               !.disturbed = e.disturbed]]
      BY <1>2, <1>3, <2>2, <2>7, <3>1 DEF CheckSize
    <3>3. x \in Pruning \cup {"wait"} /\ (Len(lastSent) <= MaxKeys \/ x = "evict")
      BY <3>1 DEF Pruning
    <3>4. GoesTo(x, e.stale, e.disturbed)  BY <2>1, <3>2, <3>3
    <3> HIDE DEF GoesTo
    <3> QED  BY <3>4
  <2> HIDE DEF GoesTo
  <2> QED  BY <2>3, <2>4, <2>5, <2>6, <2>7 DEF EndScan
<1>7. PICK r : r = [e EXCEPT !.at = at, !.stale = gone, !.disturbed = d]  OBVIOUS
<1>8. /\ r \in AlertCall /\ r.at = at /\ r.alert = e.alert /\ r.of = e.of /\ r.check = e.check
      /\ r.eligible = e.eligible /\ r.wait = e.wait /\ r.disturbed = d
  BY <1>4, <1>6, <1>7 DEF AlertCall
<1>9. /\ call' \in [Caller -> AlertCall] /\ call'[c] = r
      /\ \A o \in Caller : o # c => call'[o] = call[o]
  BY <1>2, <1>6, <1>7, <1>8
<1>10. \A o \in Caller : SameHands(o)  BY <1>3, <1>8, <1>9 DEF SameHands
<1>11. TableSound'
  <2>1. ASSUME Len(lastSent) > MaxKeys PROVE \E o \in Caller : WillPrune(o)'
    <3>1. PICK o \in Caller : WillPrune(o)  BY <1>0, <2>1 DEF TableSound
    <3>2. CASE o # c  BY <1>9, <3>1, <3>2 DEF WillPrune
    <3>3. CASE o = c
      <4>1. ~(e.at = "scan" /\ e.disturbed)  BY <1>3, <3>1, <3>3 DEF WillPrune
      <4>2. at \in {"drop", "evict"} \/ (at = "scan" /\ d = FALSE)
        <5>1. ~(Len(lastSent) <= MaxKeys)  BY <1>2, <2>1
        <5> QED  BY <1>6, <4>1, <5>1
      <4> QED  BY <1>8, <1>9, <4>2 DEF WillPrune
    <3> QED  BY <3>2, <3>3
  <2> QED  BY <1>0, <1>1, <2>1 DEF TableSound, KeysDiffer
<1>12. \A k \in Key : InTable(k) => InTable(k)'  BY <1>1 DEF InTable, LastAck
<1>13. \A o \in Caller : o # c => call'[o].at = call[o].at  BY <1>9
<1>14. call'[c].at \in Pruning \cup {"wait"}  BY <1>6, <1>8, <1>9
<1> QED  BY <1>1, <1>2, <1>9, <1>10, <1>11, <1>12, <1>13, <1>14, PruneStep

(* What was stale is dropped, or what was inserted first. *)
LEMMA DropKeeps ==
  ASSUME AlertInv, NEW c \in Caller, DropStale(c) \/ DropOldest(c) PROVE AlertInv'
<1>0. AlertTypeOK /\ TableSound  BY DEF AlertInv
<1>1. /\ call[c].at \in {"drop", "evict"} /\ call[c].at \in Pruning
      /\ UNCHANGED <<now, job, sent, acks, raced>>
  BY DEF DropStale, DropOldest, Pruning
<1>2. /\ call \in [Caller -> AlertCall] /\ lastSent \in Seq(Delivery) /\ KeysDiffer(lastSent)
      /\ \A i \in DOMAIN lastSent : lastSent[i].at <= now
  BY <1>0 DEF AlertTypeOK, TableSound
<1>3. PICK e : e = call[c]  OBVIOUS
<1>4. e \in AlertCall  BY <1>2, <1>3
<1>5. Pruning = {"prune", "scan", "drop", "evict"}  BY DEF Pruning
<1>6. e.stale \in SUBSET Key  BY <1>4 DEF AlertCall
<1>7. CASE DropStale(c)
  <2>1. PICK k \in call[c].stale :
          /\ lastSent' = Without(lastSent, k) /\ Dropped(k)
          /\ GoOn(c, [call[c] EXCEPT !.stale = @ \ {k}])
    BY <1>7 DEF DropStale
  <2>2. PICK gone : gone = e.stale \ {k}  OBVIOUS
  <2>3. PICK r : r = [e EXCEPT !.at = "drop", !.stale = gone]  OBVIOUS
  <2>4. [call[c] EXCEPT !.stale = @ \ {k}] = r
    BY <1>3, <1>4, <1>7, <2>2, <2>3 DEF DropStale, AlertCall
  <2>5. gone \in SUBSET Key  BY <1>6, <2>2
  <2>6. /\ r \in AlertCall /\ r.at = "drop" /\ r.alert = e.alert /\ r.of = e.of /\ r.check = e.check
        /\ r.eligible = e.eligible /\ r.wait = e.wait
    BY <1>4, <1>5, <2>3, <2>5 DEF AlertCall
  <2>7. LessKey(lastSent', lastSent, k)  BY <1>2, <2>1, WithoutResult
  <2>8. GoOn(c, r)  BY <2>1, <2>4
  <2> QED  BY <1>1, <1>3, <2>1, <2>6, <2>7, <2>8, DropStep
<1>8. CASE DropOldest(c) /\ lastSent # << >>
  <2>1. PICK k : k = Head(lastSent).key  OBVIOUS
  <2>2. PICK r : r = [e EXCEPT !.at = "drop", !.stale = e.stale]  OBVIOUS
  <2>3. [call[c] EXCEPT !.at = "drop"] = r  BY <1>3, <1>4, <2>2 DEF AlertCall
  <2>4. /\ r \in AlertCall /\ r.at = "drop" /\ r.alert = e.alert /\ r.of = e.of /\ r.check = e.check
        /\ r.eligible = e.eligible /\ r.wait = e.wait
    BY <1>4, <1>5, <1>6, <2>2 DEF AlertCall
  <2>5. lastSent' = Tail(lastSent) /\ Dropped(k) /\ GoOn(c, r)
    BY <1>8, <2>1, <2>3 DEF DropOldest
  <2>6. LessKey(lastSent', lastSent, k)  BY <1>2, <1>8, <2>1, <2>5, TailResult
  <2> QED  BY <1>1, <1>3, <2>4, <2>5, <2>6, DropStep
<1>9. CASE DropOldest(c) /\ lastSent = << >>
  <2>1. PICK r : r = [e EXCEPT !.at = "wait", !.stale = e.stale]  OBVIOUS
  <2>2. [call[c] EXCEPT !.at = "wait"] = r  BY <1>3, <1>4, <2>1 DEF AlertCall
  <2>3. /\ r \in AlertCall /\ r.at = "wait" /\ r.alert = e.alert /\ r.of = e.of /\ r.check = e.check
        /\ r.eligible = e.eligible /\ r.wait = e.wait
    BY <1>4, <1>5, <1>6, <2>1 DEF AlertCall
  <2>4. UNCHANGED <<lastSent, forgotten>> /\ GoOn(c, r)  BY <1>9, <2>2 DEF DropOldest
  <2>5. /\ call' \in [Caller -> AlertCall] /\ call'[c] = r
        /\ \A o \in Caller : o # c => SameHands(o) /\ call'[o].at = call[o].at
    BY <1>2, <2>3, <2>4, GoneOn
  <2>6. \A o \in Caller : SameHands(o)  BY <1>3, <2>3, <2>5 DEF SameHands
  <2>7. TableSound'
    <3>1. Len(lastSent) = 0  BY <1>9
    <3>3. MaxKeys \in Nat  BY PlaceFacts
    <3>2. ~(Len(lastSent) > MaxKeys)  BY <3>1, <3>3
    <3> QED  BY <1>1, <1>2, <2>4, <3>2 DEF TableSound, KeysDiffer
  <2>8. \A k \in Key : InTable(k) => InTable(k)'  BY <1>1, <2>4 DEF InTable, LastAck
  <2>9. call'[c].at \in Pruning \cup {"wait"}  BY <2>3, <2>5
  <2> QED  BY <1>1, <1>2, <2>4, <2>5, <2>6, <2>7, <2>8, <2>9, PruneStep
<1> QED  BY <1>7, <1>8, <1>9

(* Nothing was delivered yet. *)
LEMMA AlertInitInv == ASSUME AlertInit PROVE AlertInv
<1>1. call \in [Caller -> AlertCall] /\ \A c \in Caller : call[c] = Resting
  <2>1. Resting \in AlertCall  BY DEF AlertCall, Resting
  <2> QED  BY <2>1 DEF AlertInit
<1>2. job \in [Caller -> [Place -> JobState]] /\ \A c \in Caller : job[c] = NoJobs
  BY PlaceFacts DEF AlertInit
<1>3. \A c \in Caller : AlertCallOK(c)
  <2>1. Resting.at = "idle" /\ Resting.check = << >> /\ Resting.eligible = << >> /\ Resting.wait = << >>
    BY DEF Resting
  <2> QED  BY <1>1, <1>2, <2>1, PlaceFacts DEF AlertCallOK
<1>4. acks \in [Key -> Seq(Taken)] /\ \A k \in Key : acks[k] = << >>  BY DEF AlertInit
<1>5. now = 0 /\ sent = 0 /\ lastSent = << >> /\ lastSent \in Seq(Delivery)  BY DEF AlertInit
<1>6. AlertTypeOK  BY <1>1, <1>2, <1>3, <1>4, <1>5 DEF AlertTypeOK
<1>7. TableSound
  <2>1. ~(Len(lastSent) > MaxKeys)
    <3>1. Len(lastSent) = 0  BY <1>5
    <3>2. MaxKeys \in Nat  BY PlaceFacts
    <3> QED  BY <3>1, <3>2
  <2> QED  BY <1>5, <2>1 DEF TableSound, KeysDiffer
<1>8. ThrottleInv
  <2>1. \A c \in Caller, k \in Key : ~BusyWith(c, k)
    <3>1. \A c \in Caller : call[c].eligible = << >> /\ call[c].wait = << >>  BY <1>1 DEF Resting
    <3>2. \A c \in Caller : ToSet(call[c].eligible) \cup ToSet(call[c].wait) = {}
      BY <3>1, SetsOfSequences
    <3> QED  BY <3>2 DEF BusyWith
  <2>2. \A k \in Key : ~Recent(k)  BY <1>4 DEF Recent
  <2>3. SerialThrottle  BY <1>4 DEF SerialThrottle
  <2> QED  BY <1>4, <2>1, <2>2, <2>3 DEF ThrottleInv
<1> QED  BY <1>6, <1>7, <1>8 DEF AlertInv

(* The keys of a table without repetitions are as many as its entries.      *)
LEMMA AsManyKeys ==
  ASSUME NEW table \in Seq(Delivery), KeysDiffer(table)
  PROVE  Cardinality(KeysOf(table)) = Len(table)
<1> DEFINE f == [i \in 1 .. Len(table) |-> table[i].key]
<1>1. Len(table) \in Nat /\ DOMAIN table = 1 .. Len(table)  OBVIOUS
<1>2. PICK n : n = Len(table)  OBVIOUS
<1>3. IsFiniteSet(1 .. n) /\ Cardinality(1 .. n) = n
  <2>1. n \in Nat  BY <1>1, <1>2
  <2>2. IsFiniteSet(1 .. n) /\ Cardinality(1 .. n) = IF 1 > n THEN 0 ELSE n - 1 + 1
    BY <2>1, FS_Interval
  <2>3. Cardinality(1 .. n) = n  BY <2>1, <2>2
  <2> QED  BY <2>2, <2>3
<1>4. KeysOf(table) = {table[i].key : i \in 1 .. n}  BY <1>1, <1>2 DEF KeysOf
<1>5. f \in [1 .. n -> KeysOf(table)] /\ DOMAIN f = 1 .. n /\ \A i \in 1 .. n : f[i] = table[i].key
  BY <1>2, <1>4
<1>6. \A i, j \in 1 .. n : f[i] = f[j] => i = j  BY <1>1, <1>2, <1>5 DEF KeysDiffer
<1>7. \A k \in KeysOf(table) : \E i \in 1 .. n : f[i] = k  BY <1>4, <1>5
<1> HIDE DEF f
<1>8. f \in Surjection(1 .. n, KeysOf(table)) /\ f \in Injection(1 .. n, KeysOf(table))
  BY <1>5, <1>6, <1>7 DEF Surjection, Injection, IsInjective
<1>9. Cardinality(KeysOf(table)) = Cardinality(1 .. n)
  BY <1>3, <1>8, FS_Surjection
<1> QED  BY <1>2, <1>3, <1>9

(* Every step of the router keeps the invariant. *)
LEMMA AlertInvKept == ASSUME AlertInv, [AlertNext]_alertVars PROVE AlertInv'
<1>1. CASE AlertNext
  BY <1>1, SendAlertKeeps, RouteAlertKeeps, SubmitKeeps, CollectKeeps, FinishKeeps, RunJobKeeps,
     ScanKeeps, DropKeeps, TickKeeps DEF AlertNext, CallerStep
<1>2. CASE UNCHANGED alertVars
  <2>1. UNCHANGED <<now, lastSent, call, job, sent, acks, raced, forgotten>>  BY <1>2 DEF alertVars
  <2>2. AlertTypeOK'  BY <2>1 DEF AlertInv, AlertTypeOK, AlertCallOK
  <2>3. \A c \in Caller : WillPrune(c) => WillPrune(c)'  BY <2>1 DEF WillPrune
  <2>4. \A c \in Caller, k \in Key :
          /\ BusyWith(c, k)' => BusyWith(c, k) /\ call'[c].of = call[c].of
          /\ Coming(c, k) => Coming(c, k)'
    BY <2>1 DEF BusyWith, Coming
  <2> QED  BY <2>1, <2>2, <2>3, <2>4, SameBusy
<1> QED  BY <1>1, <1>2

(* For any destinations, of one name or of several: two alerts of one        *)
(* combination are delivered at least throttle_seconds apart unless callers   *)
(* raced or the table dropped it early, and what was delivered is in the      *)
(* table, which outgrows its limit only while somebody is to prune it.        *)
THEOREM AlertsStayThrottled == AlertSpec => []AlertsThrottled
<1>1. ASSUME AlertInv PROVE AlertsThrottled
  <2>1. Cardinality(KeysOf(lastSent)) = Len(lastSent)
    BY <1>1, AsManyKeys DEF AlertInv, AlertTypeOK, TableSound
  <2>2. Len(lastSent) > MaxKeys =>
          \E c \in Caller : call[c].at \in {"prune", "scan", "drop", "evict"}
    BY <1>1 DEF AlertInv, TableSound, WillPrune
  <2>3. ASSUME NEW k \in Key \ forgotten, acks[k] # << >>, now - LastAck(k) < Throttle
        PROVE  \/ k \in KeysOf(lastSent) /\ LastSentAt(k) >= LastAck(k)
               \/ \E c \in Caller : BusyWith(c, k)
    <3>1. Remembered(k)  BY <1>1, <2>3 DEF AlertInv, ThrottleInv, Recent
    <3>2. CASE InTable(k)
      <4>1. PICK i \in DOMAIN lastSent : lastSent[i].key = k /\ lastSent[i].at >= LastAck(k)
        BY <3>2 DEF InTable
      <4>2. \A j \in DOMAIN lastSent : lastSent[j].key = k => j = i
        BY <1>1, <4>1 DEF AlertInv, TableSound, KeysDiffer
      <4>3. LastSentAt(k) = lastSent[i].at  BY <4>1, <4>2 DEF LastSentAt
      <4> QED  BY <4>1, <4>3 DEF KeysOf
    <3>3. CASE \E c \in Caller : Coming(c, k)  BY <3>3 DEF Coming, BusyWith
    <3> QED  BY <3>1, <3>2, <3>3 DEF Remembered
  <2>4. DeliveryIsRemembered
    BY <2>1, <2>2, <2>3 DEF DeliveryIsRemembered, LastAck
  <2> QED  BY <1>1, <2>4 DEF AlertInv, ThrottleInv, AlertsThrottled
<1> QED  BY <1>1, AlertInitInv, AlertInvKept, PTL DEF AlertSpec
=============================================================================
