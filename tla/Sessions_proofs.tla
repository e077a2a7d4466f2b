----------------------------- MODULE Sessions_proofs -----------------------------
(*****************************************************************************)
(* Proofs about the session manager: what is recorded is retained, listed and*)
(* recorded once, whatever workers, processes and failures of Redis fall     *)
(* together, and who is evicted from memory was used least recently.         *)
(*****************************************************************************)
EXTENDS Sessions, Profiles, RecentUse_proofs, WellFoundedInduction

(* The last elements of a sequence.                                          *)
LEMMA LastOfResult ==
  ASSUME NEW S, NEW q \in Seq(S), NEW k \in Nat \ {0}
  PROVE  LET r == LastOf(q, k)
             n == IF Len(q) > k THEN k ELSE Len(q)
         IN  r \in Seq(S) /\ Len(r) = n /\ \A i \in 1 .. n : r[i] = q[Len(q) - n + i]
<1> DEFINE first == IF Len(q) > k THEN Len(q) - k + 1 ELSE 1
           r == SubSeq(q, first, Len(q))
           n == IF Len(q) > k THEN k ELSE Len(q)
<1>1. Len(q) \in Nat /\ first \in 1 .. Len(q) + 1 /\ Len(q) - first + 1 = n /\ first - 1 = Len(q) - n
      /\ n \in Nat
  OBVIOUS
<1> HIDE DEF first, n
<1>2. r \in Seq(S) /\ Len(r) = Len(q) - first + 1 /\ \A i \in 1 .. Len(q) - first + 1 : r[i] = q[first - 1 + i]
  BY <1>1
<1>3. r \in Seq(S) /\ Len(r) = n /\ \A i \in 1 .. n : r[i] = q[Len(q) - n + i]
  BY <1>1, <1>2
<1>4. LastOf(q, k) = r  BY DEF LastOf, first
<1> HIDE DEF r
<1> QED  BY <1>3, <1>4 DEF n

(* What is left of the last elements and a new one.                          *)
LEMMA LastOfAppend ==
  ASSUME NEW S, NEW q \in Seq(S), NEW x \in S, NEW k \in Nat \ {0}
  PROVE  LastOf(Append(LastOf(q, k), x), k) = LastOf(Append(q, x), k)
<1> DEFINE kept == LastOf(q, k)
           p    == Append(kept, x)
           a    == Append(q, x)
           u    == LastOf(p, k)
           v    == LastOf(a, k)
           L    == Len(q)
           n    == IF L > k THEN k ELSE L
           m    == IF L + 1 > k THEN k ELSE L + 1
<1>1. L \in Nat /\ n \in Nat /\ m \in Nat /\ n =< L /\ m =< n + 1 /\ k \in Nat /\ n =< k
      /\ m = (IF n + 1 > k THEN k ELSE n + 1)
  OBVIOUS
<1>2. kept \in Seq(S) /\ Len(kept) = n /\ \A i \in 1 .. n : kept[i] = q[L - n + i]
  BY LastOfResult
<1> HIDE DEF kept
<1>3. p \in Seq(S) /\ Len(p) = n + 1 /\ p[n + 1] = x /\ \A i \in 1 .. n : p[i] = kept[i]
  BY <1>1, <1>2
<1>4. a \in Seq(S) /\ Len(a) = L + 1 /\ a[L + 1] = x /\ \A i \in 1 .. L : a[i] = q[i]
  BY <1>1
<1> HIDE DEF p, a
<1>5. u \in Seq(S) /\ Len(u) = m /\ \A i \in 1 .. m : u[i] = p[(n + 1) - m + i]
  <2>1. u \in Seq(S) /\ Len(u) = (IF Len(p) > k THEN k ELSE Len(p))
        /\ \A i \in 1 .. (IF Len(p) > k THEN k ELSE Len(p)) :
             u[i] = p[Len(p) - (IF Len(p) > k THEN k ELSE Len(p)) + i]
    BY <1>3, LastOfResult
  <2>2. Len(p) = n + 1 /\ (IF Len(p) > k THEN k ELSE Len(p)) = m  BY <1>1, <1>3
  <2> HIDE DEF u, n, m
  <2> QED  BY <2>1, <2>2
<1>6. v \in Seq(S) /\ Len(v) = m /\ \A i \in 1 .. m : v[i] = a[(L + 1) - m + i]
  <2>1. v \in Seq(S) /\ Len(v) = (IF Len(a) > k THEN k ELSE Len(a))
        /\ \A i \in 1 .. (IF Len(a) > k THEN k ELSE Len(a)) :
             v[i] = a[Len(a) - (IF Len(a) > k THEN k ELSE Len(a)) + i]
    BY <1>4, LastOfResult
  <2>2. Len(a) = L + 1 /\ (IF Len(a) > k THEN k ELSE Len(a)) = m  BY <1>1, <1>4
  <2> HIDE DEF v, L, m
  <2> QED  BY <2>1, <2>2
<1> HIDE DEF u, v, L, n, m
<1>7. ASSUME NEW i \in 1 .. m PROVE u[i] = v[i]
  <2>1. u[i] = p[(n + 1) - m + i] /\ v[i] = a[(L + 1) - m + i]  BY <1>5, <1>6
  <2>2. CASE (n + 1) - m + i = n + 1
    <3>1. (L + 1) - m + i = L + 1  BY <2>2, <1>1
    <3> QED  BY <2>1, <2>2, <3>1, <1>3, <1>4
  <2>3. CASE (n + 1) - m + i # n + 1
    <3>1. /\ (n + 1) - m + i \in 1 .. n /\ (L + 1) - m + i \in 1 .. L
          /\ L - n + ((n + 1) - m + i) = (L + 1) - m + i
      BY <2>3, <1>1
    <3> QED  BY <2>1, <3>1, <1>2, <1>3, <1>4
  <2> QED  BY <2>2, <2>3
<1>8. u = v  BY <1>5, <1>6, <1>7
<1> QED  BY <1>8 DEF u, v, p, a, kept

(* Taking the smallest elements of a set.                                    *)
LEMMA SmallestResult ==
  ASSUME NEW S \in SUBSET Nat, IsFiniteSet(S), NEW k \in Nat
  PROVE  /\ Smallest(S, k) \subseteq S /\ IsFiniteSet(Smallest(S, k))
         /\ Cardinality(Smallest(S, k)) =< k
         /\ Cardinality(S) =< k => Smallest(S, k) = S
<1> DEFINE T == Smallest(S, k)
           below(x) == {y \in S : y < x}
           f == [x \in T |-> Cardinality(below(x)) + 1]
<1>1. \A x : IsFiniteSet(below(x)) /\ Cardinality(below(x)) \in Nat
  <2> SUFFICES ASSUME NEW x PROVE IsFiniteSet(below(x)) /\ Cardinality(below(x)) \in Nat  OBVIOUS
  <2>1. below(x) \in SUBSET S  OBVIOUS
  <2> HIDE DEF below
  <2>2. IsFiniteSet(below(x))  BY <2>1, FS_Subset
  <2> QED  BY <2>2, FS_CardinalityType
<1>2. ASSUME NEW x \in S, NEW z \in S, x < z PROVE Cardinality(below(x)) < Cardinality(below(z))
  <2>0. x \in Nat /\ z \in Nat /\ \A y \in S : y \in Nat  OBVIOUS
  <2>4. x \in below(z) /\ x \notin below(x)  BY <2>0, <1>2
  <2>5. ASSUME NEW y \in below(x) PROVE y \in below(z)
    <3>1. y \in S /\ y \in Nat /\ y < x  BY <2>0
    <3> QED  BY <2>0, <3>1, <1>2
  <2>1. below(x) \subseteq below(z) /\ x \in below(z) /\ x \notin below(x)  BY <2>4, <2>5
  <2> HIDE DEF below
  <2>2. IsFiniteSet(below(z))  BY <1>1
  <2>3. Cardinality(below(x)) =< Cardinality(below(z))
        /\ (Cardinality(below(x)) = Cardinality(below(z)) => below(z) = below(x))
    BY <2>1, <2>2, FS_Subset
  <2> QED  BY <2>1, <2>3, <1>1
<1>3. T \subseteq S /\ \A x \in T : Cardinality(below(x)) < k  BY DEF Smallest
<1> HIDE DEF T, below
<1>4. f \in Injection(T, 1 .. k)
  <2>1. f \in [T -> 1 .. k]  BY <1>1, <1>3
  <2>2. ASSUME NEW x \in T, NEW z \in T, f[x] = f[z] PROVE x = z
    <3>1. x \in Nat /\ z \in Nat /\ x \in S /\ z \in S  BY <1>3
    <3>2. Cardinality(below(x)) = Cardinality(below(z))  BY <2>2, <1>1
    <3>3. ~(x < z) /\ ~(z < x)  BY <3>1, <3>2, <1>1, <1>2
    <3> QED  BY <3>1, <3>3
  <2> HIDE DEF f
  <2> QED  BY <2>1, <2>2 DEF Injection, IsInjective
<1>5. IsFiniteSet(1 .. k) /\ Cardinality(1 .. k) = k
  <2>1. IsFiniteSet(1 .. k) /\ Cardinality(1 .. k) = (IF 1 > k THEN 0 ELSE k - 1 + 1)
    BY FS_Interval
  <2> QED  BY <2>1
<1> HIDE DEF f
<1>6. IsFiniteSet(T) /\ Cardinality(T) =< Cardinality(1 .. k)  BY <1>4, <1>5, FS_Injection
<1>7. ASSUME Cardinality(S) =< k, NEW x \in S PROVE x \in T
  <2>1. below(x) \in SUBSET S /\ x \notin below(x)  BY DEF below
  <2>2. Cardinality(below(x)) =< Cardinality(S) /\ (Cardinality(S) = Cardinality(below(x)) => S = below(x))
    BY <2>1, FS_Subset
  <2>3. Cardinality(S) \in Nat  BY FS_CardinalityType
  <2>4. Cardinality(below(x)) < k  BY <2>1, <2>2, <2>3, <1>1, <1>7
  <2> QED  BY <2>4 DEF T, Smallest, below
<1> QED  BY <1>3, <1>5, <1>6, <1>7 DEF T

----------------------------------------------------------------------------
(* What the operations do to the data of a session and to its log.           *)
LogData == [events : Seq(1 .. MaxOps), services : Seq(Service)]

DataOK(d) == d \in SessionData /\ Capped(d) /\ IsFiniteSet(d.tags)

NewestKept(d, l) == d.total = Len(l.events) /\ d.events = LastOf(l.events, MaxEvents)

Good(d, l) ==
  /\ DataOK(d) /\ l \in LogData /\ NewestKept(d, l)
  /\ Cardinality(d.tags) =< MaxTags /\ Complete(d, l.services)

(* A session that was just created says what an empty log says. *)
LEMMA EmptySession ==
  /\ DataOK(NewSession) /\ NoLog \in LogData /\ NewestKept(NewSession, NoLog)
  /\ NewSession.tags = {} /\ Cardinality(NewSession.tags) =< MaxTags
  /\ Complete(NewSession, NoLog.services)
  /\ NoLog.events = << >> /\ NoLog.services = << >>
<1> USE SessionsAssumption DEF SessionsAssumption
<1>1. IsFiniteSet({}) /\ Cardinality({}) = 0  BY FS_EmptySet
<1>2. NewSession \in SessionData /\ NewSession.tags = {} /\ NewSession.events = << >>
      /\ NewSession.touched = << >> /\ NewSession.depth = 0 /\ NewSession.total = 0
  BY DEF NewSession, SessionData
<1>3. Capped(NewSession)  BY <1>2 DEF Capped, IsInjective
<1>4. NoLog \in LogData /\ NoLog.events = << >> /\ NoLog.services = << >>  BY DEF NoLog, LogData
<1>5. LastOf(<< >>, MaxEvents) = << >>
  <2>1. << >> \in Seq(Nat) /\ MaxEvents \in Nat \ {0}  OBVIOUS
  <2>2. PICK q, k : q = << >> /\ k = MaxEvents  OBVIOUS
  <2>3. q \in Seq(Nat) /\ k \in Nat \ {0} /\ Len(q) = 0  BY <2>1, <2>2
  <2> HIDE SessionsAssumption
  <2>4. LastOf(q, k) \in Seq(Nat) /\ Len(LastOf(q, k)) = (IF Len(q) > k THEN k ELSE Len(q))
    BY <2>3, LastOfResult
  <2>5. LastOf(q, k) = << >>  BY <2>3, <2>4
  <2> QED  BY <2>2, <2>5
<1>6. Complete(NewSession, << >>)
  <2>1. Listed(<< >>) = {}  BY DEF Listed
  <2> QED  BY <1>2, <2>1 DEF Complete
<1> QED  BY <1>1, <1>2, <1>3, <1>4, <1>5, <1>6 DEF DataOK, NewestKept

(* Recording an event.                                                       *)
LEMMA EventResult ==
  ASSUME NEW d, DataOK(d), NEW n \in 1 .. MaxOps
  PROVE  LET e == WithEvent(d, n)
         IN  /\ DataOK(e) /\ e.tags = d.tags /\ e.touched = d.touched /\ e.depth = d.depth
             /\ \A l \in LogData : NewestKept(d, l) =>
                  NewestKept(e, [l EXCEPT !.events = Append(@, n)])
<1> USE SessionsAssumption DEF SessionsAssumption
<1> DEFINE kept == LastOf(Append(d.events, n), MaxEvents)
           e == WithEvent(d, n)
<1>1. d \in SessionData /\ d.events \in Seq(1 .. MaxOps) /\ d.total \in Nat /\ MaxEvents \in Nat \ {0}
  BY DEF DataOK, SessionData
<1>2. Append(d.events, n) \in Seq(1 .. MaxOps)  BY <1>1
<1>3. kept \in Seq(1 .. MaxOps) /\ Len(kept) =< MaxEvents
  <2> DEFINE a == Append(d.events, n)
  <2>1. kept \in Seq(1 .. MaxOps) /\ Len(kept) = (IF Len(a) > MaxEvents THEN MaxEvents ELSE Len(a))
    BY <1>1, <1>2, LastOfResult
  <2>2. Len(a) \in Nat  BY <1>2
  <2> HIDE DEF a, kept
  <2> QED  BY <2>1, <2>2
<1> HIDE DEF kept
<1>4. e = [d EXCEPT !.events = kept, !.total = d.total + 1]  BY DEF WithEvent, kept
<1>5. d.total + 1 \in Nat  BY <1>1
<1>6. /\ e \in SessionData /\ e.events = kept /\ e.total = d.total + 1 /\ e.tags = d.tags
      /\ e.touched = d.touched /\ e.depth = d.depth
  BY <1>1, <1>3, <1>4, <1>5 DEF SessionData
<1> HIDE DEF e
<1>7. DataOK(e)  BY <1>3, <1>6 DEF DataOK, Capped
<1>8. ASSUME NEW l \in LogData, NewestKept(d, l)
      PROVE  NewestKept(e, [l EXCEPT !.events = Append(@, n)])
  <2>1. l.events \in Seq(1 .. MaxOps)  BY DEF LogData
  <2>2. [l EXCEPT !.events = Append(@, n)].events = Append(l.events, n)  BY DEF LogData
  <2>3. LastOf(Append(LastOf(l.events, MaxEvents), n), MaxEvents) = LastOf(Append(l.events, n), MaxEvents)
    <3> HIDE SessionsAssumption
    <3>1. n \in 1 .. MaxOps /\ MaxEvents \in Nat \ {0}  BY <1>1
    <3>2. PICK S, q, k : S = 1 .. MaxOps /\ q = l.events /\ k = MaxEvents  OBVIOUS
    <3>3. q \in Seq(S) /\ n \in S /\ k \in Nat \ {0}  BY <2>1, <3>1, <3>2
    <3>4. LastOf(Append(LastOf(q, k), n), k) = LastOf(Append(q, n), k)  BY <3>3, LastOfAppend
    <3> QED  BY <3>2, <3>4
  <2>4. Len(Append(l.events, n)) = Len(l.events) + 1  BY <2>1
  <2> QED  BY <1>6, <1>8, <2>2, <2>3, <2>4 DEF NewestKept, kept
<1> QED  BY <1>6, <1>7, <1>8 DEF e

(* Adding tags: as many as there is room for beside the known ones.          *)
LEMMA TagsResult ==
  ASSUME NEW d, DataOK(d), NEW tags \in TagRequest, NEW known, IsFiniteSet(known),
         Cardinality(known) =< MaxTags
  PROVE  LET e == WithTags(d, tags, known)
         IN  /\ DataOK(e) /\ e.events = d.events /\ e.total = d.total
             /\ e.touched = d.touched /\ e.depth = d.depth
             /\ d.tags = known => Cardinality(e.tags) =< MaxTags
<1> USE SessionsAssumption DEF SessionsAssumption
<1> DEFINE room == MaxTags - Cardinality(known)
           fresh == tags \ known
           added == Smallest(fresh, room)
           all == d.tags \cup added
           e == WithTags(d, tags, known)
<1>1. d \in SessionData /\ d.tags \in SUBSET UNION TagRequest /\ IsFiniteSet(d.tags)
  BY DEF DataOK, SessionData
<1>2. Cardinality(known) \in Nat /\ MaxTags \in Nat  BY FS_CardinalityType
<1>3. room \in Nat  BY <1>2
<1>4. IsFiniteSet(fresh) /\ fresh \in SUBSET Nat
  <2>1. IsFiniteSet(tags) /\ fresh \in SUBSET tags /\ tags \subseteq Nat  OBVIOUS
  <2> QED  BY <2>1, FS_Subset
<1> HIDE DEF room, fresh
<1>5. added \subseteq fresh /\ IsFiniteSet(added) /\ Cardinality(added) =< room
  BY <1>3, <1>4, SmallestResult
<1> HIDE DEF added
<1>6. all \in SUBSET UNION TagRequest  BY <1>1, <1>5 DEF fresh
<1>7. IsFiniteSet(all) /\ Cardinality(all) = Cardinality(d.tags) + Cardinality(added) - Cardinality(d.tags \cap added)
  BY <1>1, <1>5, FS_Union
<1>8. e = [d EXCEPT !.tags = all]  BY DEF WithTags, added, fresh, room
<1> HIDE DEF all
<1>9. /\ e \in SessionData /\ e.tags = all /\ e.events = d.events /\ e.total = d.total
      /\ e.touched = d.touched /\ e.depth = d.depth
  BY <1>1, <1>6, <1>8 DEF SessionData
<1> HIDE DEF e
<1>10. DataOK(e)  BY <1>7, <1>9 DEF DataOK, Capped
<1>11. ASSUME d.tags = known PROVE Cardinality(e.tags) =< MaxTags
  <2>1. IsFiniteSet(d.tags \cap added)  BY <1>1, FS_Intersection
  <2>2. Cardinality(d.tags \cap added) \in Nat /\ Cardinality(added) \in Nat
    BY <2>1, <1>5, FS_CardinalityType
  <2> QED  BY <2>2, <1>2, <1>5, <1>7, <1>9, <1>11 DEF room
<1> QED  BY <1>9, <1>10, <1>11 DEF e

(* The elements of a sequence.                                               *)
LEMMA ListedFinite ==
  ASSUME NEW S, NEW q \in Seq(S)
  PROVE  IsFiniteSet(Listed(q))
<1> DEFINE D == 1 .. Len(q)
<1>1. Len(q) \in Nat /\ DOMAIN q = D /\ q \in [D -> S]  OBVIOUS
<1>2. q \in Surjection(D, Listed(q))  BY <1>1 DEF Surjection, Listed
<1>3. IsFiniteSet(D)  BY <1>1, FS_Interval
<1> QED  BY <1>2, <1>3, FS_Surjection

(* What a list names once another name is appended. *)
LEMMA ListedAppend ==
  ASSUME NEW S, NEW q \in Seq(S), NEW x \in S
  PROVE  Append(q, x) \in Seq(S) /\ Listed(Append(q, x)) = Listed(q) \cup {x}
<1> DEFINE a == Append(q, x)
<1>1. a \in Seq(S) /\ Len(a) = Len(q) + 1 /\ a[Len(q) + 1] = x /\ \A i \in 1 .. Len(q) : a[i] = q[i]
  OBVIOUS
<1>2. Len(q) \in Nat /\ DOMAIN q = 1 .. Len(q) /\ DOMAIN a = 1 .. Len(q) + 1  BY <1>1
<1> HIDE DEF a
<1>3. Listed(a) \subseteq Listed(q) \cup {x}
  <2> SUFFICES ASSUME NEW i \in DOMAIN a PROVE a[i] \in Listed(q) \cup {x}  BY DEF Listed
  <2>1. CASE i = Len(q) + 1  BY <2>1, <1>1
  <2>2. CASE i # Len(q) + 1
    <3>1. i \in 1 .. Len(q)  BY <2>2, <1>2
    <3> QED  BY <3>1, <1>1, <1>2 DEF Listed
  <2> QED  BY <2>1, <2>2
<1>4. x \in Listed(a)
  <2>1. Len(q) + 1 \in DOMAIN a  BY <1>2
  <2> QED  BY <2>1, <1>1 DEF Listed
<1>5. Listed(q) \subseteq Listed(a)
  <2> SUFFICES ASSUME NEW i \in DOMAIN q PROVE q[i] \in Listed(a)  BY DEF Listed
  <2>1. i \in DOMAIN a /\ a[i] = q[i]  BY <1>1, <1>2
  <2> QED  BY <2>1 DEF Listed
<1> QED  BY <1>1, <1>3, <1>4, <1>5 DEF a

(* A service that is touched is among those last touched, with the others as  *)
(* long as there is room for all.                                            *)
LEMMA TouchedResult ==
  ASSUME NEW touched \in Seq(Service), IsInjective(touched), NEW service \in Service,
         service \notin Listed(touched), NEW k \in Nat \ {0}
  PROVE  LET r == LastOf(Append(touched, service), k)
         IN  /\ r \in Seq(Service) /\ Len(r) =< k /\ IsInjective(r) /\ service \in Listed(r)
             /\ Listed(r) \subseteq Listed(touched) \cup {service}
             /\ Cardinality(Listed(touched) \cup {service}) =< k => Listed(r) = Listed(touched) \cup {service}
<1> DEFINE a == Append(touched, service)
           r == LastOf(a, k)
           L == Len(a)
           n == IF L > k THEN k ELSE L
<1>1. a \in Seq(Service) /\ Listed(a) = Listed(touched) \cup {service}  BY ListedAppend
<1>2. IsInjective(a)
  <2> SUFFICES ASSUME NEW i \in DOMAIN a, NEW j \in DOMAIN a, a[i] = a[j], i < j PROVE FALSE
    <3>1. \A i \in DOMAIN a : i \in Nat  BY <1>1
    <3> QED  BY <3>1 DEF IsInjective
  <2>1. i \in 1 .. Len(touched) /\ a[i] = touched[i] /\ DOMAIN touched = 1 .. Len(touched)  OBVIOUS
  <2>2. CASE j = Len(touched) + 1
    <3>1. a[j] = service  BY <2>2
    <3> QED  BY <2>1, <3>1 DEF Listed
  <2>3. CASE j # Len(touched) + 1
    <3>0. j \in 1 .. Len(touched) + 1 /\ Len(touched) \in Nat  OBVIOUS
    <3>3. j \in 1 .. Len(touched)  BY <3>0, <2>3
    <3>4. a[j] = touched[j]  BY <3>3
    <3>5. i # j
      <4> HIDE DEF a
      <4> QED  BY <2>1, <3>0
    <3>1. j \in 1 .. Len(touched) /\ a[j] = touched[j] /\ i # j  BY <3>3, <3>4, <3>5
    <3> HIDE DEF a
    <3>2. touched[i] = touched[j]  BY <2>1, <3>1
    <3> QED  BY <2>1, <3>1, <3>2 DEF IsInjective
  <2> QED  BY <2>2, <2>3
<1>3. Len(a) = Len(touched) + 1 /\ a[L] = service /\ L \in Nat /\ L >= 1 /\ DOMAIN a = 1 .. L  OBVIOUS
<1> HIDE DEF a
<1>4. r \in Seq(Service) /\ Len(r) = n /\ \A i \in 1 .. n : r[i] = a[L - n + i]
  BY <1>1, LastOfResult
<1>5. n \in Nat /\ n >= 1 /\ n =< k /\ n =< L /\ DOMAIN r = 1 .. n /\ (L =< k => n = L)  BY <1>3, <1>4
<1> HIDE DEF r, L, n
<1>6. ASSUME NEW i \in 1 .. n PROVE L - n + i \in 1 .. L /\ r[i] = a[L - n + i]
  <2>1. L - n + i \in 1 .. L  BY <1>3, <1>5
  <2> QED  BY <2>1, <1>4
<1>7. ASSUME NEW x \in Listed(r) PROVE x \in Listed(a)
  <2>1. PICK i \in 1 .. n : x = r[i]  BY <1>5 DEF Listed
  <2>2. L - n + i \in DOMAIN a /\ x = a[L - n + i]  BY <1>3, <1>6, <2>1
  <2> QED  BY <2>2 DEF Listed
<1>8. service \in Listed(r)
  <2>1. n \in 1 .. n /\ L - n + n = L  BY <1>3, <1>5
  <2> QED  BY <2>1, <1>3, <1>4, <1>5 DEF Listed
<1>9. IsInjective(r)
  <2> SUFFICES ASSUME NEW i \in 1 .. n, NEW j \in 1 .. n, r[i] = r[j] PROVE i = j
    BY <1>5 DEF IsInjective
  <2>1. L - n + i = L - n + j  BY <1>2, <1>3, <1>6 DEF IsInjective
  <2> QED  BY <2>1, <1>3, <1>5
<1>10. ASSUME Cardinality(Listed(a)) =< k PROVE Listed(r) = Listed(a)
  <2>1. Cardinality(Listed(a)) = Len(a)  BY <1>1, <1>2, DistinctKeys
  <2>2. n = L  BY <1>3, <1>5, <1>10, <2>1 DEF L
  <2>3. \A i \in 1 .. L : r[i] = a[i]
    <3> SUFFICES ASSUME NEW i \in 1 .. L PROVE r[i] = a[i]  OBVIOUS
    <3>1. L - n + i = i  BY <1>3, <2>2
    <3> QED  BY <2>2, <3>1, <1>6
  <2> QED  BY <1>3, <1>5, <2>2, <2>3 DEF Listed
<1> QED  BY <1>1, <1>4, <1>5, <1>7, <1>8, <1>9, <1>10 DEF r, a

(* Recording a service visited keeps what the narrative says of the others. *)
LEMMA ServiceResult ==
  ASSUME NEW d, DataOK(d), NEW service \in Service
  PROVE  LET e == WithService(d, service)
         IN  /\ DataOK(e) /\ e.events = d.events /\ e.total = d.total /\ e.tags = d.tags
             /\ \A visits \in Seq(Service) : Complete(d, visits) => Complete(e, Append(visits, service))
<1> DEFINE touched == IF service \in Listed(d.touched) THEN d.touched
                      ELSE LastOf(Append(d.touched, service), MaxTouched)
           depth == IF d.depth < MaxDepth THEN d.depth + 1 ELSE d.depth
           e == WithService(d, service)
<1>1. d \in SessionData /\ d.touched \in Seq(Service) /\ d.depth \in 0 .. MaxDepth
      /\ IsInjective(d.touched) /\ Len(d.touched) =< MaxTouched
  BY DEF DataOK, SessionData, Capped
<1>2. MaxTouched \in Nat \ {0} /\ MaxDepth \in Nat \ {0}
  BY SessionsAssumption DEF SessionsAssumption
<1>3. /\ touched \in Seq(Service) /\ Len(touched) =< MaxTouched /\ IsInjective(touched)
      /\ service \in Listed(touched) /\ Listed(touched) \subseteq Listed(d.touched) \cup {service}
      /\ Cardinality(Listed(d.touched) \cup {service}) =< MaxTouched =>
           Listed(touched) = Listed(d.touched) \cup {service}
  <2>1. CASE service \in Listed(d.touched)
    <3>1. Listed(d.touched) \cup {service} = Listed(d.touched)  BY <2>1
    <3> QED  BY <2>1, <3>1, <1>1
  <2>2. CASE service \notin Listed(d.touched)
    <3> DEFINE r == LastOf(Append(d.touched, service), MaxTouched)
    <3>1. touched = r  BY <2>2
    <3>2. /\ r \in Seq(Service) /\ Len(r) =< MaxTouched /\ IsInjective(r) /\ service \in Listed(r)
          /\ Listed(r) \subseteq Listed(d.touched) \cup {service}
          /\ Cardinality(Listed(d.touched) \cup {service}) =< MaxTouched =>
               Listed(r) = Listed(d.touched) \cup {service}
      BY <1>1, <1>2, <2>2, TouchedResult
    <3> HIDE DEF touched, r
    <3> QED  BY <3>1, <3>2
  <2> QED  BY <2>1, <2>2
<1>4. depth \in 0 .. MaxDepth  BY <1>1, <1>2
<1>5. e = [d EXCEPT !.touched = touched, !.depth = depth]  BY DEF WithService
<1> HIDE DEF touched
<1>6. /\ e \in SessionData /\ e.touched = touched /\ e.depth = depth /\ e.tags = d.tags
      /\ e.events = d.events /\ e.total = d.total
  BY <1>1, <1>3, <1>4, <1>5 DEF SessionData
<1> HIDE DEF e
<1>7. DataOK(e)  BY <1>3, <1>6 DEF DataOK, Capped
<1>8. ASSUME NEW visits \in Seq(Service), Complete(d, visits)
      PROVE  Complete(e, Append(visits, service))
  <2> DEFINE new == Append(visits, service)
             V == Listed(visits)
  <2>1. new \in Seq(Service) /\ Listed(new) = V \cup {service}  BY ListedAppend
  <2>2. Len(new) = Len(visits) + 1 /\ new[Len(new)] = service /\ Len(visits) \in Nat  OBVIOUS
  <2>3. IsFiniteSet(V \cup {service}) /\ V \in SUBSET (V \cup {service})
        /\ IsFiniteSet(V)
    BY <2>1, ListedFinite
  <2>4. Cardinality(V) =< Cardinality(V \cup {service})
        /\ Cardinality(V) \in Nat /\ Cardinality(V \cup {service}) \in Nat
    BY <2>3, FS_Subset, FS_CardinalityType
  <2> HIDE DEF new
  <2>5. e.depth = IF Len(new) < MaxDepth THEN Len(new) ELSE MaxDepth
    BY <1>1, <1>2, <1>6, <1>8, <2>2 DEF Complete
  <2>6. Listed(e.touched) \subseteq Listed(new)
    BY <1>3, <1>6, <1>8, <2>1 DEF Complete
  <2>7. ASSUME Cardinality(Listed(new)) =< MaxTouched PROVE Listed(new) = Listed(e.touched)
    <3>1. Cardinality(V) =< MaxTouched  BY <1>2, <2>1, <2>4, <2>7
    <3>2. V = Listed(d.touched)  BY <3>1, <1>8 DEF Complete
    <3> HIDE DEF V
    <3> QED  BY <3>2, <1>3, <1>6, <2>1, <2>7
  <2>8. new[Len(new)] \in Listed(e.touched)  BY <1>3, <1>6, <2>2
  <2> QED  BY <2>5, <2>6, <2>7, <2>8 DEF Complete, new
<1> QED  BY <1>6, <1>7, <1>8 DEF e

----------------------------------------------------------------------------
Place == {"idle", "memory", "ensure", "push", "tags", "add", "read", "write",
          "collect", "metadata", "prune"}
Kind  == {"none", "create", "record", "tag", "resolve", "export"}

OpRecord ==
  [at : Place, kind : Kind, n : Nat, sid : Sid \cup {None}, arg : TagRequest \cup Service \cup {None},
   seen : {None} \cup (SUBSET UNION TagRequest) \cup (SUBSET Sid) \cup SessionData, held : BOOLEAN]

(* A call is what its place says it is, of what it was given.                *)
CallOK(o) ==
  /\ o \in OpRecord
  /\ o.at = "ensure" => o.kind \in {"create", "record", "tag", "resolve"}
  /\ o.at = "memory" => o.kind # "none"
  /\ o.at = "push" => o.kind = "record"
  /\ o.at \in {"tags", "add"} => o.kind = "tag"
  /\ o.at \in {"read", "write"} => o.kind = "resolve"
  /\ o.at \in {"collect", "metadata", "prune"} => o.kind = "export"
  /\ o.kind \in {"create", "record", "tag", "resolve"} => o.sid \in Sid
  /\ o.kind = "record" => o.n \in 1 .. events
  /\ o.kind = "tag" => o.arg \in TagRequest
  /\ o.kind = "resolve" => o.arg \in Service
  /\ o.at \in {"metadata", "prune"} => o.seen \subseteq Sid

(* What a call read is what Redis has, unless another writer read it too.    *)
ReadOK(o) ==
  /\ o.at \in {"push", "tags", "add", "read", "write"} => redis[o.sid] # None
  /\ o.at = "add" => /\ IsFiniteSet(o.seen) /\ Cardinality(o.seen) =< MaxTags
                     /\ <<o.sid, "add">> \in mixed \/ o.seen = redis[o.sid].tags
  /\ o.at = "write" => /\ DataOK(o.seen)
                       /\ \/ <<o.sid, "write">> \in mixed
                          \/ o.seen.touched = redis[o.sid].touched /\ o.seen.depth = redis[o.sid].depth

Alone ==
  \A v, w \in Worker : v # w /\ op[v].at = op[w].at /\ op[v].at \in {"add", "write"} /\ op[v].sid = op[w].sid
    => <<op[v].sid, op[v].at>> \in mixed

CallsOK == (\A w \in Worker : CallOK(op[w]) /\ ReadOK(op[w])) /\ Alone

StoreTypes ==
  /\ home \in [Worker -> Process] /\ backend \in [Process -> {"memory", "redis"}]
  /\ op \in [Worker -> OpRecord]
  /\ events \in Nat /\ ops \in Nat /\ events =< ops /\ ops =< MaxOps
  /\ redis \in [Sid -> SessionData \cup {None}]
  /\ memory \in [Process -> [Sid -> SessionData \cup {None}]]
  /\ order \in [Process -> Seq(Sid)]
  /\ log \in [Process \cup {None} -> [Sid -> LogData]] /\ index \subseteq Sid

(* What Redis has of a session.                                              *)
RedisGood(s) ==
  /\ DataOK(redis[s]) /\ NewestKept(redis[s], log[None][s])
  /\ <<s, "add">> \in mixed \/ Cardinality(redis[s].tags) =< MaxTags
  /\ <<s, "write">> \in mixed \/ Complete(redis[s], log[None][s].services)

RedisOK ==
  \A s \in Sid : /\ redis[s] # None => RedisGood(s)
                 /\ redis[s] = None => log[None][s] = NoLog

MemoryGood(p) ==
  /\ Len(order[p]) =< MaxSessions /\ IsInjective(order[p])
  /\ Listed(order[p]) = {s \in Sid : memory[p][s] # None}
  /\ \A s \in Sid : memory[p][s] # None => Good(memory[p][s], log[p][s])

MemoryOK == \A p \in Process : MemoryGood(p)

SessionsInv == StoreTypes /\ CallsOK /\ RedisOK /\ MemoryOK /\ LiveIsListed

(* None is no session data.                                                  *)
LEMMA NoneIsNoData == None \notin SessionData
<1> SUFFICES ASSUME None \in SessionData PROVE FALSE  OBVIOUS
<1> DEFINE Larger == [events : Seq(Nat), total : Nat, tags : SUBSET Nat, touched : Seq(Service), depth : Nat]
<1>1. None \notin Larger  BY SessionsAssumption DEF SessionsAssumption
<1>2. Seq(1 .. MaxOps) \subseteq Seq(Nat) /\ SUBSET UNION TagRequest \subseteq SUBSET Nat /\ 0 .. MaxDepth \subseteq Nat
  BY SessionsAssumption DEF SessionsAssumption
<1>3. SessionData \subseteq Larger  BY <1>2 DEF SessionData
<1> QED  BY <1>1, <1>3

(* None is neither a process nor a session. *)
LEMMA NoneIsNobody == None \notin Process /\ None \notin Sid
BY SessionsAssumption DEF SessionsAssumption

(* No call.                                                                  *)
LEMMA IdleCall == CallOK(Idle) /\ ReadOK(Idle) /\ Idle.at = "idle"
BY DEF Idle, CallOK, ReadOK, OpRecord, Place, Kind

(* No session, no call and both backends empty. *)
LEMMA SessionsInitInv == ASSUME SessionInit PROVE SessionsInv
<1> USE SessionsAssumption DEF SessionsAssumption
<1>1. StoreTypes
  <2>1. NoLog \in LogData  BY EmptySession
  <2>2. Idle \in OpRecord  BY IdleCall DEF CallOK
  <2>3. log \in [Process \cup {None} -> [Sid -> LogData]]
    <3>1. [s \in Sid |-> NoLog] \in [Sid -> LogData]  BY <2>1
    <3> QED  BY <3>1 DEF SessionInit
  <2>4. memory \in [Process -> [Sid -> SessionData \cup {None}]] /\ redis \in [Sid -> SessionData \cup {None}]
    <3>1. [s \in Sid |-> None] \in [Sid -> SessionData \cup {None}]  OBVIOUS
    <3> QED  BY <3>1 DEF SessionInit
  <2>5. op \in [Worker -> OpRecord]  BY <2>2 DEF SessionInit
  <2>6. order \in [Process -> Seq(Sid)]  BY DEF SessionInit
  <2>7. home \in [Worker -> Process] /\ backend \in [Process -> {"memory", "redis"}]  BY DEF SessionInit
  <2>8. events \in Nat /\ ops \in Nat /\ events =< ops /\ ops =< MaxOps /\ index \subseteq Sid  BY DEF SessionInit
  <2> QED  BY <2>3, <2>4, <2>5, <2>6, <2>7, <2>8 DEF StoreTypes
<1>2. CallsOK
  <2>1. \A w \in Worker : op[w] = Idle  BY DEF SessionInit
  <2> QED  BY <2>1, IdleCall DEF CallsOK, Alone, CallOK, ReadOK
<1>3. RedisOK  BY NoneIsNobody DEF SessionInit, RedisOK
<1>4. MemoryOK
  <2> SUFFICES ASSUME NEW p \in Process PROVE MemoryGood(p)  BY DEF MemoryOK
  <2>1. order[p] = << >> /\ \A s \in Sid : memory[p][s] = None  BY DEF SessionInit
  <2>2. Len(order[p]) =< MaxSessions  BY <2>1
  <2>3. Listed(order[p]) = {}  BY <2>1 DEF Listed
  <2> QED  BY <2>1, <2>2, <2>3 DEF MemoryGood, IsInjective
<1>5. LiveIsListed  BY DEF SessionInit, LiveIsListed
<1> QED  BY <1>1, <1>2, <1>3, <1>4, <1>5 DEF SessionsInv

----------------------------------------------------------------------------
(* The same call, at the same place or sent to the memory of its process.    *)
Same(o, q) == o \in OpRecord /\ o.at = q.at /\ o.kind = q.kind /\ o.n = q.n /\ o.sid = q.sid
                /\ o.arg = q.arg /\ o.seen = q.seen
InMemoryNow(o, q) == o \in OpRecord /\ o.at = "memory" /\ o.kind = q.kind /\ o.n = q.n /\ o.sid = q.sid
                       /\ o.arg = q.arg /\ o.seen = q.seen

(* A round trip to Redis that fails sends the call back to memory, and its    *)
(* process with it.                                                           *)
LEMMA FallBackResult ==
  ASSUME StoreTypes, NEW w \in Worker, FallBack(w)
  PROVE  /\ backend' \in [Process -> {"memory", "redis"}]
         /\ op' \in [Worker -> OpRecord] /\ InMemoryNow(op'[w], op[w])
         /\ \A v \in Worker : v # w => Same(op'[v], op[v])
<1>1. PICK H : w \notin H /\
        op' = [v \in Worker |->
                 CASE v = w   -> [op[v] EXCEPT !.at = "memory", !.held = FALSE]
                   [] v \in H -> [op[v] EXCEPT !.held = TRUE]
                   [] OTHER   -> op[v]]
  BY DEF FallBack
<1>2. backend' \in [Process -> {"memory", "redis"}]  BY DEF FallBack, StoreTypes
<1>3. op[w] \in OpRecord  BY DEF StoreTypes
<1>4. InMemoryNow(op'[w], op[w])
  <2>1. op'[w] = [op[w] EXCEPT !.at = "memory", !.held = FALSE]
    <3> DEFINE f(v) == CASE v = w   -> [op[v] EXCEPT !.at = "memory", !.held = FALSE]
                         [] v \in H -> [op[v] EXCEPT !.held = TRUE]
                         [] OTHER   -> op[v]
    <3>1. f(w) = [op[w] EXCEPT !.at = "memory", !.held = FALSE]  BY <1>1
    <3>2. op' = [v \in Worker |-> f(v)]  BY <1>1
    <3> HIDE DEF f
    <3> QED  BY <3>1, <3>2
  <2> QED  BY <1>3, <2>1 DEF OpRecord, InMemoryNow, Place
<1>5. ASSUME NEW v \in Worker, v # w PROVE Same(op'[v], op[v])
  <2>1. op[v] \in OpRecord /\ (op'[v] = [op[v] EXCEPT !.held = TRUE] \/ op'[v] = op[v])
    <3> DEFINE f(u) == CASE u = w   -> [op[u] EXCEPT !.at = "memory", !.held = FALSE]
                         [] u \in H -> [op[u] EXCEPT !.held = TRUE]
                         [] OTHER   -> op[u]
    <3>1. f(v) = [op[v] EXCEPT !.held = TRUE] \/ f(v) = op[v]  BY <1>5
    <3>2. op' = [u \in Worker |-> f(u)]  BY <1>1
    <3> HIDE DEF f
    <3>3. op'[v] = f(v)  BY <3>2
    <3> QED  BY <3>1, <3>3 DEF StoreTypes
  <2> QED  BY <2>1 DEF OpRecord, Same
<1>6. op' \in [Worker -> OpRecord]
  <2>1. \A v \in Worker : op'[v] \in OpRecord  BY <1>4, <1>5 DEF Same, InMemoryNow
  <2> QED  BY <1>1, <2>1
<1> QED  BY <1>2, <1>4, <1>5, <1>6

(* A round trip to Redis is answered, or it fails on the way back. *)
LEMMA ReplyResult ==
  ASSUME StoreTypes, NEW w \in Worker, NEW next \in OpRecord, Reply(w, next)
  PROVE  /\ backend' \in [Process -> {"memory", "redis"}]
         /\ op' \in [Worker -> OpRecord] /\ (op'[w] = next \/ InMemoryNow(op'[w], op[w]))
         /\ \A v \in Worker : v # w => Same(op'[v], op[v])
<1>1. CASE FallBack(w)  BY <1>1, FallBackResult
<1>2. CASE op' = [op EXCEPT ![w] = next] /\ UNCHANGED backend
  BY <1>2 DEF StoreTypes, Same
<1> QED  BY <1>1, <1>2 DEF Reply

(* A step after which one call goes on to next, or to memory, and the others  *)
(* may still rely on what they read.                                         *)
LEMMA StepKeepsCalls ==
  ASSUME StoreTypes, CallsOK, NEW w \in Worker, NEW next, CallOK(next)', ReadOK(next)',
         events' \in Nat, events =< events', op' \in [Worker -> OpRecord],
         op'[w] = next \/ (op[w].at # "idle" /\ InMemoryNow(op'[w], op[w])),
         \A v \in Worker : v # w => Same(op'[v], op[v]),
         mixed \subseteq mixed',
         \A v \in Worker : v # w => \A o : Same(o, op[v]) /\ ReadOK(op[v]) => ReadOK(o)',
         \A v \in Worker : v # w /\ next.at \in {"add", "write"} /\ op[v].at = next.at /\ op[v].sid = next.sid
           => <<next.sid, next.at>> \in mixed'
  PROVE  CallsOK'
<1>0. 1 .. events \subseteq 1 .. events'  BY DEF StoreTypes
<1>1. ASSUME NEW v \in Worker PROVE CallOK(op[v])' /\ ReadOK(op[v])'
  <2>1. PICK o : o = op'[v]  OBVIOUS
  <2>2. CallOK(op[v]) /\ ReadOK(op[v])  BY DEF CallsOK
  <2>3. CASE v = w /\ o = next  BY <2>1, <2>3 DEF CallOK, ReadOK
  <2>4. CASE v = w /\ o # next /\ InMemoryNow(o, op[w])
    <3>0. op[w].at # "idle"  BY <2>1, <2>4
    <3>1. op[w].kind # "none"
      BY <2>2, <3>0, <2>4 DEF CallOK, OpRecord, Place
    <3> QED  BY <1>0, <2>1, <2>2, <2>4, <3>1 DEF CallOK, ReadOK, InMemoryNow
  <2>5. CASE v # w
    <3>1. Same(o, op[v])  BY <2>1, <2>5
    <3>2. ReadOK(o)'  BY <2>2, <2>5, <3>1
    <3> QED  BY <1>0, <2>1, <2>2, <3>1, <3>2 DEF CallOK, ReadOK, Same
  <2> QED  BY <2>1, <2>3, <2>4, <2>5
<1>2. Alone'
  <2> SUFFICES ASSUME NEW u \in Worker, NEW v \in Worker, u # v, op'[u].at = op'[v].at,
                      op'[u].at \in {"add", "write"}, op'[u].sid = op'[v].sid
               PROVE  <<op'[u].sid, op'[u].at>> \in mixed'
    BY DEF Alone
  <2>1. CASE u # w /\ v # w
    <3>1. op'[u].at = op[u].at /\ op'[u].sid = op[u].sid /\ op'[v].at = op[v].at /\ op'[v].sid = op[v].sid
      BY <2>1 DEF Same
    <3> QED  BY <3>1 DEF CallsOK, Alone
  <2>2. CASE u = w
    <3>1. op'[w] = next  BY <2>2 DEF InMemoryNow
    <3>2. op[v].at = next.at /\ op[v].sid = next.sid  BY <2>2, <3>1 DEF Same
    <3> QED  BY <2>2, <3>1, <3>2
  <2>3. CASE v = w
    <3>1. op'[w] = next  BY <2>3 DEF InMemoryNow
    <3>2. op[u].at = next.at /\ op[u].sid = next.sid  BY <2>3, <3>1 DEF Same
    <3> QED  BY <2>3, <3>1, <3>2
  <2> QED  BY <2>1, <2>2, <2>3
<1> QED  BY <1>1, <1>2 DEF CallsOK

(* A call may go on with what it read while nobody changes that part of it.   *)
LEMMA ReadIsKept ==
  ASSUME NEW q, NEW o, Same(o, q), ReadOK(q), mixed \subseteq mixed',
         q.at \in {"push", "tags", "add", "read", "write"} /\ redis[q.sid] # None => redis'[q.sid] # None,
         q.at = "add" => (<<q.sid, "add">> \in mixed \/ redis'[q.sid].tags = redis[q.sid].tags),
         q.at = "write" => \/ <<q.sid, "write">> \in mixed
                           \/ /\ redis'[q.sid].touched = redis[q.sid].touched
                              /\ redis'[q.sid].depth = redis[q.sid].depth
  PROVE  ReadOK(o)'
BY DEF ReadOK, Same

(* A step that touches no memory. *)
LEMMA MemoryIsKept ==
  ASSUME MemoryOK, UNCHANGED <<memory, order>>, \A p \in Process : log'[p] = log[p]
  PROVE  MemoryOK'
BY DEF MemoryOK, MemoryGood

(* A round trip that changes no session in Redis.                            *)
LEMMA ReadingStep ==
  ASSUME SessionsInv, NEW w \in Worker, op[w].at # "idle", NEW next \in OpRecord, Reply(w, next),
         CallOK(next)', ReadOK(next)', mixed \subseteq mixed',
         \A v \in Worker : v # w /\ next.at \in {"add", "write"} /\ op[v].at = next.at /\ op[v].sid = next.sid
           => <<next.sid, next.at>> \in mixed',
         UNCHANGED <<home, memory, order, redis, ops, events, log>>, LiveIsListed', index' \subseteq Sid
  PROVE  SessionsInv'
<1>1. StoreTypes /\ CallsOK /\ RedisOK /\ MemoryOK  BY DEF SessionsInv
<1>2. /\ backend' \in [Process -> {"memory", "redis"}]
      /\ op' \in [Worker -> OpRecord] /\ (op'[w] = next \/ InMemoryNow(op'[w], op[w]))
      /\ \A v \in Worker : v # w => Same(op'[v], op[v])
  BY <1>1, ReplyResult
<1>3. StoreTypes'  BY <1>1, <1>2 DEF StoreTypes
<1>4. \A v \in Worker : v # w => \A o : Same(o, op[v]) /\ ReadOK(op[v]) => ReadOK(o)'
  BY DEF ReadOK, Same
<1>5. events' \in Nat /\ events =< events'  BY <1>1 DEF StoreTypes
<1>6. CallsOK'  BY <1>1, <1>2, <1>4, <1>5, StepKeepsCalls
<1>7. RedisOK'  BY <1>1 DEF RedisOK, RedisGood
<1>8. MemoryOK'  BY <1>1, MemoryIsKept
<1> QED  BY <1>3, <1>6, <1>7, <1>8 DEF SessionsInv

(* What a round trip writes to Redis, what it may write, and what those who  *)
(* read the session before still know of it.                                *)
Stores(s, d, l) ==
  /\ s \in Sid /\ d \in SessionData /\ l \in LogData
  /\ redis' = [redis EXCEPT ![s] = d]
  /\ log' \in [Process \cup {None} -> [Sid -> LogData]] /\ log'[None][s] = l
  /\ \A r \in Sid : r # s => log'[None][r] = log[None][r]
  /\ \A p \in Process : log'[p] = log[p]
  /\ UNCHANGED <<home, memory, order, ops, events, mixed>> /\ LiveIsListed' /\ index' \subseteq Sid

Storable(s, d, l) ==
  /\ DataOK(d) /\ NewestKept(d, l)
  /\ <<s, "add">> \in mixed \/ Cardinality(d.tags) =< MaxTags
  /\ <<s, "write">> \in mixed \/ Complete(d, l.services)

ReadersKnow(w, s, d) ==
  \A v \in Worker : v # w /\ op[v].sid = s /\ redis[s] # None =>
    /\ op[v].at = "add" => (<<s, "add">> \in mixed \/ d.tags = redis[s].tags)
    /\ op[v].at = "write" => \/ <<s, "write">> \in mixed
                             \/ d.touched = redis[s].touched /\ d.depth = redis[s].depth

(* A round trip that writes one session to Redis.                            *)
LEMMA StoreStep ==
  ASSUME SessionsInv, NEW w \in Worker, op[w].at # "idle", NEW next \in OpRecord, Reply(w, next),
         CallOK(next)', ReadOK(next)', next.at \notin {"add", "write"},
         NEW s, NEW d, NEW l, Stores(s, d, l), Storable(s, d, l), ReadersKnow(w, s, d)
  PROVE  SessionsInv'
<1> SUFFICES
      ASSUME s \in Sid, d \in SessionData, l \in LogData,
             redis' = [redis EXCEPT ![s] = d],
             log' \in [Process \cup {None} -> [Sid -> LogData]], log'[None][s] = l,
             \A r \in Sid : r # s => log'[None][r] = log[None][r],
             \A p \in Process : log'[p] = log[p],
             DataOK(d), NewestKept(d, l),
             <<s, "add">> \in mixed \/ Cardinality(d.tags) =< MaxTags,
             <<s, "write">> \in mixed \/ Complete(d, l.services),
             \A v \in Worker : v # w /\ op[v].sid = s /\ redis[s] # None =>
               /\ op[v].at = "add" => (<<s, "add">> \in mixed \/ d.tags = redis[s].tags)
               /\ op[v].at = "write" => \/ <<s, "write">> \in mixed
                                        \/ d.touched = redis[s].touched /\ d.depth = redis[s].depth,
             UNCHANGED <<home, memory, order, ops, events, mixed>>, LiveIsListed', index' \subseteq Sid
      PROVE  SessionsInv'
  BY Zenon DEF Stores, Storable, ReadersKnow
<1>1. StoreTypes /\ CallsOK /\ RedisOK /\ MemoryOK  BY DEF SessionsInv
<1>2. /\ backend' \in [Process -> {"memory", "redis"}]
      /\ op' \in [Worker -> OpRecord] /\ (op'[w] = next \/ InMemoryNow(op'[w], op[w]))
      /\ \A v \in Worker : v # w => Same(op'[v], op[v])
  BY <1>1, ReplyResult
<1>3. redis \in [Sid -> SessionData \cup {None}] /\ d # None  BY <1>1, NoneIsNoData DEF StoreTypes
<1>4. redis'[s] = d /\ \A r \in Sid : r # s => redis'[r] = redis[r]  BY <1>3
<1>5. StoreTypes'  BY <1>1, <1>2 DEF StoreTypes
<1>6. ASSUME NEW v \in Worker, v # w, NEW o, Same(o, op[v]), ReadOK(op[v]) PROVE ReadOK(o)'
  <2> DEFINE q == op[v]
  <2>1. Same(o, q) /\ ReadOK(q) /\ mixed \subseteq mixed'  BY <1>6
  <2>2. q.at \in {"push", "tags", "add", "read", "write"} => q.sid \in Sid /\ redis[q.sid] # None
    <3>1. CallOK(q)  BY <1>1 DEF CallsOK
    <3> QED  BY <3>1, <1>6 DEF CallOK, ReadOK
  <2>3. q.at \in {"push", "tags", "add", "read", "write"} /\ redis[q.sid] # None => redis'[q.sid] # None
    BY <1>3, <1>4, <2>2
  <2>4. q.at = "add" => (<<q.sid, "add">> \in mixed \/ redis'[q.sid].tags = redis[q.sid].tags)
    BY <1>4, <1>6, <2>2
  <2>5. q.at = "write" => \/ <<q.sid, "write">> \in mixed
                          \/ /\ redis'[q.sid].touched = redis[q.sid].touched
                             /\ redis'[q.sid].depth = redis[q.sid].depth
    BY <1>4, <1>6, <2>2
  <2> HIDE DEF q
  <2> QED  BY <2>1, <2>3, <2>4, <2>5, ReadIsKept
<1>7. events' \in Nat /\ events =< events'  BY <1>1 DEF StoreTypes
<1>8. CallsOK'  BY <1>1, <1>2, <1>6, <1>7, StepKeepsCalls
<1>9. RedisOK'
  <2> SUFFICES ASSUME NEW r \in Sid
               PROVE  (redis[r] # None => RedisGood(r))' /\ (redis[r] = None => log[None][r] = NoLog)'
    BY DEF RedisOK
  <2>1. CASE r = s  BY <2>1, <1>3, <1>4 DEF RedisGood
  <2>2. CASE r # s  BY <2>2, <1>1, <1>4 DEF RedisOK, RedisGood
  <2> QED  BY <2>1, <2>2
<1>10. MemoryOK'  BY <1>1, MemoryIsKept
<1> QED  BY <1>5, <1>8, <1>9, <1>10 DEF SessionsInv

----------------------------------------------------------------------------
SeenValue == {None} \cup (SUBSET UNION TagRequest) \cup (SUBSET Sid) \cup SessionData

(* The next place of a call, which stays the call it is. *)
LEMMA GotoResult ==
  ASSUME StoreTypes, NEW w \in Worker, NEW at \in Place, NEW seen \in SeenValue
  PROVE  LET q == Goto(w, at, seen)
         IN  /\ q \in OpRecord /\ q.at = at /\ q.seen = seen
             /\ q.kind = op[w].kind /\ q.n = op[w].n /\ q.sid = op[w].sid /\ q.arg = op[w].arg
<1>1. op[w] \in OpRecord  BY DEF StoreTypes
<1> QED  BY <1>1 DEF Goto, OpRecord, SeenValue

(* A call that is over. *)
LEMMA IdleNext == Idle \in OpRecord /\ CallOK(Idle)' /\ ReadOK(Idle)' /\ Idle.at \notin {"add", "write"}
BY DEF Idle, CallOK, ReadOK, OpRecord, Place, Kind

(* The public methods.                                                       *)
LEMMA BeginKeepsInv ==
  ASSUME SessionsInv, NEW w \in Worker, NEW kind \in Kind \ {"none"}, NEW s \in Sid \cup {None},
         NEW arg \in TagRequest \cup Service \cup {None}, Begin(w, kind, s, arg),
         kind # "export" => s \in Sid, kind = "tag" => arg \in TagRequest,
         kind = "resolve" => arg \in Service
  PROVE  SessionsInv'
<1> USE SessionsAssumption DEF SessionsAssumption
<1>1. StoreTypes /\ CallsOK /\ RedisOK /\ MemoryOK /\ LiveIsListed  BY DEF SessionsInv
<1> DEFINE at == CASE backend[home[w]] = "memory" -> "memory"
                   [] kind = "export" -> "collect"
                   [] OTHER -> "ensure"
           n == IF kind = "record" THEN events' ELSE 0
           next == [at |-> at, kind |-> kind, n |-> n, sid |-> s, arg |-> arg, seen |-> None, held |-> FALSE]
<1>2. op' = [op EXCEPT ![w] = next] /\ ops' = ops + 1 /\ ops < MaxOps
      /\ events' = (IF kind = "record" THEN events + 1 ELSE events)
  BY DEF Begin
<1>3. /\ events' \in Nat /\ events =< events' /\ ops' \in Nat /\ events' =< ops' /\ ops' =< MaxOps
      /\ (kind = "record" => events' >= 1)
  BY <1>1, <1>2 DEF StoreTypes
<1>4. at \in {"memory", "collect", "ensure"} /\ (at = "ensure" => kind # "export")
      /\ (at = "collect" => kind = "export")
  <2>1. CASE backend[home[w]] = "memory"
    <3>1. at = "memory" \/ (kind = "export" /\ at = "collect")  BY <2>1
    <3> QED  BY <3>1
  <2>2. CASE backend[home[w]] # "memory"
    <3>1. kind = "export" => at = "collect"  BY <2>2
    <3>2. kind # "export" => at = "ensure"  BY <2>2
    <3> QED  BY <3>1, <3>2
  <2> QED  BY <2>1, <2>2
<1>5. n \in Nat /\ (kind = "record" => n \in 1 .. events')  BY <1>3
<1> HIDE DEF at, n
<1>6. PICK q : q = next  OBVIOUS
<1>7. /\ q \in OpRecord /\ q.at = at /\ q.kind = kind /\ q.n = n /\ q.sid = s /\ q.arg = arg
      /\ q.seen = None
  BY <1>4, <1>5, <1>6 DEF OpRecord, Place, Kind
<1> HIDE DEF next
<1>8. CallOK(q)' /\ ReadOK(q)' /\ q.at \notin {"add", "write"}
  BY <1>4, <1>5, <1>7 DEF CallOK, ReadOK, Kind
<1>9. op' \in [Worker -> OpRecord] /\ op'[w] = q /\ \A v \in Worker : v # w => Same(op'[v], op[v])
  BY <1>1, <1>2, <1>6, <1>7 DEF StoreTypes, Same
<1>10. UNCHANGED <<home, backend, memory, order, redis, index, log, mixed, unlisted, recency>>
  BY DEF Begin, stores, hist
<1>11. StoreTypes'  BY <1>1, <1>3, <1>9, <1>10 DEF StoreTypes
<1>12. \A v \in Worker : v # w => \A o : Same(o, op[v]) /\ ReadOK(op[v]) => ReadOK(o)'
  BY <1>10 DEF ReadOK, Same
<1>13. mixed \subseteq mixed'  BY <1>10
<1>14. CallsOK'
  BY <1>1, <1>3, <1>8, <1>9, <1>12, <1>13, StepKeepsCalls
<1>15. RedisOK' /\ LiveIsListed'  BY <1>1, <1>10 DEF RedisOK, RedisGood, LiveIsListed
<1>16. MemoryOK'  BY <1>1, <1>10, MemoryIsKept
<1> QED  BY <1>11, <1>14, <1>15, <1>16 DEF SessionsInv

(* A call begins, in memory or in Redis as its process has it. *)
LEMMA CallKeepsInv ==
  ASSUME SessionsInv, NEW w \in Worker, Call(w)
  PROVE  SessionsInv'
<1>1. CASE \E s \in Sid : GetOrCreate(w, s)
  BY <1>1, BeginKeepsInv DEF GetOrCreate, Kind
<1>2. CASE \E s \in Sid : RecordEvent(w, s)
  BY <1>2, BeginKeepsInv DEF RecordEvent, Kind
<1>3. CASE \E s \in Sid, tags \in TagRequest : AddTags(w, s, tags)
  BY <1>3, BeginKeepsInv DEF AddTags, Kind
<1>4. CASE \E s \in Sid, service \in Service : ResolveNarrative(w, s, service)
  BY <1>4, BeginKeepsInv DEF ResolveNarrative, Kind
<1>5. CASE ExportSessions(w)
  BY <1>5, BeginKeepsInv DEF ExportSessions, Kind
<1> QED  BY <1>1, <1>2, <1>3, <1>4, <1>5 DEF Call

(* The round trips that read.                                                *)
LEMMA ReadTagsKeepsInv ==
  ASSUME SessionsInv, NEW w \in Worker, ReadTags(w)
  PROVE  SessionsInv'
<1> USE SessionsAssumption DEF SessionsAssumption
<1>1. StoreTypes /\ CallsOK /\ RedisOK /\ LiveIsListed  BY DEF SessionsInv
<1> DEFINE s == op[w].sid
           known == Smallest(redis[s].tags, MaxTags)
           next == IF op[w].arg \subseteq known \/ Cardinality(known) = MaxTags
                   THEN Idle ELSE Goto(w, "add", known)
<1>2. /\ op[w].at = "tags" /\ Reply(w, next) /\ mixed \subseteq mixed'
      /\ ((\E v \in Worker \ {w} : op[v].at = "add" /\ op[v].sid = s) => <<s, "add">> \in mixed')
      /\ UNCHANGED <<home, memory, order, redis, index, ops, events, log, unlisted, recency>>
  BY DEF ReadTags, Connected
<1>3. s \in Sid /\ redis[s] # None /\ op[w].kind = "tag" /\ op[w].arg \in TagRequest /\ op[w].at # "idle"
  BY <1>1, <1>2 DEF CallsOK, CallOK, ReadOK
<1>4. DataOK(redis[s]) /\ (<<s, "add">> \in mixed \/ Cardinality(redis[s].tags) =< MaxTags)
  BY <1>1, <1>3 DEF RedisOK, RedisGood
<1> DEFINE T == redis[s].tags
<1>5. T \in SUBSET UNION TagRequest /\ IsFiniteSet(T) /\ T \in SUBSET Nat
  BY <1>4 DEF DataOK, SessionData
<1> HIDE DEF T
<1>6. /\ Smallest(T, MaxTags) \subseteq T /\ IsFiniteSet(Smallest(T, MaxTags))
      /\ Cardinality(Smallest(T, MaxTags)) =< MaxTags
      /\ (Cardinality(T) =< MaxTags => Smallest(T, MaxTags) = T)
  BY <1>5, SmallestResult
<1>7. /\ known \subseteq T /\ IsFiniteSet(known) /\ Cardinality(known) =< MaxTags
      /\ (Cardinality(T) =< MaxTags => known = T)
  BY <1>6 DEF T
<1> HIDE DEF known
<1>10. LiveIsListed' /\ index' \subseteq Sid  BY <1>1, <1>2 DEF LiveIsListed, StoreTypes
<1>8. CASE next = Idle
  <2>1. Reply(w, Idle)  BY <1>2, <1>8
  <2> QED  BY <1>2, <1>3, <1>10, <2>1, IdleNext, ReadingStep
<1>9. CASE next = Goto(w, "add", known)
  <2>1. PICK q : q = next  OBVIOUS
  <2>2. known \in SeenValue /\ "add" \in Place  BY <1>5, <1>7 DEF SeenValue, Place
  <2>3. /\ q \in OpRecord /\ q.at = "add" /\ q.seen = known /\ q.kind = op[w].kind
        /\ q.n = op[w].n /\ q.sid = s /\ q.arg = op[w].arg
    BY <1>1, <1>9, <2>1, <2>2, GotoResult
  <2>4. Reply(w, q)  BY <1>2, <2>1
  <2> HIDE DEF next
  <2>5. CallOK(q)'  BY <1>3, <2>3 DEF CallOK
  <2>6. ReadOK(q)'
    <3>1. <<s, "add">> \in mixed' \/ known = redis'[s].tags  BY <1>2, <1>4, <1>7 DEF T
    <3>2. redis'[s] # None  BY <1>2, <1>3
    <3> QED  BY <1>7, <2>3, <3>1, <3>2 DEF ReadOK
  <2>7. \A v \in Worker : v # w /\ q.at \in {"add", "write"} /\ op[v].at = q.at /\ op[v].sid = q.sid
          => <<q.sid, q.at>> \in mixed'
    BY <1>2, <2>3
  <2> HIDE DEF s
  <2> QED  BY <1>2, <1>3, <1>10, <2>3, <2>4, <2>5, <2>6, <2>7, ReadingStep
<1> QED  BY <1>8, <1>9

(* A narrative that is read under the lock of its process. *)
LEMMA ReadNarrativeKeepsInv ==
  ASSUME SessionsInv, NEW w \in Worker, ReadNarrative(w)
  PROVE  SessionsInv'
<1>1. StoreTypes /\ CallsOK /\ RedisOK /\ LiveIsListed  BY DEF SessionsInv
<1> DEFINE s == op[w].sid
           next == Goto(w, "write", redis[s])
<1>2. /\ op[w].at = "read" /\ Reply(w, next) /\ mixed \subseteq mixed'
      /\ ((\E v \in Worker \ {w} : op[v].at = "write" /\ op[v].sid = s) => <<s, "write">> \in mixed')
      /\ UNCHANGED <<home, memory, order, redis, index, ops, events, log, unlisted, recency>>
  BY DEF ReadNarrative, Connected
<1>3. s \in Sid /\ redis[s] # None /\ op[w].kind = "resolve" /\ op[w].arg \in Service /\ op[w].at # "idle"
  BY <1>1, <1>2 DEF CallsOK, CallOK, ReadOK
<1>4. DataOK(redis[s])  BY <1>1, <1>3 DEF RedisOK, RedisGood
<1>5. LiveIsListed' /\ index' \subseteq Sid  BY <1>1, <1>2 DEF LiveIsListed, StoreTypes
<1>6. PICK q : q = next  OBVIOUS
<1>7. redis[s] \in SeenValue /\ "write" \in Place  BY <1>4 DEF SeenValue, Place, DataOK
<1> HIDE DEF s
<1>8. /\ q \in OpRecord /\ q.at = "write" /\ q.seen = redis[s] /\ q.kind = op[w].kind
      /\ q.n = op[w].n /\ q.sid = op[w].sid /\ q.arg = op[w].arg
  BY <1>1, <1>6, <1>7, GotoResult
<1>9. Reply(w, q)  BY <1>2, <1>6
<1> HIDE DEF next
<1>10. q.sid = s  BY <1>8 DEF s
<1>11. CallOK(q)'  BY <1>3, <1>8, <1>10 DEF CallOK
<1>12. ReadOK(q)'  BY <1>2, <1>3, <1>4, <1>8, <1>10 DEF ReadOK
<1>13. \A v \in Worker : v # w /\ q.at \in {"add", "write"} /\ op[v].at = q.at /\ op[v].sid = q.sid
         => <<q.sid, q.at>> \in mixed'
  BY <1>2, <1>8, <1>10
<1> QED  BY <1>2, <1>3, <1>5, <1>8, <1>9, <1>11, <1>12, <1>13, ReadingStep

(* The round trips of an export.                                             *)
ExportNext(w, next) ==
  next = Idle \/ \E at \in {"metadata", "prune"}, S \in SUBSET Sid : next = Goto(w, at, S)

(* The steps of an export, which only takes ids out of the index. *)
LEMMA ExportKeepsInv ==
  ASSUME SessionsInv, NEW w \in Worker, op[w].kind = "export",
         NEW next, ExportNext(w, next),
         op[w].at # "idle", Reply(w, next),
         UNCHANGED <<home, memory, order, redis, ops, events, log, mixed>>, LiveIsListed', index' \subseteq index
  PROVE  SessionsInv'
<1>1. StoreTypes /\ CallsOK  BY DEF SessionsInv
<1>2. mixed \subseteq mixed' /\ index' \subseteq Sid  BY <1>1 DEF StoreTypes
<1>3. CASE next = Idle
  <2>1. Reply(w, Idle)  BY <1>3
  <2> QED  BY <1>2, <2>1, IdleNext, ReadingStep
<1>4. CASE next # Idle
  <2>1. PICK at \in {"metadata", "prune"}, S \in SUBSET Sid : next = Goto(w, at, S)  BY <1>4 DEF ExportNext
  <2>2. at \in Place /\ S \in SeenValue  BY DEF Place, SeenValue
  <2>3. /\ next \in OpRecord /\ next.at = at /\ next.seen = S /\ next.kind = op[w].kind
        /\ next.n = op[w].n /\ next.sid = op[w].sid /\ next.arg = op[w].arg
    BY <1>1, <2>1, <2>2, GotoResult
  <2>4. CallOK(next)'  BY <2>3 DEF CallOK
  <2>5. ReadOK(next)' /\ next.at \notin {"add", "write"}  BY <2>3 DEF ReadOK
  <2> QED  BY <1>2, <2>3, <2>4, <2>5, ReadingStep
<1> QED  BY <1>3, <1>4

(* The three round trips of an export. *)
LEMMA ExportsKeepInv ==
  ASSUME SessionsInv, NEW w \in Worker, CollectIds(w) \/ ReadMetadata(w) \/ PruneIndex(w)
  PROVE  SessionsInv'
<1>1. StoreTypes /\ CallsOK /\ LiveIsListed  BY DEF SessionsInv
<1>0. index \subseteq Sid  BY <1>1 DEF StoreTypes
<1>2. op[w].kind = "export" /\ op[w].at # "idle" /\ (op[w].at = "prune" => op[w].seen \subseteq Sid)
  BY <1>1 DEF CollectIds, ReadMetadata, PruneIndex, Connected, CallsOK, CallOK
<1>3. CASE CollectIds(w)
  <2>1. PICK q : q = IF index = {} THEN Idle ELSE Goto(w, "metadata", index)  OBVIOUS
  <2>2. Reply(w, q) /\ UNCHANGED <<home, memory, order, redis, index, ops, events, log, mixed, unlisted>>
    BY <1>3, <2>1 DEF CollectIds
  <2>3. ExportNext(w, q)  BY <1>0, <2>1 DEF ExportNext
  <2>4. LiveIsListed'  BY <1>1, <2>2 DEF LiveIsListed
  <2> QED  BY <1>2, <2>2, <2>3, <2>4, ExportKeepsInv
<1>4. CASE ReadMetadata(w)
  <2>0. op[w].seen \subseteq Sid  BY <1>1, <1>4 DEF ReadMetadata, Connected, CallsOK, CallOK
  <2>1. PICK stale \in SUBSET {s \in op[w].seen : redis[s] = None} :
          Reply(w, IF stale = {} THEN Idle ELSE Goto(w, "prune", stale))
    BY <1>4 DEF ReadMetadata
  <2>2. PICK q : q = IF stale = {} THEN Idle ELSE Goto(w, "prune", stale)  OBVIOUS
  <2>3. Reply(w, q) /\ UNCHANGED <<home, memory, order, redis, index, ops, events, log, mixed, unlisted>>
    BY <1>4, <2>1, <2>2 DEF ReadMetadata
  <2>4. ExportNext(w, q)
    <3>1. stale \in SUBSET Sid  BY <2>0
    <3> QED  BY <2>2, <3>1 DEF ExportNext
  <2>5. LiveIsListed'  BY <1>1, <2>3 DEF LiveIsListed
  <2> QED  BY <1>2, <2>3, <2>4, <2>5, ExportKeepsInv
<1>5. CASE PruneIndex(w)
  <2>1. Reply(w, Idle) /\ UNCHANGED <<home, memory, order, redis, ops, events, log, mixed>> /\ index' \subseteq index
    BY <1>5 DEF PruneIndex
  <2>2. LiveIsListed'  BY <1>1, <1>5 DEF LiveIsListed, PruneIndex
  <2>3. ExportNext(w, Idle)  BY DEF ExportNext
  <2> QED  BY <1>2, <2>1, <2>2, <2>3, ExportKeepsInv
<1> QED  BY <1>3, <1>4, <1>5

(* Redis fails a call, or an export reads the memory of its process. *)
LEMMA FailureKeepsInv ==
  ASSUME SessionsInv, NEW w \in Worker, RedisFails(w) \/ ExportMemory(w)
  PROVE  SessionsInv'
<1>1. LiveIsListed /\ StoreTypes  BY DEF SessionsInv
<1>2. /\ op[w].at # "idle" /\ mixed \subseteq mixed'
      /\ UNCHANGED <<home, memory, order, redis, index, ops, events, log, unlisted>>
  BY DEF RedisFails, ExportMemory, stores, hist
<1>3. Reply(w, Idle)  BY DEF RedisFails, ExportMemory, Reply, stores
<1>4. LiveIsListed' /\ index' \subseteq Sid  BY <1>1, <1>2 DEF LiveIsListed, StoreTypes
<1> QED  BY <1>2, <1>3, <1>4, IdleNext, ReadingStep

(* The round trips that write.                                               *)
LEMMA AfterEnsureResult ==
  ASSUME StoreTypes, CallsOK, NEW w \in Worker, op[w].at = "ensure", events' = events, redis'[op[w].sid] # None
  PROVE  \E q \in OpRecord : /\ q = AfterEnsure(w) /\ CallOK(q)' /\ ReadOK(q)'
                             /\ q.at \notin {"add", "write"}
<1>1. CallOK(op[w]) /\ op[w].kind \in {"create", "record", "tag", "resolve"}  BY DEF CallsOK, CallOK
<1>2. PICK q : q = AfterEnsure(w)  OBVIOUS
<1>3. CASE op[w].kind = "create"
  <2>1. q = Idle  BY <1>2, <1>3 DEF AfterEnsure
  <2> QED  BY <1>2, <2>1, IdleNext
<1>4. CASE op[w].kind # "create"
  <2>1. PICK at \in {"push", "tags", "read"} :
          /\ q = Goto(w, at, None) /\ (at = "push" => op[w].kind = "record")
          /\ (at = "tags" => op[w].kind = "tag") /\ (at = "read" => op[w].kind = "resolve")
    <3>1. CASE op[w].kind = "record"  BY <1>2, <3>1 DEF AfterEnsure
    <3>2. CASE op[w].kind = "tag"  BY <1>2, <3>2 DEF AfterEnsure
    <3>3. CASE op[w].kind = "resolve"  BY <1>2, <3>3 DEF AfterEnsure
    <3> QED  BY <1>1, <1>4, <3>1, <3>2, <3>3
  <2>2. at \in Place /\ None \in SeenValue  BY DEF Place, SeenValue
  <2>3. /\ q \in OpRecord /\ q.at = at /\ q.seen = None /\ q.kind = op[w].kind
        /\ q.n = op[w].n /\ q.sid = op[w].sid /\ q.arg = op[w].arg
    BY <2>1, <2>2, GotoResult
  <2>4. CallOK(q)' /\ ReadOK(q)'  BY <1>1, <2>1, <2>3 DEF CallOK, ReadOK
  <2> QED  BY <1>2, <2>3, <2>4
<1> QED  BY <1>3, <1>4

(* A session that is created in Redis, if it is not there. *)
LEMMA EnsureKeepsInv ==
  ASSUME SessionsInv, NEW w \in Worker, Ensure(w)
  PROVE  SessionsInv'
<1>1. StoreTypes /\ CallsOK /\ RedisOK /\ LiveIsListed  BY DEF SessionsInv
<1>2. PICK s : s = op[w].sid  OBVIOUS
<1>3. /\ op[w].at = "ensure" /\ redis' = [redis EXCEPT ![s] = IF @ = None THEN NewSession ELSE @]
      /\ index' = index \cup {s} /\ unlisted' = unlisted \ {s} /\ Reply(w, AfterEnsure(w))
      /\ UNCHANGED <<home, memory, order, ops, events, log, mixed, recency>>
  BY <1>2 DEF Ensure, Connected
<1>4. s \in Sid  BY <1>1, <1>2, <1>3 DEF CallsOK, CallOK
<1>5. PICK d, l : d = (IF redis[s] = None THEN NewSession ELSE redis[s]) /\ l = log[None][s]  OBVIOUS
<1>6. redis \in [Sid -> SessionData \cup {None}] /\ l \in LogData  BY <1>1, <1>4, <1>5 DEF StoreTypes
<1>7. redis' = [redis EXCEPT ![s] = d]  BY <1>3, <1>4, <1>5, <1>6
<1>8. /\ DataOK(d) /\ NewestKept(d, l) /\ (<<s, "add">> \in mixed \/ Cardinality(d.tags) =< MaxTags)
      /\ (<<s, "write">> \in mixed \/ Complete(d, l.services))
  <2>1. CASE redis[s] = None
    <3>1. l = NoLog  BY <1>1, <1>4, <1>5, <2>1 DEF RedisOK
    <3> QED  BY <1>5, <2>1, <3>1, EmptySession
  <2>2. CASE redis[s] # None  BY <1>1, <1>4, <1>5, <2>2 DEF RedisOK, RedisGood
  <2> QED  BY <2>1, <2>2
<1>9. d \in SessionData /\ d # None  BY <1>8, NoneIsNoData DEF DataOK
<1>10. redis'[s] = d /\ \A r \in Sid : r # s => redis'[r] = redis[r]  BY <1>4, <1>6, <1>7
<1>11. \E q \in OpRecord : /\ q = AfterEnsure(w) /\ CallOK(q)' /\ ReadOK(q)'
                           /\ q.at \notin {"add", "write"}
  <2>1. redis'[op[w].sid] # None  BY <1>2, <1>9, <1>10
  <2> QED  BY <1>1, <1>3, <2>1, AfterEnsureResult
<1>12. PICK q \in OpRecord : q = AfterEnsure(w) /\ CallOK(q)' /\ ReadOK(q)' /\ q.at \notin {"add", "write"}
  BY <1>11
<1>13. Reply(w, q)  BY <1>3, <1>12
<1>14. LiveIsListed' /\ index' \subseteq Sid
  BY <1>1, <1>3, <1>4, <1>10 DEF LiveIsListed, StoreTypes
<1>15. log' \in [Process \cup {None} -> [Sid -> LogData]] /\ log'[None][s] = l
      /\ (\A r \in Sid : r # s => log'[None][r] = log[None][r]) /\ \A p \in Process : log'[p] = log[p]
  BY <1>1, <1>3, <1>5 DEF StoreTypes
<1>16. \A v \in Worker : v # w /\ op[v].sid = s /\ redis[s] # None =>
           /\ op[v].at = "add" => (<<s, "add">> \in mixed \/ d.tags = redis[s].tags)
           /\ op[v].at = "write" => \/ <<s, "write">> \in mixed
                                    \/ d.touched = redis[s].touched /\ d.depth = redis[s].depth
  BY <1>5
<1>17. op[w].at # "idle" /\ UNCHANGED <<home, memory, order, ops, events, mixed>>  BY <1>3
<1>18. Stores(s, d, l)  BY <1>4, <1>6, <1>7, <1>9, <1>14, <1>15, <1>17, Zenon DEF Stores
<1>19. Storable(s, d, l)  BY <1>8, Zenon DEF Storable
<1>20. ReadersKnow(w, s, d)  BY <1>16, Zenon DEF ReadersKnow
<1> QED  BY <1>12, <1>13, <1>17, <1>18, <1>19, <1>20, StoreStep

(* Another entry of the log of Redis.                                        *)
LEMMA LogResult ==
  ASSUME StoreTypes, NEW s \in Sid, NEW l \in LogData, log' = [log EXCEPT ![None][s] = l]
  PROVE  /\ log' \in [Process \cup {None} -> [Sid -> LogData]] /\ log'[None][s] = l
         /\ (\A r \in Sid : r # s => log'[None][r] = log[None][r])
         /\ \A p \in Process : log'[p] = log[p]
<1>1. log \in [Process \cup {None} -> [Sid -> LogData]] /\ None \notin Process
  BY NoneIsNobody DEF StoreTypes
<1>2. log[None] \in [Sid -> LogData]  BY <1>1
<1>3. log' = [log EXCEPT ![None] = [log[None] EXCEPT ![s] = l]]  OBVIOUS
<1>4. [log[None] EXCEPT ![s] = l] \in [Sid -> LogData]  BY <1>2
<1>5. log'[None] = [log[None] EXCEPT ![s] = l]  BY <1>1, <1>3
<1> QED  BY <1>1, <1>2, <1>3, <1>4, <1>5

(* A step that changes no log of what was asked for. *)
LEMMA LogIsKept ==
  ASSUME StoreTypes, NEW s \in Sid, log' = log
  PROVE  /\ log' \in [Process \cup {None} -> [Sid -> LogData]] /\ log'[None][s] = log[None][s]
         /\ (\A r \in Sid : r # s => log'[None][r] = log[None][r])
         /\ \A p \in Process : log'[p] = log[p]
BY DEF StoreTypes

(* The last round trip of a call.                                            *)
LEMMA LastWrite ==
  ASSUME SessionsInv, NEW w \in Worker, op[w].at # "idle", Reply(w, Idle),
         NEW s, NEW d, NEW l, Stores(s, d, l), Storable(s, d, l), ReadersKnow(w, s, d)
  PROVE  SessionsInv'
<1>1. PICK q : q = Idle  OBVIOUS
<1>2. q \in OpRecord /\ CallOK(q)' /\ ReadOK(q)' /\ q.at \notin {"add", "write"} /\ Reply(w, q)
  BY <1>1, IdleNext
<1> QED  BY <1>2, StoreStep

(* An event is pushed to Redis and the list trimmed. *)
LEMMA PushKeepsInv ==
  ASSUME SessionsInv, NEW w \in Worker, Push(w)
  PROVE  SessionsInv'
<1>1. StoreTypes /\ CallsOK /\ RedisOK /\ LiveIsListed  BY DEF SessionsInv
<1>2. PICK s, n, l : s = op[w].sid /\ n = op[w].n /\ l = log[None][s]  OBVIOUS
<1>3. CallOK(op[w]) /\ ReadOK(op[w]) /\ op[w].at = "push" /\ op[w].kind = "record" /\ op[w].at # "idle"
  BY <1>1 DEF Push, Connected, CallsOK, CallOK
<1>4. s \in Sid /\ n \in 1 .. events /\ redis[s] # None /\ l \in LogData
  BY <1>1, <1>2, <1>3 DEF CallOK, ReadOK, StoreTypes
<1>5. n \in 1 .. MaxOps
  <2>1. events \in Nat /\ ops \in Nat /\ MaxOps \in Nat /\ events =< ops /\ ops =< MaxOps
    BY <1>1, SessionsAssumption DEF StoreTypes, SessionsAssumption
  <2> QED  BY <1>4, <2>1
<1>6. PICK d, k : d = WithEvent(redis[s], n) /\ k = [l EXCEPT !.events = Append(@, n)]  OBVIOUS
<1>7. redis' = [redis EXCEPT ![s] = d]  BY <1>2, <1>6 DEF Push
<1>8. log' = [log EXCEPT ![None][s] = k]
  <2>1. Logged(l, op[w]) = k  BY <1>2, <1>3, <1>6 DEF Logged
  <2>2. log' = [log EXCEPT ![None][s] = Logged(@, op[w])]  BY <1>2 DEF Push
  <2>3. log \in [Process \cup {None} -> [Sid -> LogData]]  BY <1>1 DEF StoreTypes
  <2> QED  BY <1>2, <1>4, <2>1, <2>2, <2>3
<1>9. RedisGood(s)  BY <1>1, <1>4 DEF RedisOK
<1>10. /\ DataOK(d) /\ d.tags = redis[s].tags /\ d.touched = redis[s].touched /\ d.depth = redis[s].depth
       /\ NewestKept(d, k)
  BY <1>2, <1>4, <1>5, <1>6, <1>9, EventResult DEF RedisGood
<1>11. k \in LogData /\ k.services = l.services
  <2>1. Append(l.events, n) \in Seq(1 .. MaxOps)  BY <1>4, <1>5 DEF LogData
  <2> QED  BY <1>4, <1>6, <2>1 DEF LogData
<1>12. /\ <<s, "add">> \in mixed \/ Cardinality(d.tags) =< MaxTags
       /\ <<s, "write">> \in mixed \/ Complete(d, k.services)
  BY <1>2, <1>9, <1>10, <1>11 DEF RedisGood, Complete
<1>13. UNCHANGED <<home, memory, order, index, ops, events, mixed, unlisted>> /\ Reply(w, Idle)  BY DEF Push
<1>14. d \in SessionData  BY <1>10 DEF DataOK
<1>15. LiveIsListed' /\ index' \subseteq Sid
  <2>1. redis \in [Sid -> SessionData \cup {None}]  BY <1>1 DEF StoreTypes
  <2>2. \A r \in Sid : redis'[r] # None => redis[r] # None  BY <1>4, <1>7, <2>1
  <2> QED  BY <1>1, <1>13, <2>2 DEF LiveIsListed, StoreTypes
<1>16. /\ log' \in [Process \cup {None} -> [Sid -> LogData]] /\ log'[None][s] = k
       /\ (\A r \in Sid : r # s => log'[None][r] = log[None][r])
       /\ \A p \in Process : log'[p] = log[p]
  BY <1>1, <1>4, <1>8, <1>11, LogResult
<1>17. \A v \in Worker : v # w /\ op[v].sid = s /\ redis[s] # None =>
           /\ op[v].at = "add" => (<<s, "add">> \in mixed \/ d.tags = redis[s].tags)
           /\ op[v].at = "write" => \/ <<s, "write">> \in mixed
                                    \/ d.touched = redis[s].touched /\ d.depth = redis[s].depth
  BY <1>10
<1>18. op[w].at # "idle" /\ UNCHANGED <<home, memory, order, ops, events, mixed>> /\ s \in Sid
  BY <1>3, <1>4, <1>13
<1>19. Stores(s, d, k)  BY <1>7, <1>11, <1>14, <1>15, <1>16, <1>18, Zenon DEF Stores
<1>20. Storable(s, d, k)  BY <1>10, <1>12, Zenon DEF Storable
<1>21. ReadersKnow(w, s, d)  BY <1>17, Zenon DEF ReadersKnow
<1> QED  BY <1>13, <1>18, <1>19, <1>20, <1>21, LastWrite

(* Tags are added, as many as the tags that were read leave room for. *)
LEMMA AddMissingTagsKeepsInv ==
  ASSUME SessionsInv, NEW w \in Worker, AddMissingTags(w)
  PROVE  SessionsInv'
<1>1. StoreTypes /\ CallsOK /\ RedisOK /\ LiveIsListed  BY DEF SessionsInv
<1>2. PICK s, tags, known : s = op[w].sid /\ tags = op[w].arg /\ known = op[w].seen  OBVIOUS
<1>3. CallOK(op[w]) /\ ReadOK(op[w]) /\ op[w].at = "add" /\ op[w].kind = "tag" /\ op[w].at # "idle"
  BY <1>1 DEF AddMissingTags, Connected, CallsOK, CallOK
<1>4. /\ s \in Sid /\ tags \in TagRequest /\ redis[s] # None /\ log[None][s] \in LogData
      /\ IsFiniteSet(known) /\ Cardinality(known) =< MaxTags
      /\ (<<s, "add">> \in mixed \/ known = redis[s].tags)
  BY <1>1, <1>2, <1>3 DEF CallOK, ReadOK, StoreTypes
<1>6. PICK d, l : d = WithTags(redis[s], tags, known) /\ l = log[None][s]  OBVIOUS
<1>7. redis' = [redis EXCEPT ![s] = d]  BY <1>2, <1>6 DEF AddMissingTags
<1>9. RedisGood(s)  BY <1>1, <1>4 DEF RedisOK
<1>10. /\ DataOK(d) /\ d.touched = redis[s].touched /\ d.depth = redis[s].depth
       /\ d.events = redis[s].events /\ d.total = redis[s].total
       /\ redis[s].tags = known => Cardinality(d.tags) =< MaxTags
  BY <1>4, <1>6, <1>9, TagsResult DEF RedisGood
<1>12. /\ <<s, "add">> \in mixed \/ Cardinality(d.tags) =< MaxTags
       /\ <<s, "write">> \in mixed \/ Complete(d, l.services)
       /\ NewestKept(d, l)
  BY <1>4, <1>6, <1>9, <1>10 DEF RedisGood, Complete, NewestKept
<1>13. UNCHANGED <<home, memory, order, index, ops, events, log, mixed, unlisted>> /\ Reply(w, Idle)
  BY DEF AddMissingTags
<1>14. d \in SessionData /\ l \in LogData  BY <1>4, <1>6, <1>10 DEF DataOK
<1>15. LiveIsListed' /\ index' \subseteq Sid
  <2>1. redis \in [Sid -> SessionData \cup {None}]  BY <1>1 DEF StoreTypes
  <2>2. \A r \in Sid : redis'[r] # None => redis[r] # None  BY <1>4, <1>7, <2>1
  <2> QED  BY <1>1, <1>13, <2>2 DEF LiveIsListed, StoreTypes
<1>16. /\ log' \in [Process \cup {None} -> [Sid -> LogData]] /\ log'[None][s] = l
       /\ (\A r \in Sid : r # s => log'[None][r] = log[None][r])
       /\ \A p \in Process : log'[p] = log[p]
  BY <1>1, <1>4, <1>6, <1>13, LogIsKept
<1>17. \A v \in Worker : v # w /\ op[v].sid = s /\ op[v].at = "add" => <<s, "add">> \in mixed
  BY <1>1, <1>2, <1>3 DEF CallsOK, Alone
<1>18. \A v \in Worker : v # w /\ op[v].sid = s /\ redis[s] # None =>
           /\ op[v].at = "add" => (<<s, "add">> \in mixed \/ d.tags = redis[s].tags)
           /\ op[v].at = "write" => \/ <<s, "write">> \in mixed
                                    \/ d.touched = redis[s].touched /\ d.depth = redis[s].depth
  BY <1>10, <1>17
<1>19. op[w].at # "idle" /\ UNCHANGED <<home, memory, order, ops, events, mixed>> /\ s \in Sid
  BY <1>3, <1>4, <1>13
<1>20. /\ d \in SessionData /\ l \in LogData /\ DataOK(d) /\ NewestKept(d, l)
       /\ <<s, "add">> \in mixed \/ Cardinality(d.tags) =< MaxTags
       /\ <<s, "write">> \in mixed \/ Complete(d, l.services)
  BY <1>10, <1>12, <1>14
<1>21. Reply(w, Idle)  BY <1>13
<1>22. Stores(s, d, l)  BY <1>7, <1>15, <1>16, <1>18, <1>19, <1>20, Zenon DEF Stores
<1>23. Storable(s, d, l)  BY <1>20, Zenon DEF Storable
<1>24. ReadersKnow(w, s, d)  BY <1>15, <1>16, <1>18, Zenon DEF ReadersKnow
<1> QED  BY <1>19, <1>21, <1>22, <1>23, <1>24, LastWrite

(* A narrative is written back as it was read, with one service more. *)
LEMMA WriteNarrativeKeepsInv ==
  ASSUME SessionsInv, NEW w \in Worker, WriteNarrative(w)
  PROVE  SessionsInv'
<1>1. StoreTypes /\ CallsOK /\ RedisOK /\ LiveIsListed  BY DEF SessionsInv
<1>2. PICK s, service, seen, l : s = op[w].sid /\ service = op[w].arg /\ seen = op[w].seen /\ l = log[None][s]
  OBVIOUS
<1>3. CallOK(op[w]) /\ ReadOK(op[w]) /\ op[w].at = "write" /\ op[w].kind = "resolve" /\ op[w].at # "idle"
  BY <1>1 DEF WriteNarrative, Connected, CallsOK, CallOK
<1>4. /\ s \in Sid /\ service \in Service /\ redis[s] # None /\ l \in LogData /\ DataOK(seen)
      /\ \/ <<s, "write">> \in mixed
         \/ seen.touched = redis[s].touched /\ seen.depth = redis[s].depth
  BY <1>1, <1>2, <1>3 DEF CallOK, ReadOK, StoreTypes
<1>5. PICK new : new = WithService(seen, service)  OBVIOUS
<1>6. /\ DataOK(new)
      /\ \A visits \in Seq(Service) : Complete(seen, visits) => Complete(new, Append(visits, service))
  BY <1>4, <1>5, ServiceResult
<1>7. PICK d, k : d = [redis[s] EXCEPT !.touched = new.touched, !.depth = new.depth]
                  /\ k = [l EXCEPT !.services = Append(@, service)]
  OBVIOUS
<1>8. redis' = [redis EXCEPT ![s] = d]
  <2>1. redis \in [Sid -> SessionData \cup {None}]  BY <1>1 DEF StoreTypes
  <2>2. redis' = [redis EXCEPT ![s].touched = new.touched, ![s].depth = new.depth]
    BY <1>2, <1>5 DEF WriteNarrative
  <2> QED  BY <1>4, <1>7, <2>1, <2>2
<1>9. log' = [log EXCEPT ![None][s] = k]
  <2>1. Logged(l, op[w]) = k  BY <1>2, <1>3, <1>7 DEF Logged
  <2>2. log' = [log EXCEPT ![None][s] = Logged(@, op[w])]  BY <1>2 DEF WriteNarrative
  <2>3. log \in [Process \cup {None} -> [Sid -> LogData]]  BY <1>1 DEF StoreTypes
  <2> QED  BY <1>2, <1>4, <2>1, <2>2, <2>3
<1>10. RedisGood(s)  BY <1>1, <1>4 DEF RedisOK
<1>11. /\ d \in SessionData /\ d.touched = new.touched /\ d.depth = new.depth /\ d.tags = redis[s].tags
       /\ d.events = redis[s].events /\ d.total = redis[s].total
  BY <1>6, <1>7, <1>10 DEF DataOK, SessionData, RedisGood
<1>12. DataOK(d)  BY <1>6, <1>10, <1>11 DEF DataOK, Capped, RedisGood
<1>13. k \in LogData /\ k.services = Append(l.services, service) /\ k.events = l.events
       /\ l.services \in Seq(Service)
  <2>1. Append(l.services, service) \in Seq(Service) /\ l.services \in Seq(Service)  BY <1>4 DEF LogData
  <2> QED  BY <1>4, <1>7, <2>1 DEF LogData
<1>14. /\ NewestKept(d, k) /\ (<<s, "add">> \in mixed \/ Cardinality(d.tags) =< MaxTags)
       /\ (<<s, "write">> \in mixed \/ Complete(d, k.services))
  <2>1. NewestKept(d, k) /\ (<<s, "add">> \in mixed \/ Cardinality(d.tags) =< MaxTags)
    BY <1>2, <1>10, <1>11, <1>13 DEF NewestKept, RedisGood
  <2>2. ASSUME <<s, "write">> \notin mixed PROVE Complete(d, k.services)
    <3>1. Complete(redis[s], l.services)  BY <1>2, <1>10, <2>2 DEF RedisGood
    <3>2. Complete(seen, l.services)  BY <1>4, <2>2, <3>1 DEF Complete
    <3>3. Complete(new, k.services)  BY <1>6, <1>13, <3>2
    <3> QED  BY <1>11, <3>3 DEF Complete
  <2> QED  BY <2>1, <2>2
<1>15. UNCHANGED <<home, memory, order, index, ops, events, mixed, unlisted>> /\ Reply(w, Idle)
  BY DEF WriteNarrative
<1>16. LiveIsListed' /\ index' \subseteq Sid
  <2>1. redis \in [Sid -> SessionData \cup {None}]  BY <1>1 DEF StoreTypes
  <2>2. \A r \in Sid : redis'[r] # None => redis[r] # None  BY <1>4, <1>8, <2>1
  <2> QED  BY <1>1, <1>15, <2>2 DEF LiveIsListed, StoreTypes
<1>17. /\ log' \in [Process \cup {None} -> [Sid -> LogData]] /\ log'[None][s] = k
       /\ (\A r \in Sid : r # s => log'[None][r] = log[None][r])
       /\ \A p \in Process : log'[p] = log[p]
  BY <1>1, <1>4, <1>9, <1>13, LogResult
<1>18. \A v \in Worker : v # w /\ op[v].sid = s /\ op[v].at = "write" => <<s, "write">> \in mixed
  BY <1>1, <1>2, <1>3 DEF CallsOK, Alone
<1>19. \A v \in Worker : v # w /\ op[v].sid = s /\ redis[s] # None =>
           /\ op[v].at = "add" => (<<s, "add">> \in mixed \/ d.tags = redis[s].tags)
           /\ op[v].at = "write" => \/ <<s, "write">> \in mixed
                                    \/ d.touched = redis[s].touched /\ d.depth = redis[s].depth
  BY <1>11, <1>18
<1>20. op[w].at # "idle" /\ UNCHANGED <<home, memory, order, ops, events, mixed>> /\ s \in Sid
  BY <1>3, <1>4, <1>15
<1>21. /\ d \in SessionData /\ k \in LogData /\ DataOK(d) /\ NewestKept(d, k)
       /\ <<s, "add">> \in mixed \/ Cardinality(d.tags) =< MaxTags
       /\ <<s, "write">> \in mixed \/ Complete(d, k.services)
  BY <1>11, <1>12, <1>13, <1>14
<1>22. Stores(s, d, k)  BY <1>8, <1>15, <1>16, <1>17, <1>19, <1>20, <1>21, Zenon DEF Stores
<1>23. Storable(s, d, k)  BY <1>21, Zenon DEF Storable
<1>24. ReadersKnow(w, s, d)  BY <1>16, <1>17, <1>19, Zenon DEF ReadersKnow
<1> QED  BY <1>15, <1>20, <1>22, <1>23, <1>24, LastWrite

(* The lifetime of a session's keys ends.                                    *)
LEMMA ExpireKeepsInv ==
  ASSUME SessionsInv, NEW s \in Sid, Expire(s)
  PROVE  SessionsInv'
<1>1. StoreTypes /\ CallsOK /\ RedisOK /\ MemoryOK /\ LiveIsListed  BY DEF SessionsInv
<1>2. /\ redis' = [redis EXCEPT ![s] = None] /\ log' = [log EXCEPT ![None][s] = NoLog]
      /\ mixed' = mixed \ {<<s, "write">>, <<s, "add">>} /\ unlisted' = unlisted \ {s}
      /\ UNCHANGED <<home, backend, memory, order, index, op, ops, events>>
      /\ \A w \in Worker : op[w].sid # s
  BY DEF Expire
<1>3. /\ log' \in [Process \cup {None} -> [Sid -> LogData]] /\ log'[None][s] = NoLog
      /\ (\A r \in Sid : r # s => log'[None][r] = log[None][r])
      /\ \A p \in Process : log'[p] = log[p]
  BY <1>1, <1>2, EmptySession, LogResult
<1>4. redis \in [Sid -> SessionData \cup {None}]  BY <1>1 DEF StoreTypes
<1>5. redis'[s] = None /\ redis' \in [Sid -> SessionData \cup {None}]
      /\ \A r \in Sid : r # s => redis'[r] = redis[r]
  BY <1>2, <1>4
<1>6. StoreTypes'  BY <1>1, <1>2, <1>3, <1>5 DEF StoreTypes
<1>7. CallsOK'
  <2>1. ASSUME NEW w \in Worker PROVE CallOK(op[w])' /\ ReadOK(op[w])'
    <3>1. CallOK(op[w]) /\ ReadOK(op[w]) /\ op[w].sid # s /\ op'[w] = op[w]  BY <1>1, <1>2 DEF CallsOK
    <3>2. CallOK(op[w])'  BY <1>2, <3>1 DEF CallOK
    <3>3. op[w].at \in {"push", "tags", "add", "read", "write"} => op[w].sid \in Sid  BY <3>1 DEF CallOK
    <3>4. op[w].at \in {"push", "tags", "add", "read", "write"} => redis'[op[w].sid] = redis[op[w].sid]
      BY <1>5, <3>1, <3>3
    <3>5. \A x : <<op[w].sid, x>> \in mixed => <<op[w].sid, x>> \in mixed'  BY <1>2, <3>1
    <3> QED  BY <3>1, <3>2, <3>4, <3>5 DEF ReadOK
  <2>2. Alone'
    <3> SUFFICES ASSUME NEW u \in Worker, NEW v \in Worker, u # v, op'[u].at = op'[v].at,
                        op'[u].at \in {"add", "write"}, op'[u].sid = op'[v].sid
                 PROVE  <<op'[u].sid, op'[u].at>> \in mixed'
      BY DEF Alone
    <3> QED  BY <1>1, <1>2 DEF CallsOK, Alone
  <2> QED  BY <2>1, <2>2 DEF CallsOK
<1>8. RedisOK'
  <2> SUFFICES ASSUME NEW r \in Sid
               PROVE  (redis[r] # None => RedisGood(r))' /\ (redis[r] = None => log[None][r] = NoLog)'
    BY DEF RedisOK
  <2>1. CASE r = s  BY <2>1, <1>3, <1>5
  <2>2. CASE r # s
    <3>1. \A x : <<r, x>> \in mixed => <<r, x>> \in mixed'  BY <1>2, <2>2
    <3> QED  BY <2>2, <3>1, <1>1, <1>3, <1>5 DEF RedisOK, RedisGood
  <2> QED  BY <2>1, <2>2
<1>9. MemoryOK'  BY <1>1, <1>2, <1>3, MemoryIsKept
<1>10. LiveIsListed'  BY <1>1, <1>2, <1>5 DEF LiveIsListed
<1> QED  BY <1>6, <1>7, <1>8, <1>9, <1>10 DEF SessionsInv

----------------------------------------------------------------------------
(* The operations in memory.                                                 *)
LEMMA ChangedResult ==
  ASSUME NEW o, CallOK(o), o.kind \in {"create", "record", "tag", "resolve"}, events \in Nat, events =< MaxOps,
         NEW d, NEW l, Good(d, l)
  PROVE  Good(Changed(d, o), Logged(l, o))
<1> USE SessionsAssumption DEF SessionsAssumption
<1>1. l \in LogData /\ l.events \in Seq(1 .. MaxOps) /\ l.services \in Seq(Service)  BY DEF Good, LogData
<1>2. CASE o.kind = "record"
  <2>1. o.n \in 1 .. MaxOps  BY <1>2 DEF CallOK
  <2> DEFINE e == WithEvent(d, o.n)
             m == [l EXCEPT !.events = Append(@, o.n)]
  <2>2. Changed(d, o) = e /\ Logged(l, o) = m  BY <1>2 DEF Changed, Logged
  <2>3. DataOK(e) /\ e.tags = d.tags /\ e.touched = d.touched /\ e.depth = d.depth /\ NewestKept(e, m)
    BY <1>1, <2>1, EventResult DEF Good
  <2>4. m \in LogData /\ m.services = l.services
    <3>1. Append(l.events, o.n) \in Seq(1 .. MaxOps)  BY <1>1, <2>1
    <3> QED  BY <1>1, <3>1 DEF LogData
  <2> HIDE DEF e, m
  <2> QED  BY <2>2, <2>3, <2>4 DEF Good, Complete
<1>3. CASE o.kind = "tag"
  <2>1. o.arg \in TagRequest /\ IsFiniteSet(d.tags) /\ Cardinality(d.tags) =< MaxTags  BY <1>3 DEF CallOK, Good, DataOK
  <2> DEFINE e == WithTags(d, o.arg, d.tags)
  <2>2. Changed(d, o) = e /\ Logged(l, o) = l  BY <1>3 DEF Changed, Logged
  <2>3. /\ DataOK(e) /\ e.events = d.events /\ e.total = d.total
        /\ e.touched = d.touched /\ e.depth = d.depth /\ Cardinality(e.tags) =< MaxTags
    BY <2>1, TagsResult DEF Good
  <2> HIDE DEF e
  <2> QED  BY <2>2, <2>3 DEF Good, Complete, NewestKept
<1>4. CASE o.kind = "resolve"
  <2>1. o.arg \in Service  BY <1>4 DEF CallOK
  <2> DEFINE e == WithService(d, o.arg)
             m == [l EXCEPT !.services = Append(@, o.arg)]
  <2>2. Changed(d, o) = e /\ Logged(l, o) = m  BY <1>4 DEF Changed, Logged
  <2>3. /\ DataOK(e) /\ e.events = d.events /\ e.total = d.total /\ e.tags = d.tags
        /\ Complete(e, Append(l.services, o.arg))
    BY <1>1, <2>1, ServiceResult DEF Good
  <2>4. m \in LogData /\ m.services = Append(l.services, o.arg) /\ m.events = l.events
    <3>1. Append(l.services, o.arg) \in Seq(Service)  BY <1>1, <2>1
    <3> QED  BY <1>1, <3>1 DEF LogData
  <2> HIDE DEF e, m
  <2> QED  BY <2>2, <2>3, <2>4 DEF Good, NewestKept
<1>5. CASE o.kind = "create"
  <2>1. Changed(d, o) = d /\ Logged(l, o) = l  BY <1>5 DEF Changed, Logged
  <2> QED  BY <2>1
<1> QED  BY <1>2, <1>3, <1>4, <1>5

(* An operation in memory, under the lock of its process, with the eviction   *)
(* that ends it.                                                              *)
LEMMA InMemoryKeepsInv ==
  ASSUME SessionsInv, NEW w \in Worker, InMemory(w)
  PROVE  SessionsInv'
<1> USE SessionsAssumption DEF SessionsAssumption
<1>1. StoreTypes /\ CallsOK /\ RedisOK /\ MemoryOK /\ LiveIsListed  BY DEF SessionsInv
<1>2. PICK o, p, table, m, g : /\ o = op[w] /\ p = home[w] /\ table = order[p] /\ m = memory[p] /\ g = log[p]
  OBVIOUS
<1>3. CallOK(o) /\ o.kind \in {"create", "record", "tag", "resolve"} /\ p \in Process
  <2>1. CallOK(o) /\ o.at = "memory" /\ o.kind # "export"  BY <1>1, <1>2 DEF CallsOK, InMemory
  <2>2. o.kind # "none" /\ o.kind \in Kind  BY <2>1 DEF CallOK, OpRecord
  <2>3. p \in Process  BY <1>1, <1>2 DEF StoreTypes
  <2> QED  BY <2>1, <2>2, <2>3 DEF Kind
<1>4. o.sid \in Sid  BY <1>3 DEF CallOK
<1> DEFINE s == o.sid
           fresh == m[s] = None
           out == IF fresh /\ Len(table) >= MaxSessions THEN {Head(table)} ELSE {}
           new == [r \in Sid |-> CASE r = s    -> Changed(IF fresh THEN NewSession ELSE m[r], o)
                                   [] r \in out -> None
                                   [] OTHER     -> m[r]]
           entries == [r \in Sid |-> CASE r = s    -> Logged(IF fresh THEN NoLog ELSE g[r], o)
                                       [] r \in out -> NoLog
                                       [] OTHER     -> g[r]]
           used == IF m[s] # None /\ o.kind = "resolve" THEN table ELSE Used(table, s, MaxSessions)
<1>5. /\ memory' = [memory EXCEPT ![p] = new] /\ order' = [order EXCEPT ![p] = used]
      /\ log' = [log EXCEPT ![p] = entries] /\ op' = [op EXCEPT ![w] = Idle]
      /\ UNCHANGED <<home, backend, redis, index, ops, events, mixed, unlisted>>
  <2> USE <1>1, <1>2, <1>3 DEF StoreTypes
  <2>1. out = Evicted(p, s)  BY DEF Evicted
  <2>2. memory' = [memory EXCEPT ![p] = new]
    <3>1. memory' = [memory EXCEPT ![p] = [r \in Sid |->
            CASE r = s -> Changed(IF fresh THEN NewSession ELSE @[r], o)
              [] r \in Evicted(p, s) -> None
              [] OTHER     -> @[r]]]
      BY DEF InMemory
    <3> QED  BY <2>1, <3>1
  <2>3. log' = [log EXCEPT ![p] = entries]
    <3>1. log' = [log EXCEPT ![p] = [r \in Sid |->
            CASE r = s -> Logged(IF fresh THEN NoLog ELSE @[r], o)
              [] r \in Evicted(p, s) -> NoLog
              [] OTHER     -> @[r]]]
      BY DEF InMemory
    <3> QED  BY <2>1, <3>1
  <2>4. order' = [order EXCEPT ![p] = used]  BY DEF InMemory, Ordered
  <2>5. op' = [op EXCEPT ![w] = Idle] /\ UNCHANGED <<home, backend, redis, index, ops, events, mixed, unlisted>>
    BY DEF InMemory
  <2> QED  BY <2>2, <2>3, <2>4, <2>5
<1>6. /\ m \in [Sid -> SessionData \cup {None}] /\ g \in [Sid -> LogData] /\ table \in Seq(Sid)
      /\ Len(table) =< MaxSessions /\ IsInjective(table) /\ Listed(table) = {r \in Sid : m[r] # None}
      /\ \A r \in Sid : m[r] # None => Good(m[r], g[r])
  BY <1>1, <1>2, <1>3 DEF StoreTypes, MemoryOK, MemoryGood
<1> HIDE DEF s, fresh, out
<1>7. s \in Sid /\ (fresh <=> s \notin Listed(table))  BY <1>4, <1>6 DEF s, fresh
<1>8. s \notin out
  <2> SUFFICES ASSUME s \in out PROVE FALSE  OBVIOUS
  <2>1. fresh /\ Len(table) >= MaxSessions /\ s = Head(table)  BY DEF out
  <2>2. Len(table) \in Nat /\ Len(table) >= 1  BY <1>6, <2>1
  <2>3. Head(table) = table[1] /\ 1 \in DOMAIN table  BY <1>6, <2>2
  <2> QED  BY <1>7, <2>1, <2>3 DEF Listed
<1>9. PICK d, l : /\ d = Changed(IF fresh THEN NewSession ELSE m[s], o)
                  /\ l = Logged(IF fresh THEN NoLog ELSE g[s], o)
  OBVIOUS
<1>10. Good(d, l)
  <2>1. events \in Nat /\ events =< MaxOps  BY <1>1 DEF StoreTypes
  <2>2. CASE fresh
    <3>1. Good(NewSession, NoLog)  BY EmptySession DEF Good
    <3> QED  BY <1>3, <1>9, <2>1, <2>2, <3>1, ChangedResult
  <2>3. CASE ~fresh
    <3>1. Good(m[s], g[s])  BY <1>6, <1>7, <2>3 DEF fresh
    <3> QED  BY <1>3, <1>9, <2>1, <2>3, <3>1, ChangedResult
  <2> QED  BY <2>2, <2>3
<1>11. d \in SessionData /\ d # None /\ l \in LogData  BY <1>10, NoneIsNoData DEF Good, DataOK
<1>12. ASSUME NEW r \in Sid
       PROVE  /\ r = s => new[r] = d /\ entries[r] = l
              /\ r \in out => new[r] = None /\ entries[r] = NoLog
              /\ r # s /\ r \notin out => new[r] = m[r] /\ entries[r] = g[r]
  <2>1. CASE r = s  BY <2>1, <1>8, <1>9
  <2>2. CASE r \in out  BY <2>2, <1>8
  <2>3. CASE r # s /\ r \notin out  BY <2>3
  <2> QED  BY <2>1, <2>2, <2>3, <1>8
<1>13. new \in [Sid -> SessionData \cup {None}] /\ entries \in [Sid -> LogData]
  <2>1. \A r \in Sid : new[r] \in SessionData \cup {None} /\ entries[r] \in LogData
    BY <1>6, <1>11, <1>12, EmptySession
  <2> QED  BY <2>1
<1> HIDE DEF new, entries
<1>14. /\ used \in Seq(Sid) /\ Len(used) =< MaxSessions /\ IsInjective(used)
       /\ Listed(used) = {s} \cup (Listed(table) \ out)
  <2>1. CASE m[s] # None /\ o.kind = "resolve"
    <3>1. used = table /\ ~fresh  BY <2>1 DEF fresh
    <3>2. out = {} /\ s \in Listed(table)  BY <1>7, <3>1 DEF out
    <3> QED  BY <1>6, <3>1, <3>2
  <2>2. CASE ~(m[s] # None /\ o.kind = "resolve")
    <3>1. used = Used(table, s, MaxSessions)  BY <2>2
    <3>2. MaxSessions \in Nat \ {0}  OBVIOUS
    <3>3. used \in Seq(Sid) /\ Len(used) =< MaxSessions /\ IsInjective(used)
      <4>1. PICK h : h = [r \in Sid |-> Listed(table)]  OBVIOUS
      <4>2. InOrderOfUse(table, h)
        <5>1. \A i \in DOMAIN table : table[i] \in Sid  BY <1>6
        <5> QED  BY <4>1, <5>1 DEF InOrderOfUse, Listed
      <4>3. \A r \in Sid : IsFiniteSet(h[r])  BY <1>6, <4>1, DistinctKeys
      <4> QED  BY <1>6, <1>7, <3>1, <3>2, <4>2, <4>3, UsedResult
    <3>4. Listed(used) = {s} \cup (Listed(table) \ (IF s \notin Listed(table) /\ Len(table) >= MaxSessions
                                     THEN {Head(table)} ELSE {}))
      BY <1>6, <1>7, <3>1, <3>2, UsedListed
    <3>5. out = IF s \notin Listed(table) /\ Len(table) >= MaxSessions THEN {Head(table)} ELSE {}
      BY <1>7 DEF out
    <3> QED  BY <3>3, <3>4, <3>5
  <2> QED  BY <2>1, <2>2
<1> HIDE DEF used
<1>15. /\ memory' \in [Process -> [Sid -> SessionData \cup {None}]] /\ memory'[p] = new
       /\ log' \in [Process \cup {None} -> [Sid -> LogData]] /\ log'[p] = entries /\ log'[None] = log[None]
       /\ order' \in [Process -> Seq(Sid)] /\ order'[p] = used
       /\ \A q \in Process : q # p => memory'[q] = memory[q] /\ log'[q] = log[q] /\ order'[q] = order[q]
  BY <1>1, <1>3, <1>5, <1>13, <1>14, NoneIsNobody DEF StoreTypes
<1>16. op' \in [Worker -> OpRecord] /\ op'[w] = Idle /\ \A v \in Worker : v # w => Same(op'[v], op[v])
  BY <1>1, <1>5, IdleNext DEF StoreTypes, Same
<1>17. StoreTypes'  BY <1>1, <1>5, <1>15, <1>16 DEF StoreTypes
<1>18. CallsOK'
  <2>1. \A v \in Worker : v # w => \A c : Same(c, op[v]) /\ ReadOK(op[v]) => ReadOK(c)'
    BY <1>5 DEF ReadOK, Same
  <2>2. PICK q : q = Idle  OBVIOUS
  <2>3. CallOK(q)' /\ ReadOK(q)' /\ q.at \notin {"add", "write"} /\ op'[w] = q  BY <1>16, <2>2, IdleNext
  <2>4. events' \in Nat /\ events =< events' /\ mixed \subseteq mixed'  BY <1>1, <1>5 DEF StoreTypes
  <2> QED  BY <1>1, <1>16, <2>1, <2>3, <2>4, StepKeepsCalls
<1>19. RedisOK' /\ LiveIsListed'  BY <1>1, <1>5, <1>15 DEF RedisOK, RedisGood, LiveIsListed
<1>20. MemoryOK'
  <2> SUFFICES ASSUME NEW q \in Process PROVE MemoryGood(q)'  BY DEF MemoryOK
  <2>1. CASE q # p
    <3>1. memory'[q] = memory[q] /\ log'[q] = log[q] /\ order'[q] = order[q]  BY <2>1, <1>15
    <3>2. MemoryGood(q)  BY <1>1 DEF MemoryOK
    <3> QED  BY <3>1, <3>2 DEF MemoryGood
  <2>2. CASE q = p
    <3>1. \A r \in Sid : new[r] # None => Good(new[r], entries[r])  BY <1>6, <1>10, <1>12
    <3>2. Listed(used) = {r \in Sid : new[r] # None}
      <4>1. \A r \in Sid : new[r] # None <=> (r = s \/ (m[r] # None /\ r \notin out))
        BY <1>8, <1>11, <1>12
      <4> QED  BY <1>6, <1>7, <1>14, <4>1
    <3> QED  BY <2>2, <3>1, <3>2, <1>14, <1>15 DEF MemoryGood
  <2> QED  BY <2>1, <2>2
<1> QED  BY <1>17, <1>18, <1>19, <1>20 DEF SessionsInv

(* Every step of the manager keeps the invariant. *)
LEMMA SessionStepInv ==
  ASSUME SessionsInv, [SessionNext]_sessionVars
  PROVE  SessionsInv'
<1>1. CASE \E w \in Worker : Call(w)  BY <1>1, CallKeepsInv
<1>2. CASE \E w \in Worker : RoundTrip(w)
  BY <1>2, EnsureKeepsInv, PushKeepsInv, ReadTagsKeepsInv, AddMissingTagsKeepsInv, ReadNarrativeKeepsInv,
     WriteNarrativeKeepsInv, ExportsKeepInv, FailureKeepsInv DEF RoundTrip
<1>3. CASE \E w \in Worker : InMemory(w)  BY <1>3, InMemoryKeepsInv
<1>4. CASE \E w \in Worker : ExportMemory(w)  BY <1>4, FailureKeepsInv
<1>5. CASE \E s \in Sid : Expire(s)  BY <1>5, ExpireKeepsInv
<1>6. CASE UNCHANGED sessionVars
  BY <1>6 DEF sessionVars, stores, hist, SessionsInv, StoreTypes, CallsOK, CallOK, ReadOK, Alone, RedisOK,
       RedisGood, MemoryOK, MemoryGood, LiveIsListed
<1> QED  BY <1>1, <1>2, <1>3, <1>4, <1>5, <1>6 DEF SessionNext

(* RetainedAndListed: whatever the workers of all processes do at once, and whichever round trips to *)
(* Redis fail, a session keeps its newest events and tags up to their limits, and the index lists it. *)
THEOREM SessionsRetained == SessionSpec => []RetainedAndListed
<1>1. SessionsInv => RetainedAndListed
  <2> SUFFICES ASSUME SessionsInv PROVE RetainedAndListed  OBVIOUS
  <2>1. StoreTypes /\ RedisOK /\ MemoryOK /\ LiveIsListed  BY DEF SessionsInv
  <2>2. \A p \in Process : MemoryGood(p)  BY <2>1 DEF MemoryOK
  <2>3. SessionTypeOK
    <3>1. ASSUME NEW s \in Sid, redis[s] # None
          PROVE  /\ redis[s] \in SessionData /\ Capped(redis[s])
                 /\ Cardinality(redis[s].tags) <= MaxTags \/ <<s, "add">> \in mixed
      BY <2>1, <3>1 DEF RedisOK, RedisGood, DataOK
    <3>2. ASSUME NEW p \in Process
          PROVE  /\ backend[p] \in {"memory", "redis"}
                 /\ Len(order[p]) <= MaxSessions /\ IsInjective(order[p])
                 /\ Listed(order[p]) = {s \in Sid : memory[p][s] # None}
                 /\ \A s \in Listed(order[p]) :
                      /\ memory[p][s] \in SessionData /\ Capped(memory[p][s])
                      /\ Cardinality(memory[p][s].tags) <= MaxTags
      <4>1. \A s \in Listed(order[p]) : Good(memory[p][s], log[p][s])  BY <2>2 DEF MemoryGood
      <4> QED  BY <2>1, <2>2, <4>1 DEF StoreTypes, MemoryGood, Good, DataOK
    <3> QED  BY <3>1, <3>2 DEF SessionTypeOK
  <2>4. RetainedAreNewest
    <3> SUFFICES ASSUME NEW k \in Kept
                 PROVE  k.data.total = Len(k.log.events) /\ k.data.events = LastOf(k.log.events, MaxEvents)
      BY DEF RetainedAreNewest
    <3>1. CASE \E s \in Sid : redis[s] # None /\ k = [data |-> redis[s], log |-> log[None][s]]
      <4>1. PICK s \in Sid : redis[s] # None /\ k = [data |-> redis[s], log |-> log[None][s]]  BY <3>1
      <4>2. NewestKept(redis[s], log[None][s])  BY <2>1, <4>1 DEF RedisOK, RedisGood
      <4> QED  BY <4>1, <4>2 DEF NewestKept
    <3>2. CASE \E p \in Process : \E s \in Listed(order[p]) : k = [data |-> memory[p][s], log |-> log[p][s]]
      <4>0. PICK p \in Process : \E s \in Listed(order[p]) : k = [data |-> memory[p][s], log |-> log[p][s]]
        BY <3>2
      <4>1. PICK s \in Listed(order[p]) : k = [data |-> memory[p][s], log |-> log[p][s]]
        BY <4>0
      <4>2. NewestKept(memory[p][s], log[p][s])  BY <2>2 DEF MemoryGood, Good
      <4> QED  BY <4>1, <4>2 DEF NewestKept
    <3> QED  BY <3>1, <3>2 DEF Kept
  <2> QED  BY <2>1, <2>3, <2>4 DEF RetainedAndListed, RetainedWithinCaps
<1> QED  BY <1>1, SessionsInitInv, SessionStepInv, PTL DEF SessionSpec

(* NarrativeComplete: a narrative names the services its session visited, although it is read, changed *)
(* and written back in two round trips.                                       *)
THEOREM NarrativesComplete == SessionSpec => []NarrativeComplete
<1>1. SessionsInv => NarrativeComplete
  <2> SUFFICES ASSUME SessionsInv PROVE NarrativeComplete  OBVIOUS
  <2>1. RedisOK /\ \A p \in Process : MemoryGood(p)  BY DEF SessionsInv, MemoryOK
  <2>2. \A p \in Process : \A s \in Listed(order[p]) : Good(memory[p][s], log[p][s])
    BY <2>1 DEF MemoryGood
  <2> QED  BY <2>1, <2>2 DEF NarrativeComplete, RedisOK, RedisGood, Good
<1> QED  BY <1>1, SessionsInitInv, SessionStepInv, PTL DEF SessionSpec

----------------------------------------------------------------------------
(* The events that were recorded.                                            *)
Recorded(q, s) == Listed(log[q][s].events)

(* No event is recorded twice, no two calls record the same event, and what   *)
(* a call records is in no memory, and in Redis only when it left it.         *)
OnceInv ==
  /\ \A q \in Process \cup {None}, s \in Sid :
       Recorded(q, s) \subseteq 1 .. events /\ IsInjective(log[q][s].events)
  /\ \A v, w \in Worker : v # w /\ op[v].kind = "record" /\ op[w].kind = "record" => op[v].n # op[w].n
  /\ \A w \in Worker, s \in Sid : op[w].kind = "record" =>
       /\ \A p \in Process : op[w].n \notin Recorded(p, s)
       /\ op[w].at \in {"ensure", "push"} => op[w].n \notin Recorded(None, s)

(* In a list where nothing is twice there is one copy of what it holds. *)
LEMMA CopiesResult ==
  ASSUME NEW S, NEW e \in Seq(S), IsInjective(e), NEW n
  PROVE  Cardinality({i \in DOMAIN e : e[i] = n}) = IF n \in Listed(e) THEN 1 ELSE 0
<1>1. CASE n \in Listed(e)
  <2>1. PICK i \in DOMAIN e : e[i] = n  BY <1>1 DEF Listed
  <2>2. {j \in DOMAIN e : e[j] = n} = {i}  BY <2>1 DEF IsInjective
  <2>3. Cardinality({i}) = 1  BY FS_Singleton
  <2> QED  BY <1>1, <2>2, <2>3
<1>2. CASE n \notin Listed(e)
  <2>1. {j \in DOMAIN e : e[j] = n} = {}  BY <1>2 DEF Listed
  <2> QED  BY <1>2, <2>1, FS_EmptySet
<1> QED  BY <1>1, <1>2

(* What was not in the list may be appended. *)
LEMMA AppendOnce ==
  ASSUME NEW S, NEW e \in Seq(S), IsInjective(e), NEW n \in S, n \notin Listed(e)
  PROVE  IsInjective(Append(e, n))
<1> SUFFICES ASSUME NEW i \in 1 .. Len(e) + 1, NEW j \in 1 .. Len(e) + 1, Append(e, n)[i] = Append(e, n)[j]
             PROVE  i = j
  BY DEF IsInjective
<1>1. Len(e) \in Nat /\ DOMAIN e = 1 .. Len(e)  OBVIOUS
<1>2. \A k \in 1 .. Len(e) : Append(e, n)[k] = e[k] /\ e[k] # n  BY DEF Listed
<1>3. Append(e, n)[Len(e) + 1] = n  OBVIOUS
<1>4. \A k \in 1 .. Len(e) + 1 : k = Len(e) + 1 \/ k \in 1 .. Len(e)  BY <1>1
<1>5. CASE i \in 1 .. Len(e) /\ j \in 1 .. Len(e)
  <2>1. e[i] = e[j]  BY <1>2, <1>5
  <2> QED  BY <1>1, <1>5, <2>1 DEF IsInjective
<1>6. CASE i = Len(e) + 1 /\ j \in 1 .. Len(e)
  <2>1. Append(e, n)[j] # n  BY <1>2, <1>6
  <2> QED  BY <1>3, <1>6, <2>1
<1>7. CASE j = Len(e) + 1 /\ i \in 1 .. Len(e)
  <2>1. Append(e, n)[i] # n  BY <1>2, <1>7
  <2> QED  BY <1>3, <1>7, <2>1
<1> QED  BY <1>4, <1>5, <1>6, <1>7

(* Nothing is recorded and no call is under way. *)
LEMMA OnceInitInv == ASSUME SessionInit PROVE OnceInv
<1>1. \A w \in Worker : op[w].kind = "none"  BY DEF SessionInit, Idle
<1>2. \A q \in Process \cup {None}, s \in Sid : log[q][s].events = << >>  BY DEF SessionInit, NoLog
<1>3. Listed(<< >>) = {} /\ IsInjective(<< >>)  BY DEF Listed, IsInjective
<1> QED  BY <1>1, <1>2, <1>3 DEF OnceInv, Recorded

(* A step of one call that records nothing, or the event of the call.         *)
Further(o, q) ==
  \/ o.kind # "record"
  \/ /\ o.kind = "record" /\ q.kind = "record" /\ o.n = q.n
     /\ o.at \in {"ensure", "push"} => q.at \in {"ensure", "push"}
  \/ o.kind = "record" /\ o.n = events + 1 /\ o.n =< events'

(* A step of one call that adds no event, or the event its call records and   *)
(* then ends.                                                                 *)
LEMMA StepKeepsOnce ==
  ASSUME SessionsInv, OnceInv, NEW w \in Worker, NEW N,
         events' \in Nat, events =< events', op' \in [Worker -> OpRecord],
         \A v \in Worker : v # w => Same(op'[v], op[v]), Further(op'[w], op[w]),
         \A q \in Process \cup {None}, s \in Sid :
           /\ Recorded(q, s)' \subseteq Recorded(q, s) \cup N /\ IsInjective(log'[q][s].events),
         N # {} => N = {op[w].n} /\ op[w].kind = "record",
         N # {} /\ op'[w].kind = "record" =>
           /\ \A s \in Sid : \A p \in Process : Recorded(p, s)' \subseteq Recorded(p, s)
           /\ op'[w].at \notin {"ensure", "push"}
  PROVE  OnceInv'
<1>1. StoreTypes /\ \A v \in Worker : CallOK(op[v])  BY DEF SessionsInv, CallsOK
<1>2. events \in Nat /\ op \in [Worker -> OpRecord]  BY <1>1 DEF StoreTypes
<1>3. 1 .. events \subseteq 1 .. events' /\ events + 1 \notin 1 .. events  BY <1>2
<1>4. \A v \in Worker : op[v].kind = "record" => op[v].n \in 1 .. events  BY <1>1 DEF CallOK
<1>5. \A q \in Process \cup {None}, s \in Sid :
        Recorded(q, s)' \subseteq 1 .. events' /\ IsInjective(log'[q][s].events)
  BY <1>3, <1>4 DEF OnceInv
<1>6. ASSUME NEW u \in Worker, NEW v \in Worker, u # v, op'[u].kind = "record", op'[v].kind = "record"
      PROVE  op'[u].n # op'[v].n
  <2>1. CASE u # w /\ v # w  BY <2>1, <1>6 DEF Same, OnceInv
  <2>2. CASE u = w
    <3>1. op[v].kind = "record" /\ op'[v].n = op[v].n  BY <1>6, <2>2 DEF Same
    <3> QED  BY <3>1, <2>2, <1>3, <1>4, <1>6 DEF Further, OnceInv
  <2>3. CASE v = w
    <3>1. op[u].kind = "record" /\ op'[u].n = op[u].n  BY <1>6, <2>3 DEF Same
    <3> QED  BY <3>1, <2>3, <1>3, <1>4, <1>6 DEF Further, OnceInv
  <2> QED  BY <2>1, <2>2, <2>3
<1>7. ASSUME NEW v \in Worker, NEW s \in Sid, op'[v].kind = "record"
      PROVE  /\ \A p \in Process : op'[v].n \notin Recorded(p, s)'
             /\ op'[v].at \in {"ensure", "push"} => op'[v].n \notin Recorded(None, s)'
  <2>1. CASE v # w
    <3>1. op[v].kind = "record" /\ op'[v].n = op[v].n /\ op'[v].at = op[v].at  BY <1>7, <2>1 DEF Same
    <3>2. op[v].n \notin N  BY <2>1, <3>1 DEF OnceInv
    <3>3. /\ \A p \in Process : op[v].n \notin Recorded(p, s)
          /\ op[v].at \in {"ensure", "push"} => op[v].n \notin Recorded(None, s)
      BY <3>1 DEF OnceInv
    <3> QED  BY <3>1, <3>2, <3>3
  <2>2. CASE v = w /\ op[w].kind = "record" /\ op'[w].n = op[w].n
                   /\ (op'[w].at \in {"ensure", "push"} => op[w].at \in {"ensure", "push"})
    <3>3. /\ \A p \in Process : op[v].n \notin Recorded(p, s)
          /\ op[v].at \in {"ensure", "push"} => op[v].n \notin Recorded(None, s)
      BY <2>2 DEF OnceInv
    <3> QED  BY <2>2, <3>3, <1>7
  <2>3. CASE v = w /\ op'[w].n = events + 1
    <3>1. \A q \in Process \cup {None} : events + 1 \notin Recorded(q, s)  BY <1>3 DEF OnceInv
    <3>2. events + 1 \notin N  BY <1>3, <1>4
    <3> QED  BY <2>3, <3>1, <3>2
  <2> QED  BY <1>7, <2>1, <2>2, <2>3 DEF Further
<1> QED  BY <1>5, <1>6, <1>7 DEF OnceInv

(* A round trip that changes no log of events.                               *)
LEMMA QuietKeepsOnce ==
  ASSUME SessionsInv, SessionsInv', OnceInv, NEW w \in Worker, NEW next, Reply(w, next),
         next.kind # "record" \/ (op[w].at = "ensure" /\ next.kind = op[w].kind /\ next.n = op[w].n),
         events' = events, \A q \in Process \cup {None}, s \in Sid : log'[q][s].events = log[q][s].events
  PROVE  OnceInv'
<1>1. StoreTypes /\ op' \in [Worker -> OpRecord]  BY DEF SessionsInv, StoreTypes
<1>2. /\ op'[w] = next \/ InMemoryNow(op'[w], op[w])
      /\ \A v \in Worker : v # w => Same(op'[v], op[v])
  <2>1. CASE FallBack(w)  BY <2>1, <1>1, FallBackResult
  <2>2. CASE op' = [op EXCEPT ![w] = next]  BY <2>2, <1>1 DEF StoreTypes, Same
  <2> QED  BY <2>1, <2>2 DEF Reply
<1>3. Further(op'[w], op[w])
  BY <1>2 DEF Further, InMemoryNow
<1>4. events' \in Nat /\ events =< events'  BY <1>1 DEF StoreTypes
<1>5. \A q \in Process \cup {None}, s \in Sid :
        /\ Recorded(q, s)' \subseteq Recorded(q, s) \cup {} /\ IsInjective(log'[q][s].events)
  BY DEF Recorded, OnceInv
<1>6. PICK N : N = {}  OBVIOUS
<1> QED  BY <1>1, <1>2, <1>3, <1>4, <1>5, <1>6, StepKeepsOnce

(* A call that begins to record an event takes a new number for it. *)
LEMMA BeginKeepsOnce ==
  ASSUME SessionsInv, OnceInv, NEW w \in Worker, Call(w)
  PROVE  OnceInv'
<1>1. StoreTypes /\ SessionsInv'  BY CallKeepsInv DEF SessionsInv
<1>2. PICK kind, s, arg : Begin(w, kind, s, arg)
  BY DEF Call, GetOrCreate, RecordEvent, AddTags, ResolveNarrative, ExportSessions
<1>9. PICK q : q = op'[w]  OBVIOUS
<1>3. /\ op' = [op EXCEPT ![w] = q] /\ q.kind = kind /\ q.n = (IF kind = "record" THEN events' ELSE 0)
      /\ events' = (IF kind = "record" THEN events + 1 ELSE events) /\ log' = log
  BY <1>1, <1>2, <1>9 DEF Begin, hist, StoreTypes
<1>4. op \in [Worker -> OpRecord] /\ op' \in [Worker -> OpRecord] /\ events \in Nat
  BY <1>1 DEF StoreTypes, SessionsInv
<1>5. op'[w] = q /\ (\A v \in Worker : v # w => Same(op'[v], op[v])) /\ events' \in Nat /\ events =< events'
  BY <1>3, <1>4 DEF Same
<1>6. Further(op'[w], op[w])  BY <1>3, <1>5 DEF Further
<1>7. \A p \in Process \cup {None}, r \in Sid :
        /\ Recorded(p, r)' \subseteq Recorded(p, r) \cup {} /\ IsInjective(log'[p][r].events)
  BY <1>3 DEF Recorded, OnceInv
<1>8. PICK N : N = {}  OBVIOUS
<1> QED  BY <1>4, <1>5, <1>6, <1>7, <1>8, StepKeepsOnce

(* Creating a session clears the log of its events, or leaves it alone. *)
LEMMA EnsureKeepsOnce ==
  ASSUME SessionsInv, SessionsInv', OnceInv, NEW w \in Worker, Ensure(w)
  PROVE  OnceInv'
<1>1. StoreTypes /\ CallsOK  BY DEF SessionsInv
<1>2. CallOK(op[w]) /\ op[w].at = "ensure" /\ op[w].kind \in {"create", "record", "tag", "resolve"}
  BY <1>1 DEF Ensure, Connected, CallsOK, CallOK
<1>3. PICK q : q = AfterEnsure(w)  OBVIOUS
<1>4. Reply(w, q) /\ events' = events /\ log' = log  BY <1>3 DEF Ensure
<1>5. q.kind # "record" \/ (q.kind = op[w].kind /\ q.n = op[w].n)
  <2>1. {"push", "tags", "read"} \subseteq Place /\ None \in SeenValue  BY DEF Place, SeenValue
  <2>2. CASE op[w].kind = "create"
    <3>1. q = Idle  BY <1>3, <2>2 DEF AfterEnsure
    <3> QED  BY <3>1, IdleNext DEF Idle
  <2>3. CASE op[w].kind = "record"
    <3>1. q = Goto(w, "push", None)  BY <1>3, <2>3 DEF AfterEnsure
    <3> QED  BY <1>1, <2>1, <3>1, GotoResult
  <2>4. CASE op[w].kind = "tag"
    <3>1. q = Goto(w, "tags", None)  BY <1>3, <2>4 DEF AfterEnsure
    <3> QED  BY <1>1, <2>1, <3>1, GotoResult
  <2>5. CASE op[w].kind = "resolve"
    <3>1. q = Goto(w, "read", None)  BY <1>3, <2>5 DEF AfterEnsure
    <3> QED  BY <1>1, <2>1, <3>1, GotoResult
  <2> QED  BY <1>2, <2>2, <2>3, <2>4, <2>5
<1>6. \A p \in Process \cup {None}, r \in Sid : log'[p][r].events = log[p][r].events  BY <1>4
<1> QED  BY <1>2, <1>4, <1>5, <1>6, QuietKeepsOnce

(* The round trips that record nothing. *)
LEMMA ReadsKeepOnce ==
  ASSUME SessionsInv, SessionsInv', OnceInv, NEW w \in Worker,
         \/ ReadTags(w) \/ ReadNarrative(w) \/ AddMissingTags(w) \/ CollectIds(w) \/ ReadMetadata(w)
         \/ PruneIndex(w) \/ RedisFails(w) \/ ExportMemory(w)
  PROVE  OnceInv'
<1>1. StoreTypes /\ CallsOK  BY DEF SessionsInv
<1>2. events' = events /\ \A p \in Process \cup {None}, r \in Sid : log'[p][r].events = log[p][r].events
  BY DEF ReadTags, ReadNarrative, AddMissingTags, CollectIds, ReadMetadata, PruneIndex, RedisFails,
         ExportMemory, hist
<1>3. CASE Reply(w, Idle)
  <2>1. Idle.kind # "record"  BY DEF Idle
  <2> QED  BY <1>2, <1>3, <2>1, QuietKeepsOnce
<1>4. ASSUME ReadTags(w) \/ ReadNarrative(w) \/ CollectIds(w) \/ ReadMetadata(w), ~Reply(w, Idle)
      PROVE  \E q : Reply(w, q) /\ q.kind # "record"
  <2>1. op[w].kind \in {"tag", "resolve", "export"}
    BY <1>1, <1>4 DEF ReadTags, ReadNarrative, CollectIds, ReadMetadata, Connected, CallsOK, CallOK
  <2>2. PICK at, seen : Reply(w, Goto(w, at, seen))
    BY <1>4 DEF ReadTags, ReadNarrative, CollectIds, ReadMetadata
  <2>3. PICK q : q = Goto(w, at, seen)  OBVIOUS
  <2>4. op[w] \in OpRecord  BY <1>1 DEF StoreTypes
  <2>5. q.kind = op[w].kind  BY <2>3, <2>4 DEF Goto, OpRecord
  <2> QED  BY <2>1, <2>2, <2>3, <2>5
<1>5. RedisFails(w) \/ ExportMemory(w) => Reply(w, Idle)  BY DEF RedisFails, ExportMemory, Reply, stores
<1>6. AddMissingTags(w) \/ PruneIndex(w) => Reply(w, Idle)  BY DEF AddMissingTags, PruneIndex
<1>7. CASE ~Reply(w, Idle)
  <2>1. PICK q : Reply(w, q) /\ q.kind # "record"  BY <1>4, <1>5, <1>6, <1>7
  <2> QED  BY <1>2, <2>1, QuietKeepsOnce
<1> QED  BY <1>3, <1>7

(* A narrative that is written back records no event. *)
LEMMA WriteNarrativeKeepsOnce ==
  ASSUME SessionsInv, SessionsInv', OnceInv, NEW w \in Worker, WriteNarrative(w)
  PROVE  OnceInv'
<1>1. StoreTypes /\ CallOK(op[w])  BY DEF SessionsInv, CallsOK
<1>2. PICK s, l, k : s = op[w].sid /\ l = log[None][s] /\ k = Logged(l, op[w])  OBVIOUS
<1>3. op[w].at = "write" /\ op[w].kind = "resolve" /\ s \in Sid /\ op[w].arg \in Service
  BY <1>1, <1>2 DEF WriteNarrative, Connected, CallOK
<1>4. log \in [Process \cup {None} -> [Sid -> LogData]] /\ l \in LogData  BY <1>1, <1>2, <1>3 DEF StoreTypes
<1>5. k \in LogData /\ k.events = l.events
  <2>1. Append(l.services, op[w].arg) \in Seq(Service)  BY <1>3, <1>4 DEF LogData
  <2>2. k = [l EXCEPT !.services = Append(@, op[w].arg)]  BY <1>2, <1>3 DEF Logged
  <2> QED  BY <1>4, <2>1, <2>2 DEF LogData
<1>6. log' = [log EXCEPT ![None][s] = k]  BY <1>2, <1>3, <1>4 DEF WriteNarrative
<1>7. log'[None][s] = k /\ (\A r \in Sid : r # s => log'[None][r] = log[None][r])
      /\ \A p \in Process : log'[p] = log[p]
  BY <1>1, <1>3, <1>5, <1>6, LogResult
<1>8. \A p \in Process \cup {None}, r \in Sid : log'[p][r].events = log[p][r].events
  BY <1>2, <1>5, <1>7
<1>9. events' = events /\ Reply(w, Idle) /\ Idle.kind # "record"  BY DEF WriteNarrative, Idle
<1> QED  BY <1>8, <1>9, QuietKeepsOnce

(* What pushing an event does to the log of Redis.                           *)
LEMMA PushLog ==
  ASSUME SessionsInv, NEW w \in Worker, Push(w)
  PROVE  LET s == op[w].sid
             n == op[w].n
         IN  /\ s \in Sid /\ n \in 1 .. MaxOps /\ op[w].kind = "record" /\ op[w].at = "push"
             /\ log[None][s].events \in Seq(1 .. MaxOps)
             /\ log'[None][s].events = Append(log[None][s].events, n)
             /\ \A r \in Sid : r # s => log'[None][r] = log[None][r]
             /\ \A p \in Process : log'[p] = log[p]
<1>1. StoreTypes /\ CallOK(op[w])  BY DEF SessionsInv, CallsOK
<1>2. PICK s, l, k, n : s = op[w].sid /\ l = log[None][s] /\ k = Logged(l, op[w]) /\ n = op[w].n  OBVIOUS
<1>3. op[w].at = "push" /\ op[w].kind = "record" /\ s \in Sid /\ n \in 1 .. events
  BY <1>1, <1>2 DEF Push, Connected, CallOK
<1>4. log \in [Process \cup {None} -> [Sid -> LogData]] /\ l \in LogData  BY <1>1, <1>2, <1>3 DEF StoreTypes
<1>5. n \in 1 .. MaxOps
  <2>1. events \in Nat /\ ops \in Nat /\ MaxOps \in Nat /\ events =< ops /\ ops =< MaxOps
    BY <1>1, SessionsAssumption DEF StoreTypes, SessionsAssumption
  <2> QED  BY <1>3, <2>1
<1>6. k \in LogData /\ k.events = Append(l.events, n) /\ l.events \in Seq(1 .. MaxOps)
  <2>1. l.events \in Seq(1 .. MaxOps)  BY <1>4 DEF LogData
  <2>2. Append(l.events, n) \in Seq(1 .. MaxOps)  BY <1>5, <2>1
  <2>3. k = [l EXCEPT !.events = Append(@, n)]  BY <1>2, <1>3 DEF Logged
  <2> QED  BY <1>4, <2>1, <2>2, <2>3 DEF LogData
<1>7. log' = [log EXCEPT ![None][s] = k]  BY <1>2, <1>3, <1>4 DEF Push
<1>8. log'[None][s] = k /\ (\A r \in Sid : r # s => log'[None][r] = log[None][r])
      /\ \A p \in Process : log'[p] = log[p]
  BY <1>1, <1>3, <1>6, <1>7, LogResult
<1> QED  BY <1>2, <1>3, <1>5, <1>6, <1>8

(* A push records the event of its call in Redis. *)
LEMMA PushKeepsOnce ==
  ASSUME SessionsInv, SessionsInv', OnceInv, NEW w \in Worker, Push(w)
  PROVE  OnceInv' /\ op[w].n \in Listed(log'[None][op[w].sid].events)
<1>1. StoreTypes /\ op' \in [Worker -> OpRecord]  BY DEF SessionsInv, StoreTypes
<1>2. PICK s, n, e, f : /\ s = op[w].sid /\ n = op[w].n /\ e = log[None][s].events
                        /\ f = log'[None][s].events
  OBVIOUS
<1>3. /\ s \in Sid /\ n \in 1 .. MaxOps /\ op[w].kind = "record" /\ op[w].at = "push"
      /\ e \in Seq(1 .. MaxOps) /\ f = Append(e, n)
      /\ \A r \in Sid : r # s => log'[None][r] = log[None][r]
      /\ \A p \in Process : log'[p] = log[p]
  BY <1>2, PushLog
<1>4. Reply(w, Idle) /\ events' = events  BY DEF Push
<1>5. /\ op'[w] = Idle \/ InMemoryNow(op'[w], op[w])
      /\ \A v \in Worker : v # w => Same(op'[v], op[v])
  BY <1>1, <1>4, IdleNext, ReplyResult
<1>6. Further(op'[w], op[w])  BY <1>3, <1>5 DEF Further, InMemoryNow, Idle
<1>7. IsInjective(e) /\ n \notin Listed(e)  BY <1>2, <1>3 DEF OnceInv, Recorded
<1>8. IsInjective(f) /\ Listed(f) = Listed(e) \cup {n}
  <2>1. PICK S : S = 1 .. MaxOps  OBVIOUS
  <2>2. e \in Seq(S) /\ n \in S /\ f = Append(e, n)  BY <1>3, <2>1
  <2> QED  BY <1>7, <2>2, AppendOnce, ListedAppend
<1>9. \A q \in Process \cup {None}, r \in Sid :
        /\ Recorded(q, r)' \subseteq Recorded(q, r) \cup {n} /\ IsInjective(log'[q][r].events)
  <2> SUFFICES ASSUME NEW q \in Process \cup {None}, NEW r \in Sid
               PROVE  Recorded(q, r)' \subseteq Recorded(q, r) \cup {n} /\ IsInjective(log'[q][r].events)
    OBVIOUS
  <2>1. CASE q = None /\ r = s  BY <1>2, <1>8, <2>1 DEF Recorded
  <2>2. CASE ~(q = None /\ r = s)
    <3>1. log'[q][r] = log[q][r]  BY <1>3, <2>2
    <3> QED  BY <3>1 DEF Recorded, OnceInv
  <2> QED  BY <2>1, <2>2
<1>10. \A r \in Sid : \A p \in Process : Recorded(p, r)' \subseteq Recorded(p, r)  BY <1>3 DEF Recorded
<1>11. op'[w].kind = "record" => op'[w].at \notin {"ensure", "push"}  BY <1>5 DEF Idle, InMemoryNow
<1>12. events' \in Nat /\ events =< events'  BY <1>1, <1>4 DEF StoreTypes
<1>13. PICK N : N = {n}  OBVIOUS
<1>14. OnceInv'
  <2>1. N = {op[w].n} /\ op[w].kind = "record"  BY <1>2, <1>3, <1>13
  <2>2. \A q \in Process \cup {None}, r \in Sid :
        /\ Recorded(q, r)' \subseteq Recorded(q, r) \cup N /\ IsInjective(log'[q][r].events)
    BY <1>9, <1>13
  <2> QED  BY <1>1, <1>5, <1>6, <1>10, <1>11, <1>12, <2>1, <2>2, StepKeepsOnce
<1> QED  BY <1>2, <1>8, <1>14

(* What an operation in memory does to the logs.                             *)
LEMMA MemoryLog ==
  ASSUME SessionsInv, NEW w \in Worker, InMemory(w)
  PROVE  LET s == op[w].sid
             p == home[w]
         IN  /\ s \in Sid /\ p \in Process /\ op[w].n \in Nat
             /\ \A q \in Process \cup {None} : q # p => log'[q] = log[q]
             /\ \A r \in Sid : r # s => log'[p][r] = log[p][r] \/ log'[p][r] = NoLog
             /\ \E e \in Seq(1 .. MaxOps) :
                  /\ e = log[p][s].events \/ e = << >>
                  /\ log'[p][s].events = IF op[w].kind = "record" THEN Append(e, op[w].n) ELSE e
<1>1. StoreTypes /\ CallOK(op[w])  BY DEF SessionsInv, CallsOK
<1>2. PICK o, p, s : o = op[w] /\ p = home[w] /\ s = o.sid  OBVIOUS
<1>3. /\ o.at = "memory" /\ o.kind \in {"create", "record", "tag", "resolve"} /\ p \in Process /\ s \in Sid
      /\ o.n \in Nat
  <2>1. CallOK(o) /\ o.at = "memory" /\ o.kind # "export"  BY <1>1, <1>2 DEF InMemory
  <2>2. o.kind # "none" /\ o.kind \in Kind /\ o.n \in Nat  BY <2>1 DEF CallOK, OpRecord
  <2>3. p \in Process  BY <1>1, <1>2 DEF StoreTypes
  <2> QED  BY <1>2, <2>1, <2>2, <2>3 DEF Kind, CallOK
<1>4. log \in [Process \cup {None} -> [Sid -> LogData]]  BY <1>1 DEF StoreTypes
<1>5. PICK base \in LogData : /\ base = log[p][s] \/ base = NoLog
                              /\ log'[p][s] = Logged(base, o)
                              /\ \A r \in Sid : r # s => log'[p][r] = log[p][r] \/ log'[p][r] = NoLog
                              /\ \A q \in Process \cup {None} : q # p => log'[q] = log[q]
  <2> DEFINE fresh == memory[p][s] = None
             out == Evicted(p, s)
             g == log[p]
             f(r) == CASE r = s -> Logged(IF fresh THEN NoLog ELSE g[r], o)
                       [] r \in out -> NoLog
                       [] OTHER     -> g[r]
  <2>1. log' = [log EXCEPT ![p] = [r \in Sid |-> f(r)]]  BY <1>2 DEF InMemory
  <2>2. \A r \in Sid : r # s => f(r) = g[r] \/ f(r) = NoLog  OBVIOUS
  <2>3. PICK base : base = (IF fresh THEN NoLog ELSE g[s])  OBVIOUS
  <2>4. f(s) = Logged(base, o) /\ (base = log[p][s] \/ base = NoLog) /\ base \in LogData
    <3>1. s \notin out
      <4>1. MemoryGood(p) /\ order[p] \in Seq(Sid)  BY <1>1, <1>3 DEF SessionsInv, MemoryOK, StoreTypes
      <4>2. ASSUME s \in out PROVE FALSE
        <5>1. fresh /\ Len(order[p]) >= MaxSessions /\ s = Head(order[p])  BY <4>2 DEF Evicted
        <5>2. Len(order[p]) \in Nat /\ Len(order[p]) >= 1
          BY <4>1, <5>1, SessionsAssumption DEF SessionsAssumption
        <5>3. Head(order[p]) = order[p][1] /\ 1 \in DOMAIN order[p]  BY <4>1, <5>2
        <5>4. s \in Listed(order[p])  BY <5>1, <5>3 DEF Listed
        <5> QED  BY <4>1, <5>1, <5>4 DEF MemoryGood
      <4> QED  BY <4>2
    <3>2. f(s) = Logged(base, o)  BY <2>3, <3>1
    <3> QED  BY <1>3, <1>4, <2>3, <3>2, EmptySession
  <2> HIDE DEF f
  <2>5. log'[p] = [r \in Sid |-> f(r)] /\ \A q \in Process \cup {None} : q # p => log'[q] = log[q]
    BY <1>3, <1>4, <2>1
  <2> QED  BY <1>3, <2>2, <2>4, <2>5
<1>6. base.events \in Seq(1 .. MaxOps) /\ (base.events = log[p][s].events \/ base.events = << >>)
  BY <1>5, EmptySession DEF LogData
<1>7. Logged(base, o).events = IF o.kind = "record" THEN Append(base.events, o.n) ELSE base.events
  BY <1>3, <1>5 DEF Logged, LogData
<1> QED  BY <1>2, <1>3, <1>5, <1>6, <1>7

(* An operation in memory records its event there, and then its call is       *)
(* over.                                                                      *)
LEMMA InMemoryKeepsOnce ==
  ASSUME SessionsInv, SessionsInv', OnceInv, NEW w \in Worker, InMemory(w)
  PROVE  /\ OnceInv'
         /\ op[w].kind = "record" => op[w].n \in Listed(log'[home[w]][op[w].sid].events)
<1>1. StoreTypes /\ op' \in [Worker -> OpRecord] /\ CallOK(op[w])  BY DEF SessionsInv, StoreTypes, CallsOK
<1>2. PICK s, p, n, f, N : /\ s = op[w].sid /\ p = home[w] /\ n = op[w].n /\ f = log'[p][s].events
                          /\ N = (IF op[w].kind = "record" THEN {n} ELSE {})
  OBVIOUS
<1>3. /\ s \in Sid /\ p \in Process
      /\ \A q \in Process \cup {None} : q # p => log'[q] = log[q]
      /\ \A r \in Sid : r # s => log'[p][r] = log[p][r] \/ log'[p][r] = NoLog
      /\ \E e \in Seq(1 .. MaxOps) :
           /\ e = log[p][s].events \/ e = << >>
           /\ f = IF op[w].kind = "record" THEN Append(e, n) ELSE e
  BY <1>2, MemoryLog
<1>4. PICK e \in Seq(1 .. MaxOps) : /\ e = log[p][s].events \/ e = << >>
                                    /\ f = IF op[w].kind = "record" THEN Append(e, n) ELSE e
  BY <1>3
<1>5. op' = [op EXCEPT ![w] = Idle] /\ events' = events  BY DEF InMemory
<1>6. op'[w] = Idle /\ \A v \in Worker : v # w => Same(op'[v], op[v])
  BY <1>1, <1>5 DEF StoreTypes, Same
<1>7. op'[w].kind # "record"  BY <1>6 DEF Idle
<1>8. Listed(<< >>) = {} /\ IsInjective(<< >>)  BY DEF Listed, IsInjective
<1>9. IsInjective(e) /\ Listed(e) \subseteq Recorded(p, s)
  BY <1>3, <1>4, <1>8 DEF OnceInv, Recorded
<1>10. IsInjective(f) /\ Listed(f) = Listed(e) \cup N
  <2>1. CASE op[w].kind = "record"
    <3>1. n \notin Listed(e)  BY <1>2, <1>3, <1>9, <2>1 DEF OnceInv
    <3>2. n \in 1 .. MaxOps
      <4>1. n \in 1 .. events  BY <1>1, <1>2, <2>1 DEF CallOK
      <4>2. events \in Nat /\ ops \in Nat /\ MaxOps \in Nat /\ events =< ops /\ ops =< MaxOps
        BY <1>1, SessionsAssumption DEF StoreTypes, SessionsAssumption
      <4> QED  BY <4>1, <4>2
    <3>3. PICK S : S = 1 .. MaxOps  OBVIOUS
    <3>4. e \in Seq(S) /\ n \in S /\ f = Append(e, n)  BY <1>4, <2>1, <3>2, <3>3
    <3>5. IsInjective(f) /\ Listed(f) = Listed(e) \cup {n}  BY <1>9, <3>1, <3>4, AppendOnce, ListedAppend
    <3> QED  BY <1>2, <2>1, <3>5
  <2>2. CASE op[w].kind # "record"  BY <1>2, <1>4, <1>9, <2>2
  <2> QED  BY <2>1, <2>2
<1>11. \A q \in Process \cup {None}, r \in Sid :
        /\ Recorded(q, r)' \subseteq Recorded(q, r) \cup N /\ IsInjective(log'[q][r].events)
  <2> SUFFICES ASSUME NEW q \in Process \cup {None}, NEW r \in Sid
               PROVE  Recorded(q, r)' \subseteq Recorded(q, r) \cup N /\ IsInjective(log'[q][r].events)
    OBVIOUS
  <2>1. CASE q = p /\ r = s  BY <1>2, <1>9, <1>10, <2>1 DEF Recorded
  <2>2. CASE ~(q = p /\ r = s)
    <3>1. log'[q][r] = log[q][r] \/ log'[q][r] = NoLog  BY <1>3, <2>2
    <3>2. NoLog.events = << >>  BY DEF NoLog
    <3> QED  BY <1>8, <3>1, <3>2 DEF Recorded, OnceInv
  <2> QED  BY <2>1, <2>2
<1>12. events' \in Nat /\ events =< events'  BY <1>1, <1>5 DEF StoreTypes
<1>13. Further(op'[w], op[w])  BY <1>7 DEF Further
<1>14. N # {} => N = {op[w].n} /\ op[w].kind = "record"  BY <1>2
<1>15. OnceInv'  BY <1>1, <1>6, <1>7, <1>11, <1>12, <1>13, <1>14, StepKeepsOnce
<1> QED  BY <1>2, <1>10, <1>15

(* A session whose keys expire takes its events with it. *)
LEMMA ExpireKeepsOnce ==
  ASSUME SessionsInv, OnceInv, NEW s \in Sid, Expire(s)
  PROVE  OnceInv'
<1>1. StoreTypes  BY DEF SessionsInv
<1>2. log' = [log EXCEPT ![None][s] = NoLog] /\ op' = op /\ events' = events  BY DEF Expire
<1>3. log'[None][s] = NoLog /\ (\A r \in Sid : r # s => log'[None][r] = log[None][r])
      /\ \A p \in Process : log'[p] = log[p]
  BY <1>1, <1>2, EmptySession, LogResult
<1>4. NoLog.events = << >> /\ Listed(<< >>) = {} /\ IsInjective(<< >>)  BY DEF Listed, IsInjective, NoLog
<1>5. \A q \in Process \cup {None}, r \in Sid : log'[q][r] = log[q][r] \/ log'[q][r] = NoLog  BY <1>3
<1>6. \A q \in Process \cup {None}, r \in Sid :
        Recorded(q, r)' \subseteq Recorded(q, r) /\ IsInjective(log'[q][r].events)
  BY <1>4, <1>5 DEF Recorded, OnceInv
<1> QED  BY <1>2, <1>6 DEF OnceInv

(* Every step of the manager keeps the invariant. *)
LEMMA OnceStepInv ==
  ASSUME SessionsInv, OnceInv, [SessionNext]_sessionVars
  PROVE  OnceInv'
<1>1. SessionsInv'  BY SessionStepInv
<1>2. CASE \E w \in Worker : Call(w)  BY <1>2, BeginKeepsOnce
<1>3. CASE \E w \in Worker : RoundTrip(w)
  BY <1>1, <1>3, EnsureKeepsOnce, PushKeepsOnce, ReadsKeepOnce, WriteNarrativeKeepsOnce DEF RoundTrip
<1>4. CASE \E w \in Worker : InMemory(w)  BY <1>1, <1>4, InMemoryKeepsOnce
<1>5. CASE \E w \in Worker : ExportMemory(w)  BY <1>1, <1>5, ReadsKeepOnce
<1>6. CASE \E s \in Sid : Expire(s)  BY <1>6, ExpireKeepsOnce
<1>7. CASE UNCHANGED sessionVars
  BY <1>7 DEF sessionVars, hist, OnceInv, Recorded
<1> QED  BY <1>2, <1>3, <1>4, <1>5, <1>6, <1>7 DEF SessionNext

(* Only its push or its operation in memory ends a record_event.             *)
LEMMA RecordEnds ==
  ASSUME SessionsInv, SessionNext, NEW w \in Worker, op[w].kind = "record", op'[w] = Idle
  PROVE  Push(w) \/ InMemory(w)
<1>1. StoreTypes /\ CallOK(op[w])  BY DEF SessionsInv, CallsOK
<1>2. op \in [Worker -> OpRecord] /\ op'[w].kind = "none" /\ op'[w].at = "idle" /\ op[w] # Idle
  BY <1>1 DEF StoreTypes, Idle
<1>3. ASSUME NEW v \in Worker, NEW next, op' = [op EXCEPT ![v] = next] PROVE v = w /\ next = Idle
  BY <1>2, <1>3
<1>4. ASSUME NEW v \in Worker, FallBack(v) PROVE FALSE
  <2>1. InMemoryNow(op'[v], op[v]) /\ \A u \in Worker : u # v => Same(op'[u], op[u])
    BY <1>1, <1>4, FallBackResult
  <2> QED  BY <1>2, <2>1 DEF InMemoryNow, Same
<1>5. ASSUME NEW v \in Worker, NEW next, Reply(v, next) PROVE v = w /\ next = Idle
  BY <1>3, <1>4, <1>5 DEF Reply
<1>6. ASSUME NEW v \in Worker, Call(v) PROVE FALSE
  <2>1. PICK kind, s, arg : Begin(v, kind, s, arg)
    BY <1>6 DEF Call, GetOrCreate, RecordEvent, AddTags, ResolveNarrative, ExportSessions
  <2>2. PICK next : op' = [op EXCEPT ![v] = next] /\ op[v] = Idle
    <3>1. PICK next : next = op'[v]  OBVIOUS
    <3> QED  BY <1>2, <2>1, <3>1 DEF Begin
  <2> QED  BY <1>2, <1>3, <2>2
<1>7. ASSUME NEW v \in Worker, Ensure(v) PROVE FALSE
  <2>1. PICK next : next = AfterEnsure(v)  OBVIOUS
  <2>2. Reply(v, next)  BY <1>7, <2>1 DEF Ensure
  <2>3. v = w /\ next = Idle  BY <1>5, <2>2
  <2>4. next = Goto(w, "push", None)  BY <2>1, <2>3 DEF AfterEnsure
  <2>5. next.at = "push"  BY <1>2, <2>4 DEF Goto, OpRecord
  <2> QED  BY <2>3, <2>5 DEF Idle
<1>8. ASSUME NEW v \in Worker,
             \/ ReadTags(v) \/ ReadNarrative(v) \/ AddMissingTags(v) \/ WriteNarrative(v) \/ CollectIds(v)
             \/ ReadMetadata(v) \/ PruneIndex(v)
      PROVE  FALSE
  <2>1. PICK next : Reply(v, next)
    BY <1>8 DEF ReadTags, ReadNarrative, AddMissingTags, WriteNarrative, CollectIds, ReadMetadata, PruneIndex
  <2>2. v = w  BY <1>5, <2>1
  <2>3. op[w].at \in {"tags", "add", "read", "write", "collect", "metadata", "prune"}
    BY <1>8, <2>2 DEF ReadTags, ReadNarrative, AddMissingTags, WriteNarrative, CollectIds, ReadMetadata,
                      PruneIndex, Connected
  <2> QED  BY <1>1, <2>3 DEF CallOK
<1>9. ASSUME NEW v \in Worker, Push(v) PROVE Push(w)
  <2>1. Reply(v, Idle)  BY <1>9 DEF Push
  <2>2. v = w  BY <1>3, <1>4, <2>1 DEF Reply
  <2> QED  BY <1>9, <2>2
<1>10. ASSUME NEW v \in Worker, RedisFails(v) PROVE FALSE  BY <1>4, <1>10 DEF RedisFails
<1>11. ASSUME NEW v \in Worker, InMemory(v) PROVE InMemory(w)
  <2>1. op' = [op EXCEPT ![v] = Idle]  BY <1>11 DEF InMemory
  <2>2. v = w  BY <1>2, <2>1
  <2> QED  BY <1>11, <2>2
<1>12. ASSUME NEW v \in Worker, ExportMemory(v) PROVE FALSE
  <2>1. op' = [op EXCEPT ![v] = Idle] /\ op[v].kind = "export"  BY <1>12 DEF ExportMemory
  <2>2. v = w  BY <1>2, <2>1
  <2> QED  BY <2>1, <2>2
<1>13. ASSUME NEW s \in Sid, Expire(s) PROVE FALSE  BY <1>2, <1>13 DEF Expire
<1> QED
  BY <1>6, <1>7, <1>8, <1>9, <1>10, <1>11, <1>12, <1>13 DEF SessionNext, RoundTrip

(* How a call that records an event may end. *)
LEMMA EndOfRecord ==
  ASSUME SessionsInv, OnceInv, SessionNext, NEW w \in Worker, op[w].kind = "record", op'[w] = Idle
  PROVE  LET inRedis  == Copies(log'[None], op[w].sid, op[w].n)
             inMemory == Copies(log'[home[w]], op[w].sid, op[w].n)
         IN  IF op[w].at = "memory" THEN inMemory = 1 /\ inRedis <= 1
                                    ELSE inMemory = 0 /\ inRedis = 1
<1>1. SessionsInv' /\ OnceInv'  BY SessionStepInv, OnceStepInv
<1>2. StoreTypes /\ StoreTypes' /\ CallOK(op[w])  BY <1>1 DEF SessionsInv, CallsOK
<1>3. PICK s, n, p : s = op[w].sid /\ n = op[w].n /\ p = home[w]  OBVIOUS
<1>4. s \in Sid /\ p \in Process  BY <1>2, <1>3 DEF CallOK, StoreTypes
<1>5. \A q \in Process \cup {None} :
        Copies(log'[q], s, n) = IF n \in Listed(log'[q][s].events) THEN 1 ELSE 0
  <2> SUFFICES ASSUME NEW q \in Process \cup {None}
               PROVE  Copies(log'[q], s, n) = IF n \in Listed(log'[q][s].events) THEN 1 ELSE 0
    OBVIOUS
  <2>1. PICK e, S : e = log'[q][s].events /\ S = 1 .. MaxOps  OBVIOUS
  <2>2. e \in Seq(S)
    <3>1. log' \in [Process \cup {None} -> [Sid -> LogData]]  BY <1>2 DEF StoreTypes
    <3>2. log'[q][s] \in LogData  BY <1>4, <3>1
    <3> QED  BY <2>1, <3>2 DEF LogData
  <2>3. IsInjective(e)  BY <1>1, <1>4, <2>1 DEF OnceInv
  <2>4. Cardinality({i \in DOMAIN e : e[i] = n}) = IF n \in Listed(e) THEN 1 ELSE 0
    BY <2>2, <2>3, CopiesResult
  <2> QED  BY <2>1, <2>4 DEF Copies
<1>6. CASE Push(w)
  <2>1. op[w].at = "push"  BY <1>6 DEF Push, Connected
  <2>2. n \in Listed(log'[None][s].events)  BY <1>1, <1>3, <1>6, PushKeepsOnce
  <2>3. log'[p] = log[p]  BY <1>4, <1>6, PushLog
  <2>4. n \notin Listed(log'[p][s].events)  BY <1>3, <1>4, <2>3 DEF OnceInv, Recorded
  <2> QED  BY <1>3, <1>4, <1>5, <2>1, <2>2, <2>4
<1>7. CASE InMemory(w)
  <2>1. op[w].at = "memory"  BY <1>7 DEF InMemory
  <2>2. n \in Listed(log'[p][s].events)  BY <1>1, <1>3, <1>7, InMemoryKeepsOnce
  <2>3. Copies(log'[None], s, n) =< 1 /\ Copies(log'[p], s, n) = 1  BY <1>4, <1>5, <2>2
  <2> QED  BY <1>3, <2>1, <2>3
<1> QED  BY <1>6, <1>7, RecordEnds

(* RecordedOnce: a record_event that ends has recorded its event once in the backend it ended in; only *)
(* one whose push was not answered is also recorded in the other.             *)
THEOREM EventsRecordedOnce == SessionSpec => RecordedOnce
<1>1. SessionsInv /\ OnceInv /\ [SessionNext]_sessionVars =>
        [\A w \in Worker : op[w].kind = "record" /\ op'[w] = Idle =>
           LET inRedis  == Copies(log'[None], op[w].sid, op[w].n)
               inMemory == Copies(log'[home[w]], op[w].sid, op[w].n)
           IN  IF op[w].at = "memory" THEN inMemory = 1 /\ inRedis <= 1
                                      ELSE inMemory = 0 /\ inRedis = 1]_sessionVars
  BY EndOfRecord
<1> QED
  BY <1>1, SessionsInitInv, SessionStepInv, OnceInitInv, OnceStepInv, PTL DEF SessionSpec, RecordedOnce

----------------------------------------------------------------------------
(* One key before another.                                                   *)
Earlier(q, x, y) == \E i, j \in DOMAIN q : i < j /\ q[i] = x /\ q[j] = y

(* A key that is used goes behind all others, which keep their order.         *)
LEMMA UsedOrder ==
  ASSUME NEW Key, NEW table \in Seq(Key), NEW k \in Key, NEW limit \in Nat \ {0},
         Len(table) =< limit, IsInjective(table), NEW x \in Key, NEW y \in Key
  PROVE  LET new == Used(table, k, limit)
         IN  /\ Earlier(new, x, y) => x # k /\ (y = k \/ Earlier(table, x, y))
             /\ y = k /\ x # k /\ x \in Listed(new) => Earlier(new, x, y)
             /\ Earlier(table, x, y) /\ x # k /\ y # k /\ x \in Listed(new) => Earlier(new, x, y)
<1> DEFINE new == Used(table, k, limit)
           L == Len(table)
           n(p) == IF p > L THEN L ELSE L - 1
           at(p, i) == IF i < p THEN i ELSE i + 1
<1>1. PICK p \in 1 .. L + 1 :
        /\ new \in Seq(Key) /\ Len(new) = n(p) + 1 /\ n(p) + 1 =< limit /\ new[n(p) + 1] = k
        /\ \A i \in 1 .. n(p) : new[i] = table[at(p, i)]
        /\ p =< L => \/ table[p] = k
                     \/ k \notin Listed(table) /\ p = 1 /\ L = limit
        /\ p > L => k \notin Listed(table)
  BY UsedPlaces
<1> DEFINE m == n(p)
<1>2. L \in Nat /\ p \in Nat /\ p >= 1 /\ p =< L + 1 /\ m \in Nat /\ DOMAIN table = 1 .. L
      /\ DOMAIN new = 1 .. m + 1 /\ new[m + 1] = k
  BY <1>1
<1>3. ASSUME NEW i \in 1 .. m
      PROVE  /\ at(p, i) \in 1 .. L /\ at(p, i) # p /\ new[i] = table[at(p, i)]
             /\ \A j \in 1 .. m : i < j => at(p, i) < at(p, j)
  <2>1. at(p, i) \in 1 .. L /\ at(p, i) # p /\ \A j \in 1 .. m : i < j => at(p, i) < at(p, j)  BY <1>2
  <2>2. new[i] = table[at(p, i)]  BY <1>1
  <2> QED  BY <2>1, <2>2
<1>4. \A j \in 1 .. L : j # p => \E i \in 1 .. m : at(p, i) = j
  <2> SUFFICES ASSUME NEW j \in 1 .. L, j # p PROVE \E i \in 1 .. m : at(p, i) = j  OBVIOUS
  <2> DEFINE i == IF j < p THEN j ELSE j - 1
  <2>1. i \in 1 .. m /\ at(p, i) = j  BY <1>2
  <2> QED  BY <2>1
<1>5. \A i \in DOMAIN new : i = m + 1 \/ i \in 1 .. m  BY <1>2
<1>6. ASSUME p =< L PROVE table[p] = k \/ (k \notin Listed(table) /\ table[p] \notin Listed(new))
  <2> HIDE DEF m, n, at
  <2>1. CASE table[p] # k
    <3>1. k \notin Listed(table)  BY <1>1, <1>6, <2>1
    <3>2. ASSUME NEW i \in DOMAIN new, new[i] = table[p] PROVE FALSE
      <4>1. i # m + 1  BY <1>2, <2>1, <3>2
      <4>2. i \in 1 .. m  BY <1>5, <4>1
      <4>3. at(p, i) \in 1 .. L /\ at(p, i) # p /\ table[at(p, i)] = table[p]  BY <1>3, <3>2, <4>2
      <4> QED  BY <1>2, <1>6, <4>3 DEF IsInjective
    <3> QED  BY <3>1, <3>2 DEF Listed
  <2> QED  BY <2>1
<1>7. \A i \in 1 .. m : new[i] # k
  <2> HIDE DEF m, n, at
  <2> SUFFICES ASSUME NEW i \in 1 .. m, new[i] = k PROVE FALSE  OBVIOUS
  <2>1. at(p, i) \in 1 .. L /\ at(p, i) # p /\ table[at(p, i)] = k  BY <1>3
  <2>2. k \in Listed(table)  BY <1>2, <2>1 DEF Listed
  <2>3. p =< L /\ table[p] = k
    <3>1. ~(p > L)  BY <1>1, <2>2
    <3>2. p =< L  BY <1>2, <3>1
    <3> QED  BY <1>6, <2>2, <3>2
  <2> QED  BY <1>2, <2>1, <2>3 DEF IsInjective
<1> HIDE DEF new, m, n, at
<1>8. ASSUME Earlier(new, x, y) PROVE x # k /\ (y = k \/ Earlier(table, x, y))
  <2>1. PICK i, j \in DOMAIN new : i < j /\ new[i] = x /\ new[j] = y  BY <1>8 DEF Earlier
  <2>2. i \in 1 .. m  BY <1>2, <2>1
  <2>3. x # k  BY <1>7, <2>1, <2>2
  <2>4. CASE j = m + 1  BY <1>2, <2>1, <2>3, <2>4
  <2>5. CASE j \in 1 .. m
    <3>1. /\ at(p, i) \in DOMAIN table /\ at(p, j) \in DOMAIN table /\ at(p, i) < at(p, j)
          /\ table[at(p, i)] = x /\ table[at(p, j)] = y
      BY <1>2, <1>3, <2>1, <2>2, <2>5
    <3> QED  BY <2>3, <3>1 DEF Earlier
  <2> QED  BY <1>5, <2>4, <2>5
<1>9. ASSUME y = k, x # k, x \in Listed(new) PROVE Earlier(new, x, y)
  <2>1. PICK i \in DOMAIN new : new[i] = x  BY <1>9 DEF Listed
  <2>2. i \in 1 .. m  BY <1>2, <1>5, <1>9, <2>1
  <2>3. i < m + 1 /\ m + 1 \in DOMAIN new  BY <1>2, <2>2
  <2> QED  BY <1>2, <1>9, <2>1, <2>3 DEF Earlier
<1>10. ASSUME Earlier(table, x, y), x # k, y # k, x \in Listed(new) PROVE Earlier(new, x, y)
  <2>1. PICK a, b \in DOMAIN table : a < b /\ table[a] = x /\ table[b] = y  BY <1>10 DEF Earlier
  <2>2. a # p /\ b # p
    <3>1. a # p
      <4> SUFFICES ASSUME a = p PROVE FALSE  OBVIOUS
      <4>1. p =< L  BY <1>2, <2>1
      <4> QED  BY <1>6, <1>10, <2>1, <4>1
    <3>2. b # p
      <4> SUFFICES ASSUME b = p PROVE FALSE  OBVIOUS
      <4>1. p =< L /\ k \notin Listed(table)
        <5>1. p =< L  BY <1>2, <2>1
        <5> QED  BY <1>6, <1>10, <2>1, <5>1
      <4>2. p = 1  BY <1>1, <1>10, <2>1, <4>1
      <4> QED  BY <1>2, <2>1, <4>2
    <3> QED  BY <3>1, <3>2
  <2>3. PICK i \in 1 .. m : at(p, i) = a  BY <1>2, <1>4, <2>1, <2>2
  <2>4. PICK j \in 1 .. m : at(p, j) = b  BY <1>2, <1>4, <2>1, <2>2
  <2>5. new[i] = x /\ new[j] = y  BY <1>3, <2>1, <2>3, <2>4
  <2>6. i < j
    <3> SUFFICES ASSUME ~(i < j) PROVE FALSE  OBVIOUS
    <3>1. j < i \/ i = j  BY <1>2
    <3>2. at(p, j) < at(p, i) \/ i = j  BY <1>3, <3>1
    <3>3. a \in Nat /\ b \in Nat  BY <1>2, <2>1
    <3> QED  BY <2>1, <2>3, <2>4, <3>2, <3>3
  <2>7. i \in DOMAIN new /\ j \in DOMAIN new  BY <1>2
  <2> QED  BY <2>5, <2>6, <2>7 DEF Earlier
<1> QED  BY <1>8, <1>9, <1>10 DEF new

(* The sessions in memory are in the order of their latest activity.          *)
RecencyInv ==
  \A p \in Process :
    /\ recency[p] \in Seq(Sid) /\ IsInjective(recency[p]) /\ Listed(order[p]) \subseteq Listed(recency[p])
    /\ \A x, y \in Sid : Earlier(order[p], x, y) => Earlier(recency[p], x, y)

RecencyTyped == recency \in [Process -> Seq(Sid)]

(* No session was used. *)
LEMMA RecencyInitInv == ASSUME SessionInit PROVE RecencyInv /\ RecencyTyped
BY DEF SessionInit, RecencyInv, RecencyTyped, IsInjective, Listed, Earlier

(* An operation in memory uses its session, and who is dropped for it was     *)
(* used before all others.                                                    *)
LEMMA InMemoryKeepsRecency ==
  ASSUME SessionsInv, RecencyInv, RecencyTyped, NEW w \in Worker, InMemory(w)
  PROVE  /\ RecencyInv' /\ RecencyTyped'
         /\ \A p \in Process : \A out \in Listed(order[p]) \ Listed(order'[p]) :
              \A s \in Listed(order[p]) \ {out} : Earlier(order[p], out, s)
<1>1. StoreTypes /\ MemoryOK /\ CallOK(op[w])  BY DEF SessionsInv, CallsOK
<1>2. PICK o, p, k, table, rec : /\ o = op[w] /\ p = home[w] /\ k = o.sid /\ table = order[p]
                                 /\ rec = recency[p]
  OBVIOUS
<1>3. p \in Process /\ k \in Sid
  <2>1. CallOK(o) /\ o.at = "memory" /\ o.kind # "export"  BY <1>1, <1>2 DEF InMemory
  <2>2. o.kind # "none" /\ o.kind \in Kind  BY <2>1 DEF CallOK, OpRecord
  <2>3. p \in Process  BY <1>1, <1>2 DEF StoreTypes
  <2> QED  BY <1>2, <2>1, <2>2, <2>3 DEF Kind, CallOK
<1>4. /\ table \in Seq(Sid) /\ Len(table) =< MaxSessions /\ IsInjective(table) /\ MaxSessions \in Nat \ {0}
      /\ Listed(table) = {s \in Sid : memory[p][s] # None}
  BY <1>1, <1>2, <1>3, SessionsAssumption DEF StoreTypes, MemoryOK, MemoryGood, SessionsAssumption
<1>5. /\ rec \in Seq(Sid) /\ IsInjective(rec) /\ Listed(table) \subseteq Listed(rec)
      /\ \A x, y \in Sid : Earlier(table, x, y) => Earlier(rec, x, y)
  BY <1>2, <1>3 DEF RecencyInv
<1>6. PICK new, recent :
        /\ new = (IF memory[p][k] # None /\ o.kind = "resolve" THEN table ELSE Used(table, k, MaxSessions))
        /\ recent = (IF memory[p][k] = None \/ o.kind # "resolve" THEN Used(rec, k, Len(rec) + 1) ELSE rec)
  OBVIOUS
<1>7. order' = [order EXCEPT ![p] = new]  BY <1>2, <1>6 DEF InMemory, Ordered
<1>8. recency' = [recency EXCEPT ![p] = recent]
  <2>1. CASE memory[p][k] = None \/ o.kind # "resolve"
    <3>1. recency' = [recency EXCEPT ![p] = Used(@, k, Len(@) + 1)]  BY <1>2, <2>1 DEF InMemory
    <3> QED  BY <1>2, <1>3, <1>6, <2>1, <3>1 DEF RecencyTyped
  <2>2. CASE ~(memory[p][k] = None \/ o.kind # "resolve")
    <3>1. recency' = recency  BY <1>2, <2>2 DEF InMemory
    <3> QED  BY <1>2, <1>3, <1>6, <2>2, <3>1 DEF RecencyTyped
  <2> QED  BY <2>1, <2>2
<1>9. /\ recent \in Seq(Sid) /\ IsInjective(recent) /\ Listed(new) \subseteq Listed(recent)
      /\ \A x, y \in Sid : Earlier(new, x, y) => Earlier(recent, x, y)
      /\ \A out \in Listed(table) \ Listed(new) :
           \A s \in Listed(table) \ {out} : Earlier(table, out, s)
  <2>1. CASE memory[p][k] # None /\ o.kind = "resolve"  BY <1>5, <1>6, <2>1
  <2>2. CASE ~(memory[p][k] # None /\ o.kind = "resolve")
    <3>1. PICK limit : limit = Len(rec) + 1  OBVIOUS
    <3>2. limit \in Nat \ {0} /\ Len(rec) =< limit /\ ~(Len(rec) >= limit)  BY <1>5, <3>1
    <3>3. new = Used(table, k, MaxSessions) /\ recent = Used(rec, k, limit)  BY <1>6, <2>2, <3>1
    <3>4. recent \in Seq(Sid) /\ IsInjective(recent)
      <4>1. PICK h : h = [r \in Sid |-> Listed(rec)]  OBVIOUS
      <4>2. InOrderOfUse(rec, h)
        <5>1. \A i \in DOMAIN rec : rec[i] \in Sid  BY <1>5
        <5> QED  BY <4>1, <5>1 DEF InOrderOfUse, Listed
      <4>3. \A r \in Sid : IsFiniteSet(h[r])  BY <1>5, <4>1, DistinctKeys
      <4> QED  BY <1>3, <1>5, <3>2, <3>3, <4>2, <4>3, UsedResult
    <3>5. Listed(recent) = {k} \cup Listed(rec)
      <4>1. Listed(recent) = {k} \cup (Listed(rec) \ (IF k \notin Listed(rec) /\ Len(rec) >= limit
                                     THEN {Head(rec)} ELSE {}))
        BY <1>3, <1>5, <3>2, <3>3, UsedListed
      <4> QED  BY <3>2, <4>1
    <3>6. PICK gone : /\ gone = (IF k \notin Listed(table) /\ Len(table) >= MaxSessions
                                  THEN {Head(table)} ELSE {})
                      /\ Listed(new) = {k} \cup (Listed(table) \ gone)
      BY <1>3, <1>4, <3>3, UsedListed
    <3>7. ASSUME NEW x \in Sid, NEW y \in Sid, Earlier(new, x, y) PROVE Earlier(recent, x, y)
      <4>1. x # k /\ (y = k \/ Earlier(table, x, y))  BY <1>3, <1>4, <3>3, <3>7, UsedOrder
      <4>2. x \in Listed(recent) /\ y \in Listed(recent)
        <5>1. x \in Listed(new) /\ y \in Listed(new)  BY <3>7 DEF Earlier, Listed
        <5> QED  BY <1>5, <3>5, <3>6, <5>1
      <4>3. CASE y = k  BY <1>3, <1>5, <3>2, <3>3, <4>1, <4>2, <4>3, UsedOrder
      <4>4. CASE y # k
        <5>1. Earlier(rec, x, y)  BY <1>5, <4>1, <4>4
        <5> QED  BY <1>3, <1>5, <3>2, <3>3, <4>1, <4>2, <4>4, <5>1, UsedOrder
      <4> QED  BY <4>3, <4>4
    <3>8. ASSUME NEW out \in Listed(table) \ Listed(new), NEW s \in Listed(table) \ {out}
          PROVE  Earlier(table, out, s)
      <4>1. out \in gone  BY <3>6
      <4>2. out = Head(table)  BY <3>6, <4>1
      <4>3. PICK j \in DOMAIN table : table[j] = s  BY DEF Listed
      <4>4. DOMAIN table = 1 .. Len(table) /\ Len(table) \in Nat  BY <1>4
      <4>5. Head(table) = table[1] /\ 1 \in DOMAIN table /\ j # 1 /\ 1 < j
        <5>1. j \in Nat /\ j >= 1 /\ Len(table) >= 1  BY <4>3, <4>4
        <5>2. Head(table) = table[1] /\ 1 \in DOMAIN table  BY <1>4, <4>4, <5>1
        <5>3. j # 1  BY <4>2, <4>3, <5>2
        <5> QED  BY <5>1, <5>2, <5>3
      <4> QED  BY <4>2, <4>3, <4>5 DEF Earlier
    <3> QED  BY <1>5, <3>4, <3>5, <3>6, <3>7, <3>8
  <2> QED  BY <2>1, <2>2
<1>10. order'[p] = new /\ \A q \in Process : q # p => order'[q] = order[q]  BY <1>1, <1>3, <1>7 DEF StoreTypes
<1>11. recency'[p] = recent /\ (\A q \in Process : q # p => recency'[q] = recency[q])
       /\ RecencyTyped'
  BY <1>3, <1>8, <1>9 DEF RecencyTyped
<1>12. RecencyInv'  BY <1>9, <1>10, <1>11 DEF RecencyInv
<1>13. ASSUME NEW q \in Process, NEW out \in Listed(order[q]) \ Listed(order'[q]),
              NEW s \in Listed(order[q]) \ {out}
       PROVE  Earlier(order[q], out, s)
  <2>1. q = p  BY <1>10, <1>13
  <2> QED  BY <1>2, <1>9, <1>10, <2>1
<1> QED  BY <1>11, <1>12, <1>13

(* Only operations in memory change the order of a process. *)
LEMMA OtherSteps ==
  ASSUME SessionNext, ~\E w \in Worker : InMemory(w)
  PROVE  UNCHANGED <<order, recency>>
<1>1. CASE \E w \in Worker : Call(w)
  <2>1. PICK w, kind, s, arg : Begin(w, kind, s, arg)
    BY <1>1 DEF Call, GetOrCreate, RecordEvent, AddTags, ResolveNarrative, ExportSessions
  <2> QED  BY <2>1 DEF Begin, stores, hist
<1>2. CASE \E w \in Worker : RoundTrip(w)
  BY <1>2 DEF RoundTrip, Ensure, Push, ReadTags, AddMissingTags, ReadNarrative, WriteNarrative, CollectIds,
       ReadMetadata, PruneIndex, RedisFails, hist
<1>3. CASE \E w \in Worker : ExportMemory(w)  BY <1>3 DEF ExportMemory, stores, hist
<1>4. CASE \E s \in Sid : Expire(s)  BY <1>4 DEF Expire
<1> QED  BY <1>1, <1>2, <1>3, <1>4 DEF SessionNext

(* Every step of the manager keeps the order of use. *)
LEMMA RecencyStepInv ==
  ASSUME SessionsInv, RecencyInv, RecencyTyped, [SessionNext]_sessionVars
  PROVE  RecencyInv' /\ RecencyTyped'
<1>1. CASE \E w \in Worker : InMemory(w)  BY <1>1, InMemoryKeepsRecency
<1>2. CASE UNCHANGED <<order, recency>>  BY <1>2 DEF RecencyInv, RecencyTyped
<1>3. UNCHANGED sessionVars => UNCHANGED <<order, recency>>  BY DEF sessionVars, stores, hist
<1> QED  BY <1>1, <1>2, <1>3, OtherSteps

(* DropsLeastRecent: who is evicted from the memory of a process was used     *)
(* before all who stay.                                                       *)
THEOREM LeastRecentDropped == SessionSpec => DropsLeastRecent
<1>1. ASSUME SessionsInv, RecencyInv, RecencyTyped, SessionNext, NEW p \in Process,
             NEW out \in Listed(order[p]) \ Listed(order'[p]), NEW s \in Listed(order[p]) \ {out}
      PROVE  \E i, j \in DOMAIN recency[p] : i < j /\ recency[p][i] = out /\ recency[p][j] = s
  <2>1. PICK w \in Worker : InMemory(w)  BY <1>1, OtherSteps
  <2>2. Earlier(order[p], out, s)  BY <1>1, <2>1, InMemoryKeepsRecency
  <2>3. out \in Sid /\ s \in Sid
    <3>1. order[p] \in Seq(Sid)  BY <1>1 DEF SessionsInv, StoreTypes
    <3> QED  BY <3>1 DEF Listed
  <2>4. Earlier(recency[p], out, s)  BY <1>1, <2>2, <2>3 DEF RecencyInv
  <2> QED  BY <2>4 DEF Earlier
<1>2. SessionsInv /\ RecencyInv /\ RecencyTyped /\ [SessionNext]_sessionVars =>
        [\A p \in Process : \A out \in Listed(order[p]) \ Listed(order'[p]) :
           \A s \in Listed(order[p]) \ {out} :
             \E i, j \in DOMAIN recency[p] : i < j /\ recency[p][i] = out /\ recency[p][j] = s]_sessionVars
  BY <1>1
<1> QED
  BY <1>2, SessionsInitInv, SessionStepInv, RecencyInitInv, RecencyStepInv, PTL DEF SessionSpec, DropsLeastRecent

----------------------------------------------------------------------------
(* The order of numbers, by which the least of a set is found. *)
LessThan == {p \in Nat \X Nat : p[1] < p[2]}

(* A set of numbers that is not empty has a least one. *)
LEMMA LeastOf ==
  ASSUME NEW T \in SUBSET Nat, T # {}
  PROVE  \E x \in T : \A y \in T : x <= y
<1>1. IsWellFoundedOn(LessThan, Nat)  BY NatLessThanWellFounded, Zenon DEF OpToRel, LessThan
<1>2. PICK x \in T : \A y \in T : ~(<<y, x>> \in LessThan)
  BY <1>1, WFMin
<1>3. ASSUME NEW y \in T PROVE x <= y
  <2>1. x \in Nat /\ y \in Nat /\ <<y, x>> \notin LessThan  BY <1>2
  <2>2. <<y, x>> \in Nat \X Nat /\ <<y, x>>[1] = y /\ <<y, x>>[2] = x  BY <2>1
  <2>3. ~(y < x)  BY <2>1, <2>2 DEF LessThan
  <2> QED  BY <2>1, <2>3
<1> QED  BY <1>3

(* What comes before an element, and an order of all elements of a set.      *)
Preceding(S, R, p) == {q \in S : <<q, p>> \in R}

Orders(R, S) ==
  /\ \A x \in S : <<x, x>> \notin R
  /\ \A x, y \in S : x # y => <<x, y>> \in R \/ <<y, x>> \in R
  /\ \A x, y, z \in S : <<x, y>> \in R /\ <<y, z>> \in R => <<x, z>> \in R

(* An element has fewer others before it than one that comes later.          *)
LEMMA RankGrows ==
  ASSUME NEW S, IsFiniteSet(S), NEW R, Orders(R, S), NEW p \in S, NEW q \in S, <<p, q>> \in R
  PROVE  /\ Cardinality(Preceding(S, R, p)) \in Nat /\ Cardinality(Preceding(S, R, q)) \in Nat
         /\ Cardinality(Preceding(S, R, p)) < Cardinality(Preceding(S, R, q))
<1> DEFINE P == Preceding(S, R, p)  Q == Preceding(S, R, q)
<1>1. P \in SUBSET Q /\ p \in Q /\ p \notin P /\ Q \in SUBSET S  BY DEF Preceding, Orders
<1> HIDE DEF P, Q
<1>2. IsFiniteSet(Q)  BY <1>1, FS_Subset
<1>3. IsFiniteSet(P) /\ Cardinality(P) <= Cardinality(Q) /\ Cardinality(P) # Cardinality(Q)
  BY <1>1, <1>2, FS_Subset
<1>4. Cardinality(P) \in Nat /\ Cardinality(Q) \in Nat  BY <1>2, <1>3, FS_CardinalityType
<1>5. Cardinality(P) < Cardinality(Q)  BY <1>3, <1>4
<1> QED  BY <1>4, <1>5 DEF P, Q

(* A finite set that is ordered has a first element.                         *)
LEMMA FirstElement ==
  ASSUME NEW S, IsFiniteSet(S), S # {}, NEW R, Orders(R, S)
  PROVE  \E b \in S : \A q \in S \ {b} : <<b, q>> \in R
<1> DEFINE rank(x) == Cardinality(Preceding(S, R, x))
           T == {rank(x) : x \in S}
<1>1. \A x \in S : rank(x) \in Nat
  <2> TAKE x \in S
  <2>1. Preceding(S, R, x) \in SUBSET S  BY DEF Preceding
  <2> QED  BY <2>1, FS_Subset, FS_CardinalityType
<1>2. T \in SUBSET Nat /\ T # {}  BY <1>1
<1>3. PICK n \in T : \A y \in T : n <= y  BY <1>2, LeastOf
<1>4. PICK b \in S : n = rank(b)  BY <1>3
<1>5. ASSUME NEW q \in S \ {b}, <<b, q>> \notin R PROVE FALSE
  <2>1. <<q, b>> \in R  BY <1>5 DEF Orders
  <2>2. rank(q) < rank(b)  BY <2>1, RankGrows
  <2>3. n <= rank(q)  BY <1>3
  <2>4. rank(q) \in Nat /\ rank(b) \in Nat  BY <1>1
  <2> HIDE DEF rank
  <2> QED  BY <2>2, <2>3, <2>4, <1>4
<1> QED  BY <1>5

(* Of a set that is ordered, at most n elements have fewer than n before them.*)
LEMMA FewFirst ==
  ASSUME NEW S, IsFiniteSet(S), NEW R, Orders(R, S), NEW n \in Nat
  PROVE  LET F == {p \in S : Cardinality(Preceding(S, R, p)) < n}
         IN  IsFiniteSet(F) /\ Cardinality(F) <= n
<1> DEFINE rank(x) == Cardinality(Preceding(S, R, x))
           F == {p \in S : rank(p) < n}
           f == [p \in F |-> rank(p)]
           T == 0 .. n - 1
<1>1. \A x \in S : rank(x) \in Nat
  <2> TAKE x \in S
  <2>1. Preceding(S, R, x) \in SUBSET S  BY DEF Preceding
  <2> QED  BY <2>1, FS_Subset, FS_CardinalityType
<1>2. \A x, y \in S : x # y => rank(x) # rank(y)
  <2> TAKE x, y \in S
  <2> HAVE x # y
  <2>1. <<x, y>> \in R \/ <<y, x>> \in R  BY DEF Orders
  <2>2. rank(x) < rank(y) \/ rank(y) < rank(x)  BY <2>1, RankGrows
  <2>3. rank(x) \in Nat /\ rank(y) \in Nat  BY <1>1
  <2> HIDE DEF rank
  <2> QED  BY <2>2, <2>3
<1>3. IsFiniteSet(T) /\ Cardinality(T) = n
  <2>1. 0 \in Int /\ n - 1 \in Int  OBVIOUS
  <2>2. IsFiniteSet(T) /\ Cardinality(T) = IF 0 > n - 1 THEN 0 ELSE n - 1 - 0 + 1  BY <2>1, FS_Interval
  <2> QED  BY <2>2
<1> HIDE DEF rank
<1>4. f \in [F -> T]  BY <1>1
<1>5. \A x, y \in F : f[x] = f[y] => x = y  BY <1>2
<1>6. f \in Injection(F, T)  BY <1>4, <1>5 DEF Injection, IsInjective
<1> HIDE DEF F, f, T
<1>7. IsFiniteSet(F) /\ Cardinality(F) <= n  BY <1>3, <1>6, FS_Injection
<1> QED  BY <1>7 DEF F, rank

----------------------------------------------------------------------------
(* The table of profiles.                                                    *)
Row == [skill : Nat, metrics : Metric, lastSeen : Nat, sessions : Seq(Visit),
        notes : 0 .. MaxNotes]

Rowed(rows) ==
  IsFiniteSet(DOMAIN rows) /\ DOMAIN rows \subseteq ProfileId /\ \A p \in DOMAIN rows : rows[p] \in Row

BeforePairs(rows) == {pair \in (DOMAIN rows) \X (DOMAIN rows) : Before(rows, pair[1], pair[2])}

(* What the limits are.                                                      *)
LEMMA Limits == MaxProfiles \in Nat \ {0} /\ MaxSessionsOf \in Nat \ {0} /\ MaxNotes \in Nat \ {0} /\ MaxListed \in Nat \ {0}
BY ProfilesAssumption

(* Of two different pairs of numbers, one is after the other.                *)
LEMMA PairsOrdered ==
  ASSUME NEW a \in Nat, NEW b \in Nat, NEW c \in Nat, NEW p \in Nat, NEW q \in Nat, NEW r \in Nat
  PROVE  /\ ~(a > a \/ (a = a /\ p > p))
         /\ p # q => (a > b \/ (a = b /\ p > q)) \/ (b > a \/ (b = a /\ q > p))
         /\ (a > b \/ (a = b /\ p > q)) /\ (b > c \/ (b = c /\ q > r)) => (a > c \/ (a = c /\ p > r))
OBVIOUS

(* The order of list_profiles is one: an id decides between equal seconds.   *)
LEMMA RowsAreOrdered ==
  ASSUME NEW rows, Rowed(rows)
  PROVE  Orders(BeforePairs(rows), DOMAIN rows)
<1> DEFINE D == DOMAIN rows  R == BeforePairs(rows)
<1>1. \A x, y \in D : <<x, y>> \in R <=> Before(rows, x, y)  BY DEF BeforePairs
<1>2. \A x \in D : x \in Nat /\ rows[x].lastSeen \in Nat
  BY ProfilesAssumption DEF Rowed, Row
<1> HIDE DEF R, D
<1>3. ASSUME NEW x \in D PROVE <<x, x>> \notin R
  BY <1>1, <1>2, <1>3, PairsOrdered DEF Before
<1>4. ASSUME NEW x \in D, NEW y \in D, x # y PROVE <<x, y>> \in R \/ <<y, x>> \in R
  <2>1. rows[x].lastSeen \in Nat /\ rows[y].lastSeen \in Nat /\ x \in Nat /\ y \in Nat  BY <1>2
  <2>2. Before(rows, x, y) \/ Before(rows, y, x)  BY <2>1, <1>4, PairsOrdered DEF Before
  <2> QED  BY <2>2, <1>1
<1>5. ASSUME NEW x \in D, NEW y \in D, NEW z \in D, <<x, y>> \in R, <<y, z>> \in R
      PROVE  <<x, z>> \in R
  <2>1. /\ rows[x].lastSeen \in Nat /\ rows[y].lastSeen \in Nat /\ rows[z].lastSeen \in Nat
        /\ x \in Nat /\ y \in Nat /\ z \in Nat
    BY <1>2
  <2>2. Before(rows, x, y) /\ Before(rows, y, z)  BY <1>1, <1>5
  <2>3. Before(rows, x, z)  BY <2>1, <2>2, PairsOrdered DEF Before
  <2> QED  BY <2>3, <1>1
<1>6. Orders(R, D)  BY <1>3, <1>4, <1>5 DEF Orders
<1> QED  BY <1>6 DEF R, D

(* What comes before a row, as the model counts it.                          *)
LEMMA RowsBefore ==
  ASSUME NEW rows, NEW p \in DOMAIN rows
  PROVE  {q \in DOMAIN rows : Before(rows, q, p)} = Preceding(DOMAIN rows, BeforePairs(rows), p)
BY DEF Preceding, BeforePairs

(* The first rows are at most as many as were asked for.                     *)
LEMMA FirstRowsResult ==
  ASSUME NEW rows, Rowed(rows), NEW n \in Nat
  PROVE  /\ FirstRows(rows, n) \subseteq DOMAIN rows
         /\ IsFiniteSet(FirstRows(rows, n)) /\ Cardinality(FirstRows(rows, n)) <= n
<1> DEFINE D == DOMAIN rows  R == BeforePairs(rows)
           F == {p \in D : Cardinality(Preceding(D, R, p)) < n}
<1>1. FirstRows(rows, n) = F  BY RowsBefore DEF FirstRows
<1>2. Orders(R, D) /\ IsFiniteSet(D)  BY RowsAreOrdered DEF Rowed
<1>3. F \subseteq D  OBVIOUS
<1> HIDE DEF D, R
<1>4. IsFiniteSet(F) /\ Cardinality(F) <= n  BY <1>2, FewFirst
<1> QED  BY <1>1, <1>3, <1>4 DEF D

(* A row that is not among them has as many before it.                       *)
LEMMA OthersAreBehind ==
  ASSUME NEW rows, Rowed(rows), NEW n \in Nat, NEW p \in DOMAIN rows, p \notin FirstRows(rows, n)
  PROVE  LET B == {q \in DOMAIN rows : Before(rows, q, p)}
         IN  IsFiniteSet(B) /\ Cardinality(B) \in Nat /\ Cardinality(B) >= n
<1> DEFINE B == {q \in DOMAIN rows : Before(rows, q, p)}
<1>1. B \in SUBSET DOMAIN rows  OBVIOUS
<1>2. ~(Cardinality(B) < n)  BY DEF FirstRows
<1> HIDE DEF B
<1>3. IsFiniteSet(B) /\ Cardinality(B) \in Nat  BY <1>1, FS_Subset, FS_CardinalityType DEF Rowed
<1> QED  BY <1>2, <1>3 DEF B

(* MatchingEngine.match: when nothing matches, nothing that is listed is as  *)
(* alike as the threshold.                                                   *)
LEMMA NothingIsAlike ==
  ASSUME Rowed(profiles), NEW m \in Metric, Best(m) = {},
         NEW p \in FirstRows(profiles, MaxListed)
  PROVE  Score[m, profiles[p].metrics] < MatchThreshold
<1> DEFINE L == FirstRows(profiles, MaxListed)
           score(x) == Score[m, profiles[x].metrics]
           better(x, y) == \/ score(x) > score(y)
                           \/ score(x) = score(y) /\ x # y /\ Before(profiles, x, y)
           R == {pair \in L \X L : better(pair[1], pair[2])}
           D == DOMAIN profiles
           P == BeforePairs(profiles)
<1>1. L \subseteq D /\ IsFiniteSet(L)  BY FirstRowsResult, Limits
<1>2. \A x \in D : score(x) \in Nat  BY ProfilesAssumption DEF Rowed, Row
<1>3. Orders(P, D)  BY RowsAreOrdered
<1>4. \A x, y \in L : <<x, y>> \in R <=> better(x, y)  OBVIOUS
<1>5. \A x, y \in D : Before(profiles, x, y) <=> <<x, y>> \in P  BY DEF BeforePairs
<1>6. Best(m) = {x \in L : (\A y \in L \ {x} : better(x, y)) /\ score(x) >= MatchThreshold}
  BY DEF Best
<1>7. p \in L  OBVIOUS
<1> HIDE DEF L, R, D, P, score
<1>8. Orders(R, L)
  <2>1. ASSUME NEW x \in L PROVE ~better(x, x)  BY <1>1, <1>2
  <2>2. ASSUME NEW x \in L, NEW y \in L, x # y PROVE better(x, y) \/ better(y, x)
    <3>1. score(x) \in Nat /\ score(y) \in Nat  BY <1>1, <1>2
    <3>2. Before(profiles, x, y) \/ Before(profiles, y, x)  BY <1>1, <1>3, <1>5, <2>2 DEF Orders
    <3> QED  BY <3>1, <3>2, <2>2
  <2>3. ASSUME NEW x \in L, NEW y \in L, NEW z \in L, better(x, y), better(y, z)
        PROVE  better(x, z)
    <3>1. score(x) \in Nat /\ score(y) \in Nat /\ score(z) \in Nat  BY <1>1, <1>2
    <3>2. CASE score(x) > score(y) \/ score(y) > score(z)  BY <3>1, <3>2, <2>3
    <3>3. CASE Before(profiles, x, y) /\ Before(profiles, y, z) /\ score(x) = score(y) /\ score(y) = score(z)
      <4>1. x \in D /\ y \in D /\ z \in D  BY <1>1
      <4>2. <<x, y>> \in P /\ <<y, z>> \in P  BY <3>3, <4>1, <1>5
      <4>3. <<x, z>> \in P  BY <4>1, <4>2, <1>3 DEF Orders
      <4>4. x # z  BY <4>1, <4>3, <1>3 DEF Orders
      <4>5. Before(profiles, x, z)  BY <4>1, <4>3, <1>5
      <4> QED  BY <3>3, <4>4, <4>5
    <3> QED  BY <3>2, <3>3, <2>3
  <2> HIDE DEF better
  <2> QED  BY <2>1, <2>2, <2>3, <1>4 DEF Orders
<1>9. PICK b \in L : \A q \in L \ {b} : <<b, q>> \in R  BY <1>1, <1>7, <1>8, FirstElement
<1>10. \A q \in L \ {b} : better(b, q)  BY <1>4, <1>9
<1>11. score(b) \in Nat /\ score(p) \in Nat /\ MatchThreshold \in Nat
  BY <1>1, <1>2, <1>7, <1>9, ProfilesAssumption
<1>12. score(b) >= score(p)
  <2>1. CASE b = p  BY <2>1, <1>11
  <2>2. CASE b # p  BY <2>2, <1>7, <1>10, <1>11
  <2> QED  BY <2>1, <2>2
<1>13. ~(score(b) >= MatchThreshold)  BY <1>6, <1>10, <1>9
<1>14. score(p) < MatchThreshold  BY <1>11, <1>12, <1>13
<1> QED  BY <1>14 DEF score

(* The newest elements of a sequence.                                        *)
LEMMA NewestResult ==
  ASSUME NEW S, NEW q \in Seq(S), NEW k \in Nat \ {0}
  PROVE  /\ Newest(q, k) \in Seq(S) /\ Len(Newest(q, k)) = IF Len(q) > k THEN k ELSE Len(q)
         /\ \A i \in 1 .. Len(Newest(q, k)) : Newest(q, k)[i] = q[Len(q) - Len(Newest(q, k)) + i]
<1> DEFINE first == IF Len(q) > k THEN Len(q) - k + 1 ELSE 1
           r == SubSeq(q, first, Len(q))
           n == IF Len(q) > k THEN k ELSE Len(q)
<1>1. Len(q) \in Nat /\ first \in 1 .. Len(q) + 1 /\ Len(q) - first + 1 = n /\ first - 1 = Len(q) - n
      /\ n \in Nat
  OBVIOUS
<1> HIDE DEF first, n
<1>2. r \in Seq(S) /\ Len(r) = Len(q) - first + 1 /\ \A i \in 1 .. Len(q) - first + 1 : r[i] = q[first - 1 + i]
  BY <1>1
<1>3. r \in Seq(S) /\ Len(r) = n /\ \A i \in 1 .. n : r[i] = q[Len(q) - n + i]
  BY <1>1, <1>2
<1>4. Newest(q, k) = r  BY DEF Newest, first
<1> HIDE DEF r
<1>5. r \in Seq(S) /\ Len(r) = n /\ \A i \in 1 .. Len(r) : r[i] = q[Len(q) - Len(r) + i]  BY <1>3
<1> QED  BY <1>4, <1>5 DEF n

(* What is kept of a profile's visits, beside those it was answered to have. *)
Fits(row, s) ==
  /\ Len(row.sessions) <= MaxSessionsOf
  /\ Of(row.sessions) \subseteq DOMAIN s
  /\ \A i, j \in DOMAIN row.sessions : i < j =>
       row.sessions[i] # row.sessions[j] /\ row.sessions[j] \in s[row.sessions[i]]
  /\ \A v \in DOMAIN s :
       IsFiniteSet(s[v]) /\ (v \in Of(row.sessions) \/ Cardinality(s[v]) >= MaxSessionsOf)

(* One more of a finite set is as many or one more.                          *)
LEMMA OneMore ==
  ASSUME NEW S, NEW x, IsFiniteSet(S), NEW n \in Nat, Cardinality(S) >= n
  PROVE  IsFiniteSet(S \cup {x}) /\ Cardinality(S \cup {x}) >= n
<1>1. IsFiniteSet(S \cup {x}) /\ Cardinality(S \cup {x}) = IF x \in S THEN Cardinality(S) ELSE Cardinality(S) + 1
  BY FS_AddElement
<1>2. Cardinality(S) \in Nat  BY FS_CardinalityType
<1> QED  BY <1>1, <1>2

(* The visits since, when one more is answered to be of a profile.           *)
SinceThen(row, s, v) ==
  [x \in DOMAIN s \cup {v} |->
     IF x # v THEN s[x] \cup {v} ELSE IF v \in Of(row.sessions) THEN s[v] ELSE {}]

(* A visit that is kept already changes nothing but the time.                *)
LEMMA KnownVisit ==
  ASSUME NEW row \in Row, NEW s, Fits(row, s), NEW v \in Visit, v \in Of(row.sessions), second \in Nat
  PROVE  WithVisit(row, v) \in Row /\ Fits(WithVisit(row, v), SinceThen(row, s, v))
<1> DEFINE q == row.sessions  M == MaxSessionsOf  t == SinceThen(row, s, v)  w == WithVisit(row, v)
<1>1. q \in Seq(Visit) /\ Len(q) \in Nat /\ M \in Nat \ {0} /\ Len(q) <= M
  BY Limits DEF Row, Fits
<1>2. Newest(q, M) = q
  <2> DEFINE r == Newest(q, M)
  <2> HIDE DEF q, M
  <2>1. /\ r \in Seq(Visit) /\ Len(r) = IF Len(q) > M THEN M ELSE Len(q)
        /\ \A i \in 1 .. Len(r) : r[i] = q[Len(q) - Len(r) + i]
    BY <1>1, NewestResult
  <2> HIDE DEF r
  <2>2a. Len(r) = Len(q)  BY <1>1, <2>1
  <2>2b. \A i \in 1 .. Len(q) : Len(q) - Len(q) + i = i  BY <1>1
  <2>2. \A i \in 1 .. Len(q) : r[i] = q[i]  BY <2>1, <2>2a, <2>2b
  <2>3. r = q  BY <1>1, <2>1, <2>2a, <2>2
  <2> QED  BY <2>3 DEF r
<1>3. w = [row EXCEPT !.sessions = q, !.lastSeen = second]  BY <1>2 DEF WithVisit
<1>4. w \in Row /\ w.sessions = q  BY <1>3 DEF Row
<1>5. v \in DOMAIN s  BY DEF Fits
<1>6. DOMAIN t = DOMAIN s /\ \A x \in DOMAIN s : t[x] = IF x # v THEN s[x] \cup {v} ELSE s[x]
  BY <1>5 DEF SinceThen
<1> HIDE DEF t, w, q
<1>7. ASSUME NEW x \in DOMAIN t
      PROVE  IsFiniteSet(t[x]) /\ (x \in Of(q) \/ Cardinality(t[x]) >= M)
  <2>1. IsFiniteSet(s[x]) /\ (x \in Of(q) \/ Cardinality(s[x]) >= M)  BY <1>6, <1>7 DEF Fits, q
  <2>2. CASE x = v  BY <2>1, <2>2, <1>6, <1>7
  <2>3. CASE x # v
    <3>1. t[x] = s[x] \cup {v}  BY <2>3, <1>6, <1>7
    <3>2. IsFiniteSet(t[x])  BY <3>1, <2>1, FS_AddElement
    <3>3. Cardinality(s[x]) >= M => Cardinality(t[x]) >= M  BY <3>1, <2>1, <1>1, OneMore
    <3> QED  BY <3>2, <3>3, <2>1
  <2> QED  BY <2>2, <2>3
<1>8. \A i, j \in DOMAIN q : i < j => q[i] # q[j] /\ q[j] \in s[q[i]] /\ q[i] \in DOMAIN s
  BY DEF Fits, q, Of
<1>9. \A i, j \in DOMAIN q : i < j => q[i] # q[j] /\ q[j] \in t[q[i]]  BY <1>6, <1>8
<1>10. Of(q) \subseteq DOMAIN t  BY <1>6 DEF Fits, q
<1>11. Fits(w, t)  BY <1>1, <1>4, <1>7, <1>9, <1>10 DEF Fits
<1> QED  BY <1>4, <1>11 DEF t, w

(* A new one pushes the oldest out, after which as many were added as are    *)
(* kept.                                                                     *)
LEMMA NewVisit ==
  ASSUME NEW row \in Row, NEW s, Fits(row, s), NEW v \in Visit, v \notin Of(row.sessions), second \in Nat
  PROVE  WithVisit(row, v) \in Row /\ Fits(WithVisit(row, v), SinceThen(row, s, v))
<1> DEFINE q == row.sessions  M == MaxSessionsOf  t == SinceThen(row, s, v)  w == WithVisit(row, v)
           a == Append(q, v)  r == Newest(a, M)  L == Len(q)  d == Len(a) - Len(r)
<1>1. q \in Seq(Visit) /\ L \in Nat /\ M \in Nat /\ M # 0 /\ L <= M /\ DOMAIN q = 1 .. L
  BY Limits DEF Row, Fits
<1>2. a \in Seq(Visit) /\ Len(a) = L + 1 /\ a[L + 1] = v /\ \A i \in 1 .. L : a[i] = q[i]
  <2> HIDE DEF q
  <2> QED  BY <1>1
<1>3. /\ r \in Seq(Visit) /\ Len(r) = IF Len(a) > M THEN M ELSE Len(a)
      /\ \A i \in 1 .. Len(r) : r[i] = a[Len(a) - Len(r) + i]
  <2> HIDE DEF a, M
  <2>1. M \in Nat \ {0}  BY <1>1
  <2> QED  BY <1>2, <2>1, NewestResult
<1>4. w = [row EXCEPT !.sessions = r, !.lastSeen = second]  BY DEF WithVisit
<1>5. w \in Row /\ w.sessions = r  BY <1>3, <1>4 DEF Row
<1>6. /\ DOMAIN t = DOMAIN s \cup {v} /\ t[v] = {}
      /\ \A x \in DOMAIN s \ {v} : t[x] = s[x] \cup {v}
  BY DEF SinceThen
<1>7. /\ Of(q) \subseteq DOMAIN s /\ v \notin Of(q)
      /\ \A i, j \in 1 .. L : i < j => q[i] # q[j] /\ q[j] \in s[q[i]]
      /\ \A x \in DOMAIN s : IsFiniteSet(s[x]) /\ (x \in Of(q) \/ Cardinality(s[x]) >= M)
  BY <1>1 DEF Fits
<1>8. \A i \in 1 .. L : q[i] \in Of(q) /\ q[i] \in DOMAIN s /\ q[i] # v
  BY <1>1, <1>7 DEF Of
<1>9. /\ d \in Nat /\ (d = 0 \/ (d = 1 /\ L = M /\ Len(r) = M)) /\ Len(r) = L + 1 - d
      /\ Len(r) \in Nat /\ Len(r) <= M /\ 1 <= Len(r)
      /\ \A i \in 1 .. Len(r) : r[i] = a[d + i]
  <2>1. Len(r) = IF L + 1 > M THEN M ELSE L + 1  BY <1>2, <1>3
  <2>2. Len(r) \in Nat /\ Len(r) <= M /\ 1 <= Len(r) /\ (L + 1 - Len(r) = 0 \/ (L + 1 - Len(r) = 1 /\ L = M /\ Len(r) = M))
    <3> HIDE DEF L, M, r
    <3> QED  BY <1>1, <2>1
  <2>3. d = L + 1 - Len(r)  BY <1>2
  <2> HIDE DEF L, M, r, a, d
  <2>4. Len(a) - Len(r) = d  BY DEF d
  <2>5. \A i \in 1 .. Len(r) : r[i] = a[d + i]  BY <1>3, <2>4
  <2>6. d = 0 \/ (d = 1 /\ L = M /\ Len(r) = M)  BY <2>2, <2>3
  <2>7. Len(r) = L + 1 - d  BY <1>1, <2>2, <2>3
  <2> QED  BY <2>2, <2>5, <2>6, <2>7
<1> HIDE DEF t, w, q, a, r, L, d, M
<1>10. ASSUME NEW i \in 1 .. Len(r)
       PROVE  IF d + i = L + 1 THEN r[i] = v /\ i = Len(r)
              ELSE d + i \in 1 .. L /\ r[i] = q[d + i]
  <2>1. i \in Nat /\ 1 <= i /\ i <= Len(r)  BY <1>9
  <2>2. d + i \in 1 .. L + 1 /\ (d + i = L + 1 => i = Len(r))  BY <1>1, <1>9, <2>1
  <2>3. r[i] = a[d + i]  BY <1>9
  <2>4. d + i # L + 1 => d + i \in 1 .. L  BY <1>1, <2>2
  <2> QED  BY <2>2, <2>3, <2>4, <1>2
<1>11. Of(r) \subseteq DOMAIN t
  <2>1. DOMAIN r = 1 .. Len(r)  BY <1>3
  <2>2. ASSUME NEW i \in 1 .. Len(r) PROVE r[i] \in DOMAIN t  BY <1>6, <1>8, <1>10
  <2> QED  BY <2>1, <2>2 DEF Of
<1>12. ASSUME NEW i \in 1 .. Len(r), NEW j \in 1 .. Len(r), i < j
       PROVE  r[i] # r[j] /\ r[j] \in t[r[i]]
  <2>1. i \in Nat /\ j \in Nat /\ i # Len(r)  BY <1>9, <1>12
  <2>2. d + i \in 1 .. L /\ r[i] = q[d + i]  BY <1>10, <2>1
  <2>3. t[r[i]] = s[r[i]] \cup {v} /\ r[i] # v  BY <2>2, <1>6, <1>8
  <2>4. CASE d + j = L + 1
    <3>1. r[j] = v  BY <1>10, <2>4
    <3> QED  BY <3>1, <2>3
  <2>5. CASE d + j # L + 1
    <3>1. d + j \in 1 .. L /\ r[j] = q[d + j] /\ d + i < d + j  BY <1>10, <2>5, <2>1, <1>9, <1>12
    <3>2. q[d + i] # q[d + j] /\ q[d + j] \in s[q[d + i]]  BY <2>2, <3>1, <1>7
    <3> QED  BY <2>2, <2>3, <3>1, <3>2
  <2> QED  BY <2>4, <2>5
<1>13. ASSUME NEW x \in DOMAIN t
       PROVE  IsFiniteSet(t[x]) /\ (x \in Of(r) \/ Cardinality(t[x]) >= M)
  <2>1. CASE x = v
    <3>1. IsFiniteSet(t[x])  BY <2>1, <1>6, FS_EmptySet
    <3>2. Len(r) \in 1 .. Len(r) /\ d + Len(r) = L + 1  BY <1>9, <1>1
    <3>3. r[Len(r)] = v  BY <3>2, <1>10
    <3>4. x \in Of(r)  BY <3>2, <3>3, <2>1, <1>3 DEF Of
    <3> QED  BY <3>1, <3>4
  <2>2. CASE x # v
    <3>1. x \in DOMAIN s /\ t[x] = s[x] \cup {v}  BY <2>2, <1>6, <1>13
    <3>2. IsFiniteSet(s[x]) /\ (x \in Of(q) \/ Cardinality(s[x]) >= M)  BY <3>1, <1>7
    <3>3. IsFiniteSet(t[x])  BY <3>1, <3>2, FS_AddElement
    <3>4. CASE Cardinality(s[x]) >= M
      <4>1. Cardinality(t[x]) >= M  BY <3>1, <3>2, <3>4, <1>1, OneMore
      <4> QED  BY <4>1, <3>3
    <3>5. CASE x \in Of(q)
      <4>1. PICK i \in 1 .. L : x = q[i]  BY <3>5, <1>1 DEF Of
      <4>2. i \in Nat /\ 1 <= i /\ i <= L  BY <1>1
      <4>3. CASE d < i
        <5>1. i - d \in 1 .. Len(r) /\ d + (i - d) = i /\ i # L + 1  BY <4>2, <4>3, <1>9, <1>1
        <5>2. r[i - d] = q[i]  BY <5>1, <1>10
        <5> QED  BY <4>1, <5>1, <5>2, <3>3, <1>3 DEF Of
      <4>4. CASE ~(d < i)
        <5>1. d = 1 /\ i = 1 /\ L = M /\ Len(r) = M  BY <4>2, <4>4, <1>9
        <5> DEFINE f == [j \in 1 .. M |-> r[j]]
        <5>2. ASSUME NEW j \in 1 .. M PROVE r[j] \in t[x]
          <6>1. j \in 1 .. Len(r) /\ j \in Nat /\ 1 <= j  BY <5>1, <1>1
          <6>2. CASE d + j = L + 1
            <7>1. r[j] = v  BY <6>1, <6>2, <1>10
            <7> QED  BY <7>1, <3>1
          <6>3. CASE d + j # L + 1
            <7>1. 1 + j \in 1 .. L /\ r[j] = q[1 + j]  BY <6>1, <6>3, <5>1, <1>10
            <7>2. 1 \in 1 .. L /\ 1 < 1 + j  BY <6>1, <4>2, <5>1, <1>1
            <7>3. q[1 + j] \in s[q[1]]  BY <7>1, <7>2, <1>7
            <7> QED  BY <7>1, <7>3, <4>1, <5>1, <3>1
          <6> QED  BY <6>2, <6>3
        <5>3. ASSUME NEW j \in 1 .. M, NEW k \in 1 .. M, r[j] = r[k] PROVE j = k
          <6>1. j \in 1 .. Len(r) /\ k \in 1 .. Len(r) /\ j \in Nat /\ k \in Nat  BY <5>1, <1>1
          <6>2. ~(j < k) /\ ~(k < j)  BY <6>1, <5>3, <1>12
          <6> QED  BY <6>1, <6>2
        <5>4. f \in Injection(1 .. M, t[x])  BY <5>2, <5>3 DEF Injection, IsInjective
        <5>5. Cardinality(1 .. M) <= Cardinality(t[x])  BY <5>4, <3>3, FS_Injection
        <5>6. Cardinality(1 .. M) = M
          <6>1. 1 \in Int /\ M \in Int  BY <1>1
          <6>2. Cardinality(1 .. M) = IF 1 > M THEN 0 ELSE M - 1 + 1  BY <6>1, FS_Interval
          <6> QED  BY <6>2, <1>1
        <5>7. Cardinality(t[x]) \in Nat  BY <3>3, FS_CardinalityType
        <5>8. Cardinality(t[x]) >= M  BY <5>5, <5>6, <5>7, <1>1
        <5> QED  BY <5>8, <3>3
      <4> QED  BY <4>3, <4>4
    <3> QED  BY <3>2, <3>4, <3>5
  <2> QED  BY <2>1, <2>2
<1>14. DOMAIN r = 1 .. Len(r)  BY <1>3
<1>15. Fits(w, t)  BY <1>5, <1>9, <1>11, <1>12, <1>13, <1>14 DEF Fits, M
<1> QED  BY <1>5, <1>15 DEF t, w

----------------------------------------------------------------------------
(* A call under way: what it will create is like no profile it looked at,    *)
(* what it will write again had a row, and an import has profiles left.      *)
ImportRow == [id : ProfileId, skill : Nat, metrics : Metric, lastSeen : Nat]

TaskOK(k, ids) ==
  /\ k.at = "insert" => k.seen \in Nat
  /\ k.at \in {"create", "insert"} =>
       /\ k.visit \in Visit /\ k.metrics \in Metric
       /\ \A known \in k.known : Score[k.metrics, known.metrics] < MatchThreshold
  /\ k.at \in {"join", "rejoin"} => k.visit \in Visit
  /\ k.at = "rewrite" =>
       k.profile \in ids /\ k.visit \in Visit /\ k.metrics \in Metric /\ k.lastSeen \in Nat
  /\ k.at \in {"import", "mark"} => k.rows \in Seq(ImportRow) /\ k.rows # << >>

(* The table within its limits, every row with the visits it was answered    *)
(* to have, and nothing known of a profile that is gone.                     *)
TableOK ==
  /\ IsFiniteSet(DOMAIN profiles) /\ DOMAIN profiles \subseteq born /\ born \subseteq ProfileId
  /\ Cardinality(DOMAIN profiles) <= MaxProfiles
  /\ second \in Nat
  /\ DOMAIN since = ProfileId /\ DOMAIN unseen = ProfileId
  /\ \A p \in DOMAIN profiles : profiles[p] \in Row /\ Fits(profiles[p], since[p])
  /\ \A p \in ProfileId \ DOMAIN profiles : since[p] = << >>

TasksOK == DOMAIN task = Analyst /\ \A a \in Analyst : TaskOK(task[a], born)

ProfilesInv == TableOK /\ TasksOK /\ ReturnsRecognised

(* Nothing is known at first.                                                *)
LEMMA ProfilesInitInv == ASSUME ProfilesInit PROVE ProfilesInv
<1>1. DOMAIN profiles = {}  BY DEF ProfilesInit
<1>2. IsFiniteSet(DOMAIN profiles) /\ Cardinality(DOMAIN profiles) <= MaxProfiles
  BY <1>1, FS_EmptySet, Limits
<1>3. TableOK  BY <1>1, <1>2 DEF ProfilesInit, TableOK
<1>4. TasksOK  BY DEF ProfilesInit, TasksOK, TaskOK, NoTask
<1>5. ReturnsRecognised  BY <1>1 DEF ReturnsRecognised
<1> QED  BY <1>3, <1>4, <1>5 DEF ProfilesInv

(* The invariant says of the table what the first properties ask.            *)
LEMMA TableIsRowed == ASSUME TableOK PROVE Rowed(profiles)
BY DEF TableOK, Rowed

(* A call of one thread goes on, and those of the others are as they were.   *)
LEMMA TaskStep ==
  ASSUME TasksOK, NEW a \in Analyst, NEW k, task' = [task EXCEPT ![a] = k],
         born \subseteq born', TaskOK(k, born')
  PROVE  TasksOK'
<1>1. DOMAIN task' = Analyst  BY DEF TasksOK
<1>2. ASSUME NEW b \in Analyst PROVE TaskOK(task'[b], born')
  <2>1. CASE b = a  BY <2>1 DEF TasksOK
  <2>2. CASE b # a
    <3>1. task'[b] = task[b] /\ TaskOK(task[b], born)  BY <2>2 DEF TasksOK
    <3>2. TaskOK(task[b], born')  BY <3>1 DEF TaskOK
    <3> QED  BY <3>1, <3>2
  <2> QED  BY <2>1, <2>2
<1> QED  BY <1>1, <1>2 DEF TasksOK

(* A step that leaves the table alone.                                       *)
LEMMA TableIsKept ==
  ASSUME TableOK, ReturnsRecognised, UNCHANGED <<profiles, second, born, rewritten, unseen, since>>
  PROVE  TableOK' /\ ReturnsRecognised'
<1>1. TableOK'  BY DEF TableOK
<1>2. ReturnsRecognised'  BY DEF ReturnsRecognised
<1> QED  BY <1>1, <1>2

(* One row of the table changes, but for its metrics.                        *)
LEMMA TouchStep ==
  ASSUME TableOK, ReturnsRecognised, NEW p \in DOMAIN profiles, NEW row \in Row,
         row.metrics = profiles[p].metrics, profiles' = Rows(p, row),
         DOMAIN since' = ProfileId, Fits(row, since'[p]),
         \A q \in ProfileId \ {p} : since'[q] = since[q],
         UNCHANGED <<second, born, rewritten, unseen>>
  PROVE  TableOK' /\ ReturnsRecognised'
<1>1. /\ DOMAIN profiles' = DOMAIN profiles /\ profiles'[p] = row
      /\ \A q \in DOMAIN profiles : q # p => profiles'[q] = profiles[q]
  BY DEF Rows
<1>2. p \in ProfileId /\ DOMAIN profiles \subseteq ProfileId  BY DEF TableOK
<1>3. ASSUME NEW q \in DOMAIN profiles' PROVE profiles'[q] \in Row /\ Fits(profiles'[q], since'[q])
  <2>1. CASE q = p  BY <2>1, <1>1
  <2>2. CASE q # p  BY <2>2, <1>1, <1>2 DEF TableOK
  <2> QED  BY <2>1, <2>2
<1>4. ASSUME NEW q \in ProfileId \ DOMAIN profiles' PROVE since'[q] = << >>
  BY <1>1 DEF TableOK
<1>5. TableOK'  BY <1>1, <1>3, <1>4 DEF TableOK
<1>6. \A q \in DOMAIN profiles : profiles'[q].metrics = profiles[q].metrics  BY <1>1
<1>7. ReturnsRecognised'
  <2>1. ASSUME NEW x \in DOMAIN profiles' \ rewritten', NEW y \in DOMAIN profiles' \ rewritten', x # y,
               Score[profiles'[x].metrics, profiles'[y].metrics] >= MatchThreshold
        PROVE  x \in unseen'[y] \/ y \in unseen'[x]
    <3>1. x \in DOMAIN profiles \ rewritten /\ y \in DOMAIN profiles \ rewritten  BY <1>1
    <3>2. profiles'[x].metrics = profiles[x].metrics /\ profiles'[y].metrics = profiles[y].metrics
      BY <3>1, <1>6
    <3>3. Score[profiles[x].metrics, profiles[y].metrics] >= MatchThreshold  BY <2>1, <3>2
    <3>4. x \in unseen[y] \/ y \in unseen[x]  BY <2>1, <3>1, <3>3 DEF ReturnsRecognised
    <3> QED  BY <3>4
  <2> QED  BY <2>1 DEF ReturnsRecognised
<1> QED  BY <1>5, <1>7

(* A row is written, and what is left of the table is cut to its size.       *)
LEMMA WriteStep ==
  ASSUME TableOK, NEW p \in ProfileId, NEW row \in Row, profiles' = Written(p, row),
         born' = born \cup {p}, second' = second,
         DOMAIN since' = ProfileId, DOMAIN unseen' = ProfileId,
         p \in DOMAIN profiles' => Fits(row, since'[p]),
         p \notin DOMAIN profiles' => since'[p] = << >>,
         \A q \in ProfileId \ {p} : since'[q] = IF q \in DOMAIN profiles' THEN since[q] ELSE << >>
  PROVE  /\ TableOK'
         /\ DOMAIN profiles' \subseteq DOMAIN profiles \cup {p}
         /\ \A q \in DOMAIN profiles' : profiles'[q] = IF q = p THEN row ELSE profiles[q]
         /\ Rowed(Rows(p, row))
<1> DEFINE rows == Rows(p, row)  kept == FirstRows(rows, MaxProfiles)
<1>1. DOMAIN rows = DOMAIN profiles \cup {p}
      /\ \A q \in DOMAIN rows : rows[q] = IF q = p THEN row ELSE profiles[q]
  BY DEF Rows
<1>2. IsFiniteSet(DOMAIN rows)  BY <1>1, FS_AddElement DEF TableOK
<1>3. Rowed(rows)  BY <1>1, <1>2 DEF Rowed, TableOK
<1>4. profiles' = [q \in kept |-> rows[q]]  BY DEF Written, Restricted
<1> HIDE DEF rows
<1>5. kept \subseteq DOMAIN rows /\ IsFiniteSet(kept) /\ Cardinality(kept) <= MaxProfiles
  BY <1>3, Limits, FirstRowsResult
<1> HIDE DEF kept
<1>6. DOMAIN profiles' = kept /\ \A q \in kept : profiles'[q] = rows[q]  BY <1>4
<1>7. \A q \in DOMAIN profiles' : profiles'[q] = IF q = p THEN row ELSE profiles[q]
  BY <1>1, <1>5, <1>6
<1>8. ASSUME NEW q \in DOMAIN profiles' PROVE profiles'[q] \in Row /\ Fits(profiles'[q], since'[q])
  <2>1. CASE q = p  BY <2>1, <1>7
  <2>2. CASE q # p
    <3>1. q \in DOMAIN profiles /\ profiles'[q] = profiles[q]  BY <2>2, <1>1, <1>5, <1>6, <1>7
    <3>2. q \in ProfileId /\ since'[q] = since[q]  BY <2>2, <3>1 DEF TableOK
    <3> QED  BY <3>1, <3>2 DEF TableOK
  <2> QED  BY <2>1, <2>2
<1>9. ASSUME NEW q \in ProfileId \ DOMAIN profiles' PROVE since'[q] = << >>  OBVIOUS
<1>10. DOMAIN profiles' \subseteq DOMAIN profiles \cup {p}  BY <1>1, <1>5, <1>6
<1>11. DOMAIN profiles' \subseteq born' /\ born' \subseteq ProfileId  BY <1>10 DEF TableOK
<1>12. TableOK'  BY <1>5, <1>6, <1>8, <1>9, <1>11 DEF TableOK
<1> QED  BY <1>3, <1>7, <1>10, <1>12 DEF rows

(* What a row that is written again has alike with others is not claimed.    *)
LEMMA RewrittenStep ==
  ASSUME TableOK, ReturnsRecognised, NEW p,
         DOMAIN profiles' \subseteq DOMAIN profiles \cup {p},
         \A q \in DOMAIN profiles' : q # p => profiles'[q] = profiles[q],
         rewritten' = rewritten \cup {p}, unseen' = unseen
  PROVE  ReturnsRecognised'
<1>1. ASSUME NEW x \in DOMAIN profiles' \ rewritten', NEW y \in DOMAIN profiles' \ rewritten', x # y,
             Score[profiles'[x].metrics, profiles'[y].metrics] >= MatchThreshold
      PROVE  x \in unseen'[y] \/ y \in unseen'[x]
  <2>1. x \in DOMAIN profiles \ rewritten /\ y \in DOMAIN profiles \ rewritten /\ x # p /\ y # p
    OBVIOUS
  <2>2. profiles'[x] = profiles[x] /\ profiles'[y] = profiles[y]  BY <2>1
  <2>3. Score[profiles[x].metrics, profiles[y].metrics] >= MatchThreshold  BY <1>1, <2>2
  <2>4. x \in unseen[y] \/ y \in unseen[x]  BY <1>1, <2>1, <2>3 DEF ReturnsRecognised
  <2> QED  BY <2>4
<1> QED  BY <1>1 DEF ReturnsRecognised

(* No call is under way where there is none.                                 *)
LEMMA NoTaskIsFine == ASSUME NEW ids PROVE TaskOK(NoTask, ids)
BY DEF TaskOK, NoTask

(* A failed call, and one that leaves a note.                                *)
LEMMA LastTasks ==
  ASSUME NEW ids, NEW p
  PROVE  TaskOK([at |-> "failed", profile |-> p], ids) /\ TaskOK([at |-> "note", profile |-> p], ids)
BY DEF TaskOK

(* Looking for a match, and finding one or not.                              *)
LEMMA MatchVisitKeepsInv ==
  ASSUME ProfilesInv, NEW a \in Analyst, NEW v \in Visit, NEW m \in Metric, MatchVisit(a, v, m)
  PROVE  ProfilesInv'
<1> DEFINE known == {[profile |-> p, metrics |-> profiles[p].metrics] : p \in FirstRows(profiles, MaxListed)}
           k == [at |-> "create", visit |-> v, metrics |-> m, known |-> known]
<1>0. TableOK /\ TasksOK /\ ReturnsRecognised  BY DEF ProfilesInv
<1>1. UNCHANGED <<profiles, second, born, rewritten, unseen, since>>  BY DEF MatchVisit
<1>2. TableOK' /\ ReturnsRecognised'  BY <1>0, <1>1, TableIsKept
<1>3. CASE Best(m) = {}
  <2>1. task' = [task EXCEPT ![a] = k]  BY <1>3 DEF MatchVisit, BeginTask
  <2>2. \A p \in FirstRows(profiles, MaxListed) : Score[m, profiles[p].metrics] < MatchThreshold
    BY <1>0, <1>3, TableIsRowed, NothingIsAlike
  <2>3. ASSUME NEW x \in known PROVE Score[m, x.metrics] < MatchThreshold
    <3>1. PICK p \in FirstRows(profiles, MaxListed) : x = [profile |-> p, metrics |-> profiles[p].metrics]
      OBVIOUS
    <3>2. x.metrics = profiles[p].metrics  BY <3>1
    <3> QED  BY <2>2, <3>2
  <2> HIDE DEF known
  <2>4. TaskOK(k, born')  BY <2>3 DEF TaskOK
  <2> HIDE DEF k
  <2>5. TasksOK'  BY <1>0, <1>1, <2>1, <2>4, TaskStep
  <2> QED  BY <1>2, <2>5 DEF ProfilesInv
<1>4. CASE Best(m) # {}
  <2>0. PICK p \in Best(m) :
          \E t : task' = [task EXCEPT ![a] = [at |-> "join", visit |-> v, profile |-> p, seen |-> t]]
    BY <1>4 DEF MatchVisit, BeginTask
  <2>1. PICK t : task' = [task EXCEPT ![a] = [at |-> "join", visit |-> v, profile |-> p, seen |-> t]]
    BY <2>0
  <2>2. TaskOK([at |-> "join", visit |-> v, profile |-> p, seen |-> t], born')  BY DEF TaskOK
  <2>3. TasksOK'  BY <1>0, <1>1, <2>1, <2>2, TaskStep
  <2> QED  BY <1>2, <2>3 DEF ProfilesInv
<1> QED  BY <1>3, <1>4

(* add_session.                                                              *)
LEMMA JoinProfileKeepsInv ==
  ASSUME ProfilesInv, NEW a \in Analyst, JoinProfile(a)
  PROVE  ProfilesInv'
<1> DEFINE p == task[a].profile  v == task[a].visit
           k == IF task[a].at = "join" /\ p \notin DOMAIN profiles THEN [at |-> "failed", profile |-> p]
                ELSE IF task[a].at = "rejoin" /\ task[a].changed THEN [at |-> "note", profile |-> p]
                ELSE NoTask
<1>0. TableOK /\ TasksOK /\ ReturnsRecognised  BY DEF ProfilesInv
<1>1. task' = [task EXCEPT ![a] = k] /\ UNCHANGED <<second, born, rewritten, unseen>>
  BY DEF JoinProfile, Go
<1>2. TaskOK(k, born')  BY NoTaskIsFine, LastTasks
<1>3. v \in Visit  BY <1>0 DEF TasksOK, TaskOK, JoinProfile
<1> HIDE DEF k
<1>4. TasksOK'  BY <1>0, <1>1, <1>2, TaskStep
<1>5. TableOK' /\ ReturnsRecognised'
  <2>1. CASE p \notin DOMAIN profiles
    <3>1. UNCHANGED <<profiles, since>>  BY <2>1 DEF JoinProfile
    <3> QED  BY <1>0, <1>1, <3>1, TableIsKept
  <2>2. CASE p \in DOMAIN profiles
    <3> DEFINE row == profiles[p]  next == WithVisit(row, v)  s == SinceThen(row, since[p], v)
    <3>1. profiles' = Rows(p, next) /\ since' = [since EXCEPT ![p] = Answered(p, v)]
      BY <2>2 DEF JoinProfile
    <3>2. Answered(p, v) = s  BY <2>2 DEF Answered, SinceThen
    <3>3. row \in Row /\ Fits(row, since[p]) /\ second \in Nat /\ p \in ProfileId
      BY <1>0, <2>2 DEF TableOK
    <3>4. next \in Row /\ Fits(next, s)  BY <3>3, <1>3, KnownVisit, NewVisit
    <3>5. next.metrics = row.metrics  BY <3>3 DEF WithVisit, Row
    <3>6. /\ DOMAIN since' = ProfileId /\ since'[p] = s
          /\ \A q \in ProfileId \ {p} : since'[q] = since[q]
      BY <1>0, <3>1, <3>2, <3>3 DEF TableOK
    <3> HIDE DEF next, s
    <3>7. Fits(next, since'[p])  BY <3>4, <3>6
    <3> QED  BY <1>0, <1>1, <2>2, <3>1, <3>4, <3>5, <3>6, <3>7, TouchStep
  <2> QED  BY <2>1, <2>2
<1> QED  BY <1>4, <1>5 DEF ProfilesInv

(* A sequence of one.                                                        *)
LEMMA OneVisit == ASSUME NEW S, NEW x \in S PROVE <<x>> \in Seq(S)
OBVIOUS

(* What is at least a number is not below it.                                *)
LEMMA AtLeastIsNotBelow == \A x, y \in Nat : x >= y => ~(x < y)
OBVIOUS

(* The row of a profile that is created.                                      *)
CreatedRow(k) ==
  [skill |-> Skill[k.metrics], metrics |-> k.metrics,
   lastSeen |-> k.seen, sessions |-> <<k.visit>>, notes |-> 0]

LEMMA CreatedIsRow ==
  ASSUME NEW k, NEW ids, TaskOK(k, ids), k.at = "insert"
  PROVE  CreatedRow(k) \in Row /\ CreatedRow(k).lastSeen = k.seen
<1>1. k.visit \in Visit /\ k.metrics \in Metric /\ k.seen \in Nat  BY DEF TaskOK
<1>2. 0 \in 0 .. MaxNotes  BY Limits
<1>3. <<k.visit>> \in Seq(Visit)  BY <1>1, OneVisit
<1>4. Skill[k.metrics] \in Nat  BY <1>1, ProfilesAssumption
<1> QED  BY <1>1, <1>2, <1>3, <1>4 DEF Row, CreatedRow

(* The time is taken.                                                        *)
LEMMA StampProfileKeepsInv ==
  ASSUME ProfilesInv, NEW a \in Analyst, StampProfile(a)
  PROVE  ProfilesInv'
<1> DEFINE k == [at |-> "insert", visit |-> task[a].visit, metrics |-> task[a].metrics,
                 known |-> task[a].known, seen |-> second]
<1>0. TableOK /\ TasksOK /\ ReturnsRecognised  BY DEF ProfilesInv
<1>1. task' = [task EXCEPT ![a] = k] /\ UNCHANGED <<profiles, second, born, rewritten, unseen, since>>
  BY DEF StampProfile, Go
<1>2. TaskOK(task[a], born) /\ task[a].at = "create" /\ second \in Nat
  BY <1>0 DEF TasksOK, TableOK, StampProfile
<1>3. TaskOK(k, born')  BY <1>2 DEF TaskOK
<1> HIDE DEF k
<1>4. TasksOK'  BY <1>0, <1>1, <1>3, TaskStep
<1>5. TableOK' /\ ReturnsRecognised'  BY <1>0, <1>1, TableIsKept
<1> QED  BY <1>4, <1>5 DEF ProfilesInv

(* create_profile: the new row is like none the creator saw.                 *)
LEMMA CreateProfileKeepsInv ==
  ASSUME ProfilesInv, NEW a \in Analyst, CreateProfile(a)
  PROVE  ProfilesInv'
<1> DEFINE k == task[a]
           row == CreatedRow(k)
           others(p) == {q \in DOMAIN profiles :
                           [profile |-> q, metrics |-> profiles[q].metrics] \notin k.known}
           next(p) == IF p \in DOMAIN profiles' THEN NoTask ELSE [at |-> "failed", profile |-> p]
<1>0. TableOK /\ TasksOK /\ ReturnsRecognised  BY DEF ProfilesInv
<1>1. PICK p \in ProfileId \ born :
        /\ profiles' = Written(p, row)
        /\ born' = born \cup {p}
        /\ unseen' = [unseen EXCEPT ![p] = others(p)]
        /\ since' = [Forgotten(profiles') EXCEPT ![p] =
                       IF p \in DOMAIN profiles' THEN Answered(p, k.visit) ELSE << >>]
        /\ task' = [task EXCEPT ![a] = next(p)]
  BY DEF CreateProfile, Go, CreatedRow
<1>2. second' = second /\ rewritten' = rewritten  BY DEF CreateProfile
<1>3. /\ k.visit \in Visit /\ k.metrics \in Metric
      /\ \A known \in k.known : Score[k.metrics, known.metrics] < MatchThreshold
  BY <1>0 DEF TasksOK, TaskOK, CreateProfile
<1>4. p \notin DOMAIN profiles /\ p \in ProfileId /\ second \in Nat  BY <1>0, <1>1 DEF TableOK
<1>5. row \in Row
  <2>1. TaskOK(k, born) /\ k.at = "insert"  BY <1>0 DEF TasksOK, CreateProfile
  <2> HIDE DEF k
  <2> QED  BY <2>1, CreatedIsRow
<1>6. /\ DOMAIN since' = ProfileId
      /\ since'[p] = IF p \in DOMAIN profiles' THEN [x \in {k.visit} |-> {}] ELSE << >>
      /\ \A q \in ProfileId \ {p} : since'[q] = IF q \in DOMAIN profiles' THEN since[q] ELSE << >>
  BY <1>1, <1>4 DEF Forgotten, Answered
<1>7. Fits(row, [x \in {k.visit} |-> {}])
  <2> DEFINE s == [x \in {k.visit} |-> {}]
  <2>1. /\ Len(row.sessions) = 1 /\ DOMAIN row.sessions = 1 .. 1 /\ row.sessions[1] = k.visit
        /\ Len(row.sessions) <= MaxSessionsOf
    BY Limits DEF CreatedRow
  <2>2. 1 .. 1 = {1}  OBVIOUS
  <2>3. Of(row.sessions) = {k.visit}  BY <2>1, <2>2 DEF Of
  <2>4. DOMAIN s = {k.visit} /\ \A x \in DOMAIN s : s[x] = {}  OBVIOUS
  <2> HIDE DEF row, s
  <2>5. \A i, j \in DOMAIN row.sessions : ~(i < j)  BY <2>1, <2>2
  <2>6. Fits(row, s)  BY <2>1, <2>3, <2>4, <2>5, FS_EmptySet DEF Fits
  <2> QED  BY <2>6 DEF s
<1>8. DOMAIN unseen' = ProfileId  BY <1>0, <1>1 DEF TableOK
<1> HIDE DEF row
<1>9. /\ TableOK' /\ DOMAIN profiles' \subseteq DOMAIN profiles \cup {p}
      /\ \A q \in DOMAIN profiles' : profiles'[q] = IF q = p THEN row ELSE profiles[q]
  <2>1. p \in DOMAIN profiles' => Fits(row, since'[p])  BY <1>6, <1>7
  <2>2. p \notin DOMAIN profiles' => since'[p] = << >>  BY <1>6
  <2> QED  BY <1>0, <1>1, <1>2, <1>4, <1>5, <1>6, <1>8, <2>1, <2>2, WriteStep
<1>10. TasksOK'
  <2>1. TaskOK(next(p), born')  BY NoTaskIsFine, LastTasks
  <2>2. born \subseteq born'  BY <1>1
  <2> HIDE DEF next
  <2> QED  BY <1>0, <1>1, <2>1, <2>2, TaskStep
<1>11. \A q \in DOMAIN profiles \ others(p) : Score[k.metrics, profiles[q].metrics] < MatchThreshold
  <2> TAKE q \in DOMAIN profiles \ others(p)
  <2>1. [profile |-> q, metrics |-> profiles[q].metrics] \in k.known  OBVIOUS
  <2> QED  BY <2>1, <1>3
<1>12. \A q \in DOMAIN profiles : profiles[q].metrics \in Metric  BY <1>0 DEF TableOK, Row
<1>13. ASSUME NEW q \in DOMAIN profiles' \ rewritten', q # p,
              Score[k.metrics, profiles'[q].metrics] >= MatchThreshold
       PROVE  q \in unseen'[p]
  <2>1. q \in DOMAIN profiles /\ profiles'[q] = profiles[q]  BY <1>9, <1>13
  <2>2. Score[k.metrics, profiles[q].metrics] \in Nat /\ MatchThreshold \in Nat
    BY <2>1, <1>3, <1>12, ProfilesAssumption
  <2>3. ~(Score[k.metrics, profiles[q].metrics] < MatchThreshold)  BY <1>13, <2>1, <2>2, AtLeastIsNotBelow
  <2>4. q \in others(p)  BY <2>1, <2>3, <1>11
  <2> HIDE DEF others
  <2>5. unseen'[p] = others(p)  BY <1>0, <1>1 DEF TableOK
  <2> QED  BY <2>4, <2>5
<1> HIDE DEF others
<1>14. row.metrics = k.metrics  BY DEF row, CreatedRow
<1>15. ReturnsRecognised'
  <2>1. ASSUME NEW x \in DOMAIN profiles' \ rewritten', NEW y \in DOMAIN profiles' \ rewritten', x # y,
               Score[profiles'[x].metrics, profiles'[y].metrics] >= MatchThreshold
        PROVE  x \in unseen'[y] \/ y \in unseen'[x]
    <3>1. CASE x = p
      <4>1. profiles'[x].metrics = k.metrics  BY <3>1, <1>9, <1>14
      <4>2. y \in unseen'[p]  BY <2>1, <3>1, <4>1, <1>13
      <4> QED  BY <3>1, <4>2
    <3>2. CASE y = p
      <4>1. profiles'[y].metrics = k.metrics  BY <3>2, <1>9, <1>14
      <4>2. x \in DOMAIN profiles /\ profiles'[x] = profiles[x]  BY <2>1, <3>2, <1>9
      <4>3. Score[k.metrics, profiles'[x].metrics] = Score[profiles'[x].metrics, profiles'[y].metrics]
        BY <4>1, <4>2, <1>3, <1>12, ProfilesAssumption
      <4>4. x \in unseen'[p]  BY <2>1, <3>2, <4>3, <1>13
      <4> QED  BY <3>2, <4>4
    <3>3. CASE x # p /\ y # p
      <4>1. /\ x \in DOMAIN profiles \ rewritten /\ y \in DOMAIN profiles \ rewritten
            /\ profiles'[x] = profiles[x] /\ profiles'[y] = profiles[y]
        BY <3>3, <1>2, <1>9
      <4>2. x \in unseen[y] \/ y \in unseen[x]  BY <2>1, <4>1 DEF ReturnsRecognised, ProfilesInv
      <4>3. unseen'[x] = unseen[x] /\ unseen'[y] = unseen[y]
        BY <3>3, <4>1, <1>0, <1>1 DEF TableOK
      <4> QED  BY <4>2, <4>3
    <3> QED  BY <3>1, <3>2, <3>3
  <2> QED  BY <2>1 DEF ReturnsRecognised
<1> QED  BY <1>9, <1>10, <1>15 DEF ProfilesInv

(* What upsert_profile writes.                                               *)
Upserted(p, skill, m, lastSeen) ==
  IF p \in DOMAIN profiles
  THEN [profiles[p] EXCEPT !.skill = skill, !.metrics = m,
                           !.lastSeen = IF @ > lastSeen THEN @ ELSE lastSeen]
  ELSE [skill |-> skill, metrics |-> m, lastSeen |-> lastSeen, sessions |-> << >>, notes |-> 0]

(* No visit, and none known of before.                                       *)
LEMMA NothingFits ==
  ASSUME NEW row, row.sessions = << >>
  PROVE  Fits(row, << >>)
<1>1. Len(<< >>) = 0 /\ DOMAIN << >> = {}  OBVIOUS
<1>2. DOMAIN row.sessions = {} /\ Of(row.sessions) = {}  BY <1>1 DEF Of
<1>3. Len(row.sessions) <= MaxSessionsOf  BY <1>1, Limits
<1> QED  BY <1>1, <1>2, <1>3 DEF Fits

(* It is a row, with the visits it had.                                      *)
LEMMA UpsertedRow ==
  ASSUME TableOK, NEW p \in ProfileId, NEW skill \in Nat, NEW m \in Metric, NEW t \in Nat
  PROVE  Upserted(p, skill, m, t) \in Row /\ Fits(Upserted(p, skill, m, t), since[p])
<1> DEFINE row == Upserted(p, skill, m, t)
<1>1. CASE p \in DOMAIN profiles
  <2>1. profiles[p] \in Row /\ Fits(profiles[p], since[p])  BY <1>1 DEF TableOK
  <2>2. row \in Row /\ row.sessions = profiles[p].sessions  BY <1>1, <2>1 DEF Upserted, Row
  <2> HIDE DEF row
  <2>3. Fits(row, since[p])  BY <2>1, <2>2 DEF Fits
  <2> QED  BY <2>2, <2>3 DEF row
<1>2. CASE p \notin DOMAIN profiles
  <2>1. since[p] = << >>  BY <1>2 DEF TableOK
  <2>2. row = [skill |-> skill, metrics |-> m, lastSeen |-> t, sessions |-> << >>, notes |-> 0]
    BY <1>2 DEF Upserted
  <2>3. << >> \in Seq(Visit) /\ 0 \in 0 .. MaxNotes  BY Limits
  <2>4. row \in Row /\ row.sessions = << >>  BY <2>2, <2>3 DEF Row
  <2> HIDE DEF row
  <2>5. Fits(row, since[p])  BY <2>1, <2>4, NothingFits
  <2> QED  BY <2>4, <2>5 DEF row
<1> QED  BY <1>1, <1>2

(* upsert_profile, of a profile that had a row or is imported.               *)
LEMMA UpsertStep ==
  ASSUME TableOK, ReturnsRecognised, NEW p \in ProfileId,
         NEW skill \in Nat, NEW m \in Metric, NEW t \in Nat,
         profiles' = Upsert(p, skill, m, t), Overwritten(p), born' = born \cup {p}
  PROVE  TableOK' /\ ReturnsRecognised'
<1> DEFINE row == Upserted(p, skill, m, t)
<1>1. profiles' = Written(p, row)  BY DEF Upsert, Upserted
<1>2. row \in Row /\ Fits(row, since[p])  BY UpsertedRow
<1>3. /\ DOMAIN since' = ProfileId
      /\ \A q \in ProfileId : since'[q] = IF q \in DOMAIN profiles' THEN since[q] ELSE << >>
  BY DEF Overwritten, Forgotten
<1>4. second' = second /\ rewritten' = rewritten \cup {p} /\ unseen' = unseen  BY DEF Overwritten
<1>5. DOMAIN unseen' = ProfileId  BY <1>4 DEF TableOK
<1> HIDE DEF row
<1>6. /\ TableOK' /\ DOMAIN profiles' \subseteq DOMAIN profiles \cup {p}
      /\ \A q \in DOMAIN profiles' : profiles'[q] = IF q = p THEN row ELSE profiles[q]
  <2>1. p \in DOMAIN profiles' => Fits(row, since'[p])  BY <1>2, <1>3
  <2>2. p \notin DOMAIN profiles' => since'[p] = << >>  BY <1>3
  <2>3. \A q \in ProfileId \ {p} : since'[q] = IF q \in DOMAIN profiles' THEN since[q] ELSE << >>
    BY <1>3
  <2> QED  BY <1>1, <1>2, <1>3, <1>4, <1>5, <2>1, <2>2, <2>3, WriteStep
<1>7. \A q \in DOMAIN profiles' : q # p => profiles'[q] = profiles[q]  BY <1>6
<1>8. ReturnsRecognised'  BY <1>4, <1>6, <1>7, RewrittenStep
<1> QED  BY <1>6, <1>8

(* reclassify_session reads a profile.                                       *)
LEMMA ResolveProfileKeepsInv ==
  ASSUME ProfilesInv, NEW a \in Analyst, NEW v \in Visit, NEW m \in Metric, ResolveProfile(a, v, m)
  PROVE  ProfilesInv'
<1>0. TableOK /\ TasksOK /\ ReturnsRecognised  BY DEF ProfilesInv
<1>1. UNCHANGED <<profiles, second, born, rewritten, unseen, since>>  BY DEF ResolveProfile
<1>2. PICK p \in DOMAIN profiles :
        task' = [task EXCEPT ![a] = [at |-> "rewrite", profile |-> p, visit |-> v, metrics |-> m,
                                     lastSeen |-> profiles[p].lastSeen,
                                     changed |-> profiles[p].skill # Skill[m]]]
  BY DEF ResolveProfile, BeginTask
<1> DEFINE k == [at |-> "rewrite", profile |-> p, visit |-> v, metrics |-> m,
                 lastSeen |-> profiles[p].lastSeen, changed |-> profiles[p].skill # Skill[m]]
<1>3. p \in born /\ profiles[p].lastSeen \in Nat  BY <1>0, <1>2 DEF TableOK, Row
<1>4. TaskOK(k, born')  BY <1>1, <1>3 DEF TaskOK
<1>5. TasksOK'
  <2>1. task' = [task EXCEPT ![a] = k]  BY <1>2
  <2> HIDE DEF k
  <2> QED  BY <1>0, <1>1, <1>4, <2>1, TaskStep
<1>6. TableOK' /\ ReturnsRecognised'  BY <1>0, <1>1, TableIsKept
<1> QED  BY <1>5, <1>6 DEF ProfilesInv

(* It writes what it read.                                                   *)
LEMMA RewriteProfileKeepsInv ==
  ASSUME ProfilesInv, NEW a \in Analyst, RewriteProfile(a)
  PROVE  ProfilesInv'
<1> DEFINE t == task[a]  p == t.profile
           k == IF p \in DOMAIN profiles'
                THEN [at |-> "rejoin", profile |-> p, visit |-> t.visit, changed |-> t.changed]
                ELSE [at |-> "failed", profile |-> p]
<1>0. TableOK /\ TasksOK /\ ReturnsRecognised  BY DEF ProfilesInv
<1>1. /\ profiles' = Upsert(p, Skill[t.metrics], t.metrics, t.lastSeen)
      /\ Overwritten(p) /\ task' = [task EXCEPT ![a] = k] /\ born' = born
  BY DEF RewriteProfile, Go
<1>2. p \in born /\ t.visit \in Visit /\ t.metrics \in Metric /\ t.lastSeen \in Nat
  BY <1>0 DEF TasksOK, TaskOK, RewriteProfile
<1>3. p \in ProfileId /\ born' = born \cup {p}  BY <1>0, <1>1, <1>2 DEF TableOK
<1>4. TaskOK(k, born')
  <2>1. TaskOK([at |-> "rejoin", profile |-> p, visit |-> t.visit, changed |-> t.changed], born')
    BY <1>2 DEF TaskOK
  <2> QED  BY <2>1, LastTasks
<1> HIDE DEF k
<1>5. TasksOK'  BY <1>0, <1>1, <1>4, TaskStep
<1>6. Skill[t.metrics] \in Nat  BY <1>2, ProfilesAssumption
<1> HIDE DEF t, p
<1>7. TableOK' /\ ReturnsRecognised'  BY <1>0, <1>1, <1>2, <1>3, <1>6, UpsertStep
<1> QED  BY <1>5, <1>7 DEF ProfilesInv

(* An import writes the first of the profiles that are left.                 *)
LEMMA ImportProfileKeepsInv ==
  ASSUME ProfilesInv, NEW a \in Analyst, ImportProfile(a)
  PROVE  ProfilesInv'
<1> DEFINE rows == task[a].rows  row == Head(rows)  p == row.id
           k == IF p \in DOMAIN profiles' THEN [at |-> "mark", rows |-> rows]
                ELSE [at |-> "failed", profile |-> p]
<1>0. TableOK /\ TasksOK /\ ReturnsRecognised  BY DEF ProfilesInv
<1>1. /\ profiles' = Upsert(p, row.skill, row.metrics, row.lastSeen)
      /\ Overwritten(p) /\ task' = [task EXCEPT ![a] = k] /\ born' = born \cup {p}
  BY DEF ImportProfile, Go
<1>2. rows \in Seq(ImportRow) /\ rows # << >>  BY <1>0 DEF TasksOK, TaskOK, ImportProfile
<1>3. row \in ImportRow
  <2> HIDE DEF rows
  <2> QED  BY <1>2
<1>4. p \in ProfileId /\ row.skill \in Nat /\ row.metrics \in Metric /\ row.lastSeen \in Nat
  BY <1>3 DEF ImportRow
<1>5. TaskOK(k, born')
  <2>1. TaskOK([at |-> "mark", rows |-> rows], born')  BY <1>2 DEF TaskOK
  <2> QED  BY <2>1, LastTasks
<1> HIDE DEF k
<1>6. TasksOK'  BY <1>0, <1>1, <1>5, TaskStep
<1> HIDE DEF row, p
<1>7. TableOK' /\ ReturnsRecognised'  BY <1>0, <1>1, <1>4, UpsertStep
<1> QED  BY <1>6, <1>7 DEF ProfilesInv

(* add_note.                                                                 *)
LEMMA NotedStep ==
  ASSUME TableOK, ReturnsRecognised, NEW p, profiles' = Noted(p),
         UNCHANGED <<second, born, rewritten, unseen, since>>
  PROVE  TableOK' /\ ReturnsRecognised'
<1>1. CASE p \notin DOMAIN profiles
  <2>1. profiles' = profiles  BY <1>1 DEF Noted
  <2> QED  BY <2>1, TableIsKept
<1>2. CASE p \in DOMAIN profiles
  <2> DEFINE row == [profiles[p] EXCEPT !.notes = LessOf(@ + 1, MaxNotes), !.lastSeen = second]
  <2>1. profiles[p] \in Row /\ Fits(profiles[p], since[p]) /\ second \in Nat /\ p \in ProfileId
    BY <1>2 DEF TableOK
  <2>2. \A n \in 0 .. MaxNotes : LessOf(n + 1, MaxNotes) \in 0 .. MaxNotes  BY Limits DEF LessOf
  <2>3. LessOf(profiles[p].notes + 1, MaxNotes) \in 0 .. MaxNotes  BY <2>1, <2>2 DEF Row
  <2>4. row \in Row /\ row.sessions = profiles[p].sessions /\ row.metrics = profiles[p].metrics
    BY <2>1, <2>3 DEF Row
  <2>5. profiles' = Rows(p, row)  BY <1>2 DEF Noted
  <2> HIDE DEF row
  <2>6. Fits(row, since'[p])  BY <2>1, <2>4 DEF Fits
  <2>7. DOMAIN since' = ProfileId /\ \A q \in ProfileId \ {p} : since'[q] = since[q]  BY DEF TableOK
  <2> QED  BY <1>2, <2>4, <2>5, <2>6, <2>7, TouchStep
<1> QED  BY <1>1, <1>2

(* The notes, imports that begin or go on, and the end of a failed call.     *)
LEMMA NotesKeepInv ==
  ASSUME ProfilesInv, NEW a \in Analyst,
         NoteChange(a) \/ AddNote(a) \/ MarkImported(a) \/ Fail(a)
           \/ \E payload \in Import : BeginImport(a, payload)
  PROVE  ProfilesInv'
<1>0. TableOK /\ TasksOK /\ ReturnsRecognised  BY DEF ProfilesInv
<1>1. UNCHANGED <<second, born, rewritten, unseen, since>>
  BY DEF NoteChange, AddNote, MarkImported, Fail, BeginImport
<1>2. CASE NoteChange(a)
  <2>1. profiles' = Noted(task[a].profile) /\ task' = [task EXCEPT ![a] = NoTask]
    BY <1>2 DEF NoteChange, Go
  <2>2. TableOK' /\ ReturnsRecognised'  BY <1>0, <1>1, <2>1, NotedStep
  <2>3. TasksOK'  BY <1>0, <1>1, <2>1, NoTaskIsFine, TaskStep
  <2> QED  BY <2>2, <2>3 DEF ProfilesInv
<1>3. CASE AddNote(a)
  <2>1. PICK p \in DOMAIN profiles : profiles' = Noted(p)  BY <1>3 DEF AddNote
  <2>2. task' = [task EXCEPT ![a] = NoTask]  BY <1>3 DEF AddNote, BeginTask
  <2>3. TableOK' /\ ReturnsRecognised'  BY <1>0, <1>1, <2>1, NotedStep
  <2>4. TasksOK'  BY <1>0, <1>1, <2>2, NoTaskIsFine, TaskStep
  <2> QED  BY <2>3, <2>4 DEF ProfilesInv
<1>4. CASE MarkImported(a)
  <2> DEFINE rows == task[a].rows
             k == IF Len(rows) > 1 THEN [at |-> "import", rows |-> Tail(rows)] ELSE NoTask
  <2>1. profiles' = Noted(Head(rows).id) /\ task' = [task EXCEPT ![a] = k]
    BY <1>4 DEF MarkImported, Go
  <2>2. TableOK' /\ ReturnsRecognised'  BY <1>0, <1>1, <2>1, NotedStep
  <2>3. rows \in Seq(ImportRow) /\ rows # << >>  BY <1>0, <1>4 DEF TasksOK, TaskOK, MarkImported
  <2>4. TaskOK(k, born')
    <3>1. CASE Len(rows) > 1
      <4>1. Tail(rows) \in Seq(ImportRow) /\ Len(Tail(rows)) = Len(rows) - 1
        <5> HIDE DEF rows
        <5> QED  BY <2>3
      <4>2. Tail(rows) # << >>
        <5> HIDE DEF rows
        <5>1. Len(rows) \in Nat  BY <2>3
        <5>2. Len(Tail(rows)) # 0  BY SMTT(30), <3>1, <4>1, <5>1
        <5>3. Len(<< >>) = 0  OBVIOUS
        <5> QED  BY <5>2, <5>3
      <4>3. TaskOK([at |-> "import", rows |-> Tail(rows)], born')  BY <4>1, <4>2 DEF TaskOK
      <4> QED  BY <3>1, <4>3
    <3>2. CASE ~(Len(rows) > 1)  BY <3>2, NoTaskIsFine
    <3> QED  BY <3>1, <3>2
  <2> HIDE DEF k
  <2>5. TasksOK'  BY <1>0, <1>1, <2>1, <2>4, TaskStep
  <2> QED  BY <2>2, <2>5 DEF ProfilesInv
<1>5. CASE Fail(a)
  <2>1. profiles' = profiles /\ task' = [task EXCEPT ![a] = NoTask]  BY <1>5 DEF Fail, Go
  <2>2. TableOK' /\ ReturnsRecognised'  BY <1>0, <1>1, <2>1, TableIsKept
  <2>3. TasksOK'  BY <1>0, <1>1, <2>1, NoTaskIsFine, TaskStep
  <2> QED  BY <2>2, <2>3 DEF ProfilesInv
<1>6. CASE \E payload \in Import : BeginImport(a, payload)
  <2>1. PICK payload \in Import : BeginImport(a, payload)  BY <1>6
  <2> DEFINE k == [at |-> "import", rows |-> payload]
  <2>2. profiles' = profiles /\ task' = [task EXCEPT ![a] = k]  BY <2>1 DEF BeginImport, BeginTask
  <2>3. payload \in Seq(ImportRow) /\ payload # << >>  BY ProfilesAssumption DEF ImportRow
  <2>4. TaskOK(k, born')  BY <2>3 DEF TaskOK
  <2> HIDE DEF k
  <2>5. TableOK' /\ ReturnsRecognised'  BY <1>0, <1>1, <2>2, TableIsKept
  <2>6. TasksOK'  BY <1>0, <1>1, <2>2, <2>4, TaskStep
  <2> QED  BY <2>5, <2>6 DEF ProfilesInv
<1> QED  BY <1>2, <1>3, <1>4, <1>5, <1>6

(* Every step keeps the invariant.                                           *)
LEMMA ProfilesStepInv == ProfilesInv /\ [ProfilesNext]_profileVars => ProfilesInv'
<1> SUFFICES ASSUME ProfilesInv, [ProfilesNext]_profileVars PROVE ProfilesInv'
  OBVIOUS
<1>1. CASE UNCHANGED profileVars
  BY <1>1 DEF ProfilesInv, TableOK, TasksOK, ReturnsRecognised, profileVars
<1>2. CASE NextSecond
  <2>1. TableOK'  BY <1>2 DEF ProfilesInv, TableOK, NextSecond
  <2>2. TasksOK' /\ ReturnsRecognised'
    BY <1>2 DEF ProfilesInv, TasksOK, ReturnsRecognised, NextSecond
  <2> QED  BY <2>1, <2>2 DEF ProfilesInv
<1>3. ASSUME NEW a \in Analyst, NEW v \in Visit, NEW m \in Metric,
             MatchVisit(a, v, m) \/ ResolveProfile(a, v, m)
      PROVE  ProfilesInv'
  BY <1>3, MatchVisitKeepsInv, ResolveProfileKeepsInv
<1>4. ASSUME NEW a \in Analyst, JoinProfile(a) \/ StampProfile(a) \/ CreateProfile(a)
      PROVE  ProfilesInv'
  BY <1>4, JoinProfileKeepsInv, StampProfileKeepsInv, CreateProfileKeepsInv
<1>5. ASSUME NEW a \in Analyst, RewriteProfile(a) \/ ImportProfile(a) PROVE ProfilesInv'
  BY <1>5, RewriteProfileKeepsInv, ImportProfileKeepsInv
<1>6. ASSUME NEW a \in Analyst,
             NoteChange(a) \/ AddNote(a) \/ MarkImported(a) \/ Fail(a)
               \/ \E payload \in Import : BeginImport(a, payload)
      PROVE  ProfilesInv'
  BY <1>6, NotesKeepInv
<1> QED  BY <1>1, <1>2, <1>3, <1>4, <1>5, <1>6 DEF ProfilesNext

(* Different elements of a sequence are as many as it is long.               *)
LEMMA AllDifferent ==
  ASSUME NEW S, NEW q \in Seq(S), \A i, j \in DOMAIN q : i < j => q[i] # q[j]
  PROVE  Cardinality(Of(q)) = Len(q)
<1> DEFINE n == Len(q)  T == Of(q)
<1>1. n \in Nat /\ DOMAIN q = 1 .. n  OBVIOUS
<1>2. T = {q[i] : i \in 1 .. n}  BY <1>1 DEF Of
<1>3. \A i, j \in 1 .. n : q[i] = q[j] => i = j
  <2> TAKE i, j \in 1 .. n
  <2>1. i \in Nat /\ j \in Nat  BY <1>1
  <2>2. i < j \/ j < i \/ i = j  BY <2>1
  <2> QED  BY <2>2, <1>1
<1> DEFINE f == [i \in 1 .. n |-> q[i]]
<1> HIDE DEF n
<1>4. f \in Surjection(1 .. n, T)  BY <1>2 DEF Surjection
<1>5. f \in Injection(1 .. n, T)  BY <1>2, <1>3 DEF Injection, IsInjective
<1> HIDE DEF f, T
<1>6. IsFiniteSet(1 .. n) /\ Cardinality(1 .. n) = n
  <2>1. 1 \in Int /\ n \in Int  BY <1>1
  <2>2. IsFiniteSet(1 .. n) /\ Cardinality(1 .. n) = IF 1 > n THEN 0 ELSE n - 1 + 1
    BY <2>1, FS_Interval
  <2> QED  BY <1>1, <2>2
<1>7. Cardinality(T) = Cardinality(1 .. n)  BY <1>4, <1>5, <1>6, FS_Surjection
<1> QED  BY <1>6, <1>7 DEF n, T

(* What the invariant says of the limits and of the visits.                  *)
LEMMA InvBounds == ASSUME ProfilesInv PROVE ProfilesBounded /\ VisitsKept /\ ReturnsRecognised
<1>0. TableOK /\ ReturnsRecognised  BY DEF ProfilesInv
<1>1. ASSUME NEW p \in DOMAIN profiles
      PROVE  /\ Len(profiles[p].sessions) <= MaxSessionsOf /\ profiles[p].notes <= MaxNotes
             /\ Cardinality(Of(profiles[p].sessions)) = Len(profiles[p].sessions)
             /\ \A v \in DOMAIN since[p] :
                  v \in Of(profiles[p].sessions) \/ Cardinality(since[p][v]) >= MaxSessionsOf
  <2>1. profiles[p] \in Row /\ Fits(profiles[p], since[p])  BY <1>0 DEF TableOK
  <2>2. profiles[p].sessions \in Seq(Visit) /\ profiles[p].notes <= MaxNotes
    BY <2>1, Limits DEF Row
  <2> DEFINE q == profiles[p].sessions
  <2>3. q \in Seq(Visit) /\ \A i, j \in DOMAIN q : i < j => q[i] # q[j]  BY <2>1, <2>2 DEF Fits
  <2> HIDE DEF q
  <2>4. Cardinality(Of(q)) = Len(q)  BY <2>3, AllDifferent
  <2> QED  BY <2>1, <2>2, <2>4 DEF Fits, q
<1>2. ProfilesBounded  BY <1>0, <1>1 DEF ProfilesBounded, TableOK
<1>3. VisitsKept  BY <1>1 DEF VisitsKept
<1> QED  BY <1>0, <1>2, <1>3

(* The thread whose call changes is the one that takes the step, and it goes on *)
(* from where it was.                                                         *)
LEMMA FailingStep ==
  ASSUME ProfilesInv, [ProfilesNext]_profileVars, NEW a \in Analyst,
         task[a].at \in {"insert", "join"}, task'[a].at = "failed"
  PROVE  JoinProfile(a) \/ CreateProfile(a)
<1>0. TableOK /\ TasksOK  BY DEF ProfilesInv
<1>1. task'[a] # task[a]  OBVIOUS
<1>2. task[a] # NoTask /\ DOMAIN task = Analyst  BY <1>0 DEF NoTask, TasksOK
<1>3. ~ NextSecond /\ ~ UNCHANGED profileVars  BY <1>1 DEF NextSecond, profileVars
<1>4. PICK b \in Analyst :
        \/ \E v \in Visit, m \in Metric : MatchVisit(b, v, m) \/ ResolveProfile(b, v, m)
        \/ JoinProfile(b) \/ StampProfile(b) \/ CreateProfile(b) \/ RewriteProfile(b) \/ NoteChange(b)
        \/ AddNote(b) \/ (\E payload \in Import : BeginImport(b, payload))
        \/ ImportProfile(b) \/ MarkImported(b) \/ Fail(b)
  BY <1>3 DEF ProfilesNext
<1>5. \E k : task' = [task EXCEPT ![b] = k]
  BY <1>4 DEF MatchVisit, ResolveProfile, JoinProfile, StampProfile, CreateProfile, RewriteProfile,
     NoteChange, AddNote, BeginImport, ImportProfile, MarkImported, Fail, BeginTask, Go
<1>6. a = b  BY <1>1, <1>2, <1>5
<1>7. \A v \in Visit, m \in Metric : ~ MatchVisit(b, v, m) /\ ~ ResolveProfile(b, v, m)
  BY <1>2, <1>6 DEF MatchVisit, ResolveProfile, BeginTask
<1>8. ~ AddNote(b) /\ \A payload \in Import : ~ BeginImport(b, payload)
  BY <1>2, <1>6 DEF AddNote, BeginImport, BeginTask
<1>9. ~ StampProfile(b) /\ ~ RewriteProfile(b) /\ ~ NoteChange(b) /\ ~ ImportProfile(b)
      /\ ~ MarkImported(b) /\ ~ Fail(b)
  BY <1>6 DEF StampProfile, RewriteProfile, NoteChange, ImportProfile, MarkImported, Fail
<1> QED  BY <1>4, <1>6, <1>7, <1>8, <1>9

(* A creation fails only when as many as the table holds come before it.     *)
LEMMA FailureNeedsFullTable ==
  ASSUME ProfilesInv, [ProfilesNext]_profileVars, NEW a \in Analyst,
         task[a].at = "insert", task'[a].at = "failed"
  PROVE  Cardinality({p \in DOMAIN profiles : profiles[p].lastSeen >= task[a].seen}) >= MaxProfiles
<1>0. TableOK /\ TasksOK  BY DEF ProfilesInv
<1>2. CreateProfile(a)
  <2>1. ~ JoinProfile(a)  BY DEF JoinProfile
  <2> QED  BY <2>1, FailingStep
<1> DEFINE k == task[a]
           row == CreatedRow(k)  t == k.seen
<1>3. PICK p \in ProfileId \ born :
        /\ profiles' = Written(p, row)
        /\ task' = [task EXCEPT ![a] = IF p \in DOMAIN profiles' THEN NoTask
                                       ELSE [at |-> "failed", profile |-> p]]
  BY <1>2 DEF CreateProfile, Go, CreatedRow
<1>4. p \notin DOMAIN profiles'  BY <1>0, <1>3 DEF TasksOK, NoTask
<1>5. TaskOK(k, born)  BY <1>0 DEF TasksOK
<1>6. row \in Row /\ row.lastSeen = t /\ t \in Nat
  <2>1. k.at = "insert"  OBVIOUS
  <2>2. k.seen \in Nat  BY <1>5, <2>1 DEF TaskOK
  <2>3. CreatedRow(k) \in Row /\ CreatedRow(k).lastSeen = k.seen
    <3> HIDE DEF k
    <3> QED  BY <1>5, <2>1, CreatedIsRow
  <2> QED  BY <2>2, <2>3
<1> HIDE DEF row, t
<1> DEFINE rows == Rows(p, row)
           B == {q \in DOMAIN rows : Before(rows, q, p)}
           C == {q \in DOMAIN profiles : profiles[q].lastSeen >= t}
<1>7. /\ DOMAIN rows = DOMAIN profiles \cup {p} /\ p \notin DOMAIN profiles
      /\ \A q \in DOMAIN rows : rows[q] = IF q = p THEN row ELSE profiles[q]
  BY <1>0, <1>3 DEF Rows, TableOK
<1>8. DOMAIN profiles' = FirstRows(rows, MaxProfiles)  BY <1>3 DEF Written, Restricted
<1>9. Rowed(rows)
  <2>1. IsFiniteSet(DOMAIN rows)  BY <1>0, <1>7, FS_AddElement DEF TableOK
  <2>2. DOMAIN rows \subseteq ProfileId /\ \A q \in DOMAIN rows : rows[q] \in Row
    BY <1>0, <1>3, <1>6, <1>7 DEF TableOK
  <2> QED  BY <2>1, <2>2 DEF Rowed
<1> HIDE DEF rows
<1>10. Cardinality(B) \in Nat /\ Cardinality(B) >= MaxProfiles
  <2>1. p \in DOMAIN rows /\ p \notin FirstRows(rows, MaxProfiles) /\ MaxProfiles \in Nat
    BY <1>4, <1>7, <1>8, Limits
  <2> QED  BY <2>1, <1>9, OthersAreBehind
<1>11. B \in SUBSET C
  <2>1. ASSUME NEW q \in DOMAIN rows, Before(rows, q, p) PROVE q \in C
    <3>1. rows[q].lastSeen \in Nat /\ rows[p].lastSeen = t /\ t \in Nat /\ q \in Nat /\ p \in Nat
      BY <1>0, <1>3, <1>6, <1>7, <1>9, ProfilesAssumption DEF Rowed, Row, TableOK
    <3>2. q # p /\ rows[q].lastSeen >= t  BY <2>1, <3>1 DEF Before
    <3>3. q \in DOMAIN profiles /\ rows[q] = profiles[q]  BY <1>7, <3>2
    <3> QED  BY <3>2, <3>3
  <2> HIDE DEF C
  <2> QED  BY <2>1
<1>12. C \in SUBSET DOMAIN profiles  OBVIOUS
<1> HIDE DEF B, C
<1>13. IsFiniteSet(C) /\ Cardinality(C) \in Nat  BY <1>0, <1>12, FS_Subset, FS_CardinalityType DEF TableOK
<1>14. Cardinality(B) <= Cardinality(C)  BY <1>11, <1>13, FS_Subset
<1>15. Cardinality(C) >= MaxProfiles  BY <1>10, <1>13, <1>14, Limits
<1> QED  BY <1>15 DEF C, t

----------------------------------------------------------------------------
(* A profile that was found stays, seen no earlier than when it was found, or *)
(* the table is full of such profiles.                                       *)
AsNew(rows, p, t) ==
  \/ p \in DOMAIN rows /\ rows[p].lastSeen >= t
  \/ Cardinality(DOMAIN rows) >= MaxProfiles /\ \A q \in DOMAIN rows : rows[q].lastSeen >= t

JoinsOK ==
  \A a \in Analyst : task[a].at = "join" =>
    task[a].seen \in 0 .. second /\ AsNew(profiles, task[a].profile, task[a].seen)

AllCarry == \A p : \A t \in 0 .. second : AsNew(profiles, p, t) => AsNew(profiles', p, t)

(* A row with the time of now is as new as any.                              *)
LEMMA TouchCarries ==
  ASSUME TableOK, NEW x \in DOMAIN profiles, NEW row, row.lastSeen = second, profiles' = Rows(x, row)
  PROVE  AllCarry
<1>1. /\ DOMAIN profiles' = DOMAIN profiles
      /\ \A q \in DOMAIN profiles : profiles'[q] = IF q = x THEN row ELSE profiles[q]
  BY DEF Rows
<1>2. \A t \in 0 .. second : \A q \in DOMAIN profiles :
        profiles[q].lastSeen >= t => profiles'[q].lastSeen >= t
  <2> TAKE t \in 0 .. second
  <2> TAKE q \in DOMAIN profiles
  <2>1. second >= t  BY DEF TableOK
  <2>2. CASE q = x  BY <2>1, <2>2, <1>1
  <2>3. CASE q # x  BY <2>3, <1>1
  <2> QED  BY <2>2, <2>3
<1>3. ASSUME NEW p, NEW t \in 0 .. second, AsNew(profiles, p, t) PROVE AsNew(profiles', p, t)
  BY <1>1, <1>2, <1>3 DEF AsNew
<1> QED  BY <1>3 DEF AllCarry

(* When a row too many is written, the others fill the table.                *)
LEMMA KeptFill ==
  ASSUME NEW rows, Rowed(rows), NEW n \in Nat,
         Cardinality(DOMAIN rows) >= n, Cardinality(DOMAIN rows) <= n + 1
  PROVE  Cardinality(FirstRows(rows, n)) >= n
<1> DEFINE S == DOMAIN rows  R == BeforePairs(rows)  F == FirstRows(rows, n)
           rank(x) == Cardinality(Preceding(S, R, x))
<1>1. Orders(R, S) /\ IsFiniteSet(S)  BY RowsAreOrdered DEF Rowed
<1>2. F = {x \in S : rank(x) < n}  BY RowsBefore DEF FirstRows
<1>3. IsFiniteSet(F) /\ Cardinality(F) \in Nat /\ Cardinality(S) \in Nat
  <2>1. F \in SUBSET S  BY <1>2
  <2> HIDE DEF F
  <2> QED  BY <1>1, <2>1, FS_Subset, FS_CardinalityType
<1>4. CASE F = S  BY <1>4
<1>5. CASE F # S
  <2>1. PICK z \in S : z \notin F  BY <1>2, <1>5
  <2> DEFINE P == Preceding(S, R, z)
  <2>2. P \in SUBSET S /\ z \notin P  BY <1>1 DEF Preceding, Orders
  <2>3. ~(Cardinality(P) < n)  BY <1>2, <2>1
  <2>4. \A q \in P : q \in S /\ <<q, z>> \in R  BY DEF Preceding
  <2> HIDE DEF P, F, S, R
  <2>5. P \in SUBSET (S \ {z})  BY <2>2
  <2>6. IsFiniteSet(S \ {z}) /\ Cardinality(S \ {z}) = Cardinality(S) - 1  BY <1>1, <2>1, FS_RemoveElement
  <2>7. IsFiniteSet(P) /\ Cardinality(P) <= Cardinality(S \ {z}) /\ Cardinality(P) \in Nat
    BY <2>5, <2>6, FS_Subset, FS_CardinalityType
  <2>8. Cardinality(P) <= n /\ Cardinality(P) >= n  BY <1>3, <2>3, <2>6, <2>7 DEF S
  <2>9. ASSUME NEW q \in P PROVE q \in F
    <3>1. q \in S /\ <<q, z>> \in R  BY <2>4
    <3>2. rank(q) \in Nat /\ rank(z) \in Nat /\ rank(q) < rank(z)  BY <1>1, <2>1, <3>1, RankGrows
    <3>3. rank(z) <= n  BY <2>8 DEF P
    <3> HIDE DEF rank
    <3>4. rank(q) < n  BY <3>2, <3>3
    <3> QED  BY <1>2, <3>1, <3>4
  <2>10. Cardinality(P) <= Cardinality(F)
    <3>1. P \in SUBSET F  BY <2>9
    <3> QED  BY <1>3, <3>1, FS_Subset
  <2> QED  BY <1>3, <2>7, <2>8, <2>10 DEF F
<1> QED  BY <1>4, <1>5

(* A row that was dropped was behind as many as are kept.                     *)
LEMMA DroppedForOthers ==
  ASSUME NEW rows, Rowed(rows), NEW n \in Nat, NEW t \in Nat,
         NEW p \in DOMAIN rows, rows[p].lastSeen >= t, p \notin FirstRows(rows, n)
  PROVE  Cardinality({q \in DOMAIN rows : rows[q].lastSeen >= t}) >= n
<1> DEFINE B == {q \in DOMAIN rows : Before(rows, q, p)}
           G == {q \in DOMAIN rows : rows[q].lastSeen >= t}
<1>1. Cardinality(B) \in Nat /\ Cardinality(B) >= n  BY OthersAreBehind
<1>2. \A q \in DOMAIN rows : rows[q].lastSeen \in Nat  BY DEF Rowed, Row
<1>3. ASSUME NEW q \in DOMAIN rows, Before(rows, q, p) PROVE rows[q].lastSeen >= t
  <2>1. rows[q].lastSeen >= rows[p].lastSeen  BY <1>2, <1>3 DEF Before
  <2> QED  BY <1>2, <2>1
<1>4. B \in SUBSET G  BY <1>3
<1>5. G \in SUBSET DOMAIN rows  OBVIOUS
<1> HIDE DEF B, G
<1>6. IsFiniteSet(G) /\ Cardinality(G) \in Nat  BY <1>5, FS_Subset, FS_CardinalityType DEF Rowed
<1>7. Cardinality(B) <= Cardinality(G)  BY <1>4, <1>6, FS_Subset
<1>8. Cardinality(G) >= n  BY <1>1, <1>6, <1>7
<1> QED  BY <1>8 DEF G

(* What is kept is as new as the others are, if they would fill the table.    *)
LEMMA KeptAreAsNew ==
  ASSUME NEW rows, Rowed(rows), NEW n \in Nat, NEW t \in Nat,
         Cardinality({q \in DOMAIN rows : rows[q].lastSeen >= t}) >= n,
         NEW p \in FirstRows(rows, n)
  PROVE  rows[p].lastSeen >= t
<1> DEFINE B == {q \in DOMAIN rows : Before(rows, q, p)}
           G == {q \in DOMAIN rows : rows[q].lastSeen >= t}
<1> SUFFICES ASSUME ~(rows[p].lastSeen >= t) PROVE FALSE  OBVIOUS
<1>1. p \in DOMAIN rows /\ Cardinality(B) < n  BY DEF FirstRows
<1>2. \A q \in DOMAIN rows : rows[q].lastSeen \in Nat  BY DEF Rowed, Row
<1>3. ASSUME NEW q \in DOMAIN rows, rows[q].lastSeen >= t PROVE Before(rows, q, p)
  <2>1. rows[q].lastSeen > rows[p].lastSeen  BY <1>1, <1>2, <1>3
  <2> QED  BY <2>1 DEF Before
<1>4. G \in SUBSET B  BY <1>3
<1>5. B \in SUBSET DOMAIN rows  OBVIOUS
<1>6. Cardinality(G) >= n  OBVIOUS
<1> HIDE DEF B, G
<1>7. IsFiniteSet(B) /\ Cardinality(B) \in Nat  BY <1>5, FS_Subset, FS_CardinalityType DEF Rowed
<1>8. IsFiniteSet(G) /\ Cardinality(G) <= Cardinality(B) /\ Cardinality(G) \in Nat
  BY <1>4, <1>7, FS_Subset, FS_CardinalityType
<1> QED  BY <1>1, <1>6, <1>7, <1>8

(* A row is written, no older than the one it replaces.                      *)
LEMMA WriteCarries ==
  ASSUME TableOK, NEW x \in ProfileId, NEW row \in Row, profiles' = Written(x, row),
         x \in DOMAIN profiles => row.lastSeen >= profiles[x].lastSeen
  PROVE  AllCarry
<1> DEFINE rows == Rows(x, row)  n == MaxProfiles  kept == FirstRows(rows, n)
           G(t) == {q \in DOMAIN rows : rows[q].lastSeen >= t}
<1>1. /\ DOMAIN rows = DOMAIN profiles \cup {x}
      /\ \A q \in DOMAIN rows : rows[q] = IF q = x THEN row ELSE profiles[q]
  BY DEF Rows
<1>2. /\ IsFiniteSet(DOMAIN profiles) /\ Cardinality(DOMAIN profiles) \in Nat
      /\ Cardinality(DOMAIN profiles) <= n /\ n \in Nat
      /\ \A q \in DOMAIN profiles : profiles[q] \in Row /\ q \in ProfileId
  BY Limits, FS_CardinalityType DEF TableOK
<1>3. /\ IsFiniteSet(DOMAIN rows) /\ Cardinality(DOMAIN rows) \in Nat
      /\ Cardinality(DOMAIN rows) <= n + 1
  <2> HIDE DEF rows, n
  <2>1. IsFiniteSet(DOMAIN profiles \cup {x})  BY <1>2, FS_AddElement
  <2>2. Cardinality(DOMAIN profiles \cup {x}) \in {Cardinality(DOMAIN profiles), Cardinality(DOMAIN profiles) + 1}
    BY <1>2, FS_AddElement
  <2>3. Cardinality(DOMAIN profiles \cup {x}) <= n + 1  BY <1>2, <2>2
  <2> QED  BY <1>1, <2>1, <2>3, FS_CardinalityType
<1>4. Rowed(rows)  BY <1>1, <1>2, <1>3 DEF Rowed
<1>5. /\ \A q \in DOMAIN rows : rows[q].lastSeen \in Nat
      /\ \A q \in DOMAIN profiles : profiles[q].lastSeen \in Nat /\ rows[q].lastSeen >= profiles[q].lastSeen
  BY <1>1, <1>2 DEF Row
<1>6. profiles' = [q \in kept |-> rows[q]]  BY DEF Written, Restricted
<1> HIDE DEF rows, n
<1>7. kept \subseteq DOMAIN rows  BY <1>2, <1>4, FirstRowsResult
<1> HIDE DEF kept
<1>8. DOMAIN profiles' = kept /\ \A q \in kept : profiles'[q] = rows[q]  BY <1>6
<1>9. ASSUME NEW p, NEW t \in 0 .. second, AsNew(profiles, p, t) PROVE AsNew(profiles', p, t)
  <2>1. t \in Nat  OBVIOUS
  <2>2. CASE p \in kept /\ rows[p].lastSeen >= t
    BY <2>2, <1>8 DEF AsNew
  <2>3. CASE ~(p \in kept /\ rows[p].lastSeen >= t)
    <3>1. Cardinality(G(t)) >= n
      <4>1. CASE p \in DOMAIN profiles /\ profiles[p].lastSeen >= t
        <5>1. p \in DOMAIN rows /\ rows[p].lastSeen >= t  BY <4>1, <1>1, <1>5, <2>1
        <5>2. p \notin FirstRows(rows, n)  BY <2>3, <5>1 DEF kept
        <5> QED  BY <5>1, <5>2, <2>1, <1>2, <1>4, DroppedForOthers
      <4>2. CASE Cardinality(DOMAIN profiles) >= n /\ \A q \in DOMAIN profiles : profiles[q].lastSeen >= t
        <5>1. ASSUME NEW q \in DOMAIN profiles PROVE q \in G(t)
          <6>1. profiles[q].lastSeen >= t /\ profiles[q].lastSeen \in Nat /\ rows[q].lastSeen \in Nat
                /\ rows[q].lastSeen >= profiles[q].lastSeen /\ q \in DOMAIN rows
            BY <4>2, <1>1, <1>5
          <6> QED  BY <2>1, <6>1
        <5>2. DOMAIN profiles \in SUBSET G(t) /\ G(t) \in SUBSET DOMAIN rows  BY <5>1
        <5> HIDE DEF G
        <5>3. IsFiniteSet(G(t)) /\ Cardinality(G(t)) \in Nat  BY <5>2, <1>3, FS_Subset, FS_CardinalityType
        <5>4. Cardinality(DOMAIN profiles) <= Cardinality(G(t))  BY <5>2, <5>3, FS_Subset
        <5> QED  BY <4>2, <5>3, <5>4, <1>2
      <4> QED  BY <1>9, <4>1, <4>2 DEF AsNew, n
    <3>2. \A q \in kept : rows[q].lastSeen >= t
      BY <3>1, <2>1, <1>2, <1>4, KeptAreAsNew DEF kept
    <3>3. Cardinality(DOMAIN rows) >= n
      <4>1. G(t) \in SUBSET DOMAIN rows  OBVIOUS
      <4> HIDE DEF G
      <4>2. IsFiniteSet(G(t)) /\ Cardinality(G(t)) <= Cardinality(DOMAIN rows) /\ Cardinality(G(t)) \in Nat
        BY <4>1, <1>3, FS_Subset, FS_CardinalityType
      <4> QED  BY <3>1, <4>2, <1>2, <1>3
    <3>4. Cardinality(kept) >= n  BY <3>3, <1>2, <1>3, <1>4, KeptFill DEF kept
    <3>5. /\ Cardinality(DOMAIN profiles') >= MaxProfiles
          /\ \A q \in DOMAIN profiles' : profiles'[q].lastSeen >= t
      BY <3>2, <3>4, <1>8 DEF n
    <3> QED  BY <3>5 DEF AsNew
  <2> QED  BY <2>2, <2>3
<1> QED  BY <1>9 DEF AllCarry

(* upsert_profile keeps the later time.                                      *)
LEMMA UpsertCarries ==
  ASSUME TableOK, NEW p \in ProfileId, NEW skill \in Nat, NEW m \in Metric, NEW t \in Nat,
         profiles' = Upsert(p, skill, m, t)
  PROVE  AllCarry
<1> DEFINE row == Upserted(p, skill, m, t)
<1>1. profiles' = Written(p, row)  BY DEF Upsert, Upserted
<1>2. row \in Row  BY UpsertedRow
<1>3. ASSUME p \in DOMAIN profiles PROVE row.lastSeen >= profiles[p].lastSeen
  <2>1. PICK old \in Row : old = profiles[p]  BY <1>3 DEF TableOK
  <2>2. row.lastSeen = IF old.lastSeen > t THEN old.lastSeen ELSE t  BY <1>3, <2>1 DEF Upserted, Row
  <2>3. old.lastSeen \in Nat  BY DEF Row
  <2> HIDE DEF row
  <2> QED  BY <2>1, <2>2, <2>3
<1> HIDE DEF row
<1> QED  BY <1>1, <1>2, <1>3, WriteCarries

(* add_note.                                                                 *)
LEMMA NotedCarries ==
  ASSUME TableOK, NEW p, profiles' = Noted(p)
  PROVE  AllCarry
<1>1. CASE p \notin DOMAIN profiles
  <2>1. profiles' = profiles  BY <1>1 DEF Noted
  <2> QED  BY <2>1 DEF AllCarry
<1>2. CASE p \in DOMAIN profiles
  <2> DEFINE row == [profiles[p] EXCEPT !.notes = LessOf(@ + 1, MaxNotes), !.lastSeen = second]
  <2>1. profiles[p] \in Row  BY <1>2 DEF TableOK
  <2>2. row.lastSeen = second  BY <2>1 DEF Row
  <2>3. profiles' = Rows(p, row)  BY <1>2 DEF Noted
  <2> HIDE DEF row
  <2> QED  BY <1>2, <2>2, <2>3, TouchCarries
<1> QED  BY <1>1, <1>2

(* One thread goes on, and does not find a profile unless it is there.        *)
LEMMA JoinsStep ==
  ASSUME TasksOK, JoinsOK, AllCarry, second' = second, NEW a \in Analyst, NEW k,
         task' = [task EXCEPT ![a] = k],
         k.at = "join" => k.seen \in 0 .. second /\ AsNew(profiles', k.profile, k.seen)
  PROVE  JoinsOK'
<1>1. ASSUME NEW b \in Analyst, task'[b].at = "join"
      PROVE  task'[b].seen \in 0 .. second' /\ AsNew(profiles', task'[b].profile, task'[b].seen)
  <2>1. CASE b = a
    <3>1. task'[b] = k  BY <2>1 DEF TasksOK
    <3> QED  BY <1>1, <3>1
  <2>2. CASE b # a
    <3>1. task'[b] = task[b]  BY <2>2 DEF TasksOK
    <3>2. task[b].seen \in 0 .. second /\ AsNew(profiles, task[b].profile, task[b].seen)
      BY <1>1, <3>1 DEF JoinsOK
    <3>3. AsNew(profiles', task[b].profile, task[b].seen)  BY <3>2 DEF AllCarry
    <3> QED  BY <3>1, <3>2, <3>3
  <2> QED  BY <2>1, <2>2
<1> QED  BY <1>1 DEF JoinsOK

(* What is found is in the table.                                            *)
LEMMA MatchKeepsJoins ==
  ASSUME ProfilesInv, JoinsOK, NEW a \in Analyst, NEW v \in Visit, NEW m \in Metric, MatchVisit(a, v, m)
  PROVE  JoinsOK'
<1>0. TableOK /\ TasksOK /\ Rowed(profiles)  BY TableIsRowed DEF ProfilesInv
<1>1. profiles' = profiles /\ second' = second  BY DEF MatchVisit
<1>2. AllCarry  BY <1>1 DEF AllCarry
<1>3. CASE Best(m) = {}
  <2>1. PICK s : task' = [task EXCEPT ![a] = [at |-> "create", visit |-> v, metrics |-> m, known |-> s]]
    BY <1>3 DEF MatchVisit, BeginTask
  <2> DEFINE k == [at |-> "create", visit |-> v, metrics |-> m, known |-> s]
  <2>2. task' = [task EXCEPT ![a] = k] /\ k.at # "join"  BY <2>1
  <2> HIDE DEF k
  <2> QED  BY <1>0, <1>1, <1>2, <2>2, JoinsStep
<1>4. CASE Best(m) # {}
  <2>1. PICK p \in Best(m) :
          task' = [task EXCEPT ![a] = [at |-> "join", visit |-> v, profile |-> p,
                                       seen |-> LessOf(profiles[p].lastSeen, second)]]
    BY <1>4 DEF MatchVisit, BeginTask
  <2>2. p \in DOMAIN profiles
    <3>1. p \in FirstRows(profiles, MaxListed)  BY DEF Best
    <3> QED  BY <1>0, <3>1, Limits, FirstRowsResult
  <2>3. PICK l \in Nat : l = profiles[p].lastSeen  BY <1>0, <2>2 DEF Rowed, Row
  <2>4. PICK t : t = LessOf(l, second)  OBVIOUS
  <2>5. second \in Nat  BY <1>0 DEF TableOK
  <2>6. t \in 0 .. second /\ l >= t  BY <2>4, <2>5 DEF LessOf
  <2>7. AsNew(profiles', p, t)  BY <1>1, <2>2, <2>3, <2>6 DEF AsNew
  <2> DEFINE k == [at |-> "join", visit |-> v, profile |-> p, seen |-> t]
  <2>8. task' = [task EXCEPT ![a] = k]  BY <2>1, <2>3, <2>4
  <2>9. k.profile = p /\ k.seen = t  OBVIOUS
  <2> HIDE DEF k
  <2> QED  BY <1>0, <1>1, <1>2, <2>6, <2>7, <2>8, <2>9, JoinsStep
<1> QED  BY <1>3, <1>4

(* add_session and create_profile.                                           *)
LEMMA VisitsKeepJoins ==
  ASSUME ProfilesInv, JoinsOK, NEW a \in Analyst, JoinProfile(a) \/ CreateProfile(a)
  PROVE  JoinsOK'
<1>0. TableOK /\ TasksOK  BY DEF ProfilesInv
<1>1. CASE JoinProfile(a)
  <2> DEFINE p == task[a].profile
             k == IF task[a].at = "join" /\ p \notin DOMAIN profiles THEN [at |-> "failed", profile |-> p]
                  ELSE IF task[a].at = "rejoin" /\ task[a].changed THEN [at |-> "note", profile |-> p]
                  ELSE NoTask
  <2>1. task' = [task EXCEPT ![a] = k] /\ second' = second  BY <1>1 DEF JoinProfile, Go
  <2>2. k.at # "join"  BY DEF NoTask
  <2>3. AllCarry
    <3>1. CASE p \notin DOMAIN profiles
      <4>1. profiles' = profiles  BY <1>1, <3>1 DEF JoinProfile
      <4> QED  BY <4>1 DEF AllCarry
    <3>2. CASE p \in DOMAIN profiles
      <4> DEFINE row == WithVisit(profiles[p], task[a].visit)
      <4>1. profiles' = Rows(p, row)  BY <1>1, <3>2 DEF JoinProfile
      <4>2. profiles[p] \in Row  BY <1>0, <3>2 DEF TableOK
      <4>3. row.lastSeen = second  BY <4>2 DEF WithVisit, Row
      <4> HIDE DEF row
      <4> QED  BY <1>0, <3>2, <4>1, <4>3, TouchCarries
    <3> QED  BY <3>1, <3>2
  <2> HIDE DEF k
  <2> QED  BY <1>0, <2>1, <2>2, <2>3, JoinsStep
<1>2. CASE CreateProfile(a)
  <2> DEFINE row == CreatedRow(task[a])
             k(p) == IF p \in DOMAIN profiles' THEN NoTask ELSE [at |-> "failed", profile |-> p]
  <2>1. PICK p \in ProfileId \ born : profiles' = Written(p, row) /\ task' = [task EXCEPT ![a] = k(p)]
    BY <1>2 DEF CreateProfile, Go, CreatedRow
  <2>2. second' = second /\ TaskOK(task[a], born) /\ task[a].at = "insert"
    BY <1>0, <1>2 DEF CreateProfile, TasksOK
  <2>3. row \in Row  BY <2>2, CreatedIsRow
  <2>4. p \notin DOMAIN profiles  BY <1>0 DEF TableOK
  <2>5. k(p).at # "join"  BY DEF NoTask
  <2> HIDE DEF row, k
  <2>6. AllCarry  BY <1>0, <2>1, <2>3, <2>4, WriteCarries
  <2> QED  BY <1>0, <2>1, <2>2, <2>5, <2>6, JoinsStep
<1> QED  BY <1>1, <1>2

(* upsert_profile, of a reclassification or an import.                       *)
LEMMA UpsertsKeepJoins ==
  ASSUME ProfilesInv, JoinsOK, NEW a \in Analyst, RewriteProfile(a) \/ ImportProfile(a)
  PROVE  JoinsOK'
<1>0. TableOK /\ TasksOK  BY DEF ProfilesInv
<1>1. CASE RewriteProfile(a)
  <2> DEFINE t == task[a]  p == t.profile
             k == IF p \in DOMAIN profiles'
                  THEN [at |-> "rejoin", profile |-> p, visit |-> t.visit, changed |-> t.changed]
                  ELSE [at |-> "failed", profile |-> p]
  <2>1. /\ profiles' = Upsert(p, Skill[t.metrics], t.metrics, t.lastSeen)
        /\ task' = [task EXCEPT ![a] = k] /\ second' = second
    BY <1>1 DEF RewriteProfile, Overwritten, Go
  <2>2. p \in born /\ t.metrics \in Metric /\ t.lastSeen \in Nat
    BY <1>0, <1>1 DEF TasksOK, TaskOK, RewriteProfile
  <2>3. p \in ProfileId /\ Skill[t.metrics] \in Nat  BY <1>0, <2>2, ProfilesAssumption DEF TableOK
  <2>4. k.at # "join"  OBVIOUS
  <2> HIDE DEF k, t, p
  <2>5. AllCarry  BY <1>0, <2>1, <2>2, <2>3, UpsertCarries
  <2> QED  BY <1>0, <2>1, <2>4, <2>5, JoinsStep
<1>2. CASE ImportProfile(a)
  <2> DEFINE rows == task[a].rows  row == Head(rows)  p == row.id
             k == IF p \in DOMAIN profiles' THEN [at |-> "mark", rows |-> rows]
                  ELSE [at |-> "failed", profile |-> p]
  <2>1. /\ profiles' = Upsert(p, row.skill, row.metrics, row.lastSeen)
        /\ task' = [task EXCEPT ![a] = k] /\ second' = second
    BY <1>2 DEF ImportProfile, Overwritten, Go
  <2>2. rows \in Seq(ImportRow) /\ rows # << >>  BY <1>0, <1>2 DEF TasksOK, TaskOK, ImportProfile
  <2>3. row \in ImportRow
    <3> HIDE DEF rows
    <3> QED  BY <2>2
  <2>4. p \in ProfileId /\ row.skill \in Nat /\ row.metrics \in Metric /\ row.lastSeen \in Nat
    BY <2>3 DEF ImportRow
  <2>5. k.at # "join"  OBVIOUS
  <2> HIDE DEF k, row, p
  <2>6. AllCarry  BY <1>0, <2>1, <2>4, UpsertCarries
  <2> QED  BY <1>0, <2>1, <2>5, <2>6, JoinsStep
<1> QED  BY <1>1, <1>2

(* Steps that write no row but for a note.                                   *)
LEMMA NotesKeepJoins ==
  ASSUME ProfilesInv, JoinsOK, NEW a \in Analyst,
         \/ NoteChange(a) \/ AddNote(a) \/ MarkImported(a) \/ Fail(a) \/ StampProfile(a)
         \/ \E payload \in Import : BeginImport(a, payload)
         \/ \E v \in Visit, m \in Metric : ResolveProfile(a, v, m)
  PROVE  JoinsOK'
<1>0. TableOK /\ TasksOK  BY DEF ProfilesInv
<1>1. second' = second
  BY DEF NoteChange, AddNote, MarkImported, Fail, StampProfile, BeginImport, ResolveProfile
<1>2. AllCarry
  <2>1. CASE profiles' = profiles  BY <2>1 DEF AllCarry
  <2>2. CASE \E p : profiles' = Noted(p)  BY <1>0, <2>2, NotedCarries
  <2>3. profiles' = profiles \/ \E p : profiles' = Noted(p)
    BY DEF NoteChange, AddNote, MarkImported, Fail, StampProfile, BeginImport, ResolveProfile
  <2> QED  BY <2>1, <2>2, <2>3
<1>3. \E k : task' = [task EXCEPT ![a] = k] /\ k.at # "join"
  <2>1. CASE NoteChange(a) \/ AddNote(a) \/ Fail(a)
    <3> DEFINE k == NoTask
    <3>1. task' = [task EXCEPT ![a] = k]
      BY <2>1 DEF NoteChange, AddNote, Fail, BeginTask, Go
    <3>2. k.at # "join"  BY DEF NoTask
    <3> HIDE DEF k
    <3> QED  BY <3>1, <3>2
  <2>2. CASE MarkImported(a)
    <3> DEFINE rows == task[a].rows
               k == IF Len(rows) > 1 THEN [at |-> "import", rows |-> Tail(rows)] ELSE NoTask
    <3>1. task' = [task EXCEPT ![a] = k]  BY <2>2 DEF MarkImported, Go
    <3>2. k.at # "join"  BY DEF NoTask
    <3> HIDE DEF k
    <3> QED  BY <3>1, <3>2
  <2>3. CASE StampProfile(a)
    <3> DEFINE k == [at |-> "insert", visit |-> task[a].visit, metrics |-> task[a].metrics,
                     known |-> task[a].known, seen |-> second]
    <3>1. task' = [task EXCEPT ![a] = k] /\ k.at # "join"  BY <2>3 DEF StampProfile, Go
    <3> HIDE DEF k
    <3> QED  BY <3>1
  <2>4. CASE \E payload \in Import : BeginImport(a, payload)
    <3>1. PICK payload \in Import :
            task' = [task EXCEPT ![a] = [at |-> "import", rows |-> payload]]
      BY <2>4 DEF BeginImport, BeginTask
    <3> DEFINE k == [at |-> "import", rows |-> payload]
    <3>2. task' = [task EXCEPT ![a] = k] /\ k.at # "join"  BY <3>1
    <3> HIDE DEF k
    <3> QED  BY <3>2
  <2>5. CASE \E v \in Visit, m \in Metric : ResolveProfile(a, v, m)
    <3>1. PICK v \in Visit, m \in Metric, p \in DOMAIN profiles :
            task' = [task EXCEPT ![a] = [at |-> "rewrite", profile |-> p, visit |-> v, metrics |-> m,
                                         lastSeen |-> profiles[p].lastSeen,
                                         changed |-> profiles[p].skill # Skill[m]]]
      BY <2>5 DEF ResolveProfile, BeginTask
    <3> DEFINE k == [at |-> "rewrite", profile |-> p, visit |-> v, metrics |-> m,
                     lastSeen |-> profiles[p].lastSeen, changed |-> profiles[p].skill # Skill[m]]
    <3>2. task' = [task EXCEPT ![a] = k] /\ k.at # "join"  BY <3>1
    <3> HIDE DEF k
    <3> QED  BY <3>2
  <2> QED  BY <2>1, <2>2, <2>3, <2>4, <2>5
<1>4. PICK k : task' = [task EXCEPT ![a] = k] /\ k.at # "join"  BY <1>3
<1> QED  BY <1>0, <1>1, <1>2, <1>4, JoinsStep

(* Every step keeps what the calls that found a profile rely on.              *)
LEMMA JoinsStepInv == ProfilesInv /\ JoinsOK /\ [ProfilesNext]_profileVars => JoinsOK'
<1> SUFFICES ASSUME ProfilesInv, JoinsOK, [ProfilesNext]_profileVars PROVE JoinsOK'
  OBVIOUS
<1>1. CASE UNCHANGED profileVars  BY <1>1 DEF JoinsOK, profileVars
<1>2. CASE NextSecond
  <2>1. second \in Nat  BY DEF ProfilesInv, TableOK
  <2>2. \A t \in 0 .. second : t \in 0 .. second + 1  BY <2>1
  <2> QED  BY <1>2, <2>2 DEF JoinsOK, NextSecond
<1>3. ASSUME NEW a \in Analyst, NEW v \in Visit, NEW m \in Metric,
             MatchVisit(a, v, m) \/ ResolveProfile(a, v, m)
      PROVE  JoinsOK'
  BY <1>3, MatchKeepsJoins, NotesKeepJoins
<1>4. ASSUME NEW a \in Analyst,
             JoinProfile(a) \/ CreateProfile(a) \/ RewriteProfile(a) \/ ImportProfile(a)
      PROVE  JoinsOK'
  BY <1>4, VisitsKeepJoins, UpsertsKeepJoins
<1>5. ASSUME NEW a \in Analyst,
             NoteChange(a) \/ AddNote(a) \/ MarkImported(a) \/ Fail(a) \/ StampProfile(a)
               \/ \E payload \in Import : BeginImport(a, payload)
      PROVE  JoinsOK'
  BY <1>5, NotesKeepJoins
<1> QED  BY <1>1, <1>2, <1>3, <1>4, <1>5 DEF ProfilesNext

(* A visit whose profile is gone finds the table full of profiles as new.    *)
LEMMA LostProfileNeedsFullTable ==
  ASSUME ProfilesInv, JoinsOK, [ProfilesNext]_profileVars, NEW a \in Analyst,
         task[a].at = "join", task'[a].at = "failed"
  PROVE  Cardinality({p \in DOMAIN profiles : profiles[p].lastSeen >= task[a].seen}) >= MaxProfiles
<1>1. JoinProfile(a)
  <2>1. ~ CreateProfile(a)  BY DEF CreateProfile
  <2> QED  BY <2>1, FailingStep
<1>2. task[a].profile \notin DOMAIN profiles
  BY <1>1 DEF JoinProfile, Go, NoTask, ProfilesInv, TasksOK
<1>3. AsNew(profiles, task[a].profile, task[a].seen)  BY DEF JoinsOK
<1>4. /\ Cardinality(DOMAIN profiles) >= MaxProfiles
      /\ \A q \in DOMAIN profiles : profiles[q].lastSeen >= task[a].seen
  BY <1>2, <1>3 DEF AsNew
<1>5. {p \in DOMAIN profiles : profiles[p].lastSeen >= task[a].seen} = DOMAIN profiles  BY <1>4
<1> QED  BY <1>4, <1>5

(* The table of profiles stays within its limits, a visit answered to be of  *)
(* a profile stays with it until as many others came as are kept, visitors   *)
(* who return are recognised but for the races that are named, and recording *)
(* one fails only when the table is full of profiles seen no earlier than    *)
(* its own.                                                                  *)
THEOREM ProfilesAlwaysHold == ProfilesSpec => ProfilesHold
<1>1. ProfilesInit => ProfilesInv /\ JoinsOK
  BY ProfilesInitInv DEF ProfilesInit, JoinsOK, NoTask
<1>2. ProfilesInv /\ JoinsOK /\ [ProfilesNext]_profileVars => ProfilesInv' /\ JoinsOK'
  BY ProfilesStepInv, JoinsStepInv
<1>3. ProfilesInv => ProfilesBounded /\ VisitsKept /\ ReturnsRecognised  BY InvBounds
<1>4. ProfilesInv /\ JoinsOK /\ [ProfilesNext]_profileVars =>
        [\A a \in Analyst :
           task[a].at \in {"insert", "join"} /\ task'[a].at = "failed"
             => Cardinality({p \in DOMAIN profiles : profiles[p].lastSeen >= task[a].seen})
                  >= MaxProfiles]_profileVars
  BY FailureNeedsFullTable, LostProfileNeedsFullTable
<1> QED  BY <1>1, <1>2, <1>3, <1>4, PTL DEF ProfilesSpec, ProfilesHold, VisitFailsOnlyFull
=============================================================================
