--------------------------- MODULE Orchestrator_proofs ---------------------------
(*****************************************************************************)
(* Proofs about what runs beside the event log: the API limits each client to*)
(* its rate, the SIEM shipper loses no log entry, rotations keep what is      *)
(* loaded and what listens in step, and activities run when they are due.     *)
(*****************************************************************************)
EXTENDS RateLimiter, SiemShipper, Rotation, Activity, RecentUse_proofs, WellFoundedInduction

(* Numbers have a least one among any of them, which is how the provers can  *)
(* do induction.                                                            *)
Less == {p \in Nat \X Nat : p[1] < p[2]}

(* The order of numbers, by which the least of a set is found. *)
LEMMA LessIsWellFounded == IsWellFoundedOn(Less, Nat)
BY NatLessThanWellFounded, Zenon DEF OpToRel, Less

(* A set of numbers that is not empty has a least one. *)
LEMMA LeastNumber ==
  ASSUME NEW T \in SUBSET Nat, T # {}
  PROVE  \E x \in T : \A y \in T : x <= y
<1>1. PICK x \in T : \A y \in T : ~(<<y, x>> \in Less)
  BY WFMin, LessIsWellFounded
<1>2. ASSUME NEW y \in T PROVE x <= y
  <2>1. x \in Nat /\ y \in Nat /\ <<y, x>> \notin Less  BY <1>1
  <2>2. <<y, x>> \in Nat \X Nat /\ <<y, x>>[1] = y /\ <<y, x>>[2] = x  BY <2>1
  <2>3. ~(y < x)  BY <2>1, <2>2 DEF Less
  <2> QED  BY <2>1, <2>3
<1> QED  BY <1>2

(* The least and the greatest of numbers, as the model writes them. *)
LEMMA MinOfSet ==
  ASSUME NEW T \in SUBSET Nat, T # {}
  PROVE  Min(T) \in T /\ \A y \in T : Min(T) <= y
BY LeastNumber DEF Min

(* The lesser of two numbers. *)
LEMMA MinOfTwo ==
  ASSUME NEW a \in Nat, NEW b \in Nat
  PROVE  Min({a, b}) = IF a <= b THEN a ELSE b
BY DEF Min

(* The greater of two numbers. *)
LEMMA MaxOfTwo ==
  ASSUME NEW a \in Nat, NEW b \in Nat
  PROVE  Max({a, b}) = IF a >= b THEN a ELSE b
BY DEF Max

(* The sequences of clients: what removing an entry and adding one leave.   *)
LEMMA RemoveAtResult ==
  ASSUME NEW S, NEW s \in Seq(S), NEW i \in 1 .. Len(s)
  PROVE  /\ RemoveAt(s, i) \in Seq(S) /\ Len(RemoveAt(s, i)) = Len(s) - 1
         /\ \A j \in 1 .. Len(s) - 1 : RemoveAt(s, i)[j] = s[IF j < i THEN j ELSE j + 1]
<1> DEFINE a == SubSeq(s, 1, i - 1)  b == SubSeq(s, i + 1, Len(s))
<1>1. a \in Seq(S) /\ Len(a) = i - 1 /\ \A j \in 1 .. i - 1 : a[j] = s[j]  OBVIOUS
<1>2. b \in Seq(S) /\ Len(b) = Len(s) - i /\ \A j \in 1 .. Len(s) - i : b[j] = s[i + j]  OBVIOUS
<1>3. RemoveAt(s, i) = a \o b  BY DEF RemoveAt
<1>4. Len(s) \in Nat /\ i \in Nat /\ 1 <= i /\ i <= Len(s)  OBVIOUS
<1> HIDE DEF a, b
<1>5. a \in Seq(S) /\ b \in Seq(S)  BY <1>1, <1>2
<1>6a. a \o b \in Seq(S) /\ Len(a \o b) = Len(a) + Len(b)  BY <1>5
<1>6. Len(a \o b) = Len(s) - 1  BY <1>1, <1>2, <1>4, <1>6a
<1>7. ASSUME NEW j \in 1 .. Len(s) - 1
      PROVE  (a \o b)[j] = s[IF j < i THEN j ELSE j + 1]
  <2>1. CASE j < i
    <3>1. j \in 1 .. Len(a)  BY <2>1, <1>1, <1>4
    <3>2. (a \o b)[j] = a[j]  BY <3>1, <1>1, <1>2
    <3> QED  BY <2>1, <3>1, <3>2, <1>1
  <2>2. CASE ~(j < i)
    <3>1. j \in Len(a) + 1 .. Len(a) + Len(b) /\ j - Len(a) \in 1 .. Len(b)
      BY <2>2, <1>1, <1>2, <1>4
    <3>2. (a \o b)[j] = b[j - Len(a)]  BY <3>1, <1>1, <1>2
    <3>3. b[j - Len(a)] = s[i + (j - Len(a))] /\ i + (j - Len(a)) = j + 1
      BY <3>1, <1>1, <1>2, <1>4
    <3> QED  BY <2>2, <3>2, <3>3
  <2> QED  BY <2>1, <2>2
<1> QED  BY <1>3, <1>6a, <1>6, <1>7

(* The elements of a sequence that is appended to. *)
LEMMA ElementsOfAppend ==
  ASSUME NEW S, NEW s \in Seq(S), NEW e \in S
  PROVE  ToSet(Append(s, e)) = ToSet(s) \cup {e}
<1>1. ASSUME NEW x \in ToSet(Append(s, e)) PROVE x \in ToSet(s) \cup {e}
  BY DEF ToSet
<1>2. ASSUME NEW x \in ToSet(s) PROVE x \in ToSet(Append(s, e))
  <2>1. PICK i \in DOMAIN s : s[i] = x  BY DEF ToSet
  <2> QED  BY <2>1 DEF ToSet
<1>3. e \in ToSet(Append(s, e))
  <2>1. Append(s, e)[Len(s) + 1] = e /\ Len(s) + 1 \in DOMAIN Append(s, e)  OBVIOUS
  <2> QED  BY <2>1 DEF ToSet
<1> QED  BY <1>1, <1>2, <1>3

----------------------------------------------------------------------------
(* The inductive invariant.  Of every bucket it says what an admission at    *)
(* any later time could add up to.                                          *)
Bucket == [parts : Nat, at : Nat, admitted : Seq(Nat), told : Nat]

BucketOK(b) ==
  LET n == Len(b.admitted) IN
  /\ b \in Bucket /\ b.at <= clock
  /\ \A i \in 1 .. n : b.admitted[i] <= b.at
  /\ \A i, j \in 1 .. n : i <= j =>
       (j - i + 1) * Part <= Capacity * Part + (b.admitted[j] - b.admitted[i]) * Refill
  /\ \A i \in 1 .. n :
       (n - i + 1) * Part + b.parts <= Capacity * Part + (b.at - b.admitted[i]) * Refill
  /\ b.told # 0 => b.told >= b.at /\ b.parts + (b.told + Short - b.at) * Refill >= Part

LimiterInv ==
  /\ clock \in Nat
  /\ tracked \in Seq(ClientId) /\ Len(tracked) <= MaxTracked + 1
  /\ DOMAIN bucket = ToSet(tracked)
  /\ \A c \in ToSet(tracked) : BucketOK(bucket[c])

(* The numbers of the limiter, and those that follow from them. *)
LEMMA RateConstants ==
  /\ Part \in Nat /\ Part > 0 /\ Refill \in Nat /\ Refill > 0 /\ Capacity \in Nat /\ Capacity > 0
  /\ Second \in Nat /\ Second > 0 /\ Short \in Nat /\ Short <= Second
  /\ MaxTracked \in Nat /\ StaleAfter \in Nat /\ MaxMoments \in Nat
  /\ Capacity * Part \in Nat /\ Capacity * Part >= Part
BY RateAssumption DEF RateAssumption

(* A limiter without clients. *)
LEMMA LimiterInitInv == ASSUME LimiterInit PROVE LimiterInv
<1>1. tracked \in Seq(ClientId) /\ Len(tracked) = 0 /\ ToSet(tracked) = {} /\ DOMAIN bucket = {}
  BY DEF LimiterInit, ToSet
<1> QED  BY <1>1, RateConstants DEF LimiterInit, LimiterInv

(* Time that passes only makes the bucket's claims weaker. *)
LEMMA TicksKeepInv == ASSUME LimiterInv, ClockTicks PROVE LimiterInv'
<1>1. clock' = clock + 1 /\ tracked' = tracked /\ bucket' = bucket /\ clock \in Nat
  BY DEF LimiterInv, ClockTicks
<1>2. ASSUME NEW c \in ToSet(tracked) PROVE BucketOK(bucket[c])'
  <2> DEFINE b == bucket[c]
  <2>1. BucketOK(b)  BY DEF LimiterInv
  <2>2. b.at <= clock + 1  BY <2>1, <1>1 DEF BucketOK, Bucket
  <2>3. bucket'[c] = b  BY <1>1
  <2> QED  BY <2>1, <2>2, <2>3, <1>1 DEF BucketOK
<1> QED  BY <1>1, <1>2 DEF LimiterInv

(* The trimmed table is a table with at most MaxTracked clients. *)
LEMMA SomeLeastRecent ==
  ASSUME LimiterInv, Len(tracked) > 0
  PROVE  LeastRecent \in DOMAIN tracked
<1> DEFINE at(i) == bucket[tracked[i]].at
           T == {at(i) : i \in DOMAIN tracked}
<1>1. tracked \in Seq(ClientId) /\ DOMAIN tracked = 1 .. Len(tracked) /\ Len(tracked) \in Nat
  BY DEF LimiterInv
<1>2. ASSUME NEW i \in DOMAIN tracked PROVE at(i) \in Nat
  <2>1. tracked[i] \in ToSet(tracked)  BY DEF ToSet
  <2> QED  BY <2>1 DEF LimiterInv, BucketOK, Bucket
<1>3. T \in SUBSET Nat /\ at(1) \in T  BY <1>1, <1>2
<1> HIDE DEF at
<1>4. PICK a \in T : \A y \in T : a <= y  BY <1>3, LeastNumber
<1> DEFINE U == {i \in DOMAIN tracked : at(i) = a}
<1>5. U \in SUBSET Nat /\ U # {}  BY <1>1, <1>4
<1>6. PICK i \in U : \A j \in U : i <= j  BY <1>5, LeastNumber
<1>7. \A j \in DOMAIN tracked \ {i} : at(i) < at(j) \/ (at(i) = at(j) /\ i < j)
  <2> SUFFICES ASSUME NEW j \in DOMAIN tracked \ {i} PROVE at(i) < at(j) \/ (at(i) = at(j) /\ i < j)
    OBVIOUS
  <2>1. at(i) = a /\ a <= at(j) /\ at(j) \in Nat /\ a \in Nat  BY <1>2, <1>3, <1>4, <1>6
  <2>2. CASE at(j) = a
    <3>1. i <= j /\ i \in Nat /\ j \in Nat  BY <2>2, <1>1, <1>6
    <3> QED  BY <2>1, <2>2, <3>1
  <2> QED  BY <2>1, <2>2
<1>8. i \in DOMAIN tracked  BY <1>6
<1>9. \E k \in DOMAIN tracked : \A j \in DOMAIN tracked \ {k} :
        \/ bucket[tracked[k]].at < bucket[tracked[j]].at
        \/ bucket[tracked[k]].at = bucket[tracked[j]].at /\ k < j
  BY <1>7, <1>8 DEF at
<1> QED  BY <1>9 DEF LeastRecent

(* Trimming keeps the table within its size and adds no client. *)
LEMMA TrimmedResult ==
  ASSUME LimiterInv
  PROVE  /\ Trimmed \in Seq(ClientId) /\ Len(Trimmed) <= MaxTracked
         /\ ToSet(Trimmed) \subseteq ToSet(tracked)
<1>1. tracked \in Seq(ClientId) /\ DOMAIN tracked = 1 .. Len(tracked) /\ Len(tracked) \in Nat
      /\ Len(tracked) <= MaxTracked + 1
  BY DEF LimiterInv
<1>2. CASE Len(tracked) <= MaxTracked  BY <1>1, <1>2 DEF Trimmed
<1>3. CASE ~(Len(tracked) <= MaxTracked)
  <2> DEFINE k == IF Stale # {} THEN Min(Stale) ELSE LeastRecent
             r == RemoveAt(tracked, k)
  <2>1. Stale \in SUBSET DOMAIN tracked /\ Stale \in SUBSET Nat  BY <1>1 DEF Stale
  <2>2. Len(tracked) > 0  BY <1>1, <1>3, RateConstants
  <2>3. k \in 1 .. Len(tracked)
    <3>1. CASE Stale # {}  BY <3>1, <2>1, <1>1, MinOfSet
    <3>2. CASE Stale = {}  BY <3>2, <2>2, <1>1, SomeLeastRecent
    <3> QED  BY <3>1, <3>2
  <2> HIDE DEF k
  <2>4. /\ r \in Seq(ClientId) /\ Len(r) = Len(tracked) - 1
        /\ \A j \in 1 .. Len(tracked) - 1 : r[j] = tracked[IF j < k THEN j ELSE j + 1]
    BY <2>3, <1>1, RemoveAtResult
  <2> HIDE DEF r
  <2>5. ASSUME NEW x \in ToSet(r) PROVE x \in ToSet(tracked)
    <3>1. PICK j \in DOMAIN r : x = r[j]  BY DEF ToSet
    <3>2. j \in 1 .. Len(tracked) - 1  BY <2>4, <3>1
    <3>3. (IF j < k THEN j ELSE j + 1) \in DOMAIN tracked  BY <3>2, <1>1
    <3>4. x = tracked[IF j < k THEN j ELSE j + 1]  BY <3>1, <3>2, <2>4
    <3> QED  BY <3>3, <3>4 DEF ToSet
  <2>6. Len(r) <= MaxTracked  BY <2>4, <1>1, RateConstants
  <2>7. Trimmed = r  BY <1>3 DEF Trimmed, r, k
  <2> QED  BY <2>4, <2>5, <2>6, <2>7
<1> QED  BY <1>2, <1>3

----------------------------------------------------------------------------
(* A request of a client whose bucket holds b, or who has none. *)
LEMMA RefilledResult ==
  ASSUME LimiterInv, NEW c \in ToSet(tracked)
  PROVE  LET b == bucket[c] IN
         /\ b.parts \in Nat /\ b.at \in Nat /\ b.at <= clock /\ clock \in Nat
         /\ (clock - b.at) * Refill \in Nat
         /\ Refilled(b) \in Nat /\ Refilled(b) <= Capacity * Part
         /\ Refilled(b) <= b.parts + (clock - b.at) * Refill
<1> DEFINE b == bucket[c]  x == b.parts + (clock - b.at) * Refill
<1>1. b.parts \in Nat /\ b.at \in Nat /\ b.at <= clock /\ clock \in Nat
  BY DEF LimiterInv, BucketOK, Bucket
<1>2. clock - b.at \in Nat  BY <1>1
<1>3. (clock - b.at) * Refill \in Nat  BY <1>2, RateConstants
<1>4. x \in Nat  BY <1>1, <1>3
<1>5. Refilled(b) = Min({Capacity * Part, x})  BY DEF Refilled
<1> HIDE DEF x
<1>6. Refilled(b) = IF Capacity * Part <= x THEN Capacity * Part ELSE x
  BY <1>4, <1>5, RateConstants, MinOfTwo
<1>7. Refilled(b) \in Nat /\ Refilled(b) <= Capacity * Part /\ Refilled(b) <= x
  BY <1>4, <1>6, RateConstants
<1> QED  BY <1>1, <1>3, <1>7 DEF x

(* What a quotient falls short of. *)
LEMMA Quotient ==
  ASSUME NEW x \in Nat, NEW m \in Nat, m > 0
  PROVE  x \div m \in Nat /\ x < (x \div m) * m + m
OBVIOUS

(* Rounding up is enough, but for the rest that it cuts off. *)
LEMMA RetryAfterResult ==
  ASSUME NEW parts \in Nat, parts < Part
  PROVE  /\ RetryAfter(parts) * Second \in Nat
         /\ parts + (RetryAfter(parts) * Second + Short) * Refill >= Part
<1>1. PICK m \in Nat : m = Second * Refill /\ m > 0  BY RateConstants
<1>2. PICK h \in Nat, l \in Nat : h = (Second - Short) * Refill /\ l = Short * Refill /\ h + l = m
  <2>1. PICK k \in Nat : k = Second - Short /\ Second = k + Short  BY RateConstants
  <2>2. k * Refill \in Nat /\ Short * Refill \in Nat  BY <2>1, RateConstants
  <2>3. (k + Short) * Refill = k * Refill + Short * Refill  BY <2>1, RateConstants
  <2> QED  BY <1>1, <2>1, <2>2, <2>3
<1>3. PICK a \in Nat : a = Part - parts /\ a + parts = Part  BY RateConstants
<1>4. PICK q \in Nat : q = (a + h) \div m /\ a + h < q * m + m
  BY ONLY <1>1, <1>2, <1>3, Quotient, a + h \in Nat
<1>5. PICK r \in Nat : r = RetryAfter(parts) /\ r >= q
  <2>1. RetryAfter(parts) = Max({1, q})  BY <1>1, <1>2, <1>3, <1>4 DEF RetryAfter
  <2>2. Max({1, q}) = IF 1 >= q THEN 1 ELSE q  BY <1>4, MaxOfTwo
  <2> QED  BY <2>1, <2>2, <1>4
<1>6. PICK u \in Nat, v \in Nat : u = q * m /\ v = r * m /\ u <= v
  BY ONLY <1>1, <1>4, <1>5
<1>7. a <= v + l
  <2>1. h + l = m /\ u <= v  BY <1>2, <1>6
  <2>2. a + h < u + m  BY <1>4, <1>6
  <2> QED  BY ONLY <2>1, <2>2, a \in Nat, h \in Nat, l \in Nat, m \in Nat, u \in Nat, v \in Nat
<1>8. r * Second \in Nat  BY <1>5, RateConstants
<1>9. (r * Second + Short) * Refill = v + l
  <2>1. r * Second * Refill = v  BY <1>1, <1>5, <1>6, RateConstants
  <2>2. (r * Second + Short) * Refill = r * Second * Refill + Short * Refill
    BY <1>8, RateConstants
  <2> QED  BY <2>1, <2>2, <1>2
<1> QED  BY <1>3, <1>5, <1>7, <1>8, <1>9, RateConstants

(* Products of numbers are numbers, which the provers do not see inside a     *)
(* formula.                                                                   *)
LEMMA Products ==
  ASSUME NEW x \in Nat
  PROVE  x * Part \in Nat /\ x * Refill \in Nat
BY RateConstants

(* What a bucket holds for n admissions is a claim that time only weakens.   *)
LEMMA FlowAddsUp ==
  ASSUME NEW a \in Nat, NEW b \in Nat, NEW t \in Nat, t <= a, a <= b
  PROVE  /\ (a - t) * Refill + (b - a) * Refill = (b - t) * Refill
         /\ (a - t) * Refill \in Nat /\ (b - a) * Refill \in Nat /\ (b - t) * Refill \in Nat
<1>1. a - t \in Nat /\ b - a \in Nat /\ b - t \in Nat /\ (a - t) + (b - a) = b - t  OBVIOUS
<1> DEFINE x == a - t  y == b - a
<1>2. (x + y) * Refill = x * Refill + y * Refill  BY <1>1, RateConstants
<1> QED  BY <1>1, <1>2, RateConstants

(* What the admissions of a bucket that is refilled add up to. *)
LEMMA ClaimsCarryOver ==
  ASSUME LimiterInv, NEW c \in ToSet(tracked)
  PROVE  LET b == bucket[c]  n == Len(b.admitted) IN
         /\ clock \in Nat /\ Refilled(b) \in Nat /\ Refilled(b) <= Capacity * Part
         /\ BucketOK(b) /\ b.admitted \in Seq(Nat) /\ n \in Nat
         /\ \A i \in 1 .. n :
              /\ b.admitted[i] \in Nat /\ b.admitted[i] <= clock
              /\ (n - i + 1) * Part + Refilled(b)
                    <= Capacity * Part + (clock - b.admitted[i]) * Refill
<1> DEFINE b == bucket[c]  tokens == Refilled(b)  n == Len(b.admitted)
           t(i) == b.admitted[i]
<1>1. BucketOK(b) /\ b \in Bucket  BY DEF LimiterInv, BucketOK
<1>2. /\ b.parts \in Nat /\ b.at \in Nat /\ b.at <= clock /\ clock \in Nat
      /\ tokens \in Nat /\ tokens <= Capacity * Part
      /\ tokens <= b.parts + (clock - b.at) * Refill
  BY RefilledResult
<1>3. b.admitted \in Seq(Nat) /\ n \in Nat  BY <1>1 DEF Bucket
<1>0. clock \in Nat /\ tokens \in Nat /\ Capacity * Part \in Nat /\ Part \in Nat
      /\ tokens <= Capacity * Part
  BY <1>2, RateConstants
<1>4. ASSUME NEW i \in 1 .. n
      PROVE  /\ t(i) \in Nat /\ t(i) <= b.at /\ t(i) <= clock
             /\ (n - i + 1) * Part + tokens <= Capacity * Part + (clock - t(i)) * Refill
  <2>1. t(i) \in Nat /\ t(i) <= b.at  BY <1>1, <1>3 DEF BucketOK
  <2>2. (n - i + 1) * Part + b.parts <= Capacity * Part + (b.at - t(i)) * Refill
    BY <1>1 DEF BucketOK
  <2>3. /\ (b.at - t(i)) * Refill + (clock - b.at) * Refill = (clock - t(i)) * Refill
        /\ (b.at - t(i)) * Refill \in Nat /\ (clock - b.at) * Refill \in Nat
        /\ (clock - t(i)) * Refill \in Nat
    BY <2>1, <1>2, FlowAddsUp
  <2> DEFINE u == (n - i + 1) * Part  v == (b.at - t(i)) * Refill  w == (clock - b.at) * Refill
  <2>4. u \in Nat
    <3>1. n - i + 1 \in Nat  BY <1>3
    <3> QED  BY <3>1, RateConstants
  <2> HIDE DEF u, v, w, tokens
  <2>5. u + tokens <= Capacity * Part + (v + w)
    <3>1. b.parts \in Nat /\ tokens <= b.parts + w  BY <1>2 DEF w
    <3>2. u + b.parts <= Capacity * Part + v /\ v \in Nat /\ w \in Nat  BY <2>2, <2>3 DEF u, v, w
    <3> QED  BY SMTT(30), <3>1, <3>2, <2>4, <1>0
  <2>6. t(i) <= clock  BY <2>1, <1>2
  <2> QED  BY <2>1, <2>3, <2>5, <2>6 DEF u, v, w
<1> QED  BY <1>0, <1>1, <1>3, <1>4

(* A bucket that has a token gives one. *)
LEMMA AdmittedIsGood ==
  ASSUME LimiterInv, NEW c \in ToSet(tracked), Refilled(bucket[c]) >= Part
  PROVE  BucketOK([parts |-> Refilled(bucket[c]) - Part, at |-> clock,
                   admitted |-> Append(bucket[c].admitted, clock), told |-> 0])
<1> DEFINE b == bucket[c]  tokens == Refilled(b)  n == Len(b.admitted)
           t(i) == b.admitted[i]
           s == Append(b.admitted, clock)
           e == [parts |-> tokens - Part, at |-> clock, admitted |-> s, told |-> 0]
<1>1. /\ clock \in Nat /\ tokens \in Nat /\ Capacity * Part \in Nat /\ Part \in Nat
      /\ tokens <= Capacity * Part /\ tokens >= Part
      /\ BucketOK(b) /\ b.admitted \in Seq(Nat) /\ n \in Nat
  BY ClaimsCarryOver, RateConstants
<1>2. ASSUME NEW i \in 1 .. n
      PROVE  /\ t(i) \in Nat /\ t(i) <= clock
             /\ (n - i + 1) * Part + tokens <= Capacity * Part + (clock - t(i)) * Refill
  BY ClaimsCarryOver
<1>3. /\ s \in Seq(Nat) /\ Len(s) = n + 1 /\ s[n + 1] = clock
      /\ \A i \in 1 .. n : s[i] = t(i)
  BY <1>1
<1>4. e.admitted = s /\ e.at = clock /\ e.parts = tokens - Part /\ e.told = 0  OBVIOUS
<1>5. e \in Bucket
  <2> HIDE DEF s, tokens
  <2>1. tokens - Part \in Nat  BY <1>1
  <2> QED  BY <2>1, <1>1, <1>3 DEF Bucket
<1> HIDE DEF s, tokens, n, t, e
<1>6. ASSUME NEW i \in 1 .. n + 1 PROVE s[i] <= clock /\ s[i] \in Nat
  <2>1. CASE i = n + 1  BY <2>1, <1>1, <1>3
  <2>2. CASE i # n + 1
    <3>1. i \in 1 .. n  BY <2>2, <1>1
    <3> QED  BY <3>1, <1>2, <1>3
  <2> QED  BY <2>1, <2>2
<1>7. ASSUME NEW i \in 1 .. n + 1
      PROVE  (n + 1 - i + 1) * Part + (tokens - Part) <= Capacity * Part + (clock - s[i]) * Refill
  <2>1. CASE i = n + 1
    <3>1. n + 1 - i + 1 = 1 /\ clock - s[i] = 0  BY <2>1, <1>1, <1>3
    <3>2. 1 * Part = Part /\ 0 * Refill = 0  BY RateConstants
    <3> QED  BY <3>1, <3>2, <1>1
  <2>2. CASE i # n + 1
    <3>1. i \in 1 .. n  BY <2>2, <1>1
    <3>2. s[i] = t(i)  BY <3>1, <1>3
    <3>3. n - i + 1 \in Nat /\ clock - t(i) \in Nat /\ n + 1 - i + 1 = (n - i + 1) + 1
      BY <3>1, <1>1, <1>2
    <3>4. (n - i + 1) * Part \in Nat /\ (clock - t(i)) * Refill \in Nat  BY <3>3, Products
    <3>5. ((n - i + 1) + 1) * Part = (n - i + 1) * Part + Part  BY <3>3, <1>1
    <3>6. (n - i + 1) * Part + tokens <= Capacity * Part + (clock - t(i)) * Refill
      BY <3>1, <1>2
    <3> QED  BY <3>2, <3>3, <3>4, <3>5, <3>6, <1>1
  <2> QED  BY <2>1, <2>2
<1>8. ASSUME NEW i \in 1 .. n + 1, NEW j \in 1 .. n + 1, i <= j
      PROVE  (j - i + 1) * Part <= Capacity * Part + (s[j] - s[i]) * Refill
  <2>1. CASE j = n + 1
    <3>1. (n + 1 - i + 1) * Part + (tokens - Part) <= Capacity * Part + (clock - s[i]) * Refill
      BY <1>7
    <3>2. n + 1 - i + 1 \in Nat /\ clock - s[i] \in Nat  BY <1>1, <1>6
    <3>3. (n + 1 - i + 1) * Part \in Nat /\ (clock - s[i]) * Refill \in Nat
      BY <3>2, Products
    <3>4. (n + 1 - i + 1) * Part <= Capacity * Part + (clock - s[i]) * Refill
      BY <3>1, <3>3, <1>1
    <3>5. s[j] = clock  BY <2>1, <1>3
    <3>6. j - i + 1 = n + 1 - i + 1  BY <2>1, <1>1
    <3> QED  BY <3>4, <3>5, <3>6
  <2>2. CASE j # n + 1
    <3>1. j \in 1 .. n /\ i \in 1 .. n  BY <2>2, <1>8, <1>1
    <3>2. (j - i + 1) * Part <= Capacity * Part + (t(j) - t(i)) * Refill
      BY <3>1, <1>8, <1>1 DEF BucketOK, n, t
    <3> QED  BY <3>1, <3>2, <1>3
  <2> QED  BY <2>1, <2>2
<1>9. e.at <= clock /\ Len(e.admitted) = n + 1  BY <1>1, <1>3, <1>4
<1>10. 1 .. Len(e.admitted) = 1 .. n + 1  BY <1>9
<1>12. \A i \in 1 .. Len(e.admitted) : e.admitted[i] <= e.at  BY <1>4, <1>6, <1>10
<1>13. \A i, j \in 1 .. Len(e.admitted) : i <= j =>
         (j - i + 1) * Part <= Capacity * Part + (e.admitted[j] - e.admitted[i]) * Refill
  <2>1. \A i, j \in 1 .. n + 1 : i <= j =>
          (j - i + 1) * Part <= Capacity * Part + (s[j] - s[i]) * Refill
    BY <1>8
  <2>2. e.admitted = s  BY <1>4
  <2> QED  BY <2>1, <2>2, <1>10
<1>14. ASSUME NEW i \in 1 .. Len(e.admitted)
       PROVE  (Len(e.admitted) - i + 1) * Part + e.parts
                <= Capacity * Part + (e.at - e.admitted[i]) * Refill
  <2>1. (n + 1 - i + 1) * Part + (tokens - Part) <= Capacity * Part + (clock - s[i]) * Refill
    BY <1>7, <1>10
  <2>2. Len(e.admitted) = n + 1 /\ e.parts = tokens - Part /\ e.at = clock /\ e.admitted = s
    BY <1>4, <1>9
  <2>3. (Len(e.admitted) - i + 1) * Part = (n + 1 - i + 1) * Part
    <3>1. Len(e.admitted) - i + 1 = n + 1 - i + 1  BY <2>2, <1>1
    <3> QED  BY <3>1
  <2>4. (e.at - e.admitted[i]) * Refill = (clock - s[i]) * Refill
    <3>1. e.at - e.admitted[i] = clock - s[i]  BY <2>2
    <3> QED  BY <3>1
  <2>5. n + 1 - i + 1 \in Nat /\ clock - s[i] \in Nat  BY <1>1, <1>6, <1>10
  <2>6. (n + 1 - i + 1) * Part \in Nat /\ (clock - s[i]) * Refill \in Nat  BY <2>5, Products
  <2> QED  BY <2>1, <2>2, <2>3, <2>4, <2>6, <1>1
<1>11. BucketOK(e)  BY <1>4, <1>5, <1>9, <1>12, <1>13, <1>14 DEF BucketOK
<1> QED  BY <1>11 DEF e, s, tokens

(* One that has none says how long to wait. *)
LEMMA RefusedIsGood ==
  ASSUME LimiterInv, NEW c \in ToSet(tracked), Refilled(bucket[c]) < Part
  PROVE  BucketOK([parts |-> Refilled(bucket[c]), at |-> clock, admitted |-> bucket[c].admitted,
                   told |-> clock + RetryAfter(Refilled(bucket[c])) * Second])
<1> DEFINE b == bucket[c]  tokens == Refilled(b)  n == Len(b.admitted)  s == b.admitted
           w == RetryAfter(tokens) * Second
           e == [parts |-> tokens, at |-> clock, admitted |-> s, told |-> clock + w]
<1>1. /\ clock \in Nat /\ tokens \in Nat /\ BucketOK(b) /\ s \in Seq(Nat) /\ n \in Nat
      /\ n = Len(s)
  BY ClaimsCarryOver
<1>2. ASSUME NEW i \in 1 .. n
      PROVE  /\ s[i] \in Nat /\ s[i] <= clock
             /\ (n - i + 1) * Part + tokens <= Capacity * Part + (clock - s[i]) * Refill
  BY ClaimsCarryOver
<1>3. w \in Nat /\ tokens + (w + Short) * Refill >= Part  BY <1>1, RetryAfterResult
<1>4. e.admitted = s /\ e.at = clock /\ e.parts = tokens /\ e.told = clock + w  OBVIOUS
<1>5. \A i, j \in 1 .. n : i <= j =>
        (j - i + 1) * Part <= Capacity * Part + (s[j] - s[i]) * Refill
  BY <1>1 DEF BucketOK
<1> HIDE DEF tokens, n, s, w
<1>6. e \in Bucket  BY <1>1, <1>3 DEF Bucket
<1> HIDE DEF e
<1>7. e.told >= e.at /\ e.told + Short - e.at = w + Short /\ e.at <= clock
  BY <1>1, <1>3, <1>4, RateConstants
<1>8. e.parts + (e.told + Short - e.at) * Refill >= Part  BY <1>3, <1>4, <1>7
<1>9. BucketOK(e)  BY <1>1, <1>2, <1>4, <1>5, <1>6, <1>7, <1>8 DEF BucketOK
<1> QED  BY <1>9 DEF e, s, tokens, w

(* A client that was not tracked takes the first token of a full bucket. *)
LEMMA NewIsGood ==
  ASSUME LimiterInv, NEW e,
         e = [parts |-> Capacity * Part - Part, at |-> clock, admitted |-> <<clock>>, told |-> 0]
  PROVE  BucketOK(e)
<1>1. clock \in Nat  BY DEF LimiterInv
<1>2. <<clock>> \in Seq(Nat) /\ Len(<<clock>>) = 1 /\ <<clock>>[1] = clock  BY <1>1
<1>3. Capacity * Part - Part \in Nat  BY RateConstants
<1>4. e \in Bucket  BY <1>1, <1>2, <1>3 DEF Bucket
<1>5. /\ e.admitted = <<clock>> /\ e.at = clock /\ e.parts = Capacity * Part - Part
      /\ e.told = 0
  OBVIOUS
<1>6. (1 - 1 + 1) * Part = Part /\ (clock - clock) * Refill = 0  BY <1>1, RateConstants
<1>7. \A i \in 1 .. 1 : i = 1  OBVIOUS
<1>8. \A i \in 1 .. 1 : e.admitted[i] <= e.at  BY <1>1, <1>2, <1>5, <1>7
<1>9. \A i \in 1 .. 1 :
       (1 - i + 1) * Part + e.parts <= Capacity * Part + (e.at - e.admitted[i]) * Refill
  BY <1>2, <1>3, <1>5, <1>6, <1>7, RateConstants
<1>10. \A i, j \in 1 .. 1 : i <= j =>
        (j - i + 1) * Part <= Capacity * Part + (e.admitted[j] - e.admitted[i]) * Refill
  BY <1>2, <1>3, <1>5, <1>6, <1>7, RateConstants
<1> QED  BY <1>1, <1>2, <1>4, <1>5, <1>8, <1>9, <1>10 DEF BucketOK

(* Whatever a client asks, its bucket and the others' stay good. *)
LEMMA ConsumeKeepsInv ==
  ASSUME LimiterInv, NEW c \in ClientId, Consume(c)
  PROVE  LimiterInv'
<1> DEFINE known == c \in ToSet(Trimmed)
<1>1. /\ Trimmed \in Seq(ClientId) /\ Len(Trimmed) <= MaxTracked
      /\ ToSet(Trimmed) \subseteq ToSet(tracked) /\ Len(Trimmed) \in Nat
  BY TrimmedResult
<1>2. clock' = clock /\ clock \in Nat  BY DEF Consume, LimiterInv
<1>3. tracked' = IF known THEN Trimmed ELSE Append(Trimmed, c)  BY DEF Consume
<1>4. /\ tracked' \in Seq(ClientId) /\ Len(tracked') <= MaxTracked + 1
      /\ ToSet(tracked') = ToSet(Trimmed) \cup {c}
  <2>1. CASE known  BY <2>1, <1>1, <1>3, RateConstants
  <2>2. CASE ~known
    <3>1. ToSet(Append(Trimmed, c)) = ToSet(Trimmed) \cup {c}  BY <1>1, ElementsOfAppend
    <3>2. Len(Append(Trimmed, c)) = Len(Trimmed) + 1 /\ Append(Trimmed, c) \in Seq(ClientId)
      BY <1>1
    <3> QED  BY <2>2, <3>1, <3>2, <1>1, <1>3, RateConstants
  <2> QED  BY <2>1, <2>2
<1>5. DOMAIN bucket' = ToSet(tracked')  BY DEF Consume
<1>6. ASSUME NEW d \in ToSet(tracked'), d # c PROVE BucketOK(bucket'[d])
  <2>1. d \in ToSet(tracked) /\ bucket'[d] = bucket[d]  BY <1>1, <1>4, <1>6 DEF Consume
  <2> QED  BY <2>1 DEF LimiterInv
<1>7. BucketOK(bucket'[c])
  <2>1. CASE known
    <3>1. c \in ToSet(tracked) /\ c \in ToSet(tracked')  BY <2>1, <1>1, <1>4
    <3>2. Refilled(bucket[c]) \in Nat /\ Part \in Nat  BY <3>1, RefilledResult, RateConstants
    <3>3. CASE Refilled(bucket[c]) >= Part
      <4>1. bucket'[c] = [parts |-> Refilled(bucket[c]) - Part, at |-> clock,
                          admitted |-> Append(bucket[c].admitted, clock), told |-> 0]
        BY <2>1, <3>1, <3>3 DEF Consume
      <4> QED  BY <3>1, <3>3, <4>1, AdmittedIsGood
    <3>4. CASE ~(Refilled(bucket[c]) >= Part)
      <4>1. bucket'[c] = [parts |-> Refilled(bucket[c]), at |-> clock,
                          admitted |-> bucket[c].admitted,
                          told |-> clock + RetryAfter(Refilled(bucket[c])) * Second]
        BY <2>1, <3>1, <3>4 DEF Consume
      <4>2. Refilled(bucket[c]) < Part  BY <3>2, <3>4
      <4> QED  BY <3>1, <4>1, <4>2, RefusedIsGood
    <3> QED  BY <3>3, <3>4
  <2>2. CASE ~known
    <3>1. Append(<< >>, clock) = <<clock>>  BY <1>2
    <3>2. c \in ToSet(tracked') /\ Capacity * Part >= Part  BY <1>4, RateConstants
    <3>3. bucket'[c] = [parts |-> Capacity * Part - Part, at |-> clock,
                        admitted |-> <<clock>>, told |-> 0]
      BY <2>2, <3>1, <3>2 DEF Consume
    <3> QED  BY <3>3, NewIsGood
  <2> QED  BY <2>1, <2>2
<1>8. ASSUME NEW d \in ToSet(tracked') PROVE BucketOK(bucket[d])'
  <2>1. BucketOK(bucket'[d])  BY <1>6, <1>7
  <2> QED  BY <2>1, <1>2 DEF BucketOK
<1> QED  BY <1>2, <1>4, <1>5, <1>8 DEF LimiterInv

(* A step of others. *)
LEMMA LimiterStutters == ASSUME LimiterInv, UNCHANGED limiterVars PROVE LimiterInv'
BY DEF LimiterInv, BucketOK, Bucket, limiterVars

(* The invariant says what LimitIsKept promises. *)
LEMMA InvKeepsLimit == ASSUME LimiterInv PROVE LimitIsKept
<1>1. ASSUME NEW c \in ToSet(tracked), NEW i \in DOMAIN bucket[c].admitted,
             NEW j \in DOMAIN bucket[c].admitted, i <= j
      PROVE  (j - i + 1) * Part
               <= Capacity * Part + (bucket[c].admitted[j] - bucket[c].admitted[i]) * Refill
  <2>1. BucketOK(bucket[c])  BY DEF LimiterInv
  <2>2. DOMAIN bucket[c].admitted = 1 .. Len(bucket[c].admitted)  BY <2>1 DEF BucketOK, Bucket
  <2> QED  BY <1>1, <2>1, <2>2 DEF BucketOK
<1>2. ASSUME NEW c \in ToSet(tracked), bucket[c].told # 0, clock >= bucket[c].told + Short
      PROVE  bucket[c].parts + (clock - bucket[c].at) * Refill >= Part
  <2> DEFINE b == bucket[c]  x == b.told + Short - b.at  y == clock - b.at
  <2>1. BucketOK(b) /\ b \in Bucket /\ clock \in Nat  BY DEF LimiterInv, BucketOK
  <2>2. b.told >= b.at /\ b.parts + x * Refill >= Part  BY <1>2, <2>1 DEF BucketOK
  <2>6. /\ b.told \in Nat /\ b.at \in Nat /\ b.parts \in Nat /\ clock \in Nat /\ Short \in Nat
        /\ b.told >= b.at /\ clock >= b.told + Short
    BY <1>2, <2>1, <2>2, RateConstants DEF Bucket
  <2>3. x \in Nat /\ y \in Nat /\ x <= y /\ b.parts \in Nat
    <3>1. PICK o \in Nat, s \in Nat : o = b.told /\ s = b.at  BY <2>6
    <3>2. o + Short - s \in Nat /\ clock - s \in Nat /\ o + Short - s <= clock - s
      BY <3>1, <2>6
    <3> QED  BY <3>1, <3>2, <2>6
  <2> HIDE DEF x, y
  <2>4. x * Refill <= y * Refill /\ x * Refill \in Nat /\ y * Refill \in Nat
    BY <2>3, RateConstants
  <2>5. b.parts + y * Refill >= Part  BY <2>2, <2>3, <2>4, RateConstants
  <2> QED  BY <2>5 DEF y
<1> QED  BY <1>1, <1>2 DEF LimitIsKept, WithinRate, RetryIsEnough

(* However many clients ask, however fast, and whichever the table forgets:    *)
(* a tracked client was let through no more often than its bucket and the     *)
(* time that passed allow, and one that waits as it was told, and the part of *)
(* a second that the rounding may leave out, is admitted.                     *)
THEOREM LimitStaysKept == LimiterSpec => []LimitIsKept
<1>1. LimiterInv /\ [LimiterNext]_limiterVars => LimiterInv'
  BY TicksKeepInv, ConsumeKeepsInv, LimiterStutters DEF LimiterNext
<1> QED  BY <1>1, LimiterInitInv, InvKeepsLimit, PTL DEF LimiterSpec

----------------------------------------------------------------------------
(* The shipping of log entries.  The elements of a sequence that is put       *)
(* together or taken apart:                                                 *)
LEMMA ElementsOfTail ==
  ASSUME NEW S, NEW s \in Seq(S), s # << >>
  PROVE  ToSet(s) = {Head(s)} \cup ToSet(Tail(s)) /\ Head(s) \in S
<1>1. /\ Len(s) \in Nat \ {0} /\ Head(s) = s[1] /\ Tail(s) \in Seq(S) /\ Len(Tail(s)) = Len(s) - 1
      /\ \A i \in 1 .. Len(s) - 1 : Tail(s)[i] = s[i + 1]
  OBVIOUS
<1>2. ASSUME NEW x \in ToSet(s) PROVE x \in {Head(s)} \cup ToSet(Tail(s))
  <2>1. PICK i \in DOMAIN s : s[i] = x  BY DEF ToSet
  <2>2. CASE i = 1  BY <1>1, <2>1, <2>2
  <2>3. CASE i # 1
    <3>1. i - 1 \in 1 .. Len(s) - 1 /\ (i - 1) + 1 = i  BY <1>1, <2>1, <2>3
    <3>2. Tail(s)[i - 1] = x /\ i - 1 \in DOMAIN Tail(s)  BY <3>1, <1>1, <2>1
    <3> QED  BY <3>2 DEF ToSet
  <2> QED  BY <2>2, <2>3
<1>3. ASSUME NEW x \in ToSet(Tail(s)) PROVE x \in ToSet(s)
  <2>1. PICK i \in DOMAIN Tail(s) : Tail(s)[i] = x  BY DEF ToSet
  <2>2. i + 1 \in DOMAIN s /\ s[i + 1] = x  BY <1>1, <2>1
  <2> QED  BY <2>2 DEF ToSet
<1>4. Head(s) \in ToSet(s) /\ Head(s) \in S
  <2>1. 1 \in DOMAIN s  BY <1>1
  <2> QED  BY <2>1, <1>1 DEF ToSet
<1> QED  BY <1>2, <1>3, <1>4

(* The elements of two sequences. *)
LEMMA ElementsOfConcat ==
  ASSUME NEW S, NEW s \in Seq(S), NEW t \in Seq(S)
  PROVE  ToSet(s \o t) = ToSet(s) \cup ToSet(t)
<1>1. /\ Len(s) \in Nat /\ Len(t) \in Nat /\ s \o t \in Seq(S) /\ Len(s \o t) = Len(s) + Len(t)
      /\ DOMAIN s = 1 .. Len(s) /\ DOMAIN t = 1 .. Len(t) /\ DOMAIN (s \o t) = 1 .. Len(s) + Len(t)
      /\ \A i \in 1 .. Len(s) : (s \o t)[i] = s[i]
  OBVIOUS
<1>2. \A i \in 1 .. Len(t) : (s \o t)[Len(s) + i] = t[i]
  OBVIOUS
<1>3. ASSUME NEW x \in ToSet(s \o t) PROVE x \in ToSet(s) \cup ToSet(t)
  <2>1. PICK i \in DOMAIN (s \o t) : (s \o t)[i] = x  BY DEF ToSet
  <2>2. CASE i \in 1 .. Len(s)  BY <2>1, <2>2, <1>1 DEF ToSet
  <2>3. CASE i \notin 1 .. Len(s)
    <3>1. i - Len(s) \in 1 .. Len(t) /\ Len(s) + (i - Len(s)) = i  BY <2>1, <2>3, <1>1
    <3>2. t[i - Len(s)] = x  BY <3>1, <1>2, <2>1
    <3> QED  BY <3>1, <3>2, <1>1 DEF ToSet
  <2> QED  BY <2>2, <2>3
<1>4. ASSUME NEW x \in ToSet(s) PROVE x \in ToSet(s \o t)
  <2>1. PICK i \in DOMAIN s : s[i] = x  BY DEF ToSet
  <2>2. i \in DOMAIN (s \o t) /\ (s \o t)[i] = x  BY <2>1, <1>1
  <2> QED  BY <2>2 DEF ToSet
<1>5. ASSUME NEW x \in ToSet(t) PROVE x \in ToSet(s \o t)
  <2>1. PICK i \in DOMAIN t : t[i] = x  BY DEF ToSet
  <2>2. Len(s) + i \in DOMAIN (s \o t) /\ (s \o t)[Len(s) + i] = x  BY <2>1, <1>1, <1>2
  <2> QED  BY <2>2 DEF ToSet
<1> QED  BY <1>3, <1>4, <1>5

(* Nothing is in the empty sequence. *)
LEMMA ElementsOfNothing == ToSet(<< >>) = {}
BY DEF ToSet

----------------------------------------------------------------------------
Increasing(s) == \A i, j \in DOMAIN s : i < j => s[i] < s[j]

ShipperTypeOK ==
  /\ emitted \in Nat /\ queue \in Seq(Nat) /\ batch \in Seq(Nat) /\ received \in Seq(Nat)
  /\ letters \in [1 .. MaxFiles + 1 -> Seq(Nat)]

(* What waits, in the order of logging.                                     *)
InLine == Increasing(batch) /\ Increasing(queue)
          /\ \A e \in ToSet(batch), f \in ToSet(queue) : e < f

(* What was sent: all before what waits but the batch in hand, of which an    *)
(* entry was sent only after those before it; and a retry repeats no other.    *)
InBatchOrder(r) ==
  \A i \in DOMAIN r, m, q \in DOMAIN batch :
    m < q /\ r[i] = batch[q] => \E k \in 1 .. i - 1 : r[k] = batch[m]
OnlyRepeats(r) ==
  \A i, j \in DOMAIN r : i < j /\ r[j] < r[i] => \E k \in 1 .. i - 1 : r[k] = r[j]

SentInOrder ==
  /\ \A e \in ToSet(received) \ ToSet(batch), p \in Unsent : e < p
  /\ InBatchOrder(received) /\ OnlyRepeats(received)

ShipperInv ==
  /\ ShipperTypeOK
  /\ 1 .. emitted = Unsent \cup Ended
  /\ ToSet(queue) \cap Ended = {} /\ ToSet(batch) \cap (Written \cup discarded \cup refused) = {}
  /\ InLine /\ SentInOrder

(* A shipper that has done nothing. *)
LEMMA ShipperInitInv == ASSUME ShipperInit PROVE ShipperInv
<1>1. /\ emitted = 0 /\ queue = << >> /\ batch = << >> /\ received = << >> /\ discarded = {} /\ refused = {}
      /\ letters = [i \in 1 .. MaxFiles + 1 |-> << >>]
  BY DEF ShipperInit
<1>2. ShipperTypeOK  BY <1>1 DEF ShipperTypeOK
<1>3. Unsent = {} /\ ToSet(received) = {} /\ ToSet(queue) = {} /\ ToSet(batch) = {}
  BY <1>1, ElementsOfNothing DEF Unsent
<1>4. Written = {}
  <2>1. \A i \in DOMAIN letters : ToSet(letters[i]) = {}  BY <1>1, ElementsOfNothing
  <2> QED  BY <2>1 DEF Written
<1>5. 1 .. emitted = {}  BY <1>1
<1>6. Ended = {}  BY <1>1, <1>3, <1>4 DEF Ended
<1>7. InLine /\ SentInOrder  BY <1>1, <1>3 DEF InLine, SentInOrder, Increasing, InBatchOrder, OnlyRepeats
<1> QED  BY <1>1, <1>2, <1>3, <1>4, <1>5, <1>6, <1>7 DEF ShipperInv

(* Files that are rotated keep what they held, but for the oldest. *)
LEMMA WrittenIsKept ==
  ASSUME ShipperTypeOK, NEW entries \in Seq(Nat), WriteLetters(entries)
  PROVE  /\ letters' \in [1 .. MaxFiles + 1 -> Seq(Nat)]
         /\ Written' \cup discarded' = Written \cup discarded \cup ToSet(entries)
<1> DEFINE F == 1 .. MaxFiles + 1
<1>0. /\ MaxFiles \in Nat \ {0} /\ 1 \in F /\ MaxFiles + 1 \in F /\ letters \in [F -> Seq(Nat)]
      /\ DOMAIN letters = F
  BY ShipperAssumption DEF ShipperAssumption, ShipperTypeOK
<1>1. CASE ~keeps  BY <1>0, <1>1 DEF WriteLetters, Written
<1>2. CASE keeps
  <2>1. letters' = [Rotated EXCEPT ![1] = @ \o entries] /\ discarded' = discarded \cup Removed
    BY <1>2 DEF WriteLetters
  <2>2. CASE Len(letters[1]) < MaxLetters
    <3>1. Rotated = letters /\ Removed = {}  BY <2>2 DEF Rotated, Removed
    <3>2. letters[1] \in Seq(Nat) /\ letters[1] \o entries \in Seq(Nat)  BY <1>0
    <3>3. /\ letters' \in [F -> Seq(Nat)] /\ letters'[1] = letters[1] \o entries
          /\ \A i \in F \ {1} : letters'[i] = letters[i]
      BY <1>0, <2>1, <3>1, <3>2
    <3>4. ToSet(letters'[1]) = ToSet(letters[1]) \cup ToSet(entries)
      BY <3>2, <3>3, ElementsOfConcat
    <3>5. DOMAIN letters' = F  BY <3>3
    <3>6. Written' = Written \cup ToSet(entries)
      <4>1. Written' = UNION {ToSet(letters'[i]) : i \in F}  BY <3>5 DEF Written
      <4>2. Written = UNION {ToSet(letters[i]) : i \in F}  BY <1>0 DEF Written
      <4> HIDE DEF F
      <4>3. ASSUME NEW x \in Written' PROVE x \in Written \cup ToSet(entries)
        <5>1. PICK i \in F : x \in ToSet(letters'[i])  BY <4>1, <4>3
        <5>2. CASE i = 1  BY <5>1, <5>2, <3>4, <4>2, <1>0
        <5>3. CASE i # 1  BY <5>1, <5>3, <3>3, <4>2
        <5> QED  BY <5>2, <5>3
      <4>4. ASSUME NEW x \in Written PROVE x \in Written'
        <5>1. PICK i \in F : x \in ToSet(letters[i])  BY <4>2, <4>4
        <5>2. CASE i = 1  BY <5>1, <5>2, <3>4, <4>1, <1>0
        <5>3. CASE i # 1  BY <5>1, <5>3, <3>3, <4>1
        <5> QED  BY <5>2, <5>3
      <4>5. ToSet(entries) \subseteq Written'  BY <4>1, <3>4, <1>0
      <4> QED  BY <4>3, <4>4, <4>5
    <3> QED  BY <2>1, <3>1, <3>3, <3>6
  <2>3. CASE ~(Len(letters[1]) < MaxLetters)
    <3>1. /\ Rotated = [i \in F |-> IF i = 1 THEN << >> ELSE letters[i - 1]]
          /\ Removed = ToSet(letters[MaxFiles + 1])
      BY <2>3 DEF Rotated, Removed
    <3>2. \A i \in F \ {1} : i - 1 \in F /\ i - 1 # MaxFiles + 1  BY <1>0
    <3>3. \A i \in F \ {MaxFiles + 1} : i + 1 \in F \ {1} /\ (i + 1) - 1 = i  BY <1>0
    <3>4. << >> \o entries = entries  OBVIOUS
    <3>5. /\ letters' \in [F -> Seq(Nat)] /\ letters'[1] = entries
          /\ \A i \in F \ {1} : letters'[i] = letters[i - 1]
      <4>1. Rotated[1] = << >> /\ \A i \in F \ {1} : Rotated[i] = letters[i - 1]  BY <1>0, <3>1
      <4>2. Rotated \in [F -> Seq(Nat)]
        <5>1. \A i \in F \ {1} : letters[i - 1] \in Seq(Nat)  BY <1>0, <3>2
        <5>2. << >> \in Seq(Nat)  OBVIOUS
        <5> QED  BY <3>1, <5>1, <5>2
      <4> HIDE DEF F
      <4> QED  BY <1>0, <2>1, <3>4, <4>1, <4>2
    <3>6. DOMAIN letters' = F  BY <3>5
    <3>7. Written' \cup Removed = Written \cup ToSet(entries)
      <4>1. Written' = UNION {ToSet(letters'[i]) : i \in F}  BY <3>6 DEF Written
      <4>2. Written = UNION {ToSet(letters[i]) : i \in F}  BY <1>0 DEF Written
      <4> HIDE DEF F
      <4>3. ASSUME NEW x \in Written' \cup Removed PROVE x \in Written \cup ToSet(entries)
        <5>1. CASE x \in Removed  BY <5>1, <3>1, <4>2, <1>0
        <5>2. CASE x \in Written'
          <6>1. PICK i \in F : x \in ToSet(letters'[i])  BY <5>2, <4>1
          <6>2. CASE i = 1  BY <6>1, <6>2, <3>5
          <6>3. CASE i # 1  BY <6>1, <6>3, <3>2, <3>5, <4>2
          <6> QED  BY <6>2, <6>3
        <5> QED  BY <4>3, <5>1, <5>2
      <4>4. ASSUME NEW x \in Written PROVE x \in Written' \cup Removed
        <5>1. PICK i \in F : x \in ToSet(letters[i])  BY <4>2
        <5>2. CASE i = MaxFiles + 1  BY <5>1, <5>2, <3>1
        <5>3. CASE i # MaxFiles + 1
          <6>1. i + 1 \in F \ {1} /\ letters'[i + 1] = letters[i]  BY <5>3, <3>3, <3>5
          <6> QED  BY <5>1, <6>1, <4>1
        <5> QED  BY <5>2, <5>3
      <4>5. ToSet(entries) \subseteq Written'  BY <4>1, <3>5, <1>0
      <4> QED  BY <4>3, <4>4, <4>5
    <3> QED  BY <2>1, <3>5, <3>7
  <2> QED  BY <2>2, <2>3
<1> QED  BY <1>1, <1>2

(* The next entry is new to everything that waits or ended. *)
LEMMA NextIsNew ==
  ASSUME ShipperInv
  PROVE  /\ emitted + 1 \in Nat /\ emitted + 1 \notin Unsent \cup Ended
         /\ \A e \in Unsent \cup Ended : e \in Nat /\ e < emitted + 1
         /\ 1 .. emitted + 1 = Unsent \cup Ended \cup {emitted + 1}
<1>1. emitted \in Nat /\ 1 .. emitted = Unsent \cup Ended  BY DEF ShipperInv, ShipperTypeOK
<1>2. 1 .. emitted + 1 = (1 .. emitted) \cup {emitted + 1}  BY <1>1
<1>3. \A e \in 1 .. emitted : e \in Nat /\ e < emitted + 1  BY <1>1
<1>4. emitted + 1 \notin 1 .. emitted /\ emitted + 1 \in Nat  BY <1>1
<1> QED  BY <1>1, <1>2, <1>3, <1>4

(* An entry that is logged is queued, or discarded when the queue is full. *)
LEMMA EmitKeepsInv == ASSUME ShipperInv, Emit PROVE ShipperInv'
<1> DEFINE e == emitted + 1
<1>1. /\ emitted' = e /\ batch' = batch /\ received' = received
      /\ queue \in Seq(Nat) /\ batch \in Seq(Nat) /\ received \in Seq(Nat)
      /\ letters \in [1 .. MaxFiles + 1 -> Seq(Nat)]
  BY DEF Emit, ShipperInv, ShipperTypeOK
<1>2. /\ e \in Nat /\ e \notin Unsent \cup Ended
      /\ \A f \in Unsent \cup Ended : f \in Nat /\ f < e
      /\ 1 .. e = Unsent \cup Ended \cup {e}
  BY NextIsNew
<1> HIDE DEF e
<1>3. CASE queue' = Append(queue, e) /\ UNCHANGED <<letters, discarded, refused>>
  <2>1. queue' \in Seq(Nat) /\ ToSet(queue') = ToSet(queue) \cup {e}
    <3>1. queue \in Seq(Nat) /\ e \in Nat /\ queue' = Append(queue, e)  BY <1>1, <1>2, <1>3
    <3>2. ToSet(Append(queue, e)) = ToSet(queue) \cup {e}  BY ONLY <3>1, ElementsOfAppend
    <3> QED  BY <3>1, <3>2
  <2>2. Ended' = Ended /\ Unsent' = Unsent \cup {e} /\ Written' = Written
    BY <1>1, <1>3, <2>1 DEF Ended, Unsent, Written
  <2>3. Increasing(queue')
    <3> SUFFICES ASSUME NEW i \in DOMAIN queue', NEW j \in DOMAIN queue', i < j
                 PROVE  queue'[i] < queue'[j]
      BY DEF Increasing
    <3>1. /\ Len(queue) \in Nat /\ DOMAIN queue = 1 .. Len(queue) /\ DOMAIN queue' = 1 .. Len(queue) + 1
          /\ queue'[Len(queue) + 1] = e /\ \A k \in 1 .. Len(queue) : queue'[k] = queue[k]
      BY <1>1, <1>2, <1>3
    <3>2. i \in 1 .. Len(queue) /\ queue'[i] = queue[i]  BY <3>1
    <3>3. CASE j = Len(queue) + 1
      <4>1. queue[i] \in Unsent  BY <3>1, <3>2 DEF Unsent, ToSet
      <4> QED  BY <3>1, <3>2, <3>3, <4>1, <1>2
    <3>4. CASE j # Len(queue) + 1
      <4>1. j \in 1 .. Len(queue) /\ queue'[j] = queue[j]  BY <3>1, <3>4
      <4> QED  BY <3>1, <3>2, <4>1 DEF ShipperInv, InLine, Increasing
    <3> QED  BY <3>3, <3>4
  <2>4. InLine'
    <3>1. \A f \in ToSet(batch) : f < e  BY <1>2 DEF Unsent
    <3> QED  BY <1>1, <2>1, <2>3, <3>1 DEF ShipperInv, InLine
  <2>5. SentInOrder'
    <3>1. \A f \in ToSet(received) : f < e  BY <1>2 DEF Ended
    <3> QED  BY <1>1, <2>2, <3>1 DEF ShipperInv, SentInOrder, InBatchOrder, OnlyRepeats
  <2>6. ShipperTypeOK'  BY <1>1, <1>2, <1>3, <2>1 DEF ShipperTypeOK
  <2>7. ToSet(queue') \cap Ended' = {}  BY <1>2, <2>1, <2>2 DEF ShipperInv
  <2>8. ToSet(batch') \cap (Written' \cup discarded' \cup refused') = {}
    BY <1>1, <1>3, <2>2 DEF ShipperInv
  <2>9. 1 .. emitted' = Unsent' \cup Ended'  BY <1>1, <1>2, <2>2
  <2> QED  BY <2>4, <2>5, <2>6, <2>7, <2>8, <2>9 DEF ShipperInv
<1>4. ASSUME queue' = queue, letters' \in [1 .. MaxFiles + 1 -> Seq(Nat)],
             Written' \cup discarded' \cup refused' = Written \cup discarded \cup refused \cup {e}
      PROVE  ShipperInv'
  <2>1. Ended' = Ended \cup {e} /\ Unsent' = Unsent  BY <1>1, <1>4 DEF Ended, Unsent
  <2>2. ShipperTypeOK'  BY <1>1, <1>2, <1>4 DEF ShipperTypeOK
  <2>3. InLine' /\ SentInOrder'
    BY <1>1, <1>4, <2>1
       DEF ShipperInv, InLine, Increasing, SentInOrder, InBatchOrder, OnlyRepeats
  <2>4. e \notin ToSet(queue) /\ e \notin ToSet(batch)  BY <1>2 DEF Unsent
  <2>5. ToSet(queue') \cap Ended' = {}  BY <1>4, <2>1, <2>4 DEF ShipperInv
  <2>6. ToSet(batch') \cap (Written' \cup discarded' \cup refused') = {}
    BY <1>1, <1>4, <2>4 DEF ShipperInv
  <2>7. 1 .. emitted' = Unsent' \cup Ended'  BY <1>1, <1>2, <2>1
  <2> QED  BY <2>2, <2>3, <2>5, <2>6, <2>7 DEF ShipperInv
<1>5. CASE WriteLetters(<<e>>) /\ UNCHANGED <<queue, refused, faults>>
  <2>1. <<e>> \in Seq(Nat) /\ ToSet(<<e>>) = {e}  BY <1>2 DEF ToSet
  <2>2. /\ letters' \in [1 .. MaxFiles + 1 -> Seq(Nat)]
        /\ Written' \cup discarded' = Written \cup discarded \cup {e}
    BY <1>5, <2>1, WrittenIsKept DEF ShipperInv
  <2> QED  BY <1>4, <1>5, <2>2
<1>6. CASE refused' = refused \cup {e} /\ UNCHANGED <<queue, letters, discarded>>
  <2>1. Written' = Written  BY <1>6 DEF Written
  <2> QED  BY <1>1, <1>4, <1>6, <2>1
<1> QED  BY <1>3, <1>5, <1>6 DEF Emit, e

(* The worker takes the oldest entries as its batch. *)
LEMMA TakeKeepsInv == ASSUME ShipperInv, Take PROVE ShipperInv'
<1> DEFINE h == Head(queue)
<1>1. /\ queue \in Seq(Nat) /\ queue # << >> /\ batch \in Seq(Nat) /\ received \in Seq(Nat)
      /\ queue' = Tail(queue) /\ batch' = Append(batch, h)
      /\ UNCHANGED <<emitted, received, letters, discarded, refused>>
  BY DEF Take, ShipperInv, ShipperTypeOK
<1>2. ToSet(queue) = {h} \cup ToSet(queue') /\ h \in Nat  BY <1>1, ElementsOfTail
<1>3. ToSet(batch') = ToSet(batch) \cup {h}
  <2>1. ToSet(Append(batch, h)) = ToSet(batch) \cup {h}  BY <1>1, <1>2, ElementsOfAppend
  <2> QED  BY <2>1, <1>1
<1>4. /\ Len(queue) \in Nat \ {0} /\ h = queue[1] /\ queue' \in Seq(Nat)
      /\ Len(queue') = Len(queue) - 1 /\ DOMAIN queue = 1 .. Len(queue)
      /\ DOMAIN queue' = 1 .. Len(queue) - 1
      /\ \A i \in 1 .. Len(queue) - 1 : queue'[i] = queue[i + 1]
  BY <1>1
<1> HIDE DEF h
<1>5. /\ Len(batch) \in Nat /\ batch' \in Seq(Nat) /\ DOMAIN batch = 1 .. Len(batch)
      /\ DOMAIN batch' = 1 .. Len(batch) + 1 /\ batch'[Len(batch) + 1] = h
      /\ \A i \in 1 .. Len(batch) : batch'[i] = batch[i]
  BY <1>1, <1>2
<1>6. Unsent' = Unsent /\ Ended' = Ended /\ Written' = Written
  BY <1>1, <1>2, <1>3 DEF Unsent, Ended, Written
<1>7. \A f \in ToSet(queue') : h < f
  <2> SUFFICES ASSUME NEW f \in ToSet(queue') PROVE h < f  OBVIOUS
  <2>1. PICK i \in DOMAIN queue' : queue'[i] = f  BY DEF ToSet
  <2>2. i + 1 \in DOMAIN queue /\ 1 \in DOMAIN queue /\ 1 < i + 1 /\ queue[i + 1] = f
    BY <2>1, <1>4
  <2> QED  BY <2>2, <1>4 DEF ShipperInv, InLine, Increasing
<1>8. \A f \in ToSet(batch) : f < h  BY <1>2 DEF ShipperInv, InLine
<1>9. InLine'
  <2>1. Increasing(batch')
    <3> SUFFICES ASSUME NEW i \in DOMAIN batch', NEW j \in DOMAIN batch', i < j
                 PROVE  batch'[i] < batch'[j]
      BY DEF Increasing
    <3>1. i \in 1 .. Len(batch) /\ batch'[i] = batch[i]  BY <1>5
    <3>2. CASE j = Len(batch) + 1
      <4>1. batch[i] \in ToSet(batch)  BY <3>1, <1>5 DEF ToSet
      <4> QED  BY <3>1, <3>2, <4>1, <1>5, <1>8
    <3>3. CASE j # Len(batch) + 1
      <4>1. j \in 1 .. Len(batch) /\ batch'[j] = batch[j]  BY <3>3, <1>5
      <4> QED  BY <3>1, <4>1, <1>5 DEF ShipperInv, InLine, Increasing
    <3> QED  BY <3>2, <3>3
  <2>2. Increasing(queue')
    <3> SUFFICES ASSUME NEW i \in DOMAIN queue', NEW j \in DOMAIN queue', i < j
                 PROVE  queue'[i] < queue'[j]
      BY DEF Increasing
    <3>1. i + 1 \in DOMAIN queue /\ j + 1 \in DOMAIN queue /\ i + 1 < j + 1  BY <1>4
    <3> QED  BY <3>1, <1>4 DEF ShipperInv, InLine, Increasing
  <2>3. \A e \in ToSet(batch'), f \in ToSet(queue') : e < f
    BY <1>2, <1>3, <1>7 DEF ShipperInv, InLine
  <2> QED  BY <2>1, <2>2, <2>3 DEF InLine
<1>10. h \notin Ended  BY <1>2 DEF ShipperInv
<1>11. SentInOrder'
  <2>1. \A e \in ToSet(received') \ ToSet(batch'), p \in Unsent' : e < p
    BY <1>1, <1>3, <1>6 DEF ShipperInv, SentInOrder
  <2>2. ASSUME NEW i \in DOMAIN received', NEW m \in DOMAIN batch', NEW q \in DOMAIN batch',
               m < q, received'[i] = batch'[q]
        PROVE  \E k \in 1 .. i - 1 : received'[k] = batch'[m]
    <3>1. q # Len(batch) + 1
      <4>1. received[i] \in Ended  BY <1>1 DEF ToSet, Ended
      <4> QED  BY <2>2, <4>1, <1>1, <1>5, <1>10
    <3>2. m \in DOMAIN batch /\ q \in DOMAIN batch /\ batch'[m] = batch[m] /\ batch'[q] = batch[q]
      BY <3>1, <2>2, <1>5
    <3>3. received' = received /\ i \in DOMAIN received /\ received[i] = batch[q]
      BY <3>2, <2>2, <1>1
    <3>4. \E k \in 1 .. i - 1 : received[k] = batch[m]
      BY <3>2, <3>3, <2>2 DEF ShipperInv, SentInOrder, InBatchOrder
    <3> QED  BY <3>2, <3>3, <3>4
  <2>3. OnlyRepeats(received)'  BY <1>1 DEF ShipperInv, SentInOrder, OnlyRepeats
  <2>4. InBatchOrder(received)'  BY <2>2 DEF InBatchOrder
  <2> QED  BY <2>1, <2>3, <2>4 DEF SentInOrder
<1>12. ShipperTypeOK'  BY <1>1, <1>4, <1>5 DEF ShipperInv, ShipperTypeOK
<1>13. ToSet(queue') \cap Ended' = {}  BY <1>2, <1>6 DEF ShipperInv
<1>14. ToSet(batch') \cap (Written' \cup discarded' \cup refused') = {}
  BY <1>1, <1>3, <1>6, <1>10 DEF ShipperInv, Ended
<1>15. 1 .. emitted' = Unsent' \cup Ended'  BY <1>1, <1>6 DEF ShipperInv
<1> QED  BY <1>9, <1>11, <1>12, <1>13, <1>14, <1>15 DEF ShipperInv

(* Sending the first n entries of the batch, again or not, repeats nothing    *)
(* older than the batch.                                                    *)
LEMMA SendingKeepsOrder ==
  ASSUME ShipperInv, NEW n \in 0 .. Len(batch), NEW r, r = received \o SubSeq(batch, 1, n)
  PROVE  /\ r \in Seq(Nat) /\ ToSet(received) \subseteq ToSet(r)
         /\ ToSet(r) \subseteq ToSet(received) \cup ToSet(batch)
         /\ n = Len(batch) => ToSet(batch) \subseteq ToSet(r)
         /\ InBatchOrder(r) /\ OnlyRepeats(r)
<1> DEFINE R == Len(received)
           s == SubSeq(batch, 1, n)
<1>1. /\ R \in Nat /\ n \in Nat /\ DOMAIN received = 1 .. R /\ DOMAIN batch = 1 .. Len(batch)
      /\ Len(batch) \in Nat /\ n =< Len(batch) /\ received \in Seq(Nat) /\ batch \in Seq(Nat)
  BY DEF ShipperInv, ShipperTypeOK
<1>2. s \in Seq(Nat) /\ Len(s) = n /\ \A i \in 1 .. n : s[i] = batch[i]
  BY <1>1
<1> HIDE DEF s
<1>3. /\ r \in Seq(Nat) /\ Len(r) = R + n /\ DOMAIN r = 1 .. R + n
      /\ \A i \in 1 .. R : r[i] = received[i]
  BY <1>1, <1>2 DEF s
<1>4. \A i \in 1 .. n : r[R + i] = batch[i]
  <2>1. \A i \in 1 .. n : (received \o s)[R + i] = s[i]  BY <1>1, <1>2
  <2> QED  BY <2>1, <1>2 DEF s
<1> HIDE DEF R
<1>5. ASSUME NEW i \in DOMAIN r, i \notin 1 .. R
      PROVE  i - R \in 1 .. n /\ i - R \in DOMAIN batch /\ r[i] = batch[i - R]
  <2>1. i - R \in 1 .. n /\ R + (i - R) = i  BY <1>1, <1>3, <1>5
  <2> QED  BY SMTT(30), <2>1, <1>1, <1>4
<1>6. ToSet(r) \subseteq ToSet(received) \cup ToSet(batch)
  <2> SUFFICES ASSUME NEW i \in DOMAIN r PROVE r[i] \in ToSet(received) \cup ToSet(batch)
    BY DEF ToSet
  <2>1. CASE i \in 1 .. R  BY <2>1, <1>1, <1>3 DEF ToSet
  <2>2. CASE i \notin 1 .. R  BY <2>2, <1>5 DEF ToSet
  <2> QED  BY <2>1, <2>2
<1>7. ToSet(received) \subseteq ToSet(r)
  <2> SUFFICES ASSUME NEW i \in DOMAIN received PROVE received[i] \in ToSet(r)  BY DEF ToSet
  <2>1. i \in DOMAIN r /\ r[i] = received[i]  BY <1>1, <1>3
  <2> QED  BY <2>1 DEF ToSet
<1>8. n = Len(batch) => ToSet(batch) \subseteq ToSet(r)
  <2> SUFFICES ASSUME n = Len(batch), NEW i \in DOMAIN batch PROVE batch[i] \in ToSet(r)
    BY DEF ToSet
  <2>1. R + i \in DOMAIN r /\ r[R + i] = batch[i]  BY SMTT(30), <1>1, <1>3, <1>4
  <2> QED  BY <2>1 DEF ToSet
<1>9. ASSUME NEW i \in DOMAIN r, NEW m \in DOMAIN batch, NEW q \in DOMAIN batch,
             m < q, r[i] = batch[q]
      PROVE  \E k \in 1 .. i - 1 : r[k] = batch[m]
  <2>1. CASE i \in 1 .. R
    <3>1. received[i] = batch[q] /\ i \in DOMAIN received  BY <2>1, <1>1, <1>3, <1>9
    <3>2. PICK k \in 1 .. i - 1 : received[k] = batch[m]
      BY <3>1, <1>9 DEF ShipperInv, SentInOrder, InBatchOrder
    <3>3. k \in 1 .. R  BY <2>1, <1>1
    <3> QED  BY <3>2, <3>3, <1>3
  <2>2. CASE i \notin 1 .. R
    <3>1. i - R \in 1 .. n /\ i - R \in DOMAIN batch /\ r[i] = batch[i - R]  BY <2>2, <1>5
    <3>2. i - R = q
      <4>1. batch[i - R] = batch[q] /\ batch[q] \in Nat  BY SMTT(30), <3>1, <1>1, <1>9
      <4>2. ~(i - R < q) /\ ~(q < i - R)
        BY <3>1, <4>1, <1>9 DEF ShipperInv, InLine, Increasing
      <4> QED  BY <4>2, <3>1, <1>1
    <3>3. i \in Nat /\ m \in Nat /\ q \in Nat /\ m >= 1 /\ q =< n  BY SMTT(30), <1>1, <1>3, <3>1, <3>2
    <3>4. m \in 1 .. n /\ R + m \in 1 .. i - 1
      <4>1. i = R + q /\ m < q  BY <3>2, <3>3, <1>9, <1>1
      <4> QED  BY ONLY <4>1, <3>3, <1>1
    <3>5. r[R + m] = batch[m]  BY <3>4, <1>4
    <3> QED  BY <3>4, <3>5
  <2> QED  BY <2>1, <2>2
<1>10. ASSUME NEW i \in DOMAIN r, NEW j \in DOMAIN r, i < j, r[j] < r[i]
       PROVE  \E k \in 1 .. i - 1 : r[k] = r[j]
  <2>0. i \in Nat /\ j \in Nat /\ i >= 1 /\ j >= 1 /\ r[i] \in Nat /\ r[j] \in Nat
    <3>1. \A k \in DOMAIN r : r[k] \in Nat  BY <1>3
    <3>2. i \in 1 .. R + n /\ j \in 1 .. R + n  BY <1>3
    <3>3. i \in Nat /\ j \in Nat /\ i >= 1 /\ j >= 1  BY <3>2, <1>1
    <3> QED  BY <3>1, <3>3
  <2>1. CASE j \in 1 .. R
    <3>1. i \in 1 .. R /\ j \in 1 .. R  BY <2>0, <2>1, <1>1, <1>10
    <3>2. received[i] = r[i] /\ received[j] = r[j]  BY <3>1, <1>3
    <3>3. PICK k \in 1 .. i - 1 : received[k] = received[j]
      BY <3>1, <3>2, <1>1, <1>10 DEF ShipperInv, SentInOrder, OnlyRepeats
    <3>4. k \in 1 .. R  BY <3>1, <1>1
    <3> QED  BY <3>2, <3>3, <3>4, <1>3
  <2>2. CASE j \notin 1 .. R
    <3>1. j - R \in 1 .. n /\ j - R \in DOMAIN batch /\ r[j] = batch[j - R]  BY <2>2, <1>5
    <3>2. CASE i \in 1 .. R
      <4>1. received[i] = r[i] /\ i \in DOMAIN received /\ received[i] \in ToSet(received)
        BY <3>2, <1>1, <1>3 DEF ToSet
      <4>2. r[j] \in Unsent  BY <3>1 DEF ToSet, Unsent
      <4>3. received[i] \in ToSet(batch)
        <5>1. ~(received[i] < r[j])  BY <4>1, <2>0, <1>10
        <5> QED  BY <5>1, <4>1, <4>2 DEF ShipperInv, SentInOrder
      <4>4. PICK q \in DOMAIN batch : batch[q] = received[i]  BY <4>3 DEF ToSet
      <4>5. j - R < q
        <5>1. batch[j - R] < batch[q]  BY <4>4, <4>1, <3>1, <1>10
        <5>2. batch[q] \in Nat /\ batch[j - R] \in Nat /\ q \in Nat /\ j - R \in Nat
          BY SMTT(30), <1>1, <3>1
        <5>3. ~(q < j - R)  BY <5>1, <5>2, <3>1 DEF ShipperInv, InLine, Increasing
        <5>4. q # j - R  BY <5>1, <5>2
        <5> QED  BY <5>2, <5>3, <5>4
      <4>6. r[i] = batch[q] /\ j - R \in DOMAIN batch  BY <3>1, <4>1, <4>4
      <4>7. \E k \in 1 .. i - 1 : r[k] = batch[j - R]  BY ONLY <1>9, <4>4, <4>5, <4>6
      <4> QED  BY <3>1, <4>7
    <3>3. CASE i \notin 1 .. R
      <4>1. i - R \in 1 .. n /\ i - R \in DOMAIN batch /\ r[i] = batch[i - R]  BY <3>3, <1>5
      <4>2. i - R < j - R  BY <1>10, <2>0, <1>1
      <4>3. r[i] < r[j]  BY <4>1, <4>2, <3>1 DEF ShipperInv, InLine, Increasing
      <4>4. PICK a, b \in Nat : a = r[i] /\ b = r[j]  BY <2>0
      <4>5. a < b /\ b < a  BY <4>3, <4>4, <1>10
      <4>6. FALSE  BY ONLY <4>5
      <4> QED  BY <4>6
    <3> QED  BY <3>2, <3>3
  <2> QED  BY <2>1, <2>2
<1> QED  BY <1>3, <1>6, <1>7, <1>8, <1>9, <1>10 DEF InBatchOrder, OnlyRepeats

(* What leaves the batch for good went out before all that waits.            *)
LEMMA BatchGoneKeepsInv ==
  ASSUME ShipperInv, batch' = << >>, UNCHANGED <<emitted, queue>>, ShipperTypeOK',
         ToSet(received') \subseteq ToSet(received) \cup ToSet(batch), Ended' = Ended \cup ToSet(batch),
         OnlyRepeats(received')
  PROVE  ShipperInv'
<1>1. ToSet(batch') = {} /\ DOMAIN batch' = {}  BY ElementsOfNothing
<1>2. Unsent' = ToSet(queue) /\ Unsent = ToSet(batch) \cup ToSet(queue)  BY <1>1 DEF Unsent
<1>3. \A e \in ToSet(batch) : e \in Nat
  BY DEF ShipperInv, ShipperTypeOK, ToSet
<1>4. ToSet(queue) \cap ToSet(batch) = {}
  <2> SUFFICES ASSUME NEW e \in ToSet(batch), e \in ToSet(queue) PROVE FALSE  OBVIOUS
  <2>1. e < e /\ e \in Nat  BY <1>3 DEF ShipperInv, InLine
  <2> QED  BY <2>1
<1>5. InLine'  BY <1>1 DEF ShipperInv, InLine, Increasing
<1>6. \A e \in ToSet(received'), p \in Unsent' : e < p
  BY <1>2 DEF ShipperInv, InLine, SentInOrder
<1>7. SentInOrder'  BY <1>1, <1>6 DEF SentInOrder, OnlyRepeats, InBatchOrder
<1>8. ToSet(queue') \cap Ended' = {}  BY <1>4 DEF ShipperInv
<1>9. 1 .. emitted' = Unsent' \cup Ended'  BY <1>2 DEF ShipperInv
<1> QED  BY <1>1, <1>5, <1>7, <1>8, <1>9 DEF ShipperInv

(* A send that is answered, or whose answer is lost, or that is refused. *)
LEMMA SendKeepsInv == ASSUME ShipperInv, Send PROVE ShipperInv'
<1>1. /\ received' = received \o batch /\ batch' = << >>
      /\ UNCHANGED <<emitted, queue, letters, discarded, refused>>
      /\ batch \in Seq(Nat)
  BY DEF Send, ShipperInv, ShipperTypeOK
<1>2. Len(batch) \in 0 .. Len(batch) /\ received' = received \o SubSeq(batch, 1, Len(batch))
  <2>1. SubSeq(batch, 1, Len(batch)) = batch  BY <1>1
  <2> QED  BY <1>1, <2>1
<1>3. /\ received' \in Seq(Nat) /\ ToSet(received') = ToSet(received) \cup ToSet(batch)
      /\ OnlyRepeats(received')
  BY <1>2, SendingKeepsOrder
<1>4. ShipperTypeOK'  BY <1>1, <1>3 DEF ShipperInv, ShipperTypeOK
<1>5. Ended' = Ended \cup ToSet(batch)
  <2>1. Written' = Written  BY <1>1 DEF Written
  <2> QED  BY <1>1, <1>3, <2>1 DEF Ended
<1> QED  BY <1>1, <1>3, <1>4, <1>5, BatchGoneKeepsInv

(* A send that fails keeps its batch for the next attempt, or for the dead    *)
(* letters.                                                                   *)
LEMMA SendFailsKeepsInv == ASSUME ShipperInv, SendFails PROVE ShipperInv'
<1>1. /\ UNCHANGED <<batch, emitted, queue, letters, discarded, refused>>
      /\ batch \in Seq(Nat) /\ received \in Seq(Nat)
  BY DEF SendFails, ShipperInv, ShipperTypeOK
<1>2. PICK n \in Arriving : received' = received \o SubSeq(batch, 1, n)  BY DEF SendFails
<1>3. n \in 0 .. Len(batch)
  <2>1. Len(batch) \in Nat  BY <1>1
  <2> QED  BY <2>1, <1>2 DEF Arriving
<1>4. /\ received' \in Seq(Nat) /\ ToSet(received) \subseteq ToSet(received')
      /\ ToSet(received') \subseteq ToSet(received) \cup ToSet(batch)
      /\ InBatchOrder(received')
      /\ OnlyRepeats(received')
  BY <1>2, <1>3, SendingKeepsOrder
<1>5. ShipperTypeOK'  BY <1>1, <1>4 DEF ShipperInv, ShipperTypeOK
<1>6. Unsent' = Unsent /\ Written' = Written  BY <1>1 DEF Unsent, Written
<1>7. Ended \subseteq Ended' /\ Ended' \subseteq Ended \cup ToSet(batch)
  BY <1>1, <1>4, <1>6 DEF Ended
<1>8. 1 .. emitted' = Unsent' \cup Ended'  BY <1>1, <1>6, <1>7 DEF ShipperInv, Unsent
<1>9. \A e \in ToSet(batch) : e \notin ToSet(queue)
  <2> SUFFICES ASSUME NEW e \in ToSet(batch), e \in ToSet(queue) PROVE FALSE  OBVIOUS
  <2>1. e \in Nat  BY <1>1 DEF ToSet
  <2>2. e < e  BY DEF ShipperInv, InLine
  <2> QED  BY <2>1, <2>2
<1>10. ToSet(queue') \cap Ended' = {}  BY <1>1, <1>7, <1>9 DEF ShipperInv
<1>11. InLine'  BY <1>1 DEF ShipperInv, InLine, Increasing
<1>12. SentInOrder'
  <2>1. \A e \in ToSet(received') \ ToSet(batch'), p \in Unsent' : e < p
    BY <1>1, <1>4, <1>6 DEF ShipperInv, SentInOrder
  <2> QED  BY <1>1, <1>4, <2>1 DEF SentInOrder, InBatchOrder, OnlyRepeats
<1> QED  BY <1>1, <1>5, <1>6, <1>8, <1>10, <1>11, <1>12 DEF ShipperInv

(* A batch that is given up is written to the dead letters, or lost to a      *)
(* full disk.                                                                 *)
LEMMA WriteBatchKeepsInv == ASSUME ShipperInv, WriteBatch PROVE ShipperInv'
<1>1. /\ batch' = << >> /\ WriteLetters(batch) /\ UNCHANGED <<emitted, queue, received, refused>>
      /\ ShipperTypeOK /\ batch \in Seq(Nat)
  BY DEF WriteBatch, ShipperInv, ShipperTypeOK
<1>2. /\ letters' \in [1 .. MaxFiles + 1 -> Seq(Nat)]
      /\ Written' \cup discarded' = Written \cup discarded \cup ToSet(batch)
  BY <1>1, WrittenIsKept
<1>3. ShipperTypeOK'  BY <1>1, <1>2 DEF ShipperTypeOK
<1>4. Ended' = Ended \cup ToSet(batch)  BY <1>1, <1>2 DEF Ended
<1>5. OnlyRepeats(received')
  BY <1>1 DEF ShipperInv, SentInOrder
<1> QED  BY <1>1, <1>3, <1>4, <1>5, BatchGoneKeepsInv

(* The steps that move no entry, and then all steps. *)
LEMMA ShipperRestKeepsInv ==
  ASSUME ShipperInv, UNCHANGED <<emitted, queue, batch, received, letters, discarded, refused>>
  PROVE  ShipperInv'
<1>1. Unsent' = Unsent /\ Written' = Written /\ Ended' = Ended  BY DEF Unsent, Written, Ended
<1> QED  BY <1>1 DEF ShipperInv, ShipperTypeOK, InLine, Increasing, SentInOrder, InBatchOrder, OnlyRepeats

(* Every step of the shipper keeps the invariant. *)
LEMMA ShipperNextKeepsInv ==
  ASSUME ShipperInv, [ShipperNext]_shipperVars PROVE ShipperInv'
<1>1. CASE Emit  BY <1>1, EmitKeepsInv
<1>2. CASE Take  BY <1>2, TakeKeepsInv
<1>3. CASE FlushInterval  BY <1>3, ShipperRestKeepsInv DEF FlushInterval
<1>4. CASE EndWorker  BY <1>4, ShipperRestKeepsInv DEF EndWorker
<1>5. CASE Send  BY <1>5, SendKeepsInv
<1>6. CASE SendFails  BY <1>6, SendFailsKeepsInv
<1>7. CASE WriteBatch  BY <1>7, WriteBatchKeepsInv
<1>8. CASE DieWriting  BY <1>8, ShipperRestKeepsInv DEF DieWriting
<1>9. CASE CloseHandler  BY <1>9, ShipperRestKeepsInv DEF CloseHandler
<1>10. CASE UNCHANGED shipperVars  BY <1>10, ShipperRestKeepsInv DEF shipperVars
<1> QED  BY <1>1, <1>2, <1>3, <1>4, <1>5, <1>6, <1>7, <1>8, <1>9, <1>10 DEF ShipperNext, WorkerStep

(* The invariant implies what NothingLost promises. *)
LEMMA ShipperInvImpliesNothingLost == ASSUME ShipperInv PROVE NothingLost
<1> DEFINE B == Len(batch)
           w == batch \o queue
<1>1. batch \in Seq(Nat) /\ queue \in Seq(Nat) /\ B \in Nat /\ Len(queue) \in Nat
      /\ DOMAIN batch = 1 .. B /\ DOMAIN queue = 1 .. Len(queue)
  BY DEF ShipperInv, ShipperTypeOK
<1>2. DOMAIN w = 1 .. B + Len(queue) /\ \A i \in 1 .. B : w[i] = batch[i]  BY <1>1
<1>3. \A i \in 1 .. Len(queue) : w[B + i] = queue[i]  BY <1>1
<1> HIDE DEF w, B
<1>4. ASSUME NEW i \in DOMAIN w, i \notin 1 .. B
      PROVE  i - B \in DOMAIN queue /\ w[i] = queue[i - B]
  <2>1. i - B \in 1 .. Len(queue) /\ B + (i - B) = i  BY <1>1, <1>2, <1>4
  <2> QED  BY <2>1, <1>1, <1>3
<1>5. ASSUME NEW i \in DOMAIN w, NEW j \in DOMAIN w, i < j PROVE w[i] < w[j]
  <2>0. i \in Nat /\ j \in Nat /\ i >= 1  BY <1>1, <1>2
  <2>1. CASE j \in 1 .. B
    <3>1. i \in 1 .. B  BY <2>0, <2>1, <1>1, <1>5
    <3> QED  BY <3>1, <2>1, <1>1, <1>2, <1>5 DEF ShipperInv, InLine, Increasing
  <2>2. CASE j \notin 1 .. B /\ i \in 1 .. B
    <3>1. w[j] \in ToSet(queue)  BY <2>2, <1>4 DEF ToSet
    <3>2. w[i] \in ToSet(batch)  BY <2>2, <1>1, <1>2 DEF ToSet
    <3> QED  BY <3>1, <3>2 DEF ShipperInv, InLine
  <2>3. CASE j \notin 1 .. B /\ i \notin 1 .. B
    <3>1. i - B < j - B  BY <2>0, <1>1, <1>5
    <3> QED  BY <3>1, <2>3, <1>4 DEF ShipperInv, InLine, Increasing
  <2> QED  BY <2>1, <2>2, <2>3
<1> QED  BY <1>5 DEF ShipperInv, SentInOrder, OnlyRepeats, NothingLost, w

(* SiemShipper.NothingLost: no entry is lost between the queue, the batch,    *)
(* the SIEM and the dead-letter files, none overtakes another, and a retry     *)
(* repeats nothing but the batch in hand.                                    *)
THEOREM NothingIsLost == ShipperSpec => []NothingLost
<1>1. ShipperInit => ShipperInv  BY ShipperInitInv
<1>2. ShipperInv /\ [ShipperNext]_shipperVars => ShipperInv'  BY ShipperNextKeepsInv
<1>3. ShipperInv => NothingLost  BY ShipperInvImpliesNothingLost
<1> QED  BY <1>1, <1>2, <1>3, PTL DEF ShipperSpec

----------------------------------------------------------------------------
(* The services of the configuration and their rotation.                     *)

Emulator == [name : Configured \cup {Nothing}, config : Profile \cup {Nothing},
             runs : Profile \cup {Nothing}]

Turn == [at : {"resting", "read", "set", "apply", "stop", "unlist", "start", "list"},
         profile : Profile \cup {Nothing}, known : SUBSET Instance, opened : SUBSET Instance]

(* What a rotation has in hand depends on where it is.                        *)
TurnOK(t) ==
  /\ rotation[t].at = "resting" => rotation[t] = Resting
  /\ rotation[t].at # "resting" => rotation[t].profile \in Profile
  /\ rotation[t].at \in {"resting", "read"} => rotation[t].known = {}
  /\ rotation[t].at # "list" => rotation[t].opened = {}
  /\ IsFiniteSet(rotation[t].opened)

(* Rotations are under way only while there is something to rotate.           *)
PhaseOK ==
  /\ phase \in {"new", "bootstrapped"} =>
       /\ \A t \in Rotator : rotation[t] = Resting
       /\ \A s \in Configured : socket[s] = Nothing
  /\ phase = "new" => services = << >>
  /\ phase = "stopped" /\ ~late => \A t \in Rotator : rotation[t] = Resting

RotationTypeOK ==
  /\ phase \in {"new", "bootstrapped", "unstarted", "started", "stopping", "stopped"}
  /\ feed \in Profile /\ services \in Seq(Instance)
  /\ emulator \in [Instance -> Emulator]
  /\ socket \in [Configured -> Instance \cup {Nothing, Deployment}]
  /\ rotation \in [Rotator -> Turn] /\ \A t \in Rotator : TurnOK(t)
  /\ late \in BOOLEAN /\ PhaseOK

Running == ToSet(services)
NameOf(i) == emulator[i].name

(* What was made for a service has its name.                                  *)
NamesKept ==
  /\ \A i \in Running : NameOf(i) \in Configured
  /\ \A t \in Rotator : \A i \in rotation[t].known \cup rotation[t].opened : NameOf(i) \in Configured

(* An emulator that was started and is not listed yet listens, and nobody     *)
(* else has it in hand.                                                     *)
OpenedListen ==
  \A t \in Rotator : \A i \in rotation[t].opened :
    /\ socket[NameOf(i)] = i /\ i \notin Running
    /\ \A u \in Rotator : i \notin rotation[u].known /\ (u # t => i \notin rotation[u].opened)

(* What was stopped does not listen.                                         *)
StoppedSilent ==
  \A t \in Rotator : rotation[t].at = "unlist" =>
    \A i \in ToStop(t) : \A s \in Configured : socket[s] # i

Firm(i) == socket[NameOf(i)] = i

BeforeStart == {"set", "apply", "stop", "unlist", "start"}

(* A service that is about to be started is not listed, or somebody listens    *)
(* for it, or it is about to be unlisted.                                   *)
StartsOnce ==
  phase # "stopped" => \A t \in Rotator :
    /\ rotation[t].at \in BeforeStart => \A i \in Running :
         NameOf(i) \in ToStart(t) => Firm(i) \/ AboutToUnlist(i)
    /\ \A i \in rotation[t].opened, j \in Running :
         NameOf(i) = NameOf(j) => AboutToUnlist(j)

(* ServicesMatch, emulator by emulator.                                       *)
ListenersKnown == \A s \in Configured : \A i \in Instance : socket[s] = i =>
  NameOf(i) = s /\ (i \in Running \/ AboutToList(i))

LoadedListen == phase \in {"started", "stopping"} =>
  \A i \in Running : Firm(i) \/ AboutToUnlist(i)

NamedOnce == phase # "stopped" =>
  \A i, j \in Running : i # j /\ NameOf(i) = NameOf(j) => AboutToUnlist(i) \/ AboutToUnlist(j)

SilentAtTheEnd == phase = "stopped" /\ ~late => \A s \in Configured : socket[s] \notin Instance

RotationInv ==
  /\ RotationTypeOK /\ NamesKept /\ OpenedListen /\ StoppedSilent /\ StartsOnce
  /\ ListenersKnown /\ LoadedListen /\ NamedOnce /\ SilentAtTheEnd

(* A finite set, as a sequence, has its elements.                           *)
LEMMA SeqOfSet ==
  ASSUME NEW S, IsFiniteSet(S)
  PROVE  SetToSeq(S) \in Seq(S) /\ ToSet(SetToSeq(S)) = S
<1> DEFINE n == Cardinality(S)
           q == SetToSeq(S)
<1>1. n \in Nat /\ ExistsBijection(1 .. n, S)  BY FS_CardinalityType
<1>2. PICK b \in Bijection(1 .. n, S) : TRUE  BY <1>1 DEF ExistsBijection
<1>3. b \in [1 .. n -> S] /\ IsInjective(b)
  BY <1>2 DEF Bijection, Injection, IsInjective
<1>4. q \in [1 .. n -> S] /\ IsInjective(q)  BY <1>3 DEF SetToSeq
<1>5. q \in Injection(1 .. n, S)  BY <1>4 DEF Injection, IsInjective
<1>6. IsFiniteSet(1 .. n) /\ Cardinality(1 .. n) = n  BY <1>1, FS_Interval
<1>7. q \in Surjection(1 .. n, S)  BY <1>5, <1>6, FS_Injection
<1>8. \A x \in S : \E k \in 1 .. n : q[k] = x  BY <1>7 DEF Surjection
<1>9. q \in Seq(S) /\ DOMAIN q = 1 .. n  BY <1>1, <1>4
<1> HIDE DEF q
<1>10. ToSet(q) = S  BY <1>4, <1>8, <1>9 DEF ToSet
<1> QED  BY <1>9, <1>10 DEF q

(* A step in which no emulator starts, stops or is listed, and of what        *)
(* rotations have in hand only what is loaded is taken up.                    *)
Quiet(t) ==
  /\ rotation'[t].opened = rotation[t].opened
  /\ rotation'[t].known = rotation[t].known \/ rotation'[t].known \subseteq Running
  /\ (rotation'[t].at = "unlist") <=> (rotation[t].at = "unlist")
  /\ rotation[t].at = "unlist" => rotation'[t] = rotation[t]
  /\ rotation'[t].at \in BeforeStart =>
       \/ /\ rotation[t].at \in BeforeStart
          /\ rotation'[t].known = rotation[t].known /\ rotation'[t].profile = rotation[t].profile
       \/ \A i \in Running : \E j \in rotation'[t].known : NameOf(i) = NameOf(j)

SocketsQuiet == \A s \in Configured :
  socket'[s] = socket[s] \/ (socket'[s] \notin Instance /\ socket[s] \notin Instance)

PhaseQuiet ==
  /\ phase' # "stopped" => phase # "stopped"
  /\ phase' \in {"started", "stopping"} => phase \in {"started", "stopping"}
  /\ phase' = "stopped" /\ ~late' => phase = "stopped" /\ ~late

(* What is loaded are emulators.                                            *)
LEMMA RunningIsInstance ==
  ASSUME RotationTypeOK PROVE Running \subseteq Instance
BY DEF RotationTypeOK, Running, ToSet

(* A quiet step keeps the invariant.                                         *)
LEMMA QuietKeepsInv ==
  ASSUME RotationInv, RotationTypeOK', services' = services, SocketsQuiet, PhaseQuiet,
         \A i \in Instance : emulator'[i].name = emulator[i].name, \A t \in Rotator : Quiet(t)
  PROVE  RotationInv'
<1> USE DEF RotationInv
<1>0. Running \subseteq Instance /\ Running' = Running
      /\ \A t \in Rotator :
           /\ rotation[t].known \subseteq Instance /\ rotation[t].opened \subseteq Instance
           /\ rotation'[t].known \subseteq Instance
  <2>1. Running' = Running  BY DEF Running
  <2>2. rotation \in [Rotator -> Turn] /\ rotation' \in [Rotator -> Turn]  BY DEF RotationTypeOK
  <2> QED  BY <2>1, <2>2, RunningIsInstance DEF Turn
<1>1. \A i \in Instance : NameOf(i)' = NameOf(i)  BY DEF NameOf
<1>2. \A t \in Rotator : rotation[t].at = "unlist" \/ rotation'[t].at = "unlist" =>
        /\ rotation'[t].at = "unlist" /\ rotation[t].at = "unlist"
        /\ \A i \in Instance : i \in ToStop(t)' <=> i \in ToStop(t)
  BY DEF Quiet, ToStop, Kept, Wanted
<1>3. \A i \in Instance : AboutToUnlist(i)' <=> AboutToUnlist(i)
  <2> SUFFICES ASSUME NEW i \in Instance PROVE AboutToUnlist(i)' <=> AboutToUnlist(i)  OBVIOUS
  <2>1. \A t \in Rotator : (rotation'[t].at = "unlist" /\ i \in ToStop(t)') <=>
                           (rotation[t].at = "unlist" /\ i \in ToStop(t))
    BY <1>2
  <2> QED  BY <2>1 DEF AboutToUnlist
<1>4. \A i \in Instance : AboutToList(i)' <=> AboutToList(i)
  BY DEF AboutToList, Quiet
<1>5. \A s \in Configured : \A i \in Instance : socket'[s] = i <=> socket[s] = i
  BY DEF SocketsQuiet
<1>6. NamesKept'
  <2>1. (\A i \in Running : NameOf(i) \in Configured)'  BY <1>0, <1>1 DEF NamesKept
  <2>2. ASSUME NEW t \in Rotator, NEW i \in rotation'[t].known \cup rotation'[t].opened
        PROVE  NameOf(i)' \in Configured
    <3>1. Quiet(t)  OBVIOUS
    <3>2. i \in Instance /\ (i \in rotation[t].known \cup rotation[t].opened \/ i \in Running)
      BY <1>0, <3>1 DEF Quiet
    <3> QED  BY <3>2, <1>1 DEF NamesKept
  <2> QED  BY <2>1, <2>2 DEF NamesKept
<1>7. OpenedListen'
  <2> SUFFICES ASSUME NEW t \in Rotator, NEW i \in rotation'[t].opened
               PROVE  /\ socket'[NameOf(i)'] = i /\ i \notin Running'
                      /\ \A u \in Rotator : i \notin rotation'[u].known
                                            /\ (u # t => i \notin rotation'[u].opened)
    BY DEF OpenedListen
  <2>1. i \in rotation[t].opened /\ i \in Instance  BY <1>0 DEF Quiet
  <2>2. NameOf(i) \in Configured /\ socket[NameOf(i)] = i /\ i \notin Running
        /\ \A u \in Rotator : i \notin rotation[u].known /\ (u # t => i \notin rotation[u].opened)
    BY <2>1 DEF NamesKept, OpenedListen
  <2>3. socket'[NameOf(i)'] = i  BY <2>1, <2>2, <1>1, <1>5
  <2>4. \A u \in Rotator : i \notin rotation'[u].known /\ (u # t => i \notin rotation'[u].opened)
    BY <2>2 DEF Quiet
  <2> QED  BY <2>2, <2>3, <2>4, <1>0
<1>8. StoppedSilent'
  <2> SUFFICES ASSUME NEW t \in Rotator, rotation'[t].at = "unlist", NEW i \in ToStop(t)',
                      NEW s \in Configured
               PROVE  socket'[s] # i
    BY DEF StoppedSilent
  <2>1. i \in Instance  BY <1>0 DEF ToStop
  <2>2. rotation[t].at = "unlist" /\ i \in ToStop(t)  BY <1>2, <2>1
  <2> QED  BY <2>1, <2>2, <1>5 DEF StoppedSilent
<1>9. \A i \in Running : Firm(i)' <=> Firm(i)
  <2> SUFFICES ASSUME NEW i \in Running PROVE Firm(i)' <=> Firm(i)  OBVIOUS
  <2>1. i \in Instance /\ NameOf(i) \in Configured /\ NameOf(i)' = NameOf(i)
    BY <1>0, <1>1 DEF NamesKept
  <2> QED  BY <2>1, <1>5 DEF Firm
<1>10. StartsOnce'
  <2> SUFFICES ASSUME phase' # "stopped", NEW t \in Rotator
               PROVE  /\ rotation'[t].at \in BeforeStart => \A i \in Running' :
                           NameOf(i)' \in ToStart(t)' => Firm(i)' \/ AboutToUnlist(i)'
                      /\ \A i \in rotation'[t].opened, j \in Running' :
                           NameOf(i)' = NameOf(j)' => AboutToUnlist(j)'
    BY DEF StartsOnce
  <2>0. phase # "stopped" /\ Quiet(t)  BY DEF PhaseQuiet
  <2>1. ASSUME rotation'[t].at \in BeforeStart, NEW i \in Running, NameOf(i)' \in ToStart(t)'
        PROVE  Firm(i)' \/ AboutToUnlist(i)'
    <3>1. i \in Instance /\ NameOf(i)' = NameOf(i)  BY <1>0, <1>1
    <3>2. ~ \E j \in rotation'[t].known : NameOf(i) = NameOf(j)
      <4>1. \A j \in rotation'[t].known : NameOf(j)' = NameOf(j)  BY <1>0, <1>1
      <4> QED  BY <2>1, <3>1, <4>1 DEF ToStart, NameOf
    <3>3. rotation[t].at \in BeforeStart
          /\ rotation'[t].known = rotation[t].known /\ rotation'[t].profile = rotation[t].profile
      BY <2>0, <2>1, <3>2 DEF Quiet
    <3>4. NameOf(i) \in ToStart(t)
      BY <2>1, <3>1, <3>2, <3>3 DEF ToStart, NameOf, Wanted
    <3>5. Firm(i) \/ AboutToUnlist(i)  BY <2>0, <3>3, <3>4 DEF StartsOnce
    <3> QED  BY <3>1, <3>5, <1>3, <1>9
  <2>2. ASSUME NEW i \in rotation'[t].opened, NEW j \in Running, NameOf(i)' = NameOf(j)'
        PROVE  AboutToUnlist(j)'
    <3>1. i \in rotation[t].opened /\ i \in Instance /\ j \in Instance  BY <1>0, <2>0 DEF Quiet
    <3>2. NameOf(i) = NameOf(j)  BY <2>2, <3>1, <1>1
    <3>3. AboutToUnlist(j)  BY <2>0, <3>1, <3>2 DEF StartsOnce
    <3> QED  BY <3>1, <3>3, <1>3
  <2> QED  BY <2>1, <2>2, <1>0
<1>11. ListenersKnown'
  <2> SUFFICES ASSUME NEW s \in Configured, NEW i \in Instance, socket'[s] = i
               PROVE  NameOf(i)' = s /\ (i \in Running' \/ AboutToList(i)')
    BY DEF ListenersKnown
  <2>1. socket[s] = i  BY <1>5
  <2>2. NameOf(i) = s /\ (i \in Running \/ AboutToList(i))  BY <2>1 DEF ListenersKnown
  <2> QED  BY <2>2, <1>0, <1>1, <1>4
<1>12. LoadedListen'
  <2> SUFFICES ASSUME phase' \in {"started", "stopping"}, NEW i \in Running
               PROVE  Firm(i)' \/ AboutToUnlist(i)'
    BY <1>0 DEF LoadedListen
  <2>1. Firm(i) \/ AboutToUnlist(i)  BY DEF LoadedListen, PhaseQuiet
  <2> QED  BY <2>1, <1>0, <1>3, <1>9
<1>13. NamedOnce'
  <2> SUFFICES ASSUME phase' # "stopped", NEW i \in Running, NEW j \in Running, i # j,
                      NameOf(i)' = NameOf(j)'
               PROVE  AboutToUnlist(i)' \/ AboutToUnlist(j)'
    BY <1>0 DEF NamedOnce
  <2>1. NameOf(i) = NameOf(j)  BY <1>0, <1>1
  <2>2. AboutToUnlist(i) \/ AboutToUnlist(j)  BY <2>1 DEF NamedOnce, PhaseQuiet
  <2> QED  BY <2>2, <1>0, <1>3
<1>14. SilentAtTheEnd'  BY <1>5 DEF SilentAtTheEnd, PhaseQuiet
<1> QED  BY <1>6, <1>7, <1>8, <1>10, <1>11, <1>12, <1>13, <1>14

(* A rotation is under way only between the start and the end.               *)
LEMMA BusyPhase ==
  ASSUME RotationTypeOK, NEW t \in Rotator, rotation[t].at # "resting"
  PROVE  /\ phase \notin {"new", "bootstrapped"} /\ ~(phase = "stopped" /\ ~late)
         /\ rotation[t].profile \in Profile
BY DEF RotationTypeOK, PhaseOK, Resting, TurnOK

(* A thread moves on with what it has in hand.                               *)
LEMMA MovesResult ==
  ASSUME RotationTypeOK, NEW t \in Rotator, NEW a \in BeforeStart \cup {"list"}, Moves(t, a)
  PROVE  /\ rotation' \in [Rotator -> Turn]
         /\ rotation'[t].at = a /\ rotation'[t].profile = rotation[t].profile
         /\ rotation'[t].known = rotation[t].known /\ rotation'[t].opened = rotation[t].opened
         /\ \A u \in Rotator : u # t => rotation'[u] = rotation[u]
<1>1. rotation \in [Rotator -> Turn]  BY DEF RotationTypeOK
<1>2. PICK q \in Turn : q = rotation[t]  BY <1>1
<1>3. PICK r : r = [q EXCEPT !.at = a]  OBVIOUS
<1>4. /\ r \in Turn /\ r.at = a /\ r.profile = q.profile /\ r.known = q.known /\ r.opened = q.opened
  BY <1>3 DEF Turn, BeforeStart
<1>5. rotation' = [rotation EXCEPT ![t] = r]  BY <1>1, <1>2, <1>3 DEF Moves
<1> QED  BY <1>1, <1>2, <1>4, <1>5

(* Types after a step of a rotation that was under way.                       *)
LEMMA BusyTypes ==
  ASSUME RotationTypeOK, NEW t \in Rotator, rotation[t].at # "resting", UNCHANGED <<phase, feed, late>>,
         services' \in Seq(Instance), emulator' \in [Instance -> Emulator],
         socket' \in [Configured -> Instance \cup {Nothing, Deployment}],
         rotation' \in [Rotator -> Turn], TurnOK(t)',
         \A u \in Rotator : u # t => rotation'[u] = rotation[u]
  PROVE  RotationTypeOK'
<1>1. phase \notin {"new", "bootstrapped"} /\ ~(phase = "stopped" /\ ~late)  BY BusyPhase
<1>2. PhaseOK'  BY <1>1 DEF PhaseOK
<1>3. \A u \in Rotator : u # t => TurnOK(u)'  BY DEF RotationTypeOK, TurnOK
<1>4. \A u \in Rotator : TurnOK(u)'  BY <1>3
<1>5. (\A u \in Rotator : TurnOK(u))'  BY <1>4
<1> QED  BY <1>2, <1>5 DEF RotationTypeOK

(* Each action keeps the invariant; first those that are quiet.               *)
LEMMA StopSchedulerKeepsInv == ASSUME RotationInv, StopScheduler PROVE RotationInv'
<1> USE DEF StopScheduler
<1>1. RotationTypeOK'
  BY DEF RotationInv, RotationTypeOK, PhaseOK, TurnOK
<1>2. \A t \in Rotator : Quiet(t)  BY DEF Quiet
<1> QED  BY <1>1, <1>2, QuietKeepsInv DEF SocketsQuiet, PhaseQuiet

(* The feed calls for another profile.                                      *)
LEMMA FeedChangesKeepsInv == ASSUME RotationInv, FeedChanges PROVE RotationInv'
<1> USE DEF FeedChanges
<1>1. RotationTypeOK'
  BY DEF RotationInv, RotationTypeOK, PhaseOK, TurnOK
<1>2. \A t \in Rotator : Quiet(t)  BY DEF Quiet
<1> QED  BY <1>1, <1>2, QuietKeepsInv DEF SocketsQuiet, PhaseQuiet

(* Nothing changes.                                                        *)
LEMMA RotationStutters == ASSUME RotationInv, UNCHANGED rotationVars PROVE RotationInv'
<1> USE DEF rotationVars
<1>1. RotationTypeOK'
  BY DEF RotationInv, RotationTypeOK, PhaseOK, TurnOK
<1>2. \A t \in Rotator : Quiet(t)  BY DEF Quiet
<1> QED  BY <1>1, <1>2, QuietKeepsInv DEF SocketsQuiet, PhaseQuiet

(* A deployment takes a binding, or gives it back.                            *)
LEMMA OccupyKeepsInv ==
  ASSUME RotationInv, NEW s \in Configured, Occupy(s) \/ Vacate(s) PROVE RotationInv'
<1>0. Nothing \notin Instance /\ Deployment \notin Instance  BY RotationAssumption DEF RotationAssumption
<1>1. RotationTypeOK'
  <2>1. UNCHANGED <<phase, feed, services, emulator, rotation, late>>  BY DEF Occupy, Vacate
  <2>2. \/ socket' = [socket EXCEPT ![s] = Nothing]
        \/ /\ socket' = [socket EXCEPT ![s] = Deployment]
           /\ phase \notin {"new", "bootstrapped"}
    BY DEF Occupy, Vacate
  <2>3. socket' \in [Configured -> Instance \cup {Nothing, Deployment}]
    BY <2>2 DEF RotationInv, RotationTypeOK
  <2>4. PhaseOK'
    BY <2>1, <2>2 DEF RotationInv, RotationTypeOK, PhaseOK
  <2> QED  BY <2>1, <2>3, <2>4 DEF RotationInv, RotationTypeOK, TurnOK
<1>2. \A t \in Rotator : Quiet(t)  BY DEF Quiet, Occupy, Vacate
<1>3. SocketsQuiet
  BY <1>0 DEF SocketsQuiet, Occupy, Vacate, RotationInv, RotationTypeOK
<1>4. services' = services /\ emulator' = emulator /\ PhaseQuiet
  BY DEF Occupy, Vacate, PhaseQuiet
<1> QED  BY <1>1, <1>2, <1>3, <1>4, QuietKeepsInv

(* A rotation begins.                                                      *)
LEMMA ReadFeedKeepsInv ==
  ASSUME RotationInv, NEW t \in Rotator, ReadFeed(t) PROVE RotationInv'
<1> USE DEF RotationInv
<1>0. rotation \in [Rotator -> Turn] /\ rotation[t] = Resting /\ feed \in Profile
      /\ phase \in {"started", "unstarted"}
      /\ UNCHANGED <<phase, feed, services, emulator, socket, late, disturbances>>
  BY DEF RotationTypeOK, ReadFeed, MayRotate
<1>1. PICK q \in Turn : q = rotation[t]  BY <1>0
<1>2. PICK r : r = [q EXCEPT !.at = "read", !.profile = feed]  OBVIOUS
<1>3. /\ r \in Turn /\ r.at = "read" /\ r.profile \in Profile /\ r.known = {} /\ r.opened = {}
      /\ rotation' = [rotation EXCEPT ![t] = r]
  <2>1. q.known = {} /\ q.opened = {}  BY <1>0, <1>1 DEF Resting
  <2>2. r \in Turn /\ r.at = "read" /\ r.profile = feed /\ r.known = q.known /\ r.opened = q.opened
    BY <1>0, <1>2 DEF Turn
  <2>3. rotation' = [rotation EXCEPT ![t] = r]  BY <1>0, <1>1, <1>2 DEF ReadFeed
  <2> QED  BY <1>0, <2>1, <2>2, <2>3
<1>4. rotation' \in [Rotator -> Turn] /\ rotation'[t] = r
      /\ \A u \in Rotator : u # t => rotation'[u] = rotation[u]
  BY <1>0, <1>3
<1>5. \A u \in Rotator : TurnOK(u)'
  <2>1. IsFiniteSet({})  BY FS_EmptySet
  <2>2. TurnOK(t)'  BY <1>3, <1>4, <2>1 DEF TurnOK
  <2>3. \A u \in Rotator : u # t => TurnOK(u)'  BY <1>4 DEF RotationTypeOK, TurnOK
  <2> QED  BY <2>2, <2>3
<1>6. RotationTypeOK'
  <2>1. PhaseOK'  BY <1>0 DEF PhaseOK
  <2> QED  BY <1>0, <1>4, <1>5, <2>1 DEF RotationTypeOK
<1>7. \A u \in Rotator : Quiet(u)
  <2>1. Quiet(t)  BY <1>0, <1>3, <1>4 DEF Quiet, Resting, BeforeStart
  <2>2. \A u \in Rotator : u # t => Quiet(u)  BY <1>4 DEF Quiet
  <2> QED  BY <2>1, <2>2
<1> QED  BY <1>0, <1>6, <1>7, QuietKeepsInv DEF SocketsQuiet, PhaseQuiet

(* A nonempty set of places in a sequence has a last one.                     *)
LEMMA LastPlace ==
  ASSUME NEW n \in Nat, NEW S \in SUBSET (1 .. n), NEW i \in S
  PROVE  \E k \in S : \A l \in S : l <= k
<1> DEFINE D == {d \in 0 .. n : n - d \in S}
<1>1. n - i \in D /\ D \in SUBSET Nat  OBVIOUS
<1>2. D # {}  BY <1>1
<1>4. PICK d \in D : \A e \in D : d <= e
  <2> HIDE DEF D
  <2> QED  BY <1>1, <1>2, LeastNumber
<1>5. \A e \in D : e \in Nat /\ d \in Nat /\ d <= e  BY <1>4
<1>6. n - d \in S /\ d \in 0 .. n  BY <1>4
<1>7. \A l \in S : l \in 1 .. n /\ n - l \in D  OBVIOUS
<1>8. \A l \in S : l <= n - d
  <2> SUFFICES ASSUME NEW l \in S PROVE l <= n - d  OBVIOUS
  <2>1. d <= n - l /\ l \in 1 .. n  BY <1>5, <1>7
  <2> QED  BY <2>1, <1>6
<1> QED  BY <1>6, <1>8

(* For every listed name a rotation knows an emulator.                        *)
LEMMA EveryNameKnown ==
  ASSUME services \in Seq(Instance), NEW i \in Running,
         NEW K, K = {services[k] : k \in {k \in DOMAIN services :
                   \A l \in DOMAIN services :
                      emulator[services[l]].name = emulator[services[k]].name => l <= k}}
  PROVE  K \subseteq Running /\ \E j \in K : NameOf(i) = NameOf(j)
<1> DEFINE n == Len(services)
           S == {k \in 1 .. n : NameOf(services[k]) = NameOf(i)}
<1>1. n \in Nat /\ DOMAIN services = 1 .. n  OBVIOUS
<1>2. PICK k0 \in 1 .. n : services[k0] = i  BY <1>1 DEF Running, ToSet
<1>3. k0 \in S /\ S \in SUBSET (1 .. n)  BY <1>2
<1>4. PICK k \in S : \A l \in S : l <= k
  <2> HIDE DEF S
  <2> QED  BY <1>1, <1>3, LastPlace
<1>5. \A l \in DOMAIN services : NameOf(services[l]) = NameOf(services[k]) => l <= k
  BY <1>1, <1>4
<1>6. services[k] \in K  BY <1>1, <1>4, <1>5 DEF NameOf
<1>7. K \subseteq Running  BY DEF Running, ToSet
<1> QED  BY <1>4, <1>6, <1>7

(* A rotation takes up what is loaded, so that nothing loaded is to be started. *)
LEMMA LookAtLoadedKeepsInv ==
  ASSUME RotationInv, NEW t \in Rotator, LookAtLoaded(t) PROVE RotationInv'
<1> DEFINE K == {services[k] : k \in {k \in DOMAIN services :
                   \A l \in DOMAIN services :
                      emulator[services[l]].name = emulator[services[k]].name => l <= k}}
<1> USE DEF RotationInv
<1>0. rotation \in [Rotator -> Turn] /\ rotation[t].at = "read" /\ TurnOK(t) /\ services \in Seq(Instance)
      /\ UNCHANGED <<phase, feed, services, emulator, socket, late, disturbances>>
  BY DEF RotationTypeOK, LookAtLoaded
<1>1. rotation' = [rotation EXCEPT ![t].at = "set", ![t].known = K]  BY DEF LookAtLoaded
<1>2. K \subseteq Running /\ \A i \in Running : \E j \in K : NameOf(i) = NameOf(j)
  <2>1. K \subseteq Running  BY DEF Running, ToSet
  <2>2. ASSUME NEW i \in Running PROVE \E j \in K : NameOf(i) = NameOf(j)
    <3> HIDE DEF RotationInv
    <3> QED  BY <1>0, EveryNameKnown
  <2> QED  BY <2>1, <2>2
<1> HIDE DEF K
<1>3. K \in SUBSET Instance  BY <1>2, RunningIsInstance
<1>4. PICK q \in Turn : q = rotation[t]  BY <1>0
<1>5. PICK r : r = [q EXCEPT !.at = "set", !.known = K]  OBVIOUS
<1>6. r \in Turn /\ r.at = "set" /\ r.profile = q.profile /\ r.known = K /\ r.opened = q.opened
  BY <1>3, <1>5 DEF Turn
<1>7. rotation' = [rotation EXCEPT ![t] = r]  BY <1>0, <1>1, <1>4, <1>5
<1>8. rotation' \in [Rotator -> Turn] /\ rotation'[t] = r
      /\ \A u \in Rotator : u # t => rotation'[u] = rotation[u]
  BY <1>0, <1>6, <1>7
<1>9. TurnOK(t)'  BY <1>0, <1>4, <1>6, <1>8 DEF TurnOK
<1>10. RotationTypeOK'
  <2>1. services' \in Seq(Instance) /\ emulator' \in [Instance -> Emulator]
        /\ socket' \in [Configured -> Instance \cup {Nothing, Deployment}]
    BY <1>0 DEF RotationTypeOK
  <2>2. RotationTypeOK /\ rotation[t].at # "resting"  BY <1>0
  <2> HIDE DEF RotationInv
  <2> QED  BY <1>0, <1>8, <1>9, <2>1, <2>2, BusyTypes
<1>11. \A u \in Rotator : Quiet(u)
  <2>1. Quiet(t)
    <3>1. rotation'[t].opened = rotation[t].opened /\ rotation'[t].known = K /\ rotation'[t].at = "set"
      BY <1>4, <1>6, <1>8
    <3> QED  BY <1>0, <1>2, <3>1 DEF Quiet
  <2>2. \A u \in Rotator : u # t => Quiet(u)  BY <1>8 DEF Quiet
  <2> QED  BY <2>1, <2>2
<1> QED  BY <1>0, <1>10, <1>11, QuietKeepsInv DEF SocketsQuiet, PhaseQuiet

(* A configuration is set in a set of emulators, or applied to them.          *)
LEMMA ConfiguredResult ==
  ASSUME RotationTypeOK, NEW t \in Rotator, NEW p \in Profile, NEW S, NEW M,
         \/ emulator' = [i \in Instance |-> IF i \in S THEN [emulator[i] EXCEPT !.config = p] ELSE emulator[i]]
         \/ emulator' = [i \in Instance |->
              IF i \in M THEN [emulator[i] EXCEPT !.runs = Nothing]
              ELSE IF i \in S THEN [emulator[i] EXCEPT !.runs = p] ELSE emulator[i]]
  PROVE  emulator' \in [Instance -> Emulator]
         /\ \A i \in Instance : emulator'[i].name = emulator[i].name
<1> SUFFICES ASSUME NEW i \in Instance
             PROVE  emulator'[i] \in Emulator /\ emulator'[i].name = emulator[i].name
  <2>1. \A i \in Instance : emulator'[i] \in Emulator /\ emulator'[i].name = emulator[i].name
    OBVIOUS
  <2>2. (emulator' = [i \in Instance |-> emulator'[i]])  OBVIOUS
  <2> QED  BY <2>1, <2>2
<1>1. PICK e \in Emulator : e = emulator[i]  BY DEF RotationTypeOK
<1>2. PICK c : c = [e EXCEPT !.config = p]  OBVIOUS
<1>3. PICK d : d = [e EXCEPT !.runs = p]  OBVIOUS
<1>6. PICK m : m = [e EXCEPT !.runs = Nothing]  OBVIOUS
<1>4. /\ c \in Emulator /\ d \in Emulator /\ m \in Emulator
      /\ c.name = e.name /\ d.name = e.name /\ m.name = e.name
  BY <1>2, <1>3, <1>6 DEF Emulator
<1>5. emulator'[i] \in {e, c, d, m}  BY <1>1, <1>2, <1>3, <1>6
<1> QED  BY <1>1, <1>4, <1>5

(* Configurations are set and applied; no name changes.                       *)
LEMMA SetConfigsKeepsInv ==
  ASSUME RotationInv, NEW t \in Rotator, SetConfigs(t) \/ ApplyConfigs(t) PROVE RotationInv'
<1> USE DEF RotationInv
<1>0. RotationTypeOK /\ rotation[t].at \in {"set", "apply"} /\ TurnOK(t)
      /\ (Moves(t, "apply") \/ Moves(t, "stop"))
      /\ UNCHANGED <<phase, feed, services, socket, late>>
  BY DEF RotationTypeOK, SetConfigs, ApplyConfigs
<1>1. rotation[t].profile \in Profile  BY <1>0 DEF TurnOK
<1>2. emulator' \in [Instance -> Emulator]
      /\ \A i \in Instance : emulator'[i].name = emulator[i].name
  <2>1. PICK p \in Profile : p = rotation[t].profile  BY <1>1
  <2>2. CASE SetConfigs(t)
    <3>1. emulator' = [i \in Instance |->
            IF i \in Kept(t) THEN [emulator[i] EXCEPT !.config = p] ELSE emulator[i]]
      BY <2>1, <2>2 DEF SetConfigs
    <3> QED  BY <1>0, <3>1, ConfiguredResult
  <2>3. CASE ApplyConfigs(t)
    <3>1. PICK failed \in SUBSET Kept(t), mixed \in SUBSET Kept(t) :
            emulator' = [i \in Instance |->
              IF i \in mixed THEN [emulator[i] EXCEPT !.runs = Nothing]
              ELSE IF i \in Kept(t) \ failed THEN [emulator[i] EXCEPT !.runs = p] ELSE emulator[i]]
      <4> DEFINE Applied(failed, mixed, q) == emulator' = [i \in Instance |->
                   IF i \in mixed THEN [emulator[i] EXCEPT !.runs = Nothing]
                   ELSE IF i \in Kept(t) \ failed THEN [emulator[i] EXCEPT !.runs = q] ELSE emulator[i]]
      <4>1. \E failed \in SUBSET Kept(t), mixed \in SUBSET Kept(t) :
              Applied(failed, mixed, rotation[t].profile)
        BY <2>3 DEF ApplyConfigs
      <4> HIDE DEF Applied
      <4>2. \E failed \in SUBSET Kept(t), mixed \in SUBSET Kept(t) : Applied(failed, mixed, p)
        BY <4>1, <2>1
      <4> QED  BY <4>2 DEF Applied
    <3> QED  BY <1>0, <3>1, ConfiguredResult
  <2> QED  BY <2>2, <2>3
<1>3. /\ rotation' \in [Rotator -> Turn]
      /\ rotation'[t].at \in {"apply", "stop"} /\ rotation'[t].profile = rotation[t].profile
      /\ rotation'[t].known = rotation[t].known /\ rotation'[t].opened = rotation[t].opened
      /\ \A u \in Rotator : u # t => rotation'[u] = rotation[u]
  <2>1. CASE Moves(t, "apply")
    <3>1. "apply" \in BeforeStart \cup {"list"}  BY DEF BeforeStart
    <3> QED  BY <1>0, <2>1, <3>1, MovesResult
  <2>2. CASE Moves(t, "stop")
    <3>1. "stop" \in BeforeStart \cup {"list"}  BY DEF BeforeStart
    <3> QED  BY <1>0, <2>2, <3>1, MovesResult
  <2> QED  BY <1>0, <2>1, <2>2
<1>4. TurnOK(t)'  BY <1>0, <1>3 DEF TurnOK
<1>5. RotationTypeOK'
  <2>1. services' \in Seq(Instance)
        /\ socket' \in [Configured -> Instance \cup {Nothing, Deployment}]
    BY <1>0 DEF RotationTypeOK
  <2>2. RotationTypeOK /\ rotation[t].at # "resting"  BY <1>0
  <2> HIDE DEF RotationInv
  <2> QED  BY <1>0, <1>2, <1>3, <1>4, <2>1, <2>2, BusyTypes
<1>6. \A u \in Rotator : Quiet(u)
  <2>1. Quiet(t)  BY <1>0, <1>3 DEF Quiet, BeforeStart
  <2>2. \A u \in Rotator : u # t => Quiet(u)  BY <1>3 DEF Quiet
  <2> QED  BY <2>1, <2>2
<1> QED  BY <1>0, <1>2, <1>5, <1>6, QuietKeepsInv DEF SocketsQuiet, PhaseQuiet

(* What is in hand are emulators.                                            *)
LEMMA InHand ==
  ASSUME RotationTypeOK
  PROVE  /\ Running \subseteq Instance
         /\ \A t \in Rotator : rotation[t].known \subseteq Instance /\ rotation[t].opened \subseteq Instance
<1>1. rotation \in [Rotator -> Turn]  BY DEF RotationTypeOK
<1> QED  BY <1>1, RunningIsInstance DEF Turn

(* What is stopped no longer listens, and is about to be unlisted.             *)
LEMMA StopServicesKeepsInv ==
  ASSUME RotationInv, NEW t \in Rotator, StopServices(t) PROVE RotationInv'
<1> DEFINE D == ToStop(t)
<1>0. RotationTypeOK /\ rotation[t].at = "stop" /\ TurnOK(t) /\ Moves(t, "unlist")
      /\ socket' = [s \in Configured |-> IF socket[s] \in D THEN Nothing ELSE socket[s]]
      /\ UNCHANGED <<phase, feed, services, emulator, late, disturbances>>
  BY DEF RotationInv, RotationTypeOK, StopServices, Closed
<1>1. /\ rotation' \in [Rotator -> Turn]
      /\ rotation'[t].at = "unlist" /\ rotation'[t].profile = rotation[t].profile
      /\ rotation'[t].known = rotation[t].known /\ rotation'[t].opened = rotation[t].opened
      /\ \A u \in Rotator : u # t => rotation'[u] = rotation[u]
  <2>1. "unlist" \in BeforeStart \cup {"list"}  BY DEF BeforeStart
  <2> QED  BY <1>0, <2>1, MovesResult
<1>2. \A u \in Rotator : rotation'[u].profile = rotation[u].profile
        /\ rotation'[u].known = rotation[u].known /\ rotation'[u].opened = rotation[u].opened
  BY <1>1
<1>3. /\ Running' = Running /\ Running \subseteq Instance /\ Nothing \notin Instance
      /\ \A u \in Rotator : rotation[u].known \subseteq Instance /\ rotation[u].opened \subseteq Instance
  <2>1. Running' = Running  BY <1>0 DEF Running
  <2> QED  BY <1>0, <2>1, InHand, RotationAssumption DEF RotationAssumption
<1>4. \A i : NameOf(i)' = NameOf(i)  BY <1>0 DEF NameOf
<1>5. \A u \in Rotator : ToStop(u)' = ToStop(u) /\ ToStart(u)' = ToStart(u)
  BY <1>0, <1>2 DEF ToStop, ToStart, Kept, Wanted
<1>6. D \subseteq rotation[t].known /\ D \subseteq Instance  BY <1>3 DEF ToStop
<1>7. \A i : AboutToUnlist(i)' <=> (AboutToUnlist(i) \/ i \in D)
  <2> SUFFICES ASSUME NEW i PROVE AboutToUnlist(i)' <=> (AboutToUnlist(i) \/ i \in D)  OBVIOUS
  <2>1. AboutToUnlist(i)' <=> \E u \in Rotator : rotation'[u].at = "unlist" /\ i \in ToStop(u)
    BY <1>5 DEF AboutToUnlist
  <2> QED  BY <2>1, <1>0, <1>1 DEF AboutToUnlist
<1>8. \A i : AboutToList(i)' <=> AboutToList(i)  BY <1>2 DEF AboutToList
<1>9. \A s \in Configured : socket'[s] = IF socket[s] \in D THEN Nothing ELSE socket[s]
  BY <1>0
<1> HIDE DEF D
<1>10. RotationTypeOK'
  <2>1. socket' \in [Configured -> Instance \cup {Nothing, Deployment}]
    BY <1>0 DEF RotationTypeOK
  <2>2. TurnOK(t)'  BY <1>0, <1>1 DEF TurnOK
  <2>3. services' \in Seq(Instance) /\ emulator' \in [Instance -> Emulator]
    BY <1>0 DEF RotationTypeOK
  <2> QED  BY <1>0, <1>1, <2>1, <2>2, <2>3, BusyTypes
<1>11. NamesKept'
  BY <1>2, <1>3, <1>4 DEF RotationInv, NamesKept
<1>12. OpenedListen'
  <2> SUFFICES ASSUME NEW u \in Rotator, NEW i \in rotation[u].opened
               PROVE  /\ socket'[NameOf(i)'] = i /\ i \notin Running'
                      /\ \A v \in Rotator : i \notin rotation'[v].known
                                            /\ (v # u => i \notin rotation'[v].opened)
    BY <1>2 DEF OpenedListen
  <2>1. /\ socket[NameOf(i)] = i /\ NameOf(i) \in Configured /\ i \notin Running
        /\ \A v \in Rotator : i \notin rotation[v].known /\ (v # u => i \notin rotation[v].opened)
    BY DEF RotationInv, OpenedListen, NamesKept
  <2>2. i \notin D  BY <2>1, <1>6
  <2> QED  BY <2>1, <2>2, <1>2, <1>3, <1>4, <1>9
<1>13. StoppedSilent'
  <2> SUFFICES ASSUME NEW u \in Rotator, rotation'[u].at = "unlist", NEW i \in ToStop(u),
                      NEW s \in Configured
               PROVE  socket'[s] # i
    BY <1>5 DEF StoppedSilent
  <2>1. i \in Instance  BY <1>3 DEF ToStop
  <2>2. CASE u = t  BY <2>1, <2>2, <1>3, <1>9 DEF D
  <2>3. CASE u # t
    <3>1. socket[s] # i  BY <2>3, <1>1 DEF RotationInv, StoppedSilent
    <3> QED  BY <3>1, <2>1, <1>3, <1>9
  <2> QED  BY <2>2, <2>3
<1>14. \A i \in Running : Firm(i) => Firm(i)' \/ AboutToUnlist(i)'
  <2> SUFFICES ASSUME NEW i \in Running, Firm(i) PROVE Firm(i)' \/ AboutToUnlist(i)'  OBVIOUS
  <2>1. NameOf(i) \in Configured /\ socket[NameOf(i)] = i  BY DEF RotationInv, NamesKept, Firm
  <2>2. i \in D \/ socket'[NameOf(i)'] = i  BY <2>1, <1>4, <1>9
  <2> QED  BY <2>2, <1>7 DEF Firm
<1>15. StartsOnce'
  <2> SUFFICES ASSUME phase # "stopped", NEW u \in Rotator
               PROVE  /\ rotation'[u].at \in BeforeStart => \A i \in Running :
                           NameOf(i) \in ToStart(u) => Firm(i)' \/ AboutToUnlist(i)'
                      /\ \A i \in rotation[u].opened, j \in Running :
                           NameOf(i) = NameOf(j) => AboutToUnlist(j)'
    BY <1>0, <1>2, <1>3, <1>4, <1>5 DEF StartsOnce
  <2>1. /\ rotation[u].at \in BeforeStart => \A i \in Running :
             NameOf(i) \in ToStart(u) => Firm(i) \/ AboutToUnlist(i)
        /\ \A i \in rotation[u].opened, j \in Running : NameOf(i) = NameOf(j) => AboutToUnlist(j)
    BY DEF RotationInv, StartsOnce
  <2>2. rotation'[u].at \in BeforeStart => rotation[u].at \in BeforeStart
    BY <1>0, <1>1 DEF BeforeStart
  <2> QED  BY <2>1, <2>2, <1>7, <1>14
<1>16. ListenersKnown'
  <2> SUFFICES ASSUME NEW s \in Configured, NEW i \in Instance, socket'[s] = i
               PROVE  NameOf(i)' = s /\ (i \in Running' \/ AboutToList(i)')
    BY DEF ListenersKnown
  <2>1. socket[s] = i  BY <1>3, <1>9
  <2> QED  BY <2>1, <1>3, <1>4, <1>8 DEF RotationInv, ListenersKnown
<1>17. LoadedListen'
  <2> SUFFICES ASSUME phase \in {"started", "stopping"}, NEW i \in Running
               PROVE  Firm(i)' \/ AboutToUnlist(i)'
    BY <1>0, <1>3 DEF LoadedListen
  <2> QED  BY <1>7, <1>14 DEF RotationInv, LoadedListen
<1>18. NamedOnce'
  <2> SUFFICES ASSUME phase # "stopped", NEW i \in Running, NEW j \in Running, i # j,
                      NameOf(i) = NameOf(j)
               PROVE  AboutToUnlist(i)' \/ AboutToUnlist(j)'
    BY <1>0, <1>3, <1>4 DEF NamedOnce
  <2> QED  BY <1>7 DEF RotationInv, NamedOnce
<1>19. SilentAtTheEnd'
  <2>1. ~(phase = "stopped" /\ ~late)  BY <1>0, BusyPhase
  <2> QED  BY <2>1, <1>0 DEF SilentAtTheEnd
<1> QED  BY <1>10, <1>11, <1>12, <1>13, <1>15, <1>16, <1>17, <1>18, <1>19 DEF RotationInv

(* At the end all that is loaded stops, and what else listens was started by    *)
(* a rotation under way.                                                    *)
LEMMA StopAllKeepsInv == ASSUME RotationInv, StopAll PROVE RotationInv'
<1>0. RotationTypeOK /\ phase = "stopping" /\ phase' = "stopped"
      /\ late' = (\E t \in Rotator : rotation[t] # Resting)
      /\ UNCHANGED <<feed, services, emulator, rotation, disturbances>>
  BY DEF RotationInv, StopAll
<1>1. \A s \in Configured : socket'[s] = IF socket[s] \in Running THEN Nothing ELSE socket[s]
  BY DEF StopAll, Closed, Running
<1>2. /\ Running' = Running /\ Running \subseteq Instance /\ Nothing \notin Instance
      /\ \A u \in Rotator : rotation[u].known \subseteq Instance /\ rotation[u].opened \subseteq Instance
  <2>1. Running' = Running  BY <1>0 DEF Running
  <2> QED  BY <1>0, <2>1, InHand, RotationAssumption DEF RotationAssumption
<1>3. \A i : NameOf(i)' = NameOf(i)  BY <1>0 DEF NameOf
<1>4. RotationTypeOK'
  <2>1. socket' \in [Configured -> Instance \cup {Nothing, Deployment}]
    BY DEF RotationInv, RotationTypeOK, StopAll, Closed
  <2>2. PhaseOK'  BY <1>0 DEF PhaseOK
  <2>3. late' \in BOOLEAN  BY <1>0
  <2> QED  BY <1>0, <2>1, <2>2, <2>3 DEF RotationTypeOK, TurnOK
<1>5. NamesKept'
  BY <1>0, <1>2, <1>3 DEF RotationInv, NamesKept
<1>6. OpenedListen'
  <2> SUFFICES ASSUME NEW u \in Rotator, NEW i \in rotation[u].opened
               PROVE  /\ socket'[NameOf(i)'] = i /\ i \notin Running'
                      /\ \A v \in Rotator : i \notin rotation'[v].known
                                            /\ (v # u => i \notin rotation'[v].opened)
    BY <1>0 DEF OpenedListen
  <2>1. /\ socket[NameOf(i)] = i /\ NameOf(i) \in Configured /\ i \notin Running
        /\ \A v \in Rotator : i \notin rotation[v].known /\ (v # u => i \notin rotation[v].opened)
    BY DEF RotationInv, OpenedListen, NamesKept
  <2> QED  BY <2>1, <1>0, <1>1, <1>2, <1>3
<1>7. StoppedSilent'
  <2> SUFFICES ASSUME NEW u \in Rotator, rotation[u].at = "unlist", NEW i \in ToStop(u),
                      NEW s \in Configured
               PROVE  socket'[s] # i
    BY <1>0 DEF StoppedSilent, ToStop, Kept, Wanted
  <2>1. i \in Instance  BY <1>2 DEF ToStop
  <2>2. socket[s] # i  BY DEF RotationInv, StoppedSilent
  <2> QED  BY <2>1, <2>2, <1>1, <1>2
<1>8. StartsOnce' /\ LoadedListen' /\ NamedOnce'
  BY <1>0 DEF StartsOnce, LoadedListen, NamedOnce
<1>9. ListenersKnown' /\ SilentAtTheEnd'
  <2>1. ASSUME NEW s \in Configured, NEW i \in Instance, socket'[s] = i
        PROVE  NameOf(i)' = s /\ AboutToList(i) /\ AboutToList(i)'
    <3>1. socket[s] = i /\ i \notin Running  BY <2>1, <1>1, <1>2
    <3> QED  BY <3>1, <1>0, <1>3 DEF RotationInv, ListenersKnown, AboutToList
  <2>2. ListenersKnown'  BY <2>1 DEF ListenersKnown
  <2>3. ~late' => \A i : ~AboutToList(i)
    BY <1>0 DEF AboutToList, Resting
  <2> QED  BY <2>1, <2>2, <2>3 DEF SilentAtTheEnd
<1> QED  BY <1>4, <1>5, <1>6, <1>7, <1>8, <1>9 DEF RotationInv

(* Unlisting leaves what was not to be stopped.                               *)
LEMMA UnlistResult ==
  ASSUME services \in Seq(Instance), NEW t \in Rotator, Unlist(t)
  PROVE  services' \in Seq(Instance) /\ Running' = Running \ ToStop(t)
<1> DEFINE S == Staying(t)
           n == Len(services)
           m == Cardinality(S)
           place(k) == CHOOSE i \in S : Cardinality({j \in S : j <= i}) = k
<1>1. n \in Nat /\ DOMAIN services = 1 .. n /\ S \in SUBSET (1 .. n)
      /\ \A i \in 1 .. n : services[i] \in Instance
  BY DEF Staying
<1>2. \A i \in 1 .. n : i \in S <=> services[i] \notin ToStop(t)  BY <1>1 DEF Staying
<1>3. services' = [k \in 1 .. m |-> services[place(k)]]  BY DEF Unlist
<1>4. /\ m \in Nat
      /\ \A k \in 1 .. m : place(k) \in S
      /\ \A i \in S : \E k \in 1 .. m : place(k) = i
  <2> HIDE DEF S
  <2> QED  BY <1>1, Ranked
<1> HIDE DEF S, m, place
<1>5. DOMAIN services' = 1 .. m /\ \A k \in 1 .. m : services'[k] = services[place(k)]
  BY <1>3
<1>6. services' \in Seq(Instance)
  <2>1. \A k \in 1 .. m : services[place(k)] \in Instance  BY <1>1, <1>4
  <2>2. services' \in [1 .. m -> Instance]  BY <1>3, <2>1
  <2> QED  BY <2>2, <1>4
<1>7. ASSUME NEW x \in Running' PROVE x \in Running \ ToStop(t)
  <2>1. PICK k \in 1 .. m : services'[k] = x  BY <1>5 DEF Running, ToSet
  <2>2. place(k) \in S /\ services[place(k)] = x  BY <2>1, <1>4, <1>5
  <2> QED  BY <2>2, <1>1, <1>2 DEF Running, ToSet
<1>8. ASSUME NEW x \in Running, x \notin ToStop(t) PROVE x \in Running'
  <2>1. PICK i \in 1 .. n : services[i] = x  BY <1>1 DEF Running, ToSet
  <2>2. i \in S  BY <2>1, <1>2, <1>8
  <2>3. PICK k \in 1 .. m : place(k) = i  BY <2>2, <1>4
  <2> QED  BY <2>1, <2>3, <1>5 DEF Running, ToSet
<1> QED  BY <1>6, <1>7, <1>8

(* What is unlisted did not listen any more.                                  *)
LEMMA UnlistKeepsInv ==
  ASSUME RotationInv, NEW t \in Rotator, Unlist(t) PROVE RotationInv'
<1> DEFINE D == ToStop(t)
<1>0. RotationTypeOK /\ rotation[t].at = "unlist" /\ TurnOK(t) /\ Moves(t, "start")
      /\ UNCHANGED <<phase, feed, emulator, socket, late, disturbances>>
  BY DEF RotationInv, RotationTypeOK, Unlist
<1>1. /\ rotation' \in [Rotator -> Turn]
      /\ rotation'[t].at = "start" /\ rotation'[t].profile = rotation[t].profile
      /\ rotation'[t].known = rotation[t].known /\ rotation'[t].opened = rotation[t].opened
      /\ \A u \in Rotator : u # t => rotation'[u] = rotation[u]
  <2>1. "start" \in BeforeStart \cup {"list"}  BY DEF BeforeStart
  <2> QED  BY <1>0, <2>1, MovesResult
<1>2. \A u \in Rotator : rotation'[u].profile = rotation[u].profile
        /\ rotation'[u].known = rotation[u].known /\ rotation'[u].opened = rotation[u].opened
  BY <1>1
<1>3. /\ services' \in Seq(Instance) /\ Running' = Running \ D
      /\ Running \subseteq Instance /\ Nothing \notin Instance
      /\ \A u \in Rotator : rotation[u].known \subseteq Instance /\ rotation[u].opened \subseteq Instance
  <2>1. services \in Seq(Instance)  BY <1>0 DEF RotationTypeOK
  <2>2. services' \in Seq(Instance) /\ Running' = Running \ D  BY <2>1, UnlistResult
  <2> QED  BY <1>0, <2>2, InHand, RotationAssumption DEF RotationAssumption
<1>4. \A i : NameOf(i)' = NameOf(i)  BY <1>0 DEF NameOf
<1>5. \A u \in Rotator : ToStop(u)' = ToStop(u) /\ ToStart(u)' = ToStart(u)
  BY <1>0, <1>2 DEF ToStop, ToStart, Kept, Wanted
<1>6. \A i \in Running' : AboutToUnlist(i) => AboutToUnlist(i)'
  <2> SUFFICES ASSUME NEW i \in Running', AboutToUnlist(i) PROVE AboutToUnlist(i)'  OBVIOUS
  <2>1. i \notin D  BY <1>3
  <2>2. PICK u \in Rotator : rotation[u].at = "unlist" /\ i \in ToStop(u)  BY DEF AboutToUnlist
  <2>3. u # t  BY <2>1, <2>2
  <2> QED  BY <2>2, <2>3, <1>1, <1>5 DEF AboutToUnlist
<1>7. \A i : Firm(i)' <=> Firm(i)  BY <1>0, <1>4 DEF Firm
<1>8. \A i : AboutToList(i)' <=> AboutToList(i)  BY <1>2 DEF AboutToList
<1>9. \A i \in D : \A s \in Configured : socket[s] # i
  BY <1>0 DEF RotationInv, StoppedSilent
<1> HIDE DEF D
<1>10. RotationTypeOK'
  <2>2. TurnOK(t)'  BY <1>0, <1>1 DEF TurnOK
  <2>3. emulator' \in [Instance -> Emulator]
        /\ socket' \in [Configured -> Instance \cup {Nothing, Deployment}]
    BY <1>0 DEF RotationTypeOK
  <2> QED  BY <1>0, <1>1, <1>3, <2>2, <2>3, BusyTypes
<1>11. NamesKept'
  BY <1>2, <1>3, <1>4 DEF RotationInv, NamesKept
<1>12. OpenedListen'
  <2> SUFFICES ASSUME NEW u \in Rotator, NEW i \in rotation[u].opened
               PROVE  /\ socket'[NameOf(i)'] = i /\ i \notin Running'
                      /\ \A v \in Rotator : i \notin rotation'[v].known
                                            /\ (v # u => i \notin rotation'[v].opened)
    BY <1>2 DEF OpenedListen
  <2>1. /\ socket[NameOf(i)] = i /\ i \notin Running
        /\ \A v \in Rotator : i \notin rotation[v].known /\ (v # u => i \notin rotation[v].opened)
    BY DEF RotationInv, OpenedListen
  <2> QED  BY <2>1, <1>0, <1>2, <1>3, <1>4
<1>13. StoppedSilent'
  <2> SUFFICES ASSUME NEW u \in Rotator, rotation'[u].at = "unlist", NEW i \in ToStop(u),
                      NEW s \in Configured
               PROVE  socket'[s] # i
    BY <1>5 DEF StoppedSilent
  <2>1. u # t  BY <1>1
  <2> QED  BY <2>1, <1>0, <1>1 DEF RotationInv, StoppedSilent
<1>15. StartsOnce'
  <2> SUFFICES ASSUME phase # "stopped", NEW u \in Rotator
               PROVE  /\ rotation'[u].at \in BeforeStart => \A i \in Running' :
                           NameOf(i) \in ToStart(u) => Firm(i)' \/ AboutToUnlist(i)'
                      /\ \A i \in rotation[u].opened, j \in Running' :
                           NameOf(i) = NameOf(j) => AboutToUnlist(j)'
    BY <1>0, <1>2, <1>4, <1>5 DEF StartsOnce
  <2>1. /\ rotation[u].at \in BeforeStart => \A i \in Running :
             NameOf(i) \in ToStart(u) => Firm(i) \/ AboutToUnlist(i)
        /\ \A i \in rotation[u].opened, j \in Running : NameOf(i) = NameOf(j) => AboutToUnlist(j)
    BY DEF RotationInv, StartsOnce
  <2>2. rotation'[u].at \in BeforeStart => rotation[u].at \in BeforeStart
    BY <1>0, <1>1 DEF BeforeStart
  <2> QED  BY <2>1, <2>2, <1>3, <1>6, <1>7
<1>16. ListenersKnown'
  <2> SUFFICES ASSUME NEW s \in Configured, NEW i \in Instance, socket[s] = i
               PROVE  NameOf(i) = s /\ (i \in Running' \/ AboutToList(i)')
    BY <1>0, <1>4 DEF ListenersKnown
  <2>1. i \notin D  BY <1>9
  <2> QED  BY <2>1, <1>3, <1>8 DEF RotationInv, ListenersKnown
<1>17. LoadedListen'
  <2> SUFFICES ASSUME phase \in {"started", "stopping"}, NEW i \in Running'
               PROVE  Firm(i)' \/ AboutToUnlist(i)'
    BY <1>0 DEF LoadedListen
  <2> QED  BY <1>3, <1>6, <1>7 DEF RotationInv, LoadedListen
<1>18. NamedOnce'
  <2> SUFFICES ASSUME phase # "stopped", NEW i \in Running', NEW j \in Running', i # j,
                      NameOf(i) = NameOf(j)
               PROVE  AboutToUnlist(i)' \/ AboutToUnlist(j)'
    BY <1>0, <1>4 DEF NamedOnce
  <2> QED  BY <1>3, <1>6 DEF RotationInv, NamedOnce
<1>19. SilentAtTheEnd'
  <2>1. ~(phase = "stopped" /\ ~late)  BY <1>0, BusyPhase
  <2> QED  BY <2>1, <1>0 DEF SilentAtTheEnd
<1> QED  BY <1>10, <1>11, <1>12, <1>13, <1>15, <1>16, <1>17, <1>18, <1>19 DEF RotationInv

(* What is listed listens, and of the others of its name each is about to be   *)
(* unlisted.                                                                *)
LEMMA ListKeepsInv ==
  ASSUME RotationInv, NEW t \in Rotator, List(t) PROVE RotationInv'
<1> DEFINE O == rotation[t].opened
<1>0. RotationTypeOK /\ rotation[t].at = "list" /\ TurnOK(t)
      /\ UNCHANGED <<phase, feed, emulator, socket, late, disturbances>>
      /\ rotation \in [Rotator -> Turn] /\ services \in Seq(Instance)
      /\ rotation' = [rotation EXCEPT ![t] = Resting] /\ services' = services \o SetToSeq(O)
  BY DEF RotationInv, RotationTypeOK, List
<1>1. /\ rotation' \in [Rotator -> Turn] /\ rotation'[t] = Resting
      /\ \A u \in Rotator : u # t => rotation'[u] = rotation[u]
  <2>1. {} \in SUBSET Instance /\ "resting" \in {"resting", "read", "set", "apply", "stop", "unlist", "start", "list"}
    OBVIOUS
  <2>2. Resting \in Turn  BY <2>1 DEF Resting, Turn
  <2> QED  BY <2>2, <1>0
<1>2. rotation'[t].at = "resting" /\ rotation'[t].known = {} /\ rotation'[t].opened = {}
  BY <1>1 DEF Resting
<1>3. /\ services' \in Seq(Instance) /\ Running' = Running \cup O
      /\ Running \subseteq Instance /\ Nothing \notin Instance
      /\ \A u \in Rotator : rotation[u].known \subseteq Instance /\ rotation[u].opened \subseteq Instance
  <2>1. /\ Running \subseteq Instance
        /\ \A u \in Rotator : rotation[u].known \subseteq Instance /\ rotation[u].opened \subseteq Instance
    BY <1>0, InHand
  <2>2. IsFiniteSet(O) /\ O \subseteq Instance  BY <1>0, <2>1 DEF TurnOK
  <2>3. SetToSeq(O) \in Seq(O) /\ ToSet(SetToSeq(O)) = O
    <3> HIDE DEF O
    <3> QED  BY <2>2, SeqOfSet
  <2>4. SetToSeq(O) \in Seq(Instance)  BY <2>2, <2>3
  <2>5. services' \in Seq(Instance)  BY <1>0, <2>4
  <2>6. Running' = Running \cup O
    <3>1. ToSet(services \o SetToSeq(O)) = ToSet(services) \cup ToSet(SetToSeq(O))
      <4> HIDE DEF O
      <4> QED  BY <1>0, <2>4, ElementsOfConcat
    <3> QED  BY <3>1, <2>3, <1>0 DEF Running
  <2> QED  BY <2>1, <2>5, <2>6, RotationAssumption DEF RotationAssumption
<1>4. \A i : NameOf(i)' = NameOf(i)  BY <1>0 DEF NameOf
<1>5. \A u \in Rotator : u # t => ToStop(u)' = ToStop(u) /\ ToStart(u)' = ToStart(u)
  BY <1>0, <1>1 DEF ToStop, ToStart, Kept, Wanted
<1>6. \A i : AboutToUnlist(i) => AboutToUnlist(i)'
  <2> SUFFICES ASSUME NEW i, AboutToUnlist(i) PROVE AboutToUnlist(i)'  OBVIOUS
  <2>2. PICK u \in Rotator : rotation[u].at = "unlist" /\ i \in ToStop(u)  BY DEF AboutToUnlist
  <2>3. u # t  BY <2>2, <1>0
  <2> QED  BY <2>2, <2>3, <1>1, <1>5 DEF AboutToUnlist
<1>7. \A i : Firm(i)' <=> Firm(i)  BY <1>0, <1>4 DEF Firm
<1>8. \A i \in O : /\ Firm(i) /\ i \notin Running /\ NameOf(i) \in Configured
                   /\ \A v \in Rotator : v # t => i \notin rotation[v].opened
  BY DEF RotationInv, OpenedListen, Firm, NamesKept
<1>9. \A i : AboutToList(i) => AboutToList(i)' \/ i \in O
  BY <1>1 DEF AboutToList
<1> HIDE DEF O
<1>10. RotationTypeOK'
  <2>1. IsFiniteSet({})  BY FS_EmptySet
  <2>2. TurnOK(t)'  BY <1>1, <1>2, <2>1 DEF TurnOK
  <2>3. emulator' \in [Instance -> Emulator]
        /\ socket' \in [Configured -> Instance \cup {Nothing, Deployment}]
    BY <1>0 DEF RotationTypeOK
  <2> QED  BY <1>0, <1>1, <1>3, <2>2, <2>3, BusyTypes
<1>11. NamesKept'
  <2>1. (\A i \in Running : NameOf(i) \in Configured)'
    BY <1>3, <1>4, <1>8 DEF RotationInv, NamesKept
  <2>2. \A u \in Rotator : \A i \in rotation'[u].known \cup rotation'[u].opened :
          NameOf(i)' \in Configured
    BY <1>1, <1>2, <1>4 DEF RotationInv, NamesKept
  <2> QED  BY <2>1, <2>2 DEF NamesKept
<1>12. OpenedListen'
  <2> SUFFICES ASSUME NEW u \in Rotator, NEW i \in rotation'[u].opened
               PROVE  /\ socket'[NameOf(i)'] = i /\ i \notin Running'
                      /\ \A v \in Rotator : i \notin rotation'[v].known
                                            /\ (v # u => i \notin rotation'[v].opened)
    BY DEF OpenedListen
  <2>0. u # t /\ i \in rotation[u].opened  BY <1>1, <1>2
  <2>1. /\ socket[NameOf(i)] = i /\ i \notin Running
        /\ \A v \in Rotator : i \notin rotation[v].known /\ (v # u => i \notin rotation[v].opened)
    BY <2>0 DEF RotationInv, OpenedListen
  <2>2. i \notin O  BY <2>0, <2>1 DEF O
  <2>3. \A v \in Rotator : i \notin rotation'[v].known /\ (v # u => i \notin rotation'[v].opened)
    BY <2>1, <1>1, <1>2
  <2> QED  BY <2>1, <2>2, <2>3, <1>0, <1>3, <1>4
<1>13. StoppedSilent'
  <2> SUFFICES ASSUME NEW u \in Rotator, rotation'[u].at = "unlist", NEW i \in ToStop(u)',
                      NEW s \in Configured
               PROVE  socket'[s] # i
    BY DEF StoppedSilent
  <2>1. u # t  BY <1>2
  <2> QED  BY <2>1, <1>0, <1>1, <1>5 DEF RotationInv, StoppedSilent
<1>14. ASSUME phase # "stopped", NEW u \in Rotator, u # t
       PROVE  /\ rotation'[u].at \in BeforeStart => \A i \in Running' :
                   NameOf(i) \in ToStart(u) => Firm(i) \/ AboutToUnlist(i)
              /\ \A i \in rotation'[u].opened, j \in Running' :
                   NameOf(i) = NameOf(j) => AboutToUnlist(j)
  <2>1. /\ rotation[u].at \in BeforeStart => \A i \in Running :
             NameOf(i) \in ToStart(u) => Firm(i) \/ AboutToUnlist(i)
        /\ \A i \in rotation[u].opened, j \in Running : NameOf(i) = NameOf(j) => AboutToUnlist(j)
    BY <1>14 DEF RotationInv, StartsOnce
  <2>2. rotation'[u] = rotation[u]  BY <1>1, <1>14
  <2>3. ASSUME NEW i \in rotation[u].opened, NEW j \in O PROVE NameOf(i) # NameOf(j)
    <3>1. socket[NameOf(i)] = i /\ socket[NameOf(j)] = j
      BY <1>8 DEF RotationInv, OpenedListen, Firm
    <3>2. i # j  BY <1>8, <1>14
    <3> QED  BY <3>1, <3>2
  <2> QED  BY <2>1, <2>2, <2>3, <1>3, <1>8
<1>15. StartsOnce'
  <2> SUFFICES ASSUME phase # "stopped", NEW u \in Rotator
               PROVE  /\ rotation'[u].at \in BeforeStart => \A i \in Running' :
                           NameOf(i) \in ToStart(u)' => Firm(i)' \/ AboutToUnlist(i)'
                      /\ \A i \in rotation'[u].opened, j \in Running' :
                           NameOf(i) = NameOf(j) => AboutToUnlist(j)'
    BY <1>0, <1>4 DEF StartsOnce
  <2>1. CASE u = t
    <3>1. rotation'[u].at \notin BeforeStart /\ rotation'[u].opened = {}
      BY <2>1, <1>2 DEF BeforeStart
    <3> QED  BY <3>1
  <2>2. CASE u # t  BY <2>2, <1>5, <1>6, <1>7, <1>14
  <2> QED  BY <2>1, <2>2
<1>16. ListenersKnown'
  <2> SUFFICES ASSUME NEW s \in Configured, NEW i \in Instance, socket[s] = i
               PROVE  NameOf(i) = s /\ (i \in Running' \/ AboutToList(i)')
    BY <1>0, <1>4 DEF ListenersKnown
  <2> QED  BY <1>3, <1>9 DEF RotationInv, ListenersKnown
<1>17. LoadedListen'
  <2> SUFFICES ASSUME phase \in {"started", "stopping"}, NEW i \in Running'
               PROVE  Firm(i)' \/ AboutToUnlist(i)'
    BY <1>0 DEF LoadedListen
  <2> QED  BY <1>3, <1>6, <1>7, <1>8 DEF RotationInv, LoadedListen
<1>18. NamedOnce'
  <2> SUFFICES ASSUME phase # "stopped", NEW i \in Running', NEW j \in Running', i # j,
                      NameOf(i) = NameOf(j)
               PROVE  AboutToUnlist(i) \/ AboutToUnlist(j)
    BY <1>0, <1>4, <1>6 DEF NamedOnce
  <2>1. \A k \in O, l \in Running : NameOf(k) = NameOf(l) => AboutToUnlist(l)
    BY DEF RotationInv, StartsOnce, O
  <2>2. ~(i \in O /\ j \in O)  BY <1>8 DEF Firm
  <2> QED  BY <2>1, <2>2, <1>3 DEF RotationInv, NamedOnce
<1>19. SilentAtTheEnd'
  <2>1. ~(phase = "stopped" /\ ~late)  BY <1>0, BusyPhase
  <2> QED  BY <2>1, <1>0 DEF SilentAtTheEnd
<1> QED  BY <1>10, <1>11, <1>12, <1>13, <1>15, <1>16, <1>17, <1>18, <1>19 DEF RotationInv

(* New emulators have the names they were made for; the others keep theirs.   *)
LEMMA BuiltResult ==
  ASSUME RotationTypeOK, NEW S \in SUBSET Configured, NEW f \in Numberings(S), NEW p \in Profile,
         NEW b \in BOOLEAN, emulator' = Built(f, p, b)
  PROVE  /\ emulator' \in [Instance -> Emulator]
         /\ \A s \in S : f[s] \in Unused /\ emulator'[f[s]].name = s
         /\ \A i \in Instance \ Unused : emulator'[i] = emulator[i]
         /\ IsFiniteSet({f[s] : s \in S})
<1>1. f \in [S -> Unused] /\ (\A s, u \in S : s # u => f[s] # f[u]) /\ Unused \subseteq Instance
  BY DEF Numberings, Unused
<1>2. DOMAIN f = S  BY <1>1
<1>3. \A i \in Instance :
        emulator'[i] = IF \E s \in S : f[s] = i
                       THEN [name |-> CHOOSE s \in S : f[s] = i, config |-> p,
                             runs |-> IF b THEN p ELSE Nothing]
                       ELSE IF i \in Unused THEN Blank ELSE emulator[i]
  BY <1>2 DEF Built
<1>4. ASSUME NEW s \in S PROVE f[s] \in Unused /\ emulator'[f[s]].name = s /\ emulator'[f[s]] \in Emulator
  <2>1. f[s] \in Instance /\ f[s] \in Unused  BY <1>1
  <2>2. PICK c : c = CHOOSE x \in S : f[x] = f[s]  OBVIOUS
  <2>3. c = s  BY <2>2, <1>1
  <2>4. emulator'[f[s]] = [name |-> c, config |-> p, runs |-> IF b THEN p ELSE Nothing]
    BY <2>1, <2>2, <1>3
  <2>5. PICK r : r = IF b THEN p ELSE Nothing  OBVIOUS
  <2>6. emulator'[f[s]] = [name |-> s, config |-> p, runs |-> r] /\ r \in Profile \cup {Nothing}
    BY <2>3, <2>4, <2>5
  <2> QED  BY <2>1, <2>6 DEF Emulator
<1>5. \A i \in Instance \ Unused : emulator'[i] = emulator[i]
  <2>1. \A i \in Instance \ Unused : ~ \E s \in S : f[s] = i  BY <1>1
  <2> QED  BY <2>1, <1>3
<1>6. Blank \in Emulator  BY DEF Blank, Emulator
<1>7. emulator' \in [Instance -> Emulator]
  <2>1. ASSUME NEW i \in Instance PROVE emulator'[i] \in Emulator
    <3>1. CASE \E s \in S : f[s] = i  BY <3>1, <1>4
    <3>2. CASE ~ \E s \in S : f[s] = i
      <4>1. emulator'[i] = Blank \/ emulator'[i] = emulator[i]  BY <3>2, <1>3
      <4> QED  BY <4>1, <1>6 DEF RotationTypeOK
    <3> QED  BY <3>1, <3>2
  <2>2. emulator' = [i \in Instance |-> emulator'[i]]  BY DEF Built
  <2> QED  BY <2>1, <2>2
<1>8. IsFiniteSet({f[s] : s \in S})
  <2> DEFINE T == {f[s] : s \in S}
  <2>1. f \in Surjection(S, T)  BY <1>1 DEF Surjection
  <2>2. IsFiniteSet(S)  BY FS_Subset, RotationAssumption DEF RotationAssumption
  <2> HIDE DEF T
  <2>3. IsFiniteSet(T)  BY <2>1, <2>2, FS_Surjection
  <2> QED  BY <2>3 DEF T
<1> QED  BY <1>4, <1>5, <1>7, <1>8

(* Services are started on free bindings, with emulators nobody has in hand.   *)
LEMMA StartServicesKeepsInv ==
  ASSUME RotationInv, NEW t \in Rotator, StartServices(t) PROVE RotationInv'
<1>0. RotationTypeOK /\ rotation[t].at = "start" /\ TurnOK(t)
      /\ UNCHANGED <<phase, feed, services, late>> /\ rotation \in [Rotator -> Turn]
  BY DEF RotationInv, RotationTypeOK, StartServices
<1>1. PICK ok \in SUBSET {s \in ToStart(t) : socket[s] = Nothing} :
        /\ Numberings(ok) # {}
        /\ emulator' = Built(Instances(ok), rotation[t].profile, TRUE)
        /\ socket' = [s \in Configured |-> IF s \in ok THEN Instances(ok)[s] ELSE socket[s]]
        /\ rotation' = [rotation EXCEPT ![t].at = "list", ![t].opened = {Instances(ok)[s] : s \in ok}]
  BY DEF StartServices
<1>2. PICK f \in Numberings(ok) : f = Instances(ok)
  <2>1. Instances(ok) \in Numberings(ok)  BY <1>1 DEF Instances
  <2> QED  BY <2>1
<1> DEFINE O == {f[s] : s \in ok}
<1>3. rotation[t].profile \in Profile /\ rotation[t].opened = {}
  BY <1>0 DEF TurnOK
<1>4. ok \in SUBSET Configured /\ ok \subseteq ToStart(t) /\ \A s \in ok : socket[s] = Nothing
  BY <1>3, RotationAssumption DEF ToStart, Wanted, RotationAssumption
<1>5. /\ emulator' \in [Instance -> Emulator]
      /\ \A s \in ok : f[s] \in Unused /\ NameOf(f[s])' = s
      /\ \A i \in Instance \ Unused : NameOf(i)' = NameOf(i)
      /\ IsFiniteSet(O)
  <2>1. emulator' = Built(f, rotation[t].profile, TRUE)  BY <1>1, <1>2
  <2>2. PICK p \in Profile : p = rotation[t].profile  BY <1>3
  <2>3. /\ emulator' \in [Instance -> Emulator]
        /\ \A s \in ok : f[s] \in Unused /\ emulator'[f[s]].name = s
        /\ \A i \in Instance \ Unused : emulator'[i] = emulator[i]
        /\ IsFiniteSet({f[s] : s \in ok})
    <3>1. TRUE \in BOOLEAN /\ emulator' = Built(f, p, TRUE)  BY <2>1, <2>2
    <3> QED  BY <1>0, <1>4, <3>1, BuiltResult
  <2> QED  BY <2>3 DEF NameOf
<1>6. socket' = [s \in Configured |-> IF s \in ok THEN f[s] ELSE socket[s]]
      /\ rotation' = [rotation EXCEPT ![t].at = "list", ![t].opened = O]
  BY <1>1, <1>2
<1>7. \A i \in Unused : /\ i \in Instance /\ i \notin Running /\ \A s \in Configured : socket[s] # i
                        /\ \A u \in Rotator : i \notin rotation[u].known /\ i \notin rotation[u].opened
  BY DEF Unused, Running
<1>8. \A i \in O : i \in Unused /\ i \in Instance /\ \E s \in ok : i = f[s]  BY <1>5, <1>7
<1>9. \A s, u \in ok : f[s] = f[u] => s = u  BY DEF Numberings
<1> HIDE DEF O
<1>10. /\ rotation' \in [Rotator -> Turn]
       /\ rotation'[t].at = "list" /\ rotation'[t].profile = rotation[t].profile
       /\ rotation'[t].known = rotation[t].known /\ rotation'[t].opened = O
       /\ \A u \in Rotator : u # t => rotation'[u] = rotation[u]
  <2>1. PICK q \in Turn : q = rotation[t]  BY <1>0
  <2>2. PICK r : r = [q EXCEPT !.at = "list", !.opened = O]  OBVIOUS
  <2>3. O \in SUBSET Instance  BY <1>8
  <2>4. r \in Turn /\ r.at = "list" /\ r.profile = q.profile /\ r.known = q.known /\ r.opened = O
    BY <2>2, <2>3 DEF Turn
  <2>5. rotation' = [rotation EXCEPT ![t] = r]  BY <1>0, <1>6, <2>1, <2>2
  <2> QED  BY <1>0, <2>1, <2>4, <2>5
<1>11. \A s \in Configured : socket'[s] = IF s \in ok THEN f[s] ELSE socket[s]  BY <1>6
<1>12. /\ Running' = Running /\ Running \subseteq Instance /\ Nothing \notin Instance
       /\ \A u \in Rotator : rotation[u].known \subseteq Instance /\ rotation[u].opened \subseteq Instance
  <2>1. Running' = Running  BY <1>0 DEF Running
  <2> QED  BY <1>0, <2>1, InHand, RotationAssumption DEF RotationAssumption
<1>13. /\ \A i \in Running : NameOf(i)' = NameOf(i)
       /\ \A u \in Rotator : \A i \in rotation[u].known \cup rotation[u].opened : NameOf(i)' = NameOf(i)
  BY <1>5, <1>7, <1>12
<1>14. \A u \in Rotator : u # t =>
         ToStop(u)' = ToStop(u) /\ ToStart(u)' = ToStart(u)
  <2> SUFFICES ASSUME NEW u \in Rotator, u # t
               PROVE ToStop(u)' = ToStop(u) /\ ToStart(u)' = ToStart(u)
    OBVIOUS
  <2>1. rotation'[u] = rotation[u]  BY <1>10
  <2>2. \A i \in rotation[u].known : emulator'[i].name = emulator[i].name  BY <1>13 DEF NameOf
  <2>3. Wanted(u)' = Wanted(u)  BY <2>1 DEF Wanted
  <2>4. {emulator'[i].name : i \in rotation[u].known} = {emulator[i].name : i \in rotation[u].known}
    BY <2>2
  <2>5. {i \in rotation[u].known : emulator'[i].name \in Wanted(u)}
          = {i \in rotation[u].known : emulator[i].name \in Wanted(u)}
    BY <2>2
  <2> QED  BY <2>1, <2>3, <2>4, <2>5 DEF ToStop, ToStart, Kept
<1>15. \A i : AboutToUnlist(i) => AboutToUnlist(i)'
  <2> SUFFICES ASSUME NEW i, AboutToUnlist(i) PROVE AboutToUnlist(i)'  OBVIOUS
  <2>1. PICK u \in Rotator : rotation[u].at = "unlist" /\ i \in ToStop(u)  BY DEF AboutToUnlist
  <2>2. u # t  BY <2>1, <1>0
  <2> QED  BY <2>1, <2>2, <1>10, <1>14 DEF AboutToUnlist
<1>16. \A i \in Running : NameOf(i) \in Configured /\ (Firm(i) => Firm(i)')
  <2> SUFFICES ASSUME NEW i \in Running PROVE NameOf(i) \in Configured /\ (Firm(i) => Firm(i)')
    OBVIOUS
  <2>1. NameOf(i) \in Configured  BY DEF RotationInv, NamesKept
  <2>2. i \in Instance /\ i # Nothing  BY <1>12
  <2> QED  BY <2>1, <2>2, <1>4, <1>11, <1>13 DEF Firm
<1>17. \A i : AboutToList(i) => AboutToList(i)'
  BY <1>3, <1>10 DEF AboutToList
<1>18. \A i \in O : AboutToList(i)'  BY <1>10 DEF AboutToList
<1>20. RotationTypeOK'
  <2>1. TurnOK(t)'  BY <1>3, <1>5, <1>10 DEF TurnOK
  <2>2. socket' \in [Configured -> Instance \cup {Nothing, Deployment}]
    <3>1. \A s \in ok : f[s] \in Instance  BY <1>5, <1>7
    <3> QED  BY <3>1, <1>0, <1>6 DEF RotationTypeOK
  <2>3. services' \in Seq(Instance)  BY <1>0 DEF RotationTypeOK
  <2> QED  BY <1>0, <1>5, <1>10, <2>1, <2>2, <2>3, BusyTypes
<1>21. NamesKept'
  <2>1. (\A i \in Running : NameOf(i) \in Configured)'  BY <1>12, <1>13, <1>16
  <2>2. ASSUME NEW u \in Rotator, NEW i \in rotation'[u].known \cup rotation'[u].opened
        PROVE  NameOf(i)' \in Configured
    <3>1. CASE i \in O  BY <3>1, <1>4, <1>5, <1>8
    <3>2. CASE i \notin O
      <4>1. i \in rotation[u].known \cup rotation[u].opened  BY <3>2, <1>10
      <4> QED  BY <4>1, <1>13 DEF RotationInv, NamesKept
    <3> QED  BY <3>1, <3>2
  <2> QED  BY <2>1, <2>2 DEF NamesKept
<1>22. OpenedListen'
  <2> SUFFICES ASSUME NEW u \in Rotator, NEW i \in rotation'[u].opened
               PROVE  /\ socket'[NameOf(i)'] = i /\ i \notin Running'
                      /\ \A v \in Rotator : i \notin rotation'[v].known
                                            /\ (v # u => i \notin rotation'[v].opened)
    BY DEF OpenedListen
  <2>1. CASE u = t
    <3>1. i \in O  BY <2>1, <1>10
    <3>2. PICK s \in ok : i = f[s]  BY <3>1, <1>8
    <3>3. socket'[NameOf(i)'] = i  BY <3>2, <1>4, <1>5, <1>11
    <3>4. i \notin Running'  BY <3>1, <1>7, <1>8, <1>12
    <3>5. \A v \in Rotator : i \notin rotation'[v].known /\ (v # u => i \notin rotation'[v].opened)
      BY <2>1, <3>1, <1>7, <1>8, <1>10
    <3> QED  BY <3>3, <3>4, <3>5
  <2>2. CASE u # t
    <3>1. i \in rotation[u].opened  BY <2>2, <1>10
    <3>2. /\ socket[NameOf(i)] = i /\ i \notin Running /\ NameOf(i) \in Configured /\ i \in Instance
          /\ \A v \in Rotator : i \notin rotation[v].known /\ (v # u => i \notin rotation[v].opened)
      BY <3>1, <1>12 DEF RotationInv, OpenedListen, NamesKept
    <3>3. socket'[NameOf(i)'] = i
      <4>1. NameOf(i) \notin ok  BY <3>2, <1>4, <1>12
      <4> QED  BY <4>1, <3>1, <3>2, <1>11, <1>13
    <3>4. i \notin O  BY <3>1, <1>7, <1>8
    <3> QED  BY <3>2, <3>3, <3>4, <1>10, <1>12
  <2> QED  BY <2>1, <2>2
<1>23. StoppedSilent'
  <2> SUFFICES ASSUME NEW u \in Rotator, rotation'[u].at = "unlist", NEW i \in ToStop(u)',
                      NEW s \in Configured
               PROVE  socket'[s] # i
    BY DEF StoppedSilent
  <2>1. u # t  BY <1>10
  <2>2. rotation[u].at = "unlist" /\ i \in ToStop(u)  BY <2>1, <1>10, <1>14
  <2>3. socket[s] # i  BY <2>2 DEF RotationInv, StoppedSilent
  <2>4. i \in rotation[u].known  BY <2>2 DEF ToStop
  <2>5. s \in ok => f[s] # i  BY <2>4, <1>5, <1>7
  <2> QED  BY <2>3, <2>5, <1>11
<1>24. StartsOnce'
  <2> SUFFICES ASSUME phase # "stopped", NEW u \in Rotator
               PROVE  /\ rotation'[u].at \in BeforeStart => \A i \in Running :
                           NameOf(i)' \in ToStart(u)' => Firm(i)' \/ AboutToUnlist(i)'
                      /\ \A i \in rotation'[u].opened, j \in Running :
                           NameOf(i)' = NameOf(j)' => AboutToUnlist(j)'
    BY <1>0, <1>12 DEF StartsOnce
  <2>1. \A v \in Rotator :
          /\ rotation[v].at \in BeforeStart => \A i \in Running :
               NameOf(i) \in ToStart(v) => Firm(i) \/ AboutToUnlist(i)
          /\ \A i \in rotation[v].opened, j \in Running : NameOf(i) = NameOf(j) => AboutToUnlist(j)
    BY DEF RotationInv, StartsOnce
  <2>2. CASE u = t
    <3>1. rotation'[u].at \notin BeforeStart  BY <2>2, <1>10 DEF BeforeStart
    <3>2. ASSUME NEW i \in O, NEW j \in Running, NameOf(i)' = NameOf(j)' PROVE AboutToUnlist(j)'
      <4>1. PICK s \in ok : i = f[s]  BY <1>8
      <4>2. NameOf(j) = s  BY <4>1, <3>2, <1>5, <1>13
      <4>3. s \in ToStart(t) /\ socket[s] = Nothing /\ j # Nothing  BY <1>4, <1>12
      <4>4. "start" \in BeforeStart  BY DEF BeforeStart
      <4>5. Firm(j) \/ AboutToUnlist(j)  BY <4>2, <4>3, <4>4, <2>1, <1>0
      <4> QED  BY <4>2, <4>3, <4>5, <1>15 DEF Firm
    <3> QED  BY <3>1, <3>2, <2>2, <1>10
  <2>3. CASE u # t
    <3>1. rotation'[u] = rotation[u] /\ ToStart(u)' = ToStart(u)  BY <2>3, <1>10, <1>14
    <3>2. \A i \in rotation[u].opened : NameOf(i)' = NameOf(i)  BY <1>13
    <3> QED  BY <3>1, <3>2, <2>1, <1>13, <1>15, <1>16
  <2> QED  BY <2>2, <2>3
<1>25. ListenersKnown'
  <2> SUFFICES ASSUME NEW s \in Configured, NEW i \in Instance, socket'[s] = i
               PROVE  NameOf(i)' = s /\ (i \in Running' \/ AboutToList(i)')
    BY DEF ListenersKnown
  <2>1. CASE s \in ok
    <3>1. i = f[s] /\ i \in O  BY <2>1, <1>11 DEF O
    <3> QED  BY <3>1, <2>1, <1>5, <1>18
  <2>2. CASE s \notin ok
    <3>1. socket[s] = i  BY <2>2, <1>11
    <3>2. i \notin Unused  BY <3>1, <1>7
    <3>3. NameOf(i) = s /\ (i \in Running \/ AboutToList(i))
      BY <3>1 DEF RotationInv, ListenersKnown
    <3> QED  BY <3>2, <3>3, <1>5, <1>12, <1>17
  <2> QED  BY <2>1, <2>2
<1>26. LoadedListen'
  <2> SUFFICES ASSUME phase \in {"started", "stopping"}, NEW i \in Running
               PROVE  Firm(i)' \/ AboutToUnlist(i)'
    BY <1>0, <1>12 DEF LoadedListen
  <2> QED  BY <1>15, <1>16 DEF RotationInv, LoadedListen
<1>27. NamedOnce'
  <2> SUFFICES ASSUME phase # "stopped", NEW i \in Running, NEW j \in Running, i # j,
                      NameOf(i)' = NameOf(j)'
               PROVE  AboutToUnlist(i) \/ AboutToUnlist(j)
    BY <1>0, <1>12, <1>15 DEF NamedOnce
  <2> QED  BY <1>13 DEF RotationInv, NamedOnce
<1>28. SilentAtTheEnd'
  <2>1. ~(phase = "stopped" /\ ~late)  BY <1>0, BusyPhase
  <2> QED  BY <2>1, <1>0 DEF SilentAtTheEnd
<1> QED  BY <1>20, <1>21, <1>22, <1>23, <1>24, <1>25, <1>26, <1>27, <1>28 DEF RotationInv

(* Before the start there is nothing under way and nobody listens.            *)
LEMMA CalmKeepsInv ==
  ASSUME RotationTypeOK', \A t \in Rotator : rotation'[t] = Resting,
         \A i \in Running' : NameOf(i)' \in Configured,
         \A i, j \in Running' : NameOf(i)' = NameOf(j)' => i = j,
         \A s \in Configured : \A i \in Instance : socket'[s] = i => NameOf(i)' = s /\ i \in Running',
         LoadedListen', phase' # "stopped"
  PROVE  RotationInv'
<1>1. \A t \in Rotator : rotation'[t].at = "resting" /\ rotation'[t].known = {} /\ rotation'[t].opened = {}
  BY DEF Resting
<1>2. NamesKept'  BY <1>1 DEF NamesKept
<1>3. OpenedListen' /\ StoppedSilent'  BY <1>1 DEF OpenedListen, StoppedSilent
<1>4. StartsOnce'  BY <1>1 DEF StartsOnce, BeforeStart
<1>5. ListenersKnown' /\ NamedOnce' /\ SilentAtTheEnd'
  BY DEF ListenersKnown, NamedOnce, SilentAtTheEnd
<1> QED  BY <1>2, <1>3, <1>4, <1>5 DEF RotationInv

(* One emulator for each service is built at first.                           *)
LEMMA BootstrapKeepsInv == ASSUME RotationInv, Bootstrap PROVE RotationInv'
<1>0. RotationTypeOK /\ phase = "new" /\ phase' = "bootstrapped" /\ feed \in Profile
      /\ UNCHANGED <<feed, socket, rotation, late, disturbances>>
      /\ (\A t \in Rotator : rotation[t] = Resting) /\ \A s \in Configured : socket[s] = Nothing
  BY DEF RotationInv, RotationTypeOK, PhaseOK, Bootstrap
<1> DEFINE S == Enabled[feed]
<1>1. PICK f \in Numberings(S) : f = Instances(S)
  <2>1. Instances(S) \in Numberings(S)  BY DEF Bootstrap, Instances
  <2> QED  BY <2>1
<1> DEFINE O == {f[s] : s \in S}
<1>2. S \in SUBSET Configured /\ Nothing \notin Instance
  BY <1>0, RotationAssumption DEF RotationAssumption
<1>3. f \in [S -> Unused] /\ DOMAIN f = S /\ Unused \subseteq Instance  BY DEF Numberings, Unused
<1>4. emulator' = Built(f, feed, FALSE) /\ services' = SetToSeq(O)
  BY <1>1, <1>3 DEF Bootstrap
<1>5. /\ emulator' \in [Instance -> Emulator] /\ IsFiniteSet(O)
      /\ \A s \in S : f[s] \in Instance /\ NameOf(f[s])' = s
  <2>1. FALSE \in BOOLEAN  OBVIOUS
  <2>2. /\ emulator' \in [Instance -> Emulator]
        /\ \A s \in S : f[s] \in Unused /\ emulator'[f[s]].name = s
        /\ IsFiniteSet({f[s] : s \in S})
    <3> HIDE DEF S
    <3> QED  BY <1>0, <1>2, <1>4, <2>1, BuiltResult
  <2> QED  BY <2>2, <1>3 DEF NameOf
<1>6. services' \in Seq(Instance) /\ Running' = O
  <2>1. O \subseteq Instance  BY <1>5
  <2>2. SetToSeq(O) \in Seq(O) /\ ToSet(SetToSeq(O)) = O
    <3> HIDE DEF O
    <3> QED  BY <1>5, SeqOfSet
  <2>3. services' \in Seq(O) /\ ToSet(services') = O  BY <1>4, <2>2
  <2> HIDE DEF O
  <2> QED  BY <2>1, <2>3 DEF Running
<1>7. \A i \in Running' : \E s \in S : i = f[s] /\ NameOf(i)' = s  BY <1>5, <1>6
<1>8. \A i \in Running' : NameOf(i)' \in Configured  BY <1>2, <1>7
<1>9. \A i, j \in Running' : NameOf(i)' = NameOf(j)' => i = j  BY <1>7
<1>10. RotationTypeOK'
  <2>1. PhaseOK'  BY <1>0 DEF PhaseOK
  <2>2. \A t \in Rotator : TurnOK(t)'  BY <1>0 DEF RotationTypeOK, TurnOK
  <2> QED  BY <1>0, <1>5, <1>6, <2>1, <2>2 DEF RotationTypeOK
<1>11. LoadedListen'  BY <1>0 DEF LoadedListen
<1> QED  BY <1>0, <1>2, <1>8, <1>9, <1>10, <1>11, CalmKeepsInv

(* All that is loaded starts, or nothing.                                     *)
LEMMA StartAllKeepsInv == ASSUME RotationInv, StartAll PROVE RotationInv'
<1>0. RotationTypeOK /\ phase = "bootstrapped" /\ UNCHANGED <<feed, services, rotation, late, disturbances>>
      /\ (\A t \in Rotator : rotation[t] = Resting) /\ \A s \in Configured : socket[s] = Nothing
  BY DEF RotationInv, RotationTypeOK, PhaseOK, StartAll
<1>1. CASE phase' = "unstarted" /\ UNCHANGED <<socket, emulator>>
  <2>1. RotationTypeOK'
    BY <1>0, <1>1 DEF RotationTypeOK, PhaseOK, TurnOK
  <2>2. \A t \in Rotator : Quiet(t)  BY <1>0 DEF Quiet
  <2> QED  BY <1>0, <1>1, <2>1, <2>2, QuietKeepsInv DEF SocketsQuiet, PhaseQuiet
<1>2. CASE /\ phase' = "started"
           /\ socket' = [s \in Configured |->
                IF Loaded(s) = {} THEN Nothing ELSE CHOOSE i \in Loaded(s) : TRUE]
           /\ emulator' = [i \in Instance |->
                IF i \in Running THEN [emulator[i] EXCEPT !.runs = emulator[i].config] ELSE emulator[i]]
  <2>1. Running' = Running /\ Running \subseteq Instance /\ Nothing \notin Instance
    <3>1. Running' = Running  BY <1>0 DEF Running
    <3> QED  BY <1>0, <3>1, InHand, RotationAssumption DEF RotationAssumption
  <2>2. emulator' \in [Instance -> Emulator] /\ \A i \in Instance : NameOf(i)' = NameOf(i)
    <3>1. ASSUME NEW i \in Instance PROVE emulator'[i] \in Emulator /\ emulator'[i].name = emulator[i].name
      <4>1. PICK e \in Emulator : e = emulator[i]  BY <1>0 DEF RotationTypeOK
      <4>2. PICK d : d = [e EXCEPT !.runs = e.config]  OBVIOUS
      <4>3. d \in Emulator /\ d.name = e.name  BY <4>2 DEF Emulator
      <4>4. emulator'[i] \in {e, d}  BY <1>2, <4>1, <4>2
      <4> QED  BY <4>1, <4>3, <4>4
    <3>2. emulator' = [i \in Instance |-> emulator'[i]]  BY <1>2
    <3> QED  BY <3>1, <3>2 DEF NameOf
  <2>3. \A i, j \in Running : NameOf(i) = NameOf(j) => i = j
    <3>1. \A i : ~AboutToUnlist(i)  BY <1>0 DEF AboutToUnlist, Resting
    <3> QED  BY <3>1, <1>0 DEF RotationInv, NamedOnce
  <2>4. \A s \in Configured : Loaded(s) = {i \in Running : NameOf(i) = s}
    BY <2>1 DEF Loaded, Named, Running, NameOf
  <2>5. ASSUME NEW i \in Running PROVE NameOf(i) \in Configured /\ socket'[NameOf(i)] = i
    <3>1. NameOf(i) \in Configured  BY DEF RotationInv, NamesKept
    <3>2. Loaded(NameOf(i)) = {i}  BY <2>3, <2>4, <3>1
    <3> QED  BY <3>1, <3>2, <1>2
  <2>6. ASSUME NEW s \in Configured, NEW i \in Instance, socket'[s] = i
        PROVE  NameOf(i)' = s /\ i \in Running'
    <3>1. Loaded(s) # {} /\ i \in Loaded(s)  BY <2>6, <1>2, <2>1
    <3> QED  BY <3>1, <2>1, <2>2, <2>4
  <2>7. RotationTypeOK'
    <3>1. socket' \in [Configured -> Instance \cup {Nothing, Deployment}]
      <4>1. \A s \in Configured : Loaded(s) \subseteq Instance  BY DEF Loaded, Named
      <4> QED  BY <4>1, <1>2
    <3>2. PhaseOK'  BY <1>2 DEF PhaseOK
    <3>3. \A t \in Rotator : TurnOK(t)'  BY <1>0 DEF RotationTypeOK, TurnOK
    <3> QED  BY <1>0, <1>2, <2>2, <3>1, <3>2, <3>3 DEF RotationTypeOK
  <2>8. LoadedListen'  BY <2>1, <2>2, <2>5 DEF LoadedListen, Firm
  <2>9. \A i \in Running' : NameOf(i)' \in Configured  BY <2>1, <2>2, <2>5
  <2>10. \A i, j \in Running' : NameOf(i)' = NameOf(j)' => i = j  BY <2>1, <2>2, <2>3
  <2> QED  BY <1>0, <1>2, <2>6, <2>7, <2>8, <2>9, <2>10, CalmKeepsInv
<1> QED  BY <1>1, <1>2 DEF StartAll, Running

(* The invariant holds at first, in every step and so always.                  *)
LEMMA RotationInitInv == ASSUME RotationInit PROVE RotationInv
<1> USE DEF RotationInit
<1>0. Nothing \notin Instance  BY RotationAssumption DEF RotationAssumption
<1>1. \A t \in Rotator : rotation[t] = Resting /\ rotation[t].at = "resting"
        /\ rotation[t].known = {} /\ rotation[t].opened = {}
  BY DEF Resting
<1>2. Running = {}  BY ElementsOfNothing DEF Running
<1>3. RotationTypeOK
  <2>1. Blank \in Emulator  BY DEF Blank, Emulator
  <2>2. Resting \in Turn
    <3>1. {} \in SUBSET Instance /\ "resting" \in {"resting", "read", "set", "apply", "stop", "unlist", "start", "list"}
      OBVIOUS
    <3> QED  BY <3>1 DEF Resting, Turn
  <2>3. IsFiniteSet({})  BY FS_EmptySet
  <2>4. \A t \in Rotator : TurnOK(t)  BY <1>1, <2>3 DEF TurnOK
  <2>5. PhaseOK  BY <1>1 DEF PhaseOK
  <2>6. services \in Seq(Instance) /\ emulator \in [Instance -> Emulator]
        /\ socket \in [Configured -> Instance \cup {Nothing, Deployment}]
    BY <2>1
  <2>7. rotation \in [Rotator -> Turn]  BY <2>2
  <2> QED  BY <2>4, <2>5, <2>6, <2>7 DEF RotationTypeOK
<1>4. NamesKept /\ OpenedListen /\ StoppedSilent  BY <1>1, <1>2 DEF NamesKept, OpenedListen, StoppedSilent
<1>5. StartsOnce /\ LoadedListen /\ NamedOnce  BY <1>1, <1>2 DEF StartsOnce, LoadedListen, NamedOnce
<1>6. ListenersKnown /\ SilentAtTheEnd  BY <1>0 DEF ListenersKnown, SilentAtTheEnd
<1> QED  BY <1>3, <1>4, <1>5, <1>6 DEF RotationInv

(* Every step is one of these.                                               *)
LEMMA RotationNextKeepsInv == ASSUME RotationInv, RotationNext PROVE RotationInv'
<1>1. CASE Bootstrap \/ StartAll \/ StopScheduler \/ StopAll \/ FeedChanges
  BY <1>1, BootstrapKeepsInv, StartAllKeepsInv, StopSchedulerKeepsInv, StopAllKeepsInv, FeedChangesKeepsInv
<1>2. CASE \E s \in Configured : Occupy(s) \/ Vacate(s)  BY <1>2, OccupyKeepsInv
<1>3. CASE \E t \in Rotator : ReadFeed(t) \/ RotationSteps(t)
  <2>1. PICK t \in Rotator : ReadFeed(t) \/ RotationSteps(t)  BY <1>3
  <2> QED  BY <2>1, ReadFeedKeepsInv, LookAtLoadedKeepsInv, SetConfigsKeepsInv, StopServicesKeepsInv,
              UnlistKeepsInv, StartServicesKeepsInv, ListKeepsInv DEF RotationSteps
<1> QED  BY <1>1, <1>2, <1>3 DEF RotationNext

(* So the invariant always holds.                                            *)
LEMMA RotationAlwaysInv == RotationSpec => []RotationInv
<1>1. RotationInit => RotationInv  BY RotationInitInv
<1>2. RotationInv /\ [RotationNext]_rotationVars => RotationInv'
  BY RotationNextKeepsInv, RotationStutters
<1> QED  BY <1>1, <1>2, PTL DEF RotationSpec

(* The property, from its parts.                                            *)
LEMMA RotationInvMatches == ASSUME RotationInv PROVE ServicesMatch
<1>1. \A s \in Configured : socket[s] \in Instance =>
        emulator[socket[s]].name = s /\ (socket[s] \in ToSet(services) \/ AboutToList(socket[s]))
  BY DEF RotationInv, ListenersKnown, NameOf, Running
<1>2. phase \in {"started", "stopping"} =>
        \A i \in ToSet(services) : socket[emulator[i].name] = i \/ AboutToUnlist(i)
  BY DEF RotationInv, LoadedListen, Firm, NameOf, Running
<1>3. phase # "stopped" =>
        \A i, j \in ToSet(services) : i # j /\ emulator[i].name = emulator[j].name =>
          AboutToUnlist(i) \/ AboutToUnlist(j)
  BY DEF RotationInv, NamedOnce, NameOf, Running
<1>4. phase = "stopped" /\ ~late => \A s \in Configured : socket[s] \notin Instance
  BY DEF RotationInv, SilentAtTheEnd
<1> QED  BY <1>1, <1>2, <1>3, <1>4 DEF ServicesMatch

(* What listens is loaded or about to be listed, what is loaded listens or is  *)
(* about to be unlisted, and after stop_all nothing is left unless a rotation  *)
(* was under way, however many rotations overlap.                             *)
THEOREM ServicesStayMatched == RotationSpec => []ServicesMatch
BY RotationAlwaysInv, RotationInvMatches, PTL

-----------------------------------------------------------------------------
(* Activities: the scheduler threads, at most one of them unless a scheduler was*)
(* started beside one that close left, and what each of them collected.       *)

ActivityRecord == [active : BOOLEAN, next : {"none", "later", "due"}, cancelled : BOOLEAN]
LoopState == [at : {"off", "waiting", "collecting", "running", "inside"},
              due : SUBSET Nat, raised : BOOLEAN]

ActivityTypeOK ==
  /\ activity \in Seq(ActivityRecord)
  /\ scheduler \in Loop \cup {NoLoop} /\ stray \in BOOLEAN
  /\ loop \in [Loop -> LoopState]
  /\ \A t \in Loop : loop[t].due \subseteq Activities

(* A cancelled activity is over.                                             *)
CancelledRest ==
  \A a \in Activities : activity[a].cancelled => ~activity[a].active /\ activity[a].next = "none"

(* One scheduler at most, and what it collected stays due until it has run.   *)
OneLoop == \A t, u \in Loop : Alive(t) /\ Alive(u) => t = u
CollectedIsDue ==
  \A t \in Loop : loop[t].at \in {"running", "inside"} =>
    \A a \in loop[t].due : activity[a].active => Due(a)

ActivityInv ==
  /\ ActivityTypeOK /\ CancelledRest
  /\ ~stray => OneLoop /\ CollectedIsDue

(* What a step does to the properties.                                       *)
ActivityStep ==
  /\ \A a \in Activities : activity[a].cancelled =>
       /\ ~activity'[a].active /\ activity'[a].next = "none"
       /\ \A t \in Loop : a \in Inside(t)' => a \in Inside(t)
  /\ \A t \in Loop : \A a \in Inside(t)' \ Inside(t) :
       stray \/ (Due(a) /\ \A u \in Loop : a \notin Inside(u))

ActivityKept == ActivityInv' /\ ActivityStep

LEMMA ActivityInitInv == ActivityInit => ActivityInv
<1> SUFFICES ASSUME ActivityInit PROVE ActivityInv  OBVIOUS
<1> USE DEF ActivityInit
<1>1. activity = << >> /\ Activities = {}  BY DEF Activities
<1>2. LoopIdle \in LoopState  BY DEF LoopIdle, LoopState
<1>3. \A t \in Loop : loop[t] = LoopIdle /\ loop[t].due = {} /\ loop[t].at = "off"
  BY DEF LoopIdle
<1>4. ActivityTypeOK
  <2>1. activity \in Seq(ActivityRecord)  BY <1>1
  <2>2. scheduler \in Loop \cup {NoLoop} /\ stray \in BOOLEAN  OBVIOUS
  <2>3. loop \in [Loop -> LoopState]  BY <1>2
  <2> QED  BY <2>1, <2>2, <2>3, <1>3 DEF ActivityTypeOK
<1> QED  BY <1>1, <1>3, <1>4 DEF ActivityInv, CancelledRest, OneLoop, CollectedIsDue, Alive

(* A step that leaves the scheduler threads alone, and what may become of an  *)
(* activity in it.                                                           *)
LEMMA ActivityQuietStep ==
  ASSUME ActivityInv, loop' = loop, stray' = stray, scheduler' \in Loop \cup {NoLoop},
         activity' \in Seq(ActivityRecord), Activities \subseteq Activities',
         CancelledRest',
         \A a \in Activities : activity[a].cancelled => activity'[a] = activity[a] \/
            (~activity'[a].active /\ activity'[a].next = "none"),
         \A a \in Activities : activity'[a].active /\ Due(a) => activity'[a].next = "due",
         \A a \in Activities : activity'[a].active => activity[a].active
  PROVE  ActivityKept
<1> USE DEF ActivityInv
<1>1. \A t \in Loop : Inside(t)' = Inside(t)  BY DEF Inside
<1>2. ActivityStep  BY <1>1 DEF ActivityStep, CancelledRest
<1>3. ActivityTypeOK'  BY DEF ActivityTypeOK
<1>4. OneLoop' <=> OneLoop  BY DEF OneLoop, Alive
<1>5. CollectedIsDue => CollectedIsDue'
  <2> SUFFICES ASSUME CollectedIsDue,
                      NEW t \in Loop, loop[t].at \in {"running", "inside"},
                      NEW a \in loop[t].due, activity'[a].active
               PROVE  activity'[a].active /\ activity'[a].next = "due"
    BY DEF CollectedIsDue, Due
  <2>1. a \in Activities  BY DEF ActivityTypeOK
  <2> QED  BY <2>1 DEF CollectedIsDue
<1> QED  BY <1>2, <1>3, <1>4, <1>5 DEF ActivityKept, ActivityInv

LEMMA ActivityStutters == ASSUME ActivityInv, UNCHANGED activityVars PROVE ActivityKept
<1> USE DEF activityVars, ActivityInv
<1>1. activity' \in Seq(ActivityRecord) /\ scheduler' \in Loop \cup {NoLoop}  BY DEF ActivityTypeOK
<1>2. CancelledRest' /\ Activities \subseteq Activities'  BY DEF CancelledRest, Activities
<1> QED  BY <1>1, <1>2, ActivityQuietStep DEF Due

LEMMA InjectKeepsInv == ASSUME ActivityInv, Inject PROVE ActivityKept
<1> USE DEF ActivityInv
<1>1. PICK r \in ActivityRecord : r.cancelled = FALSE /\ activity' = Append(activity, r)
  <2>1. [active |-> FALSE, next |-> "none", cancelled |-> FALSE] \in ActivityRecord
        /\ [active |-> TRUE, next |-> "later", cancelled |-> FALSE] \in ActivityRecord
    BY DEF ActivityRecord
  <2> QED  BY <2>1 DEF Inject, InjectOnce, InjectRecurring
<1>2. activity \in Seq(ActivityRecord) /\ scheduler \in Loop \cup {NoLoop}  BY DEF ActivityTypeOK
<1>3. UNCHANGED <<scheduler, loop, stray>>  BY DEF Inject, InjectOnce, InjectRecurring
<1>4. activity' \in Seq(ActivityRecord) /\ Activities \subseteq Activities'
      /\ (\A a \in Activities : activity'[a] = activity[a])
      /\ \A a \in Activities' : a \in Activities \/ activity'[a] = r
  BY <1>1, <1>2 DEF Activities
<1>5. CancelledRest'  BY <1>1, <1>4 DEF CancelledRest
<1> QED  BY <1>2, <1>3, <1>4, <1>5, ActivityQuietStep DEF Due

LEMMA EnsureSchedulerKeepsInv == ASSUME ActivityInv, EnsureScheduler PROVE ActivityKept
<1> USE DEF ActivityInv
<1>0. activity \in Seq(ActivityRecord) /\ scheduler \in Loop \cup {NoLoop} /\ activity' = activity
      /\ Activities' = Activities
  BY DEF ActivityTypeOK, EnsureScheduler, Activities
<1>1. CancelledRest'  BY <1>0 DEF CancelledRest
<1>2. CASE UNCHANGED <<scheduler, loop, stray>>
  BY <1>0, <1>1, <1>2, ActivityQuietStep DEF Due
<1>3. CASE ~UNCHANGED <<scheduler, loop, stray>>
  <2>1. PICK t \in Loop : /\ ~Alive(t) /\ scheduler' = t
                          /\ loop' = [loop EXCEPT ![t] = [LoopIdle EXCEPT !.at = "waiting"]]
                          /\ stray' = (stray \/ \E u \in Loop : Alive(u))
    BY <1>3 DEF EnsureScheduler
  <2>2. loop \in [Loop -> LoopState] /\ stray \in BOOLEAN  BY DEF ActivityTypeOK
  <2>3. loop'[t].at = "waiting" /\ loop'[t].due = {} /\ loop'[t] \in LoopState
        /\ \A u \in Loop \ {t} : loop'[u] = loop[u]
    BY <2>1, <2>2 DEF LoopIdle, LoopState
  <2>4. loop' \in [Loop -> LoopState]  BY <2>1, <2>2, <2>3
  <2>5. ActivityTypeOK'  BY <1>0, <2>1, <2>2, <2>3, <2>4 DEF ActivityTypeOK
  <2>6. \A u \in Loop : Inside(u)' \subseteq Inside(u)
    BY <2>3 DEF Inside
  <2>7. ActivityStep  BY <2>6, <1>0 DEF ActivityStep, CancelledRest
  <2>8. ~stray' => ~stray /\ \A u \in Loop : ~Alive(u)  BY <2>1, <2>2
  <2>9. ~stray' => OneLoop'
    BY <2>8, <2>3 DEF OneLoop, Alive
  <2>10. ~stray' => CollectedIsDue'
    BY <2>8, <2>3 DEF CollectedIsDue, Alive
  <2> QED  BY <2>5, <1>1, <2>7, <2>9, <2>10 DEF ActivityKept
<1> QED  BY <1>2, <1>3

LEMMA CancelKeepsInv ==
  ASSUME ActivityInv, NEW a \in Activities, CancelActivity(a) \/ FallDue(a) PROVE ActivityKept
<1> USE DEF ActivityInv
<1>1. activity \in Seq(ActivityRecord) /\ scheduler \in Loop \cup {NoLoop}
      /\ UNCHANGED <<scheduler, loop, stray>>
  BY DEF ActivityTypeOK, CancelActivity, FallDue
<1>2. a \in 1 .. Len(activity) /\ activity[a] \in ActivityRecord  BY <1>1 DEF Activities
<1>3. PICK r \in ActivityRecord :
        /\ activity' = [activity EXCEPT ![a] = r]
        /\ r.cancelled => ~r.active /\ r.next = "none"
        /\ r.active => activity[a].active /\ r.next = "due"
        /\ activity[a].cancelled => ~r.active /\ r.next = "none"
  <2>1. CASE CancelActivity(a)
    <3> DEFINE r == [activity[a] EXCEPT !.active = FALSE, !.next = "none", !.cancelled = TRUE]
    <3>1. r \in ActivityRecord /\ ~r.active /\ r.next = "none"  BY <1>2 DEF ActivityRecord
    <3>2. activity' = [activity EXCEPT ![a] = r]  BY <2>1, <1>2 DEF CancelActivity, ActivityRecord
    <3> QED  BY <3>1, <3>2
  <2>2. CASE FallDue(a)
    <3> DEFINE r == [activity[a] EXCEPT !.next = "due"]
    <3>1. r \in ActivityRecord /\ r.next = "due" /\ r.active = activity[a].active
          /\ r.cancelled = activity[a].cancelled
      BY <1>2 DEF ActivityRecord
    <3>2. activity' = [activity EXCEPT ![a] = r] /\ activity[a].next = "later"
      BY <2>2, <1>2 DEF FallDue, ActivityRecord
    <3>3. ~activity[a].cancelled  BY <3>2 DEF CancelledRest
    <3> QED  BY <3>1, <3>2, <3>3
  <2> QED  BY <2>1, <2>2
<1>4. activity' \in Seq(ActivityRecord) /\ Activities' = Activities /\ activity'[a] = r
      /\ \A b \in Activities \ {a} : activity'[b] = activity[b]
  BY <1>1, <1>2, <1>3 DEF Activities
<1>5. CancelledRest'  BY <1>3, <1>4 DEF CancelledRest
<1>6. \A b \in Activities : /\ activity[b].cancelled => activity'[b] = activity[b] \/
                                 (~activity'[b].active /\ activity'[b].next = "none")
                            /\ activity'[b].active /\ Due(b) => activity'[b].next = "due"
                            /\ activity'[b].active => activity[b].active
  BY <1>3, <1>4 DEF Due
<1> QED  BY <1>1, <1>4, <1>5, <1>6, ActivityQuietStep

LEMMA CloseKeepsInv == ASSUME ActivityInv, CloseManager \/ CloseReturns PROVE ActivityKept
<1> USE DEF ActivityInv
<1>1. UNCHANGED <<activity, loop, stray>> /\ activity' \in Seq(ActivityRecord)
      /\ scheduler' \in Loop \cup {NoLoop}
  BY DEF ActivityTypeOK, CloseManager, CloseReturns
<1>2. CancelledRest' /\ Activities \subseteq Activities'  BY <1>1 DEF CancelledRest, Activities
<1> QED  BY <1>1, <1>2, ActivityQuietStep DEF Due

(* A scheduler goes on: what it collected is due when it begins a run.        *)
LEMMA LoopStep ==
  ASSUME ActivityInv, NEW t \in Loop, NEW r \in LoopState,
         loop' = [loop EXCEPT ![t] = r], Alive(t),
         activity' = activity, stray' = stray, scheduler' = scheduler,
         r.due \subseteq Activities,
         r.at \in {"running", "inside"} => \A a \in r.due : Due(a) \/
            (loop[t].at \in {"running", "inside"} /\ a \in loop[t].due),
         r.at = "inside" => loop[t].at # "inside" /\ r.due = loop[t].due /\ loop[t].at = "running"
                              /\ \A a \in First(r.due) : activity[a].active
  PROVE  ActivityKept
<1> USE DEF ActivityInv
<1>1. loop \in [Loop -> LoopState] /\ activity \in Seq(ActivityRecord)  BY DEF ActivityTypeOK
<1>2. loop'[t] = r /\ \A u \in Loop \ {t} : loop'[u] = loop[u]  BY <1>1
<1>3. ActivityTypeOK'  BY <1>1, <1>2 DEF ActivityTypeOK, Activities
<1>4. CancelledRest'  BY DEF CancelledRest, Activities
<1>5. ~stray => OneLoop'  BY <1>2 DEF OneLoop, Alive
<1>6. ~stray => CollectedIsDue'
  <2> SUFFICES ASSUME ~stray, NEW u \in Loop, loop'[u].at \in {"running", "inside"},
                      NEW a \in loop'[u].due, activity[a].active
               PROVE  Due(a)
    BY DEF CollectedIsDue, Due
  <2>1. CASE u = t  BY <2>1, <1>2 DEF CollectedIsDue
  <2>2. CASE u # t  BY <2>2, <1>2 DEF CollectedIsDue
  <2> QED  BY <2>1, <2>2
<1>7. \A u \in Loop \ {t} : Inside(u)' = Inside(u)  BY <1>2 DEF Inside
<1>8. CASE r.at # "inside"
  <2>1. Inside(t)' = {}  BY <1>2, <1>8 DEF Inside
  <2> QED  BY <2>1, <1>7, <1>3, <1>4, <1>5, <1>6 DEF ActivityKept, ActivityStep, CancelledRest
<1>9. CASE r.at = "inside"
  <2>1. Inside(t)' = First(r.due) /\ Inside(t) = {} /\ First(r.due) \subseteq r.due
    BY <1>2, <1>9 DEF Inside, First
  <2>2. \A a \in First(r.due) : a \in Activities /\ activity[a].active /\ ~activity[a].cancelled
    BY <1>9, <2>1 DEF CancelledRest
  <2>3. ~stray => \A a \in First(r.due) : Due(a)
    BY <2>2, <2>1, <1>9 DEF CollectedIsDue
  <2>4. ~stray => \A u \in Loop : u # t => Inside(u) = {}
    BY DEF OneLoop, Alive, Inside
  <2>5. ActivityStep
    BY <2>1, <2>2, <2>3, <2>4, <1>7 DEF ActivityStep, CancelledRest
  <2> QED  BY <2>5, <1>3, <1>4, <1>5, <1>6 DEF ActivityKept
<1> QED  BY <1>8, <1>9

LEMMA LoopMovesKeepInv ==
  ASSUME ActivityInv, NEW t \in Loop, LoopWakes(t) \/ LoopCollects(t) \/ RoundEnds(t)
  PROVE  ActivityKept
<1> USE DEF ActivityInv
<1>1. loop[t] \in LoopState /\ loop[t].due \subseteq Activities /\ activity \in Seq(ActivityRecord)
  BY DEF ActivityTypeOK
<1>2. CASE LoopWakes(t) \/ RoundEnds(t)
  <2>1. PICK where \in {"off", "collecting", "waiting"} :
          loop' = [loop EXCEPT ![t] = [@ EXCEPT !.at = where]]
    BY <1>2 DEF LoopWakes, RoundEnds
  <2> DEFINE r == [loop[t] EXCEPT !.at = where]
  <2>2. r \in LoopState /\ r.at \notin {"running", "inside"} /\ r.due = loop[t].due
    BY <1>1, <2>1 DEF LoopState
  <2>3. loop' = [loop EXCEPT ![t] = r]  BY <2>1
  <2>4. Alive(t) /\ UNCHANGED <<activity, stray, scheduler>>
    BY <1>2 DEF LoopWakes, RoundEnds, Alive
  <2> HIDE DEF r
  <2> QED  BY <1>1, <2>2, <2>3, <2>4, LoopStep
<1>3. CASE LoopCollects(t)
  <2> DEFINE r == [loop[t] EXCEPT !.at = "running", !.due = {a \in Activities : Due(a)}]
  <2>1. {a \in Activities : Due(a)} \in SUBSET Nat  BY <1>1 DEF Activities
  <2>2. r \in LoopState /\ r.at = "running" /\ r.due = {a \in Activities : Due(a)}
    BY <1>1, <2>1 DEF LoopState
  <2>3. loop' = [loop EXCEPT ![t] = r]  BY <1>3 DEF LoopCollects
  <2>4. Alive(t) /\ UNCHANGED <<activity, stray, scheduler>>
    BY <1>3 DEF LoopCollects, Alive
  <2> HIDE DEF r
  <2> QED  BY <2>2, <2>3, <2>4, LoopStep
<1> QED  BY <1>2, <1>3

LEMMA RunBeginsKeepsInv ==
  ASSUME ActivityInv, NEW t \in Loop, RunBegins(t) PROVE ActivityKept
<1> USE DEF ActivityInv
<1>1. loop[t] \in LoopState /\ loop[t].due \subseteq Activities /\ activity \in Seq(ActivityRecord)
  BY DEF ActivityTypeOK
<1>2. PICK a \in First(loop[t].due) :
        \/ activity[a].active  /\ loop' = [loop EXCEPT ![t].at = "inside"]
        \/ ~activity[a].active /\ loop' = [loop EXCEPT ![t].due = @ \ {a}]
  BY DEF RunBegins
<1>3. loop[t].at = "running" /\ Alive(t) /\ UNCHANGED <<activity, stray, scheduler>>
  BY DEF RunBegins, Alive
<1>4. CASE activity[a].active
  <2> DEFINE r == [loop[t] EXCEPT !.at = "inside"]
  <2>1. r \in LoopState /\ r.at = "inside" /\ r.due = loop[t].due  BY <1>1 DEF LoopState
  <2>2. loop' = [loop EXCEPT ![t] = r]  BY <1>2, <1>4
  <2>3. \A b \in First(loop[t].due) : b = a
    <3>1. loop[t].due \subseteq Nat  BY <1>1 DEF LoopState
    <3> QED  BY <1>2, <3>1 DEF First
  <2> HIDE DEF r
  <2> QED  BY <1>1, <1>3, <1>4, <2>1, <2>2, <2>3, LoopStep
<1>5. CASE ~activity[a].active
  <2> DEFINE r == [loop[t] EXCEPT !.due = @ \ {a}]
  <2>1. r \in LoopState /\ r.at = "running" /\ r.due \subseteq loop[t].due
    BY <1>1, <1>3 DEF LoopState
  <2>2. loop' = [loop EXCEPT ![t] = r]  BY <1>1, <1>2, <1>5 DEF LoopState
  <2> HIDE DEF r
  <2> QED  BY <1>1, <1>3, <2>1, <2>2, LoopStep
<1> QED  BY <1>4, <1>5

LEMMA SchedulingRaisesKeepsInv ==
  ASSUME ActivityInv, NEW t \in Loop, SchedulingRaises(t) PROVE ActivityKept
<1> DEFINE r == [LoopIdle EXCEPT !.raised = TRUE]
<1>1. r \in LoopState /\ r.at = "off" /\ r.due = {}  BY DEF LoopState, LoopIdle
<1>2. loop' = [loop EXCEPT ![t] = r]  BY DEF SchedulingRaises
<1>3. Alive(t) /\ UNCHANGED <<activity, stray, scheduler>>
  BY DEF SchedulingRaises, Alive, Inside
<1> HIDE DEF r
<1> QED  BY <1>1, <1>2, <1>3, LoopStep

(* A run that ends: its activity is collected no more when it is scheduled.   *)
LEMMA RunEndsKeepsInv ==
  ASSUME ActivityInv, NEW t \in Loop, RunEnds(t) PROVE ActivityKept
<1> USE DEF ActivityInv
<1>1. loop \in [Loop -> LoopState] /\ loop[t].due \subseteq Activities /\ activity \in Seq(ActivityRecord)
  BY DEF ActivityTypeOK
<1>2. PICK a \in Inside(t) :
        /\ loop' = [loop EXCEPT ![t].at = "running", ![t].due = @ \ {a}]
        /\ activity' = [activity EXCEPT ![a].next = Next(a)]
  BY DEF RunEnds
<1>3. loop[t].at = "inside" /\ Alive(t) /\ UNCHANGED <<stray, scheduler>> /\ a \in loop[t].due
      /\ a \in Activities
  BY <1>1, <1>2 DEF RunEnds, Alive, Inside, First
<1> DEFINE r == [loop[t] EXCEPT !.at = "running", !.due = @ \ {a}]
           q == [activity[a] EXCEPT !.next = Next(a)]
<1>4. r \in LoopState /\ r.at = "running" /\ r.due = loop[t].due \ {a} /\ loop' = [loop EXCEPT ![t] = r]
  <2>1. loop' = [loop EXCEPT ![t] = r]  BY <1>2
  <2>2. loop[t] \in LoopState  BY <1>1
  <2>3. r \in LoopState /\ r.at = "running" /\ r.due = loop[t].due \ {a}  BY <2>2 DEF LoopState
  <2> HIDE DEF r
  <2> QED  BY <2>1, <2>3
<1>5. activity[a] \in ActivityRecord  BY <1>1, <1>3 DEF Activities
<1>6. q \in ActivityRecord /\ q.active = activity[a].active /\ q.cancelled = activity[a].cancelled
      /\ (~q.active => q.next = "none") /\ activity' = [activity EXCEPT ![a] = q]
  BY <1>5, <1>2 DEF ActivityRecord, Next
<1> HIDE DEF r, q
<1>7. loop' \in [Loop -> LoopState] /\ loop'[t] = r /\ \A u \in Loop \ {t} : loop'[u] = loop[u]
  BY <1>1, <1>4
<1>8. activity' \in Seq(ActivityRecord) /\ Activities' = Activities /\ activity'[a] = q
      /\ \A b \in Activities \ {a} : activity'[b] = activity[b]
  BY <1>1, <1>3, <1>6 DEF Activities
<1>9. ActivityTypeOK'  BY <1>3, <1>4, <1>7, <1>8 DEF ActivityTypeOK
<1>10. CancelledRest'  BY <1>6, <1>8 DEF CancelledRest
<1>11. ~stray => OneLoop'
  BY <1>3, <1>7 DEF OneLoop, Alive
<1>12. ~stray => CollectedIsDue'
  <2> SUFFICES ASSUME ~stray, NEW u \in Loop, loop'[u].at \in {"running", "inside"},
                      NEW b \in loop'[u].due, activity'[b].active
               PROVE  activity'[b].next = "due"
    BY DEF CollectedIsDue, Due
  <2>1. u = t  BY <1>7, <1>3, <1>11 DEF OneLoop, Alive
  <2>2. b \in loop[t].due /\ b # a /\ b \in Activities  BY <2>1, <1>7, <1>4, <1>1
  <2>3. activity'[b] = activity[b]  BY <2>2, <1>8
  <2> QED  BY <2>2, <2>3, <1>3 DEF CollectedIsDue, Due
<1>13. \A u \in Loop : Inside(u)' \subseteq Inside(u)
  BY <1>7, <1>4 DEF Inside
<1>14. ActivityStep  BY <1>13, <1>6, <1>8 DEF ActivityStep, CancelledRest
<1> QED  BY <1>3, <1>9, <1>10, <1>11, <1>12, <1>14 DEF ActivityKept

LEMMA ActivityStepKeeps == ActivityInv /\ [ActivityNext]_activityVars => ActivityKept
<1> SUFFICES ASSUME ActivityInv, [ActivityNext]_activityVars PROVE ActivityKept  OBVIOUS
<1>1. CASE UNCHANGED activityVars  BY <1>1, ActivityStutters
<1>2. CASE Inject \/ EnsureScheduler \/ CloseManager \/ CloseReturns
  BY <1>2, InjectKeepsInv, EnsureSchedulerKeepsInv, CloseKeepsInv
<1>3. CASE \E a \in Activities : CancelActivity(a) \/ FallDue(a)  BY <1>3, CancelKeepsInv
<1>4. CASE \E t \in Loop : LoopSteps(t) \/ SchedulingRaises(t)
  <2>1. PICK t \in Loop : LoopSteps(t) \/ SchedulingRaises(t)  BY <1>4
  <2> QED  BY <2>1, LoopMovesKeepInv, RunBeginsKeepsInv, RunEndsKeepsInv, SchedulingRaisesKeepsInv
           DEF LoopSteps
<1> QED  BY <1>1, <1>2, <1>3, <1>4 DEF ActivityNext

(* A run begins when it is due and only then, and never after a cancellation, *)
(* whatever cancels, closes and injections come between the steps of a        *)
(* scheduler, for any number of activities and threads.                       *)
THEOREM RunsOnlyWhenDue == ActivitySpec => RunsWhenDue
<1>1. ActivityInit => ActivityInv  BY ActivityInitInv
<1>2. ActivityInv /\ [ActivityNext]_activityVars => ActivityInv'
  BY ActivityStepKeeps DEF ActivityKept
<1>3. ActivityInv /\ [ActivityNext]_activityVars =>
        [\A a \in Activities : activity[a].cancelled =>
           /\ ~activity'[a].active /\ activity'[a].next = "none"
           /\ \A t \in Loop : a \in Inside(t)' => a \in Inside(t)]_activityVars
  BY ActivityStepKeeps DEF ActivityKept, ActivityStep
<1>4. ActivityInv /\ [ActivityNext]_activityVars =>
        [\A t \in Loop : \A a \in Inside(t)' \ Inside(t) :
           stray \/ (Due(a) /\ \A u \in Loop : a \notin Inside(u))]_activityVars
  BY ActivityStepKeeps DEF ActivityKept, ActivityStep
<1> QED  BY <1>1, <1>2, <1>3, <1>4, PTL DEF ActivitySpec, RunsWhenDue, CancelEnds, RunsOncePerDue
==============================================================================
