----------------------------- MODULE RecentUse_proofs -----------------------------
(*****************************************************************************)
(* Proofs about dictionaries kept in the order of use: what using a key does *)
(* to the keys, to their places, and to who may have been dropped.           *)
(* And where the numbers of a finite set stand in their order.               *)
(*****************************************************************************)
EXTENDS RecentUse, FiniteSets, FiniteSetTheorems, TLAPS

(* Dictionaries in the order of use.  No key is there twice, and every key    *)
(* has those behind it among the keys that were used since it was: h.        *)
InOrderOfUse(table, h) == \A i, j \in DOMAIN table : i < j => table[j] \in h[table[i]]

UsedSince(h, Key, k) == [o \in Key |-> IF o = k THEN {} ELSE h[o] \cup {k}]

(* As many keys as places. *)
LEMMA DistinctKeys ==
  ASSUME NEW Key, NEW table \in Seq(Key), IsInjective(table)
  PROVE  IsFiniteSet(Listed(table)) /\ Cardinality(Listed(table)) = Len(table)
<1> DEFINE D == 1 .. Len(table)
<1>1. Len(table) \in Nat /\ DOMAIN table = D /\ table \in [D -> Key]  OBVIOUS
<1>2. table \in Surjection(D, Listed(table)) /\ table \in Injection(D, Listed(table))
  BY <1>1 DEF Surjection, Injection, IsInjective, Listed
<1>3. IsFiniteSet(D) /\ Cardinality(D) = Len(table)  BY SMTT(30), <1>1, FS_Interval
<1> QED  BY <1>2, <1>3, FS_Surjection

(* The places of a key that was used, and of the others: those behind the     *)
(* place that was given up moved forward by one.                             *)
LEMMA UsedPlaces ==
  ASSUME NEW Key, NEW table \in Seq(Key), NEW k \in Key, NEW limit \in Nat \ {0},
         Len(table) =< limit
  PROVE  \E p \in 1 .. Len(table) + 1 :
           LET new == Used(table, k, limit)
               n == IF p > Len(table) THEN Len(table) ELSE Len(table) - 1
           IN  /\ new \in Seq(Key) /\ Len(new) = n + 1 /\ n + 1 =< limit /\ new[n + 1] = k
               /\ \A i \in 1 .. n : new[i] = table[IF i < p THEN i ELSE i + 1]
               /\ p =< Len(table) =>
                    \/ table[p] = k
                    \/ k \notin Listed(table) /\ p = 1 /\ Len(table) = limit
               /\ p > Len(table) => k \notin Listed(table)
<1> DEFINE place  == IF k \in Listed(table) THEN CHOOSE i \in DOMAIN table : table[i] = k ELSE 1
           before == SubSeq(table, 1, place - 1)
           after  == SubSeq(table, place + 1, Len(table))
           new    == Used(table, k, limit)
           L      == Len(table)
<1>0. L \in Nat /\ DOMAIN table = 1 .. L  OBVIOUS
<1>1. CASE ~(k \in Listed(table) \/ L >= limit)
  <2>1. new = Append(table, k)  BY <1>1 DEF Used
  <2>2. new \in Seq(Key) /\ Len(new) = L + 1 /\ new[L + 1] = k /\ \A i \in 1 .. L : new[i] = table[i]
    BY <2>1
  <2>3. L + 1 \in 1 .. L + 1 /\ L + 1 > L /\ L + 1 =< limit /\ k \notin Listed(table)
        /\ \A i \in 1 .. L : i < L + 1
    BY <1>0, <1>1
  <2> HIDE DEF new
  <2>4. \A i \in 1 .. L : new[i] = table[IF i < L + 1 THEN i ELSE i + 1]  BY <2>2, <2>3
  <2> QED  BY <2>2, <2>3, <2>4 DEF new
<1>2. CASE k \in Listed(table) \/ L >= limit
  <2>1. place \in 1 .. L /\ (k \in Listed(table) => table[place] = k) /\ (k \notin Listed(table) => place = 1)
    <3>1. CASE k \in Listed(table)
      <4>1. \E i \in DOMAIN table : table[i] = k  BY <3>1 DEF Listed
      <4> QED  BY <3>1, <4>1, <1>0
    <3>2. CASE k \notin Listed(table)  BY <3>2, <1>0, <1>2
    <3> QED  BY <3>1, <3>2
  <2>3. new = Append(before \o after, k)  BY <1>2 DEF Used
  <2> HIDE DEF place, new, before, after
  <2>2. k \notin Listed(table) => L = limit
    <3>1. k \notin Listed(table) => L >= limit  BY <1>2
    <3>2. limit \in Nat /\ L =< limit  OBVIOUS
    <3> HIDE DEF L
    <3> QED  BY <3>1, <3>2, <1>0
  <2> USE DEF before, after
  <2>6. place \in Nat /\ place >= 1 /\ place =< L  BY <2>1, <1>0
  <2>4. before \in Seq(Key) /\ Len(before) = place - 1 /\ \A i \in 1 .. place - 1 : before[i] = table[i]
    BY <2>1, <1>0
  <2>5. after \in Seq(Key) /\ Len(after) = L - place /\ \A i \in 1 .. L - place : after[i] = table[place + i]
    <3>1. Len(table) \in Nat /\ place \in 1 .. Len(table)  BY <2>1
    <3>2. /\ Len(SubSeq(table, place + 1, Len(table))) = Len(table) - place
          /\ \A i \in 1 .. Len(table) - place : SubSeq(table, place + 1, Len(table))[i] = table[place + i]
      BY <3>1
    <3>3. after \in Seq(Key)  BY <2>6, <1>0
    <3> QED  BY <3>2, <3>3
  <2> HIDE DEF before, after
  <2>7. before \o after \in Seq(Key) /\ Len(before \o after) = L - 1
    <3>1. before \o after \in Seq(Key) /\ Len(before \o after) = Len(before) + Len(after)
      BY <2>4, <2>5
    <3> QED  BY <3>1, <2>4, <2>5, <2>6, <1>0
  <2>8. ASSUME NEW i \in 1 .. L - 1
        PROVE  (before \o after)[i] = table[IF i < place THEN i ELSE i + 1]
    <3>1. CASE i < place
      <4>1. i \in 1 .. Len(before) /\ i \in 1 .. place - 1  BY <3>1, <2>4, <2>6
      <4>2. (before \o after)[i] = before[i]  BY <4>1, <2>4, <2>5
      <4> QED  BY <3>1, <4>1, <4>2, <2>4
    <3>2. CASE ~(i < place)
      <4>1. i \in Len(before) + 1 .. Len(before) + Len(after) /\ i - Len(before) \in 1 .. L - place
        BY <3>2, <2>4, <2>5, <2>6, <1>0
      <4>2. (before \o after)[i] = after[i - Len(before)]  BY <4>1, <2>4, <2>5
      <4>3. place + (i - Len(before)) = i + 1  BY <2>4, <2>6
      <4> QED  BY <3>2, <4>1, <4>2, <4>3, <2>5
    <3> QED  BY <3>1, <3>2
  <2>9. new \in Seq(Key) /\ Len(new) = (L - 1) + 1 /\ new[(L - 1) + 1] = k
        /\ \A i \in 1 .. L - 1 : new[i] = (before \o after)[i]
    <3> DEFINE others == before \o after
    <3>1. others \in Seq(Key) /\ Len(others) = L - 1 /\ new = Append(others, k)  BY <2>3, <2>7
    <3> HIDE DEF others
    <3> QED  BY <3>1, <1>0 DEF others
  <2>10. place \in 1 .. L + 1 /\ ~(place > L) /\ (L - 1) + 1 =< limit  BY <2>6, <1>0
  <2>11. \A i \in 1 .. L - 1 : new[i] = table[IF i < place THEN i ELSE i + 1]  BY <2>8, <2>9
  <2> QED  BY <2>1, <2>2, <2>9, <2>10, <2>11 DEF new
<1> QED  BY <1>1, <1>2

(* Using a key keeps the order of use; a key that is dropped for it has had    *)
(* as many others used since it was as the dictionary holds.                 *)
LEMMA UsedResult ==
  ASSUME NEW Key, NEW table \in Seq(Key), NEW k \in Key, NEW limit \in Nat \ {0},
         Len(table) =< limit, IsInjective(table),
         NEW h, InOrderOfUse(table, h), \A o \in Key : IsFiniteSet(h[o])
  PROVE  LET new == Used(table, k, limit)
             since == UsedSince(h, Key, k)
         IN  /\ new \in Seq(Key) /\ Len(new) =< limit /\ IsInjective(new)
             /\ k \in Listed(new) /\ Listed(new) \subseteq Listed(table) \cup {k}
             /\ InOrderOfUse(new, since) /\ \A o \in Key : IsFiniteSet(since[o])
             /\ \A o \in Listed(table) \ Listed(new) : Cardinality(since[o]) >= limit
<1> DEFINE new == Used(table, k, limit)
           since == UsedSince(h, Key, k)
           L == Len(table)
           n(p) == IF p > L THEN L ELSE L - 1
           at(p, i) == IF i < p THEN i ELSE i + 1
<1>1. PICK p \in 1 .. L + 1 :
        /\ new \in Seq(Key) /\ Len(new) = n(p) + 1 /\ n(p) + 1 =< limit /\ new[n(p) + 1] = k
        /\ \A i \in 1 .. n(p) : new[i] = table[at(p, i)]
        /\ p =< L => \/ table[p] = k
                     \/ k \notin Listed(table) /\ p = 1 /\ L = limit
        /\ p > L => k \notin Listed(table)
  BY SMTT(30), UsedPlaces
<1> DEFINE m == n(p)
<1>2. L \in Nat /\ p \in Nat /\ p >= 1 /\ p =< L + 1 /\ m \in Nat /\ DOMAIN table = 1 .. L
      /\ DOMAIN new = 1 .. m + 1
  BY <1>1
<1>3. ASSUME NEW i \in 1 .. m
      PROVE  /\ at(p, i) \in 1 .. L /\ at(p, i) # p /\ new[i] = table[at(p, i)] /\ new[i] \in Key
             /\ \A j \in 1 .. m : i < j => at(p, i) < at(p, j)
  <2>1. at(p, i) \in 1 .. L /\ at(p, i) # p /\ \A j \in 1 .. m : i < j => at(p, i) < at(p, j)  BY <1>2
  <2>2. new[i] = table[at(p, i)]  BY <1>1
  <2> HIDE DEF at, new, m
  <2>3. table[at(p, i)] \in Key  BY <2>1, <1>2
  <2> QED  BY <2>1, <2>2, <2>3
<1>4. ASSUME NEW o \in Listed(table), \A i \in 1 .. m : new[i] # o
      PROVE  p =< L /\ o = table[p]
  <2>1. PICK a \in 1 .. L : table[a] = o  BY <1>2 DEF Listed
  <2>2. a = p
    <3> SUFFICES ASSUME a # p PROVE FALSE  OBVIOUS
    <3> DEFINE i == IF a < p THEN a ELSE a - 1
    <3>1. i \in 1 .. m /\ at(p, i) = a  BY <1>2, <2>1
    <3> HIDE DEF i, m, at, new
    <3>2. new[i] = o  BY <3>1, <2>1, <1>3
    <3> QED  BY <3>1, <3>2, <1>4
  <2> QED  BY <2>1, <2>2, <1>2
<1>6. Len(new) = m + 1 /\ new[m + 1] = k /\ new \in Seq(Key) /\ m + 1 =< limit  BY <1>1
<1> HIDE DEF new, m, at, n
<1>5. new \in Seq(Key) /\ Len(new) =< limit /\ k \in Listed(new)
  <2>1. m + 1 \in DOMAIN new  BY <1>2
  <2> QED  BY <2>1, <1>6 DEF Listed
<1>7. \A i \in 1 .. m : new[i] # k
  <2> SUFFICES ASSUME NEW i \in 1 .. m, new[i] = k PROVE FALSE  OBVIOUS
  <2>1. table[at(p, i)] = k /\ at(p, i) \in 1 .. L /\ at(p, i) # p  BY <1>3
  <2>2. k \in Listed(table)  BY <2>1, <1>2 DEF Listed
  <2>3. p =< L /\ table[p] = k
    <3>1. ~(p > L)  BY <2>2, <1>1
    <3>2. p =< L  BY <3>1, <1>2
    <3> QED  BY <3>2, <2>2, <1>1
  <2> QED  BY <2>1, <2>3, <1>2 DEF IsInjective
<1>8. \A i \in DOMAIN new : i = m + 1 \/ i \in 1 .. m  BY <1>2
<1>9. IsInjective(new)
  <2> SUFFICES ASSUME NEW i \in DOMAIN new, NEW j \in DOMAIN new, new[i] = new[j], i # j PROVE FALSE
    BY DEF IsInjective
  <2>1. i \in 1 .. m /\ j \in 1 .. m  BY <1>6, <1>7, <1>8
  <2>2. at(p, i) = at(p, j)
    <3>1. table[at(p, i)] = table[at(p, j)] /\ at(p, i) \in 1 .. L /\ at(p, j) \in 1 .. L
      BY <2>1, <1>3
    <3> QED  BY <3>1, <1>2 DEF IsInjective
  <2>3. i < j \/ j < i  BY <2>1, <1>2
  <2>4. at(p, i) < at(p, j) \/ at(p, j) < at(p, i)  BY <2>1, <2>3, <1>3
  <2>5. at(p, i) \in Nat  BY <2>1, <1>2, <1>3
  <2> QED  BY <2>2, <2>4, <2>5
<1>10. Listed(new) \subseteq Listed(table) \cup {k}
  <2> SUFFICES ASSUME NEW i \in DOMAIN new PROVE new[i] \in Listed(table) \cup {k}  BY DEF Listed
  <2>1. CASE i = m + 1  BY <2>1, <1>6
  <2>2. CASE i \in 1 .. m  BY <2>2, <1>2, <1>3 DEF Listed
  <2> QED  BY <2>1, <2>2, <1>8
<1>11. \A o \in Key : since[o] = IF o = k THEN {} ELSE h[o] \cup {k}  BY DEF UsedSince
<1> HIDE DEF since
<1>12. InOrderOfUse(new, since)
  <2> SUFFICES ASSUME NEW i \in DOMAIN new, NEW j \in DOMAIN new, i < j
               PROVE  new[j] \in since[new[i]]
    BY DEF InOrderOfUse
  <2>1. i \in 1 .. m  BY <1>2
  <2>2. since[new[i]] = h[new[i]] \cup {k}  BY <2>1, <1>3, <1>7, <1>11
  <2>3. CASE j = m + 1  BY <2>2, <2>3, <1>6
  <2>4. CASE j \in 1 .. m
    <3>1. at(p, i) < at(p, j) /\ at(p, i) \in DOMAIN table /\ at(p, j) \in DOMAIN table
      BY <2>1, <2>4, <1>2, <1>3
    <3>2. table[at(p, j)] \in h[table[at(p, i)]]  BY <3>1 DEF InOrderOfUse
    <3> QED  BY <3>2, <2>1, <2>2, <2>4, <1>3
  <2> QED  BY <2>3, <2>4, <1>8
<1>13. \A o \in Key : IsFiniteSet(since[o])
  <2> SUFFICES ASSUME NEW o \in Key PROVE IsFiniteSet(since[o])  OBVIOUS
  <2>1. CASE o = k  BY <2>1, <1>11, FS_EmptySet
  <2>2. CASE o # k
    <3>1. IsFiniteSet(h[o] \cup {k})  BY FS_AddElement
    <3> QED  BY <2>2, <3>1, <1>11
  <2> QED  BY <2>1, <2>2
<1>14. ASSUME NEW o \in Listed(table) \ Listed(new) PROVE Cardinality(since[o]) >= limit
  <2>1. p =< L /\ o = table[p]
    <3>1. \A i \in 1 .. m : new[i] # o  BY <1>2 DEF Listed
    <3> QED  BY <3>1, <1>4
  <2>2. o # k /\ k \notin Listed(table) /\ p = 1 /\ L = limit  BY <2>1, <1>1, <1>5
  <2>3. o \in Key  BY <2>1, <1>2
  <2>4. Listed(new) \subseteq since[o]
    <3> SUFFICES ASSUME NEW i \in DOMAIN new PROVE new[i] \in since[o]  BY DEF Listed
    <3>1. CASE i = m + 1  BY ZenonT(30), <3>1, <1>6, <1>11, <2>2, <2>3
    <3>2. CASE i \in 1 .. m
      <4>1. at(p, i) \in 1 .. L /\ at(p, i) # 1 /\ new[i] = table[at(p, i)]  BY <3>2, <1>3, <2>2
      <4>2. 1 < at(p, i) /\ 1 \in DOMAIN table /\ at(p, i) \in DOMAIN table  BY <4>1, <1>2, <2>2
      <4>3. new[i] \in h[o]  BY <4>1, <4>2, <2>1, <2>2 DEF InOrderOfUse
      <4> QED  BY <4>3, <2>2, <2>3, <1>11
    <3> QED  BY <3>1, <3>2, <1>8
  <2>5. Cardinality(Listed(new)) = Len(new)  BY <1>5, <1>9, DistinctKeys
  <2>6. Len(new) = limit
    <3>1. m = L - 1
      <4>1. ~(p > L)  BY <2>1, <1>2
      <4> QED  BY <4>1 DEF m, n
    <3> QED  BY <3>1, <1>6, <2>2, <1>2
  <2>7. Cardinality(Listed(new)) =< Cardinality(since[o])
    <3>1. IsFiniteSet(since[o])  BY <2>3, <1>13
    <3> QED  BY <2>4, <3>1, FS_Subset
  <2>8. Cardinality(since[o]) \in Nat  BY <2>3, <1>13, FS_CardinalityType
  <2> QED  BY <2>5, <2>6, <2>7, <2>8
<1> QED  BY <1>5, <1>9, <1>10, <1>12, <1>13, <1>14 DEF new, since

(* The keys after one was used: it and those before, without the first one if  *)
(* there was no room.                                                        *)
LEMMA UsedListed ==
  ASSUME NEW Key, NEW table \in Seq(Key), NEW k \in Key, NEW limit \in Nat \ {0},
         Len(table) =< limit, IsInjective(table)
  PROVE  Listed(Used(table, k, limit)) =
           {k} \cup (Listed(table) \ (IF k \notin Listed(table) /\ Len(table) >= limit
                                     THEN {Head(table)} ELSE {}))
<1> DEFINE new == Used(table, k, limit)
           L == Len(table)
           n(q) == IF q > L THEN L ELSE L - 1
           at(q, i) == IF i < q THEN i ELSE i + 1
           out == IF k \notin Listed(table) /\ L >= limit THEN {Head(table)} ELSE {}
<1>1. PICK p \in 1 .. L + 1 :
        /\ new \in Seq(Key) /\ Len(new) = n(p) + 1 /\ n(p) + 1 =< limit /\ new[n(p) + 1] = k
        /\ \A i \in 1 .. n(p) : new[i] = table[at(p, i)]
        /\ p =< L => \/ table[p] = k
                     \/ k \notin Listed(table) /\ p = 1 /\ L = limit
        /\ p > L => k \notin Listed(table)
  BY UsedPlaces
<1> DEFINE m == n(p)
<1>2. L \in Nat /\ p \in Nat /\ p >= 1 /\ p =< L + 1 /\ m \in Nat /\ DOMAIN table = 1 .. L
      /\ DOMAIN new = 1 .. m + 1
  BY <1>1
<1>7. ASSUME NEW i \in 1 .. m
      PROVE  at(p, i) \in 1 .. L /\ at(p, i) # p /\ new[i] = table[at(p, i)]
  <2>1. at(p, i) \in 1 .. L /\ at(p, i) # p  BY <1>2
  <2>2. new[i] = table[at(p, i)]  BY <1>1
  <2> QED  BY <2>1, <2>2
<1>3. /\ new[m + 1] = k /\ m + 1 =< limit /\ (p > L => m = L)
      /\ p =< L => table[p] = k \/ (k \notin Listed(table) /\ p = 1 /\ L = limit)
  BY <1>1, <1>2
<1>4. \A j \in 1 .. L : j # p => \E i \in 1 .. m : at(p, i) = j
  <2> SUFFICES ASSUME NEW j \in 1 .. L, j # p PROVE \E i \in 1 .. m : at(p, i) = j  OBVIOUS
  <2> DEFINE i == IF j < p THEN j ELSE j - 1
  <2>1. i \in 1 .. m /\ at(p, i) = j  BY <1>2
  <2> QED  BY <2>1
<1>8. limit \in Nat \ {0} /\ L =< limit  OBVIOUS
<1>9. L >= 1 => Head(table) = table[1]  BY <1>2
<1> HIDE DEF new, m, n, at, L
<1>5. ASSUME NEW x \in Listed(new) PROVE x \in {k} \cup (Listed(table) \ out)
  <2>1. PICK i \in 1 .. m + 1 : x = new[i]  BY <1>2 DEF Listed
  <2>2. CASE i = m + 1  BY <2>1, <2>2, <1>3
  <2>3. CASE i # m + 1
    <3>1. i \in 1 .. m  BY <2>1, <2>3, <1>2
    <3>2. x = table[at(p, i)] /\ at(p, i) \in 1 .. L /\ at(p, i) # p  BY <3>1, <2>1, <1>7
    <3>3. x \in Listed(table)  BY <3>2, <1>2 DEF Listed
    <3>4. ASSUME x \in out PROVE FALSE
      <4>1. k \notin Listed(table) /\ L >= limit /\ x = Head(table)  BY <3>4
      <4>2. p =< L /\ L >= 1  BY <4>1, <1>2, <1>3, <1>8
      <4>3. p = 1
        <5>1. table[p] \in Listed(table)  BY <4>2, <1>2 DEF Listed
        <5> QED  BY <4>1, <4>2, <5>1, <1>3
      <4>4. table[at(p, i)] = table[p] /\ p \in 1 .. L  BY <4>1, <4>2, <4>3, <3>2, <1>2, <1>9
      <4> QED  BY <3>2, <4>4, <1>2 DEF IsInjective
    <3> QED  BY <3>3, <3>4
  <2> QED  BY <2>2, <2>3
<1>6. ASSUME NEW x \in {k} \cup (Listed(table) \ out) PROVE x \in Listed(new)
  <2>1. CASE x = k
    <3>1. m + 1 \in DOMAIN new  BY <1>2
    <3> QED  BY <2>1, <3>1, <1>3 DEF Listed
  <2>2. CASE x # k /\ x \in Listed(table) /\ x \notin out
    <3>1. PICK j \in 1 .. L : x = table[j]  BY <2>2, <1>2 DEF Listed
    <3>2. ASSUME j = p PROVE FALSE
      <4>1. p =< L /\ table[p] # k  BY <3>1, <3>2, <2>2, <1>2
      <4>2. k \notin Listed(table) /\ p = 1 /\ L = limit  BY <4>1, <1>3
      <4>3. x = Head(table) /\ L >= limit  BY <3>1, <3>2, <4>2, <1>8, <1>9
      <4> QED  BY <2>2, <4>2, <4>3
    <3>3. PICK i \in 1 .. m : at(p, i) = j  BY <3>1, <3>2, <1>4
    <3>4. i \in DOMAIN new  BY <3>3, <1>2
    <3>5. new[i] = x  BY <3>1, <3>3, <1>7
    <3> QED  BY <3>4, <3>5 DEF Listed
  <2> QED  BY <2>1, <2>2
<1> HIDE DEF out
<1>10. Listed(new) = {k} \cup (Listed(table) \ out)  BY <1>5, <1>6
<1> QED  BY <1>10 DEF new, out, L

(* The places of a finite set of numbers in its order.                      *)
LEMMA Ranked ==
  ASSUME NEW n \in Nat, NEW S \in SUBSET (1 .. n)
  PROVE  LET place(k) == CHOOSE i \in S : Cardinality({j \in S : j <= i}) = k IN
         /\ Cardinality(S) \in Nat
         /\ \A k \in 1 .. Cardinality(S) : place(k) \in S
         /\ \A k, l \in 1 .. Cardinality(S) : place(k) = place(l) => k = l
         /\ \A i \in S : \E k \in 1 .. Cardinality(S) : place(k) = i
<1> DEFINE upto(i) == {j \in S : j <= i}
           rank == [i \in S |-> Cardinality(upto(i))]
           place(k) == CHOOSE i \in S : Cardinality({j \in S : j <= i}) = k
<1>0. \A i \in S : i \in 1 .. n /\ i \in Int  OBVIOUS
<1>1. IsFiniteSet(S) /\ Cardinality(S) \in Nat
  <2>1. IsFiniteSet(1 .. n)  BY FS_Interval
  <2>2. IsFiniteSet(S)  BY <2>1, FS_Subset
  <2> QED  BY <2>2, FS_CardinalityType
<1>2. \A i \in S : upto(i) \subseteq S /\ IsFiniteSet(upto(i)) /\ i \in upto(i)
  BY <1>1, FS_Subset
<1>3. \A i \in S : rank[i] \in 1 .. Cardinality(S)
  <2> SUFFICES ASSUME NEW i \in S PROVE rank[i] \in 1 .. Cardinality(S)
    OBVIOUS
  <2>1. Cardinality(upto(i)) \in Nat /\ Cardinality(upto(i)) <= Cardinality(S)
    BY <1>1, <1>2, FS_Subset, FS_CardinalityType
  <2>2. Cardinality(upto(i)) # 0  BY <1>2, FS_EmptySet
  <2> QED  BY <1>1, <2>1, <2>2
<1>4. \A i, j \in S : i < j => rank[i] < rank[j]
  <2> SUFFICES ASSUME NEW i \in S, NEW j \in S, i < j PROVE rank[i] < rank[j]
    OBVIOUS
  <2>0. i \in Int /\ j \in Int /\ \A x \in S : x \in Int  BY <1>0
  <2>4. \A x \in S : x <= i => x <= j  BY <2>0
  <2>5. j <= j /\ ~(j <= i)  BY <2>0
  <2>1. upto(i) \subseteq upto(j) /\ j \in upto(j) /\ j \notin upto(i)
    BY <2>4, <2>5, Zenon
  <2>2. Cardinality(upto(i)) <= Cardinality(upto(j)) /\ Cardinality(upto(i)) # Cardinality(upto(j))
    BY <1>2, <2>1, FS_Subset
  <2>3. Cardinality(upto(i)) \in Nat /\ Cardinality(upto(j)) \in Nat
    BY <1>2, FS_CardinalityType
  <2> QED  BY <2>2, <2>3
<1>5. \A i, j \in S : rank[i] = rank[j] => i = j
  <2> SUFFICES ASSUME NEW i \in S, NEW j \in S, rank[i] = rank[j] PROVE i = j
    OBVIOUS
  <2>1. i \in Int /\ j \in Int /\ rank[i] \in Int /\ rank[j] \in Int  BY <1>1, <1>3
  <2>2. ~(i < j) /\ ~(j < i)
    <3>1. i < j => rank[i] < rank[j]  BY <1>4
    <3>2. j < i => rank[j] < rank[i]  BY <1>4
    <3> HIDE DEF rank
    <3> QED  BY <2>1, <3>1, <3>2
  <2> QED  BY <2>1, <2>2
<1>6. rank \in Injection(S, 1 .. Cardinality(S))
  <2>1. DOMAIN rank = S /\ rank \in [S -> 1 .. Cardinality(S)]
    <3> HIDE DEF upto
    <3> QED  BY <1>3
  <2> HIDE DEF rank
  <2> QED  BY <1>5, <2>1 DEF Injection, IsInjective
<1>7. IsFiniteSet(1 .. Cardinality(S)) /\ Cardinality(1 .. Cardinality(S)) = Cardinality(S)
  <2>1. PICK m : m = Cardinality(S)  OBVIOUS
  <2>2. m \in Nat  BY <1>1, <2>1
  <2>3. IsFiniteSet(1 .. m) /\ Cardinality(1 .. m) = IF 1 > m THEN 0 ELSE m - 1 + 1
    BY <2>2, FS_Interval
  <2>4. Cardinality(1 .. m) = m  BY <2>2, <2>3
  <2> QED  BY <2>1, <2>3, <2>4
<1> HIDE DEF rank
<1>8. rank \in Surjection(S, 1 .. Cardinality(S))
  BY <1>6, <1>7, FS_Injection
<1>9. \A k \in 1 .. Cardinality(S) : \E i \in S : rank[i] = k
  BY <1>8 DEF Surjection
<1>10. \A k \in 1 .. Cardinality(S) : place(k) \in S /\ rank[place(k)] = k
  BY <1>9 DEF rank
<1> HIDE DEF place
<1>11. \A i \in S : place(rank[i]) = i
  BY <1>3, <1>5, <1>10
<1> HIDE DEF place
<1>12. /\ \A k \in 1 .. Cardinality(S) : place(k) \in S
       /\ \A k, l \in 1 .. Cardinality(S) : place(k) = place(l) => k = l
       /\ \A i \in S : \E k \in 1 .. Cardinality(S) : place(k) = i
  BY <1>3, <1>10, <1>11
<1> QED  BY <1>1, <1>12 DEF place
==============================================================================
