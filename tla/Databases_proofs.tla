----------------------------- MODULE Databases_proofs -----------------------------
(*****************************************************************************)
(* Proofs about the emulated databases.  In a connection to PostgreSQL or MySQL*)
(* what is executed is what was prepared or bound, whatever came in between.  *)
(* Memcached keeps its tokens and its budget.  Redis keeps its book of sizes, *)
(* its deadlines and its limits in every state its commands reach, and what   *)
(* its clients see of the keys changes only as a store of keys would allow.   *)
(*****************************************************************************)
EXTENDS MCDatabases, FiniteSetTheorems, WellFoundedInduction, TLAPS

(* The order of numbers, by which the last of some is found. *)
Less == {p \in Nat \X Nat : p[1] < p[2]}

(* The last of some places, or 0. *)
LEMMA LastIs ==
  ASSUME NEW n \in Nat, NEW S \in SUBSET (1 .. n), NEW l \in {0} \cup S, \A i \in S : i <= l
  PROVE  Max({0} \cup S) = l
<1> DEFINE T == {0} \cup S
<1>1. T \subseteq Int /\ l \in T /\ \A i \in T : l >= i  OBVIOUS
<1>2. \A x \in T : (\A i \in T : x >= i) => x = l  BY <1>1
<1> HIDE DEF T
<1>3. Max(T) = l  BY <1>1, <1>2 DEF Max
<1> QED  BY <1>3 DEF T

LEMMA LastExists ==
  ASSUME NEW n \in Nat, NEW S \in SUBSET (1 .. n)
  PROVE  Max({0} \cup S) \in {0} \cup S /\ \A i \in S : i <= Max({0} \cup S)
<1> DEFINE D == {d \in 0 .. n : n - d \in {0} \cup S}
<1>1. n \in D /\ D \subseteq Nat /\ \A l \in S : l \in 1 .. n /\ n - l \in D  OBVIOUS
<1> HIDE DEF D
<1>2. IsWellFoundedOn(Less, Nat)
  BY NatLessThanWellFounded, Zenon DEF OpToRel, Less
<1>3. PICK d \in D : \A e \in D : <<e, d>> \notin Less
  BY <1>1, <1>2, WFMin
<1>4. \A e \in D : d <= e
  <2> SUFFICES ASSUME NEW e \in D PROVE d <= e  OBVIOUS
  <2>1. d \in Nat /\ e \in Nat /\ <<e, d>> \notin Less  BY <1>1, <1>3
  <2>2. <<e, d>> \in Nat \X Nat /\ <<e, d>>[1] = e /\ <<e, d>>[2] = d  BY <2>1
  <2>3. ~(e < d)  BY <2>1, <2>2 DEF Less
  <2> QED  BY <2>1, <2>3
<1>5. n - d \in {0} \cup S /\ d \in 0 .. n  BY <1>3 DEF D
<1>6. \A l \in S : l <= n - d
  <2> SUFFICES ASSUME NEW l \in S PROVE l <= n - d  OBVIOUS
  <2>1. l \in 1 .. n /\ d <= n - l  BY <1>1, <1>4
  <2> QED  BY <2>1, <1>5
<1>7. Max({0} \cup S) = n - d  BY <1>5, <1>6, LastIs
<1> QED  BY <1>5, <1>6, <1>7

(* A place behind all others is the last.                                    *)
LEMMA LastAppended ==
  ASSUME NEW n \in Nat, NEW S \in SUBSET (1 .. n)
  PROVE  Max({0} \cup (S \cup {n + 1})) = n + 1
<1>1. n + 1 \in Nat /\ S \cup {n + 1} \in SUBSET (1 .. n + 1) /\ n + 1 \in {0} \cup (S \cup {n + 1})
      /\ \A i \in S \cup {n + 1} : i <= n + 1
  OBVIOUS
<1> QED  BY <1>1, LastIs

Message == [kind : {"parse", "close S", "bind", "close P"}, name : Name,
            of : Name \cup PgQuery \cup {Unset}]

(* What a log of messages says.                                              *)
Matching(h, kinds, n, b) == {i \in 1 .. b : h[i].kind \in kinds /\ h[i].name = n}
LastIn(h, kinds, n, b)   == Max({0} \cup Matching(h, kinds, n, b))

ParsedIn(h, n, b) ==
  LET i == LastIn(h, {"parse", "close S"}, n, b) IN IF i = 0 THEN Unset ELSE h[i].of

BoundIn(h, p, b) ==
  LET i == LastIn(h, {"bind", "close P"}, p, b) IN
  IF i = 0 THEN Unset
  ELSE IF h[i].kind = "bind" THEN ParsedIn(h, h[i].of, i) ELSE Unset

(* A message that is heard says something of its own name; what was said of    *)
(* others stays.                                                            *)
Heard(h, m, g, k) ==
  /\ g \in Seq(Message) /\ Len(g) = k + 1
  /\ \A n : ParsedIn(g, n, k + 1) =
       IF m.kind \in {"parse", "close S"} /\ m.name = n THEN m.of ELSE ParsedIn(h, n, k)
  /\ \A p : BoundIn(g, p, k + 1) =
       IF m.kind \in {"bind", "close P"} /\ m.name = p
       THEN IF m.kind = "bind" THEN ParsedIn(h, m.of, k) ELSE Unset
       ELSE BoundIn(h, p, k)

(* What a connection has heard once it hears one message more. *)
LEMMA HearResult ==
  ASSUME NEW h \in Seq(Message), NEW m \in Message, NEW k, k = Len(h), NEW g, g = Append(h, m)
  PROVE  Heard(h, m, g, k)
<1>1. /\ g \in Seq(Message) /\ Len(g) = k + 1 /\ g[k + 1] = m
      /\ k \in Nat /\ \A i \in 1 .. k : g[i] = h[i]
  OBVIOUS
<1>2. \A kinds, n : \A b \in 0 .. k :
        Matching(h, kinds, n, b) \in SUBSET (1 .. b)
        /\ Matching(g, kinds, n, b) = Matching(h, kinds, n, b)
  BY <1>1 DEF Matching
<1>3. \A kinds, n : Matching(g, kinds, n, k + 1) =
        IF m.kind \in kinds /\ m.name = n
        THEN Matching(h, kinds, n, k) \cup {k + 1} ELSE Matching(h, kinds, n, k)
  BY <1>1 DEF Matching
<1>4. \A kinds, n : LastIn(g, kinds, n, k + 1) =
        IF m.kind \in kinds /\ m.name = n THEN k + 1 ELSE LastIn(h, kinds, n, k)
  <2> SUFFICES ASSUME NEW kinds, NEW n
               PROVE  LastIn(g, kinds, n, k + 1) =
                        IF m.kind \in kinds /\ m.name = n THEN k + 1 ELSE LastIn(h, kinds, n, k)
    OBVIOUS
  <2>1. Matching(h, kinds, n, k) \in SUBSET (1 .. k)  BY <1>1, <1>2
  <2>2. Max({0} \cup (Matching(h, kinds, n, k) \cup {k + 1})) = k + 1
    BY <1>1, <2>1, LastAppended
  <2> QED  BY <2>2, <1>3 DEF LastIn
<1>5. \A kinds, n : \A b \in 0 .. k :
        LastIn(g, kinds, n, b) = LastIn(h, kinds, n, b) /\ LastIn(h, kinds, n, b) \in 0 .. b
  <2> SUFFICES ASSUME NEW kinds, NEW n, NEW b \in 0 .. k
               PROVE  LastIn(g, kinds, n, b) = LastIn(h, kinds, n, b) /\ LastIn(h, kinds, n, b) \in 0 .. b
    OBVIOUS
  <2>1. Matching(h, kinds, n, b) \in SUBSET (1 .. b) /\ b \in Nat  BY <1>1, <1>2
  <2>2. Max({0} \cup Matching(h, kinds, n, b)) \in {0} \cup Matching(h, kinds, n, b)
    BY <2>1, LastExists
  <2>3. \A x \in {0} \cup Matching(h, kinds, n, b) : x \in 0 .. b  BY <2>1
  <2> QED  BY <2>2, <2>3, <1>2 DEF LastIn
<1>6. \A n : \A b \in 0 .. k : ParsedIn(g, n, b) = ParsedIn(h, n, b)
  <2> SUFFICES ASSUME NEW n, NEW b \in 0 .. k PROVE ParsedIn(g, n, b) = ParsedIn(h, n, b)  OBVIOUS
  <2>1. PICK i : i = LastIn(h, {"parse", "close S"}, n, b)  OBVIOUS
  <2>2. i \in 0 .. b /\ LastIn(g, {"parse", "close S"}, n, b) = i  BY <2>1, <1>5
  <2>0. k \in Nat  BY <1>1
  <2>a. b \in Nat /\ b <= k  BY <2>0
  <2>b. i \in 0 .. b  BY <2>2
  <2>c. i \in Nat /\ i <= b  BY <2>a, <2>b
  <2>3. i # 0 => i \in 1 .. k  BY <2>0, <2>a, <2>c
  <2>4. i # 0 => g[i] = h[i]  BY <2>3, <1>1
  <2> QED  BY <2>1, <2>2, <2>4 DEF ParsedIn
<1>7. ASSUME NEW n
      PROVE  ParsedIn(g, n, k + 1) =
               IF m.kind \in {"parse", "close S"} /\ m.name = n THEN m.of ELSE ParsedIn(h, n, k)
  <2>1. PICK i : i = LastIn(g, {"parse", "close S"}, n, k + 1)  OBVIOUS
  <2>2. CASE m.kind \in {"parse", "close S"} /\ m.name = n
    <3>0. i = k + 1  BY <2>1, <2>2, <1>4
    <3>1. i = k + 1 /\ i # 0  BY <3>0, <1>1
    <3> QED  BY <2>1, <2>2, <3>1, <1>1 DEF ParsedIn
  <2>3. CASE ~(m.kind \in {"parse", "close S"} /\ m.name = n)
    <3>1. i = LastIn(h, {"parse", "close S"}, n, k)  BY <2>1, <2>3, <1>4
    <3>2. k \in 0 .. k  BY <1>1
    <3>3. i \in 0 .. k  BY <3>1, <3>2, <1>5
    <3>4. i # 0 => g[i] = h[i]  BY <3>3, <1>1
    <3> QED  BY <2>1, <2>3, <3>1, <3>4 DEF ParsedIn
  <2> QED  BY <2>2, <2>3
<1>8. ASSUME NEW p
      PROVE  BoundIn(g, p, k + 1) =
               IF m.kind \in {"bind", "close P"} /\ m.name = p
               THEN IF m.kind = "bind" THEN ParsedIn(h, m.of, k) ELSE Unset ELSE BoundIn(h, p, k)
  <2>1. PICK i : i = LastIn(g, {"bind", "close P"}, p, k + 1)  OBVIOUS
  <2>2. CASE m.kind \in {"bind", "close P"} /\ m.name = p
    <3>0. i = k + 1  BY <2>1, <2>2, <1>4
    <3>1. i = k + 1 /\ i # 0 /\ g[i] = m  BY <3>0, <1>1
    <3>2. m.kind = "bind" => ParsedIn(g, m.of, k + 1) = ParsedIn(h, m.of, k)  BY <1>7
    <3> QED  BY <2>1, <2>2, <3>1, <3>2 DEF BoundIn
  <2>3. CASE ~(m.kind \in {"bind", "close P"} /\ m.name = p)
    <3>1. i = LastIn(h, {"bind", "close P"}, p, k)  BY <2>1, <2>3, <1>4
    <3>2. k \in 0 .. k  BY <1>1
    <3>3. i \in 0 .. k  BY <3>1, <3>2, <1>5
    <3>4. i # 0 => g[i] = h[i] /\ ParsedIn(g, h[i].of, i) = ParsedIn(h, h[i].of, i)
      BY <3>3, <1>1, <1>6
    <3> QED  BY <2>1, <2>3, <3>1, <3>4 DEF BoundIn
  <2> QED  BY <2>2, <2>3
<1> QED  BY <1>1, <1>7, <1>8 DEF Heard

(* An empty log says nothing.                                                *)
LEMMA NothingHeard ==
  ASSUME NEW h, NEW n PROVE ParsedIn(h, n, 0) = Unset /\ BoundIn(h, n, 0) = Unset
<1>1. \A kinds : Matching(h, kinds, n, 0) = {}  BY DEF Matching
<1>2. Max({0} \cup {}) = 0
  <2>1. {} \in SUBSET (1 .. 0) /\ 0 \in {0} \cup {} /\ 0 \in Nat /\ \A i \in {} : i <= 0  OBVIOUS
  <2> QED  BY <2>1, LastIs
<1>3. \A kinds : LastIn(h, kinds, n, 0) = 0  BY <1>1, <1>2 DEF LastIn
<1> QED  BY <1>3 DEF ParsedIn, BoundIn

LEMMA SaidOfHeard ==
  ASSUME NEW n, NEW b
  PROVE  ParsedAs(n, b) = ParsedIn(heard, n, b) /\ BoundTo(n) = BoundIn(heard, n, Len(heard))
BY DEF ParsedAs, ParsedIn, BoundTo, BoundIn, LastOf, LastIn, Matching

(* The connection keeps what the messages so far say, and no more statements  *)
(* than the limit.                                                          *)
PgTypeOK ==
  /\ heard \in Seq(Message)
  /\ statements \in [Name -> PgQuery \cup {Unset}] /\ portals \in [Name -> PgQuery \cup {Unset}]

StatementsHeard == \A n \in Name : statements[n] = ParsedIn(heard, n, Len(heard))
PortalsHeard    == \A p \in Name : portals[p] = BoundIn(heard, p, Len(heard))

KnownNames == {n \in Name : Known(n)}
StatementsCapped == IsFiniteSet(KnownNames) /\ Cardinality(KnownNames) <= PgCap

Fallback(q, r) == IF q # Unset THEN q ELSE r
AnswerIsBound == answer.to = "execute" =>
  LET q == Fallback(BoundIn(heard, answer.name, Len(heard)), BoundIn(heard, Unnamed, Len(heard))) IN
  answer.ran = IF q = EmptyQuery THEN Unset ELSE q

PgInv == PgTypeOK /\ StatementsHeard /\ PortalsHeard /\ StatementsCapped /\ AnswerIsBound

LEMMA PgInitInv == ASSUME PgInit PROVE PgInv
<1> USE DEF PgInit
<1>1. PgTypeOK  BY DEF PgTypeOK
<1>2. Len(heard) = 0  OBVIOUS
<1>3. StatementsHeard /\ PortalsHeard
  BY <1>2, NothingHeard DEF StatementsHeard, PortalsHeard
<1>4. StatementsCapped
  <2>1. KnownNames = {}  BY DEF KnownNames, Known
  <2> QED  BY <2>1, FS_EmptySet, PgAssumption DEF StatementsCapped, PgAssumption
<1>5. AnswerIsBound  BY DEF AnswerIsBound, NoAnswer
<1> QED  BY <1>1, <1>3, <1>4, <1>5 DEF PgInv

(* Steps in which nothing is made or closed.                                  *)
LEMMA PgQuiet ==
  ASSUME PgInv, UNCHANGED <<statements, portals, heard>>, AnswerIsBound' PROVE PgInv'
BY DEF PgInv, PgTypeOK, StatementsHeard, PortalsHeard, StatementsCapped, KnownNames, Known

LEMMA ParseKeepsInv ==
  ASSUME PgInv, NEW n \in Name, NEW q \in PgQuery, Parse(n, q) PROVE PgInv'
<1>0. PgTypeOK /\ Unset \notin PgQuery /\ PgCap \in Nat
  BY PgAssumption DEF PgInv, PgAssumption
<1>1. CASE UNCHANGED <<statements, heard>> /\ answer' = [NoAnswer EXCEPT !.to = "parse", !.ok = FALSE]
  <2>1. AnswerIsBound'  BY <1>1 DEF AnswerIsBound, NoAnswer
  <2> QED  BY <2>1, <1>1, PgQuiet DEF Parse
<1>2. CASE /\ Known(n) \/ ~(Cardinality(KnownNames) >= PgCap)
           /\ Hear("parse", n, q) /\ statements' = [statements EXCEPT ![n] = q]
           /\ answer' = [NoAnswer EXCEPT !.to = "parse"]
  <2>1. PICK m \in Message : m = [kind |-> "parse", name |-> n, of |-> q]  BY DEF Message
  <2>2. m.kind = "parse" /\ m.name = n /\ m.of = q  BY <2>1
  <2>3. heard' = Append(heard, m) /\ heard \in Seq(Message) /\ portals' = portals
    BY <1>0, <1>2, <2>1 DEF Hear, PgTypeOK, Parse
  <2>4. /\ heard' \in Seq(Message) /\ Len(heard') = Len(heard) + 1
        /\ \A x : ParsedIn(heard', x, Len(heard')) = IF x = n THEN q ELSE ParsedIn(heard, x, Len(heard))
        /\ \A x : BoundIn(heard', x, Len(heard')) = BoundIn(heard, x, Len(heard))
    <3>1. PICK h \in Seq(Message) : h = heard  BY <2>3
    <3>2. PICK k : k = Len(h)  OBVIOUS
    <3>4. PICK g : g = Append(h, m)  OBVIOUS
    <3>3. Heard(h, m, g, k)  BY <3>2, <3>4, HearResult
    <3>5. Heard(heard, m, heard', Len(heard))  BY <2>3, <3>1, <3>2, <3>3, <3>4
    <3> QED  BY <2>2, <3>5 DEF Heard
  <2>5. statements \in [Name -> PgQuery \cup {Unset}]  BY <1>0 DEF PgTypeOK
  <2>6. PgTypeOK'  BY <1>0, <1>2, <2>3, <2>4, <2>5 DEF PgTypeOK
  <2>7. StatementsHeard' /\ PortalsHeard'
    BY <1>2, <2>3, <2>4, <2>5 DEF PgInv, StatementsHeard, PortalsHeard
  <2>8. StatementsCapped'
    <3>1. KnownNames' = KnownNames \cup {n}
      BY <1>0, <1>2, <2>5 DEF KnownNames, Known
    <3>2. IsFiniteSet(KnownNames) /\ Cardinality(KnownNames) <= PgCap
          /\ Cardinality(KnownNames) \in Nat
      BY FS_CardinalityType DEF PgInv, StatementsCapped
    <3>3. CASE n \in KnownNames
      <4>1. KnownNames' = KnownNames  BY <3>1, <3>3
      <4> QED  BY <4>1, <3>2 DEF StatementsCapped
    <3>4. CASE n \notin KnownNames
      <4>1. IsFiniteSet(KnownNames \cup {n})
            /\ Cardinality(KnownNames \cup {n}) = Cardinality(KnownNames) + 1
        BY <3>2, <3>4, FS_AddElement
      <4>2. ~(Cardinality(KnownNames) >= PgCap)  BY <1>2, <3>4 DEF KnownNames
      <4>3. Cardinality(KnownNames) + 1 <= PgCap  BY <4>2, <3>2, <1>0
      <4> QED  BY <3>1, <4>1, <4>3 DEF StatementsCapped
    <3> QED  BY <3>3, <3>4
  <2>9. AnswerIsBound'  BY <1>2 DEF AnswerIsBound, NoAnswer
  <2> QED  BY <2>6, <2>7, <2>8, <2>9 DEF PgInv
<1> QED  BY <1>1, <1>2 DEF Parse, KnownNames

LEMMA BindKeepsInv ==
  ASSUME PgInv, NEW p \in Name, NEW n \in Name, Bind(p, n) PROVE PgInv'
<1>1. CASE UNCHANGED <<portals, heard>> /\ answer' = [NoAnswer EXCEPT !.to = "bind", !.ok = FALSE]
  <2>1. AnswerIsBound'  BY <1>1 DEF AnswerIsBound, NoAnswer
  <2> QED  BY <2>1, <1>1, PgQuiet DEF Bind
<1>2. CASE Hear("bind", p, n) /\ portals' = [portals EXCEPT ![p] = statements[n]]
           /\ answer' = [NoAnswer EXCEPT !.to = "bind"]
  <2>1. PICK m \in Message : m = [kind |-> "bind", name |-> p, of |-> n]  BY DEF Message
  <2>2. m.kind = "bind" /\ m.name = p /\ m.of = n  BY <2>1
  <2>3. heard' = Append(heard, m) /\ heard \in Seq(Message) /\ statements' = statements
    BY <1>2, <2>1 DEF Hear, PgInv, PgTypeOK, Bind
  <2>4. /\ heard' \in Seq(Message) /\ Len(heard') = Len(heard) + 1
        /\ \A x : ParsedIn(heard', x, Len(heard')) = ParsedIn(heard, x, Len(heard))
        /\ \A x : BoundIn(heard', x, Len(heard')) =
             IF x = p THEN ParsedIn(heard, n, Len(heard)) ELSE BoundIn(heard, x, Len(heard))
    <3>1. PICK h \in Seq(Message) : h = heard  BY <2>3
    <3>2. PICK k : k = Len(h)  OBVIOUS
    <3>4. PICK g : g = Append(h, m)  OBVIOUS
    <3>3. Heard(h, m, g, k)  BY <3>2, <3>4, HearResult
    <3>5. Heard(heard, m, heard', Len(heard))  BY <2>3, <3>1, <3>2, <3>3, <3>4
    <3> QED  BY <2>2, <3>5 DEF Heard
  <2>5. statements \in [Name -> PgQuery \cup {Unset}] /\ portals \in [Name -> PgQuery \cup {Unset}]
    BY DEF PgInv, PgTypeOK
  <2>6. PgTypeOK'  BY <1>2, <2>3, <2>4, <2>5 DEF PgTypeOK
  <2>7. StatementsHeard' /\ PortalsHeard'
    BY <1>2, <2>3, <2>4, <2>5 DEF PgInv, StatementsHeard, PortalsHeard
  <2>8. StatementsCapped'  BY <2>3 DEF PgInv, StatementsCapped, KnownNames, Known
  <2>9. AnswerIsBound'  BY <1>2 DEF AnswerIsBound, NoAnswer
  <2> QED  BY <2>6, <2>7, <2>8, <2>9 DEF PgInv
<1> QED  BY <1>1, <1>2 DEF Bind

LEMMA AtMost == \A x, y, z \in Nat : (x <= y /\ y <= z) => x <= z
OBVIOUS

LEMMA CloseKeepsInv ==
  ASSUME PgInv, NEW kind, kind \in {"close S", "close P"}, NEW n \in Name, Close(kind, n)
  PROVE  PgInv'
<1>1. PICK m \in Message : m = [kind |-> kind, name |-> n, of |-> Unset]  BY DEF Message
<1>2. m.kind = kind /\ m.name = n /\ m.of = Unset  BY <1>1
<1>3. heard' = Append(heard, m) /\ heard \in Seq(Message)
  BY <1>1 DEF Hear, PgInv, PgTypeOK, Close
<1>4. /\ heard' \in Seq(Message) /\ Len(heard') = Len(heard) + 1
      /\ \A x : ParsedIn(heard', x, Len(heard')) =
           IF kind = "close S" /\ x = n THEN Unset ELSE ParsedIn(heard, x, Len(heard))
      /\ \A x : BoundIn(heard', x, Len(heard')) =
           IF kind = "close P" /\ x = n THEN Unset ELSE BoundIn(heard, x, Len(heard))
  <2>1. PICK h \in Seq(Message) : h = heard  BY <1>3
  <2>2. PICK k : k = Len(h)  OBVIOUS
  <2>4. PICK g : g = Append(h, m)  OBVIOUS
  <2>3. Heard(h, m, g, k)  BY <2>2, <2>4, HearResult
  <2>5. Heard(heard, m, heard', Len(heard))  BY <1>3, <2>1, <2>2, <2>3, <2>4
  <2> QED  BY <1>2, <2>5 DEF Heard
<1>5. statements \in [Name -> PgQuery \cup {Unset}] /\ portals \in [Name -> PgQuery \cup {Unset}]
  BY DEF PgInv, PgTypeOK
<1>6. /\ statements' = IF kind = "close S" THEN [statements EXCEPT ![n] = Unset] ELSE statements
      /\ portals' = IF kind = "close P" THEN [portals EXCEPT ![n] = Unset] ELSE portals
      /\ answer' = [NoAnswer EXCEPT !.to = "close"]
  BY DEF Close
<1>7. PgTypeOK'  BY <1>4, <1>5, <1>6 DEF PgTypeOK
<1>8. StatementsHeard' /\ PortalsHeard'
  BY <1>4, <1>5, <1>6 DEF PgInv, StatementsHeard, PortalsHeard
<1>9. StatementsCapped'
  <2>1. KnownNames' \subseteq KnownNames  BY <1>5, <1>6 DEF KnownNames, Known
  <2>2. IsFiniteSet(KnownNames) /\ Cardinality(KnownNames) <= PgCap /\ Cardinality(KnownNames) \in Nat
        /\ PgCap \in Nat
    BY FS_CardinalityType, PgAssumption DEF PgInv, StatementsCapped, PgAssumption
  <2>3. IsFiniteSet(KnownNames') /\ Cardinality(KnownNames') <= Cardinality(KnownNames)
    BY <2>1, <2>2, FS_Subset
  <2>4. Cardinality(KnownNames') \in Nat  BY <2>3, FS_CardinalityType
  <2>5. Cardinality(KnownNames') <= PgCap
    <3> QED  BY <2>2, <2>3, <2>4, AtMost
  <2> QED  BY <2>3, <2>5 DEF StatementsCapped
<1>10. AnswerIsBound'  BY <1>6 DEF AnswerIsBound, NoAnswer
<1> QED  BY <1>7, <1>8, <1>9, <1>10 DEF PgInv

LEMMA ExecuteKeepsInv == ASSUME PgInv, NEW p \in Name, Execute(p) PROVE PgInv'
<1>1. UNCHANGED <<statements, portals, heard>> /\ Unnamed \in Name
  BY PgAssumption DEF Execute, PgAssumption
<1>2. portals[p] = BoundIn(heard, p, Len(heard)) /\ portals[Unnamed] = BoundIn(heard, Unnamed, Len(heard))
  BY <1>1 DEF PgInv, PortalsHeard
<1>3. PICK q : q = Fallback(portals[p], portals[Unnamed])  OBVIOUS
<1>4. answer'.name = p /\ answer'.ran = IF q = EmptyQuery THEN Unset ELSE q
  BY <1>3 DEF Execute, Fallback
<1>5. AnswerIsBound'  BY <1>1, <1>2, <1>3, <1>4 DEF AnswerIsBound
<1> QED  BY <1>1, <1>5, PgQuiet

LEMMA PgNextKeepsInv == ASSUME PgInv, [PgNext]_pgVars PROVE PgInv'
<1>1. CASE StartUp \/ Terminate \/ UNCHANGED pgVars
  <2>1. UNCHANGED <<statements, portals, heard, answer>>  BY <1>1 DEF StartUp, Terminate, pgVars
  <2>2. AnswerIsBound'  BY <2>1 DEF PgInv, AnswerIsBound
  <2> QED  BY <2>1, <2>2, PgQuiet
<1>2. CASE OtherMessage
  <2>1. answer'.to # "execute"  BY <1>2 DEF OtherMessage, NoAnswer
  <2>2. AnswerIsBound' /\ UNCHANGED <<statements, portals, heard>>
    BY <1>2, <2>1 DEF OtherMessage, AnswerIsBound
  <2> QED  BY <2>2, PgQuiet
<1>3. CASE \E n \in Name :
             \/ \E q \in PgQuery : Parse(n, q)
             \/ \E p \in Name : Bind(p, n)
             \/ Execute(n)
             \/ \E kind \in {"close S", "close P"} : Close(kind, n)
  BY <1>3, ParseKeepsInv, BindKeepsInv, ExecuteKeepsInv, CloseKeepsInv
<1> QED  BY <1>1, <1>2, <1>3 DEF PgNext

LEMMA PgInvExecutes == ASSUME PgInv PROVE ExecutesWhatWasBound
<1>1. {n \in Name : ParsedAs(n, Len(heard)) # Unset} = KnownNames
  BY SaidOfHeard DEF PgInv, StatementsHeard, KnownNames, Known
<1>2. Cardinality({n \in Name : ParsedAs(n, Len(heard)) # Unset}) <= PgCap
  BY <1>1 DEF PgInv, StatementsCapped
<1>3. answer.to = "execute" =>
       LET q == IF BoundTo(answer.name) # Unset THEN BoundTo(answer.name) ELSE BoundTo(Unnamed) IN
       answer.ran = IF q = EmptyQuery THEN Unset ELSE q
  BY SaidOfHeard DEF PgInv, AnswerIsBound, Fallback
<1> QED  BY <1>2, <1>3 DEF ExecutesWhatWasBound

-----------------------------------------------------------------------------
MyCommand == [kind : {"select", "prepare", "close"}, id : Nat, of : MyQuery]

(* What a log of commands says: of a number the query it runs, if any, and    *)
(* where a database was selected last.                                      *)
CommandsIn(h, kinds, id) == {i \in 1 .. Len(h) : h[i].kind \in kinds /\ h[i].id = id}
LastAt(h, kinds, id)     == Max({0} \cup CommandsIn(h, kinds, id))

RunsUnder(h, id) ==
  LET i == LastAt(h, {"prepare", "close"}, id) IN
  IF i # 0 /\ h[i].kind = "prepare" THEN {h[i].of} ELSE {}

(* A command that is logged says something of its own number only.            *)
Logged(h, m, g, k) ==
  /\ g \in Seq(MyCommand) /\ Len(g) = k + 1 /\ g[k + 1] = m /\ \A i \in 1 .. k : g[i] = h[i]
  /\ LastAt(h, {"select"}, 0) \in 0 .. k
  /\ \A id : RunsUnder(g, id) =
       IF m.kind \in {"prepare", "close"} /\ m.id = id
       THEN IF m.kind = "prepare" THEN {m.of} ELSE {} ELSE RunsUnder(h, id)
  /\ LastAt(g, {"select"}, 0) =
       IF m.kind = "select" /\ m.id = 0 THEN k + 1 ELSE LastAt(h, {"select"}, 0)

LEMMA LogResult ==
  ASSUME NEW h \in Seq(MyCommand), NEW m \in MyCommand, NEW k, k = Len(h), NEW g, g = Append(h, m)
  PROVE  Logged(h, m, g, k)
<1>1. /\ g \in Seq(MyCommand) /\ Len(g) = k + 1 /\ g[k + 1] = m
      /\ k \in Nat /\ \A i \in 1 .. k : g[i] = h[i]
  OBVIOUS
<1>2. \A kinds, id : CommandsIn(h, kinds, id) \in SUBSET (1 .. k)  BY <1>1 DEF CommandsIn
<1>3. \A kinds, id : CommandsIn(g, kinds, id) =
        IF m.kind \in kinds /\ m.id = id
        THEN CommandsIn(h, kinds, id) \cup {k + 1} ELSE CommandsIn(h, kinds, id)
  BY <1>1 DEF CommandsIn
<1>4. ASSUME NEW kinds, NEW id
      PROVE  /\ LastAt(g, kinds, id) =
                  IF m.kind \in kinds /\ m.id = id THEN k + 1 ELSE LastAt(h, kinds, id)
             /\ LastAt(h, kinds, id) \in 0 .. k
  <2>1. CommandsIn(h, kinds, id) \in SUBSET (1 .. k)  BY <1>2
  <2>2. Max({0} \cup (CommandsIn(h, kinds, id) \cup {k + 1})) = k + 1
    BY <1>1, <2>1, LastAppended
  <2>3. Max({0} \cup CommandsIn(h, kinds, id)) \in {0} \cup CommandsIn(h, kinds, id)
    BY <1>1, <2>1, LastExists
  <2>4. \A x \in {0} \cup CommandsIn(h, kinds, id) : x \in 0 .. k  BY <1>1, <2>1
  <2> QED  BY <2>2, <2>3, <2>4, <1>3 DEF LastAt
<1>5. ASSUME NEW id
      PROVE  RunsUnder(g, id) =
               IF m.kind \in {"prepare", "close"} /\ m.id = id
               THEN IF m.kind = "prepare" THEN {m.of} ELSE {} ELSE RunsUnder(h, id)
  <2>1. PICK i : i = LastAt(g, {"prepare", "close"}, id)  OBVIOUS
  <2>2. CASE m.kind \in {"prepare", "close"} /\ m.id = id
    <3>1. i = k + 1  BY <2>1, <2>2, <1>4
    <3>2. i # 0 /\ g[i] = m  BY <3>1, <1>1
    <3> QED  BY <2>1, <2>2, <3>2 DEF RunsUnder
  <2>3. CASE ~(m.kind \in {"prepare", "close"} /\ m.id = id)
    <3>1. i = LastAt(h, {"prepare", "close"}, id) /\ i \in 0 .. k  BY <2>1, <2>3, <1>4
    <3>2. i # 0 => g[i] = h[i]  BY <3>1, <1>1
    <3> QED  BY <2>1, <2>3, <3>1, <3>2 DEF RunsUnder
  <2> QED  BY <2>2, <2>3
<1>6. m.kind \in {"select"} <=> m.kind = "select"  OBVIOUS
<1> QED  BY <1>1, <1>4, <1>5, <1>6 DEF Logged

LEMMA NothingLogged ==
  ASSUME NEW id PROVE RunsUnder(<< >>, id) = {}
<1>1. CommandsIn(<< >>, {"prepare", "close"}, id) = {}  BY DEF CommandsIn
<1>2. Max({0} \cup {}) = 0
  <2>1. {} \in SUBSET (1 .. 0) /\ 0 \in {0} \cup {} /\ 0 \in Nat /\ \A i \in {} : i <= 0  OBVIOUS
  <2> QED  BY <2>1, LastIs
<1> QED  BY <1>1, <1>2 DEF RunsUnder, LastAt

LEMMA SaidOfLogged ==
  ASSUME commanded \in Seq(MyCommand)
  PROVE  \A kinds, id : LastCommand(kinds, id) = LastAt(commanded, kinds, id)
<1>1. DOMAIN commanded = 1 .. Len(commanded)  OBVIOUS
<1> QED  BY <1>1 DEF LastCommand, LastAt, CommandsIn

(* Numbers are given out once; the server keeps under each what the log says;  *)
(* the database in use is the one selected last; and so is what was shown.     *)
MyTypeOK ==
  /\ commanded \in Seq(MyCommand) /\ current \in Database
  /\ nextId \in Nat \ {0} /\ prepared \in SUBSET [id : Nat, of : MyQuery]

NumbersFresh ==
  /\ \A x \in prepared : x.id < nextId
  /\ \A i \in 1 .. Len(commanded) : commanded[i].kind = "prepare" => commanded[i].id < nextId
  /\ \A i, j \in 1 .. Len(commanded) :
       (i # j /\ commanded[i].kind = "prepare" /\ commanded[j].kind = "prepare")
         => commanded[i].id # commanded[j].id

KeptAsLogged == \A id : {x.of : x \in {p \in prepared : p.id = id}} = RunsUnder(commanded, id)

Selected == LastAt(commanded, {"select"}, 0)
SelectedInUse == myAt = "ready" => Selected \in 1 .. Len(commanded) /\ current = commanded[Selected].of
NothingYet == myAt = "login" => commanded = << >> /\ prepared = {} /\ shown = Quiet("none", TRUE)

ShownAsLogged ==
  /\ shown.to = "execute" => shown.ran = RunsUnder(commanded, shown.id)
  /\ \A d \in shown.in : d = commanded[Selected].of

MyInv ==
  MyTypeOK /\ NumbersFresh /\ KeptAsLogged /\ SelectedInUse /\ NothingYet /\ ShownAsLogged

LEMMA QuietIsShown ==
  ASSUME NEW cmd, NEW ok, cmd # "execute" PROVE Quiet(cmd, ok).to # "execute" /\ Quiet(cmd, ok).in = {}
BY DEF Quiet

LEMMA MyInitInv == ASSUME MyInit PROVE MyInv
<1> USE DEF MyInit
<1>1. MyTypeOK  BY MyAssumption DEF MyTypeOK, MyAssumption
<1>2. Len(commanded) = 0  OBVIOUS
<1>3. NumbersFresh  BY <1>2 DEF NumbersFresh
<1>4. KeptAsLogged  BY NothingLogged DEF KeptAsLogged
<1>5. SelectedInUse /\ NothingYet  BY DEF SelectedInUse, NothingYet
<1>6. ShownAsLogged
  <2>1. shown.to # "execute" /\ shown.in = {}  BY DEF Quiet
  <2> QED  BY <2>1 DEF ShownAsLogged
<1> QED  BY <1>1, <1>3, <1>4, <1>5, <1>6 DEF MyInv

(* Steps that log nothing.                                                   *)
LEMMA MyQuiet ==
  ASSUME MyInv, UNCHANGED <<current, prepared, nextId, commanded>>,
         myAt' = myAt \/ myAt' = "ended", myAt' = "login" => shown' = shown, ShownAsLogged'
  PROVE  MyInv'
<1> USE DEF MyInv
<1>1. MyTypeOK' /\ NumbersFresh' /\ KeptAsLogged'  BY DEF MyTypeOK, NumbersFresh, KeptAsLogged
<1>2. SelectedInUse' /\ NothingYet'  BY DEF SelectedInUse, Selected, NothingYet
<1> QED  BY <1>1, <1>2

(* A step that logs a command, and shows nothing of it.                       *)
LEMMA LessDiffers == \A x, y \in Nat : x < y => x # y
OBVIOUS

LEMMA LogKeepsInv ==
  ASSUME MyInv, NEW m \in MyCommand, commanded' = Append(commanded, m),
         myAt' = "ready", myAt \in {"login", "ready"},
         prepared' \in SUBSET [id : Nat, of : MyQuery], nextId' \in Nat \ {0}, nextId <= nextId',
         \A x \in prepared' : x.id < nextId',
         m.kind = "prepare" => m.id = nextId /\ m.id < nextId',
         \A id : {x.of : x \in {p \in prepared' : p.id = id}} =
           IF m.kind \in {"prepare", "close"} /\ m.id = id
           THEN IF m.kind = "prepare" THEN {m.of} ELSE {}
           ELSE {x.of : x \in {p \in prepared : p.id = id}},
         current' \in Database, m.kind = "select" => m.id = 0 /\ current' = m.of,
         m.kind # "select" => current' = current /\ myAt = "ready",
         shown'.to # "execute" /\ shown'.in = {}
  PROVE  MyInv'
<1>1. commanded \in Seq(MyCommand) /\ nextId \in Nat /\ nextId' \in Nat  BY DEF MyInv, MyTypeOK
<1>2. PICK k \in Nat : k = Len(commanded)  BY <1>1
<1>3. Logged(commanded, m, commanded', k)
  <2>1. PICK h \in Seq(MyCommand) : h = commanded  BY <1>1
  <2>2. PICK g : g = Append(h, m)  OBVIOUS
  <2>3. Logged(h, m, g, k)  BY <1>2, <2>1, <2>2, LogResult
  <2> QED  BY <2>1, <2>2, <2>3
<1>4. /\ commanded' \in Seq(MyCommand) /\ Len(commanded') = k + 1 /\ commanded'[k + 1] = m
      /\ \A i \in 1 .. k : commanded'[i] = commanded[i]
  BY <1>3 DEF Logged
<1>5. MyTypeOK'  BY <1>4 DEF MyTypeOK
<1>6. NumbersFresh'
  <2>1. \A i \in 1 .. k : commanded[i].kind = "prepare" =>
          commanded[i].id \in Nat /\ commanded[i].id < nextId /\ commanded'[i] = commanded[i]
    <3> SUFFICES ASSUME NEW i \in 1 .. k, commanded[i].kind = "prepare"
                 PROVE  commanded[i].id \in Nat /\ commanded[i].id < nextId /\ commanded'[i] = commanded[i]
      OBVIOUS
    <3>1. commanded[i] \in MyCommand  BY <1>1, <1>2
    <3> QED  BY <3>1, <1>2, <1>4 DEF MyInv, NumbersFresh, MyCommand
  <2>2. \A i \in 1 .. k + 1 : commanded'[i].kind = "prepare" => commanded'[i].id < nextId'
    <3> SUFFICES ASSUME NEW i \in 1 .. k + 1, commanded'[i].kind = "prepare"
                 PROVE  commanded'[i].id < nextId'
      OBVIOUS
    <3>1. CASE i \in 1 .. k
      <4>1. PICK n \in Nat : n = commanded[i].id /\ n < nextId /\ commanded'[i].id = n
        BY <2>1, <3>1, <1>4
      <4> QED  BY <4>1, <1>1
    <3>2. CASE i = k + 1  BY <3>2, <1>4
    <3> QED  BY <3>1, <3>2, <1>2
  <2>3. \A i, j \in 1 .. k + 1 :
          (i # j /\ commanded'[i].kind = "prepare" /\ commanded'[j].kind = "prepare")
            => commanded'[i].id # commanded'[j].id
    <3> SUFFICES ASSUME NEW i \in 1 .. k + 1, NEW j \in 1 .. k + 1, i # j,
                        commanded'[i].kind = "prepare", commanded'[j].kind = "prepare"
                 PROVE  commanded'[i].id # commanded'[j].id
      OBVIOUS
    <3>1. CASE i \in 1 .. k /\ j \in 1 .. k
      <4>1. commanded'[i] = commanded[i] /\ commanded'[j] = commanded[j]  BY <3>1, <1>4
      <4> QED  BY <3>1, <4>1, <1>2 DEF MyInv, NumbersFresh
    <3>2. CASE i = k + 1 /\ j \in 1 .. k
      <4>1. PICK n \in Nat : n = commanded'[j].id /\ n < nextId  BY <2>1, <3>2, <1>4
      <4>2. commanded'[i].id = nextId  BY <3>2, <1>4
      <4>3. n # nextId  BY <4>1, <1>1, LessDiffers
      <4> QED  BY <4>1, <4>2, <4>3
    <3>3. CASE j = k + 1 /\ i \in 1 .. k
      <4>1. PICK n \in Nat : n = commanded'[i].id /\ n < nextId  BY <2>1, <3>3, <1>4
      <4>2. commanded'[j].id = nextId  BY <3>3, <1>4
      <4>3. n # nextId  BY <4>1, <1>1, LessDiffers
      <4> QED  BY <4>1, <4>2, <4>3
    <3> QED  BY <3>1, <3>2, <3>3, <1>2
  <2> QED  BY <2>2, <2>3, <1>4 DEF NumbersFresh
<1>7. KeptAsLogged'
  BY <1>3 DEF MyInv, KeptAsLogged, Logged
<1>8. SelectedInUse'
  <2>1. CASE m.kind = "select"
    <3>1. Selected' = k + 1  BY <2>1, <1>3 DEF Selected, Logged
    <3> QED  BY <2>1, <3>1, <1>2, <1>4 DEF SelectedInUse
  <2>2. CASE m.kind # "select"
    <3>1. Selected' = Selected  BY <2>2, <1>3 DEF Selected, Logged
    <3>2. Selected \in 1 .. k /\ current = commanded[Selected].of
      BY <2>2, <1>2 DEF MyInv, SelectedInUse
    <3>3. Selected \in 1 .. k + 1 /\ commanded'[Selected] = commanded[Selected]
      BY <3>2, <1>2, <1>4
    <3> QED  BY <2>2, <3>1, <3>2, <3>3, <1>4 DEF SelectedInUse
  <2> QED  BY <2>1, <2>2
<1>9. NothingYet' /\ ShownAsLogged'  BY DEF NothingYet, ShownAsLogged
<1> QED  BY <1>5, <1>6, <1>7, <1>8, <1>9 DEF MyInv

LEMMA LogInKeepsInv == ASSUME MyInv, LogIn PROVE MyInv'
<1>1. CASE myAt' = "ended" /\ UNCHANGED <<current, commanded>>
  <2>1. UNCHANGED <<current, prepared, nextId, commanded, shown>>  BY <1>1 DEF LogIn
  <2>2. ShownAsLogged'  BY <2>1 DEF MyInv, ShownAsLogged, Selected
  <2> QED  BY <1>1, <2>1, <2>2, MyQuiet
<1>2. ASSUME NEW d \in Database, myAt' = "ready", current' = d,
             commanded' = <<[kind |-> "select", id |-> 0, of |-> d]>>
      PROVE  MyInv'
  <2>1. PICK m \in MyCommand : m = [kind |-> "select", id |-> 0, of |-> d]
    BY DEF MyCommand, MyQuery
  <2>2. m.kind = "select" /\ m.id = 0 /\ m.of = d  BY <2>1
  <2>3. /\ myAt = "login" /\ commanded = << >> /\ shown = Quiet("none", TRUE)
        /\ UNCHANGED <<prepared, nextId, shown>>
    BY DEF LogIn, MyInv, NothingYet
  <2>4. commanded' = Append(commanded, m)  BY <1>2, <2>1, <2>3
  <2>5. /\ prepared' \in SUBSET [id : Nat, of : MyQuery] /\ nextId' \in Nat \ {0} /\ nextId <= nextId'
        /\ \A x \in prepared' : x.id < nextId'
    BY <2>3 DEF MyInv, MyTypeOK, NumbersFresh
  <2>6. shown'.to # "execute" /\ shown'.in = {}  BY <2>3, QuietIsShown
  <2> QED  BY <1>2, <2>2, <2>3, <2>4, <2>5, <2>6, LogKeepsInv
<1> QED  BY <1>1, <1>2 DEF LogIn

LEMMA UseKeepsInv == ASSUME MyInv, NEW d \in Database, UseDatabase(d) PROVE MyInv'
<1>1. PICK m \in MyCommand : m = [kind |-> "select", id |-> 0, of |-> d]  BY DEF MyCommand, MyQuery
<1>2. m.kind = "select" /\ m.id = 0 /\ m.of = d  BY <1>1
<1>3. /\ commanded' = Append(commanded, m) /\ myAt = "ready" /\ myAt' = "ready" /\ current' = d
      /\ prepared' = prepared /\ nextId' = nextId /\ shown' = Quiet("select", TRUE)
  BY <1>1 DEF UseDatabase, Command
<1>4. /\ prepared' \in SUBSET [id : Nat, of : MyQuery] /\ nextId' \in Nat \ {0} /\ nextId <= nextId'
      /\ \A x \in prepared' : x.id < nextId'
  BY <1>3 DEF MyInv, MyTypeOK, NumbersFresh
<1>5. shown'.to # "execute" /\ shown'.in = {}  BY <1>3, QuietIsShown
<1> QED  BY <1>2, <1>3, <1>4, <1>5, LogKeepsInv

LEMMA PrepareKeepsInv == ASSUME MyInv, NEW q \in MyQuery, Prepare(q) PROVE MyInv'
<1>1. CASE shown' = Quiet("prepare", FALSE) /\ UNCHANGED <<prepared, nextId, commanded>>
  <2>1. shown'.to # "execute" /\ shown'.in = {}  BY <1>1, QuietIsShown
  <2>2. ShownAsLogged' /\ UNCHANGED current /\ myAt' = myAt /\ myAt' # "login"
    BY <2>1 DEF ShownAsLogged, Prepare
  <2> QED  BY <1>1, <2>2, MyQuiet
<1>2. CASE /\ Command("prepare", nextId, q)
           /\ prepared' = prepared \cup {[id |-> nextId, of |-> q]}
           /\ nextId' = nextId + 1
           /\ shown' = Quiet("prepare", TRUE)
  <2>0. nextId \in Nat \ {0} /\ prepared \in SUBSET [id : Nat, of : MyQuery] /\ current \in Database
    BY DEF MyInv, MyTypeOK
  <2>1. PICK m \in MyCommand : m = [kind |-> "prepare", id |-> nextId, of |-> q]
    BY <2>0 DEF MyCommand
  <2>2. m.kind = "prepare" /\ m.id = nextId /\ m.of = q  BY <2>1
  <2>3. /\ commanded' = Append(commanded, m) /\ myAt = "ready" /\ myAt' = "ready"
        /\ current' = current
    BY <1>2, <2>1 DEF Prepare, Command
  <2>4. PICK y : y = [id |-> nextId, of |-> q]  OBVIOUS
  <2>5. y.id = nextId /\ y.of = q /\ prepared' = prepared \cup {y} /\ y \in [id : Nat, of : MyQuery]
    BY <1>2, <2>0, <2>4
  <2>6. prepared' \in SUBSET [id : Nat, of : MyQuery] /\ nextId' \in Nat \ {0} /\ nextId <= nextId'
        /\ nextId < nextId'
    BY <1>2, <2>0, <2>5
  <2>7. \A x \in prepared : x.id \in Nat /\ x.id < nextId
    BY <2>0 DEF MyInv, NumbersFresh
  <2>8. \A x \in prepared' : x.id < nextId'
    <3> SUFFICES ASSUME NEW x \in prepared' PROVE x.id < nextId'  OBVIOUS
    <3>1. x.id \in Nat /\ (x.id < nextId \/ x.id = nextId)  BY <2>0, <2>5, <2>7
    <3> QED  BY <3>1, <1>2, <2>0
  <2>9. \A id : {x.of : x \in {p \in prepared' : p.id = id}} =
           IF m.id = id THEN {q} ELSE {x.of : x \in {p \in prepared : p.id = id}}
    <3>1. \A x \in prepared : x.id # nextId
      <4> SUFFICES ASSUME NEW x \in prepared PROVE x.id # nextId  OBVIOUS
      <4> QED  BY <2>7, <2>0
    <3>2. {p \in prepared' : p.id = nextId} = {y}  BY <3>1, <2>5
    <3>3. \A id : id # nextId => {p \in prepared' : p.id = id} = {p \in prepared : p.id = id}
      BY <2>5
    <3>4. {x.of : x \in {y}} = {q}  BY <2>5
    <3> QED  BY <2>2, <3>2, <3>3, <3>4
  <2>10. shown'.to # "execute" /\ shown'.in = {}  BY <1>2, QuietIsShown
  <2> QED  BY <2>0, <2>2, <2>3, <2>6, <2>8, <2>9, <2>10, LogKeepsInv
<1> QED  BY <1>1, <1>2 DEF Prepare

LEMMA CloseStatementKeepsInv == ASSUME MyInv, NEW n \in Id, CloseStatement(n) PROVE MyInv'
<1>0. n \in Nat  BY MyAssumption DEF Id, MyAssumption
<1>1. PICK m \in MyCommand : m = [kind |-> "close", id |-> n, of |-> ListQuery]
  BY <1>0 DEF MyCommand, MyQuery
<1>2. m.kind = "close" /\ m.id = n  BY <1>1
<1>3. /\ commanded' = Append(commanded, m) /\ myAt = "ready" /\ myAt' = "ready" /\ current' = current
      /\ prepared' = {x \in prepared : x.id # n} /\ nextId' = nextId /\ shown' = Quiet("close", TRUE)
  BY <1>1 DEF CloseStatement, Command
<1>4. /\ prepared' \in SUBSET [id : Nat, of : MyQuery] /\ nextId' \in Nat \ {0} /\ nextId <= nextId'
      /\ (\A x \in prepared' : x.id < nextId') /\ current' \in Database
  BY <1>3 DEF MyInv, MyTypeOK, NumbersFresh
<1>5. \A id : {x.of : x \in {p \in prepared' : p.id = id}} =
         IF n = id THEN {} ELSE {x.of : x \in {p \in prepared : p.id = id}}
  <2>1. {p \in prepared' : p.id = n} = {}  BY <1>3
  <2>2. \A id : id # n => {p \in prepared' : p.id = id} = {p \in prepared : p.id = id}  BY <1>3
  <2> QED  BY <2>1, <2>2
<1>6. shown'.to # "execute" /\ shown'.in = {}  BY <1>3, QuietIsShown
<1> QED  BY <1>2, <1>3, <1>4, <1>5, <1>6, LogKeepsInv

LEMMA MyNextKeepsInv == ASSUME MyInv, [MyNext]_myVars PROVE MyInv'
<1>1. CASE Quit \/ UNCHANGED myVars
  <2>1. UNCHANGED <<current, prepared, nextId, commanded, shown>> /\ (myAt' = myAt \/ myAt' = "ended")
    BY <1>1 DEF Quit, myVars
  <2>2. ShownAsLogged'  BY <2>1 DEF MyInv, ShownAsLogged, Selected
  <2> QED  BY <2>1, <2>2, MyQuiet
<1>2. CASE OtherCommand
  <2>1. /\ UNCHANGED <<current, prepared, nextId, commanded>> /\ myAt' = myAt /\ myAt' # "login"
        /\ \E ok \in BOOLEAN : shown' = Quiet("other", ok)
    BY <1>2 DEF OtherCommand
  <2>2. shown'.to # "execute" /\ shown'.in = {}  BY <2>1, QuietIsShown
  <2>3. ShownAsLogged'  BY <2>2 DEF ShownAsLogged
  <2> QED  BY <2>1, <2>3, MyQuiet
<1>3. CASE ListTables
  <2>1. /\ UNCHANGED <<current, prepared, nextId, commanded>> /\ myAt' = myAt /\ myAt = "ready"
        /\ shown'.to = "query" /\ shown'.in = {current}
    BY <1>3 DEF ListTables
  <2>2. Selected' = Selected /\ current = commanded[Selected].of
    BY <2>1 DEF MyInv, SelectedInUse, Selected
  <2>3. ShownAsLogged'  BY <2>1, <2>2 DEF ShownAsLogged
  <2> QED  BY <2>1, <2>3, MyQuiet
<1>4. ASSUME NEW id \in Id, ExecuteStatement(id) PROVE MyInv'
  <2>1. /\ UNCHANGED <<current, prepared, nextId, commanded>> /\ myAt' = myAt /\ myAt = "ready"
        /\ shown'.ran = {x.of : x \in {p \in prepared : p.id = id}} /\ shown'.id = id
        /\ \A d \in shown'.in : d = current
    BY <1>4 DEF ExecuteStatement
  <2>2. Selected' = Selected /\ current = commanded[Selected].of
    BY <2>1 DEF MyInv, SelectedInUse, Selected
  <2>3. {x.of : x \in {p \in prepared : p.id = id}} = RunsUnder(commanded, id)
    BY DEF MyInv, KeptAsLogged
  <2>4. ShownAsLogged'  BY <2>1, <2>2, <2>3 DEF ShownAsLogged
  <2> QED  BY <2>1, <2>4, MyQuiet
<1> QED
  BY <1>1, <1>2, <1>3, <1>4, LogInKeepsInv, UseKeepsInv, PrepareKeepsInv, CloseStatementKeepsInv
  DEF MyNext

LEMMA MyInvRuns == ASSUME MyInv PROVE RunsItsOwnStatement
<1>1. commanded \in Seq(MyCommand)  BY DEF MyInv, MyTypeOK
<1>2. DOMAIN commanded = 1 .. Len(commanded)  BY <1>1
<1>3. \A kinds, id : LastCommand(kinds, id) = LastAt(commanded, kinds, id)  BY <1>1, SaidOfLogged
<1>4. \A i, j \in DOMAIN commanded :
        (i # j /\ commanded[i].kind = "prepare" /\ commanded[j].kind = "prepare")
          => commanded[i].id # commanded[j].id
  BY <1>2 DEF MyInv, NumbersFresh
<1>5. shown.to = "execute" =>
        LET i == LastCommand({"prepare", "close"}, shown.id) IN
        shown.ran = IF i # 0 /\ commanded[i].kind = "prepare" THEN {commanded[i].of} ELSE {}
  BY <1>3 DEF MyInv, ShownAsLogged, RunsUnder
<1>6. \A d \in shown.in : d = commanded[LastCommand({"select"}, 0)].of
  BY <1>3 DEF MyInv, ShownAsLogged, Selected
<1> QED  BY <1>4, <1>5, <1>6 DEF RunsItsOwnStatement

-----------------------------------------------------------------------------
(* Of every value its bytes. *)
BytesOf(dict) == UNION {{k} \X (1 .. dict[k]) : k \in DOMAIN dict}

LEMMA BytesAre ==
  ASSUME NEW dict, NEW b
  PROVE  b \in BytesOf(dict) <=> \E k \in DOMAIN dict : b \in {k} \X (1 .. dict[k])
BY DEF BytesOf

LEMMA Bytes ==
  ASSUME NEW k, NEW n \in Nat
  PROVE  IsFiniteSet({k} \X (1 .. n)) /\ Cardinality({k} \X (1 .. n)) = n
<1>1. IsFiniteSet(1 .. n) /\ Cardinality(1 .. n) = n  BY FS_Interval
<1>2. IsFiniteSet({k}) /\ Cardinality({k}) = 1  BY FS_Singleton
<1>3. IsFiniteSet({k} \X (1 .. n)) /\ Cardinality({k} \X (1 .. n)) = 1 * n
  <2>1. Cardinality({k} \X (1 .. n)) = Cardinality({k}) * Cardinality(1 .. n) /\ IsFiniteSet({k} \X (1 .. n))
    BY <1>1, <1>2, FS_Product
  <2> QED  BY <2>1, <1>1, <1>2
<1> QED  BY <1>3

(* Entering a value puts its bytes in the place of those of the old one. *)
LEMMA EnteredBytes ==
  ASSUME NEW dict, \A j \in DOMAIN dict : dict[j] \in Nat, IsFiniteSet(BytesOf(dict)),
         NEW k, NEW n \in Nat, NEW old \in Nat, old = IF k \in DOMAIN dict THEN dict[k] ELSE 0
  PROVE  /\ IsFiniteSet(BytesOf(Entered(dict, k, n)))
         /\ Cardinality(BytesOf(Entered(dict, k, n))) = Cardinality(BytesOf(dict)) - old + n
<1>1. PICK rest : rest = {b \in BytesOf(dict) : b \notin {k} \X (1 .. old)}  OBVIOUS
<1>2. PICK new : new = Entered(dict, k, n)  OBVIOUS
<1>3. DOMAIN new = DOMAIN dict \cup {k} /\ new[k] = n /\ \A j \in DOMAIN dict : j # k => new[j] = dict[j]
  BY <1>2 DEF Entered
<1>4. {k} \X (1 .. old) \subseteq BytesOf(dict)
  <2>1. CASE k \in DOMAIN dict  BY <2>1, BytesAre
  <2>2. CASE k \notin DOMAIN dict
    <3>1. 1 .. old = {}  BY <2>2
    <3> QED  BY <3>1
  <2> QED  BY <2>1, <2>2
<1>5. \A b \in rest : \A j : b \in {j} \X (1 .. dict[j]) => j # k \/ k \notin DOMAIN dict
  BY <1>1
<1>6. BytesOf(new) = rest \cup {k} \X (1 .. n)
  <2>1. ASSUME NEW b \in BytesOf(new) PROVE b \in rest \cup {k} \X (1 .. n)
    <3>1. PICK j \in DOMAIN new : b \in {j} \X (1 .. new[j])  BY <2>1, BytesAre
    <3>2. CASE j = k  BY <3>1, <3>2, <1>3
    <3>3. CASE j # k
      <4>1. j \in DOMAIN dict /\ b \in {j} \X (1 .. dict[j])  BY <3>1, <3>3, <1>3
      <4>2. b \in BytesOf(dict)  BY <4>1, BytesAre
      <4>3. b \notin {k} \X (1 .. old)  BY <3>3, <4>1
      <4> QED  BY <4>2, <4>3, <1>1
    <3> QED  BY <3>2, <3>3
  <2>2. ASSUME NEW b \in rest PROVE b \in BytesOf(new)
    <3>1. PICK j \in DOMAIN dict : b \in {j} \X (1 .. dict[j])  BY <1>1, BytesAre
    <3>2. j # k  BY <3>1, <2>2, <1>5
    <3>3. j \in DOMAIN new /\ b \in {j} \X (1 .. new[j])  BY <3>1, <3>2, <1>3
    <3> QED  BY <3>3, BytesAre
  <2>3. ASSUME NEW b \in {k} \X (1 .. n) PROVE b \in BytesOf(new)  BY <2>3, <1>3, BytesAre
  <2> QED  BY <2>1, <2>2, <2>3
<1>7. rest \cap {k} \X (1 .. n) = {}
  <2> SUFFICES ASSUME NEW b \in rest, b \in {k} \X (1 .. n) PROVE FALSE  OBVIOUS
  <2>1. PICK j \in DOMAIN dict : b \in {j} \X (1 .. dict[j])  BY <1>1, BytesAre
  <2>2. j # k  BY <2>1, <1>5
  <2> QED  BY <2>1, <2>2
<1>8. BytesOf(dict) = rest \cup {k} \X (1 .. old) /\ rest \cap {k} \X (1 .. old) = {}
  BY <1>1, <1>4
<1>9. IsFiniteSet(rest)  BY <1>1, FS_Subset
<1>10. IsFiniteSet({k} \X (1 .. n)) /\ Cardinality({k} \X (1 .. n)) = n
       /\ IsFiniteSet({k} \X (1 .. old)) /\ Cardinality({k} \X (1 .. old)) = old
  BY Bytes
<1>11. IsFiniteSet(BytesOf(new)) /\ Cardinality(BytesOf(new)) = Cardinality(rest) + n
  <2>1. Cardinality(rest) \in Nat  BY <1>9, FS_CardinalityType
  <2>2. /\ IsFiniteSet(rest \cup {k} \X (1 .. n))
        /\ Cardinality(rest \cup {k} \X (1 .. n)) = Cardinality(rest) + Cardinality({k} \X (1 .. n))
             - Cardinality(rest \cap {k} \X (1 .. n))
    BY <1>9, <1>10, FS_Union
  <2>3. Cardinality(rest \cap {k} \X (1 .. n)) = 0  BY <1>7, FS_EmptySet
  <2> QED  BY <2>1, <2>2, <2>3, <1>6, <1>10
<1>12. Cardinality(BytesOf(dict)) = Cardinality(rest) + old
  <2>1. Cardinality(rest) \in Nat  BY <1>9, FS_CardinalityType
  <2>2. Cardinality(rest \cup {k} \X (1 .. old)) = Cardinality(rest) + Cardinality({k} \X (1 .. old))
             - Cardinality(rest \cap {k} \X (1 .. old))
    BY <1>9, <1>10, FS_Union
  <2>3. Cardinality(rest \cap {k} \X (1 .. old)) = 0  BY <1>8, FS_EmptySet
  <2> QED  BY <2>1, <2>2, <2>3, <1>8, <1>10
<1>13. Cardinality(rest) \in Nat  BY <1>9, FS_CardinalityType
<1> QED  BY <1>2, <1>11, <1>12, <1>13

(* Taking keys away takes their bytes away. *)
LEMMA FewerBytes ==
  ASSUME NEW dict, IsFiniteSet(BytesOf(dict)), NEW K, K \subseteq DOMAIN dict
  PROVE  /\ IsFiniteSet(BytesOf(Restrict(dict, K)))
         /\ Cardinality(BytesOf(Restrict(dict, K))) <= Cardinality(BytesOf(dict))
<1>1. BytesOf(Restrict(dict, K)) \subseteq BytesOf(dict)
  <2> SUFFICES ASSUME NEW b \in BytesOf(Restrict(dict, K)) PROVE b \in BytesOf(dict)  OBVIOUS
  <2>1. PICK j \in DOMAIN Restrict(dict, K) : b \in {j} \X (1 .. Restrict(dict, K)[j])  BY BytesAre
  <2>2. j \in DOMAIN dict /\ b \in {j} \X (1 .. dict[j])  BY <2>1 DEF Restrict
  <2> QED  BY <2>2, BytesAre
<1> QED  BY <1>1, FS_Subset

-----------------------------------------------------------------------------
(* A token a client has seen is past, and while the key keeps it the key is as *)
(* the client saw it.                                                       *)
Seen == [key : Item \cup {Nobody}, token : Nat, unchanged : BOOLEAN]

CacheTypeOK ==
  /\ DOMAIN cache \subseteq Item /\ (\A k \in DOMAIN cache : cache[k] \in Nat)
  /\ counter \in Nat /\ seen \in [Client -> Seen]
  /\ sending \in Seq(Item \cup {Nobody}) /\ (holder # Nobody => sending # << >>)

TokensFresh ==
  /\ DOMAIN tokens = DOMAIN cache
  /\ \A k \in DOMAIN tokens : tokens[k] \in Nat /\ tokens[k] # 0 /\ tokens[k] <= counter
  /\ \A j, k \in DOMAIN tokens : tokens[j] = tokens[k] => j = k

SeenIsPast ==
  \A c \in Client :
    /\ seen[c].token <= counter
    /\ (seen[c].key \in DOMAIN tokens /\ tokens[seen[c].key] = seen[c].token) => seen[c].unchanged

WithinBudget == IsFiniteSet(BytesOf(cache)) /\ Cardinality(BytesOf(cache)) <= MaxCacheBytes

CacheInv == CacheTypeOK /\ TokensFresh /\ SeenIsPast /\ WithinBudget

LEMMA CacheInitInv == ASSUME MemcachedInit PROVE CacheInv
<1> USE DEF MemcachedInit
<1>1. DOMAIN cache = {} /\ DOMAIN tokens = {}  OBVIOUS
<1>2. CacheTypeOK /\ TokensFresh /\ SeenIsPast
  BY <1>1 DEF CacheTypeOK, TokensFresh, SeenIsPast, Seen, NotSeen
<1>3. WithinBudget
  <2>1. BytesOf(cache) = {}  BY <1>1, BytesAre
  <2>2. MaxCacheBytes \in Nat  BY MemcachedAssumption DEF MemcachedAssumption
  <2> QED  BY <2>1, <2>2, FS_EmptySet DEF WithinBudget
<1> QED  BY <1>2, <1>3 DEF CacheInv

LEMMA CacheQuiet ==
  ASSUME CacheInv, UNCHANGED <<cache, tokens, counter, seen>>,
         sending' \in Seq(Item \cup {Nobody}), holder' # Nobody => sending' # << >>
  PROVE  CacheInv'
BY DEF CacheInv, CacheTypeOK, TokensFresh, SeenIsPast, WithinBudget

(* Those who have seen a key that changes know it by a token it no longer has. *)
LEMMA ChangedIsNoted ==
  ASSUME CacheInv, NEW K, Changed(K)
  PROVE  /\ seen' \in [Client -> Seen]
         /\ \A c \in Client :
              /\ seen'[c].key = seen[c].key /\ seen'[c].token = seen[c].token
              /\ seen[c].key \notin K => seen'[c] = seen[c]
<1>1. seen \in [Client -> Seen]  BY DEF CacheInv, CacheTypeOK
<1>2. ASSUME NEW c \in Client
      PROVE  /\ seen'[c] \in Seen
             /\ seen'[c].key = seen[c].key /\ seen'[c].token = seen[c].token
             /\ seen[c].key \notin K => seen'[c] = seen[c]
  <2>1. PICK s \in Seen : s = seen[c]  BY <1>1
  <2>2. PICK t : t = [s EXCEPT !.unchanged = FALSE]  OBVIOUS
  <2>3. t \in Seen /\ t.key = s.key /\ t.token = s.token  BY <2>2 DEF Seen
  <2>4. seen'[c] = IF s.key \in K THEN t ELSE s  BY <2>1, <2>2 DEF Changed
  <2> QED  BY <2>1, <2>3, <2>4
<1>3. seen' = [c \in Client |-> seen'[c]]  BY DEF Changed
<1> QED  BY <1>2, <1>3

LEMMA WriteKeepsInv ==
  ASSUME CacheInv, NEW k \in Item, NEW n \in Nat, CanStoreValue(k, n), Write(k, n)
  PROVE  CacheInv'
<1>1. /\ cache' = Entered(cache, k, n) /\ counter' = counter + 1
      /\ sending' = sending /\ holder' = holder
      /\ tokens' = Entered(tokens, k, counter + 1) /\ Changed({k})
  BY DEF Write, Unlocked
<1>2. counter \in Nat /\ DOMAIN tokens = DOMAIN cache /\ DOMAIN cache \subseteq Item
      /\ \A j \in DOMAIN cache : cache[j] \in Nat
  BY DEF CacheInv, CacheTypeOK, TokensFresh
<1>3. /\ DOMAIN cache' = DOMAIN cache \cup {k} /\ \A j \in DOMAIN cache' : cache'[j] \in Nat
      /\ DOMAIN tokens' = DOMAIN cache \cup {k} /\ tokens'[k] = counter + 1
      /\ \A j \in DOMAIN tokens : j # k => tokens'[j] = tokens[j]
  BY <1>1, <1>2 DEF Entered
<1>4. CacheTypeOK'
  BY <1>1, <1>2, <1>3, ChangedIsNoted DEF CacheInv, CacheTypeOK
<1>5. TokensFresh'
  <2>1. \A j \in DOMAIN tokens : tokens[j] \in Nat /\ tokens[j] # 0 /\ tokens[j] <= counter
    BY DEF CacheInv, TokensFresh
  <2>2. \A j \in DOMAIN tokens' :
          /\ tokens'[j] \in Nat /\ tokens'[j] # 0 /\ tokens'[j] <= counter'
          /\ j # k => j \in DOMAIN tokens /\ tokens'[j] # counter + 1
    BY <2>1, <1>1, <1>2, <1>3
  <2>3. \A i, j \in DOMAIN tokens' : tokens'[i] = tokens'[j] => i = j
    BY <2>2, <1>3 DEF CacheInv, TokensFresh
  <2> QED  BY <2>2, <2>3, <1>3 DEF TokensFresh
<1>6. SeenIsPast'
  <2> SUFFICES ASSUME NEW c \in Client
               PROVE  /\ seen'[c].token <= counter'
                      /\ (seen'[c].key \in DOMAIN tokens' /\ tokens'[seen'[c].key] = seen'[c].token)
                            => seen'[c].unchanged
    BY DEF SeenIsPast
  <2>1. seen[c] \in Seen /\ seen[c].token <= counter
    BY DEF CacheInv, CacheTypeOK, SeenIsPast
  <2>2. PICK token \in Nat : token = seen[c].token  BY <2>1 DEF Seen
  <2>3. seen'[c].token = token /\ seen'[c].key = seen[c].key
        /\ (seen[c].key # k => seen'[c] = seen[c])
    BY <1>1, <2>2, ChangedIsNoted
  <2>4. token <= counter  BY <2>1, <2>2
  <2>5. token <= counter + 1 /\ token # counter + 1  BY <2>4, <1>2
  <2>6. CASE seen[c].key = k  BY <2>3, <2>5, <2>6, <1>1, <1>3
  <2>7. CASE seen[c].key # k
    BY <2>3, <2>5, <2>7, <1>1, <1>3 DEF CacheInv, SeenIsPast, TokensFresh
  <2> QED  BY <2>6, <2>7
<1>7. WithinBudget'
  <2>1. PICK old \in Nat : old = IF k \in DOMAIN cache THEN cache[k] ELSE 0  BY <1>2
  <2>2. IsFiniteSet(BytesOf(cache)) /\ Cardinality(BytesOf(cache)) \in Nat
    BY FS_CardinalityType DEF CacheInv, WithinBudget
  <2>3. /\ IsFiniteSet(BytesOf(Entered(cache, k, n)))
        /\ Cardinality(BytesOf(Entered(cache, k, n))) = Cardinality(BytesOf(cache)) - old + n
    BY <1>2, <2>1, <2>2, EnteredBytes
  <2>4. Cardinality(BytesOf(cache)) - old + n <= MaxCacheBytes
    BY <2>1 DEF CanStoreValue, CacheBytes, BytesOf, Length
  <2> QED  BY <1>1, <2>3, <2>4 DEF WithinBudget
<1> QED  BY <1>4, <1>5, <1>6, <1>7 DEF CacheInv

LEMMA StoreKeepsInv ==
  ASSUME CacheInv, NEW c \in Client, NEW k \in Item, NEW n \in Nat, Store(c, k, n) \/ AnswerLocked(c)
  PROVE  CacheInv'
<1>1. CASE AnswerLocked(c)
  <2>1. sending' = <<Nobody>> /\ UNCHANGED <<cache, tokens, counter, seen>>  BY <1>1 DEF AnswerLocked
  <2>2. <<Nobody>> \in Seq(Item \cup {Nobody}) /\ <<Nobody>> # << >>  OBVIOUS
  <2> QED  BY <2>1, <2>2, CacheQuiet
<1>2. CASE CanStoreValue(k, n) /\ Write(k, n)  BY <1>2, WriteKeepsInv
<1> QED  BY <1>1, <1>2 DEF Store

(* Keys that are taken away. *)
LEMMA RemovalKeepsInv ==
  ASSUME CacheInv, NEW K, Changed(K), UNCHANGED <<counter, holder, sending>>,
         NEW left, left \subseteq DOMAIN cache, left \cap K = {},
         DOMAIN cache' = left, \A j \in left : cache'[j] = cache[j],
         DOMAIN tokens' = left, \A j \in left : tokens'[j] = tokens[j],
         IsFiniteSet(BytesOf(cache)'), Cardinality(BytesOf(cache)') <= Cardinality(BytesOf(cache))
  PROVE  CacheInv'
<1>1. CacheTypeOK'  BY ChangedIsNoted DEF CacheInv, CacheTypeOK
<1>2. TokensFresh'  BY DEF CacheInv, TokensFresh
<1>3. SeenIsPast'
  <2> SUFFICES ASSUME NEW c \in Client
               PROVE  /\ seen'[c].token <= counter'
                      /\ (seen'[c].key \in DOMAIN tokens' /\ tokens'[seen'[c].key] = seen'[c].token)
                            => seen'[c].unchanged
    BY DEF SeenIsPast
  <2>1. seen'[c].token = seen[c].token /\ seen'[c].key = seen[c].key
        /\ (seen[c].key \notin K => seen'[c] = seen[c])
    BY ChangedIsNoted
  <2>2. DOMAIN tokens = DOMAIN cache  BY DEF CacheInv, TokensFresh
  <2> QED  BY <2>1, <2>2 DEF CacheInv, SeenIsPast
<1>4. WithinBudget'
  <2>1. MaxCacheBytes \in Nat /\ Cardinality(BytesOf(cache)) \in Nat /\ Cardinality(BytesOf(cache)') \in Nat
    BY FS_CardinalityType, MemcachedAssumption DEF CacheInv, WithinBudget, MemcachedAssumption
  <2> QED  BY <2>1 DEF CacheInv, WithinBudget
<1> QED  BY <1>1, <1>2, <1>3, <1>4 DEF CacheInv

LEMMA DeleteKeepsInv == ASSUME CacheInv, NEW k \in Item, CacheDelete(k) PROVE CacheInv'
<1>1. PICK left : left = DOMAIN cache \ {k}  OBVIOUS
<1>2. DOMAIN tokens = DOMAIN cache  BY DEF CacheInv, TokensFresh
<1>3. cache' = Restrict(cache, left) /\ tokens' = Restrict(tokens, left) /\ Changed({k})
      /\ UNCHANGED <<counter, holder, sending>>
  BY <1>1, <1>2 DEF CacheDelete, Unlocked
<1>4. /\ DOMAIN cache' = left /\ \A j \in left : cache'[j] = cache[j]
      /\ DOMAIN tokens' = left /\ \A j \in left : tokens'[j] = tokens[j]
  BY <1>3 DEF Restrict
<1>5. IsFiniteSet(BytesOf(cache)') /\ Cardinality(BytesOf(cache)') <= Cardinality(BytesOf(cache))
  <2>1. /\ IsFiniteSet(BytesOf(Restrict(cache, left)))
        /\ Cardinality(BytesOf(Restrict(cache, left))) <= Cardinality(BytesOf(cache))
    BY <1>1, FewerBytes DEF CacheInv, WithinBudget
  <2> QED  BY <2>1, <1>3
<1> QED  BY <1>1, <1>3, <1>4, <1>5, RemovalKeepsInv

LEMMA FlushKeepsInv == ASSUME CacheInv, CacheFlush PROVE CacheInv'
<1>1. cache' = << >> /\ tokens' = << >> /\ Changed(Item) /\ UNCHANGED <<counter, holder, sending>>
  BY DEF CacheFlush, Unlocked
<1>2. DOMAIN cache' = {} /\ DOMAIN tokens' = {}  BY <1>1
<1>3. BytesOf(cache') = {}  BY <1>2, BytesAre
<1>4. IsFiniteSet(BytesOf(cache)') /\ Cardinality(BytesOf(cache)') <= Cardinality(BytesOf(cache))
  <2>1. Cardinality(BytesOf(cache)) \in Nat  BY FS_CardinalityType DEF CacheInv, WithinBudget
  <2> QED  BY <2>1, <1>3, FS_EmptySet
<1> QED  BY <1>1, <1>2, <1>4, RemovalKeepsInv

LEMMA CacheSendKeepsInv == ASSUME CacheInv, NEW c \in Client, CacheSend(c) PROVE CacheInv'
<1>1. sending' = Tail(sending) /\ UNCHANGED <<cache, tokens, counter>>  BY DEF CacheSend
<1>2. sending' \in Seq(Item \cup {Nobody}) /\ (holder' # Nobody => sending' # << >>)
  <2>1. PICK s \in Seq(Item \cup {Nobody}) : s = sending /\ s # << >>
    BY MemcachedAssumption DEF CacheSend, CacheInv, CacheTypeOK, MemcachedAssumption
  <2>4. Len(s) \in Nat /\ Len(s) # 0  BY <2>1
  <2>5. Tail(s) \in Seq(Item \cup {Nobody}) /\ Len(Tail(s)) = Len(s) - 1  BY <2>1, <2>4
  <2>6. Len(s) # 1 => Len(Tail(s)) # 0  BY <2>4, <2>5
  <2>7. Len(<< >>) = 0  OBVIOUS
  <2>2. Tail(s) \in Seq(Item \cup {Nobody}) /\ (Len(s) # 1 => Tail(s) # << >>)  BY <2>5, <2>6, <2>7
  <2>3. holder' # Nobody => Len(s) # 1  BY <2>1 DEF CacheSend
  <2> QED  BY <1>1, <2>1, <2>2, <2>3
<1>3. CASE Head(sending) \notin DOMAIN cache
  BY <1>1, <1>2, <1>3, CacheQuiet DEF CacheSend
<1>4. CASE Head(sending) \in DOMAIN cache
  <2>1. PICK k \in DOMAIN cache : k = Head(sending)  BY <1>4
  <2>2. PICK s : s = [key |-> k, token |-> tokens[k], unchanged |-> TRUE]  OBVIOUS
  <2>3. seen' = [seen EXCEPT ![c] = s]  BY <2>1, <2>2 DEF CacheSend
  <2>4. k \in Item /\ tokens[k] \in Nat /\ tokens[k] <= counter /\ seen \in [Client -> Seen]
    BY DEF CacheInv, CacheTypeOK, TokensFresh
  <2>5. s \in Seen /\ s.token <= counter /\ s.unchanged  BY <2>2, <2>4 DEF Seen
  <2>6. CacheTypeOK'  BY <1>1, <1>2, <2>3, <2>4, <2>5 DEF CacheInv, CacheTypeOK
  <2>7. SeenIsPast'  BY <1>1, <2>3, <2>4, <2>5 DEF CacheInv, SeenIsPast
  <2>8. TokensFresh' /\ WithinBudget'  BY <1>1 DEF CacheInv, TokensFresh, WithinBudget
  <2> QED  BY <2>6, <2>7, <2>8 DEF CacheInv
<1> QED  BY <1>3, <1>4

LEMMA StoredKeepsInv == ASSUME CacheInv, NEW c \in Client, NEW k \in Item, Stored(c, k) PROVE CacheInv'
<1>1. PICK n \in 0 .. MaxValueBytes :
        \/ CacheSet(c, k, n) \/ CacheAdd(c, k, n) \/ CacheExtend(c, k, n)
        \/ \E token \in {seen[c].token} \cup 1 .. MaxTokens : CacheCas(c, k, n, token)
  BY DEF Stored
<1>2. n \in Nat  OBVIOUS
<1>3. CASE CacheExtend(c, k, n)
  <2>1. CASE k \in DOMAIN cache
    <3>1. cache[k] + n \in Nat  BY <1>2, <2>1 DEF CacheInv, CacheTypeOK
    <3> QED  BY <3>1, <1>3, StoreKeepsInv DEF CacheExtend
  <2>2. CASE k \notin DOMAIN cache  BY <2>2, <1>2, <1>3, StoreKeepsInv DEF CacheExtend
  <2> QED  BY <2>1, <2>2
<1>4. CASE CacheSet(c, k, n) \/ CacheAdd(c, k, n)
           \/ \E token \in {seen[c].token} \cup 1 .. MaxTokens : CacheCas(c, k, n, token)
  BY <1>2, <1>4, StoreKeepsInv DEF CacheSet, CacheAdd, CacheCas
<1> QED  BY <1>1, <1>3, <1>4

LEMMA CacheNextKeepsInv == ASSUME CacheInv, [MemcachedNext]_memcachedVars PROVE CacheInv'
<1>1. CASE UNCHANGED memcachedVars
  BY <1>1, CacheQuiet DEF memcachedVars, CacheInv, CacheTypeOK
<1>2. ASSUME NEW c \in Client, NEW k \in Item, CacheIncrDecr(c, k) PROVE CacheInv'
  <2>1. AnswerLocked(c) \/ \E n \in 1 .. MaxValueBytes : Store(c, k, n)  BY <1>2 DEF CacheIncrDecr
  <2>2. ASSUME NEW n \in 1 .. MaxValueBytes, Store(c, k, n) PROVE CacheInv'
    <3>1. n \in Nat  OBVIOUS
    <3> QED  BY <2>2, <3>1, StoreKeepsInv
  <2> QED  BY <2>1, <2>2, StoreKeepsInv
<1>3. ASSUME NEW c \in Client, NEW ks \in UNION {[1 .. n -> Item] : n \in 1 .. MaxKeysPerGet + 1},
             CacheGet(c, ks)
      PROVE  CacheInv'
  <2>1. PICK n \in 1 .. MaxKeysPerGet + 1 : ks \in [1 .. n -> Item]  OBVIOUS
  <2>2. MaxKeysPerGet \in Nat \ {0}  BY MemcachedAssumption DEF MemcachedAssumption
  <2>3. ks \in Seq(Item) /\ Len(ks) = n  BY <2>1, <2>2
  <2>4. PICK m \in 1 .. n : m = IF Len(ks) < MaxKeysPerGet THEN Len(ks) ELSE MaxKeysPerGet
    BY <2>2, <2>3
  <2>5. SubSeq(ks, 1, m) \in Seq(Item) /\ SubSeq(ks, 1, m) # << >>  BY <2>3, <2>4
  <2>6. sending' = SubSeq(ks, 1, m) /\ UNCHANGED <<cache, tokens, counter, seen>>
    BY <1>3, <2>4 DEF CacheGet
  <2>7. sending' \in Seq(Item \cup {Nobody}) /\ sending' # << >>  BY <2>5, <2>6
  <2> QED  BY <2>6, <2>7, CacheQuiet
<1> QED
  BY <1>1, <1>2, <1>3, FlushKeepsInv, DeleteKeepsInv, CacheSendKeepsInv, StoredKeepsInv DEF MemcachedNext

LEMMA CacheInvSound == ASSUME CacheInv PROVE CacheSound
<1>1. IsInjective(tokens)  BY DEF CacheInv, TokensFresh, IsInjective
<1>2. \A k \in DOMAIN tokens : tokens[k] \in 1 .. counter
  BY DEF CacheInv, CacheTypeOK, TokensFresh
<1> QED  BY <1>1, <1>2 DEF CacheInv, TokensFresh, CacheSound, WithinBudget, CacheBytes, BytesOf

LEMMA CacheInvGuardsCas ==
  ASSUME CacheInv, NEW c \in Client, NEW k \in Item, NEW n, seen[c].key = k,
         CacheCas(c, k, n, seen[c].token), counter' # counter
  PROVE  seen[c].unchanged
<1>1. k \in DOMAIN cache /\ seen[c].token = tokens[k]  BY DEF CacheCas, AnswerLocked
<1> QED  BY <1>1 DEF CacheInv, TokensFresh, SeenIsPast

-----------------------------------------------------------------------------
(* The keys of the Redis emulator.  First its bytes: what is in a family of  *)
(* sets of bytes.                                                           *)
LEMMA TogetherAre ==
  ASSUME NEW F, NEW b
  PROVE  b \in Together(F) <=> \E x \in DOMAIN F : b \in {x} \X F[x]
BY DEF Together

(* A finite family of finite sets has finitely many bytes. *)
LEMMA TogetherFinite ==
  ASSUME NEW F, IsFiniteSet(DOMAIN F), \A x \in DOMAIN F : IsFiniteSet(F[x])
  PROVE  IsFiniteSet(Together(F))
<1> DEFINE G == {{x} \X F[x] : x \in DOMAIN F}
           f == [x \in DOMAIN F |-> {x} \X F[x]]
<1>1. f \in Surjection(DOMAIN F, G)  BY DEF Surjection
<1>2. IsFiniteSet(G)  BY <1>1, FS_Surjection
<1>3. \A S \in G : IsFiniteSet(S)
  <2> SUFFICES ASSUME NEW x \in DOMAIN F PROVE IsFiniteSet({x} \X F[x])  OBVIOUS
  <2>1. IsFiniteSet({x})  BY FS_Singleton
  <2> QED  BY <2>1, FS_Product
<1> QED  BY <1>2, <1>3, FS_UNION DEF Together

(* What can be a value, and the content of a key of type t. *)
Val == Text \cup Nat

ContentOK(t, c) ==
  /\ t = "store" => c \in Val
  /\ t = "hash" => DOMAIN c \subseteq Field /\ \A f \in DOMAIN c : c[f] \in Val
  /\ t = "list" => c \in Seq(Val)
  /\ t = "set" => c \subseteq Val /\ IsFiniteSet(c)

LEMMA EncodedFinite == ASSUME NEW v \in Val PROVE IsFiniteSet(Encoded(v)) /\ 0 \in Encoded(v)
<1>1. IsFiniteSet({0})  BY FS_Singleton
<1>2. CASE v \in Text  BY <1>1, <1>2 DEF Encoded
<1>3. CASE v \notin Text
  <2> DEFINE S == {i \in 1 .. v - 1 : 10^i <= v}
  <2>1. v \in Nat  BY <1>3 DEF Val
  <2>2. IsFiniteSet(1 .. v - 1)
    <3>1. v - 1 \in Int  BY <2>1
    <3> QED  BY <3>1, FS_Interval
  <2>3. IsFiniteSet(S)  BY <2>2, FS_Subset
  <2>4. IsFiniteSet({0} \cup S)  BY <1>1, <2>3, FS_Union
  <2>5. Encoded(v) = {0} \cup S  BY <1>3 DEF Encoded
  <2> QED  BY <2>4, <2>5
<1> QED  BY <1>2, <1>3

(* The content of a key as a family of values. *)
Family(t, c) ==
  CASE t = "store" -> [x \in {0} |-> Encoded(c)]
    [] t = "hash"  -> [f \in DOMAIN c |-> {-1} \cup Encoded(c[f])]
    [] t = "list"  -> [i \in DOMAIN c |-> Encoded(c[i])]
    [] t = "set"   -> [m \in c |-> Encoded(m)]

LEMMA UsageFinite ==
  ASSUME NEW t \in Type, NEW c, ContentOK(t, c)
  PROVE  IsFiniteSet(Usage(t, c)) /\ Cardinality(Usage(t, c)) \in Nat
<1>1. Usage(t, c) = Together(Family(t, c))  BY DEF Usage, Family
<1>2. IsFiniteSet(DOMAIN Family(t, c)) /\ \A x \in DOMAIN Family(t, c) : IsFiniteSet(Family(t, c)[x])
  <2>1. CASE t = "store"
    <3>1. Family(t, c) = [x \in {0} |-> Encoded(c)]  BY <2>1 DEF Family
    <3>2. IsFiniteSet({0}) /\ c \in Val  BY <2>1, FS_Singleton DEF ContentOK
    <3> QED  BY <3>1, <3>2, EncodedFinite
  <2>2. CASE t = "hash"
    <3>1. Family(t, c) = [f \in DOMAIN c |-> {-1} \cup Encoded(c[f])]  BY <2>2 DEF Family
    <3>2. DOMAIN c \subseteq Field /\ \A f \in DOMAIN c : c[f] \in Val  BY <2>2 DEF ContentOK
    <3>3. IsFiniteSet(DOMAIN c)  BY <3>2, RedisAssumption, FS_Subset DEF RedisAssumption
    <3>4. ASSUME NEW f \in DOMAIN c PROVE IsFiniteSet({-1} \cup Encoded(c[f]))
      <4>1. IsFiniteSet(Encoded(c[f])) /\ IsFiniteSet({-1})  BY <3>2, EncodedFinite, FS_Singleton
      <4> QED  BY <4>1, FS_Union
    <3> QED  BY <3>1, <3>3, <3>4
  <2>3. CASE t = "list"
    <3>1. Family(t, c) = [i \in DOMAIN c |-> Encoded(c[i])]  BY <2>3 DEF Family
    <3>2. c \in Seq(Val)  BY <2>3 DEF ContentOK
    <3>3. IsFiniteSet(DOMAIN c)
      <4>1. Len(c) \in Nat /\ DOMAIN c = 1 .. Len(c)  BY <3>2
      <4> QED  BY <4>1, FS_Interval
    <3>4. \A i \in DOMAIN c : c[i] \in Val  BY <3>2
    <3> QED  BY <3>1, <3>3, <3>4, EncodedFinite
  <2>4. CASE t = "set"
    <3>1. Family(t, c) = [m \in c |-> Encoded(m)]  BY <2>4 DEF Family
    <3>2. c \subseteq Val /\ IsFiniteSet(c)  BY <2>4 DEF ContentOK
    <3> QED  BY <3>1, <3>2, EncodedFinite
  <2> QED  BY <2>1, <2>2, <2>3, <2>4 DEF Type
<1> QED  BY <1>1, <1>2, TogetherFinite, FS_CardinalityType

(* The bytes of the whole store. *)
LEMMA StoreBytesAre ==
  ASSUME NEW d, NEW b
  PROVE  b \in StoreBytes(d) <=> \E t \in Type, k \in Key :
            k \in DOMAIN d[t] /\ b \in {<<t, k>>} \X Usage(t, d[t][k])
<1> DEFINE F == [p \in Held(d) |-> Usage(p[1], d[p[1]][p[2]])]
<1>1. b \in StoreBytes(d) <=> \E p \in Held(d) : b \in {p} \X F[p]
  BY TogetherAre DEF StoreBytes
<1>2. ASSUME NEW p \in Held(d), b \in {p} \X F[p]
      PROVE  \E t \in Type, k \in Key : k \in DOMAIN d[t] /\ b \in {<<t, k>>} \X Usage(t, d[t][k])
  <2>1. p = <<p[1], p[2]>> /\ p[1] \in Type /\ p[2] \in Key /\ p[2] \in DOMAIN d[p[1]]  BY DEF Held
  <2>2. b \in {p} \X Usage(p[1], d[p[1]][p[2]])  BY <1>2
  <2> QED  BY <2>1, <2>2
<1>3. ASSUME NEW t \in Type, NEW k \in Key, k \in DOMAIN d[t], b \in {<<t, k>>} \X Usage(t, d[t][k])
      PROVE  \E p \in Held(d) : b \in {p} \X F[p]
  <2>1. <<t, k>> \in Held(d)  BY <1>3 DEF Held
  <2>2. F[<<t, k>>] = Usage(t, d[t][k])  BY <2>1
  <2> QED  BY <1>3, <2>1, <2>2
<1> QED  BY <1>1, <1>2, <1>3

-----------------------------------------------------------------------------
(* What a dictionary that was written or deleted from holds. *)
Dictionary == Type \cup {"expirations"}

LEMMA PutIs ==
  ASSUME NEW d, DOMAIN d = Dictionary, NEW t \in Dictionary, NEW k, NEW c, NEW e, e = Put(d, t, k, c)
  PROVE  /\ DOMAIN e = Dictionary
         /\ \A u \in Dictionary : u # t => e[u] = d[u]
         /\ DOMAIN e[t] = DOMAIN d[t] \cup {k}
         /\ e[t][k] = c
         /\ \A j \in DOMAIN d[t] : j # k => e[t][j] = d[t][j]
<1>1. e = [d EXCEPT ![t] = Merged(d[t], [j \in {k} |-> c])]  BY DEF Put
<1>2. e[t] = Merged(d[t], [j \in {k} |-> c])  BY <1>1
<1>3. DOMAIN e[t] = DOMAIN d[t] \cup {k} /\ e[t][k] = c /\ \A j \in DOMAIN d[t] : j # k => e[t][j] = d[t][j]
  BY <1>2 DEF Merged
<1> QED  BY <1>1, <1>3

LEMMA WithoutIs ==
  ASSUME NEW f, NEW K
  PROVE  /\ DOMAIN Without(f, K) = DOMAIN f \ K
         /\ \A j \in DOMAIN f : j \notin K => Without(f, K)[j] = f[j]
BY DEF Without, Restrict

LEMMA DeleteIs ==
  ASSUME NEW d, DOMAIN d = Dictionary, NEW K, NEW e, e = Delete(d, K)
  PROVE  /\ DOMAIN e = Dictionary
         /\ \A u \in Dictionary : /\ DOMAIN e[u] = DOMAIN d[u] \ K
                                  /\ \A j \in DOMAIN d[u] : j \notin K => e[u][j] = d[u][j]
<1>1. DOMAIN e = Dictionary /\ \A u \in Dictionary : e[u] = Without(d[u], K)  BY DEF Delete
<1> QED  BY <1>1 DEF Without, Restrict

(* e is d without the keys of K, perhaps but for their deadlines. *)
Loses(d, e, K) ==
  /\ DOMAIN e = Dictionary
  /\ \A t \in Type : /\ DOMAIN e[t] = DOMAIN d[t] \ K
                     /\ \A j \in DOMAIN d[t] : j \notin K => e[t][j] = d[t][j]
  /\ DOMAIN e.expirations \subseteq DOMAIN d.expirations
  /\ \A j \in DOMAIN e.expirations : e.expirations[j] = d.expirations[j]

LEMMA FewerStoreBytes ==
  ASSUME NEW d, NEW e, NEW K, Loses(d, e, K)
  PROVE  StoreBytes(e) = {b \in StoreBytes(d) : b[1][2] \notin K}
<1>0. \A t \in Type : /\ DOMAIN e[t] = DOMAIN d[t] \ K
                      /\ \A j \in DOMAIN d[t] : j \notin K => e[t][j] = d[t][j]
  BY DEF Loses
<1>1. ASSUME NEW b \in StoreBytes(e) PROVE b \in StoreBytes(d) /\ b[1][2] \notin K
  <2>1. PICK t \in Type, k \in Key : k \in DOMAIN e[t] /\ b \in {<<t, k>>} \X Usage(t, e[t][k])
    BY StoreBytesAre
  <2>2. k \in DOMAIN d[t] /\ k \notin K /\ e[t][k] = d[t][k]  BY <2>1, <1>0
  <2>3. b[1] = <<t, k>>  BY <2>1
  <2> QED  BY <2>1, <2>2, <2>3, StoreBytesAre
<1>2. ASSUME NEW b \in StoreBytes(d), b[1][2] \notin K PROVE b \in StoreBytes(e)
  <2>1. PICK t \in Type, k \in Key : k \in DOMAIN d[t] /\ b \in {<<t, k>>} \X Usage(t, d[t][k])
    BY StoreBytesAre
  <2>2. k \notin K  BY <1>2, <2>1
  <2>3. k \in DOMAIN e[t] /\ e[t][k] = d[t][k]  BY <2>1, <2>2, <1>0
  <2> QED  BY <2>1, <2>3, StoreBytesAre
<1> QED  BY <1>1, <1>2

Shape(d) ==
  /\ DOMAIN d = Dictionary
  /\ \A t \in Type : DOMAIN d[t] \subseteq Key /\ \A k \in DOMAIN d[t] : ContentOK(t, d[t][k])
  /\ DOMAIN d.expirations \subseteq Key /\ \A k \in DOMAIN d.expirations : d.expirations[k] \in Nat
  /\ IsFiniteSet(StoreBytes(d))

(* What the content of one key takes. *)
BytesAt(d, t, k) == IF k \in DOMAIN d[t] THEN Cardinality(Usage(t, d[t][k])) ELSE 0

LEMMA Tagged ==
  ASSUME NEW p, NEW U, IsFiniteSet(U)
  PROVE  IsFiniteSet({p} \X U) /\ Cardinality({p} \X U) = Cardinality(U)
<1>1. IsFiniteSet({p}) /\ Cardinality({p}) = 1  BY FS_Singleton
<1>2. IsFiniteSet({p} \X U) /\ Cardinality({p} \X U) = 1 * Cardinality(U)
  <2>1. IsFiniteSet({p} \X U) /\ Cardinality({p} \X U) = Cardinality({p}) * Cardinality(U)
    BY <1>1, FS_Product
  <2> QED  BY <1>1, <2>1
<1>3. Cardinality(U) \in Nat  BY FS_CardinalityType
<1> QED  BY <1>2, <1>3

LEMMA TypedTaken ==
  ASSUME NEW d, Shape(d), NEW t \in Type, NEW k \in Key
  PROVE  /\ {b \in StoreBytes(d) : b[1] = <<t, k>>} =
              IF k \in DOMAIN d[t] THEN {<<t, k>>} \X Usage(t, d[t][k]) ELSE {}
         /\ BytesAt(d, t, k) = Cardinality({b \in StoreBytes(d) : b[1] = <<t, k>>})
         /\ BytesAt(d, t, k) \in Nat
<1> DEFINE S == {b \in StoreBytes(d) : b[1] = <<t, k>>}
<1>1. ASSUME NEW b \in S PROVE k \in DOMAIN d[t] /\ b \in {<<t, k>>} \X Usage(t, d[t][k])
  <2>1. PICK u \in Type, j \in Key : j \in DOMAIN d[u] /\ b \in {<<u, j>>} \X Usage(u, d[u][j])
    BY StoreBytesAre
  <2>2. <<u, j>> = <<t, k>>  BY <2>1
  <2>3. u = t /\ j = k  BY <2>2
  <2> QED  BY <2>1, <2>3
<1>2. CASE k \in DOMAIN d[t]
  <2>1. S = {<<t, k>>} \X Usage(t, d[t][k])
    <3>1. ASSUME NEW b \in {<<t, k>>} \X Usage(t, d[t][k]) PROVE b \in S
      <4>1. b \in StoreBytes(d)  BY <1>2, <3>1, StoreBytesAre
      <4>2. b[1] = <<t, k>>  BY <3>1
      <4> QED  BY <4>1, <4>2
    <3> QED  BY <1>1, <3>1
  <2>2. IsFiniteSet(Usage(t, d[t][k])) /\ Cardinality(Usage(t, d[t][k])) \in Nat
    BY <1>2, UsageFinite DEF Shape
  <2>3. BytesAt(d, t, k) = Cardinality(Usage(t, d[t][k]))  BY <1>2 DEF BytesAt
  <2>4. Cardinality(S) = Cardinality(Usage(t, d[t][k]))  BY <2>1, <2>2, Tagged
  <2> QED  BY <1>2, <2>1, <2>2, <2>3, <2>4
<1>3. CASE k \notin DOMAIN d[t]
  <2>1. S = {}  BY <1>1, <1>3
  <2>2. BytesAt(d, t, k) = 0  BY <1>3 DEF BytesAt
  <2>3. Cardinality(S) = 0  BY <2>1, FS_EmptySet
  <2>4. S = IF k \in DOMAIN d[t] THEN {<<t, k>>} \X Usage(t, d[t][k]) ELSE {}  BY <1>3, <2>1
  <2>5. BytesAt(d, t, k) \in Nat /\ BytesAt(d, t, k) = Cardinality(S)  BY <2>2, <2>3
  <2> QED  BY <2>4, <2>5
<1> QED  BY <1>2, <1>3

(* Entering a content puts its bytes in the place of those of the old one. *)
LEMMA PutBytes ==
  ASSUME NEW d, Shape(d), NEW t \in Type, NEW k \in Key, NEW c, ContentOK(t, c), NEW e, e = Put(d, t, k, c)
  PROVE  /\ Shape(e)
         /\ TotalStoreBytes(e) = TotalStoreBytes(d) - BytesAt(d, t, k) + Cardinality(Usage(t, c))
         /\ TotalStoreBytes(d) \in Nat /\ TotalStoreBytes(e) \in Nat
<1> DEFINE old  == {b \in StoreBytes(d) : b[1] = <<t, k>>}
           rest == {b \in StoreBytes(d) : b[1] # <<t, k>>}
           new  == {<<t, k>>} \X Usage(t, c)
<1>1. DOMAIN d = Dictionary /\ t \in Dictionary  BY DEF Shape, Dictionary
<1>2. /\ DOMAIN e = Dictionary
      /\ \A u \in Dictionary : u # t => e[u] = d[u]
      /\ DOMAIN e[t] = DOMAIN d[t] \cup {k}
      /\ e[t][k] = c
      /\ \A j \in DOMAIN d[t] : j # k => e[t][j] = d[t][j]
  BY <1>1, PutIs
<1>3. Type \subseteq Dictionary  BY DEF Dictionary
<1>4. StoreBytes(e) = rest \cup new
  <2>1. ASSUME NEW b \in StoreBytes(e) PROVE b \in rest \cup new
    <3>1. PICK u \in Type, j \in Key : j \in DOMAIN e[u] /\ b \in {<<u, j>>} \X Usage(u, e[u][j])
      BY StoreBytesAre
    <3>2. CASE u = t /\ j = k  BY <3>1, <3>2, <1>2
    <3>3. CASE ~(u = t /\ j = k)
      <4>1. j \in DOMAIN d[u] /\ e[u][j] = d[u][j]  BY <3>1, <3>3, <1>2, <1>3
      <4>2. b \in StoreBytes(d)  BY <3>1, <4>1, StoreBytesAre
      <4>3. b[1] = <<u, j>> /\ <<u, j>> # <<t, k>>  BY <3>1, <3>3
      <4> QED  BY <4>2, <4>3
    <3> QED  BY <3>2, <3>3
  <2>2. ASSUME NEW b \in rest PROVE b \in StoreBytes(e)
    <3>1. PICK u \in Type, j \in Key : j \in DOMAIN d[u] /\ b \in {<<u, j>>} \X Usage(u, d[u][j])
      BY StoreBytesAre
    <3>2. ~(u = t /\ j = k)  BY <3>1
    <3>3. j \in DOMAIN e[u] /\ e[u][j] = d[u][j]  BY <3>1, <3>2, <1>2, <1>3
    <3> QED  BY <3>1, <3>3, StoreBytesAre
  <2>3. ASSUME NEW b \in new PROVE b \in StoreBytes(e)  BY <2>3, <1>2, StoreBytesAre
  <2> QED  BY <2>1, <2>2, <2>3
<1>5. IsFiniteSet(StoreBytes(d))  BY DEF Shape
<1>6. IsFiniteSet(rest) /\ IsFiniteSet(old)  BY <1>5, FS_Subset
<1>7. IsFiniteSet(Usage(t, c)) /\ Cardinality(Usage(t, c)) \in Nat  BY UsageFinite
<1>8. IsFiniteSet(new) /\ Cardinality(new) = Cardinality(Usage(t, c))  BY <1>7, Tagged
<1>9. rest \cap new = {}
  <2>1. \A b \in new : b[1] = <<t, k>>  OBVIOUS
  <2> QED  BY <2>1
<1>10. StoreBytes(d) = rest \cup old /\ rest \cap old = {}  OBVIOUS
<1> HIDE DEF rest, old, new
<1>11. Cardinality(rest) \in Nat /\ Cardinality(old) \in Nat /\ Cardinality(StoreBytes(d)) \in Nat
  BY <1>5, <1>6, FS_CardinalityType
<1>12. Cardinality(rest \cap new) = 0 /\ Cardinality(rest \cap old) = 0
  BY <1>9, <1>10, FS_EmptySet
<1>13. IsFiniteSet(rest \cup new)
       /\ Cardinality(rest \cup new) = Cardinality(rest) + Cardinality(new) - Cardinality(rest \cap new)
  BY <1>6, <1>8, FS_Union
<1>14. Cardinality(rest \cup old) = Cardinality(rest) + Cardinality(old) - Cardinality(rest \cap old)
  BY <1>6, FS_Union
<1>15. TotalStoreBytes(e) = Cardinality(rest) + Cardinality(Usage(t, c)) /\ IsFiniteSet(StoreBytes(e))
  BY <1>4, <1>7, <1>8, <1>11, <1>12, <1>13 DEF TotalStoreBytes
<1>16. TotalStoreBytes(d) = Cardinality(rest) + Cardinality(old)
  BY <1>10, <1>11, <1>12, <1>14 DEF TotalStoreBytes
<1>17. BytesAt(d, t, k) = Cardinality(old)  BY TypedTaken DEF old
<1>18. Shape(e)
  <2>1. \A u \in Type : DOMAIN e[u] \subseteq Key /\ \A j \in DOMAIN e[u] : ContentOK(u, e[u][j])
    <3> SUFFICES ASSUME NEW u \in Type
                 PROVE  DOMAIN e[u] \subseteq Key /\ \A j \in DOMAIN e[u] : ContentOK(u, e[u][j])
      OBVIOUS
    <3>1. DOMAIN d[u] \subseteq Key /\ \A j \in DOMAIN d[u] : ContentOK(u, d[u][j])  BY DEF Shape
    <3>2. CASE u = t
      <4>1. DOMAIN e[u] \subseteq Key  BY <3>1, <3>2, <1>2
      <4>2. ASSUME NEW j \in DOMAIN e[u] PROVE ContentOK(u, e[u][j])
        <5>1. CASE j = k  BY <5>1, <3>2, <1>2
        <5>2. CASE j # k
          <6>1. j \in DOMAIN d[u] /\ e[u][j] = d[u][j]  BY <5>2, <3>2, <1>2
          <6> QED  BY <6>1, <3>1
        <5> QED  BY <5>1, <5>2
      <4> QED  BY <4>1, <4>2
    <3>3. CASE u # t
      <4>1. e[u] = d[u]  BY <3>3, <1>2, <1>3
      <4> QED  BY <4>1, <3>1
    <3> QED  BY <3>2, <3>3
  <2>2. e.expirations = d.expirations
    <3>1. "expirations" # t  BY DEF Type
    <3> QED  BY <3>1, <1>2 DEF Dictionary
  <2> QED  BY <2>1, <2>2, <1>2, <1>15 DEF Shape
<1> QED  BY <1>7, <1>11, <1>15, <1>16, <1>17, <1>18

(* The store is sound, part by part. *)
Apart(d)  == \A k \in Key : \A t, u \in Type : k \in DOMAIN d[t] /\ k \in DOMAIN d[u] => t = u
Filled(d) == \A t \in Type \ {"store"} : \A k \in DOMAIN d[t] : d[t][k] # Nothing(t)
Dated(d)    == \A k \in DOMAIN d.expirations : Has(d, k)
Within(d) == TotalStoreBytes(d) <= MaxBytes

Sound(d) == Shape(d) /\ Apart(d) /\ Filled(d) /\ Dated(d) /\ Within(d)

LEMMA LosesBytes ==
  ASSUME NEW d, NEW e, NEW K, Shape(d), Loses(d, e, K)
  PROVE  /\ StoreBytes(e) = {b \in StoreBytes(d) : b[1][2] \notin K}
         /\ Shape(e)
         /\ TotalStoreBytes(e) = TotalStoreBytes(d) - KeyUsage(d, K)
         /\ TotalStoreBytes(e) <= TotalStoreBytes(d)
         /\ TotalStoreBytes(d) \in Nat /\ TotalStoreBytes(e) \in Nat
<1> DEFINE gone == {b \in StoreBytes(d) : b[1][2] \in K}
           left == {b \in StoreBytes(d) : b[1][2] \notin K}
<1>1. StoreBytes(e) = left  BY FewerStoreBytes
<1>2. IsFiniteSet(StoreBytes(d))  BY DEF Shape
<1>3. IsFiniteSet(gone) /\ IsFiniteSet(left)  BY <1>2, FS_Subset
<1>4. left = StoreBytes(d) \ gone /\ StoreBytes(d) \cap gone = gone  OBVIOUS
<1>5. KeyUsage(d, K) = Cardinality(gone)  BY DEF KeyUsage
<1> HIDE DEF gone, left
<1>6. Cardinality(gone) \in Nat /\ Cardinality(left) \in Nat /\ Cardinality(StoreBytes(d)) \in Nat
  BY <1>2, <1>3, FS_CardinalityType
<1>7. Cardinality(left) = Cardinality(StoreBytes(d)) - Cardinality(gone)
  BY <1>2, <1>4, FS_Difference
<1>8. \A t \in Type : DOMAIN e[t] \subseteq Key /\ \A k \in DOMAIN e[t] : ContentOK(t, e[t][k])
  BY DEF Loses, Shape
<1>9. Shape(e)  BY <1>1, <1>3, <1>8 DEF Loses, Shape
<1> QED  BY <1>1, <1>5, <1>6, <1>7, <1>9 DEF TotalStoreBytes, left

(* Losing keys together with their deadlines leaves the store sound. *)
LEMMA LosesSound ==
  ASSUME NEW d, NEW e, NEW K, Sound(d), Loses(d, e, K), DOMAIN e.expirations \cap K = {}
  PROVE  Sound(e)
<1>1. Shape(e) /\ TotalStoreBytes(e) <= TotalStoreBytes(d)
      /\ TotalStoreBytes(e) \in Nat /\ TotalStoreBytes(d) \in Nat
  BY LosesBytes DEF Sound
<1>2. Apart(e) /\ Filled(e)  BY DEF Sound, Loses, Apart, Filled
<1>3. Dated(e)
  <2> SUFFICES ASSUME NEW k \in DOMAIN e.expirations PROVE Has(e, k)  BY DEF Dated
  <2>1. k \in DOMAIN d.expirations /\ k \notin K  BY DEF Loses
  <2>2. PICK t \in Type : k \in DOMAIN d[t]  BY <2>1 DEF Sound, Dated, Has
  <2>3. k \in DOMAIN e[t]  BY <2>1, <2>2 DEF Loses
  <2> QED  BY <2>3 DEF Has
<1>4. Within(e)
  <2>1. MaxBytes \in Nat  BY RedisAssumption DEF RedisAssumption
  <2> QED  BY <1>1, <2>1 DEF Sound, Within
<1> QED  BY <1>1, <1>2, <1>3, <1>4 DEF Sound

LEMMA DeleteLoses ==
  ASSUME NEW d, DOMAIN d = Dictionary, NEW K, NEW e, e = Delete(d, K)
  PROVE  Loses(d, e, K) /\ DOMAIN e.expirations = DOMAIN d.expirations \ K
<1>1. /\ DOMAIN e = Dictionary
      /\ \A u \in Dictionary : /\ DOMAIN e[u] = DOMAIN d[u] \ K
                               /\ \A j \in DOMAIN d[u] : j \notin K => e[u][j] = d[u][j]
  BY DeleteIs
<1>2. /\ DOMAIN e.expirations = DOMAIN d.expirations \ K
      /\ \A j \in DOMAIN d.expirations : j \notin K => e.expirations[j] = d.expirations[j]
  BY <1>1 DEF Dictionary
<1>3. \A u \in Type : /\ DOMAIN e[u] = DOMAIN d[u] \ K
                      /\ \A j \in DOMAIN d[u] : j \notin K => e[u][j] = d[u][j]
  BY <1>1 DEF Dictionary
<1> QED  BY <1>1, <1>2, <1>3 DEF Loses

LEMMA DeleteSound == ASSUME NEW d, Sound(d), NEW K PROVE Sound(Delete(d, K))
<1>1. PICK e : e = Delete(d, K)  OBVIOUS
<1>2. DOMAIN d = Dictionary  BY DEF Sound, Shape
<1>3. Loses(d, e, K) /\ DOMAIN e.expirations = DOMAIN d.expirations \ K  BY <1>1, <1>2, DeleteLoses
<1>4. Sound(e)  BY <1>3, LosesSound
<1> QED  BY <1>1, <1>4

LEMMA PurgeSound == ASSUME NEW d, Sound(d), NEW K PROVE Sound(Purge(d, K))
BY DeleteSound DEF Purge

(* No key but k is without elements. *)
FilledBut(d, k) == \A t \in Type \ {"store"} : \A j \in DOMAIN d[t] : j # k => d[t][j] # Nothing(t)

LEMMA FilledIsBut == ASSUME NEW d, Filled(d), NEW k PROVE FilledBut(d, k)
BY DEF Filled, FilledBut

(* Entering a content into a store that is sound but for what the entry makes good. *)
LEMMA PutSound ==
  ASSUME NEW d, Shape(d), Apart(d), NEW t \in Type, NEW k \in Key, FilledBut(d, k),
         NEW c, ContentOK(t, c), t # "store" => c # Nothing(t),
         \A u \in Type \ {t} : k \notin DOMAIN d[u],
         \A j \in DOMAIN d.expirations : j = k \/ Has(d, j),
         TotalStoreBytes(d) - BytesAt(d, t, k) + Cardinality(Usage(t, c)) <= MaxBytes
  PROVE  Sound(Put(d, t, k, c))
<1>1. PICK e : e = Put(d, t, k, c)  OBVIOUS
<1>2. Shape(e) /\ TotalStoreBytes(e) = TotalStoreBytes(d) - BytesAt(d, t, k) + Cardinality(Usage(t, c))
  BY <1>1, PutBytes
<1>3. DOMAIN d = Dictionary /\ t \in Dictionary /\ Type \subseteq Dictionary  BY DEF Shape, Dictionary
<1>4. /\ \A u \in Dictionary : u # t => e[u] = d[u]
      /\ DOMAIN e[t] = DOMAIN d[t] \cup {k}
      /\ e[t][k] = c
      /\ \A j \in DOMAIN d[t] : j # k => e[t][j] = d[t][j]
  BY <1>1, <1>3, PutIs
<1>5. \A u \in Type : u # t => e[u] = d[u]  BY <1>3, <1>4
<1>6. Apart(e)
  <2> SUFFICES ASSUME NEW j \in Key, NEW u \in Type, NEW v \in Type, j \in DOMAIN e[u], j \in DOMAIN e[v]
               PROVE  u = v
    BY DEF Apart
  <2>1. CASE j = k  BY <2>1, <1>5
  <2>2. CASE j # k
    <3>1. j \in DOMAIN d[u] /\ j \in DOMAIN d[v]  BY <2>2, <1>4, <1>5
    <3> QED  BY <3>1 DEF Apart
  <2> QED  BY <2>1, <2>2
<1>7. Filled(e)
  <2> SUFFICES ASSUME NEW u \in Type \ {"store"}, NEW j \in DOMAIN e[u] PROVE e[u][j] # Nothing(u)
    BY DEF Filled
  <2>1. CASE u = t /\ j = k  BY <2>1, <1>4
  <2>2. CASE ~(u = t /\ j = k)
    <3>1. j \in DOMAIN d[u] /\ e[u][j] = d[u][j]  BY <2>2, <1>4, <1>5
    <3>2. j # k  BY <2>2, <3>1
    <3> QED  BY <3>1, <3>2 DEF FilledBut
  <2> QED  BY <2>1, <2>2
<1>8. e.expirations = d.expirations
  <2>1. "expirations" \in Dictionary /\ "expirations" # t  BY DEF Dictionary, Type
  <2> QED  BY <2>1, <1>4
<1>9. Dated(e)
  <2> SUFFICES ASSUME NEW j \in DOMAIN d.expirations PROVE Has(e, j)  BY <1>8 DEF Dated
  <2>1. CASE j = k  BY <2>1, <1>4 DEF Has
  <2>2. CASE j # k
    <3>1. PICK u \in Type : j \in DOMAIN d[u]  BY <2>2 DEF Has
    <3>2. j \in DOMAIN e[u]  BY <3>1, <1>4, <1>5
    <3> QED  BY <3>2 DEF Has
  <2> QED  BY <2>1, <2>2
<1>10. Within(e)  BY <1>2 DEF Within
<1> QED  BY <1>1, <1>2, <1>6, <1>7, <1>9, <1>10 DEF Sound

(* _set_key_*: what does not fit changes nothing, and what is set with its   *)
(* deadline kept is something.                                             *)
LEMMA SetKeySound ==
  ASSUME NEW d, Sound(d), NEW t \in Type, NEW k \in Key, NEW c, ContentOK(t, c), NEW clear \in BOOLEAN,
         clear \/ t = "store" \/ c # Nothing(t)
  PROVE  Sound(SetKey(d, t, k, c, clear))
<1> DEFINE keep  == IF clear THEN {} ELSE {"expirations"}
           other == [u \in DOMAIN d |-> IF u \in keep THEN d[u] ELSE Without(d[u], {k})]
<1>1. CASE ~Fits(d, t, k, c)  BY <1>1 DEF SetKey
<1>2. CASE Fits(d, t, k, c)
  <2>1. DOMAIN d = Dictionary  BY DEF Sound, Shape
  <2>2. PICK o : o = other  OBVIOUS
  <2>3. DOMAIN o = Dictionary  BY <2>1, <2>2
  <2>4. \A u \in Type : o[u] = Without(d[u], {k})  BY <2>1, <2>2 DEF Dictionary, Type
  <2>5. o.expirations = IF clear THEN Without(d.expirations, {k}) ELSE d.expirations
    BY <2>1, <2>2 DEF Dictionary
  <2>6. SetKey(d, t, k, c, clear) = IF t # "store" /\ c = Nothing(t) THEN o ELSE Put(o, t, k, c)
    BY <1>2, <2>2 DEF SetKey
  <2> HIDE DEF other, keep
  <2>7. \A u \in Type : /\ DOMAIN o[u] = DOMAIN d[u] \ {k}
                        /\ \A j \in DOMAIN d[u] : j \notin {k} => o[u][j] = d[u][j]
    BY <2>4 DEF Without, Restrict
  <2>8. DOMAIN o.expirations \subseteq DOMAIN d.expirations
        /\ \A j \in DOMAIN o.expirations : o.expirations[j] = d.expirations[j]
    BY <2>5 DEF Without, Restrict
  <2>9. Loses(d, o, {k})  BY <2>3, <2>7, <2>8 DEF Loses
  <2>10. CASE t # "store" /\ c = Nothing(t)
    <3>1. clear  BY <2>10
    <3>2. DOMAIN o.expirations \cap {k} = {}  BY <3>1, <2>5 DEF Without, Restrict
    <3>3. Sound(o)  BY <2>9, <3>2, LosesSound
    <3> QED  BY <3>3, <2>6, <2>10
  <2>11. CASE ~(t # "store" /\ c = Nothing(t))
    <3>1. /\ Shape(o) /\ TotalStoreBytes(o) = TotalStoreBytes(d) - KeyUsage(d, {k})
          /\ TotalStoreBytes(d) \in Nat /\ TotalStoreBytes(o) \in Nat
      BY <2>9, LosesBytes DEF Sound
    <3>2. Apart(o) /\ Filled(o)  BY <2>7 DEF Sound, Apart, Filled
    <3>3. \A u \in Type \ {t} : k \notin DOMAIN o[u]  BY <2>7
    <3>4. ASSUME NEW j \in DOMAIN o.expirations PROVE j = k \/ Has(o, j)
      <4>1. PICK u \in Type : j \in DOMAIN d[u]  BY <2>8 DEF Sound, Dated, Has
      <4> QED  BY <4>1, <2>7 DEF Has
    <3>5. BytesAt(o, t, k) = 0  BY <2>7 DEF BytesAt
    <3>6. IsFiniteSet(Usage(t, c)) /\ Cardinality(Usage(t, c)) \in Nat  BY UsageFinite
    <3>7. Cardinality(Together([j \in {k} |-> Usage(t, c)])) = Cardinality(Usage(t, c))
      <4>1. Together([j \in {k} |-> Usage(t, c)]) = {k} \X Usage(t, c)  BY DEF Together
      <4> QED  BY <4>1, <3>6, Tagged
    <3>8. TotalStoreBytes(d) - KeyUsage(d, {k}) + Cardinality(Usage(t, c)) <= MaxBytes
      <4>1. DOMAIN [j \in {k} |-> Usage(t, c)] = {k}  OBVIOUS
      <4> QED  BY <1>2, <3>7, <4>1 DEF Fits, FitsKeyUpdates
    <3>9. TotalStoreBytes(o) - BytesAt(o, t, k) + Cardinality(Usage(t, c)) <= MaxBytes
      BY <3>1, <3>5, <3>6, <3>8
    <3>10. Sound(Put(o, t, k, c))  BY <3>1, <3>2, <3>3, <3>4, <3>9, <2>11, FilledIsBut, PutSound
    <3> QED  BY <3>10, <2>6, <2>11
  <2> QED  BY <2>10, <2>11
<1> QED  BY <1>1, <1>2

(* What takes elements away in place, or moves them: what it leaves of the  *)
(* key fits the budget.                                                    *)
LEMMA ShrinkMakesSound ==
  ASSUME NEW d, Shape(d), Apart(d), Dated(d), NEW t \in Type \ {"store"}, NEW k \in Key, k \in DOMAIN d[t],
         FilledBut(d, k), NEW c, ContentOK(t, c),
         TotalStoreBytes(d) - BytesAt(d, t, k) + Cardinality(Usage(t, c)) <= MaxBytes
  PROVE  Sound(Shrink(d, t, k, c))
<1>1. DOMAIN d = Dictionary  BY DEF Shape
<1>2. Cardinality(Usage(t, c)) \in Nat  BY UsageFinite
<1>3. CASE c = Nothing(t)
  <2>1. PICK g : g = Delete(d, {k})  OBVIOUS
  <2>2. Shrink(d, t, k, c) = g  BY <1>3, <2>1 DEF Shrink
  <2>3. Loses(d, g, {k}) /\ DOMAIN g.expirations = DOMAIN d.expirations \ {k}
    BY <1>1, <2>1, DeleteLoses
  <2>4. /\ Shape(g) /\ TotalStoreBytes(g) = TotalStoreBytes(d) - KeyUsage(d, {k})
        /\ TotalStoreBytes(g) \in Nat /\ TotalStoreBytes(d) \in Nat
    BY <2>3, LosesBytes
  <2>5. KeyUsage(d, {k}) >= BytesAt(d, t, k) /\ KeyUsage(d, {k}) \in Nat /\ BytesAt(d, t, k) \in Nat
    <3> DEFINE B == {b \in StoreBytes(d) : b[1] = <<t, k>>}
               A == {b \in StoreBytes(d) : b[1][2] \in {k}}
    <3>1. BytesAt(d, t, k) = Cardinality(B) /\ BytesAt(d, t, k) \in Nat  BY TypedTaken
    <3>2. IsFiniteSet(A)  BY FS_Subset DEF Shape
    <3>3. B \subseteq A  OBVIOUS
    <3>4. Cardinality(B) <= Cardinality(A) /\ Cardinality(A) \in Nat
      BY <3>2, <3>3, FS_Subset, FS_CardinalityType
    <3> QED  BY <3>1, <3>4 DEF KeyUsage
  <2>6. Within(g)
    <3>1. MaxBytes \in Nat  BY RedisAssumption DEF RedisAssumption
    <3> QED  BY <3>1, <1>2, <2>4, <2>5 DEF Within
  <2>7. /\ \A u \in Type : /\ DOMAIN g[u] = DOMAIN d[u] \ {k}
                          /\ \A j \in DOMAIN g[u] : g[u][j] = d[u][j] /\ j # k
    BY <2>3 DEF Loses
  <2>8. Apart(g)  BY <2>7 DEF Apart
  <2>9. Filled(g)  BY <2>7 DEF FilledBut, Filled
  <2>10. Dated(g)
    <3> SUFFICES ASSUME NEW j \in DOMAIN g.expirations PROVE Has(g, j)  BY DEF Dated
    <3>1. j \in DOMAIN d.expirations /\ j # k  BY <2>3
    <3>2. PICK u \in Type : j \in DOMAIN d[u]  BY <3>1 DEF Dated, Has
    <3>3. j \in DOMAIN g[u]  BY <3>1, <3>2, <2>7
    <3> QED  BY <3>3 DEF Has
  <2> QED  BY <2>2, <2>4, <2>6, <2>8, <2>9, <2>10 DEF Sound
<1>4. CASE c # Nothing(t)
  <2>1. \A u \in Type \ {t} : k \notin DOMAIN d[u]  BY DEF Apart
  <2>2. \A j \in DOMAIN d.expirations : j = k \/ Has(d, j)  BY DEF Dated
  <2>3. Sound(Put(d, t, k, c))  BY <1>4, <2>1, <2>2, PutSound
  <2> QED  BY <2>3, <1>4 DEF Shrink
<1> QED  BY <1>3, <1>4

LEMMA ShrinkSound ==
  ASSUME NEW d, Sound(d), NEW t \in Type \ {"store"}, NEW k \in DOMAIN d[t], NEW c, ContentOK(t, c),
         Cardinality(Usage(t, c)) <= Cardinality(Usage(t, d[t][k]))
  PROVE  Sound(Shrink(d, t, k, c))
<1>1. k \in Key  BY DEF Sound, Shape
<1>2. BytesAt(d, t, k) = Cardinality(Usage(t, d[t][k])) /\ BytesAt(d, t, k) \in Nat
  BY <1>1, TypedTaken DEF Sound, BytesAt
<1>3. Cardinality(Usage(t, c)) \in Nat  BY UsageFinite
<1>4. TotalStoreBytes(d) \in Nat  BY FS_CardinalityType DEF Sound, Shape, TotalStoreBytes
<1>5. TotalStoreBytes(d) - BytesAt(d, t, k) + Cardinality(Usage(t, c)) <= MaxBytes
  <2>1. MaxBytes \in Nat /\ TotalStoreBytes(d) <= MaxBytes
    BY RedisAssumption DEF RedisAssumption, Sound, Within
  <2> QED  BY <1>2, <1>3, <1>4, <2>1
<1>6. Shape(d) /\ Apart(d) /\ Dated(d) /\ FilledBut(d, k)  BY FilledIsBut DEF Sound
<1> QED  BY <1>1, <1>5, <1>6, ShrinkMakesSound

-----------------------------------------------------------------------------
(* What taking elements away does to the bytes of lists and sets. *)
LEMMA ListBytesAre ==
  ASSUME NEW s, NEW b
  PROVE  b \in Usage("list", s) <=> \E i \in DOMAIN s : b \in {i} \X Encoded(s[i])
<1>1. Usage("list", s) = Together([i \in DOMAIN s |-> Encoded(s[i])])  BY DEF Usage
<1> QED  BY <1>1, TogetherAre

LEMMA SetBytesAre ==
  ASSUME NEW M, NEW b
  PROVE  b \in Usage("set", M) <=> \E m \in M : b \in {m} \X Encoded(m)
<1>1. Usage("set", M) = Together([m \in M |-> Encoded(m)])  BY DEF Usage
<1> QED  BY <1>1, TogetherAre

(* The places of r are places of s, other than p where nothing of r comes from. *)
LEMMA PlacesOfList ==
  ASSUME NEW s \in Seq(Val), NEW r \in Seq(Val), NEW f \in Injection(DOMAIN r, DOMAIN s),
         \A i \in DOMAIN r : s[f[i]] = r[i]
  PROVE  /\ Cardinality(Usage("list", r)) <= Cardinality(Usage("list", s))
         /\ \A p \in DOMAIN s : (\A j \in DOMAIN s : j = p <=> \A i \in DOMAIN r : f[i] # j) =>
              Cardinality(Usage("list", s)) = Cardinality(Usage("list", r)) + Cardinality(Encoded(s[p]))
<1> DEFINE R == Usage("list", r)
           S == Usage("list", s)
           g == [b \in R |-> <<f[b[1]], b[2]>>]
           T == {g[b] : b \in R}
<1>1. f \in [DOMAIN r -> DOMAIN s] /\ \A i, j \in DOMAIN r : f[i] = f[j] => i = j  BY DEF Injection, IsInjective
<1>2. ASSUME NEW b \in R
      PROVE  /\ b = <<b[1], b[2]>> /\ b[1] \in DOMAIN r /\ b[2] \in Encoded(r[b[1]])
             /\ g[b] \in {f[b[1]]} \X Encoded(s[f[b[1]]]) /\ g[b] \in S
  <2>1. PICK i \in DOMAIN r : b \in {i} \X Encoded(r[i])  BY ListBytesAre
  <2>2. b = <<b[1], b[2]>> /\ b[1] \in DOMAIN r /\ b[2] \in Encoded(r[b[1]])  BY <2>1
  <2>3. g[b] \in {f[b[1]]} \X Encoded(s[f[b[1]]]) /\ f[b[1]] \in DOMAIN s  BY <2>2, <1>1
  <2>4. g[b] \in S  BY <2>3, ListBytesAre
  <2> QED  BY <2>2, <2>3, <2>4
<1>3. \A b, a \in R : g[b] = g[a] => b = a
  <2> SUFFICES ASSUME NEW b \in R, NEW a \in R, g[b] = g[a] PROVE b = a  OBVIOUS
  <2>1. f[b[1]] = f[a[1]] /\ b[2] = a[2]  OBVIOUS
  <2>2. b[1] = a[1]  BY <2>1, <1>1, <1>2
  <2> QED  BY <2>1, <2>2, <1>2
<1>4. g \in Injection(R, S)  BY <1>2, <1>3 DEF Injection, IsInjective
<1>5. ContentOK("list", s) /\ ContentOK("list", r) /\ "list" \in Type  BY DEF ContentOK, Type
<1>6. IsFiniteSet(S) /\ IsFiniteSet(R) /\ Cardinality(S) \in Nat /\ Cardinality(R) \in Nat
  BY <1>5, UsageFinite
<1>7. Cardinality(R) <= Cardinality(S)  BY <1>4, <1>6, FS_Injection
<1>8. ASSUME NEW p \in DOMAIN s, \A j \in DOMAIN s : j = p <=> \A i \in DOMAIN r : f[i] # j
      PROVE  Cardinality(S) = Cardinality(R) + Cardinality(Encoded(s[p]))
  <2> DEFINE P == {p} \X Encoded(s[p])
  <2>1. s[p] \in Val  OBVIOUS
  <2>2. IsFiniteSet(P) /\ Cardinality(P) = Cardinality(Encoded(s[p])) /\ Cardinality(P) \in Nat
    BY <2>1, EncodedFinite, Tagged, FS_CardinalityType
  <2>3. P \subseteq S  BY ListBytesAre
  <2>4. \A b \in R : g[b] \in S \ P
    <3> SUFFICES ASSUME NEW b \in R PROVE g[b] \notin P  BY <1>2
    <3>1. b[1] \in DOMAIN r /\ g[b] \in {f[b[1]]} \X Encoded(s[f[b[1]]])  BY <1>2
    <3>2. f[b[1]] # p  BY <3>1, <1>1, <1>8
    <3> QED  BY <3>1, <3>2
  <2>5. ASSUME NEW a \in S \ P PROVE \E b \in R : g[b] = a
    <3>1. PICK j \in DOMAIN s : a \in {j} \X Encoded(s[j])  BY ListBytesAre
    <3>2. j # p  BY <3>1, <2>5
    <3>3. PICK i \in DOMAIN r : f[i] = j  BY <3>2, <1>8
    <3>4. <<i, a[2]>> \in {i} \X Encoded(r[i])  BY <3>1, <3>3
    <3>5. <<i, a[2]>> \in R  BY <3>4, ListBytesAre
    <3>6. g[<<i, a[2]>>] = a  BY <3>1, <3>3, <3>5
    <3> QED  BY <3>5, <3>6
  <2>6. g \in Surjection(R, S \ P)  BY <2>4, <2>5 DEF Surjection
  <2>7. g \in Injection(R, S \ P)  BY <2>4, <1>3 DEF Injection, IsInjective
  <2> HIDE DEF g, R, S, P
  <2>8. Cardinality(S \ P) = Cardinality(R)  BY <2>6, <2>7, <1>6, FS_Surjection
  <2>9. S \cap P = P  BY <2>3
  <2>10. Cardinality(S \ P) = Cardinality(S) - Cardinality(P)  BY <1>6, <2>9, FS_Difference
  <2> QED  BY <1>6, <2>2, <2>8, <2>10
<1> QED  BY <1>7, <1>8

(* Taking elements from a set, or one, and adding one. *)
LEMMA FewerMembers ==
  ASSUME NEW M, ContentOK("set", M), NEW N, N \subseteq M
  PROVE  /\ ContentOK("set", N)
         /\ Cardinality(Usage("set", N)) <= Cardinality(Usage("set", M))
<1>1. ContentOK("set", N)  BY FS_Subset DEF ContentOK
<1>2. "set" \in Type  BY DEF Type
<1>3. IsFiniteSet(Usage("set", M))  BY <1>2, UsageFinite
<1>4. Usage("set", N) \subseteq Usage("set", M)  BY SetBytesAre
<1> QED  BY <1>1, <1>3, <1>4, FS_Subset

LEMMA MemberLeaves ==
  ASSUME NEW M, ContentOK("set", M), NEW m \in M
  PROVE  Cardinality(Usage("set", M \ {m})) = Cardinality(Usage("set", M)) - Cardinality(Encoded(m))
<1> DEFINE P == {m} \X Encoded(m)
<1>1. "set" \in Type  BY DEF Type
<1>2. IsFiniteSet(Usage("set", M)) /\ Cardinality(Usage("set", M)) \in Nat  BY <1>1, UsageFinite
<1>3. m \in Val  BY DEF ContentOK
<1>4. IsFiniteSet(P) /\ Cardinality(P) = Cardinality(Encoded(m))  BY <1>3, EncodedFinite, Tagged
<1>5. Usage("set", M \ {m}) = Usage("set", M) \ P
  <2>1. ASSUME NEW b PROVE b \in Usage("set", M \ {m}) <=> b \in Usage("set", M) /\ b \notin P
    <3>1. b \in P <=> b \in {m} \X Encoded(m)  OBVIOUS
    <3>2. \A n \in M : b \in {n} \X Encoded(n) => (b \in P <=> n = m)  OBVIOUS
    <3> QED  BY <3>1, <3>2, SetBytesAre
  <2> QED  BY <2>1
<1>6. Usage("set", M) \cap P = P  BY SetBytesAre
<1> HIDE DEF P
<1>7. Cardinality(Usage("set", M) \ P) = Cardinality(Usage("set", M)) - Cardinality(Usage("set", M) \cap P)
  BY <1>2, FS_Difference
<1> QED  BY <1>4, <1>5, <1>6, <1>7

LEMMA MemberComes ==
  ASSUME NEW M, ContentOK("set", M), NEW m \in Val
  PROVE  /\ ContentOK("set", M \cup {m})
         /\ Cardinality(Usage("set", M \cup {m})) <= Cardinality(Usage("set", M)) + Cardinality(Encoded(m))
<1> DEFINE P == {m} \X Encoded(m)
           U == Usage("set", M)
<1>1. ContentOK("set", M \cup {m})
  <2>1. IsFiniteSet(M \cup {m})  BY FS_AddElement DEF ContentOK
  <2> QED  BY <2>1 DEF ContentOK
<1>2. "set" \in Type  BY DEF Type
<1>3. IsFiniteSet(U) /\ Cardinality(U) \in Nat  BY <1>2, UsageFinite
<1>4. IsFiniteSet(P) /\ Cardinality(P) = Cardinality(Encoded(m)) /\ Cardinality(P) \in Nat
  BY EncodedFinite, Tagged, FS_CardinalityType
<1>5. Usage("set", M \cup {m}) = U \cup P
  <2>1. ASSUME NEW b PROVE b \in Usage("set", M \cup {m}) <=> b \in U \/ b \in P
    <3>1. b \in Usage("set", M \cup {m}) <=> \E n \in M \cup {m} : b \in {n} \X Encoded(n)  BY SetBytesAre
    <3>2. b \in U <=> \E n \in M : b \in {n} \X Encoded(n)  BY SetBytesAre
    <3> QED  BY <3>1, <3>2
  <2> QED  BY <2>1
<1> HIDE DEF U, P
<1>6. Cardinality(U \cup P) = Cardinality(U) + Cardinality(P) - Cardinality(U \cap P)
  BY <1>3, <1>4, FS_Union
<1>7. Cardinality(U \cap P) \in Nat  BY <1>3, FS_Intersection, FS_CardinalityType
<1>8. Cardinality(U \cup P) <= Cardinality(U) + Cardinality(P)  BY <1>3, <1>4, <1>6, <1>7
<1> QED  BY <1>1, <1>4, <1>5, <1>8 DEF U

-----------------------------------------------------------------------------
RedisInv == Sound(redis)

(* Redis starts empty. *)
LEMMA RedisInitInv == ASSUME RedisInit PROVE RedisInv
<1>1. DOMAIN redis = Dictionary /\ \A t \in Dictionary : redis[t] = << >>  BY DEF RedisInit, Dictionary, Empty
<1>2. Type \subseteq Dictionary /\ "expirations" \in Dictionary /\ DOMAIN << >> = {}  BY DEF Dictionary
<1>3. (\A t \in Type : DOMAIN redis[t] = {}) /\ DOMAIN redis.expirations = {}  BY <1>1, <1>2
<1>4. StoreBytes(redis) = {}  BY <1>3, StoreBytesAre
<1>5. Shape(redis) /\ TotalStoreBytes(redis) = 0
  BY <1>1, <1>3, <1>4, FS_EmptySet DEF Shape, TotalStoreBytes
<1>6. Apart(redis) /\ Filled(redis) /\ Dated(redis)  BY <1>3 DEF Apart, Filled, Dated
<1>7. Within(redis)  BY <1>5, RedisAssumption DEF Within, RedisAssumption
<1> QED  BY <1>5, <1>6, <1>7 DEF RedisInv, Sound

LEMMA AnswerSound == ASSUME NEW d, Sound(d), NEW r, Answer(d, r) PROVE RedisInv'
BY DEF Answer, RedisInv

(* Whatever keys are looked at, those that are purged go.                   *)
LEMMA VisitSound == ASSUME RedisInv, NEW ks, NEW t PROVE Sound(Visit(ks, t).db)
<1>1. PICK K : Visit(ks, t).db = Purge(redis, K)  BY DEF Visit
<1> QED  BY <1>1, PurgeSound DEF RedisInv

LEMMA ReadManySound == ASSUME RedisInv, NEW ks, NEW t, ReadMany(ks, t) PROVE RedisInv'
<1>1. PICK d : d = Visit(ks, t).db  OBVIOUS
<1>2. \E r : Answer(d, r)  BY <1>1 DEF ReadMany
<1> QED  BY <1>1, <1>2, VisitSound, AnswerSound

(* A value that is set if it fits. *)
LEMMA CommitSound ==
  ASSUME NEW d, Sound(d), NEW t \in Type, NEW k \in Key, NEW c, ContentOK(t, c), NEW r,
         Commit(d, t, k, c, r), r = "replaced" \/ t = "store" \/ c # Nothing(t)
  PROVE  RedisInv'
<1>1. PICK clear \in BOOLEAN : clear = (r = "replaced")  OBVIOUS
<1>2. Sound(SetKey(d, t, k, c, clear))  BY <1>1, SetKeySound
<1>3. Answer(SetKey(d, t, k, c, clear), r) \/ Answer(d, "refused")  BY <1>1 DEF Commit
<1> QED  BY <1>2, <1>3, AnswerSound

LEMMA GetOK ==
  ASSUME NEW d, Sound(d), NEW t \in Type \ {"store"}, NEW k \in Key
  PROVE  ContentOK(t, Get(d, t, k))
<1>1. CASE k \in DOMAIN d[t]  BY <1>1 DEF Get, Sound, Shape
<1>2. CASE k \notin DOMAIN d[t]
  <2>1. Get(d, t, k) = Nothing(t)  BY <1>2 DEF Get
  <2>2. DOMAIN << >> = {} /\ << >> \in Seq(Val) /\ IsFiniteSet({})  BY FS_EmptySet
  <2> QED  BY <2>1, <2>2 DEF ContentOK, Nothing, Empty, Type
<1> QED  BY <1>1, <1>2

LEMMA StringOK == ASSUME NEW v \in Value PROVE ContentOK("store", v)
BY RedisAssumption DEF ContentOK, Value, Val, RedisAssumption

LEMMA ValuesAreVals == Value \subseteq Val
BY RedisAssumption DEF Value, Val, RedisAssumption

(* A set of natural numbers has a least one. *)
LEMMA LeastOf == ASSUME NEW S \in SUBSET Nat, S # {} PROVE \E m \in S : \A n \in S : m <= n
<1> DEFINE less == OpToRel(<, Nat)
<1>1. IsWellFoundedOn(less, Nat)  BY NatLessThanWellFounded, Zenon
<1>2. PICK x \in S : \A y \in S : <<y, x>> \notin less  BY <1>1, WFMin
<1>3. \A y \in S : ~(y < x)  BY <1>2 DEF OpToRel
<1> QED  BY <1>3

LEMMA MinIs == ASSUME NEW S \in SUBSET Nat, S # {} PROVE Min(S) \in S
<1>1. \E m \in S : \A n \in S : m =< n  BY LeastOf, Zenon
<1> QED  BY <1>1 DEF Min

(* What holds at 0 and goes on holding holds up to n. *)
LEMMA Steps ==
  ASSUME NEW n \in Nat, NEW S, 0 \in S, \A m \in 1 .. n : m - 1 \in S => m \in S
  PROVE  0 .. n \subseteq S
<1> DEFINE T == {m \in 0 .. n : m \notin S}
<1> SUFFICES ASSUME T # {} PROVE FALSE  OBVIOUS
<1>1. T \in SUBSET Nat  OBVIOUS
<1>2. PICK m \in T : \A j \in T : m <= j  BY <1>1, LeastOf, Zenon
<1>3. m \in 0 .. n /\ m \notin S  OBVIOUS
<1>4. m \in 1 .. n /\ m - 1 \in 0 .. n /\ ~(m <= m - 1)  BY <1>3
<1>5. m - 1 \in S  BY <1>2, <1>4
<1> QED  BY <1>3, <1>4, <1>5

-----------------------------------------------------------------------------
(* What clients see of dictionaries: neither the expired keys nor their deadlines. *)
LiveOf(d) == {k \in Key \ Expired(d) : Has(d, k)}
DataOf(d) == [k \in LiveOf(d) |-> [t \in {t \in Type : k \in DOMAIN d[t]} |-> d[t][k]]]
DueOf(d)  == Without(d.expirations, Expired(d))

SameView(d, e) == DataOf(d) = DataOf(e) /\ DueOf(d) = DueOf(e)

LEMMA SeenIs ==
  /\ LiveData = DataOf(redis) /\ Without(redis.expirations, Expired(redis)) = DueOf(redis)
  /\ LiveData' = DataOf(redis') /\ Without(redis.expirations, Expired(redis))' = DueOf(redis')
BY DEF LiveData, Live, DataOf, LiveOf, DueOf, Expired, Has

LEMMA DueIs ==
  ASSUME NEW d
  PROVE  /\ DOMAIN DueOf(d) = DOMAIN d.expirations \ Expired(d)
         /\ \A k \in DOMAIN DueOf(d) : DueOf(d)[k] = d.expirations[k]
BY DEF DueOf, Without, Restrict

(* A key that is not expired is seen with the one type it has. *)
LEMMA DataIs ==
  ASSUME NEW d, Apart(d), NEW k \in Key, k \notin Expired(d), NEW t \in Type, k \in DOMAIN d[t]
  PROVE  k \in DOMAIN DataOf(d) /\ DataOf(d)[k] = [u \in {t} |-> d[t][k]]
<1>1. k \in LiveOf(d)  BY DEF LiveOf, Has
<1>2. {u \in Type : k \in DOMAIN d[u]} = {t}  BY DEF Apart
<1>3. DataOf(d)[k] = [u \in {u \in Type : k \in DOMAIN d[u]} |-> d[u][k]]  BY <1>1 DEF DataOf
<1>4. DataOf(d)[k] = [u \in {t} |-> d[u][k]]  BY <1>2, <1>3
<1> QED  BY <1>1, <1>4 DEF DataOf

LEMMA NoDataIs ==
  ASSUME NEW d, NEW k, ~Has(d, k) \/ k \in Expired(d)
  PROVE  k \notin DOMAIN DataOf(d)
BY DEF DataOf, LiveOf

(* Nothing changes at key j. *)
Alike(d, e, j) ==
  \A t \in Dictionary : /\ j \in DOMAIN d[t] <=> j \in DOMAIN e[t]
                        /\ j \in DOMAIN d[t] => e[t][j] = d[t][j]

Absent(e, j) == \A t \in Dictionary : j \notin DOMAIN e[t]

LEMMA AlikeSeen ==
  ASSUME NEW d, NEW e, NEW j \in Key, Alike(d, e, j)
  PROVE  /\ j \in Expired(d) <=> j \in Expired(e)
         /\ j \in DOMAIN DataOf(d) <=> j \in DOMAIN DataOf(e)
         /\ j \in DOMAIN DataOf(d) => DataOf(e)[j] = DataOf(d)[j]
         /\ j \in DOMAIN DueOf(d) <=> j \in DOMAIN DueOf(e)
         /\ j \in DOMAIN DueOf(d) => DueOf(e)[j] = DueOf(d)[j]
<1>1. "expirations" \in Dictionary /\ Type \subseteq Dictionary  BY DEF Dictionary
<1>2. /\ j \in DOMAIN d.expirations <=> j \in DOMAIN e.expirations
      /\ j \in DOMAIN d.expirations => e.expirations[j] = d.expirations[j]
  BY <1>1 DEF Alike
<1>3. \A t \in Type : /\ j \in DOMAIN d[t] <=> j \in DOMAIN e[t]
                      /\ j \in DOMAIN d[t] => e[t][j] = d[t][j]
  BY <1>1 DEF Alike
<1>4. j \in Expired(d) <=> j \in Expired(e)  BY <1>2 DEF Expired
<1>5. Has(d, j) <=> Has(e, j)  BY <1>3 DEF Has
<1>6. j \in LiveOf(d) <=> j \in LiveOf(e)  BY <1>4, <1>5 DEF LiveOf
<1>7. ASSUME j \in LiveOf(d) PROVE DataOf(e)[j] = DataOf(d)[j]
  <2>1. PICK T : T = {t \in Type : j \in DOMAIN d[t]}  OBVIOUS
  <2>2. T = {t \in Type : j \in DOMAIN e[t]}  BY <1>3, <2>1
  <2>3. DataOf(d)[j] = [t \in T |-> d[t][j]]  BY <1>7, <2>1 DEF DataOf
  <2>4. DataOf(e)[j] = [t \in T |-> e[t][j]]  BY <1>6, <1>7, <2>2 DEF DataOf
  <2>5. \A t \in T : e[t][j] = d[t][j]  BY <1>3, <2>1
  <2> QED  BY <2>3, <2>4, <2>5
<1>8. DOMAIN DataOf(d) = LiveOf(d) /\ DOMAIN DataOf(e) = LiveOf(e)  BY DEF DataOf
<1> QED  BY <1>2, <1>4, <1>6, <1>7, <1>8, DueIs

LEMMA SoundKeys == ASSUME NEW d, Sound(d) PROVE DOMAIN d.expirations \subseteq Key /\ Apart(d) /\ DOMAIN d = Dictionary
BY DEF Sound, Shape

Agree(d, e, K) == \A j \in Key \ K : Alike(d, e, j)

(* Two functions of keys are equal if they are at every key. *)
LEMMA SameFunctions ==
  ASSUME NEW S, NEW f, NEW g, f = [x \in DOMAIN f |-> f[x]], g = [x \in DOMAIN g |-> g[x]],
         DOMAIN f \subseteq S, DOMAIN g \subseteq S,
         \A x \in S : (x \in DOMAIN f <=> x \in DOMAIN g) /\ (x \in DOMAIN f => g[x] = f[x])
  PROVE  f = g
<1>1. DOMAIN f = DOMAIN g  OBVIOUS
<1>2. \A x \in DOMAIN f : f[x] = g[x]  OBVIOUS
<1> QED  BY <1>1, <1>2

LEMMA SeenFunctions ==
  ASSUME NEW d, DOMAIN d.expirations \subseteq Key
  PROVE  /\ DataOf(d) = [x \in DOMAIN DataOf(d) |-> DataOf(d)[x]] /\ DOMAIN DataOf(d) \subseteq Key
         /\ DueOf(d) = [x \in DOMAIN DueOf(d) |-> DueOf(d)[x]] /\ DOMAIN DueOf(d) \subseteq Key
<1>1. DataOf(d) = [x \in DOMAIN DataOf(d) |-> DataOf(d)[x]] /\ DOMAIN DataOf(d) \subseteq Key
  BY DEF DataOf, LiveOf
<1>2. DueOf(d) = [x \in DOMAIN DueOf(d) |-> DueOf(d)[x]]  BY DEF DueOf, Without, Restrict
<1> QED  BY <1>1, <1>2, DueIs

(* Clients do not see an expired key go. *)
LEMMA SeenAlike ==
  ASSUME NEW d, NEW e, DOMAIN d.expirations \subseteq Key, DOMAIN e.expirations \subseteq Key,
         \A j \in Key : Alike(d, e, j) \/ (j \in Expired(d) /\ Absent(e, j))
  PROVE  SameView(d, e)
<1>1. ASSUME NEW j \in Key
      PROVE  /\ j \in DOMAIN DataOf(d) <=> j \in DOMAIN DataOf(e)
             /\ j \in DOMAIN DataOf(d) => DataOf(e)[j] = DataOf(d)[j]
             /\ j \in DOMAIN DueOf(d) <=> j \in DOMAIN DueOf(e)
             /\ j \in DOMAIN DueOf(d) => DueOf(e)[j] = DueOf(d)[j]
  <2>1. CASE Alike(d, e, j)  BY <2>1, AlikeSeen
  <2>2. CASE j \in Expired(d) /\ Absent(e, j)
    <3>1. j \notin DOMAIN e.expirations /\ ~Has(e, j)  BY <2>2 DEF Absent, Dictionary, Has
    <3>2. j \notin DOMAIN DataOf(e) /\ j \notin DOMAIN DataOf(d)  BY <2>2, <3>1, NoDataIs
    <3>3. j \notin DOMAIN DueOf(e) /\ j \notin DOMAIN DueOf(d)  BY <2>2, <3>1, DueIs
    <3> QED  BY <3>2, <3>3
  <2> QED  BY <2>1, <2>2
<1>2. DataOf(d) = DataOf(e)
  <2>1. \A j \in Key : /\ j \in DOMAIN DataOf(d) <=> j \in DOMAIN DataOf(e)
                       /\ j \in DOMAIN DataOf(d) => DataOf(e)[j] = DataOf(d)[j]
    BY <1>1
  <2> QED  BY <2>1, SeenFunctions, SameFunctions
<1>3. DueOf(d) = DueOf(e)
  <2>1. \A j \in Key : /\ j \in DOMAIN DueOf(d) <=> j \in DOMAIN DueOf(e)
                       /\ j \in DOMAIN DueOf(d) => DueOf(e)[j] = DueOf(d)[j]
    BY <1>1
  <2> QED  BY <2>1, SeenFunctions, SameFunctions
<1> QED  BY <1>2, <1>3 DEF SameView

(* The state a command works on: what is seen is that of redis, and the keys *)
(* of K are seen if they are there.                                         *)
Purged(d, K) == Sound(d) /\ SameView(redis, d) /\ \A k \in K : k \notin Expired(d)

LEMMA PurgeIs == ASSUME RedisInv, NEW K PROVE Purged(Purge(redis, K), K)
<1>1. PICK d, e, S : d = redis /\ S = Expired(d) \cap K /\ e = Delete(d, S) /\ e = Purge(redis, K)
  BY DEF Purge
<1>2. Sound(d) /\ Sound(e)  BY <1>1, PurgeSound DEF RedisInv
<1>3. DOMAIN d = Dictionary  BY <1>2 DEF Sound, Shape
<1>4. \A u \in Dictionary : /\ DOMAIN e[u] = DOMAIN d[u] \ S
                            /\ \A j \in DOMAIN d[u] : j \notin S => e[u][j] = d[u][j]
  <2>1. e = Delete(d, S)  BY <1>1
  <2> QED  BY <2>1, <1>3, DeleteIs
<1>5. ASSUME NEW j \in Key PROVE Alike(d, e, j) \/ (j \in Expired(d) /\ Absent(e, j))
  <2>1. CASE j \in S  BY <1>1, <1>4, <2>1 DEF Absent
  <2>2. CASE j \notin S  BY <1>4, <2>2 DEF Alike
  <2> QED  BY <2>1, <2>2
<1>6. SameView(d, e)
  <2>1. DOMAIN d.expirations \subseteq Key /\ DOMAIN e.expirations \subseteq Key  BY <1>2, SoundKeys
  <2> QED  BY <2>1, <1>5, SeenAlike
<1>7. ASSUME NEW k \in K PROVE k \notin Expired(e)
  <2>1. /\ DOMAIN e.expirations = DOMAIN d.expirations \ S
        /\ \A j \in DOMAIN d.expirations : j \notin S => e.expirations[j] = d.expirations[j]
    BY <1>4 DEF Dictionary
  <2> QED  BY <2>1, <1>1 DEF Expired
<1> QED  BY <1>1, <1>2, <1>6, <1>7 DEF Purged

LEMMA OneVisit ==
  ASSUME RedisInv, NEW k \in Key, NEW t, NEW v, v = Visit(<<k>>, t)
  PROVE  /\ Purged(v.db, {k})
         /\ v.ok <=> ~Wrong(v.db, k, t)
<1>1. PICK ks : ks = <<k>>  OBVIOUS
<1>2. DOMAIN ks = {1} /\ ks[1] = k /\ Len(ks) = 1  BY <1>1
<1>3. PICK wrong, last :
        /\ wrong = {i \in DOMAIN ks : Wrong(Purge(redis, {ks[i]}), ks[i], t)}
        /\ last = IF wrong = {} THEN Len(ks) ELSE Min(wrong)
        /\ v = [db |-> Purge(redis, Range(SubSeq(ks, 1, last))), ok |-> wrong = {}]
  BY <1>1 DEF Visit
<1>4. last = 1
  <2>1. CASE wrong = {}  BY <2>1, <1>2, <1>3
  <2>2. CASE wrong # {}
    <3>1. wrong \in SUBSET Nat /\ wrong \subseteq {1}  BY <1>2, <1>3
    <3>2. Min(wrong) \in wrong  BY <2>2, <3>1, MinIs
    <3> QED  BY <2>2, <3>1, <3>2, <1>3
  <2> QED  BY <2>1, <2>2
<1>5. Range(SubSeq(ks, 1, 1)) = {k}
  <2>1. SubSeq(ks, 1, 1) = [i \in 1 .. 1 |-> ks[i]]  BY <1>2
  <2>2. 1 .. 1 = {1}  OBVIOUS
  <2> QED  BY <2>1, <2>2, <1>2 DEF Range
<1>6. v.db = Purge(redis, {k}) /\ (v.ok <=> wrong = {})
  <2>0. PICK d, b : v = [db |-> d, ok |-> b] /\ d = Purge(redis, Range(SubSeq(ks, 1, last))) /\ b = (wrong = {})
    BY <1>3
  <2>1. v.db = Purge(redis, Range(SubSeq(ks, 1, last))) /\ v.ok = (wrong = {})  BY <2>0
  <2>2. v.db = Purge(redis, {k})  BY <2>1, <1>4, <1>5
  <2> QED  BY <2>1, <2>2
<1>7. wrong = {} <=> ~Wrong(Purge(redis, {k}), k, t)  BY <1>2, <1>3
<1> QED  BY <1>6, <1>7, PurgeIs

LEMMA ManyVisits ==
  ASSUME RedisInv, NEW ks, NEW n \in Nat, ks \in [1 .. n -> Key], NEW t, NEW v, v = Visit(ks, t)
  PROVE  /\ Purged(v.db, {})
         /\ v.ok => Purged(v.db, Range(ks))
<1>1. PICK wrong, last :
        /\ last = IF wrong = {} THEN Len(ks) ELSE Min(wrong)
        /\ v = [db |-> Purge(redis, Range(SubSeq(ks, 1, last))), ok |-> wrong = {}]
  BY DEF Visit
<1>2. PICK K : v.db = Purge(redis, K) /\ (v.ok => K = Range(SubSeq(ks, 1, Len(ks))))
  <2>0. PICK d, b : v = [db |-> d, ok |-> b] /\ d = Purge(redis, Range(SubSeq(ks, 1, last))) /\ b = (wrong = {})
    BY <1>1
  <2>1. v.db = Purge(redis, Range(SubSeq(ks, 1, last))) /\ v.ok = (wrong = {})  BY <2>0
  <2>2. wrong = {} => last = Len(ks)  BY <1>1
  <2>3. PICK K : K = Range(SubSeq(ks, 1, last))  OBVIOUS
  <2>4. v.db = Purge(redis, K)  BY <2>1, <2>3
  <2>5. v.ok => K = Range(SubSeq(ks, 1, Len(ks)))  BY <2>1, <2>2, <2>3
  <2> QED  BY <2>4, <2>5
<1>3. Range(SubSeq(ks, 1, Len(ks))) = Range(ks)
  <2>1. Len(ks) = n /\ DOMAIN ks = 1 .. n /\ ks \in Seq(Key)  OBVIOUS
  <2>2. SubSeq(ks, 1, n) = [i \in 1 .. n |-> ks[i]]  BY <2>1
  <2>3. SubSeq(ks, 1, n) = ks  BY <2>1, <2>2
  <2> QED  BY <2>1, <2>3
<1>4. Purged(v.db, K)  BY <1>2, PurgeIs
<1> QED  BY <1>2, <1>3, <1>4 DEF Purged

-----------------------------------------------------------------------------
(* Commands that change nothing clients see. *)
LEMMA NothingSeen ==
  ASSUME NEW d, SameView(redis, d), redis' = d, reply' \in {"none", "refused"}
  PROVE  KeyStore!StoreNext
<1>1. KeyStore!Same  BY SeenIs DEF SameView, KeyStore!Same
<1> QED  BY <1>1 DEF KeyStore!StoreNext

LEMMA ValueSeen ==
  ASSUME NEW d, NEW K, Purged(d, K), redis' = d, reply' = "value", NEW k \in Key \cap K, Has(d, k)
  PROVE  KeyStore!StoreNext
<1>1. KeyStore!Same  BY SeenIs DEF Purged, SameView, KeyStore!Same
<1>2. k \in DOMAIN DataOf(d)  BY DEF Purged, DataOf, LiveOf
<1>3. DOMAIN LiveData # {}  BY <1>2, SeenIs DEF Purged, SameView
<1> QED  BY <1>1, <1>3 DEF KeyStore!StoreNext

(* What is seen before and after a command that left e of d. *)
LEMMA SeenBefore ==
  ASSUME NEW d, SameView(redis, d)
  PROVE  LiveData = DataOf(d) /\ Without(redis.expirations, Expired(redis)) = DueOf(d)
BY SeenIs DEF SameView

LEMMA SeenAfter ==
  ASSUME NEW e, redis' = e
  PROVE  LiveData' = DataOf(e) /\ Without(redis.expirations, Expired(redis))' = DueOf(e)
BY SeenIs

LEMMA SameBut ==
  ASSUME NEW S, NEW f, NEW g, NEW K, DOMAIN f \subseteq S, DOMAIN g \subseteq S,
         \A x \in S \ K : (x \in DOMAIN f <=> x \in DOMAIN g) /\ (x \in DOMAIN f => g[x] = f[x])
  PROVE  KeyStore!Drop(g, K) = KeyStore!Drop(f, K)
<1>1. KeyStore!Drop(f, K) = [x \in DOMAIN f \cap (DOMAIN f \ K) |-> f[x]]
  BY DEF KeyStore!Drop, KeyStore!Restrict
<1>2. KeyStore!Drop(g, K) = [x \in DOMAIN g \cap (DOMAIN g \ K) |-> g[x]]
  BY DEF KeyStore!Drop, KeyStore!Restrict
<1>3. DOMAIN f \cap (DOMAIN f \ K) = DOMAIN g \cap (DOMAIN g \ K)  OBVIOUS
<1>4. \A x \in DOMAIN f \cap (DOMAIN f \ K) : g[x] = f[x]  OBVIOUS
<1> QED  BY <1>1, <1>2, <1>3, <1>4

(* A command that leaves all other keys alone is one on the keys of K. *)
LEMMA AgreeOnly ==
  ASSUME NEW d, Sound(d), SameView(redis, d), NEW e, Sound(e), redis' = e, NEW K, Agree(d, e, K)
  PROVE  KeyStore!OnlyKeys(K)
<1>1. DOMAIN d.expirations \subseteq Key /\ DOMAIN e.expirations \subseteq Key  BY SoundKeys
<1>2. \A j \in Key \ K : /\ j \in DOMAIN DataOf(d) <=> j \in DOMAIN DataOf(e)
                         /\ j \in DOMAIN DataOf(d) => DataOf(e)[j] = DataOf(d)[j]
                         /\ j \in DOMAIN DueOf(d) <=> j \in DOMAIN DueOf(e)
                         /\ j \in DOMAIN DueOf(d) => DueOf(e)[j] = DueOf(d)[j]
  BY AlikeSeen DEF Agree
<1>3. /\ DOMAIN DataOf(d) \subseteq Key /\ DOMAIN DataOf(e) \subseteq Key
      /\ DOMAIN DueOf(d) \subseteq Key /\ DOMAIN DueOf(e) \subseteq Key
  BY <1>1, SeenFunctions
<1>4. KeyStore!Drop(DataOf(e), K) = KeyStore!Drop(DataOf(d), K)  BY <1>2, <1>3, SameBut
<1>5. KeyStore!Drop(DueOf(e), K) = KeyStore!Drop(DueOf(d), K)  BY <1>2, <1>3, SameBut
<1> QED  BY <1>4, <1>5, SeenBefore, SeenAfter DEF KeyStore!OnlyKeys

(* The elements of a content. *)
Members(t, c) == IF t = "set" THEN c ELSE IF t = "store" THEN {c} ELSE Range(c)

LEMMA ElementsAre ==
  ASSUME NEW f, NEW k \in DOMAIN f, NEW t \in Type, NEW c, f[k] = [u \in {t} |-> c]
  PROVE  KeyStore!TypeOf(f, k) = {t} /\ KeyStore!Elements(f, k) = Members(t, c)
<1>1. KeyStore!TypeOf(f, k) = {t} /\ f[k][t] = c  BY DEF KeyStore!TypeOf
<1>2. KeyStore!Elements(f, k) =
        UNION {CASE u = "set"   -> f[k][u]
                 [] u = "list"  -> Range(f[k][u])
                 [] u = "hash"  -> Range(f[k][u])
                 [] u = "store" -> {f[k][u]} : u \in {t}}
  BY <1>1 DEF KeyStore!Elements, KeyStore!Range, Range
<1>3. PICK g : g = CASE t = "set"   -> f[k][t]
                     [] t = "list"  -> Range(f[k][t])
                     [] t = "hash"  -> Range(f[k][t])
                     [] t = "store" -> {f[k][t]}
  OBVIOUS
<1>5. {CASE u = "set"   -> f[k][u]
         [] u = "list"  -> Range(f[k][u])
         [] u = "hash"  -> Range(f[k][u])
         [] u = "store" -> {f[k][u]} : u \in {t}} = {g}
  BY <1>3
<1>6. KeyStore!Elements(f, k) = g  BY <1>2, <1>5
<1>4. KeyStore!Elements(f, k) = Members(t, c)  BY <1>1, <1>3, <1>6 DEF Members, Type
<1> QED  BY <1>1, <1>4

LEMMA NoElements == ASSUME NEW f, NEW k, k \notin DOMAIN f PROVE KeyStore!Elements(f, k) = {}
BY DEF KeyStore!Elements

LEMMA KeyIs ==
  ASSUME NEW d, Sound(d), NEW k \in Key, k \notin Expired(d), NEW t \in Type, k \in DOMAIN d[t]
  PROVE  /\ k \in DOMAIN DataOf(d)
         /\ KeyStore!TypeOf(DataOf(d), k) = {t}
         /\ KeyStore!Elements(DataOf(d), k) = Members(t, d[t][k])
<1>1. k \in DOMAIN DataOf(d) /\ DataOf(d)[k] = [u \in {t} |-> d[t][k]]  BY DataIs DEF Sound
<1> QED  BY <1>1, ElementsAre

LEMMA KeyIsNot ==
  ASSUME NEW d, NEW k, ~Has(d, k) PROVE k \notin DOMAIN DataOf(d) /\ KeyStore!Elements(DataOf(d), k) = {}
BY NoDataIs, NoElements

LEMMA SeenHas == ASSUME NEW d, NEW k \in DOMAIN DataOf(d) PROVE k \in Key /\ Has(d, k) /\ k \notin Expired(d)
BY DEF DataOf, LiveOf

(* What is written and deleted, key by key. *)
LEMMA AlikeStays == ASSUME NEW d, NEW j PROVE Alike(d, d, j)
BY DEF Alike

LEMMA PutAgrees ==
  ASSUME NEW d, DOMAIN d = Dictionary, NEW t \in Dictionary, NEW k, NEW c, NEW e, e = Put(d, t, k, c), NEW j, j # k
  PROVE  Alike(d, e, j)
<1>1. /\ \A u \in Dictionary : u # t => e[u] = d[u]
      /\ DOMAIN e[t] = DOMAIN d[t] \cup {k}
      /\ \A i \in DOMAIN d[t] : i # k => e[t][i] = d[t][i]
  BY PutIs
<1> QED  BY <1>1 DEF Alike

LEMMA DeleteAgrees ==
  ASSUME NEW d, DOMAIN d = Dictionary, NEW K, NEW e, e = Delete(d, K), NEW j, j \notin K
  PROVE  Alike(d, e, j)
<1>1. \A u \in Dictionary : /\ DOMAIN e[u] = DOMAIN d[u] \ K
                            /\ \A i \in DOMAIN d[u] : i \notin K => e[u][i] = d[u][i]
  BY DeleteIs
<1> QED  BY <1>1 DEF Alike

LEMMA DeleteGone ==
  ASSUME NEW d, DOMAIN d = Dictionary, NEW K, NEW e, e = Delete(d, K), NEW j \in K
  PROVE  Absent(e, j)
<1>1. \A u \in Dictionary : DOMAIN e[u] = DOMAIN d[u] \ K  BY DeleteIs
<1> QED  BY <1>1 DEF Absent

LEMMA AlikeChain == ASSUME NEW d, NEW e, NEW f, NEW j, Alike(d, e, j), Alike(e, f, j) PROVE Alike(d, f, j)
BY DEF Alike

LEMMA GoneIs == ASSUME NEW e, NEW j, Absent(e, j)
  PROVE ~Has(e, j) /\ j \notin DOMAIN e.expirations /\ j \notin DOMAIN DataOf(e) /\ j \notin DOMAIN DueOf(e)
<1>1. ~Has(e, j) /\ j \notin DOMAIN e.expirations  BY DEF Absent, Has, Dictionary
<1> QED  BY <1>1, NoDataIs, DueIs

LEMMA SetKeyIs ==
  ASSUME NEW d, Sound(d), NEW t \in Type, NEW k \in Key, NEW c, NEW clear \in BOOLEAN, Fits(d, t, k, c),
         NEW e, e = SetKey(d, t, k, c, clear)
  PROVE  /\ \A j : j # k => Alike(d, e, j)
         /\ t # "store" /\ c = Nothing(t) => ~Has(e, k)
         /\ ~(t # "store" /\ c = Nothing(t)) => k \in DOMAIN e[t] /\ e[t][k] = c
         /\ clear => k \notin DOMAIN e.expirations
         /\ ~clear => e.expirations = d.expirations
<1>1. DOMAIN d = Dictionary  BY DEF Sound, Shape
<1>2. PICK o : o = [u \in DOMAIN d |-> IF u \in (IF clear THEN {} ELSE {"expirations"})
                                        THEN d[u] ELSE Without(d[u], {k})]
  OBVIOUS
<1>3. DOMAIN o = Dictionary  BY <1>1, <1>2
<1>4. \A u \in Type : o[u] = Without(d[u], {k})  BY <1>1, <1>2 DEF Dictionary, Type
<1>5. o.expirations = IF clear THEN Without(d.expirations, {k}) ELSE d.expirations
  BY <1>1, <1>2 DEF Dictionary
<1>6. e = IF t # "store" /\ c = Nothing(t) THEN o ELSE Put(o, t, k, c)
  BY <1>2 DEF SetKey
<1>7. \A u \in Dictionary : o[u] = d[u] \/ o[u] = Without(d[u], {k})  BY <1>4, <1>5 DEF Dictionary
<1>8. ASSUME NEW j, j # k PROVE Alike(d, o, j)
  <2> SUFFICES ASSUME NEW u \in Dictionary
               PROVE  /\ j \in DOMAIN d[u] <=> j \in DOMAIN o[u]
                      /\ j \in DOMAIN d[u] => o[u][j] = d[u][j]
    BY DEF Alike
  <2> QED  BY <1>7, <1>8 DEF Without, Restrict
<1>9. ~Has(o, k)  BY <1>4 DEF Has, Without, Restrict
<1>10. clear => k \notin DOMAIN o.expirations  BY <1>5 DEF Without, Restrict
<1>11. CASE t # "store" /\ c = Nothing(t)  BY <1>5, <1>6, <1>8, <1>9, <1>10, <1>11
<1>12. CASE ~(t # "store" /\ c = Nothing(t))
  <2>1. e = Put(o, t, k, c) /\ t \in Dictionary /\ t # "expirations"  BY <1>6, <1>12 DEF Dictionary, Type
  <2>2. e.expirations = o.expirations /\ k \in DOMAIN e[t] /\ e[t][k] = c
    <3>1. /\ \A u \in Dictionary : u # t => e[u] = o[u]
          /\ DOMAIN e[t] = DOMAIN o[t] \cup {k} /\ e[t][k] = c
      BY <2>1, <1>3, PutIs
    <3> QED  BY <3>1, <2>1 DEF Dictionary
  <2>3. \A j : j # k => Alike(d, e, j)
    <3>1. \A j : j # k => Alike(o, e, j)  BY <2>1, <1>3, PutAgrees
    <3> QED  BY <3>1, <1>8, AlikeChain
  <2> QED  BY <2>2, <2>3, <1>5, <1>10, <1>12
<1> QED  BY <1>11, <1>12

(* Commands that write a value and keep the deadline. *)
LEMMA UpdateIs ==
  ASSUME RedisInv', NEW d, NEW k \in Key, Purged(d, {k}), NEW t \in Type, ~Wrong(d, k, t),
         NEW c, t = "store" \/ c # Nothing(t), Commit(d, t, k, c, "updated")
  PROVE  KeyStore!StoreNext
<1>1. Sound(d) /\ SameView(redis, d) /\ k \notin Expired(d)  BY DEF Purged
<1>2. CASE ~Fits(d, t, k, c)
  <2>1. redis' = d /\ reply' = "refused"  BY <1>2 DEF Commit, Answer
  <2> QED  BY <1>1, <2>1, NothingSeen
<1>3. CASE Fits(d, t, k, c)
  <2>1. PICK e : e = SetKey(d, t, k, c, FALSE)  OBVIOUS
  <2>2. redis' = e /\ reply' = "updated"
    <3>1. ("updated" = "replaced") = FALSE  OBVIOUS
    <3>2. Answer(SetKey(d, t, k, c, "updated" = "replaced"), "updated")  BY <1>3 DEF Commit
    <3> QED  BY <2>1, <3>1, <3>2 DEF Answer
  <2>3. Sound(e)  BY <2>2 DEF RedisInv
  <2>4. /\ \A j : j # k => Alike(d, e, j)
        /\ k \in DOMAIN e[t] /\ e.expirations = d.expirations
    <3>1. PICK clear \in BOOLEAN : clear = FALSE  OBVIOUS
    <3>2. e = SetKey(d, t, k, c, clear)  BY <2>1, <3>1
    <3> QED  BY <1>1, <1>3, <3>1, <3>2, SetKeyIs
  <2>5. KeyStore!OnlyKeys({k})
    <3>1. Agree(d, e, {k})  BY <2>4 DEF Agree
    <3> QED  BY <3>1, <1>1, <2>2, <2>3, AgreeOnly
  <2>6. Expired(e) = Expired(d) /\ DueOf(e) = DueOf(d)  BY <2>4 DEF Expired, DueOf
  <2>7. k \in DOMAIN DataOf(e) /\ KeyStore!TypeOf(DataOf(e), k) = {t}  BY <1>1, <2>3, <2>4, <2>6, KeyIs
  <2>8. ASSUME k \in DOMAIN DataOf(d) PROVE KeyStore!TypeOf(DataOf(d), k) = {t}
    <3>1. Has(d, k)  BY <2>8, SeenHas
    <3>2. k \in DOMAIN d[t]  BY <3>1 DEF Has, Wrong
    <3> QED  BY <3>2, <1>1, KeyIs
  <2>9. KeyStore!Update(k)
    <3>1. LiveData = DataOf(d) /\ Without(redis.expirations, Expired(redis)) = DueOf(d)  BY <1>1, SeenBefore
    <3>2. LiveData' = DataOf(e) /\ Without(redis.expirations, Expired(redis))' = DueOf(e)  BY <2>2, SeenAfter
    <3> QED  BY <3>1, <3>2, <2>5, <2>6, <2>7, <2>8 DEF KeyStore!Update
  <2> QED  BY <2>2, <2>9 DEF KeyStore!StoreNext
<1> QED  BY <1>2, <1>3

-----------------------------------------------------------------------------
(* What commands on one key do: nothing, or write what it is to hold. *)
Idles(k) == \E t : \E r \in {"none", "refused"} : Answer(Visit(<<k>>, t).db, r)

MayHold(t, c) == ContentOK(t, c) /\ (t = "store" \/ c # Nothing(t))

Updates(k) ==
  \E t \in Type : \E d, c :
     d = Visit(<<k>>, t).db /\ ~Wrong(d, k, t) /\ MayHold(t, c) /\ Commit(d, t, k, c, "updated")

LEMMA OnKeyDoes ==
  ASSUME RedisInv, NEW k \in Key, NEW t \in Type, NEW v, v = Visit(<<k>>, t), NEW c,
         \/ \E r \in {"none", "refused"} : Answer(v.db, r)
         \/ v.ok /\ MayHold(t, c) /\ Commit(v.db, t, k, c, "updated")
  PROVE  Idles(k) \/ Updates(k)
<1>1. v.ok => ~Wrong(v.db, k, t)  BY OneVisit
<1>2. CASE \E r \in {"none", "refused"} : Answer(v.db, r)  BY <1>2 DEF Idles
<1>3. CASE v.ok /\ MayHold(t, c) /\ Commit(v.db, t, k, c, "updated")
  <2>1. PICK d : d = v.db  OBVIOUS
  <2>2. d = Visit(<<k>>, t).db /\ ~Wrong(d, k, t) /\ MayHold(t, c) /\ Commit(d, t, k, c, "updated")
    BY <1>1, <1>3, <2>1
  <2>3. Updates(k)  BY <2>2 DEF Updates
  <2> QED  BY <2>3
<1> QED  BY <1>2, <1>3

LEMMA IdlesOrUpdatesSound == ASSUME RedisInv, NEW k \in Key, Idles(k) \/ Updates(k) PROVE RedisInv'
<1>1. CASE Idles(k)  BY <1>1, VisitSound, AnswerSound DEF Idles
<1>2. CASE Updates(k)
  <2>1. PICK t \in Type : \E d, c :
          d = Visit(<<k>>, t).db /\ ~Wrong(d, k, t) /\ MayHold(t, c) /\ Commit(d, t, k, c, "updated")
    BY <1>2 DEF Updates
  <2>2. PICK d, c : d = Visit(<<k>>, t).db /\ MayHold(t, c) /\ Commit(d, t, k, c, "updated")  BY <2>1
  <2>3. Sound(d)  BY <2>2, VisitSound
  <2> QED  BY <2>2, <2>3, CommitSound DEF MayHold
<1> QED  BY <1>1, <1>2

LEMMA IdlesRefines == ASSUME RedisInv, NEW k \in Key, Idles(k) PROVE KeyStore!StoreNext
<1>1. PICK t, r : r \in {"none", "refused"} /\ Answer(Visit(<<k>>, t).db, r)  BY DEF Idles
<1>2. PICK v : v = Visit(<<k>>, t)  OBVIOUS
<1>3. SameView(redis, v.db)  BY <1>2, OneVisit DEF Purged
<1>4. redis' = v.db /\ reply' = r  BY <1>1, <1>2 DEF Answer
<1> QED  BY <1>1, <1>3, <1>4, NothingSeen

LEMMA UpdatesRefines == ASSUME RedisInv, RedisInv', NEW k \in Key, Updates(k) PROVE KeyStore!StoreNext
<1>1. PICK t \in Type : \E d, c :
        d = Visit(<<k>>, t).db /\ ~Wrong(d, k, t) /\ MayHold(t, c) /\ Commit(d, t, k, c, "updated")
  BY DEF Updates
<1>2. PICK d, c :
        d = Visit(<<k>>, t).db /\ ~Wrong(d, k, t) /\ MayHold(t, c) /\ Commit(d, t, k, c, "updated")
  BY <1>1
<1>3. PICK v : v = Visit(<<k>>, t)  OBVIOUS
<1>4. Purged(d, {k})  BY <1>2, <1>3, OneVisit
<1> QED  BY <1>2, <1>4, UpdateIs DEF MayHold

-----------------------------------------------------------------------------
(* Strings. *)
LEMMA SetSound == ASSUME RedisInv, NEW k \in Key, NEW v \in Value, Set(k, v) PROVE RedisInv'
<1>1. Sound(Purge(redis, {k}))  BY PurgeSound DEF RedisInv
<1>2. ContentOK("store", v) /\ "store" \in Type  BY StringOK DEF Type
<1>3. Commit(Purge(redis, {k}), "store", k, v, "replaced")  BY DEF Set
<1> QED  BY <1>1, <1>2, <1>3, CommitSound

LEMMA IncrDoes == ASSUME RedisInv, NEW k \in Key, Incr(k) PROVE Idles(k) \/ Updates(k)
<1>1. PICK v : v = Visit(<<k>>, "store")  OBVIOUS
<1>2. Sound(v.db) /\ "store" \in Type  BY <1>1, VisitSound DEF Type
<1>3. PICK n : n = IF k \in DOMAIN v.db.store THEN v.db.store[k] ELSE 0  OBVIOUS
<1>4. Answer(v.db, "refused") \/ (v.ok /\ n \notin Text /\ Commit(v.db, "store", k, n + 1, "updated"))
  BY <1>1, <1>3 DEF Incr, OnKey
<1>5. ASSUME n \notin Text PROVE MayHold("store", n + 1)
  <2>1. k \in DOMAIN v.db.store => v.db.store[k] \in Val  BY <1>2 DEF Sound, Shape, ContentOK
  <2>2. n \in Nat  BY <2>1, <1>3, <1>5 DEF Val
  <2> QED  BY <2>2 DEF MayHold, ContentOK, Val
<1> QED  BY <1>1, <1>2, <1>4, <1>5, OnKeyDoes

(* MSET writes key by key. *)
Next1(e, ks, value, i) == SetKey(e, "store", ks[i], value[ks[i]], TRUE)

Written(f, n, d, ks, value) ==
  f = [i \in 0 .. n |-> IF i = 0 THEN d ELSE Next1(f[i - 1], ks, value, i)]

LEMMA WrittenExists ==
  ASSUME NEW d, NEW ks, NEW value, NEW n \in Nat
  PROVE  \E f : Written(f, n, d, ks, value)
<1> DEFINE S == {m \in Nat : ~ \E f : Written(f, m, d, ks, value)}
<1> SUFFICES ASSUME S # {} PROVE FALSE  OBVIOUS
<1>1. PICK m \in S : \A j \in S : m <= j  BY LeastOf, Zenon
<1>2. m \in Nat  OBVIOUS
<1>3. CASE m = 0
  <2>1. Written([i \in 0 .. 0 |-> d], 0, d, ks, value)  BY DEF Written
  <2> QED  BY <1>3, <2>1
<1>4. CASE m # 0
  <2>1. m - 1 \in Nat /\ ~(m <= m - 1)  BY <1>2, <1>4
  <2>2. PICK f : Written(f, m - 1, d, ks, value)  BY <1>1, <2>1
  <2> DEFINE g == [i \in 0 .. m |-> IF i = m THEN Next1(f[m - 1], ks, value, m) ELSE f[i]]
             h == [i \in 0 .. m |-> IF i = 0 THEN d ELSE Next1(g[i - 1], ks, value, i)]
  <2>3. ASSUME NEW i \in 0 .. m PROVE g[i] = h[i]
    <3>1. CASE i = 0
      <4>1. g[i] = f[i] /\ 0 \in 0 .. m - 1  BY <3>1, <1>2, <1>4
      <4>2. f[0] = d  BY <2>2, <4>1 DEF Written
      <4> QED  BY <3>1, <4>1, <4>2
    <3>2. CASE i = m
      <4>1. m - 1 \in 0 .. m /\ m - 1 # m  BY <1>2, <2>1
      <4>2. g[m - 1] = f[m - 1]  BY <4>1
      <4> QED  BY <3>2, <4>2, <1>4
    <3>3. CASE i # 0 /\ i # m
      <4>1. i \in 0 .. m - 1 /\ i - 1 \in 0 .. m /\ i - 1 # m  BY <3>3, <1>2
      <4>2. g[i - 1] = f[i - 1] /\ g[i] = f[i]  BY <3>3, <4>1
      <4>3. f[i] = Next1(f[i - 1], ks, value, i)  BY <3>3, <2>2, <4>1 DEF Written
      <4> QED  BY <3>3, <4>2, <4>3
    <3> QED  BY <3>1, <3>2, <3>3
  <2>4. g = h  BY <2>3
  <2>5. Written(g, m, d, ks, value)  BY <2>4 DEF Written
  <2> QED  BY <2>5
<1> QED  BY <1>3, <1>4

LEMMA SetKeysIs ==
  ASSUME NEW d, NEW ks, Len(ks) \in Nat, NEW value
  PROVE  \E f : Written(f, Len(ks), d, ks, value) /\ SetKeys(d, ks, value) = f[Len(ks)]
<1> DEFINE after == CHOOSE g : g = [i \in 0 .. Len(ks) |->
                      IF i = 0 THEN d ELSE SetKey(g[i - 1], "store", ks[i], value[ks[i]], TRUE)]
<1>1. SetKeys(d, ks, value) = after[Len(ks)]  BY DEF SetKeys
<1>2. \E g : g = [i \in 0 .. Len(ks) |->
               IF i = 0 THEN d ELSE SetKey(g[i - 1], "store", ks[i], value[ks[i]], TRUE)]
  <2>1. \E g : Written(g, Len(ks), d, ks, value)  BY WrittenExists
  <2> QED  BY <2>1, Zenon DEF Written, Next1
<1>3. Written(after, Len(ks), d, ks, value)  BY <1>2, Zenon DEF Written, Next1
<1> QED  BY <1>1, <1>3

LEMMA SetKeysSound ==
  ASSUME NEW d, Sound(d), NEW ks \in Seq(Key), NEW value, \A i \in DOMAIN ks : value[ks[i]] \in Value
  PROVE  Sound(SetKeys(d, ks, value))
<1>1. Len(ks) \in Nat /\ DOMAIN ks = 1 .. Len(ks)  OBVIOUS
<1>2. PICK f : Written(f, Len(ks), d, ks, value) /\ SetKeys(d, ks, value) = f[Len(ks)]
  BY <1>1, SetKeysIs
<1> DEFINE S == {m \in 0 .. Len(ks) : Sound(f[m])}
<1>3. 0 \in S  BY <1>1, <1>2 DEF Written
<1>4. ASSUME NEW m \in 1 .. Len(ks), m - 1 \in S PROVE m \in S
  <2>1. m \in DOMAIN ks /\ m # 0 /\ m \in 0 .. Len(ks)  BY <1>1
  <2>2. f[m] = SetKey(f[m - 1], "store", ks[m], value[ks[m]], TRUE)
    BY <2>1, <1>2 DEF Written, Next1
  <2>3. Sound(f[m - 1]) /\ ks[m] \in Key /\ ContentOK("store", value[ks[m]]) /\ "store" \in Type
    BY <1>4, <2>1, StringOK DEF Type
  <2>4. Sound(SetKey(f[m - 1], "store", ks[m], value[ks[m]], TRUE))  BY <2>3, SetKeySound
  <2> QED  BY <2>1, <2>2, <2>4
<1> HIDE DEF S
<1>5. 0 .. Len(ks) \subseteq S  BY <1>1, <1>3, <1>4, Steps
<1>6. Sound(f[Len(ks)])  BY <1>1, <1>5 DEF S
<1> QED  BY <1>2, <1>6

LEMMA KeysAre == ASSUME NEW ks \in Keys PROVE ks \in Seq(Key) /\ DOMAIN ks = 1 .. Len(ks) /\ Len(ks) \in 1 .. MaxArgs
BY RedisAssumption DEF Keys, RedisAssumption

LEMMA MSetSound ==
  ASSUME RedisInv, NEW ks \in Keys, NEW value \in [Range(ks) -> Value], MSet(ks, value)
  PROVE  RedisInv'
<1>1. PICK d : d = Purge(redis, Range(ks))  OBVIOUS
<1>2. Sound(d)  BY <1>1, PurgeSound DEF RedisInv
<1>3. ks \in Seq(Key)  BY KeysAre
<1>4. \A i \in DOMAIN ks : value[ks[i]] \in Value  BY DEF Range
<1>5. Sound(SetKeys(d, ks, value))  BY <1>2, <1>3, <1>4, SetKeysSound
<1>6. Answer(SetKeys(d, ks, value), "replaced") \/ Answer(d, "refused")  BY <1>1 DEF MSet
<1> QED  BY <1>2, <1>5, <1>6, AnswerSound

-----------------------------------------------------------------------------
(* Hashes. *)
LEMMA MergedIs ==
  ASSUME NEW f, NEW g
  PROVE  /\ DOMAIN Merged(f, g) = DOMAIN f \cup DOMAIN g
         /\ \A x \in DOMAIN g : Merged(f, g)[x] = g[x]
         /\ \A x \in DOMAIN f : x \notin DOMAIN g => Merged(f, g)[x] = f[x]
BY DEF Merged

LEMMA HSetDoes ==
  ASSUME RedisInv, NEW k \in Key, NEW F \in (SUBSET Field) \ {{}}, NEW fields \in [F -> Value], HSet(k, fields)
  PROVE  Idles(k) \/ Updates(k)
<1>1. PICK v : v = Visit(<<k>>, "hash")  OBVIOUS
<1>2. Sound(v.db)  BY <1>1, VisitSound
<1>3. PICK old, new : old = Get(v.db, "hash", k) /\ new = Merged(old, fields)  OBVIOUS
<1>4. Answer(v.db, "refused") \/ (v.ok /\ Commit(v.db, "hash", k, new, "updated"))
  BY <1>1, <1>3 DEF HSet, OnKey
<1>5. "hash" \in Type \ {"store"}  BY DEF Type
<1>6. ContentOK("hash", old)  BY <1>2, <1>3, <1>5, GetOK
<1>7. DOMAIN new = DOMAIN old \cup F /\ \A x \in DOMAIN new : new[x] \in Val
  <2>1. DOMAIN fields = F /\ \A x \in F : fields[x] \in Val  BY ValuesAreVals
  <2>2. \A x \in DOMAIN old : old[x] \in Val  BY <1>6 DEF ContentOK
  <2> QED  BY <1>3, <2>1, <2>2 DEF Merged
<1>8. DOMAIN << >> = {}  OBVIOUS
<1>9. MayHold("hash", new)  BY <1>6, <1>7, <1>8 DEF MayHold, ContentOK, Nothing, Empty
<1> QED  BY <1>1, <1>4, <1>5, <1>9, OnKeyDoes

(* A command on a key that is to hold something of type t finds it sound, *)
(* and answers at once when there is nothing. *)
LEMMA ReadHashSound == ASSUME RedisInv, NEW k \in Key, ReadHash(k) PROVE RedisInv'
<1>1. PICK d : d = Visit(<<k>>, "hash").db  OBVIOUS
<1>2. \E a : Answer(d, a)  BY <1>1 DEF ReadHash, OnPresent, OnKey
<1> QED  BY <1>1, <1>2, VisitSound, AnswerSound

-----------------------------------------------------------------------------
(* Sets. *)
LEMMA SAddDoes ==
  ASSUME RedisInv, NEW k \in Key, NEW M \in (SUBSET Value) \ {{}}, SAdd(k, M)
  PROVE  Idles(k) \/ Updates(k)
<1>1. PICK v : v = Visit(<<k>>, "set")  OBVIOUS
<1>2. Sound(v.db)  BY <1>1, VisitSound
<1>3. PICK old, new : old = Get(v.db, "set", k) /\ new = old \cup M  OBVIOUS
<1>4. Answer(v.db, "refused") \/ (v.ok /\ Commit(v.db, "set", k, new, "updated"))
  BY <1>1, <1>3 DEF SAdd, OnKey
<1>5. "set" \in Type \ {"store"}  BY DEF Type
<1>6. ContentOK("set", old)  BY <1>2, <1>3, <1>5, GetOK
<1>7. IsFiniteSet(M)  BY RedisAssumption, FS_Subset DEF RedisAssumption, Value
<1>8. IsFiniteSet(new)  BY <1>3, <1>6, <1>7, FS_Union DEF ContentOK
<1>9. MayHold("set", new)  BY <1>3, <1>6, <1>8, ValuesAreVals DEF MayHold, ContentOK, Nothing
<1> QED  BY <1>1, <1>4, <1>5, <1>9, OnKeyDoes

LEMMA SetShrinks ==
  ASSUME NEW d, Sound(d), NEW k, k \in DOMAIN d["set"], NEW M
  PROVE  Sound(Shrink(d, "set", k, d["set"][k] \ M))
<1>1. "set" \in Type \ {"store"}  BY DEF Type
<1>2. ContentOK("set", d["set"][k])  BY <1>1 DEF Sound, Shape
<1>3. PICK N : N = d["set"][k] \ M  OBVIOUS
<1>4. ContentOK("set", N) /\ Cardinality(Usage("set", N)) <= Cardinality(Usage("set", d["set"][k]))
  BY <1>2, <1>3, FewerMembers
<1> QED  BY <1>1, <1>3, <1>4, ShrinkSound

LEMMA SRemSound ==
  ASSUME RedisInv, NEW k \in Key, (\E M : SRem(k, M)) \/ (\E count : SPop(k, count))
  PROVE  RedisInv'
<1>1. PICK d : d = Visit(<<k>>, "set").db  OBVIOUS
<1>2. Sound(d)  BY <1>1, VisitSound
<1>3. (\E a : Answer(d, a))
      \/ (k \in DOMAIN d["set"] /\ \E N, a : Answer(Shrink(d, "set", k, d["set"][k] \ N), a))
  <2>1. ASSUME NEW M, SRem(k, M)
        PROVE  (\E a : Answer(d, a))
               \/ (k \in DOMAIN d["set"] /\ \E N, a : Answer(Shrink(d, "set", k, d["set"][k] \ N), a))
    BY <2>1, <1>1 DEF SRem, OnPresent, OnKey
  <2>2. ASSUME NEW count, SPop(k, count)
        PROVE  (\E a : Answer(d, a))
               \/ (k \in DOMAIN d["set"] /\ \E N, a : Answer(Shrink(d, "set", k, d["set"][k] \ N), a))
    BY <2>2, <1>1 DEF SPop, OnPresent, OnKey
  <2> QED  BY <2>1, <2>2
<1> QED  BY <1>2, <1>3, SetShrinks, AnswerSound

LEMMA ReadSetSound == ASSUME RedisInv, NEW k \in Key, ReadSet(k) PROVE RedisInv'
<1>1. PICK d : d = Visit(<<k>>, "set").db  OBVIOUS
<1>2. \E a : Answer(d, a)  BY <1>1 DEF ReadSet, OnPresent, OnKey
<1> QED  BY <1>1, <1>2, VisitSound, AnswerSound

(* SMOVE enters the member before it takes it away: the budget holds because *)
(* its bytes only move. *)
LEMMA MovedMember ==
  ASSUME NEW d, Sound(d), NEW s \in Key, NEW t \in Key, s # t, ~Wrong(d, t, "set"),
         NEW m, m \in Get(d, "set", s)
  PROVE  Sound(Shrink(Put(d, "set", t, Get(d, "set", t) \cup {m}), "set", s, d["set"][s] \ {m}))
<1> DEFINE new == Get(d, "set", t) \cup {m}
           old == d["set"][s]
           e   == Put(d, "set", t, new)
           left == old \ {m}
<1>1. "set" \in Type \ {"store"} /\ "set" \in Dictionary  BY DEF Type, Dictionary
<1>2. s \in DOMAIN d["set"] /\ m \in old  BY DEF Get, Nothing
<1>3. ContentOK("set", old) /\ m \in Val  BY <1>1, <1>2 DEF Sound, Shape, ContentOK
<1>4. ContentOK("set", Get(d, "set", t))  BY <1>1, GetOK
<1>5. /\ ContentOK("set", new)
      /\ Cardinality(Usage("set", new)) <= Cardinality(Usage("set", Get(d, "set", t))) + Cardinality(Encoded(m))
  BY <1>3, <1>4, MemberComes
<1>6. Cardinality(Usage("set", left)) = Cardinality(Usage("set", old)) - Cardinality(Encoded(m))
  BY <1>2, <1>3, MemberLeaves
<1>7. ContentOK("set", left)  BY <1>3, FewerMembers
<1>8. BytesAt(d, "set", t) = Cardinality(Usage("set", Get(d, "set", t)))
  <2>1. CASE t \in DOMAIN d["set"]  BY <2>1 DEF BytesAt, Get
  <2>2. CASE t \notin DOMAIN d["set"]
    <3>1. Usage("set", {}) = {}  BY SetBytesAre
    <3> QED  BY <2>2, <3>1, FS_EmptySet DEF BytesAt, Get, Nothing
  <2> QED  BY <2>1, <2>2
<1>9. /\ Shape(e)
      /\ TotalStoreBytes(e) = TotalStoreBytes(d) - BytesAt(d, "set", t) + Cardinality(Usage("set", new))
      /\ TotalStoreBytes(d) \in Nat /\ TotalStoreBytes(e) \in Nat
  BY <1>1, <1>5, PutBytes DEF Sound
<1>10. /\ DOMAIN e = Dictionary
       /\ \A u \in Dictionary : u # "set" => e[u] = d[u]
       /\ DOMAIN e["set"] = DOMAIN d["set"] \cup {t}
       /\ e["set"][t] = new
       /\ \A j \in DOMAIN d["set"] : j # t => e["set"][j] = d["set"][j]
  BY <1>1, PutIs DEF Sound, Shape
<1>11. s \in DOMAIN e["set"] /\ e["set"][s] = old /\ new # {}  BY <1>2, <1>10
<1> HIDE DEF e, new, old, left
<1>12. Apart(e)
  <2>1. \A u \in Type \ {"set"} : e[u] = d[u] /\ t \notin DOMAIN d[u]
    BY <1>10 DEF Dictionary, Wrong
  <2> QED  BY <2>1, <1>10 DEF Sound, Apart
<1>13. Filled(e)
  <2>1. \A u \in Type \ {"set"} : e[u] = d[u]  BY <1>10 DEF Dictionary
  <2>2. \A j \in DOMAIN e["set"] : e["set"][j] # Nothing("set")
    BY <1>1, <1>10, <1>11 DEF Sound, Filled, Nothing
  <2> QED  BY <2>1, <2>2 DEF Sound, Filled
<1>14. Dated(e)
  <2>1. e.expirations = d.expirations  BY <1>10 DEF Dictionary
  <2>2. \A u \in Type : DOMAIN d[u] \subseteq DOMAIN e[u]  BY <1>10 DEF Dictionary
  <2>3. \A j : Has(d, j) => Has(e, j)  BY <2>2 DEF Has
  <2> QED  BY <2>1, <2>3 DEF Sound, Dated
<1>15. TotalStoreBytes(e) - Cardinality(Usage("set", old)) + Cardinality(Usage("set", left)) <= MaxBytes
  <2>1. IsFiniteSet(Encoded(m))  BY <1>3, EncodedFinite
  <2>2. /\ Cardinality(Usage("set", old)) \in Nat /\ Cardinality(Usage("set", left)) \in Nat
        /\ Cardinality(Usage("set", new)) \in Nat /\ Cardinality(Usage("set", Get(d, "set", t))) \in Nat
    BY <1>1, <1>3, <1>4, <1>5, <1>7, UsageFinite
  <2>3. Cardinality(Encoded(m)) \in Nat  BY <2>1, FS_CardinalityType
  <2>4. MaxBytes \in Nat /\ TotalStoreBytes(d) <= MaxBytes
    BY RedisAssumption DEF RedisAssumption, Sound, Within
  <2> QED  BY <2>2, <2>3, <2>4, <1>5, <1>6, <1>8, <1>9
<1>16. BytesAt(e, "set", s) = Cardinality(Usage("set", old))  BY <1>11 DEF BytesAt
<1>17. Sound(Shrink(e, "set", s, left))
  <2>1. TotalStoreBytes(e) - BytesAt(e, "set", s) + Cardinality(Usage("set", left)) <= MaxBytes
    BY <1>15, <1>16
  <2> QED  BY <1>1, <1>7, <1>9, <1>11, <1>12, <1>13, <1>14, <2>1, FilledIsBut, ShrinkMakesSound
<1> QED  BY <1>17 DEF e, new, old, left

LEMMA SMoveSound ==
  ASSUME RedisInv, NEW s \in Key, NEW t \in Key, NEW m, SMove(s, t, m)
  PROVE  RedisInv'
<1>1. PICK d : d = Purge(redis, {s, t})  OBVIOUS
<1>2. Sound(d)  BY <1>1, PurgeSound DEF RedisInv
<1>3. \/ \E a : Answer(d, a)
      \/ /\ ~Wrong(d, t, "set") /\ m \in Get(d, "set", s) /\ s # t
         /\ Answer(Shrink(Put(d, "set", t, Get(d, "set", t) \cup {m}), "set", s, d["set"][s] \ {m}), "moved")
  BY <1>1 DEF SMove
<1>4. CASE \E a : Answer(d, a)  BY <1>2, <1>4, AnswerSound
<1>5. CASE ~(\E a : Answer(d, a))  BY <1>2, <1>3, <1>5, MovedMember, AnswerSound
<1> QED  BY <1>4, <1>5

(* The destination of a combination holds members of its sources.           *)
StoredOrNot(v, k, result) ==
  \/ v.ok /\ Fits(v.db, "set", k, result) /\ \E a : Answer(SetKey(v.db, "set", k, result, TRUE), a)
  \/ Answer(v.db, "refused")

LEMMA StoredSound ==
  ASSUME RedisInv, NEW k \in Key, NEW ks \in Keys, NEW v, v = Visit(ks, "set"), NEW m,
         m = [i \in DOMAIN ks |-> Get(v.db, "set", ks[i])], NEW result,
         result \subseteq UNION Range(m),
         StoredOrNot(v, k, result)
  PROVE  RedisInv'
<1>1. Sound(v.db)  BY VisitSound
<1>2. "set" \in Type \ {"store"}  BY DEF Type
<1>3. ks \in Seq(Key) /\ DOMAIN ks = 1 .. Len(ks) /\ Len(ks) \in Nat  BY KeysAre
<1>4. \A i \in DOMAIN ks : ContentOK("set", m[i])  BY <1>1, <1>2, <1>3, GetOK
<1>5. IsFiniteSet(UNION Range(m))
  <2>1. m \in Surjection(DOMAIN ks, Range(m))  BY DEF Surjection, Range
  <2>2. IsFiniteSet(DOMAIN ks)  BY <1>3, FS_Interval
  <2>3. IsFiniteSet(Range(m))  BY <2>1, <2>2, FS_Surjection
  <2>4. \A S \in Range(m) : IsFiniteSet(S)  BY <1>4 DEF Range, ContentOK
  <2> QED  BY <2>3, <2>4, FS_UNION
<1>6. UNION Range(m) \subseteq Val  BY <1>4 DEF Range, ContentOK
<1>7. ContentOK("set", result)  BY <1>5, <1>6, FS_Subset DEF ContentOK
<1>8. Sound(SetKey(v.db, "set", k, result, TRUE))  BY <1>1, <1>2, <1>7, SetKeySound
<1> QED  BY <1>1, <1>8, AnswerSound DEF StoredOrNot

LEMMA SStoreSound ==
  ASSUME RedisInv, NEW k \in Key, NEW ks \in Keys,
         SUnionStore(k, ks) \/ SInterStore(k, ks) \/ SDiffStore(k, ks)
  PROVE  RedisInv'
<1>1. PICK v, m : v = Visit(ks, "set") /\ m = [i \in DOMAIN ks |-> Get(v.db, "set", ks[i])]  OBVIOUS
<1>2. 1 \in DOMAIN ks  BY KeysAre
<1>3. m[1] \subseteq UNION Range(m)  BY <1>1, <1>2 DEF Range
<1>4. CASE SUnionStore(k, ks)
  <2>1. PICK result : result = UNION Range(m)  OBVIOUS
  <2>2. StoredOrNot(v, k, result)
    BY <1>1, <1>4, <2>1 DEF SUnionStore, StoreSet, StoredOrNot
  <2> QED  BY <1>1, <2>1, <2>2, StoredSound
<1>5. CASE SInterStore(k, ks)
  <2>1. PICK result : result = {x \in m[1] : \A i \in DOMAIN m : x \in m[i]}  OBVIOUS
  <2>2. StoredOrNot(v, k, result)
    BY <1>1, <1>5, <2>1 DEF SInterStore, StoreSet, StoredOrNot
  <2>3. result \subseteq UNION Range(m)  BY <1>3, <2>1
  <2> QED  BY <1>1, <2>2, <2>3, StoredSound
<1>6. CASE SDiffStore(k, ks)
  <2>1. PICK result : result = m[1] \ UNION Range(Tail(m))  OBVIOUS
  <2>2. StoredOrNot(v, k, result)
    BY <1>1, <1>6, <2>1 DEF SDiffStore, StoreSet, StoredOrNot
  <2>3. result \subseteq UNION Range(m)  BY <1>3, <2>1
  <2> QED  BY <1>1, <2>2, <2>3, StoredSound
<1> QED  BY <1>4, <1>5, <1>6

-----------------------------------------------------------------------------
(* Lists. *)
LEMMA PushDoes ==
  ASSUME RedisInv, NEW k \in Key, NEW vs \in Values, LPush(k, vs) \/ RPush(k, vs)
  PROVE  Idles(k) \/ Updates(k)
<1>1. PICK v : v = Visit(<<k>>, "list")  OBVIOUS
<1>2. Sound(v.db)  BY <1>1, VisitSound
<1>3. PICK old : old = Get(v.db, "list", k)  OBVIOUS
<1>4. "list" \in Type \ {"store"}  BY DEF Type
<1>5. old \in Seq(Val)  BY <1>2, <1>3, <1>4, GetOK DEF ContentOK
<1>6. vs \in Seq(Val) /\ Len(vs) >= 1
  <2>1. PICK n \in 1 .. MaxArgs : vs \in [1 .. n -> Value]  BY DEF Values
  <2>2. MaxArgs \in Nat  BY RedisAssumption DEF RedisAssumption
  <2> QED  BY <2>1, <2>2, ValuesAreVals
<1>7. Reverse(vs) \in Seq(Val) /\ Len(Reverse(vs)) = Len(vs)
  <2>1. Reverse(vs) \in [1 .. Len(vs) -> Val]  BY <1>6 DEF Reverse
  <2> QED  BY <2>1, <1>6
<1>8. PICK left, right : left = Reverse(vs) \o old /\ right = old \o vs  OBVIOUS
<1>9. left \in Seq(Val) /\ right \in Seq(Val) /\ Len(left) >= 1 /\ Len(right) >= 1
  BY <1>5, <1>6, <1>7, <1>8
<1>10. left # << >> /\ right # << >>  BY <1>9
<1>11. \/ Answer(v.db, "refused")
       \/ v.ok /\ Commit(v.db, "list", k, left, "updated")
       \/ v.ok /\ Commit(v.db, "list", k, right, "updated")
  BY <1>1, <1>3, <1>8 DEF LPush, RPush, OnKey
<1>12. MayHold("list", left) /\ MayHold("list", right)
  BY <1>9, <1>10 DEF MayHold, ContentOK, Nothing, Empty
<1> QED  BY <1>1, <1>4, <1>11, <1>12, OnKeyDoes

LEMMA ReadListSound == ASSUME RedisInv, NEW k \in Key, ReadList(k) PROVE RedisInv'
<1>1. PICK d : d = Visit(<<k>>, "list").db  OBVIOUS
<1>2. \E a : Answer(d, a)  BY <1>1 DEF ReadList, OnPresent, OnKey
<1> QED  BY <1>1, <1>2, VisitSound, AnswerSound

(* What is held as a list is one, and not empty. *)
LEMMA ListHeld ==
  ASSUME NEW d, Sound(d), NEW k \in DOMAIN d["list"]
  PROVE  d["list"][k] \in Seq(Val) /\ d["list"][k] # << >> /\ Len(d["list"][k]) >= 1 /\ k \in Key
<1>1. "list" \in Type \ {"store"}  BY DEF Type
<1>2. ContentOK("list", d["list"][k]) /\ d["list"][k] # Nothing("list") /\ k \in Key
  BY <1>1 DEF Sound, Shape, Filled
<1>3. d["list"][k] \in Seq(Val) /\ d["list"][k] # << >>  BY <1>2 DEF ContentOK, Nothing, Empty
<1> QED  BY <1>2, <1>3

LEMMA ListShrinks ==
  ASSUME NEW d, Sound(d), NEW k \in DOMAIN d["list"], NEW r \in Seq(Val),
         NEW f \in Injection(DOMAIN r, DOMAIN d["list"][k]), \A i \in DOMAIN r : d["list"][k][f[i]] = r[i]
  PROVE  Sound(Shrink(d, "list", k, r))
<1>1. "list" \in Type \ {"store"} /\ d["list"][k] \in Seq(Val)  BY ListHeld DEF Type
<1>2. Cardinality(Usage("list", r)) <= Cardinality(Usage("list", d["list"][k]))  BY <1>1, PlacesOfList
<1>3. ContentOK("list", r)  BY DEF ContentOK
<1> QED  BY <1>1, <1>2, <1>3, ShrinkSound

(* r is s from its place first on. *)
PartFrom(s, r, first, last) ==
  /\ r \in Seq(Val)
  /\ DOMAIN r = 1 .. last - first + 1
  /\ \A i \in DOMAIN r : i + first - 1 \in DOMAIN s /\ r[i] = s[i + first - 1]
  /\ \E f \in Injection(DOMAIN r, DOMAIN s) : \A i \in DOMAIN r : f[i] = i + first - 1

LEMMA PartOfList ==
  ASSUME NEW s \in Seq(Val), NEW first \in Nat \ {0}, NEW last \in Int, last <= Len(s),
         NEW r, r = SubSeq(s, first, last)
  PROVE  PartFrom(s, r, first, last)
<1>1. Len(s) \in Nat /\ DOMAIN s = 1 .. Len(s)  OBVIOUS
<1>2. r = [i \in 1 .. last - first + 1 |-> s[i + first - 1]]  OBVIOUS
<1>3. DOMAIN r = 1 .. last - first + 1  BY <1>2
<1>4. ASSUME NEW i \in DOMAIN r PROVE i + first - 1 \in DOMAIN s /\ r[i] = s[i + first - 1]
  <2>1. i \in 1 .. last - first + 1  BY <1>3
  <2>2. r[i] = s[i + first - 1]  BY <1>2, <2>1
  <2> QED  BY <2>1, <2>2, <1>1
<1>5. r \in Seq(Val)
  <2>1. PICK n \in Nat : 1 .. n = 1 .. last - first + 1
    <3>1. CASE first <= last
      <4>1. last - first + 1 \in Nat  BY <3>1
      <4> QED  BY <4>1
    <3>2. CASE ~(first <= last)
      <4>1. 1 .. 0 = {} /\ 1 .. last - first + 1 = {}  BY <3>2
      <4> QED  BY <4>1
    <3> QED  BY <3>1, <3>2
  <2>2. r = [i \in 1 .. n |-> r[i]]  BY <1>2, <1>3, <2>1
  <2>3. \A i \in 1 .. n : r[i] \in Val  BY <1>3, <1>4, <2>1
  <2>4. r \in [1 .. n -> Val]  BY <2>2, <2>3
  <2> QED  BY <2>1, <2>4
<1>6. \E f \in Injection(DOMAIN r, DOMAIN s) : \A i \in DOMAIN r : f[i] = i + first - 1
  <2> DEFINE f == [i \in DOMAIN r |-> i + first - 1]
  <2>1. f \in [DOMAIN r -> DOMAIN s]  BY <1>4
  <2>2. \A i, j \in DOMAIN r : i + first - 1 = j + first - 1 => i = j  BY <1>3
  <2>3. f \in Injection(DOMAIN r, DOMAIN s)  BY <2>1, <2>2 DEF Injection, IsInjective
  <2> QED  BY <2>3
<1> QED  BY <1>3, <1>4, <1>5, <1>6 DEF PartFrom

(* Taking an element from an end, and adding one: p is where it is. *)
ButFor(s, r, p) ==
  \E f \in Injection(DOMAIN r, DOMAIN s) :
     /\ \A i \in DOMAIN r : s[f[i]] = r[i]
     /\ \A j \in DOMAIN s : j = p <=> \A i \in DOMAIN r : f[i] # j

LEMMA TailIsBut ==
  ASSUME NEW s \in Seq(Val), Len(s) >= 1
  PROVE  Tail(s) \in Seq(Val) /\ ButFor(s, Tail(s), 1) /\ 1 \in DOMAIN s
<1>1. PICK n \in Nat : n = Len(s) /\ DOMAIN s = 1 .. n /\ n >= 1  OBVIOUS
<1>2. PICK r : r = Tail(s)  OBVIOUS
<1>3. r \in Seq(Val) /\ Len(r) = n - 1  BY <1>1, <1>2
<1>4. DOMAIN r = 1 .. n - 1  BY <1>3
<1>5. \A i \in DOMAIN r : r[i] = s[i + 1]  BY <1>1, <1>2, <1>4
<1> DEFINE f == [i \in 1 .. n - 1 |-> i + 1]
<1>6. f \in Injection(DOMAIN r, DOMAIN s)
  <2>1. f \in [DOMAIN r -> DOMAIN s]  BY <1>1, <1>4
  <2>2. \A i, j \in DOMAIN r : f[i] = f[j] => i = j  BY <1>4
  <2> QED  BY <2>1, <2>2 DEF Injection, IsInjective
<1>7. ASSUME NEW j \in DOMAIN s PROVE j = 1 <=> \A i \in DOMAIN r : f[i] # j
  <2>1. CASE j = 1  BY <2>1, <1>4
  <2>2. CASE j # 1
    <3>1. j - 1 \in DOMAIN r /\ f[j - 1] = j  BY <2>2, <1>1, <1>4
    <3> QED  BY <2>2, <3>1
  <2> QED  BY <2>1, <2>2
<1>8. \A i \in DOMAIN r : s[f[i]] = r[i]  BY <1>4, <1>5
<1> HIDE DEF f
<1>9. ButFor(s, r, 1)  BY <1>6, <1>7, <1>8 DEF ButFor
<1> QED  BY <1>1, <1>2, <1>3, <1>9

LEMMA FrontIsBut ==
  ASSUME NEW s \in Seq(Val), Len(s) >= 1
  PROVE  Front(s) \in Seq(Val) /\ ButFor(s, Front(s), Len(s)) /\ Len(s) \in DOMAIN s
<1>1. PICK n \in Nat : n = Len(s) /\ DOMAIN s = 1 .. n /\ n >= 1  OBVIOUS
<1>2. PICK r : r = SubSeq(s, 1, n - 1) /\ r = Front(s)  BY <1>1 DEF Front
<1>3. n - 1 \in Int /\ n - 1 <= Len(s)  BY <1>1
<1>0. PartFrom(s, r, 1, n - 1)
  <2>1. PICK last \in Int : last = n - 1 /\ last <= Len(s) /\ r = SubSeq(s, 1, last)  BY <1>2, <1>3
  <2>2. PICK first \in Nat \ {0} : first = 1  OBVIOUS
  <2>3. PartFrom(s, r, first, last)  BY <2>1, <2>2, PartOfList
  <2> QED  BY <2>1, <2>2, <2>3
<1>4. PICK f \in Injection(DOMAIN r, DOMAIN s) : \A i \in DOMAIN r : f[i] = i + 1 - 1
  BY <1>0 DEF PartFrom
<1>5. r \in Seq(Val) /\ DOMAIN r = 1 .. (n - 1) - 1 + 1 /\ \A i \in DOMAIN r : r[i] = s[i + 1 - 1]
  BY <1>0 DEF PartFrom
<1>6. DOMAIN r = 1 .. n - 1 /\ \A i \in DOMAIN r : i + 1 - 1 = i  BY <1>5
<1>7. \A i \in DOMAIN r : f[i] = i  BY <1>4, <1>6
<1>8. ASSUME NEW j \in DOMAIN s PROVE j = n <=> \A i \in DOMAIN r : f[i] # j
  <2>1. CASE j = n  BY <2>1, <1>1, <1>6, <1>7
  <2>2. CASE j # n
    <3>1. j \in DOMAIN r /\ f[j] = j  BY <2>2, <1>1, <1>6, <1>7
    <3> QED  BY <2>2, <3>1
  <2> QED  BY <2>1, <2>2
<1>9. \A i \in DOMAIN r : s[f[i]] = r[i]  BY <1>5, <1>6, <1>7
<1>10. ButFor(s, r, n)  BY <1>8, <1>9 DEF ButFor
<1> QED  BY <1>1, <1>2, <1>5, <1>10

LEMMA ButForBytes ==
  ASSUME NEW s \in Seq(Val), NEW r \in Seq(Val), NEW p \in DOMAIN s, ButFor(s, r, p)
  PROVE  Cardinality(Usage("list", s)) = Cardinality(Usage("list", r)) + Cardinality(Encoded(s[p]))
<1>1. PICK f \in Injection(DOMAIN r, DOMAIN s) :
         /\ \A i \in DOMAIN r : s[f[i]] = r[i]
         /\ \A j \in DOMAIN s : j = p <=> \A i \in DOMAIN r : f[i] # j
  BY DEF ButFor
<1> QED  BY <1>1, PlacesOfList

LEMMA PoppedBytes ==
  ASSUME NEW s \in Seq(Val), Len(s) >= 1, NEW end
  PROVE  /\ Popped(s, end) \in Seq(Val) /\ End(s, end) \in Val
         /\ Cardinality(Usage("list", s)) =
              Cardinality(Usage("list", Popped(s, end))) + Cardinality(Encoded(End(s, end)))
<1>1. CASE end = "LEFT"
  <2>1. Popped(s, end) = Tail(s) /\ End(s, end) = s[1]  BY <1>1 DEF Popped, End
  <2>2. Tail(s) \in Seq(Val) /\ ButFor(s, Tail(s), 1) /\ 1 \in DOMAIN s  BY TailIsBut
  <2>3. s[1] \in Val  BY <2>2
  <2> QED  BY <2>1, <2>2, <2>3, ButForBytes
<1>2. CASE end # "LEFT"
  <2>1. Popped(s, end) = Front(s) /\ End(s, end) = s[Len(s)]  BY <1>2 DEF Popped, End, Last
  <2>2. Front(s) \in Seq(Val) /\ ButFor(s, Front(s), Len(s)) /\ Len(s) \in DOMAIN s  BY FrontIsBut
  <2>3. s[Len(s)] \in Val  BY <2>2
  <2> QED  BY <2>1, <2>2, <2>3, ButForBytes
<1> QED  BY <1>1, <1>2

LEMMA PushedBytes ==
  ASSUME NEW s \in Seq(Val), NEW e \in Val, NEW end
  PROVE  /\ Pushed(s, e, end) \in Seq(Val) /\ Pushed(s, e, end) # << >>
         /\ Cardinality(Usage("list", Pushed(s, e, end))) =
              Cardinality(Usage("list", s)) + Cardinality(Encoded(e))
<1>1. PICK n \in Nat : n = Len(s) /\ DOMAIN s = 1 .. n  OBVIOUS
<1>2. CASE end = "LEFT"
  <2>1. PICK q : q = <<e>> \o s  OBVIOUS
  <2>2. Pushed(s, e, end) = q  BY <1>2, <2>1 DEF Pushed
  <2>3. q \in Seq(Val) /\ Len(q) = n + 1  BY <2>1, <1>1
  <2>4. q[1] = e  BY <2>1, <1>1
  <2>5. \A i \in 1 .. n : q[i + 1] = s[i]  BY <2>1, <1>1
  <2>6. Tail(q) \in Seq(Val) /\ Len(Tail(q)) = n /\ \A i \in 1 .. n : Tail(q)[i] = q[i + 1]
    BY <2>3, <1>1
  <2>7. Tail(q) = s  BY <2>5, <2>6, <1>1
  <2>8. ButFor(q, Tail(q), 1) /\ 1 \in DOMAIN q  BY <2>3, TailIsBut
  <2>9. Cardinality(Usage("list", q)) = Cardinality(Usage("list", s)) + Cardinality(Encoded(q[1]))
    BY <2>3, <2>7, <2>8, ButForBytes
  <2> QED  BY <2>2, <2>3, <2>4, <2>9
<1>3. CASE end # "LEFT"
  <2>1. PICK q : q = Append(s, e)  OBVIOUS
  <2>2. Pushed(s, e, end) = q  BY <1>3, <2>1 DEF Pushed
  <2>3. q \in Seq(Val) /\ Len(q) = n + 1  BY <2>1, <1>1
  <2>4. q[n + 1] = e  BY <2>1, <1>1
  <2>5. \A i \in 1 .. n : q[i] = s[i]  BY <2>1, <1>1
  <2>6. Front(q) \in Seq(Val) /\ Len(Front(q)) = n /\ \A i \in 1 .. n : Front(q)[i] = q[i]
    BY <2>3, <1>1 DEF Front
  <2>7. Front(q) = s  BY <2>5, <2>6, <1>1
  <2>8. ButFor(q, Front(q), n + 1) /\ n + 1 \in DOMAIN q  BY <2>3, FrontIsBut
  <2>9. Cardinality(Usage("list", q)) = Cardinality(Usage("list", s)) + Cardinality(Encoded(q[n + 1]))
    BY <2>3, <2>7, <2>8, ButForBytes
  <2> QED  BY <2>2, <2>3, <2>4, <2>9
<1> QED  BY <1>2, <1>3

LEMMA ListPopSound == ASSUME RedisInv, NEW k \in Key, NEW end, ListPop(k, end) PROVE RedisInv'
<1>1. PICK d : d = Visit(<<k>>, "list").db  OBVIOUS
<1>2. Sound(d)  BY <1>1, VisitSound
<1>3. \/ \E a : Answer(d, a)
      \/ k \in DOMAIN d["list"] /\ Answer(Shrink(d, "list", k, Popped(d["list"][k], end)), "taken")
  BY <1>1 DEF ListPop, OnPresent, OnKey
<1>4. ASSUME k \in DOMAIN d["list"] PROVE Sound(Shrink(d, "list", k, Popped(d["list"][k], end)))
  <2>1. PICK s : s = d["list"][k]  OBVIOUS
  <2>2. s \in Seq(Val) /\ Len(s) >= 1  BY <1>2, <1>4, <2>1, ListHeld
  <2>3. Popped(s, end) \in Seq(Val) /\ End(s, end) \in Val
        /\ Cardinality(Usage("list", s)) =
             Cardinality(Usage("list", Popped(s, end))) + Cardinality(Encoded(End(s, end)))
    BY <2>2, PoppedBytes
  <2>4. ContentOK("list", Popped(s, end)) /\ "list" \in Type \ {"store"}  BY <2>3 DEF ContentOK, Type
  <2>5. Cardinality(Usage("list", Popped(s, end))) \in Nat  BY <2>4, UsageFinite
  <2>6. Cardinality(Encoded(End(s, end))) \in Nat  BY <2>3, EncodedFinite, FS_CardinalityType
  <2>7. Cardinality(Usage("list", Popped(s, end))) <= Cardinality(Usage("list", s))  BY <2>3, <2>5, <2>6
  <2> QED  BY <1>2, <1>4, <2>1, <2>4, <2>7, ShrinkSound
<1> QED  BY <1>2, <1>3, <1>4, AnswerSound

(* LMOVE takes the element before it enters it, perhaps into the same list:  *)
(* in between the source may be empty, and in the end the bytes are as many. *)
LEMMA MovedElement ==
  ASSUME NEW d, Sound(d), NEW s \in Key, NEW t \in Key, ~Wrong(d, t, "list"), s \in DOMAIN d["list"],
         NEW from, NEW to, NEW taken, NEW moved,
         taken = Put(d, "list", s, Popped(d["list"][s], from)),
         moved = Put(taken, "list", t, Pushed(Get(taken, "list", t), End(d["list"][s], from), to))
  PROVE  Sound(Shrink(moved, "list", s, moved["list"][s]))
<1>1. "list" \in Type \ {"store"} /\ "list" \in Dictionary  BY DEF Type, Dictionary
<1>2. PICK c, popped, e : c = d["list"][s] /\ popped = Popped(c, from) /\ e = End(c, from)  OBVIOUS
<1>3. c \in Seq(Val) /\ Len(c) >= 1  BY <1>2, ListHeld
<1>4. /\ popped \in Seq(Val) /\ e \in Val
      /\ Cardinality(Usage("list", c)) = Cardinality(Usage("list", popped)) + Cardinality(Encoded(e))
  BY <1>2, <1>3, PoppedBytes
<1>5. ContentOK("list", c) /\ ContentOK("list", popped)  BY <1>3, <1>4 DEF ContentOK
<1>6. /\ Shape(taken)
      /\ TotalStoreBytes(taken) = TotalStoreBytes(d) - BytesAt(d, "list", s) + Cardinality(Usage("list", popped))
      /\ TotalStoreBytes(d) \in Nat /\ TotalStoreBytes(taken) \in Nat
  BY <1>1, <1>2, <1>5, PutBytes DEF Sound
<1>7. BytesAt(d, "list", s) = Cardinality(Usage("list", c))  BY <1>2 DEF BytesAt
<1>8. /\ DOMAIN taken = Dictionary
      /\ \A u \in Dictionary : u # "list" => taken[u] = d[u]
      /\ DOMAIN taken["list"] = DOMAIN d["list"] \cup {s}
      /\ taken["list"][s] = popped
      /\ \A j \in DOMAIN d["list"] : j # s => taken["list"][j] = d["list"][j]
  BY <1>1, <1>2, PutIs DEF Sound, Shape
<1>9. PICK old, pushed : old = Get(taken, "list", t) /\ pushed = Pushed(old, e, to)  OBVIOUS
<1>10. old \in Seq(Val) /\ BytesAt(taken, "list", t) = Cardinality(Usage("list", old))
  <2>1. CASE t \in DOMAIN taken["list"]
    <3>1. old = taken["list"][t]  BY <2>1, <1>9 DEF Get
    <3>2. ContentOK("list", old)  BY <2>1, <3>1, <1>1, <1>6 DEF Shape
    <3> QED  BY <2>1, <3>1, <3>2 DEF ContentOK, BytesAt
  <2>2. CASE t \notin DOMAIN taken["list"]
    <3>1. old = << >>  BY <2>2, <1>9 DEF Get, Nothing, Empty
    <3>2. DOMAIN << >> = {} /\ << >> \in Seq(Val)  OBVIOUS
    <3>3. Usage("list", << >>) = {}  BY <3>2, ListBytesAre
    <3>4. Cardinality(Usage("list", old)) = 0  BY <3>1, <3>3, FS_EmptySet
    <3> QED  BY <2>2, <3>1, <3>2, <3>4 DEF BytesAt
  <2> QED  BY <2>1, <2>2
<1>11. /\ pushed \in Seq(Val) /\ pushed # << >>
       /\ Cardinality(Usage("list", pushed)) = Cardinality(Usage("list", old)) + Cardinality(Encoded(e))
  BY <1>4, <1>9, <1>10, PushedBytes
<1>12. ContentOK("list", pushed) /\ ContentOK("list", old)  BY <1>10, <1>11 DEF ContentOK
<1>13. moved = Put(taken, "list", t, pushed)  BY <1>2, <1>9
<1>14. /\ Shape(moved)
       /\ TotalStoreBytes(moved) =
            TotalStoreBytes(taken) - BytesAt(taken, "list", t) + Cardinality(Usage("list", pushed))
       /\ TotalStoreBytes(moved) \in Nat
  BY <1>1, <1>6, <1>12, <1>13, PutBytes
<1>15. TotalStoreBytes(moved) = TotalStoreBytes(d)
  <2>1. /\ Cardinality(Usage("list", c)) \in Nat /\ Cardinality(Usage("list", popped)) \in Nat
        /\ Cardinality(Usage("list", old)) \in Nat /\ Cardinality(Usage("list", pushed)) \in Nat
    BY <1>1, <1>5, <1>12, UsageFinite
  <2>2. Cardinality(Encoded(e)) \in Nat  BY <1>4, EncodedFinite, FS_CardinalityType
  <2>3. TotalStoreBytes(taken) =
          TotalStoreBytes(d) - Cardinality(Usage("list", c)) + Cardinality(Usage("list", popped))
    BY <1>6, <1>7
  <2>4. TotalStoreBytes(moved) =
          TotalStoreBytes(taken) - Cardinality(Usage("list", old)) + Cardinality(Usage("list", pushed))
    BY <1>10, <1>14
  <2>5. TotalStoreBytes(d) \in Nat /\ TotalStoreBytes(taken) \in Nat /\ TotalStoreBytes(moved) \in Nat
    BY <1>6, <1>14
  <2>6. /\ Cardinality(Usage("list", c)) = Cardinality(Usage("list", popped)) + Cardinality(Encoded(e))
        /\ Cardinality(Usage("list", pushed)) = Cardinality(Usage("list", old)) + Cardinality(Encoded(e))
    BY <1>4, <1>11
  <2>7. PICK total, less, after, nc, np, ne, no, nu :
          /\ total = TotalStoreBytes(d) /\ less = TotalStoreBytes(taken) /\ after = TotalStoreBytes(moved)
          /\ nc = Cardinality(Usage("list", c)) /\ np = Cardinality(Usage("list", popped))
          /\ ne = Cardinality(Encoded(e))
          /\ no = Cardinality(Usage("list", old)) /\ nu = Cardinality(Usage("list", pushed))
    OBVIOUS
  <2>8. total \in Nat /\ less \in Nat /\ after \in Nat  BY <2>5, <2>7
  <2>9. nc \in Nat /\ np \in Nat /\ ne \in Nat /\ no \in Nat /\ nu \in Nat  BY <2>1, <2>2, <2>7
  <2>10. less = total - nc + np  BY <2>3, <2>7
  <2>11. after = less - no + nu  BY <2>4, <2>7
  <2>12. nc = np + ne /\ nu = no + ne  BY <2>6, <2>7
  <2>13. after = total  BY <2>8, <2>9, <2>10, <2>11, <2>12
  <2> QED  BY <2>7, <2>13
<1>16. /\ \A u \in Dictionary : u # "list" => moved[u] = taken[u]
       /\ DOMAIN moved["list"] = DOMAIN taken["list"] \cup {t}
       /\ moved["list"][t] = pushed
       /\ \A j \in DOMAIN taken["list"] : j # t => moved["list"][j] = taken["list"][j]
  BY <1>1, <1>8, <1>13, PutIs
<1>17. /\ \A u \in Type \ {"list"} : moved[u] = d[u] /\ s \notin DOMAIN d[u] /\ t \notin DOMAIN d[u]
       /\ DOMAIN moved["list"] = DOMAIN d["list"] \cup {t}
       /\ \A j \in DOMAIN d["list"] : j # s /\ j # t => moved["list"][j] = d["list"][j]
       /\ s \in DOMAIN moved["list"]
  <2>1. \A u \in Type \ {"list"} : moved[u] = d[u]  BY <1>8, <1>16 DEF Dictionary
  <2>2. \A u \in Type \ {"list"} : s \notin DOMAIN d[u]  BY <1>1 DEF Sound, Apart
  <2>3. \A u \in Type \ {"list"} : t \notin DOMAIN d[u]  BY DEF Wrong
  <2> QED  BY <2>1, <2>2, <2>3, <1>8, <1>16
<1>18. Apart(moved)
  <2> SUFFICES ASSUME NEW j \in Key, NEW u \in Type, NEW v \in Type, j \in DOMAIN moved[u], j \in DOMAIN moved[v]
               PROVE  u = v
    BY DEF Apart
  <2>1. CASE j = t  BY <2>1, <1>17
  <2>2. CASE j # t
    <3>1. j \in DOMAIN d[u] /\ j \in DOMAIN d[v]  BY <2>2, <1>17
    <3> QED  BY <3>1 DEF Sound, Apart
  <2> QED  BY <2>1, <2>2
<1>19. FilledBut(moved, s)
  <2> SUFFICES ASSUME NEW u \in Type \ {"store"}, NEW j \in DOMAIN moved[u], j # s
               PROVE  moved[u][j] # Nothing(u)
    BY DEF FilledBut
  <2>1. CASE u = "list" /\ j = t  BY <2>1, <1>11, <1>16 DEF Nothing, Empty
  <2>2. CASE ~(u = "list" /\ j = t)
    <3>1. j \in DOMAIN d[u] /\ moved[u][j] = d[u][j]  BY <2>2, <1>17
    <3> QED  BY <3>1 DEF Sound, Filled
  <2> QED  BY <2>1, <2>2
<1>20. Dated(moved)
  <2>1. moved.expirations = d.expirations  BY <1>8, <1>16 DEF Dictionary
  <2>2. \A u \in Type : DOMAIN d[u] \subseteq DOMAIN moved[u]  BY <1>17
  <2>3. \A j : Has(d, j) => Has(moved, j)  BY <2>2 DEF Has
  <2> QED  BY <2>1, <2>3 DEF Sound, Dated
<1>21. ContentOK("list", moved["list"][s])  BY <1>1, <1>14, <1>17 DEF Shape
<1>22. TotalStoreBytes(moved) - BytesAt(moved, "list", s) + Cardinality(Usage("list", moved["list"][s])) <= MaxBytes
  <2>1. BytesAt(moved, "list", s) = Cardinality(Usage("list", moved["list"][s]))  BY <1>17 DEF BytesAt
  <2>2. Cardinality(Usage("list", moved["list"][s])) \in Nat  BY <1>1, <1>21, UsageFinite
  <2>3. MaxBytes \in Nat /\ TotalStoreBytes(d) <= MaxBytes
    BY RedisAssumption DEF RedisAssumption, Sound, Within
  <2> QED  BY <2>1, <2>2, <2>3, <1>6, <1>15
<1> QED  BY <1>1, <1>14, <1>17, <1>18, <1>19, <1>20, <1>21, <1>22, ShrinkMakesSound

LEMMA LMoveSound ==
  ASSUME RedisInv, NEW s \in Key, NEW t \in Key, NEW from, NEW to, LMove(s, t, from, to)
  PROVE  RedisInv'
<1>1. PICK d : d = Purge(redis, {s, t})  OBVIOUS
<1>2. Sound(d)  BY <1>1, PurgeSound DEF RedisInv
<1>3. PICK taken, moved :
        /\ taken = Put(d, "list", s, Popped(d["list"][s], from))
        /\ moved = Put(taken, "list", t, Pushed(Get(taken, "list", t), End(d["list"][s], from), to))
  OBVIOUS
<1>4. \/ \E a : Answer(d, a)
      \/ /\ ~Wrong(d, t, "list") /\ s \in DOMAIN d["list"]
         /\ Answer(Shrink(moved, "list", s, moved["list"][s]), "moved")
  BY <1>1, <1>3 DEF LMove
<1>5. CASE \E a : Answer(d, a)  BY <1>2, <1>5, AnswerSound
<1>6. CASE ~(\E a : Answer(d, a))
  <2>1. Sound(Shrink(moved, "list", s, moved["list"][s]))  BY <1>2, <1>3, <1>4, <1>6, MovedElement
  <2> QED  BY <2>1, <1>4, <1>6, AnswerSound
<1> QED  BY <1>5, <1>6

LEMMA InsertedIs ==
  ASSUME NEW s \in Seq(Val), NEW i \in 1 .. Len(s) + 1, NEW e \in Val
  PROVE  InsertAt(s, i, e) \in Seq(Val) /\ InsertAt(s, i, e) # << >>
<1>1. PICK n \in Nat : n = Len(s)  OBVIOUS
<1>2. PICK a, b : a = SubSeq(s, 1, i - 1) /\ b = SubSeq(s, i, n)  OBVIOUS
<1>3. PICK first \in Nat \ {0}, last \in Int : first = 1 /\ last = i - 1 /\ last <= Len(s)
  <2>1. 1 \in Nat \ {0} /\ i - 1 \in Int /\ i - 1 <= Len(s)  OBVIOUS
  <2> QED  BY <2>1
<1>4. PartFrom(s, a, first, last)
  <2>1. a = SubSeq(s, first, last)  BY <1>2, <1>3
  <2> QED  BY <2>1, <1>3, PartOfList
<1>5. PartFrom(s, b, i, n)
  <2>1. i \in Nat \ {0} /\ n \in Int /\ n <= Len(s)  BY <1>1
  <2> QED  BY <2>1, <1>2, PartOfList
<1>6. a \in Seq(Val) /\ b \in Seq(Val)  BY <1>4, <1>5 DEF PartFrom
<1>7. InsertAt(s, i, e) = a \o <<e>> \o b  BY <1>1, <1>2 DEF InsertAt
<1>8. <<e>> \in Seq(Val) /\ Len(<<e>>) = 1  OBVIOUS
<1>9. a \o <<e>> \in Seq(Val) /\ Len(a \o <<e>>) = Len(a) + 1  BY <1>6, <1>8
<1>10. (a \o <<e>>) \o b \in Seq(Val) /\ Len((a \o <<e>>) \o b) = Len(a) + 1 + Len(b)
  BY <1>6, <1>9
<1>11. Len(a) \in Nat /\ Len(b) \in Nat  BY <1>6
<1>12. Len((a \o <<e>>) \o b) # 0  BY <1>10, <1>11
<1>13. (a \o <<e>>) \o b # << >>  BY <1>12
<1> QED  BY <1>7, <1>10, <1>13

LEMMA LInsertDoes ==
  ASSUME RedisInv, NEW k \in Key, NEW after \in {0, 1}, NEW pivot, NEW e \in Value, LInsert(k, after, pivot, e)
  PROVE  Idles(k) \/ Updates(k)
<1>1. PICK v : v = Visit(<<k>>, "list")  OBVIOUS
<1>2. PICK d : d = v.db /\ Sound(d)  BY <1>1, VisitSound
<1>3. PICK s, at : s = d["list"][k] /\ at = {i \in DOMAIN s : s[i] = pivot}  OBVIOUS
<1>4. \/ \E r \in {"none", "refused"} : Answer(d, r)
      \/ /\ v.ok /\ k \in DOMAIN d["list"] /\ at # {}
         /\ Commit(d, "list", k, InsertAt(s, Min(at) + after, e), "updated")
  BY <1>1, <1>2, <1>3 DEF LInsert, OnPresent, OnKey
<1>5. ASSUME k \in DOMAIN d["list"], at # {} PROVE MayHold("list", InsertAt(s, Min(at) + after, e))
  <2>1. s \in Seq(Val)  BY <1>2, <1>3, <1>5, ListHeld
  <2>2. at \subseteq DOMAIN s /\ DOMAIN s = 1 .. Len(s) /\ Len(s) \in Nat  BY <1>3, <2>1
  <2>3. Min(at) \in at  BY <2>2, <1>5, MinIs
  <2>4. PICK i \in 1 .. Len(s) + 1 : i = Min(at) + after  BY <2>2, <2>3
  <2>5. e \in Val  BY ValuesAreVals
  <2>6. InsertAt(s, i, e) \in Seq(Val) /\ InsertAt(s, i, e) # << >>  BY <2>1, <2>5, InsertedIs
  <2>7. MayHold("list", InsertAt(s, i, e))  BY <2>6 DEF MayHold, ContentOK, Nothing, Empty
  <2> QED  BY <2>4, <2>7
<1>6. "list" \in Type  BY DEF Type
<1> QED  BY <1>1, <1>2, <1>4, <1>5, <1>6, OnKeyDoes

LEMMA LSetDoes ==
  ASSUME RedisInv, NEW k \in Key, NEW index \in Index, NEW e \in Value, LSet(k, index, e)
  PROVE  Idles(k) \/ Updates(k)
<1>1. PICK v : v = Visit(<<k>>, "list")  OBVIOUS
<1>2. PICK d : d = v.db /\ Sound(d)  BY <1>1, VisitSound
<1>3. PICK s, i : s = Get(d, "list", k) /\ i = IF index >= 0 THEN index + 1 ELSE Len(s) + index + 1  OBVIOUS
<1>4. \/ Answer(d, "refused")
      \/ v.ok /\ i \in DOMAIN s /\ Commit(d, "list", k, [s EXCEPT ![i] = e], "updated")
  BY <1>1, <1>2, <1>3 DEF LSet, OnKey
<1>5. ASSUME i \in DOMAIN s PROVE MayHold("list", [s EXCEPT ![i] = e])
  <2>1. "list" \in Type \ {"store"}  BY DEF Type
  <2>2. s \in Seq(Val)  BY <1>2, <1>3, <2>1, GetOK DEF ContentOK
  <2>3. PICK r : r = [s EXCEPT ![i] = e]  OBVIOUS
  <2>4. e \in Val  BY ValuesAreVals
  <2>5. r \in [1 .. Len(s) -> Val] /\ Len(s) \in Nat  BY <2>2, <2>3, <2>4, <1>5
  <2>6. r \in Seq(Val) /\ i \in DOMAIN r  BY <2>5, <1>5, <2>2
  <2>7. DOMAIN << >> = {}  OBVIOUS
  <2>8. MayHold("list", r)  BY <2>6, <2>7 DEF MayHold, ContentOK, Nothing, Empty
  <2> QED  BY <2>3, <2>8
<1>6. "list" \in Type  BY DEF Type
<1> QED  BY <1>1, <1>2, <1>4, <1>5, <1>6, OnKeyDoes

LEMMA OneOfTwo ==
  ASSUME NEW a \in Int, NEW b \in Int
  PROVE  /\ Max({a, b}) \in {a, b} /\ Max({a, b}) >= a /\ Max({a, b}) >= b
         /\ Min({a, b}) \in {a, b} /\ Min({a, b}) <= a /\ Min({a, b}) <= b
<1>1. \E x \in {a, b} : \A y \in {a, b} : x >= y  OBVIOUS
<1>2. \E x \in {a, b} : \A y \in {a, b} : x =< y  OBVIOUS
<1>3. Max({a, b}) \in {a, b} /\ \A y \in {a, b} : Max({a, b}) >= y  BY <1>1 DEF Max
<1>4. Min({a, b}) \in {a, b} /\ \A y \in {a, b} : Min({a, b}) =< y  BY <1>2 DEF Min
<1> QED  BY <1>3, <1>4

(* Whatever the indices, LTRIM leaves a part of the list. *)
LEMMA RangeIsPart ==
  ASSUME NEW s \in Seq(Val), NEW start \in Int, NEW stop \in Int
  PROVE  \E first, last : PartFrom(s, ListRange(s, start, stop), first, last)
<1>1. PICK n \in Nat : n = Len(s)  OBVIOUS
<1>2. PICK from, to :
        /\ from = IF start >= 0 THEN start ELSE Max({0, n + start})
        /\ to = IF stop >= 0 THEN Min({stop, n - 1}) ELSE n + stop
  OBVIOUS
<1>3. ListRange(s, start, stop) = SubSeq(s, from + 1, to + 1)  BY <1>1, <1>2 DEF ListRange
<1>4. from \in Nat
  <2>1. PICK m \in Int : m = n + start  OBVIOUS
  <2>2. Max({0, m}) \in {0, m} /\ Max({0, m}) >= 0
    <3>1. PICK zero \in Int : zero = 0  OBVIOUS
    <3>2. Max({zero, m}) \in {zero, m} /\ Max({zero, m}) >= zero  BY OneOfTwo
    <3> QED  BY <3>1, <3>2
  <2>3. Max({0, n + start}) \in Nat  BY <2>1, <2>2
  <2> QED  BY <1>2, <2>3
<1>5. to \in Int /\ to <= n - 1
  <2>1. PICK m \in Int : m = n - 1  OBVIOUS
  <2>2. Min({stop, m}) \in {stop, m} /\ Min({stop, m}) <= m  BY OneOfTwo
  <2>3. Min({stop, n - 1}) \in Int /\ Min({stop, n - 1}) <= n - 1  BY <2>1, <2>2
  <2>4. CASE stop >= 0  BY <2>3, <2>4, <1>2
  <2>5. CASE ~(stop >= 0)
    <3>1. to = n + stop  BY <2>5, <1>2
    <3> QED  BY <3>1, <2>5
  <2> QED  BY <2>4, <2>5
<1>6. PICK first \in Nat \ {0}, last \in Int : first = from + 1 /\ last = to + 1 /\ last <= Len(s)
  <2>1. from + 1 \in Nat \ {0} /\ to + 1 \in Int /\ to + 1 <= n  BY <1>4, <1>5
  <2> QED  BY <2>1, <1>1
<1>7. PICK r : r = ListRange(s, start, stop) /\ r = SubSeq(s, first, last)  BY <1>3, <1>6
<1>8. PartFrom(s, r, first, last)  BY <1>6, <1>7, PartOfList
<1> QED  BY <1>7, <1>8

LEMMA LTrimSound ==
  ASSUME RedisInv, NEW k \in Key, NEW start \in Index, NEW stop \in Index, LTrim(k, start, stop)
  PROVE  RedisInv'
<1>1. PICK d : d = Visit(<<k>>, "list").db  OBVIOUS
<1>2. Sound(d)  BY <1>1, VisitSound
<1>3. \/ \E a : Answer(d, a)
      \/ k \in DOMAIN d["list"] /\ Answer(Shrink(d, "list", k, ListRange(d["list"][k], start, stop)), "taken")
  BY <1>1 DEF LTrim, OnPresent, OnKey
<1>4. ASSUME k \in DOMAIN d["list"]
      PROVE  Sound(Shrink(d, "list", k, ListRange(d["list"][k], start, stop)))
  <2>1. PICK s, r : s = d["list"][k] /\ r = ListRange(s, start, stop)  OBVIOUS
  <2>2. s \in Seq(Val)  BY <1>2, <1>4, <2>1, ListHeld
  <2>3. start \in Int /\ stop \in Int  BY RedisAssumption DEF RedisAssumption
  <2>4. PICK first, last : PartFrom(s, r, first, last)  BY <2>1, <2>2, <2>3, RangeIsPart
  <2>5. r \in Seq(Val) /\ \A i \in DOMAIN r : r[i] = s[i + first - 1]  BY <2>4 DEF PartFrom
  <2>6. PICK f \in Injection(DOMAIN r, DOMAIN s) : \A i \in DOMAIN r : f[i] = i + first - 1
    BY <2>4 DEF PartFrom
  <2>7. \A i \in DOMAIN r : s[f[i]] = r[i]  BY <2>5, <2>6
  <2>8. Sound(Shrink(d, "list", k, r))  BY <1>2, <1>4, <2>1, <2>5, <2>7, ListShrinks
  <2> QED  BY <2>1, <2>8
<1> QED  BY <1>2, <1>3, <1>4, AnswerSound

(* The places that are left are numbered anew, in order. *)
LEMMA RanksAre ==
  ASSUME NEW n \in Nat, NEW left, left \subseteq 1 .. n
  PROVE  /\ Cardinality(left) \in Nat
         /\ \A place \in 1 .. Cardinality(left) :
              \E i \in left : Cardinality({j \in left : j <= i}) = place
<1> DEFINE upTo(i) == {j \in left : j <= i}
           m == Cardinality(left)
           rank == [i \in left |-> Cardinality(upTo(i))]
<1>1. IsFiniteSet(left) /\ m \in Nat
  <2>1. IsFiniteSet(1 .. n)  BY FS_Interval
  <2> QED  BY <2>1, FS_Subset, FS_CardinalityType
<1>2. \A i \in left : IsFiniteSet(upTo(i)) /\ Cardinality(upTo(i)) \in Nat /\ Cardinality(upTo(i)) <= m
  <2> SUFFICES ASSUME NEW i \in left
               PROVE  IsFiniteSet(upTo(i)) /\ Cardinality(upTo(i)) \in Nat /\ Cardinality(upTo(i)) <= m
    OBVIOUS
  <2>1. upTo(i) \in SUBSET left  OBVIOUS
  <2> HIDE DEF upTo
  <2> QED  BY <1>1, <2>1, FS_Subset, FS_CardinalityType
<1>3. ASSUME NEW i \in left PROVE rank[i] \in 1 .. m
  <2>1. rank[i] = Cardinality(upTo(i))  OBVIOUS
  <2>2. upTo(i) # {}
    <3>1. i \in upTo(i)  OBVIOUS
    <3> QED  BY <3>1
  <2>3. IsFiniteSet(upTo(i))  BY <1>2
  <2> HIDE DEF upTo, rank, m
  <2>4. Cardinality(upTo(i)) # 0  BY <2>2, <2>3, FS_EmptySet
  <2>5. Cardinality(upTo(i)) \in Nat /\ Cardinality(upTo(i)) <= m  BY <1>2
  <2> QED  BY <1>1, <2>1, <2>4, <2>5
<1>4. ASSUME NEW i \in left, NEW j \in left, i < j PROVE rank[i] # rank[j]
  <2>1. upTo(i) \in SUBSET upTo(j)
    <3>1. i \in Nat /\ j \in Nat /\ \A x \in left : x \in Nat  OBVIOUS
    <3>2. \A x \in left : x <= i => x <= j  BY <3>1, <1>4
    <3> QED  BY <3>2
  <2>2. j \in upTo(j) /\ j \notin upTo(i)  BY <1>4
  <2>3. IsFiniteSet(upTo(j))  BY <1>2
  <2>4. rank[i] = Cardinality(upTo(i)) /\ rank[j] = Cardinality(upTo(j))  OBVIOUS
  <2> HIDE DEF upTo, rank
  <2>5. upTo(i) # upTo(j)  BY <2>2
  <2>6. Cardinality(upTo(i)) # Cardinality(upTo(j))  BY <2>1, <2>3, <2>5, FS_Subset
  <2> QED  BY <2>4, <2>6
<1>5. rank \in Injection(left, 1 .. m)
  <2>1. rank \in [left -> 1 .. m]
    <3>1. rank = [i \in left |-> rank[i]]  OBVIOUS
    <3> HIDE DEF rank, m
    <3> QED  BY <1>3, <3>1
  <2> HIDE DEF rank, m
  <2>2. \A i, j \in left : rank[i] = rank[j] => i = j
    <3> SUFFICES ASSUME NEW i \in left, NEW j \in left, i # j PROVE rank[i] # rank[j]  OBVIOUS
    <3>1. i < j \/ j < i  OBVIOUS
    <3> QED  BY <3>1, <1>4
  <2> QED  BY <2>1, <2>2 DEF Injection, IsInjective
<1>6. IsFiniteSet(1 .. m) /\ Cardinality(1 .. m) = m
  <2> HIDE DEF m
  <2>1. IsFiniteSet(1 .. m) /\ Cardinality(1 .. m) = IF 1 > m THEN 0 ELSE m - 1 + 1  BY <1>1, FS_Interval
  <2> QED  BY <2>1, <1>1
<1>7. rank \in Surjection(left, 1 .. m)
  <2>1. Cardinality(left) = Cardinality(1 .. m)  BY <1>6
  <2> HIDE DEF rank, m
  <2> QED  BY <1>5, <1>6, <2>1, FS_Injection
<1>8. ASSUME NEW place \in 1 .. m PROVE \E i \in left : rank[i] = place
  <2> HIDE DEF rank, m
  <2> QED  BY <1>7 DEF Surjection
<1>9. \A i \in left : rank[i] = Cardinality({j \in left : j <= i})  OBVIOUS
<1> HIDE DEF rank
<1> QED  BY <1>1, <1>8, <1>9

(* What LREM leaves is what stands at other places, each once. *)
LEMMA RemovedIsPart ==
  ASSUME NEW s \in Seq(Val), NEW n, NEW e, NEW r, r = WithoutElement(s, n, e)
  PROVE  /\ r \in Seq(Val)
         /\ \E f \in Injection(DOMAIN r, DOMAIN s) : \A i \in DOMAIN r : s[f[i]] = r[i]
<1>1. PICK left : /\ left \subseteq DOMAIN s
                  /\ r = [place \in 1 .. Cardinality(left) |->
                            s[CHOOSE i \in left : Cardinality({j \in left : j <= i}) = place]]
  <2> DEFINE at   == {i \in DOMAIN s : s[i] = e}
             gone == CASE n = 0 -> at
                       [] n > 0 -> {i \in at : Cardinality({j \in at : j <= i}) <= n}
                       [] n < 0 -> {i \in at : Cardinality({j \in at : j >= i}) <= -n}
  <2>1. PICK left : left = DOMAIN s \ gone  OBVIOUS
  <2>2. r = [place \in 1 .. Cardinality(left) |->
               s[CHOOSE i \in left : Cardinality({j \in left : j <= i}) = place]]
    BY <2>1 DEF WithoutElement
  <2>3. left \subseteq DOMAIN s  BY <2>1
  <2> QED  BY <2>2, <2>3
<1>2. Len(s) \in Nat /\ DOMAIN s = 1 .. Len(s)  OBVIOUS
<1>3. PICK m : m = Cardinality(left)  OBVIOUS
<1>4. m \in Nat /\ \A place \in 1 .. m : \E i \in left : Cardinality({j \in left : j <= i}) = place
  BY <1>1, <1>2, <1>3, RanksAre
<1> DEFINE from(place) == CHOOSE i \in left : Cardinality({j \in left : j <= i}) = place
           f == [place \in 1 .. m |-> from(place)]
<1>5. \A place \in 1 .. m : from(place) \in left /\ Cardinality({j \in left : j <= from(place)}) = place
  BY <1>4
<1>6. r = [place \in 1 .. m |-> s[from(place)]]  BY <1>1, <1>3
<1> HIDE DEF from
<1>7. DOMAIN r = 1 .. m /\ \A i \in 1 .. m : r[i] = s[from(i)] /\ from(i) \in DOMAIN s
  BY <1>1, <1>5, <1>6
<1>8. r \in Seq(Val)
  <2>1. \A i \in 1 .. m : s[from(i)] \in Val  BY <1>7
  <2>2. r \in [1 .. m -> Val]  BY <1>6, <2>1
  <2> QED  BY <2>2, <1>4
<1>9. f \in Injection(DOMAIN r, DOMAIN s)
  <2>1. f \in [DOMAIN r -> DOMAIN s]  BY <1>7
  <2>2. \A i, j \in DOMAIN r : f[i] = f[j] => i = j
    <3> SUFFICES ASSUME NEW i \in 1 .. m, NEW j \in 1 .. m, from(i) = from(j) PROVE i = j  BY <1>7
    <3>1. Cardinality({l \in left : l <= from(i)}) = i /\ Cardinality({l \in left : l <= from(j)}) = j
      BY <1>5
    <3> QED  BY <3>1
  <2> QED  BY <2>1, <2>2 DEF Injection, IsInjective
<1>10. \A i \in DOMAIN r : s[f[i]] = r[i]  BY <1>7
<1> HIDE DEF f
<1> QED  BY <1>8, <1>9, <1>10

LEMMA LRemSound == ASSUME RedisInv, NEW k \in Key, NEW n, NEW e, LRem(k, n, e) PROVE RedisInv'
<1>1. PICK d : d = Visit(<<k>>, "list").db  OBVIOUS
<1>2. Sound(d)  BY <1>1, VisitSound
<1>3. \/ \E a : Answer(d, a)
      \/ k \in DOMAIN d["list"] /\ \E a : Answer(Shrink(d, "list", k, WithoutElement(d["list"][k], n, e)), a)
  BY <1>1 DEF LRem, OnPresent, OnKey
<1>4. ASSUME k \in DOMAIN d["list"] PROVE Sound(Shrink(d, "list", k, WithoutElement(d["list"][k], n, e)))
  <2>1. PICK s, r : s = d["list"][k] /\ r = WithoutElement(s, n, e)  OBVIOUS
  <2>2. s \in Seq(Val)  BY <1>2, <1>4, <2>1, ListHeld
  <2>3. r \in Seq(Val)  BY <2>1, <2>2, RemovedIsPart
  <2>4. PICK f \in Injection(DOMAIN r, DOMAIN s) : \A i \in DOMAIN r : s[f[i]] = r[i]
    BY <2>1, <2>2, RemovedIsPart
  <2>5. Sound(Shrink(d, "list", k, r))  BY <1>2, <1>4, <2>1, <2>3, <2>4, ListShrinks
  <2> QED  BY <2>1, <2>5
<1> QED  BY <1>2, <1>3, <1>4, AnswerSound

-----------------------------------------------------------------------------
(* Keys of any type. *)
LEMMA DelSound == ASSUME RedisInv, NEW K, Del(K) PROVE RedisInv'
<1>1. PICK d, held : d = Purge(redis, K) /\ held = {k \in K : Has(d, k)}  OBVIOUS
<1>2. Sound(Delete(d, held))  BY <1>1, PurgeSound, DeleteSound DEF RedisInv
<1>3. \E a : Answer(Delete(d, held), a)  BY <1>1 DEF Del
<1> QED  BY <1>2, <1>3, AnswerSound

(* Deadlines may be set and lifted, of keys that are there. *)
LEMMA DeadlinesSound ==
  ASSUME NEW d, Sound(d), NEW e, DOMAIN e = Dictionary, \A t \in Type : e[t] = d[t],
         \A k \in DOMAIN e.expirations : k \in Key /\ e.expirations[k] \in Nat /\ Has(d, k)
  PROVE  Sound(e)
<1>1. StoreBytes(e) = StoreBytes(d)
  <2>1. ASSUME NEW b PROVE b \in StoreBytes(e) <=> b \in StoreBytes(d)
    <3>1. b \in StoreBytes(e) <=> \E t \in Type, k \in Key : k \in DOMAIN e[t] /\ b \in {<<t, k>>} \X Usage(t, e[t][k])
      BY StoreBytesAre
    <3>2. b \in StoreBytes(d) <=> \E t \in Type, k \in Key : k \in DOMAIN d[t] /\ b \in {<<t, k>>} \X Usage(t, d[t][k])
      BY StoreBytesAre
    <3> QED  BY <3>1, <3>2
  <2> QED  BY <2>1
<1>2. Shape(e)  BY <1>1 DEF Sound, Shape
<1>3. Apart(e) /\ Filled(e)  BY DEF Sound, Apart, Filled
<1>4. Dated(e)
  <2>1. \A k : Has(d, k) => Has(e, k)  BY DEF Has
  <2> QED  BY <2>1 DEF Dated
<1>5. Within(e)  BY <1>1 DEF Sound, Within, TotalStoreBytes
<1> QED  BY <1>2, <1>3, <1>4, <1>5 DEF Sound

LEMMA ExpireSound ==
  ASSUME RedisInv, NEW k \in Key, NEW ttl \in Nat, Expire(k, ttl) PROVE RedisInv'
<1>1. PICK d : d = Purge(redis, {k})  OBVIOUS
<1>2. Sound(d)  BY <1>1, PurgeSound DEF RedisInv
<1>3. \/ \E a : Answer(d, a)
      \/ \E a : Answer(Delete(d, {k}), a)
      \/ Has(d, k) /\ Answer(Put(d, "expirations", k, ttl), "timed")
  BY <1>1 DEF Expire
<1>4. ASSUME Has(d, k) PROVE Sound(Put(d, "expirations", k, ttl))
  <2>1. PICK e : e = Put(d, "expirations", k, ttl)  OBVIOUS
  <2>2. DOMAIN d = Dictionary /\ "expirations" \in Dictionary  BY <1>2 DEF Sound, Shape, Dictionary
  <2>3. /\ DOMAIN e = Dictionary
        /\ \A u \in Dictionary : u # "expirations" => e[u] = d[u]
        /\ DOMAIN e.expirations = DOMAIN d.expirations \cup {k}
        /\ e.expirations[k] = ttl
        /\ \A j \in DOMAIN d.expirations : j # k => e.expirations[j] = d.expirations[j]
    BY <2>1, <2>2, PutIs
  <2>4. \A t \in Type : e[t] = d[t]  BY <2>3 DEF Dictionary, Type
  <2>5. \A j \in DOMAIN d.expirations : j \in Key /\ d.expirations[j] \in Nat /\ Has(d, j)
    BY <1>2 DEF Sound, Shape, Dated
  <2>6. \A j \in DOMAIN e.expirations : j \in Key /\ e.expirations[j] \in Nat /\ Has(d, j)
    BY <1>4, <2>3, <2>5
  <2>7. Sound(e)  BY <1>2, <2>3, <2>4, <2>6, DeadlinesSound
  <2> QED  BY <2>1, <2>7
<1>5. Sound(Delete(d, {k}))  BY <1>2, DeleteSound
<1> QED  BY <1>2, <1>3, <1>4, <1>5, AnswerSound

LEMMA PersistSound == ASSUME RedisInv, NEW k \in Key, Persist(k) PROVE RedisInv'
<1>1. PICK d : d = Purge(redis, {k})  OBVIOUS
<1>2. Sound(d)  BY <1>1, PurgeSound DEF RedisInv
<1>3. PICK e : e = [d EXCEPT !.expirations = Without(d.expirations, {k})]  OBVIOUS
<1>4. \E a : Answer(e, a)  BY <1>1, <1>3 DEF Persist
<1>5. DOMAIN d = Dictionary /\ "expirations" \in Dictionary /\ \A t \in Type : t # "expirations"
  BY <1>2 DEF Sound, Shape, Dictionary, Type
<1>6. DOMAIN e = Dictionary /\ (\A t \in Type : e[t] = d[t]) /\ e.expirations = Without(d.expirations, {k})
  <2>1. DOMAIN e = Dictionary /\ e.expirations = Without(d.expirations, {k})  BY <1>3, <1>5
  <2>2. \A t \in Dictionary : t # "expirations" => e[t] = d[t]  BY <1>3, <1>5
  <2> QED  BY <2>1, <2>2, <1>5 DEF Dictionary
<1>7. \A j \in DOMAIN e.expirations : j \in DOMAIN d.expirations /\ e.expirations[j] = d.expirations[j]
  BY <1>6 DEF Without, Restrict
<1>8. \A j \in DOMAIN d.expirations : j \in Key /\ d.expirations[j] \in Nat /\ Has(d, j)
  BY <1>2 DEF Sound, Shape, Dated
<1>9. Sound(e)  BY <1>2, <1>6, <1>7, <1>8, DeadlinesSound
<1> QED  BY <1>4, <1>9, AnswerSound

LEMMA ReadMetaSound == ASSUME RedisInv, NEW K, ReadMeta(K) PROVE RedisInv'
<1>1. PICK d : d = Purge(redis, K)  OBVIOUS
<1>2. Sound(d)  BY <1>1, PurgeSound DEF RedisInv
<1>3. \E a : Answer(d, a)  BY <1>1 DEF ReadMeta
<1> QED  BY <1>2, <1>3, AnswerSound

LEMMA FlushSound == ASSUME RedisInv, FlushAll PROVE RedisInv'
<1>1. DOMAIN redis = Dictionary  BY DEF RedisInv, Sound, Shape
<1>2. PICK e : e = [t \in DOMAIN redis |-> Empty]  OBVIOUS
<1>3. redis' = e  BY <1>2 DEF FlushAll, Answer
<1>4. DOMAIN e = Dictionary /\ \A t \in Dictionary : DOMAIN e[t] = {}  BY <1>1, <1>2 DEF Empty
<1>5. Loses(redis, e, Key)
  <2>1. (\A t \in Type : DOMAIN e[t] = {}) /\ DOMAIN e.expirations = {}  BY <1>4 DEF Dictionary
  <2>2. \A t \in Type : DOMAIN redis[t] \subseteq Key  BY DEF RedisInv, Sound, Shape
  <2> QED  BY <1>4, <2>1, <2>2 DEF Loses
<1>6. DOMAIN e.expirations \cap Key = {}  BY <1>4 DEF Dictionary
<1>7. Sound(e)  BY <1>5, <1>6, LosesSound DEF RedisInv
<1> QED  BY <1>3, <1>7 DEF RedisInv

LEMMA RedisTickSound == ASSUME RedisInv, Tick PROVE RedisInv'
<1>1. PICK d, e : d = redis /\ e = redis'  OBVIOUS
<1>2. DOMAIN d = Dictionary /\ "expirations" \in Dictionary /\ \A t \in Type : t \in Dictionary /\ t # "expirations"
  BY <1>1 DEF RedisInv, Sound, Shape, Dictionary, Type
<1>3. e = [d EXCEPT !.expirations = [k \in DOMAIN d.expirations |-> Max({0, d.expirations[k] - 1})]]
  BY <1>1 DEF Tick
<1>4. /\ DOMAIN e = Dictionary /\ \A t \in Type : e[t] = d[t]
      /\ e.expirations = [k \in DOMAIN d.expirations |-> Max({0, d.expirations[k] - 1})]
  BY <1>2, <1>3
<1>5. \A k \in DOMAIN d.expirations : k \in Key /\ d.expirations[k] \in Nat /\ Has(d, k)
  BY <1>1 DEF RedisInv, Sound, Shape, Dated
<1>6. ASSUME NEW k \in DOMAIN d.expirations PROVE Max({0, d.expirations[k] - 1}) \in Nat
  <2>1. PICK n \in Int : n = d.expirations[k] - 1  BY <1>5
  <2>2. Max({0, n}) \in {0, n} /\ Max({0, n}) >= 0  BY OneOfTwo
  <2>3. Max({0, n}) \in Nat  BY <2>2
  <2> QED  BY <2>1, <2>3
<1>7. \A k \in DOMAIN e.expirations : k \in Key /\ e.expirations[k] \in Nat /\ Has(d, k)
  BY <1>4, <1>5, <1>6
<1>8. Sound(e)  BY <1>1, <1>4, <1>7, DeadlinesSound DEF RedisInv
<1> QED  BY <1>1, <1>8 DEF RedisInv

(* Every command, and the time that passes. *)
LEMMA StringCommandSound == ASSUME RedisInv, StringCommand PROVE RedisInv'
<1>1. CASE \E ks \in Keys : \E value \in [Range(ks) -> Value] : MSet(ks, value)  BY <1>1, MSetSound
<1>2. CASE \E ks \in Keys : ReadStrings(ks)  BY <1>2, ReadManySound DEF ReadStrings
<1>3. CASE \E k \in Key : Incr(k)  BY <1>3, IncrDoes, IdlesOrUpdatesSound
<1>4. CASE \E k \in Key, v \in Value : Set(k, v)  BY <1>4, SetSound
<1> QED  BY <1>1, <1>2, <1>3, <1>4 DEF StringCommand

LEMMA HashCommandSound == ASSUME RedisInv, HashCommand PROVE RedisInv'
<1>1. PICK k \in Key :
        ReadHash(k) \/ \E F \in (SUBSET Field) \ {{}} : \E fields \in [F -> Value] : HSet(k, fields)
  BY DEF HashCommand
<1>2. CASE ReadHash(k)  BY <1>2, ReadHashSound
<1>3. CASE \E F \in (SUBSET Field) \ {{}} : \E fields \in [F -> Value] : HSet(k, fields)
  BY <1>3, HSetDoes, IdlesOrUpdatesSound
<1> QED  BY <1>1, <1>2, <1>3

LEMMA SetCommandSound == ASSUME RedisInv, SetCommand PROVE RedisInv'
<1>1. CASE \E k \in Key : ReadSet(k)  BY <1>1, ReadSetSound
<1>2. CASE \E k \in Key : \E count \in 0 .. MaxArgs : SPop(k, count)  BY <1>2, SRemSound
<1>3. CASE \E k \in Key : \E M \in (SUBSET Value) \ {{}} : SAdd(k, M)  BY <1>3, SAddDoes, IdlesOrUpdatesSound
<1>4. CASE \E k \in Key : \E M \in (SUBSET Value) \ {{}} : SRem(k, M)  BY <1>4, SRemSound
<1>5. CASE \E s, t \in Key, m \in Value : SMove(s, t, m)  BY <1>5, SMoveSound
<1>6. CASE \E ks \in Keys : CombineSets(ks)  BY <1>6, ReadManySound DEF CombineSets
<1>7. CASE \E ks \in Keys, k \in Key : SUnionStore(k, ks) \/ SInterStore(k, ks) \/ SDiffStore(k, ks)
  BY <1>7, SStoreSound
<1> QED  BY <1>1, <1>2, <1>3, <1>4, <1>5, <1>6, <1>7 DEF SetCommand

LEMMA ListCommandSound == ASSUME RedisInv, ListCommand PROVE RedisInv'
<1>1. CASE \E k \in Key, vs \in Values : LPush(k, vs) \/ RPush(k, vs)  BY <1>1, PushDoes, IdlesOrUpdatesSound
<1>2. CASE \E k \in Key : \E end : ListPop(k, end)  BY <1>2, ListPopSound
<1>3. CASE \E k \in Key : ReadList(k)  BY <1>3, ReadListSound
<1>4. CASE \E s, t \in Key : \E from, to : LMove(s, t, from, to)  BY <1>4, LMoveSound
<1>5. CASE \E k \in Key, e \in Value, after \in {0, 1} : \E pivot : LInsert(k, after, pivot, e)
  BY <1>5, LInsertDoes, IdlesOrUpdatesSound
<1>6. CASE \E k \in Key, e \in Value, i \in Index : LSet(k, i, e)  BY <1>6, LSetDoes, IdlesOrUpdatesSound
<1>7. CASE \E k \in Key : \E i, e : LRem(k, i, e)  BY <1>7, LRemSound
<1>8. CASE \E k \in Key, i, j \in Index : LTrim(k, i, j)  BY <1>8, LTrimSound
<1> QED  BY <1>1, <1>2, <1>3, <1>4, <1>5, <1>6, <1>7, <1>8 DEF ListCommand

LEMMA KeyCommandSound == ASSUME RedisInv, KeyCommand PROVE RedisInv'
<1>1. CASE \E k \in Key : Persist(k)  BY <1>1, PersistSound
<1>2. CASE \E k \in Key : \E ttl \in Ttl \cup {0} : Expire(k, ttl)
  <2>1. Ttl \cup {0} \subseteq Nat  BY RedisAssumption DEF RedisAssumption
  <2> QED  BY <1>2, <2>1, ExpireSound
<1>3. CASE \E K : Del(K)  BY <1>3, DelSound
<1>4. CASE \E K : ReadMeta(K)  BY <1>4, ReadMetaSound
<1>5. CASE FlushAll  BY <1>5, FlushSound
<1> QED  BY <1>1, <1>2, <1>3, <1>4, <1>5 DEF KeyCommand, ListKeys

LEMMA RedisNextKeepsInv == ASSUME RedisInv, [RedisNext]_redisVars PROVE RedisInv'
<1>1. CASE UNCHANGED redisVars  BY <1>1 DEF redisVars, RedisInv
<1>2. CASE RedisNext
  BY <1>2, StringCommandSound, HashCommandSound, SetCommandSound, ListCommandSound, KeyCommandSound,
     RedisTickSound DEF RedisNext
<1> QED  BY <1>1, <1>2

LEMMA RedisInvSound == ASSUME RedisInv PROVE StoreSound
<1>1. ASSUME NEW k \in Key, NEW t \in Type, k \in DOMAIN redis[t]
      PROVE  ~Wrong(redis, k, t) /\ (t # "store" => redis[t][k] # Nothing(t))
  BY <1>1 DEF RedisInv, Sound, Apart, Filled, Wrong
<1>2. \A k \in DOMAIN redis.expirations : Has(redis, k)  BY DEF RedisInv, Sound, Dated
<1>3. TotalStoreBytes(redis) <= MaxBytes  BY DEF RedisInv, Sound, Within
<1> QED  BY <1>1, <1>2, <1>3 DEF StoreSound

(* What k had of type t is c now, or k is gone; no other key is touched. *)
Shrunk(d, t, k, c, e) ==
  /\ \A j : j # k => Alike(d, e, j)
  /\ c = Nothing(t) => Absent(e, k)
  /\ c # Nothing(t) => e.expirations = d.expirations /\ k \in DOMAIN e[t] /\ e[t][k] = c

-----------------------------------------------------------------------------
(* Taking elements from a key. *)
LEMMA ShrinkIs ==
  ASSUME NEW d, DOMAIN d = Dictionary, NEW t \in Type, NEW k, k \in DOMAIN d[t], NEW c, NEW e, e = Shrink(d, t, k, c)
  PROVE  Shrunk(d, t, k, c, e)
<1> USE DEF Shrunk
<1>1. DOMAIN d = Dictionary /\ t \in Dictionary /\ t # "expirations" /\ "expirations" \in Dictionary
  BY DEF Sound, Shape, Dictionary, Type
<1>2. CASE c = Nothing(t)
  <2>1. e = Delete(d, {k})  BY <1>2 DEF Shrink
  <2> QED  BY <2>1, <1>1, <1>2, DeleteAgrees, DeleteGone
<1>3. CASE c # Nothing(t)
  <2>1. e = Put(d, t, k, c)  BY <1>3 DEF Shrink
  <2>2. /\ \A u \in Dictionary : u # t => e[u] = d[u]
        /\ DOMAIN e[t] = DOMAIN d[t] \cup {k} /\ e[t][k] = c
    BY <2>1, <1>1, PutIs
  <2>3. \A j : j # k => Alike(d, e, j)  BY <2>1, <1>1, PutAgrees
  <2> QED  BY <2>2, <2>3, <1>1, <1>3
<1> QED  BY <1>2, <1>3

(* The deadline of j is the one it had. *)
Keeps(d, e, j) ==
  /\ j \in DOMAIN d.expirations <=> j \in DOMAIN e.expirations
  /\ j \in DOMAIN d.expirations => e.expirations[j] = d.expirations[j]

LEMMA AlikeKeeps == ASSUME NEW d, NEW e, NEW j, Alike(d, e, j) PROVE Keeps(d, e, j)
BY DEF Alike, Keeps, Dictionary

LEMMA DeadlinesKept ==
  ASSUME NEW d, SameView(redis, d), NEW e, Sound(e), redis' = e, \A j \in Key : Absent(e, j) \/ Keeps(d, e, j)
  PROVE  KeyStore!NoNewDeadline /\ \A k : KeyStore!SameDeadline(k)
<1>1. ASSUME NEW j, ~Absent(e, j), j \in Key
      PROVE  j \in DOMAIN DueOf(e) <=> j \in DOMAIN DueOf(d)
  <2>1. Keeps(d, e, j)  BY <1>1
  <2>2. j \in Expired(d) <=> j \in Expired(e)  BY <2>1 DEF Keeps, Expired
  <2> QED  BY <2>1, <2>2, DueIs DEF Keeps
<1>2. ASSUME NEW j \in DOMAIN DueOf(e) PROVE j \in DOMAIN DueOf(d)
  <2>1. j \in DOMAIN e.expirations /\ j \in Key  BY DueIs, SoundKeys
  <2>2. ~Absent(e, j)  BY <2>1 DEF Absent, Dictionary
  <2> QED  BY <2>1, <2>2, <1>1
<1>3. ASSUME NEW j \in DOMAIN DataOf(e), j \in DOMAIN DueOf(d)
      PROVE  j \in DOMAIN DueOf(e) /\ DueOf(e)[j] = DueOf(d)[j]
  <2>1. j \in Key /\ Has(e, j)  BY SeenHas
  <2>2. ~Absent(e, j)  BY <2>1, GoneIs
  <2>3. j \in DOMAIN DueOf(e)  BY <2>1, <2>2, <1>1, <1>3
  <2>4. Keeps(d, e, j)  BY <2>1, <2>2
  <2>5. e.expirations[j] = d.expirations[j]  BY <2>4, <1>3, DueIs DEF Keeps
  <2> QED  BY <2>3, <2>5, <1>3, DueIs
<1>4. LiveData' = DataOf(e) /\ Without(redis.expirations, Expired(redis))' = DueOf(e)  BY SeenAfter
<1>5. Without(redis.expirations, Expired(redis)) = DueOf(d)  BY SeenBefore
<1>6. KeyStore!NoNewDeadline  BY <1>2, <1>4, <1>5 DEF KeyStore!NoNewDeadline
<1>7. ASSUME NEW k PROVE KeyStore!SameDeadline(k)  BY <1>3, <1>4, <1>5 DEF KeyStore!SameDeadline
<1> QED  BY <1>6, <1>7

LEMMA SomeMembers ==
  ASSUME NEW t \in {"list", "set"}, NEW c, ContentOK(t, c), c # Nothing(t)
  PROVE  Members(t, c) # {}
<1>1. CASE t = "set"  BY <1>1 DEF Members, Nothing
<1>2. CASE t = "list"
  <2>1. c \in Seq(Val) /\ c # << >>  BY <1>2 DEF ContentOK, Nothing, Empty
  <2>2. 1 \in DOMAIN c  BY <2>1
  <2> QED  BY <1>2, <2>2 DEF Members, Range
<1> QED  BY <1>1, <1>2

LEMMA TakenRefines ==
  ASSUME RedisInv', NEW d, NEW k \in Key, Purged(d, {k}), NEW t \in {"list", "set"}, k \in DOMAIN d[t],
         NEW c, Members(t, c) \subseteq Members(t, d[t][k]), Answer(Shrink(d, t, k, c), "taken")
  PROVE  KeyStore!StoreNext
<1>1. PICK e : e = Shrink(d, t, k, c)  OBVIOUS
<1>2. redis' = e /\ reply' = "taken"  BY <1>1 DEF Answer
<1>3. Sound(d) /\ SameView(redis, d) /\ k \notin Expired(d) /\ Sound(e) /\ t \in Type
  BY <1>2 DEF Purged, RedisInv, Type
<1>4. /\ \A j : j # k => Alike(d, e, j)
      /\ c = Nothing(t) => Absent(e, k)
      /\ c # Nothing(t) => e.expirations = d.expirations /\ k \in DOMAIN e[t] /\ e[t][k] = c
  <2>1. DOMAIN d = Dictionary  BY <1>3, SoundKeys
  <2>2. Shrunk(d, t, k, c, e)  BY <2>1, <1>1, <1>3, ShrinkIs
  <2> QED  BY <2>2 DEF Shrunk
<1>5. KeyStore!OnlyKeys({k})
  <2>1. Agree(d, e, {k})  BY <1>4 DEF Agree
  <2> QED  BY <2>1, <1>2, <1>3, AgreeOnly
<1>6. KeyStore!NoNewDeadline /\ KeyStore!SameDeadline(k)
  <2>1. Absent(e, k) \/ Keeps(d, e, k)  BY <1>4 DEF Keeps
  <2>2. \A j \in Key : Absent(e, j) \/ Keeps(d, e, j)  BY <2>1, <1>4, AlikeKeeps
  <2> QED  BY <2>2, <1>2, <1>3, DeadlinesKept
<1>7. /\ k \in DOMAIN DataOf(d) /\ KeyStore!TypeOf(DataOf(d), k) = {t}
      /\ KeyStore!Elements(DataOf(d), k) = Members(t, d[t][k])
  BY <1>3, KeyIs
<1>8. /\ KeyStore!Elements(DataOf(e), k) \subseteq Members(t, d[t][k])
      /\ k \in DOMAIN DataOf(e) =>
           KeyStore!TypeOf(DataOf(e), k) = {t} /\ KeyStore!Elements(DataOf(e), k) # {}
  <2>1. CASE c = Nothing(t)
    <3>1. ~Has(e, k)  BY <2>1, <1>4, GoneIs
    <3> QED  BY <3>1, KeyIsNot
  <2>2. CASE c # Nothing(t)
    <3>1. k \notin Expired(e) /\ k \in DOMAIN e[t] /\ e[t][k] = c  BY <2>2, <1>3, <1>4 DEF Expired
    <3>2. KeyStore!TypeOf(DataOf(e), k) = {t} /\ KeyStore!Elements(DataOf(e), k) = Members(t, c)
      BY <3>1, <1>3, KeyIs
    <3>3. ContentOK(t, c)  BY <3>1, <1>3 DEF Sound, Shape
    <3>4. Members(t, c) # {}  BY <2>2, <3>3, SomeMembers
    <3> QED  BY <3>2, <3>4
  <2> QED  BY <2>1, <2>2
<1>9. LiveData = DataOf(d) /\ LiveData' = DataOf(e)  BY <1>2, <1>3, SeenBefore, SeenAfter
<1>10. KeyStore!Shrink(k)  BY <1>5, <1>6, <1>7, <1>8, <1>9 DEF KeyStore!Shrink
<1> QED  BY <1>2, <1>10 DEF KeyStore!StoreNext

(* Taking none is nothing. *)
LEMMA NoneTakenRefines ==
  ASSUME RedisInv', NEW d, NEW k \in Key, Purged(d, {k}), NEW t \in {"list", "set"}, k \in DOMAIN d[t],
         Answer(Shrink(d, t, k, d[t][k]), "none")
  PROVE  KeyStore!StoreNext
<1>1. PICK e, c : c = d[t][k] /\ e = Shrink(d, t, k, c)  OBVIOUS
<1>2. redis' = e /\ reply' = "none"  BY <1>1 DEF Answer
<1>3. Sound(d) /\ SameView(redis, d) /\ Sound(e) /\ t \in Type /\ t # "store"
  BY <1>2 DEF Purged, RedisInv, Type
<1>4. c # Nothing(t)  BY <1>1, <1>3 DEF Sound, Filled
<1>5. e = Put(d, t, k, c)  BY <1>1, <1>4 DEF Shrink
<1>6. DOMAIN d = Dictionary /\ t \in Dictionary  BY <1>3 DEF Sound, Shape, Dictionary
<1>7. /\ \A u \in Dictionary : u # t => e[u] = d[u]
      /\ DOMAIN e[t] = DOMAIN d[t] \cup {k} /\ e[t][k] = c
      /\ \A j \in DOMAIN d[t] : j # k => e[t][j] = d[t][j]
  BY <1>5, <1>6, PutIs
<1>8. \A j \in Key : Alike(d, e, j)  BY <1>1, <1>7 DEF Alike
<1>9. DOMAIN d.expirations \subseteq Key /\ DOMAIN e.expirations \subseteq Key  BY <1>3, SoundKeys
<1>10. SameView(d, e)  BY <1>8, <1>9, SeenAlike
<1>11. SameView(redis, e)  BY <1>3, <1>10 DEF SameView
<1> QED  BY <1>2, <1>11, NothingSeen

(* What commands on one key do that take elements away. *)
Takes(k) ==
  \E t \in {"list", "set"} : \E d, c :
     /\ d = Visit(<<k>>, t).db /\ k \in DOMAIN d[t]
     /\ Members(t, c) \subseteq Members(t, d[t][k])
     /\ \/ Answer(Shrink(d, t, k, c), "taken")
        \/ Answer(Shrink(d, t, k, c), "none") /\ c = d[t][k]

LEMMA TakesRefines == ASSUME RedisInv, RedisInv', NEW k \in Key, Takes(k) PROVE KeyStore!StoreNext
<1>1. PICK t \in {"list", "set"} : \E d, c :
        /\ d = Visit(<<k>>, t).db /\ k \in DOMAIN d[t]
        /\ Members(t, c) \subseteq Members(t, d[t][k])
        /\ \/ Answer(Shrink(d, t, k, c), "taken")
           \/ Answer(Shrink(d, t, k, c), "none") /\ c = d[t][k]
  BY DEF Takes
<1>2. PICK d, c :
        /\ d = Visit(<<k>>, t).db /\ k \in DOMAIN d[t]
        /\ Members(t, c) \subseteq Members(t, d[t][k])
        /\ \/ Answer(Shrink(d, t, k, c), "taken")
           \/ Answer(Shrink(d, t, k, c), "none") /\ c = d[t][k]
  BY <1>1
<1>3. PICK v : v = Visit(<<k>>, t)  OBVIOUS
<1>4. Purged(d, {k})  BY <1>2, <1>3, OneVisit
<1> QED  BY <1>2, <1>4, TakenRefines, NoneTakenRefines

LEMMA SRemDoes ==
  ASSUME NEW k \in Key, (\E M : SRem(k, M)) \/ (\E count : SPop(k, count))
  PROVE  Idles(k) \/ Takes(k)
<1>1. PICK v : v = Visit(<<k>>, "set")  OBVIOUS
<1>2. PICK d : d = v.db  OBVIOUS
<1>3. \/ \E r \in {"none", "refused"} : Answer(d, r)
      \/ /\ k \in DOMAIN d["set"]
         /\ \E N : \/ Answer(Shrink(d, "set", k, d["set"][k] \ N), "taken")
                   \/ Answer(Shrink(d, "set", k, d["set"][k] \ N), "none") /\ N \cap d["set"][k] = {}
  <2>1. ASSUME NEW M, SRem(k, M)
        PROVE  \/ \E r \in {"none", "refused"} : Answer(d, r)
               \/ /\ k \in DOMAIN d["set"]
                  /\ \/ Answer(Shrink(d, "set", k, d["set"][k] \ M), "taken")
                     \/ Answer(Shrink(d, "set", k, d["set"][k] \ M), "none") /\ M \cap d["set"][k] = {}
    BY <2>1, <1>1, <1>2 DEF SRem, OnPresent, OnKey, If
  <2>2. ASSUME NEW count, SPop(k, count)
        PROVE  \/ \E r \in {"none", "refused"} : Answer(d, r)
               \/ /\ k \in DOMAIN d["set"]
                  /\ \E M : \/ Answer(Shrink(d, "set", k, d["set"][k] \ M), "taken")
                            \/ Answer(Shrink(d, "set", k, d["set"][k] \ M), "none") /\ M \cap d["set"][k] = {}
    BY <2>2, <1>1, <1>2 DEF SPop, OnPresent, OnKey, If
  <2> QED  BY <2>1, <2>2
<1>4. CASE \E r \in {"none", "refused"} : Answer(d, r)  BY <1>1, <1>2, <1>4 DEF Idles
<1>5. CASE k \in DOMAIN d["set"] /\
           \E N : \/ Answer(Shrink(d, "set", k, d["set"][k] \ N), "taken")
                  \/ Answer(Shrink(d, "set", k, d["set"][k] \ N), "none") /\ N \cap d["set"][k] = {}
  <2>1. PICK N : \/ Answer(Shrink(d, "set", k, d["set"][k] \ N), "taken")
                 \/ Answer(Shrink(d, "set", k, d["set"][k] \ N), "none") /\ N \cap d["set"][k] = {}
    BY <1>5
  <2>2. PICK c : c = d["set"][k] \ N  OBVIOUS
  <2>3. Members("set", c) \subseteq Members("set", d["set"][k])  BY <2>2 DEF Members
  <2>4. N \cap d["set"][k] = {} => c = d["set"][k]  BY <2>2
  <2>5. Takes(k)  BY <1>1, <1>2, <1>5, <2>1, <2>2, <2>3, <2>4 DEF Takes
  <2> QED  BY <2>5
<1> QED  BY <1>3, <1>4, <1>5

(* A command that leaves r of the list of k. *)
LEMMA ListTakes ==
  ASSUME NEW k \in Key, NEW d, d = Visit(<<k>>, "list").db, k \in DOMAIN d["list"],
         NEW r, Range(r) \subseteq Range(d["list"][k]),
         \/ Answer(Shrink(d, "list", k, r), "taken")
         \/ Answer(Shrink(d, "list", k, r), "none") /\ r = d["list"][k]
  PROVE  Takes(k)
<1>1. Members("list", r) \subseteq Members("list", d["list"][k])  BY DEF Members
<1> QED  BY <1>1 DEF Takes

LEMMA PartRange ==
  ASSUME NEW s, NEW r, NEW f, f \in Injection(DOMAIN r, DOMAIN s), \A i \in DOMAIN r : s[f[i]] = r[i]
  PROVE  Range(r) \subseteq Range(s)
<1>1. \A i \in DOMAIN r : f[i] \in DOMAIN s  BY DEF Injection, IsInjective
<1> QED  BY <1>1 DEF Range

(* What stands at p and what stands elsewhere is all there is. *)
LEMMA ButForRange ==
  ASSUME NEW s, NEW r, NEW p \in DOMAIN s, ButFor(s, r, p)
  PROVE  Range(s) = Range(r) \cup {s[p]}
<1>1. PICK f \in Injection(DOMAIN r, DOMAIN s) :
         /\ \A i \in DOMAIN r : s[f[i]] = r[i]
         /\ \A j \in DOMAIN s : j = p <=> \A i \in DOMAIN r : f[i] # j
  BY DEF ButFor
<1>2. Range(r) \subseteq Range(s)  BY <1>1, PartRange
<1>3. ASSUME NEW j \in DOMAIN s PROVE s[j] \in Range(r) \cup {s[p]}
  <2>1. CASE j = p  BY <2>1
  <2>2. CASE j # p
    <3>1. PICK i \in DOMAIN r : f[i] = j  BY <2>2, <1>1
    <3> QED  BY <3>1, <1>1 DEF Range
  <2> QED  BY <2>1, <2>2
<1>4. Range(s) \subseteq Range(r) \cup {s[p]}  BY <1>3 DEF Range
<1>5. s[p] \in Range(s)  BY DEF Range
<1> QED  BY <1>2, <1>4, <1>5

LEMMA PoppedRange ==
  ASSUME NEW s \in Seq(Val), Len(s) >= 1, NEW end
  PROVE  Range(s) = Range(Popped(s, end)) \cup {End(s, end)}
<1>1. CASE end = "LEFT"
  <2>1. Popped(s, end) = Tail(s) /\ End(s, end) = s[1]  BY <1>1 DEF Popped, End
  <2>2. Tail(s) \in Seq(Val) /\ ButFor(s, Tail(s), 1) /\ 1 \in DOMAIN s  BY TailIsBut
  <2> QED  BY <2>1, <2>2, ButForRange
<1>2. CASE end # "LEFT"
  <2>1. Popped(s, end) = Front(s) /\ End(s, end) = s[Len(s)]  BY <1>2 DEF Popped, End, Last
  <2>2. Front(s) \in Seq(Val) /\ ButFor(s, Front(s), Len(s)) /\ Len(s) \in DOMAIN s  BY FrontIsBut
  <2> QED  BY <2>1, <2>2, ButForRange
<1> QED  BY <1>1, <1>2

LEMMA PushedRange ==
  ASSUME NEW s \in Seq(Val), NEW e \in Val, NEW end
  PROVE  Range(Pushed(s, e, end)) = Range(s) \cup {e}
<1>1. PICK n \in Nat : n = Len(s) /\ DOMAIN s = 1 .. n  OBVIOUS
<1>2. CASE end = "LEFT"
  <2>1. PICK q : q = <<e>> \o s  OBVIOUS
  <2>2. Pushed(s, e, end) = q  BY <1>2, <2>1 DEF Pushed
  <2>3. DOMAIN q = 1 .. n + 1  BY <2>1, <1>1
  <2>4. q[1] = e  BY <2>1, <1>1
  <2>5. \A i \in 1 .. n : q[i + 1] = s[i]  BY <2>1, <1>1
  <2>6. \A j \in 1 .. n + 1 : q[j] = e \/ (j - 1 \in 1 .. n /\ q[j] = s[j - 1])
    <3> SUFFICES ASSUME NEW j \in 1 .. n + 1, j # 1 PROVE j - 1 \in 1 .. n /\ q[j] = s[j - 1]  BY <2>4
    <3>1. j - 1 \in 1 .. n /\ (j - 1) + 1 = j  OBVIOUS
    <3>2. q[(j - 1) + 1] = s[j - 1]  BY <3>1, <2>5
    <3> QED  BY <3>1, <3>2
  <2>7. ASSUME NEW x \in Range(q) PROVE x \in Range(s) \cup {e}  BY <2>3, <2>6, <1>1 DEF Range
  <2>8. e \in Range(q)
    <3>1. 1 \in DOMAIN q  BY <2>3
    <3> QED  BY <3>1, <2>4 DEF Range
  <2>9. ASSUME NEW i \in 1 .. n PROVE s[i] \in Range(q)
    <3>1. i + 1 \in DOMAIN q  BY <2>3
    <3> QED  BY <3>1, <2>5 DEF Range
  <2>10. Range(s) \subseteq Range(q)  BY <2>9, <1>1 DEF Range
  <2> QED  BY <2>2, <2>7, <2>8, <2>10
<1>3. CASE end # "LEFT"
  <2>1. PICK q : q = Append(s, e)  OBVIOUS
  <2>2. Pushed(s, e, end) = q  BY <1>3, <2>1 DEF Pushed
  <2>3. DOMAIN q = 1 .. n + 1  BY <2>1, <1>1
  <2>4. q[n + 1] = e  BY <2>1, <1>1
  <2>5. \A i \in 1 .. n : q[i] = s[i]  BY <2>1, <1>1
  <2>6. \A j \in 1 .. n + 1 : q[j] = e \/ (j \in 1 .. n /\ q[j] = s[j])
    <3> SUFFICES ASSUME NEW j \in 1 .. n + 1, j # n + 1 PROVE j \in 1 .. n /\ q[j] = s[j]  BY <2>4
    <3>1. j \in 1 .. n  OBVIOUS
    <3> QED  BY <3>1, <2>5
  <2>7. ASSUME NEW x \in Range(q) PROVE x \in Range(s) \cup {e}  BY <2>3, <2>6, <1>1 DEF Range
  <2>8. e \in Range(q)
    <3>1. n + 1 \in DOMAIN q  BY <2>3
    <3> QED  BY <3>1, <2>4 DEF Range
  <2>9. ASSUME NEW i \in 1 .. n PROVE s[i] \in Range(q)
    <3>1. i \in DOMAIN q  BY <2>3
    <3> QED  BY <3>1, <2>5 DEF Range
  <2>10. Range(s) \subseteq Range(q)  BY <2>9, <1>1 DEF Range
  <2> QED  BY <2>2, <2>7, <2>8, <2>10
<1> QED  BY <1>2, <1>3

LEMMA ListPopDoes == ASSUME RedisInv, NEW k \in Key, NEW end, ListPop(k, end) PROVE Idles(k) \/ Takes(k)
<1>1. PICK v : v = Visit(<<k>>, "list")  OBVIOUS
<1>2. PICK d : d = v.db /\ Sound(d)  BY <1>1, VisitSound
<1>3. \/ \E r \in {"none", "refused"} : Answer(d, r)
      \/ k \in DOMAIN d["list"] /\ Answer(Shrink(d, "list", k, Popped(d["list"][k], end)), "taken")
  BY <1>1, <1>2 DEF ListPop, OnPresent, OnKey
<1>4. CASE \E r \in {"none", "refused"} : Answer(d, r)  BY <1>1, <1>2, <1>4 DEF Idles
<1>5. CASE k \in DOMAIN d["list"] /\ Answer(Shrink(d, "list", k, Popped(d["list"][k], end)), "taken")
  <2>1. PICK s, r : s = d["list"][k] /\ r = Popped(s, end)  OBVIOUS
  <2>2. s \in Seq(Val) /\ Len(s) >= 1  BY <1>2, <1>5, <2>1, ListHeld
  <2>3. Range(r) \subseteq Range(s)  BY <2>1, <2>2, PoppedRange
  <2>4. d = Visit(<<k>>, "list").db  BY <1>1, <1>2
  <2>5. Answer(Shrink(d, "list", k, r), "taken") /\ Range(r) \subseteq Range(d["list"][k])  BY <1>5, <2>1, <2>3
  <2>6. Takes(k)  BY <1>5, <2>4, <2>5, ListTakes
  <2> QED  BY <2>6
<1> QED  BY <1>3, <1>4, <1>5

LEMMA LTrimDoes ==
  ASSUME RedisInv, NEW k \in Key, NEW start \in Index, NEW stop \in Index, LTrim(k, start, stop)
  PROVE  Idles(k) \/ Takes(k)
<1>1. PICK v : v = Visit(<<k>>, "list")  OBVIOUS
<1>2. PICK d : d = v.db /\ Sound(d)  BY <1>1, VisitSound
<1>3. \/ \E r \in {"none", "refused"} : Answer(d, r)
      \/ k \in DOMAIN d["list"] /\ Answer(Shrink(d, "list", k, ListRange(d["list"][k], start, stop)), "taken")
  BY <1>1, <1>2 DEF LTrim, OnPresent, OnKey
<1>4. CASE \E r \in {"none", "refused"} : Answer(d, r)  BY <1>1, <1>2, <1>4 DEF Idles
<1>5. CASE k \in DOMAIN d["list"] /\ Answer(Shrink(d, "list", k, ListRange(d["list"][k], start, stop)), "taken")
  <2>1. PICK s, r : s = d["list"][k] /\ r = ListRange(s, start, stop)  OBVIOUS
  <2>2. s \in Seq(Val)  BY <1>2, <1>5, <2>1, ListHeld
  <2>3. start \in Int /\ stop \in Int  BY RedisAssumption DEF RedisAssumption
  <2>4. PICK first, last : PartFrom(s, r, first, last)  BY <2>1, <2>2, <2>3, RangeIsPart
  <2>5. \A i \in DOMAIN r : i + first - 1 \in DOMAIN s /\ r[i] = s[i + first - 1]  BY <2>4 DEF PartFrom
  <2>6. Range(r) \subseteq Range(s)  BY <2>5 DEF Range
  <2>7. d = Visit(<<k>>, "list").db  BY <1>1, <1>2
  <2>8. Answer(Shrink(d, "list", k, r), "taken") /\ Range(r) \subseteq Range(d["list"][k])  BY <1>5, <2>1, <2>6
  <2>9. Takes(k)  BY <1>5, <2>7, <2>8, ListTakes
  <2> QED  BY <2>9
<1> QED  BY <1>3, <1>4, <1>5

(* What is not there cannot be removed. *)
LEMMA NoneRemoved ==
  ASSUME NEW s \in Seq(Val), NEW n \in Int, NEW e, e \notin Range(s)
  PROVE  WithoutElement(s, n, e) = s
<1>1. PICK m \in Nat : m = Len(s) /\ DOMAIN s = 1 .. m  OBVIOUS
<1> DEFINE at   == {i \in DOMAIN s : s[i] = e}
           gone == CASE n = 0 -> at
                     [] n > 0 -> {i \in at : Cardinality({j \in at : j <= i}) <= n}
                     [] n < 0 -> {i \in at : Cardinality({j \in at : j >= i}) <= -n}
<1>2. at = {}  BY DEF Range
<1>3. gone = {}
  <2>1. n = 0 \/ n > 0 \/ n < 0  OBVIOUS
  <2>2. gone \subseteq at
    <3> HIDE DEF at
    <3> QED  BY <2>1
  <2> QED  BY <2>2, <1>2
<1>4. PICK left : left = DOMAIN s \ gone  OBVIOUS
<1>5. WithoutElement(s, n, e) = [place \in 1 .. Cardinality(left) |->
        s[CHOOSE i \in left : Cardinality({j \in left : j <= i}) = place]]
  BY <1>4 DEF WithoutElement
<1> HIDE DEF at, gone
<1>6. left = 1 .. m  BY <1>1, <1>3, <1>4
<1>7. \A i \in Nat : Cardinality(1 .. i) = i
  <2> SUFFICES ASSUME NEW i \in Nat PROVE Cardinality(1 .. i) = i  OBVIOUS
  <2>1. Cardinality(1 .. i) = IF 1 > i THEN 0 ELSE i - 1 + 1  BY FS_Interval
  <2> QED  BY <2>1
<1>8. \A i \in 1 .. m : Cardinality({j \in left : j <= i}) = i
  <2> SUFFICES ASSUME NEW i \in 1 .. m PROVE Cardinality({j \in left : j <= i}) = i  OBVIOUS
  <2>1. {j \in left : j <= i} = 1 .. i  BY <1>6
  <2>2. i \in Nat  OBVIOUS
  <2> QED  BY <2>1, <2>2, <1>7
<1>9. ASSUME NEW place \in 1 .. m
      PROVE  (CHOOSE i \in left : Cardinality({j \in left : j <= i}) = place) = place
  <2>1. \A i \in left : Cardinality({j \in left : j <= i}) = place <=> i = place  BY <1>6, <1>8
  <2>2. place \in left  BY <1>6
  <2> QED  BY <2>1, <2>2
<1>10. Cardinality(left) = m  BY <1>6, <1>7
<1>11. WithoutElement(s, n, e) = [place \in 1 .. m |-> s[place]]  BY <1>5, <1>9, <1>10
<1> QED  BY <1>1, <1>11

LEMMA LRemDoes == ASSUME RedisInv, NEW k \in Key, NEW n \in Index, NEW e, LRem(k, n, e) PROVE Idles(k) \/ Takes(k)
<1>1. PICK v : v = Visit(<<k>>, "list")  OBVIOUS
<1>2. PICK d : d = v.db /\ Sound(d)  BY <1>1, VisitSound
<1>3. PICK s, r : s = d["list"][k] /\ r = WithoutElement(s, n, e)  OBVIOUS
<1>4. \/ \E a \in {"none", "refused"} : Answer(d, a)
      \/ k \in DOMAIN d["list"] /\ Answer(Shrink(d, "list", k, r), IF e \in Range(s) THEN "taken" ELSE "none")
  BY <1>1, <1>2, <1>3 DEF LRem, OnPresent, OnKey, If
<1>5. CASE \E a \in {"none", "refused"} : Answer(d, a)  BY <1>1, <1>2, <1>5 DEF Idles
<1>6. CASE k \in DOMAIN d["list"] /\ Answer(Shrink(d, "list", k, r), IF e \in Range(s) THEN "taken" ELSE "none")
  <2>1. s \in Seq(Val)  BY <1>2, <1>3, <1>6, ListHeld
  <2>2. PICK f \in Injection(DOMAIN r, DOMAIN s) : \A i \in DOMAIN r : s[f[i]] = r[i]
    BY <1>3, <2>1, RemovedIsPart
  <2>3. Range(r) \subseteq Range(s)  BY <2>2, PartRange
  <2>4. n \in Int  BY RedisAssumption DEF RedisAssumption
  <2>5. e \notin Range(s) => r = s  BY <1>3, <2>1, <2>4, NoneRemoved
  <2>6. d = Visit(<<k>>, "list").db  BY <1>1, <1>2
  <2>7. \/ Answer(Shrink(d, "list", k, r), "taken")
        \/ Answer(Shrink(d, "list", k, r), "none") /\ r = d["list"][k]
    BY <1>3, <1>6, <2>5
  <2>8. Takes(k)  BY <1>3, <1>6, <2>3, <2>6, <2>7, ListTakes
  <2> QED  BY <2>8
<1> QED  BY <1>4, <1>5, <1>6

-----------------------------------------------------------------------------
(* Moving elements. *)
HeldOf(d, t, k) == IF k \in DOMAIN d[t] THEN Members(t, d[t][k]) ELSE {}

LEMMA HeldOfIs ==
  ASSUME NEW d, Sound(d), NEW k \in Key, k \notin Expired(d), NEW t \in Type, ~Wrong(d, k, t)
  PROVE  KeyStore!Elements(DataOf(d), k) = HeldOf(d, t, k)
<1>1. CASE k \in DOMAIN d[t]  BY <1>1, KeyIs DEF HeldOf
<1>2. CASE k \notin DOMAIN d[t]
  <2>1. ~Has(d, k)  BY <1>2 DEF Has, Wrong
  <2> QED  BY <2>1, <1>2, KeyIsNot DEF HeldOf
<1> QED  BY <1>1, <1>2

LEMMA NotWrong ==
  ASSUME NEW d, Sound(d), NEW k \in Key, NEW t \in Type, k \in DOMAIN d[t] \/ Absent(d, k)
  PROVE  ~Wrong(d, k, t)
BY DEF Sound, Apart, Absent, Wrong, Dictionary

(* e is d with elements moved from s to t. *)
MovedTo(d, e, T, s, t) ==
  /\ Agree(d, e, {s, t}) /\ Keeps(d, e, t) /\ t \in DOMAIN e[T]
  /\ Absent(e, s) \/ Keeps(d, e, s)
  /\ s \in DOMAIN e[T] \/ Absent(e, s)
  /\ HeldOf(e, T, s) \cup HeldOf(e, T, t) = HeldOf(d, T, s) \cup HeldOf(d, T, t)

LEMMA MoveRefines ==
  ASSUME RedisInv', NEW d, NEW s \in Key, NEW t \in Key, Purged(d, {s, t}), NEW T \in Type,
         s \in DOMAIN d[T], ~Wrong(d, t, T), NEW e, Answer(e, "moved"), MovedTo(d, e, T, s, t)
  PROVE  KeyStore!StoreNext
<1>1. redis' = e /\ reply' = "moved"  BY DEF Answer
<1>2. Sound(d) /\ SameView(redis, d) /\ s \notin Expired(d) /\ t \notin Expired(d) /\ Sound(e)
  BY <1>1 DEF Purged, RedisInv
<1>0. /\ Agree(d, e, {s, t}) /\ Keeps(d, e, t) /\ t \in DOMAIN e[T]
      /\ Absent(e, s) \/ Keeps(d, e, s)
      /\ s \in DOMAIN e[T] \/ Absent(e, s)
      /\ HeldOf(e, T, s) \cup HeldOf(e, T, t) = HeldOf(d, T, s) \cup HeldOf(d, T, t)
  BY DEF MovedTo
<1>3. KeyStore!OnlyKeys({s, t})  BY <1>0, <1>1, <1>2, AgreeOnly
<1>4. KeyStore!NoNewDeadline /\ KeyStore!SameDeadline(s) /\ KeyStore!SameDeadline(t)
  <2>1. \A j \in Key \ {s, t} : Keeps(d, e, j)  BY <1>0, AlikeKeeps DEF Agree
  <2>2. \A j \in Key : Absent(e, j) \/ Keeps(d, e, j)  BY <2>1, <1>0
  <2> QED  BY <2>2, <1>1, <1>2, DeadlinesKept
<1>5. s \notin Expired(e) /\ t \notin Expired(e)
  <2>1. \A j : Absent(e, j) => j \notin Expired(e)  BY GoneIs DEF Expired
  <2>2. \A j : Keeps(d, e, j) /\ j \notin Expired(d) => j \notin Expired(e)  BY DEF Keeps, Expired
  <2> QED  BY <2>1, <2>2, <1>0, <1>2
<1>6. ~Wrong(d, s, T) /\ ~Wrong(e, s, T) /\ ~Wrong(e, t, T)  BY <1>0, <1>2, NotWrong
<1>7. /\ KeyStore!Elements(DataOf(d), s) = HeldOf(d, T, s) /\ KeyStore!Elements(DataOf(d), t) = HeldOf(d, T, t)
      /\ KeyStore!Elements(DataOf(e), s) = HeldOf(e, T, s) /\ KeyStore!Elements(DataOf(e), t) = HeldOf(e, T, t)
  BY <1>2, <1>5, <1>6, HeldOfIs
<1>8. s \in DOMAIN DataOf(d) /\ t \in DOMAIN DataOf(e)  BY <1>0, <1>2, <1>5, KeyIs
<1>9. LiveData = DataOf(d) /\ LiveData' = DataOf(e)  BY <1>1, <1>2, SeenBefore, SeenAfter
<1>10. KeyStore!Move(s, t)  BY <1>0, <1>3, <1>4, <1>7, <1>8, <1>9 DEF KeyStore!Move
<1> QED  BY <1>1, <1>10 DEF KeyStore!StoreNext

LEMMA PurgeRefines ==
  ASSUME RedisInv, NEW K, NEW d, d = Purge(redis, K), NEW r \in {"none", "refused"}, Answer(d, r)
  PROVE  KeyStore!StoreNext
<1>1. SameView(redis, d) /\ redis' = d /\ reply' = r  BY PurgeIs DEF Purged, Answer
<1> QED  BY <1>1, NothingSeen

LEMMA SMoveRefines ==
  ASSUME RedisInv, RedisInv', NEW s \in Key, NEW t \in Key, NEW m, SMove(s, t, m)
  PROVE  KeyStore!StoreNext
<1>1. PICK d : d = Purge(redis, {s, t})  OBVIOUS
<1>2. Purged(d, {s, t})  BY <1>1, PurgeIs
<1>3. DOMAIN d = Dictionary /\ "set" \in Type /\ "set" \in Dictionary /\ "set" # "expirations"
      /\ "expirations" \in Dictionary
  BY <1>2, SoundKeys DEF Purged, Dictionary, Type
<1>4. PICK p, new, left : /\ new = Get(d, "set", t) \cup {m} /\ p = Put(d, "set", t, new)
                          /\ left = d["set"][s] \ {m}
  OBVIOUS
<1>5. \/ \E r \in {"none", "refused"} : Answer(d, r)
      \/ /\ ~Wrong(d, t, "set") /\ m \in Get(d, "set", s)
         /\ \/ s = t /\ Answer(d, "moved")
            \/ s # t /\ Answer(Shrink(p, "set", s, left), "moved")
  BY <1>1, <1>4 DEF SMove
<1>6. CASE \E r \in {"none", "refused"} : Answer(d, r)  BY <1>1, <1>6, PurgeRefines
<1>7. CASE ~Wrong(d, t, "set") /\ m \in Get(d, "set", s) /\ s = t /\ Answer(d, "moved")
  <2>1. s \in DOMAIN d["set"]  BY <1>7 DEF Get, Nothing
  <2>2. Agree(d, d, {s, t}) /\ Keeps(d, d, s)  BY AlikeStays, AlikeKeeps DEF Agree
  <2>3. MovedTo(d, d, "set", s, t)  BY <2>1, <2>2, <1>7 DEF MovedTo
  <2> QED  BY <2>1, <2>3, <1>2, <1>3, <1>7, MoveRefines
<1>8. CASE ~Wrong(d, t, "set") /\ m \in Get(d, "set", s) /\ s # t /\ Answer(Shrink(p, "set", s, left), "moved")
  <2>1. s \in DOMAIN d["set"] /\ m \in d["set"][s]  BY <1>8 DEF Get, Nothing
  <2>2. /\ DOMAIN p = Dictionary
        /\ p.expirations = d.expirations
        /\ DOMAIN p["set"] = DOMAIN d["set"] \cup {t} /\ p["set"][t] = new
        /\ p["set"][s] = d["set"][s]
    <3>1. /\ DOMAIN p = Dictionary
          /\ \A u \in Dictionary : u # "set" => p[u] = d[u]
          /\ DOMAIN p["set"] = DOMAIN d["set"] \cup {t} /\ p["set"][t] = new
          /\ \A j \in DOMAIN d["set"] : j # t => p["set"][j] = d["set"][j]
      BY <1>3, <1>4, PutIs
    <3> QED  BY <3>1, <2>1, <1>3, <1>8
  <2>3. PICK e : e = Shrink(p, "set", s, left)  OBVIOUS
  <2>4. /\ \A j : j # s => Alike(p, e, j)
        /\ left = Nothing("set") => Absent(e, s)
        /\ left # Nothing("set") => e.expirations = p.expirations /\ s \in DOMAIN e["set"] /\ e["set"][s] = left
    <3>1. s \in DOMAIN p["set"]  BY <2>1, <2>2
    <3>2. Shrunk(p, "set", s, left, e)  BY <3>1, <2>2, <2>3, <1>3, ShrinkIs
    <3> QED  BY <3>2 DEF Shrunk
  <2>5. Agree(d, e, {s, t})
    <3>1. \A j : j # t => Alike(d, p, j)  BY <1>3, <1>4, PutAgrees
    <3> QED  BY <3>1, <2>4, AlikeChain DEF Agree
  <2>6. t \in DOMAIN e["set"] /\ e["set"][t] = new /\ Keeps(d, e, t)
    <3>1. Alike(p, e, t)  BY <2>4, <1>8
    <3>2. t \in DOMAIN e["set"] /\ e["set"][t] = new  BY <3>1, <2>2, <1>3 DEF Alike
    <3>3. Keeps(p, e, t)  BY <3>1, AlikeKeeps
    <3> QED  BY <3>2, <3>3, <2>2 DEF Keeps
  <2>7. (Absent(e, s) \/ Keeps(d, e, s)) /\ (s \in DOMAIN e["set"] \/ Absent(e, s))
    BY <2>2, <2>4 DEF Keeps
  <2>8. HeldOf(e, "set", s) = left
    <3>1. CASE left = {}
      <4>1. Absent(e, s)  BY <3>1, <2>4 DEF Nothing
      <4>2. s \notin DOMAIN e["set"]  BY <4>1, <1>3 DEF Absent
      <4> QED  BY <3>1, <4>2 DEF HeldOf
    <3>2. CASE left # {}  BY <3>2, <2>4 DEF HeldOf, Members, Nothing
    <3> QED  BY <3>1, <3>2
  <2>9. HeldOf(e, "set", t) = new /\ HeldOf(d, "set", s) = d["set"][s] /\ HeldOf(d, "set", t) = Get(d, "set", t)
    BY <2>1, <2>6 DEF HeldOf, Members, Get, Nothing
  <2>10. HeldOf(e, "set", s) \cup HeldOf(e, "set", t) = HeldOf(d, "set", s) \cup HeldOf(d, "set", t)
    BY <2>1, <2>8, <2>9, <1>4
  <2>11. Answer(e, "moved")  BY <2>3, <1>8
  <2>12. MovedTo(d, e, "set", s, t)  BY <2>5, <2>6, <2>7, <2>10 DEF MovedTo
  <2> QED  BY <2>1, <2>11, <2>12, <1>2, <1>3, <1>8, MoveRefines
<1> QED  BY <1>5, <1>6, <1>7, <1>8

(* An element is taken from an end of one list and put at one of another. *)
Displaced(d, s, t, from, to, taken, moved, e) ==
  /\ taken = Put(d, "list", s, Popped(d["list"][s], from))
  /\ moved = Put(taken, "list", t, Pushed(Get(taken, "list", t), End(d["list"][s], from), to))
  /\ e = Shrink(moved, "list", s, moved["list"][s])

(* Where LMOVE leaves what. *)
LEMMA LMoved ==
  ASSUME NEW d, Sound(d), NEW s \in Key, NEW t \in Key, s \in DOMAIN d["list"], NEW from, NEW to,
         NEW taken, NEW moved, NEW e, Displaced(d, s, t, from, to, taken, moved, e)
  PROVE  MovedTo(d, e, "list", s, t)
<1>1. /\ DOMAIN d = Dictionary /\ "list" \in Type /\ "list" \in Dictionary /\ "list" # "expirations"
      /\ "expirations" \in Dictionary
  BY SoundKeys DEF Dictionary, Type
<1>2. PICK c, popped, x : c = d["list"][s] /\ popped = Popped(c, from) /\ x = End(c, from)  OBVIOUS
<1>3. c \in Seq(Val) /\ Len(c) >= 1  BY <1>2, ListHeld
<1>4. popped \in Seq(Val) /\ x \in Val /\ Range(c) = Range(popped) \cup {x}
  BY <1>2, <1>3, PoppedBytes, PoppedRange
<1>5. PICK old, pushed : old = Get(taken, "list", t) /\ pushed = Pushed(old, x, to)  OBVIOUS
<1>6. /\ DOMAIN taken = Dictionary /\ taken.expirations = d.expirations
      /\ DOMAIN taken["list"] = DOMAIN d["list"] /\ taken["list"][s] = popped
      /\ \A j \in DOMAIN d["list"] : j # s => taken["list"][j] = d["list"][j]
      /\ \A j : j # s => Alike(d, taken, j)
  <2>1. taken = Put(d, "list", s, popped)  BY <1>2 DEF Displaced
  <2>2. /\ DOMAIN taken = Dictionary
        /\ \A u \in Dictionary : u # "list" => taken[u] = d[u]
        /\ DOMAIN taken["list"] = DOMAIN d["list"] \cup {s} /\ taken["list"][s] = popped
        /\ \A j \in DOMAIN d["list"] : j # s => taken["list"][j] = d["list"][j]
    BY <1>1, <2>1, PutIs
  <2>3. \A j : j # s => Alike(d, taken, j)  BY <1>1, <2>1, PutAgrees
  <2> QED  BY <2>2, <2>3, <1>1
<1>7. old \in Seq(Val)
  <2>1. CASE t = s  BY <2>1, <1>4, <1>5, <1>6 DEF Get
  <2>2. CASE t # s /\ t \in DOMAIN d["list"]
    <3>1. old = d["list"][t]  BY <2>2, <1>5, <1>6 DEF Get
    <3> QED  BY <2>2, <3>1, ListHeld
  <2>3. CASE t # s /\ t \notin DOMAIN d["list"]
    <3>1. old = << >>  BY <2>3, <1>5, <1>6 DEF Get, Nothing, Empty
    <3> QED  BY <3>1
  <2> QED  BY <2>1, <2>2, <2>3
<1>8. pushed # << >> /\ Range(pushed) = Range(old) \cup {x}  BY <1>4, <1>5, <1>7, PushedBytes, PushedRange
<1>9. moved = Put(taken, "list", t, pushed)  BY <1>2, <1>5 DEF Displaced
<1>10. /\ DOMAIN moved = Dictionary /\ moved.expirations = d.expirations
       /\ DOMAIN moved["list"] = DOMAIN d["list"] \cup {t} /\ moved["list"][t] = pushed
       /\ \A j \in DOMAIN d["list"] : j # t => moved["list"][j] = taken["list"][j]
       /\ \A j : j # t => Alike(taken, moved, j)
  <2>1. /\ DOMAIN moved = Dictionary
        /\ \A u \in Dictionary : u # "list" => moved[u] = taken[u]
        /\ DOMAIN moved["list"] = DOMAIN taken["list"] \cup {t} /\ moved["list"][t] = pushed
        /\ \A j \in DOMAIN taken["list"] : j # t => moved["list"][j] = taken["list"][j]
    BY <1>1, <1>6, <1>9, PutIs
  <2>2. \A j : j # t => Alike(taken, moved, j)  BY <1>1, <1>6, <1>9, PutAgrees
  <2> QED  BY <2>1, <2>2, <1>1, <1>6
<1>11. PICK left : left = moved["list"][s]  OBVIOUS
<1>12. /\ \A j : j # s => Alike(moved, e, j)
       /\ left = << >> => Absent(e, s)
       /\ left # << >> => e.expirations = d.expirations /\ s \in DOMAIN e["list"] /\ e["list"][s] = left
  <2>1. s \in DOMAIN moved["list"]  BY <1>10
  <2>2. Nothing("list") = << >>  BY DEF Nothing, Empty
  <2>3. /\ \A j : j # s => Alike(moved, e, j)
        /\ left = Nothing("list") => Absent(e, s)
        /\ left # Nothing("list") => e.expirations = moved.expirations /\ s \in DOMAIN e["list"] /\ e["list"][s] = left
    <3>1. DOMAIN moved = Dictionary /\ "list" \in Type  BY <1>1, <1>10
    <3>2. e = Shrink(moved, "list", s, left)  BY <1>11 DEF Displaced
    <3>3. Shrunk(moved, "list", s, left, e)  BY <2>1, <3>1, <3>2, ShrinkIs
    <3> QED  BY <3>3 DEF Shrunk
  <2> QED  BY <2>2, <2>3, <1>10
<1>13. Agree(d, e, {s, t})
  <2> SUFFICES ASSUME NEW j \in Key \ {s, t} PROVE Alike(d, e, j)  BY DEF Agree
  <2>1. Alike(d, taken, j) /\ Alike(taken, moved, j) /\ Alike(moved, e, j)  BY <1>6, <1>10, <1>12
  <2> QED  BY <2>1, AlikeChain
<1>14. s = t => left = pushed  BY <1>10, <1>11
<1>15. t \in DOMAIN e["list"] /\ e["list"][t] = pushed /\ Keeps(d, e, t)
  <2>1. CASE s = t  BY ZenonT(30), <2>1, <1>8, <1>12, <1>14 DEF Keeps
  <2>2. CASE s # t
    <3>1. Alike(moved, e, t)  BY <2>2, <1>12
    <3>2. t \in DOMAIN e["list"] /\ e["list"][t] = pushed  BY <3>1, <1>1, <1>10 DEF Alike
    <3>3. Keeps(moved, e, t)  BY <3>1, AlikeKeeps
    <3> QED  BY <3>2, <3>3, <1>10 DEF Keeps
  <2> QED  BY <2>1, <2>2
<1>16. (Absent(e, s) \/ Keeps(d, e, s)) /\ (s \in DOMAIN e["list"] \/ Absent(e, s))  BY <1>12 DEF Keeps
<1>17. HeldOf(e, "list", t) = Range(old) \cup {x} /\ HeldOf(d, "list", s) = Range(popped) \cup {x}
  <2>1. HeldOf(e, "list", t) = Members("list", pushed)  BY <1>15 DEF HeldOf
  <2>2. HeldOf(d, "list", s) = Members("list", c)  BY <1>2 DEF HeldOf
  <2> QED  BY <2>1, <2>2, <1>4, <1>8 DEF Members
<1>18. Range(<< >>) = {}
  <2>1. DOMAIN << >> = {}  OBVIOUS
  <2> QED  BY <2>1 DEF Range
<1>19. CASE s = t
  <2>1. old = popped  BY <1>19, <1>5, <1>6 DEF Get
  <2>2. HeldOf(e, "list", s) \cup HeldOf(e, "list", t) = HeldOf(d, "list", s) \cup HeldOf(d, "list", t)
    BY <2>1, <1>17, <1>19
  <2> QED  BY <2>2, <1>13, <1>15, <1>16 DEF MovedTo
<1>20. CASE s # t
  <2>1. left = popped  BY <1>20, <1>6, <1>10, <1>11
  <2>2. HeldOf(e, "list", s) = Range(popped)
    <3>1. CASE left = << >>
      <4>1. s \notin DOMAIN e["list"]  BY <3>1, <1>1, <1>12 DEF Absent
      <4> QED  BY <3>1, <4>1, <2>1, <1>18 DEF HeldOf
    <3>2. CASE left # << >>
      <4>1. HeldOf(e, "list", s) = Members("list", left)  BY <3>2, <1>12 DEF HeldOf
      <4> QED  BY <4>1, <2>1 DEF Members
    <3> QED  BY <3>1, <3>2
  <2>3. HeldOf(d, "list", t) = Range(old)
    <3>1. CASE t \in DOMAIN d["list"]
      <4>1. old = d["list"][t]  BY <3>1, <1>5, <1>6, <1>20 DEF Get
      <4> QED  BY <3>1, <4>1 DEF HeldOf, Members
    <3>2. CASE t \notin DOMAIN d["list"]
      <4>1. old = << >>  BY <3>2, <1>5, <1>6 DEF Get, Nothing, Empty
      <4> QED  BY <3>2, <4>1, <1>18 DEF HeldOf
    <3> QED  BY <3>1, <3>2
  <2>4. HeldOf(e, "list", s) \cup HeldOf(e, "list", t) = HeldOf(d, "list", s) \cup HeldOf(d, "list", t)
    BY SMTT(30), <2>2, <2>3, <1>17
  <2> QED  BY <2>4, <1>13, <1>15, <1>16 DEF MovedTo
<1> QED  BY <1>19, <1>20

LEMMA LMoveRefines ==
  ASSUME RedisInv, RedisInv', NEW s \in Key, NEW t \in Key, NEW from, NEW to, LMove(s, t, from, to)
  PROVE  KeyStore!StoreNext
<1>1. PICK d : d = Purge(redis, {s, t})  OBVIOUS
<1>2. Purged(d, {s, t})  BY <1>1, PurgeIs
<1>3. PICK taken, moved, e : Displaced(d, s, t, from, to, taken, moved, e)  BY DEF Displaced
<1>4. \/ \E r \in {"none", "refused"} : Answer(d, r)
      \/ ~Wrong(d, t, "list") /\ s \in DOMAIN d["list"] /\ Answer(e, "moved")
  BY <1>1, <1>3 DEF LMove, Displaced
<1>5. CASE \E r \in {"none", "refused"} : Answer(d, r)  BY <1>1, <1>5, PurgeRefines
<1>6. CASE ~Wrong(d, t, "list") /\ s \in DOMAIN d["list"] /\ Answer(e, "moved")
  <2>1. "list" \in Type /\ Sound(d)  BY <1>2 DEF Purged, Type
  <2>2. MovedTo(d, e, "list", s, t)
    BY <2>1, <1>3, <1>6, LMoved
  <2> QED  BY <2>1, <2>2, <1>2, <1>6, MoveRefines
<1> QED  BY <1>4, <1>5, <1>6

-----------------------------------------------------------------------------
(* Combinations. *)
LEMMA CombinedRefines ==
  ASSUME RedisInv', NEW d, NEW k \in Key, NEW K \in SUBSET Key, Purged(d, K),
         NEW c, c \subseteq UNION {HeldOf(d, "set", j) : j \in K}, Fits(d, "set", k, c),
         Answer(SetKey(d, "set", k, c, TRUE), If(c # {}, "combined"))
  PROVE  KeyStore!StoreNext
<1>1. PICK e : e = SetKey(d, "set", k, c, TRUE)  OBVIOUS
<1>2. redis' = e /\ reply' = If(c # {}, "combined")  BY <1>1 DEF Answer
<1>3. Sound(d) /\ SameView(redis, d) /\ Sound(e) /\ "set" \in Type /\ (\A j \in K : j \notin Expired(d))
  BY <1>2 DEF Purged, RedisInv, Type
<1>4. /\ \A j : j # k => Alike(d, e, j)
      /\ c = {} => ~Has(e, k)
      /\ c # {} => k \in DOMAIN e["set"] /\ e["set"][k] = c
      /\ k \notin DOMAIN e.expirations
  <2>1. PICK clear \in BOOLEAN : clear = TRUE  OBVIOUS
  <2>2. e = SetKey(d, "set", k, c, clear)  BY <1>1, <2>1
  <2>3. /\ \A j : j # k => Alike(d, e, j)
        /\ "set" # "store" /\ c = Nothing("set") => ~Has(e, k)
        /\ ~("set" # "store" /\ c = Nothing("set")) => k \in DOMAIN e["set"] /\ e["set"][k] = c
        /\ clear => k \notin DOMAIN e.expirations
    BY <1>3, <2>2, SetKeyIs
  <2> QED  BY <2>1, <2>3 DEF Nothing
<1>5. KeyStore!OnlyKeys({k})
  <2>1. Agree(d, e, {k})  BY <1>4 DEF Agree
  <2> QED  BY <2>1, <1>2, <1>3, AgreeOnly
<1>6. /\ LiveData = DataOf(d) /\ LiveData' = DataOf(e)
      /\ Without(redis.expirations, Expired(redis))' = DueOf(e)
  BY <1>2, <1>3, SeenBefore, SeenAfter
<1>7. CASE c = {}
  <2>1. k \notin DOMAIN DataOf(e)  BY <1>4, <1>7, KeyIsNot
  <2>2. KeyStore!CombineNone(k)  BY <2>1, <1>5, <1>6 DEF KeyStore!CombineNone
  <2>3. reply' = "none"  BY <1>2, <1>7 DEF If
  <2> QED  BY <2>2, <2>3 DEF KeyStore!StoreNext
<1>8. CASE c # {}
  <2>1. k \notin Expired(e)  BY <1>4 DEF Expired
  <2>2. k \in DOMAIN DataOf(e) /\ KeyStore!TypeOf(DataOf(e), k) = {"set"} /\ KeyStore!Elements(DataOf(e), k) = c
    <3>1. k \in DOMAIN e["set"] /\ e["set"][k] = c /\ Members("set", c) = c  BY <1>4, <1>8 DEF Members
    <3> QED  BY <3>1, <2>1, <1>3, KeyIs
  <2>3. k \notin DOMAIN DueOf(e)  BY <1>4, DueIs
  <2>4. c \subseteq UNION {KeyStore!Elements(DataOf(d), j) : j \in K}
    <3>1. ASSUME NEW j \in K, j \in DOMAIN d["set"]
          PROVE  HeldOf(d, "set", j) = KeyStore!Elements(DataOf(d), j)
      BY <3>1, <1>3, KeyIs DEF HeldOf
    <3>2. \A j \in K : HeldOf(d, "set", j) \subseteq KeyStore!Elements(DataOf(d), j)
      BY <3>1 DEF HeldOf
    <3> QED  BY <3>2
  <2>5. KeyStore!Combine(k, K)  BY <2>2, <2>3, <2>4, <1>5, <1>6, <1>8 DEF KeyStore!Combine
  <2>6. reply' = "combined"  BY <1>2, <1>8 DEF If
  <2> QED  BY <2>5, <2>6 DEF KeyStore!StoreNext
<1> QED  BY <1>7, <1>8

(* What the three commands do: a combination of members of the sources, or   *)
(* nothing.                                                                *)
Combines(v, k, ks, result) ==
  \/ /\ v.ok /\ Fits(v.db, "set", k, result)
     /\ Answer(SetKey(v.db, "set", k, result, TRUE), If(result # {}, "combined"))
  \/ Answer(v.db, "refused")

LEMMA CombinesRefines ==
  ASSUME RedisInv, RedisInv', NEW k \in Key, NEW ks \in Keys, NEW v, v = Visit(ks, "set"), NEW m,
         m = [i \in DOMAIN ks |-> Get(v.db, "set", ks[i])], NEW result,
         result \subseteq UNION Range(m), Combines(v, k, ks, result)
  PROVE  KeyStore!StoreNext
<1>1. PICK n \in Nat : ks \in [1 .. n -> Key]
  <2>1. MaxArgs \in Nat  BY RedisAssumption DEF RedisAssumption
  <2>2. PICK n \in 1 .. MaxArgs : ks \in [1 .. n -> Key]  BY DEF Keys
  <2> QED  BY <2>1, <2>2
<1>2. Purged(v.db, {}) /\ (v.ok => Purged(v.db, Range(ks)))  BY <1>1, ManyVisits
<1>3. PICK d : d = v.db  OBVIOUS
<1>4. CASE Answer(v.db, "refused")
  <2>1. SameView(redis, d) /\ redis' = d /\ reply' = "refused"  BY <1>2, <1>3, <1>4 DEF Purged, Answer
  <2> QED  BY <2>1, NothingSeen
<1>5. CASE /\ v.ok /\ Fits(v.db, "set", k, result)
           /\ Answer(SetKey(v.db, "set", k, result, TRUE), If(result # {}, "combined"))
  <2>0. Range(ks) \subseteq Key  BY <1>1 DEF Range
  <2>1. PICK K \in SUBSET Key : K = Range(ks)  BY <2>0
  <2>2. Purged(d, K)  BY <1>2, <1>3, <1>5, <2>1
  <2>3. ASSUME NEW i \in DOMAIN ks PROVE m[i] = HeldOf(d, "set", ks[i]) /\ ks[i] \in K
    BY <1>3, <2>1 DEF Get, HeldOf, Members, Nothing, Range
  <2>4. \A M \in Range(m) : \E j \in K : M = HeldOf(d, "set", j)
    <3>1. DOMAIN m = DOMAIN ks  OBVIOUS
    <3> QED  BY <3>1, <2>3 DEF Range
  <2>5. result \subseteq UNION {HeldOf(d, "set", j) : j \in K}  BY <2>4
  <2>6. Fits(d, "set", k, result) /\ Answer(SetKey(d, "set", k, result, TRUE), If(result # {}, "combined"))
    BY <1>3, <1>5
  <2> QED  BY <2>2, <2>5, <2>6, CombinedRefines
<1> QED  BY <1>4, <1>5 DEF Combines

LEMMA SStoreRefines ==
  ASSUME RedisInv, RedisInv', NEW k \in Key, NEW ks \in Keys,
         SUnionStore(k, ks) \/ SInterStore(k, ks) \/ SDiffStore(k, ks)
  PROVE  KeyStore!StoreNext
<1>1. PICK v, m : v = Visit(ks, "set") /\ m = [i \in DOMAIN ks |-> Get(v.db, "set", ks[i])]  OBVIOUS
<1>2. 1 \in DOMAIN ks  BY KeysAre
<1>3. m[1] \subseteq UNION Range(m)  BY <1>1, <1>2 DEF Range
<1>4. CASE SUnionStore(k, ks)
  <2>1. PICK result : result = UNION Range(m)  OBVIOUS
  <2>2. Combines(v, k, ks, result)  BY <1>1, <1>4, <2>1 DEF SUnionStore, StoreSet, Combines
  <2> QED  BY <1>1, <2>1, <2>2, CombinesRefines
<1>5. CASE SInterStore(k, ks)
  <2>1. PICK result : result = {x \in m[1] : \A i \in DOMAIN m : x \in m[i]}  OBVIOUS
  <2>2. Combines(v, k, ks, result)  BY ZenonT(30), <1>1, <1>5, <2>1 DEF SInterStore, StoreSet, Combines
  <2>3. result \subseteq UNION Range(m)  BY <1>3, <2>1
  <2> QED  BY <1>1, <2>2, <2>3, CombinesRefines
<1>6. CASE SDiffStore(k, ks)
  <2>1. PICK result : result = m[1] \ UNION Range(Tail(m))  OBVIOUS
  <2>2. Combines(v, k, ks, result)  BY <1>1, <1>6, <2>1 DEF SDiffStore, StoreSet, Combines
  <2>3. result \subseteq UNION Range(m)  BY <1>3, <2>1
  <2> QED  BY <1>1, <2>2, <2>3, CombinesRefines
<1> QED  BY <1>4, <1>5, <1>6

-----------------------------------------------------------------------------
(* Reading. *)
LEMMA ReadManyRefines == ASSUME RedisInv, NEW ks \in Keys, NEW t, ReadMany(ks, t) PROVE KeyStore!StoreNext
<1>1. PICK n \in Nat : ks \in [1 .. n -> Key]
  <2>1. MaxArgs \in Nat  BY RedisAssumption DEF RedisAssumption
  <2>2. PICK n \in 1 .. MaxArgs : ks \in [1 .. n -> Key]  BY DEF Keys
  <2> QED  BY <2>1, <2>2
<1>2. PICK v : v = Visit(ks, t)  OBVIOUS
<1>3. PICK d : d = v.db  OBVIOUS
<1>4. Purged(d, {}) /\ (v.ok => Purged(d, Range(ks)))  BY <1>1, <1>2, <1>3, ManyVisits
<1>5. \/ \E r \in {"none", "refused"} : Answer(d, r)
      \/ v.ok /\ Answer(d, "value") /\ \E i \in DOMAIN ks : Has(d, ks[i])
  BY <1>2, <1>3 DEF ReadMany, If
<1>6. CASE \E r \in {"none", "refused"} : Answer(d, r)
  <2>1. SameView(redis, d) /\ redis' = d /\ reply' \in {"none", "refused"}  BY <1>4, <1>6 DEF Purged, Answer
  <2> QED  BY <2>1, NothingSeen
<1>7. CASE v.ok /\ Answer(d, "value") /\ \E i \in DOMAIN ks : Has(d, ks[i])
  <2>1. PICK k : k \in Range(ks) /\ k \in Key /\ Has(d, k)  BY <1>1, <1>7 DEF Range
  <2>2. redis' = d /\ reply' = "value" /\ Purged(d, Range(ks))  BY <1>4, <1>7 DEF Answer
  <2> QED  BY <2>1, <2>2, ValueSeen
<1> QED  BY <1>5, <1>6, <1>7

(* Reading one key of type t. *)
LooksUp(k) ==
  \E t \in Type : \E v : v = Visit(<<k>>, t) /\ k \in DOMAIN v.db[t] /\ Answer(v.db, "value")

LEMMA LooksUpRefines == ASSUME RedisInv, NEW k \in Key, LooksUp(k) PROVE KeyStore!StoreNext
<1>1. PICK t \in Type : \E v : v = Visit(<<k>>, t) /\ k \in DOMAIN v.db[t] /\ Answer(v.db, "value")
  BY DEF LooksUp
<1>2. PICK v : v = Visit(<<k>>, t) /\ k \in DOMAIN v.db[t] /\ Answer(v.db, "value")  BY <1>1
<1>3. PICK d : d = v.db  OBVIOUS
<1>4. Purged(d, {k})  BY <1>2, <1>3, OneVisit
<1>5. redis' = d /\ reply' = "value" /\ Has(d, k)  BY <1>2, <1>3 DEF Answer, Has
<1> QED  BY <1>4, <1>5, ValueSeen

LEMMA ReadOneDoes ==
  ASSUME NEW k \in Key, ReadHash(k) \/ ReadSet(k) \/ ReadList(k) PROVE Idles(k) \/ LooksUp(k)
<1>1. ASSUME NEW t \in Type, OnPresent(k, t, LAMBDA d : Answer(d, "value")) PROVE Idles(k) \/ LooksUp(k)
  <2>1. PICK v : v = Visit(<<k>>, t)  OBVIOUS
  <2>2. (\E r \in {"none", "refused"} : Answer(v.db, r)) \/ (k \in DOMAIN v.db[t] /\ Answer(v.db, "value"))
    BY <2>1, <1>1 DEF OnPresent, OnKey
  <2> QED  BY <2>1, <2>2 DEF Idles, LooksUp
<1>2. "hash" \in Type /\ "set" \in Type /\ "list" \in Type  BY DEF Type
<1> QED  BY <1>1, <1>2 DEF ReadHash, ReadSet, ReadList

LEMMA ReadMetaRefines == ASSUME RedisInv, NEW K \in SUBSET Key, ReadMeta(K) PROVE KeyStore!StoreNext
<1>1. PICK d : d = Purge(redis, K)  OBVIOUS
<1>2. Answer(d, "none") \/ (Answer(d, "value") /\ \E k \in K : Has(d, k))  BY <1>1 DEF ReadMeta, If
<1>3. CASE Answer(d, "none")  BY <1>1, <1>3, PurgeRefines
<1>4. CASE Answer(d, "value") /\ \E k \in K : Has(d, k)
  <2>1. PICK k \in K : Has(d, k)  BY <1>4
  <2>2. Purged(d, K) /\ redis' = d /\ reply' = "value"  BY <1>1, <1>4, PurgeIs DEF Answer
  <2> QED  BY <2>1, <2>2, ValueSeen
<1> QED  BY <1>2, <1>3, <1>4

-----------------------------------------------------------------------------
(* Keys of any type. *)
LEMMA RemovesRefines ==
  ASSUME RedisInv', NEW d, NEW K \in SUBSET Key, Purged(d, K), K # {}, \A k \in K : Has(d, k),
         redis' = Delete(d, K), reply' = "removed" \/ (reply' = "timed" /\ \E k \in Key : K = {k})
  PROVE  KeyStore!StoreNext
<1>1. PICK e : e = Delete(d, K)  OBVIOUS
<1>2. Sound(d) /\ SameView(redis, d) /\ Sound(e) /\ redis' = e  BY <1>1 DEF Purged, RedisInv
<1>3. DOMAIN d = Dictionary  BY <1>2, SoundKeys
<1>4. KeyStore!OnlyKeys(K)
  <2>1. Agree(d, e, K)  BY <1>1, <1>3, DeleteAgrees DEF Agree
  <2> QED  BY <2>1, <1>2, AgreeOnly
<1>5. \A k \in K : k \notin DOMAIN DataOf(e)  BY <1>1, <1>3, DeleteGone, GoneIs
<1>6. \A k \in K : k \in DOMAIN DataOf(d)  BY DEF Purged, DataOf, LiveOf
<1>7. LiveData = DataOf(d) /\ LiveData' = DataOf(e)  BY <1>2, SeenBefore, SeenAfter
<1>8. KeyStore!Remove(K)  BY <1>4, <1>5, <1>6, <1>7 DEF KeyStore!Remove
<1> QED  BY <1>8 DEF KeyStore!StoreNext

LEMMA DelRefines ==
  ASSUME RedisInv, RedisInv', NEW K \in SUBSET Key, Del(K) PROVE KeyStore!StoreNext
<1>1. PICK d, held : d = Purge(redis, K) /\ held = {k \in K : Has(d, k)}  OBVIOUS
<1>2. redis' = Delete(d, held) /\ reply' = If(held # {}, "removed")  BY <1>1 DEF Del, Answer
<1>3. Purged(d, K)  BY <1>1, PurgeIs
<1>4. CASE held # {}
  <2>1. Purged(d, held) /\ held \in SUBSET Key /\ \A k \in held : Has(d, k)  BY <1>1, <1>3 DEF Purged
  <2>2. reply' = "removed"  BY <1>2, <1>4 DEF If
  <2> QED  BY <2>1, <2>2, <1>2, <1>4, RemovesRefines
<1>5. CASE held = {}
  <2>1. PICK e : e = Delete(d, {})  OBVIOUS
  <2>2. redis' = e /\ reply' = "none"  BY <2>1, <1>2, <1>5 DEF If
  <2>3. DOMAIN d = Dictionary /\ Sound(e)  BY <2>2, <1>3, SoundKeys DEF Purged, RedisInv
  <2>4. \A j \in Key : Alike(d, e, j)  BY <2>1, <2>3, DeleteAgrees
  <2>5. DOMAIN d.expirations \subseteq Key /\ DOMAIN e.expirations \subseteq Key
    BY <2>3, <1>3, SoundKeys DEF Purged
  <2>6. SameView(d, e)  BY <2>4, <2>5, SeenAlike
  <2>7. SameView(redis, e)  BY <2>6, <1>3 DEF Purged, SameView
  <2> QED  BY <2>2, <2>7, NothingSeen
<1> QED  BY <1>4, <1>5

(* What is seen when only deadlines change, and those of S pass. *)
SameValues(d, e) == \A t \in Type : e[t] = d[t]
Passes(d, e, S)  == SameValues(d, e) /\ Expired(e) = Expired(d) \cup S

LEMMA DataPasses ==
  ASSUME NEW d, NEW e, NEW S, Passes(d, e, S)
  PROVE  DataOf(e) = Without(DataOf(d), S)
<1>0. \A t \in Type : e[t] = d[t]  BY DEF Passes, SameValues
<1>1. LiveOf(e) = LiveOf(d) \ S  BY <1>0 DEF LiveOf, Has, Passes
<1>2. \A k : {t \in Type : k \in DOMAIN e[t]} = {t \in Type : k \in DOMAIN d[t]}  BY <1>0
<1>3. ASSUME NEW k \in LiveOf(d) \ S PROVE DataOf(e)[k] = DataOf(d)[k]
  <2>1. DataOf(e)[k] = [t \in {t \in Type : k \in DOMAIN e[t]} |-> e[t][k]]  BY <1>1 DEF DataOf
  <2>2. DataOf(d)[k] = [t \in {t \in Type : k \in DOMAIN d[t]} |-> d[t][k]]  BY DEF DataOf
  <2>3. PICK T : T = {t \in Type : k \in DOMAIN d[t]}  OBVIOUS
  <2>4. DataOf(e)[k] = [t \in T |-> e[t][k]] /\ DataOf(d)[k] = [t \in T |-> d[t][k]]
    BY <2>1, <2>2, <2>3, <1>2
  <2>5. \A t \in T : e[t][k] = d[t][k]  BY <2>3, <1>0
  <2> QED  BY <2>4, <2>5
<1>4. DOMAIN DataOf(d) = LiveOf(d)  BY DEF DataOf
<1>5. DataOf(e) = [k \in LiveOf(d) \ S |-> DataOf(e)[k]]  BY <1>1 DEF DataOf
<1>6. Without(DataOf(d), S) = [k \in LiveOf(d) \ S |-> DataOf(d)[k]]
  <2>1. Without(DataOf(d), S) = [k \in DOMAIN DataOf(d) \cap (DOMAIN DataOf(d) \ S) |-> DataOf(d)[k]]
    BY DEF Without, Restrict
  <2>2. DOMAIN DataOf(d) \cap (DOMAIN DataOf(d) \ S) = LiveOf(d) \ S  BY <1>4
  <2> QED  BY <2>1, <2>2
<1> QED  BY <1>3, <1>5, <1>6

LEMMA DataStays ==
  ASSUME NEW d, NEW e, SameValues(d, e), Expired(e) = Expired(d)
  PROVE  DataOf(e) = DataOf(d)
<1>0. PICK S : S = {}  OBVIOUS
<1>1. Passes(d, e, S)  BY <1>0 DEF Passes
<1>2. DataOf(e) = [k \in DOMAIN DataOf(d) \cap (DOMAIN DataOf(d) \ S) |-> DataOf(d)[k]]
  <2>1. DataOf(e) = Without(DataOf(d), S)  BY <1>1, DataPasses
  <2> QED  BY <2>1 DEF Without, Restrict
<1>3. DOMAIN DataOf(d) \cap (DOMAIN DataOf(d) \ S) = DOMAIN DataOf(d)  BY <1>0
<1>4. DataOf(d) = [k \in DOMAIN DataOf(d) |-> DataOf(d)[k]]  BY DEF DataOf
<1> QED  BY <1>2, <1>3, <1>4

LEMMA ExpireRefines ==
  ASSUME RedisInv, RedisInv', NEW k \in Key, NEW ttl \in Nat, Expire(k, ttl) PROVE KeyStore!StoreNext
<1>1. PICK d : d = Purge(redis, {k})  OBVIOUS
<1>2. Purged(d, {k})  BY <1>1, PurgeIs
<1>3. PICK e : e = Put(d, "expirations", k, ttl)  OBVIOUS
<1>4. \/ Answer(d, "none")
      \/ Has(d, k) /\ ttl = 0 /\ Answer(Delete(d, {k}), "timed")
      \/ Has(d, k) /\ ttl # 0 /\ Answer(e, "timed")
  BY <1>1, <1>3 DEF Expire
<1>5. CASE Answer(d, "none")  BY <1>1, <1>5, PurgeRefines
<1>6. CASE Has(d, k) /\ ttl = 0 /\ Answer(Delete(d, {k}), "timed")
  <2>1. redis' = Delete(d, {k}) /\ reply' = "timed"  BY <1>6 DEF Answer
  <2>2. {k} \in SUBSET Key /\ {k} # {} /\ \A j \in {k} : Has(d, j)  BY <1>6
  <2>3. reply' = "timed" /\ \E j \in Key : {k} = {j}  BY <2>1
  <2> QED  BY <2>1, <2>2, <2>3, <1>2, RemovesRefines
<1>7. CASE Has(d, k) /\ ttl # 0 /\ Answer(e, "timed")
  <2>1. redis' = e /\ reply' = "timed"  BY <1>7 DEF Answer
  <2>2. Sound(d) /\ SameView(redis, d) /\ k \notin Expired(d) /\ Sound(e)  BY <1>2, <2>1 DEF Purged, RedisInv
  <2>3. DOMAIN d = Dictionary /\ "expirations" \in Dictionary  BY <2>2, SoundKeys DEF Dictionary
  <2>4. /\ \A u \in Dictionary : u # "expirations" => e[u] = d[u]
        /\ DOMAIN e.expirations = DOMAIN d.expirations \cup {k}
        /\ e.expirations[k] = ttl
        /\ \A j \in DOMAIN d.expirations : j # k => e.expirations[j] = d.expirations[j]
    BY <2>3, <1>3, PutIs
  <2>5. SameValues(d, e)  BY <2>4 DEF Dictionary, Type, SameValues
  <2>6. Expired(e) = Expired(d)
    <3>1. k \notin Expired(e)  BY <2>4, <1>7 DEF Expired
    <3>2. \A j : j # k => (j \in Expired(e) <=> j \in Expired(d))  BY <2>4 DEF Expired
    <3> QED  BY <3>1, <3>2, <2>2
  <2>7. DataOf(e) = DataOf(d)  BY <2>5, <2>6, DataStays
  <2>8. k \in DOMAIN DataOf(d)  BY <1>7, <2>2 DEF DataOf, LiveOf
  <2>9. k \in DOMAIN DueOf(e)  BY <2>2, <2>4, <2>6, DueIs
  <2>10. KeyStore!OnlyKeys({k})
    <3>1. Agree(d, e, {k})  BY <1>3, <2>3, PutAgrees DEF Agree
    <3> QED  BY <3>1, <2>1, <2>2, AgreeOnly
  <2>11. /\ LiveData = DataOf(d) /\ LiveData' = DataOf(e)
         /\ Without(redis.expirations, Expired(redis))' = DueOf(e)
    BY <2>1, <2>2, SeenBefore, SeenAfter
  <2>12. KeyStore!SetDeadline(k)  BY <2>7, <2>8, <2>9, <2>10, <2>11 DEF KeyStore!SetDeadline
  <2> QED  BY <2>1, <2>12 DEF KeyStore!StoreNext
<1> QED  BY <1>4, <1>5, <1>6, <1>7

LEMMA PersistRefines == ASSUME RedisInv, RedisInv', NEW k \in Key, Persist(k) PROVE KeyStore!StoreNext
<1>1. PICK d : d = Purge(redis, {k})  OBVIOUS
<1>2. Purged(d, {k})  BY <1>1, PurgeIs
<1>3. PICK e : e = [d EXCEPT !.expirations = Without(d.expirations, {k})]  OBVIOUS
<1>4. redis' = e /\ reply' = If(k \in DOMAIN d.expirations, "timed")  BY <1>1, <1>3 DEF Persist, Answer
<1>5. Sound(d) /\ SameView(redis, d) /\ k \notin Expired(d) /\ Sound(e)  BY <1>2, <1>4 DEF Purged, RedisInv
<1>6. DOMAIN d = Dictionary /\ "expirations" \in Dictionary  BY <1>5, SoundKeys DEF Dictionary
<1>7. /\ \A u \in Dictionary : u # "expirations" => e[u] = d[u]
      /\ e.expirations = Without(d.expirations, {k})
  BY <1>3, <1>6
<1>8. /\ DOMAIN e.expirations = DOMAIN d.expirations \ {k}
      /\ \A j \in DOMAIN d.expirations : j # k => e.expirations[j] = d.expirations[j]
  <2>1. PICK f, K : f = d.expirations /\ K = {k} /\ e.expirations = Without(f, K)  BY <1>7
  <2>2. /\ DOMAIN Without(f, K) = DOMAIN f \ K
        /\ \A j \in DOMAIN f : j \notin K => Without(f, K)[j] = f[j]
    BY WithoutIs
  <2> QED  BY <2>1, <2>2
<1>9. SameValues(d, e)  BY <1>7 DEF Dictionary, Type, SameValues
<1>10. Expired(e) = Expired(d)
  <2>1. \A j : j # k => (j \in Expired(e) <=> j \in Expired(d))  BY <1>8 DEF Expired
  <2>2. k \notin Expired(e)  BY <1>8 DEF Expired
  <2> QED  BY <2>1, <2>2, <1>5
<1>11. DataOf(e) = DataOf(d)  BY <1>9, <1>10, DataStays
<1>12. CASE k \in DOMAIN d.expirations
  <2>1. /\ LiveData = DataOf(d) /\ Without(redis.expirations, Expired(redis)) = DueOf(d)
        /\ LiveData' = DataOf(e) /\ Without(redis.expirations, Expired(redis))' = DueOf(e)
    BY <1>4, <1>5, SeenBefore, SeenAfter
  <2>2. k \in DOMAIN DueOf(d)  BY <1>5, <1>12, DueIs
  <2>3. DOMAIN DueOf(e) = DOMAIN DueOf(d) \ {k}  BY <1>8, <1>10, DueIs
  <2>4. \A j \in DOMAIN DueOf(e) : DueOf(e)[j] = DueOf(d)[j]  BY <1>8, <2>3, DueIs
  <2>5. DueOf(e) = [j \in DOMAIN DueOf(e) |-> DueOf(e)[j]]  BY DEF DueOf, Without, Restrict
  <2>6. KeyStore!Drop(DueOf(d), {k}) = [j \in DOMAIN DueOf(d) \cap (DOMAIN DueOf(d) \ {k}) |-> DueOf(d)[j]]
    BY DEF KeyStore!Drop, KeyStore!Restrict
  <2>7. DOMAIN DueOf(d) \cap (DOMAIN DueOf(d) \ {k}) = DOMAIN DueOf(e)  BY <2>3
  <2>8. DueOf(e) = KeyStore!Drop(DueOf(d), {k})  BY <2>4, <2>5, <2>6, <2>7
  <2>9. KeyStore!DropDeadline(k)  BY <2>1, <2>2, <2>8, <1>11 DEF KeyStore!DropDeadline
  <2>10. reply' = "timed"  BY <1>4, <1>12 DEF If
  <2> QED  BY <2>9, <2>10 DEF KeyStore!StoreNext
<1>13. CASE k \notin DOMAIN d.expirations
  <2>1. \A j \in Key : Alike(d, e, j)  BY <1>7, <1>8, <1>13 DEF Alike
  <2>2. DOMAIN d.expirations \subseteq Key /\ DOMAIN e.expirations \subseteq Key  BY <1>5, SoundKeys
  <2>3. SameView(d, e)  BY <2>1, <2>2, SeenAlike
  <2>4. SameView(redis, e) /\ reply' = "none"  BY <2>3, <1>4, <1>5, <1>13 DEF SameView, If
  <2> QED  BY <2>4, <1>4, NothingSeen
<1> QED  BY <1>12, <1>13

LEMMA EmptyIs ==
  ASSUME NEW e, \A t \in Dictionary : DOMAIN e[t] = {}
  PROVE  DataOf(e) = << >> /\ DueOf(e) = << >>
<1>1. LiveOf(e) = {}  BY DEF LiveOf, Has, Dictionary
<1>2. DataOf(e) = << >>
  <2>1. DataOf(e) = [k \in {} |-> [t \in {t \in Type : k \in DOMAIN e[t]} |-> e[t][k]]]  BY <1>1 DEF DataOf
  <2> QED  BY <2>1
<1>3. DueOf(e) = << >>
  <2>1. DOMAIN DueOf(e) = {}  BY DueIs DEF Dictionary
  <2>2. DueOf(e) = [j \in DOMAIN DueOf(e) |-> DueOf(e)[j]]  BY DEF DueOf, Without, Restrict
  <2>3. DueOf(e) = [j \in {} |-> DueOf(e)[j]]  BY <2>1, <2>2
  <2> QED  BY <2>3
<1> QED  BY <1>2, <1>3

LEMMA FlushRefines == ASSUME RedisInv, FlushAll PROVE KeyStore!StoreNext
<1>1. PICK e : e = [t \in DOMAIN redis |-> Empty]  OBVIOUS
<1>2. redis' = e /\ reply' = "cleared"  BY <1>1 DEF FlushAll, Answer
<1>3. DOMAIN redis = Dictionary  BY SoundKeys DEF RedisInv
<1>4. \A t \in Dictionary : DOMAIN e[t] = {}
  <2>1. DOMAIN << >> = {}  OBVIOUS
  <2> QED  BY <2>1, <1>1, <1>3 DEF Empty
<1>5. DataOf(e) = << >> /\ DueOf(e) = << >>  BY <1>4, EmptyIs
<1>6. LiveData' = DataOf(e) /\ Without(redis.expirations, Expired(redis))' = DueOf(e)  BY <1>2, SeenAfter
<1>7. KeyStore!Clear  BY <1>5, <1>6 DEF KeyStore!Clear
<1> QED  BY <1>2, <1>7 DEF KeyStore!StoreNext

LEMMA StoreInitRefines == ASSUME RedisInit PROVE KeyStore!StoreInit
<1>1. \A t \in Dictionary : redis[t] = << >>  BY DEF RedisInit, Empty, Dictionary
<1>2. DOMAIN << >> = {}  OBVIOUS
<1>3. \A t \in Dictionary : DOMAIN redis[t] = {}  BY <1>1, <1>2
<1>4. DataOf(redis) = << >> /\ DueOf(redis) = << >>  BY <1>3, EmptyIs
<1>5. LiveData = DataOf(redis) /\ Without(redis.expirations, Expired(redis)) = DueOf(redis)  BY SeenIs
<1> QED  BY <1>4, <1>5 DEF KeyStore!StoreInit, RedisInit

LEMMA TickRefines == ASSUME RedisInv, Tick PROVE KeyStore!StoreNext
<1>1. PICK d, e : d = redis /\ e = redis'  OBVIOUS
<1>2. DOMAIN d = Dictionary /\ "expirations" \in Dictionary /\ \A t \in Type : t \in Dictionary /\ t # "expirations"
  BY <1>1, SoundKeys DEF RedisInv, Dictionary, Type
<1>3. e = [d EXCEPT !.expirations = [k \in DOMAIN d.expirations |-> Max({0, d.expirations[k] - 1})]]
  BY <1>1 DEF Tick
<1>4. /\ \A t \in Type : e[t] = d[t]
      /\ e.expirations = [k \in DOMAIN d.expirations |-> Max({0, d.expirations[k] - 1})]
  BY <1>2, <1>3
<1>5. \A k \in DOMAIN d.expirations : d.expirations[k] \in Nat  BY <1>1 DEF RedisInv, Sound, Shape
<1>6. ASSUME NEW k \in DOMAIN d.expirations
      PROVE  e.expirations[k] = IF d.expirations[k] = 0 THEN 0 ELSE d.expirations[k] - 1
  <2>1. PICK n \in Nat : n = d.expirations[k]  BY <1>5
  <2>2. PICK zero \in Int, m \in Int : zero = 0 /\ m = n - 1  BY <2>1
  <2>3. Max({zero, m}) \in {zero, m} /\ Max({zero, m}) >= zero /\ Max({zero, m}) >= m  BY OneOfTwo
  <2>4. e.expirations[k] = Max({zero, m})  BY <2>1, <2>2, <1>4
  <2> QED  BY <2>1, <2>2, <2>3, <2>4
<1>7. DOMAIN e.expirations = DOMAIN d.expirations  BY <1>4
<1>8. DOMAIN DueOf(d) = DOMAIN d.expirations \ Expired(d) /\ \A k \in DOMAIN DueOf(d) : DueOf(d)[k] = d.expirations[k]
  BY DueIs
<1>9. PICK over : over = {k \in DOMAIN DueOf(d) : DueOf(d)[k] = 1}  OBVIOUS
<1>10. Expired(e) = Expired(d) \cup over
  <2>1. ASSUME NEW k PROVE k \in Expired(e) <=> k \in Expired(d) \cup over
    <3>1. CASE k \notin DOMAIN d.expirations  BY <3>1, <1>7, <1>8, <1>9 DEF Expired
    <3>2. CASE k \in DOMAIN d.expirations
      <4>1. PICK n \in Nat : n = d.expirations[k]  BY <3>2, <1>5
      <4>2. k \in Expired(d) <=> n = 0  BY <3>2, <4>1 DEF Expired
      <4>3. k \in over <=> n = 1  BY <3>2, <4>1, <4>2, <1>8, <1>9
      <4>4. k \in Expired(e) <=> (IF n = 0 THEN 0 ELSE n - 1) = 0  BY <3>2, <4>1, <1>6, <1>7 DEF Expired
      <4>5. (IF n = 0 THEN 0 ELSE n - 1) = 0 <=> n = 0 \/ n = 1  OBVIOUS
      <4> QED  BY <4>2, <4>3, <4>4, <4>5
    <3> QED  BY <3>1, <3>2
  <2> QED  BY <2>1
<1>11. DataOf(e) = KeyStore!Drop(DataOf(d), over)
  <2>0. Passes(d, e, over)  BY <1>4, <1>10 DEF Passes, SameValues
  <2>1. DataOf(e) = Without(DataOf(d), over)  BY <2>0, DataPasses
  <2> QED  BY <2>1 DEF Without, Restrict, KeyStore!Drop, KeyStore!Restrict
<1>12. DueOf(e) = [k \in DOMAIN DueOf(d) \ over |-> DueOf(d)[k] - 1]
  <2>1. DOMAIN DueOf(e) = DOMAIN DueOf(d) \ over  BY <1>7, <1>8, <1>10, DueIs
  <2>2. ASSUME NEW k \in DOMAIN DueOf(e) PROVE DueOf(e)[k] = DueOf(d)[k] - 1
    <3>1. k \in DOMAIN d.expirations /\ k \notin Expired(d) /\ DueOf(d)[k] = d.expirations[k]  BY <2>1, <1>8
    <3>2. d.expirations[k] # 0  BY <3>1 DEF Expired
    <3>3. DueOf(e)[k] = e.expirations[k]  BY DueIs
    <3> QED  BY <3>1, <3>2, <3>3, <1>6
  <2>3. DueOf(e) = [k \in DOMAIN DueOf(e) |-> DueOf(e)[k]]  BY DEF DueOf, Without, Restrict
  <2> QED  BY <2>1, <2>2, <2>3
<1>13. /\ LiveData = DataOf(d) /\ Without(redis.expirations, Expired(redis)) = DueOf(d)
       /\ LiveData' = DataOf(e) /\ Without(redis.expirations, Expired(redis))' = DueOf(e)
  BY <1>1, SeenIs
<1>14. reply' = reply  BY DEF Tick
<1>15. KeyStore!TimePasses  BY <1>9, <1>11, <1>12, <1>13, <1>14 DEF KeyStore!TimePasses
<1> QED  BY <1>15 DEF KeyStore!StoreNext

-----------------------------------------------------------------------------
(* Texts without a deadline in the place of keys. *)
IsText(e, k) == k \in DOMAIN e.store /\ k \notin DOMAIN e.expirations

LEMMA ReplacesRefines ==
  ASSUME RedisInv', NEW d, Sound(d), SameView(redis, d), NEW e, redis' = e, reply' = "replaced",
         NEW K \in SUBSET Key, Agree(d, e, K), \A k \in K : IsText(e, k) \/ Alike(d, e, k),
         \E k \in K : IsText(e, k)
  PROVE  KeyStore!StoreNext
<1>1. Sound(e)  BY DEF RedisInv
<1>2. LiveData' = DataOf(e) /\ Without(redis.expirations, Expired(redis))' = DueOf(e)  BY SeenAfter
<1>3. ASSUME NEW k \in K, IsText(e, k) PROVE KeyStore!Replaced(k)
  <2>1. k \in Key /\ k \in DOMAIN e.store /\ k \notin DOMAIN e.expirations  BY <1>3 DEF IsText
  <2>2. k \notin Expired(e)  BY <2>1 DEF Expired
  <2>3. PICK t \in Type : t = "store"  BY DEF Type
  <2>4. k \in DOMAIN e[t]  BY <2>1, <2>3
  <2>5. k \in DOMAIN DataOf(e) /\ KeyStore!TypeOf(DataOf(e), k) = {t}  BY <1>1, <2>1, <2>2, <2>4, KeyIs
  <2>6. k \notin DOMAIN DueOf(e)  BY <2>1, DueIs
  <2> QED  BY <1>2, <2>3, <2>5, <2>6 DEF KeyStore!Replaced
<1>4. ASSUME NEW k \in K, Alike(d, e, k) PROVE KeyStore!Kept(k)
  <2>1. PICK rest : rest = Key \ {k}  OBVIOUS
  <2>2. Agree(d, e, rest)  BY <1>4, <2>1 DEF Agree
  <2>3. KeyStore!OnlyKeys(rest)  BY <1>1, <2>2, AgreeOnly
  <2> QED  BY <2>1, <2>3 DEF KeyStore!Kept
<1>5. KeyStore!OnlyKeys(K)  BY <1>1, AgreeOnly
<1>6. KeyStore!Replace(K)  BY <1>3, <1>4, <1>5 DEF KeyStore!Replace
<1> QED  BY <1>6 DEF KeyStore!StoreNext

LEMMA TextIsSet ==
  ASSUME NEW d, Sound(d), NEW k \in Key, NEW v, Fits(d, "store", k, v)
  PROVE  \E e : /\ e = SetKey(d, "store", k, v, TRUE)
                /\ IsText(e, k) /\ \A j : j # k => Alike(d, e, j)
<1>0. PICK e : e = SetKey(d, "store", k, v, TRUE)  OBVIOUS
<1>1. PICK clear \in BOOLEAN : clear = TRUE  OBVIOUS
<1>2. e = SetKey(d, "store", k, v, clear)  BY <1>0, <1>1
<1>3. "store" \in Type  BY DEF Type
<1>4. /\ \A j : j # k => Alike(d, e, j)
      /\ "store" # "store" /\ v = Nothing("store") => ~Has(e, k)
      /\ ~("store" # "store" /\ v = Nothing("store")) => k \in DOMAIN e["store"] /\ e["store"][k] = v
      /\ clear => k \notin DOMAIN e.expirations
  BY <1>2, <1>3, SetKeyIs
<1>5. k \in DOMAIN e.store /\ k \notin DOMAIN e.expirations  BY <1>1, <1>4
<1>6. IsText(e, k)  BY <1>5 DEF IsText
<1> QED  BY <1>0, <1>4, <1>6

LEMMA SetRefines ==
  ASSUME RedisInv, RedisInv', NEW k \in Key, NEW v \in Value, Set(k, v) PROVE KeyStore!StoreNext
<1>1. PICK d : d = Purge(redis, {k})  OBVIOUS
<1>2. Sound(d) /\ SameView(redis, d)  BY <1>1, PurgeIs DEF Purged
<1>3. PICK e : e = SetKey(d, "store", k, v, TRUE)  OBVIOUS
<1>4. (Fits(d, "store", k, v) /\ Answer(e, "replaced")) \/ Answer(d, "refused")
  <2>1. ("replaced" = "replaced") = TRUE  OBVIOUS
  <2>2. Commit(d, "store", k, v, "replaced")  BY <1>1 DEF Set
  <2>3. IF Fits(d, "store", k, v) THEN Answer(SetKey(d, "store", k, v, "replaced" = "replaced"), "replaced")
                                  ELSE Answer(d, "refused")
    BY <2>2 DEF Commit
  <2> QED  BY <1>3, <2>1, <2>3
<1>5. CASE Answer(d, "refused")
  <2>1. redis' = d /\ reply' = "refused"  BY <1>5 DEF Answer
  <2> QED  BY <1>2, <2>1, NothingSeen
<1>6. CASE Fits(d, "store", k, v) /\ Answer(e, "replaced")
  <2>1. redis' = e /\ reply' = "replaced"  BY <1>6 DEF Answer
  <2>2. IsText(e, k) /\ \A j : j # k => Alike(d, e, j)
    <3>1. \E f : /\ f = SetKey(d, "store", k, v, TRUE)
                 /\ IsText(f, k) /\ \A j : j # k => Alike(d, f, j)
      BY <1>2, <1>6, TextIsSet
    <3> QED  BY <3>1, <1>3
  <2>3. PICK K \in SUBSET Key : K = {k}  OBVIOUS
  <2>4. Agree(d, e, K)  BY <2>2, <2>3 DEF Agree
  <2>5. (\A j \in K : IsText(e, j) \/ Alike(d, e, j)) /\ \E j \in K : IsText(e, j)  BY <2>2, <2>3
  <2> QED  BY <1>2, <2>1, <2>4, <2>5, ReplacesRefines
<1> QED  BY <1>4, <1>5, <1>6

-----------------------------------------------------------------------------
(* MSET.  If no key of K fits alone, together they do not fit either: each   *)
(* adds more bytes than it takes away.                                      *)
NewTexts(value, K) == [k \in K |-> Usage("store", value[k])]
TooBig(d, value, K) == ~FitsKeyUpdates(d, NewTexts(value, K))

LEMMA NewTextsFinite ==
  ASSUME NEW K, IsFiniteSet(K), NEW value, \A k \in K : value[k] \in Value
  PROVE  IsFiniteSet(Together(NewTexts(value, K))) /\ Cardinality(Together(NewTexts(value, K))) \in Nat
<1>1. DOMAIN NewTexts(value, K) = K  BY DEF NewTexts
<1>2. ASSUME NEW k \in K PROVE IsFiniteSet(NewTexts(value, K)[k])
  <2>1. NewTexts(value, K)[k] = Usage("store", value[k])  BY DEF NewTexts
  <2>2. PICK t \in Type : t = "store"  BY DEF Type
  <2>3. PICK c : c = value[k]  OBVIOUS
  <2>4. ContentOK(t, c)  BY <2>2, <2>3, StringOK
  <2>5. IsFiniteSet(Usage(t, c))  BY <2>4, UsageFinite
  <2> QED  BY <2>1, <2>2, <2>3, <2>5
<1>3. IsFiniteSet(Together(NewTexts(value, K)))  BY <1>1, <1>2, TogetherFinite
<1> QED  BY <1>3, FS_CardinalityType

LEMMA NewTextsAdd ==
  ASSUME NEW K, IsFiniteSet(K), NEW k, k \notin K, NEW value, \A j \in K \cup {k} : value[j] \in Value
  PROVE  Cardinality(Together(NewTexts(value, K \cup {k})))
           = Cardinality(Together(NewTexts(value, K))) + Cardinality(Together(NewTexts(value, {k})))
<1>1. PICK A, B, C : /\ A = Together(NewTexts(value, K)) /\ B = Together(NewTexts(value, {k}))
                     /\ C = Together(NewTexts(value, K \cup {k}))
  OBVIOUS
<1>2. \A M, b : b \in Together(NewTexts(value, M)) <=> \E j \in M : b \in {j} \X Usage("store", value[j])
  <2> SUFFICES ASSUME NEW M, NEW b
               PROVE  b \in Together(NewTexts(value, M)) <=> \E j \in M : b \in {j} \X Usage("store", value[j])
    OBVIOUS
  <2>1. DOMAIN NewTexts(value, M) = M /\ \A j \in M : NewTexts(value, M)[j] = Usage("store", value[j])
    BY DEF NewTexts
  <2> QED  BY <2>1, TogetherAre
<1>3. C = A \cup B
  <2>1. ASSUME NEW b PROVE b \in C <=> b \in A \/ b \in B  BY <1>1, <1>2
  <2> QED  BY <2>1
<1>4. A \cap B = {}
  <2>1. \A b \in A : b[1] \in K  BY <1>1, <1>2
  <2>2. \A b \in B : b[1] = k  BY <1>1, <1>2
  <2> QED  BY <2>1, <2>2
<1>5. IsFiniteSet(A) /\ IsFiniteSet(B) /\ Cardinality(A) \in Nat /\ Cardinality(B) \in Nat
  <2>1. IsFiniteSet({k})  BY FS_Singleton
  <2>2. \A j \in {k} : value[j] \in Value  OBVIOUS
  <2>3. \A j \in K : value[j] \in Value  OBVIOUS
  <2>4. IsFiniteSet(A) /\ Cardinality(A) \in Nat  BY <1>1, <2>3, NewTextsFinite
  <2>5. IsFiniteSet(B) /\ Cardinality(B) \in Nat  BY <1>1, <2>1, <2>2, NewTextsFinite
  <2> QED  BY <2>4, <2>5
<1>6. Cardinality(A \cup B) = Cardinality(A) + Cardinality(B) - Cardinality(A \cap B)  BY <1>5, FS_Union
<1>7. Cardinality(A \cap B) = 0  BY <1>4, FS_EmptySet
<1>8. PICK a, b : a = Cardinality(A) /\ b = Cardinality(B) /\ a \in Nat /\ b \in Nat  BY <1>5
<1>9. Cardinality(A \cup B) = a + b  BY <1>6, <1>7, <1>8
<1> QED  BY <1>1, <1>3, <1>8, <1>9

LEMMA KeyUsageAdds ==
  ASSUME NEW d, Shape(d), NEW K, NEW k, k \notin K
  PROVE  /\ KeyUsage(d, K \cup {k}) = KeyUsage(d, K) + KeyUsage(d, {k})
         /\ KeyUsage(d, K) \in Nat /\ KeyUsage(d, {k}) \in Nat
<1>1. PICK S : S = StoreBytes(d) /\ IsFiniteSet(S)  BY DEF Shape
<1>2. PICK A, B, C : /\ A = {b \in S : b[1][2] \in K} /\ B = {b \in S : b[1][2] \in {k}}
                     /\ C = {b \in S : b[1][2] \in K \cup {k}}
  OBVIOUS
<1>3. IsFiniteSet(A) /\ IsFiniteSet(B)  BY <1>1, <1>2, FS_Subset
<1>4. C = A \cup B  BY <1>2
<1>5. A \cap B = {}  BY <1>2
<1>6. Cardinality(A \cup B) = Cardinality(A) + Cardinality(B) - Cardinality(A \cap B)  BY <1>3, FS_Union
<1>7. Cardinality(A \cap B) = 0  BY <1>5, FS_EmptySet
<1>8. Cardinality(A) \in Nat /\ Cardinality(B) \in Nat  BY <1>3, FS_CardinalityType
<1>9. Cardinality(C) = Cardinality(A) + Cardinality(B)  BY <1>4, <1>6, <1>7, <1>8
<1>10. /\ KeyUsage(d, K) = Cardinality(A) /\ KeyUsage(d, {k}) = Cardinality(B)
       /\ KeyUsage(d, K \cup {k}) = Cardinality(C)
  BY <1>1, <1>2 DEF KeyUsage
<1> QED  BY <1>8, <1>9, <1>10

LEMMA TooBigTogether ==
  ASSUME NEW d, Sound(d), NEW K, IsFiniteSet(K), NEW k, k \notin K,
         NEW value, \A j \in K \cup {k} : value[j] \in Value,
         TooBig(d, value, K), TooBig(d, value, {k})
  PROVE  TooBig(d, value, K \cup {k})
<1>1. PICK a, b : a = KeyUsage(d, K) /\ b = KeyUsage(d, {k}) /\ a \in Nat /\ b \in Nat
                  /\ KeyUsage(d, K \cup {k}) = a + b
  <2>1. Shape(d)  BY DEF Sound
  <2>2. /\ KeyUsage(d, K \cup {k}) = KeyUsage(d, K) + KeyUsage(d, {k})
        /\ KeyUsage(d, K) \in Nat /\ KeyUsage(d, {k}) \in Nat
    BY <2>1, KeyUsageAdds
  <2> QED  BY <2>2
<1>2. PICK x, y : x = Cardinality(Together(NewTexts(value, K))) /\ y = Cardinality(Together(NewTexts(value, {k})))
  OBVIOUS
<1>3. x \in Nat /\ y \in Nat
  <2>1. IsFiniteSet({k})  BY FS_Singleton
  <2>2. \A j \in {k} : value[j] \in Value  OBVIOUS
  <2>3. \A j \in K : value[j] \in Value  OBVIOUS
  <2>4. x \in Nat  BY <1>2, <2>3, NewTextsFinite
  <2>5. y \in Nat  BY <1>2, <2>1, <2>2, NewTextsFinite
  <2> QED  BY <2>4, <2>5
<1>4. Cardinality(Together(NewTexts(value, K \cup {k}))) = x + y  BY <1>2, NewTextsAdd
<1>5. PICK total \in Nat, max \in Nat : total = TotalStoreBytes(d) /\ max = MaxBytes /\ total <= max
  <2>1. MaxBytes \in Nat  BY RedisAssumption DEF RedisAssumption
  <2>2. TotalStoreBytes(d) \in Nat  BY FS_CardinalityType DEF TotalStoreBytes, Sound, Shape
  <2> QED  BY <2>1, <2>2 DEF Sound, Within
<1>6. \A M : DOMAIN NewTexts(value, M) = M  BY DEF NewTexts
<1>7. ~(total - a + x <= max)  BY <1>1, <1>2, <1>5, <1>6 DEF TooBig, FitsKeyUpdates
<1>8. ~(total - b + y <= max)  BY <1>1, <1>2, <1>5, <1>6 DEF TooBig, FitsKeyUpdates
<1>9. ~(total - (a + b) + (x + y) <= max)  BY <1>1, <1>3, <1>5, <1>7, <1>8
<1> QED  BY <1>1, <1>4, <1>5, <1>6, <1>9 DEF TooBig, FitsKeyUpdates

LEMMA FitsIsNotTooBig ==
  ASSUME NEW d, NEW k, NEW value
  PROVE  Fits(d, "store", k, value[k]) <=> ~TooBig(d, value, {k})
<1>1. [j \in {k} |-> Usage("store", value[k])] = NewTexts(value, {k})  BY DEF NewTexts
<1> QED  BY <1>1 DEF Fits, TooBig

(* When the keys of W have been set: each holds its text or is as before,    *)
(* and if none does, they did not fit together.                             *)
Progress(d, e, W, value) ==
  /\ Sound(e)
  /\ Agree(d, e, W)
  /\ \A k \in W : IsText(e, k) \/ Alike(d, e, k)
  /\ (\E k \in W : IsText(e, k)) \/ (e = d /\ (W = {} \/ TooBig(d, value, W)))

LEMMA ProgressStarts == ASSUME NEW d, Sound(d), NEW value PROVE Progress(d, d, {}, value)
BY DEF Progress, Agree, Alike

LEMMA ProgressGoesOn ==
  ASSUME NEW d, Sound(d), NEW e, NEW W \in SUBSET Key, IsFiniteSet(W), NEW k \in Key,
         NEW value, \A j \in W \cup {k} : value[j] \in Value, Progress(d, e, W, value)
  PROVE  Progress(d, SetKey(e, "store", k, value[k], TRUE), W \cup {k}, value)
<1>1. PICK v : v = value[k] /\ v \in Value  OBVIOUS
<1>2. /\ Sound(e) /\ Agree(d, e, W)
      /\ \A j \in W : IsText(e, j) \/ Alike(d, e, j)
      /\ (\E j \in W : IsText(e, j)) \/ (e = d /\ (W = {} \/ TooBig(d, value, W)))
  BY DEF Progress
<1>3. \A j \in Key : j \notin W => Alike(d, e, j)  BY <1>2 DEF Agree
<1>4. CASE Fits(e, "store", k, v)
  <2>1. PICK f : /\ f = SetKey(e, "store", k, v, TRUE)
                 /\ IsText(f, k) /\ \A j : j # k => Alike(e, f, j)
    BY <1>2, <1>4, TextIsSet
  <2>2. Sound(f)
    <3>1. PICK t \in Type : t = "store"  BY DEF Type
    <3>2. ContentOK(t, v)  BY <1>1, <3>1, StringOK
    <3>3. PICK clear \in BOOLEAN : clear = TRUE  OBVIOUS
    <3>4. Sound(SetKey(e, t, k, v, clear))  BY <1>2, <3>1, <3>2, SetKeySound
    <3> QED  BY <2>1, <3>1, <3>3, <3>4
  <2>3. Agree(d, f, W \cup {k})
    <3> SUFFICES ASSUME NEW j \in Key, j \notin W, j # k PROVE Alike(d, f, j)  BY DEF Agree
    <3>1. Alike(d, e, j) /\ Alike(e, f, j)  BY <1>3, <2>1
    <3> QED  BY <3>1, AlikeChain
  <2>4. ASSUME NEW j \in W, j # k PROVE IsText(f, j) \/ Alike(d, f, j)
    <3>1. Alike(e, f, j)  BY <2>1, <2>4
    <3>2. CASE IsText(e, j)  BY <3>1, <3>2 DEF Alike, IsText, Dictionary, Type
    <3>3. CASE Alike(d, e, j)  BY <3>1, <3>3, AlikeChain
    <3> QED  BY <3>2, <3>3, <1>2
  <2>5. \A j \in W \cup {k} : IsText(f, j) \/ Alike(d, f, j)  BY <2>1, <2>4
  <2>6. Progress(d, f, W \cup {k}, value)  BY <2>1, <2>2, <2>3, <2>5 DEF Progress
  <2> QED  BY <1>1, <2>1, <2>6
<1>5. CASE ~Fits(e, "store", k, v)
  <2>1. SetKey(e, "store", k, v, TRUE) = e  BY <1>5 DEF SetKey
  <2>2. Agree(d, e, W \cup {k})  BY <1>2 DEF Agree
  <2>3. \A j \in W \cup {k} : IsText(e, j) \/ Alike(d, e, j)  BY <1>2, <1>3
  <2>4. (\E j \in W \cup {k} : IsText(e, j)) \/ (e = d /\ TooBig(d, value, W \cup {k}))
    <3>1. CASE \E j \in W : IsText(e, j)  BY <3>1
    <3>2. CASE e = d /\ (W = {} \/ TooBig(d, value, W))
      <4>1. TooBig(d, value, {k})  BY <1>1, <1>5, <3>2, FitsIsNotTooBig
      <4>2. CASE W = {}
        <5>1. W \cup {k} = {k}  BY <4>2
        <5> QED  BY <3>2, <4>1, <5>1
      <4>3. CASE k \in W
        <5>1. W \cup {k} = W  BY <4>3
        <5>2. TooBig(d, value, W)  BY <3>2, <4>3
        <5> QED  BY <3>2, <5>1, <5>2
      <4>4. CASE W # {} /\ k \notin W
        <5>1. TooBig(d, value, W)  BY <3>2, <4>4
        <5>2. TooBig(d, value, W \cup {k})  BY <4>1, <4>4, <5>1, TooBigTogether
        <5> QED  BY <3>2, <5>2
      <4> QED  BY <4>2, <4>3, <4>4
    <3> QED  BY <3>1, <3>2, <1>2
  <2>5. Progress(d, e, W \cup {k}, value)  BY <1>2, <2>2, <2>3, <2>4 DEF Progress
  <2> QED  BY <1>1, <2>1, <2>5
<1> QED  BY <1>4, <1>5

LEMMA SetKeysProgress ==
  ASSUME NEW d, Sound(d), NEW ks \in Seq(Key), NEW value, \A i \in DOMAIN ks : value[ks[i]] \in Value
  PROVE  Progress(d, SetKeys(d, ks, value), Range(ks), value)
<1>1. PICK n \in Nat : n = Len(ks) /\ DOMAIN ks = 1 .. n /\ \A i \in 1 .. n : ks[i] \in Key  OBVIOUS
<1>2. PICK f : Written(f, n, d, ks, value) /\ SetKeys(d, ks, value) = f[n]  BY <1>1, SetKeysIs
<1>3. f[0] = d /\ \A m \in 1 .. n : f[m] = SetKey(f[m - 1], "store", ks[m], value[ks[m]], TRUE)
  <2>1. f = [i \in 0 .. n |-> IF i = 0 THEN d ELSE Next1(f[i - 1], ks, value, i)]  BY <1>2 DEF Written
  <2>2. f[0] = d  BY <2>1
  <2>3. ASSUME NEW m \in 1 .. n PROVE f[m] = SetKey(f[m - 1], "store", ks[m], value[ks[m]], TRUE)
    <3>1. m \in 0 .. n /\ m # 0  OBVIOUS
    <3>2. f[m] = Next1(f[m - 1], ks, value, m)  BY <2>1, <3>1
    <3> QED  BY <3>2 DEF Next1
  <2> QED  BY <2>2, <2>3
<1> DEFINE W(m) == {ks[i] : i \in 1 .. m}
           S == {m \in 0 .. n : IsFiniteSet(W(m)) /\ Progress(d, f[m], W(m), value)}
<1>4. 0 \in S
  <2>1. W(0) = {}  OBVIOUS
  <2>2. IsFiniteSet({})  BY FS_EmptySet
  <2>3. Progress(d, d, {}, value)  BY ProgressStarts
  <2>4. IsFiniteSet(W(0)) /\ Progress(d, f[0], W(0), value)  BY <2>1, <2>2, <2>3, <1>3
  <2> HIDE DEF W
  <2> QED  BY <2>4, <1>1
<1>5. ASSUME NEW m \in 1 .. n, m - 1 \in S PROVE m \in S
  <2>1. PICK U, k, e : U = W(m - 1) /\ k = ks[m] /\ e = f[m - 1]  OBVIOUS
  <2>2. IsFiniteSet(U) /\ Progress(d, e, U, value)  BY <1>5, <2>1
  <2>3. U \in SUBSET Key /\ k \in Key /\ \A j \in U \cup {k} : value[j] \in Value
    <3>1. \A i \in 1 .. m - 1 : i \in 1 .. n  BY <1>1
    <3> QED  BY <1>1, <2>1, <3>1
  <2>4. Progress(d, SetKey(e, "store", k, value[k], TRUE), U \cup {k}, value)  BY <2>2, <2>3, ProgressGoesOn
  <2>5. W(m) = U \cup {k}
    <3>1. 1 .. m = (1 .. m - 1) \cup {m}  BY <1>1
    <3> QED  BY <2>1, <3>1
  <2>6. f[m] = SetKey(e, "store", k, value[k], TRUE)  BY <1>3, <2>1
  <2>7. IsFiniteSet(U \cup {k})  BY <2>2, FS_AddElement
  <2> HIDE DEF W, S
  <2>8. IsFiniteSet(W(m))  BY <2>5, <2>7
  <2>9. Progress(d, f[m], W(m), value)  BY <2>4, <2>5, <2>6
  <2>10. m \in 0 .. n  BY <1>1
  <2> QED  BY <2>8, <2>9, <2>10 DEF S
<1> HIDE DEF S
<1>6. 0 .. n \subseteq S  BY <1>4, <1>5, Steps
<1>7. n \in S  BY <1>1, <1>6
<1>8. Progress(d, f[n], W(n), value)  BY <1>7 DEF S
<1>9. W(n) = Range(ks)  BY <1>1 DEF Range
<1> QED  BY <1>2, <1>8, <1>9

LEMMA MSetRefines ==
  ASSUME RedisInv, RedisInv', NEW ks \in Keys, NEW value \in [Range(ks) -> Value], MSet(ks, value)
  PROVE  KeyStore!StoreNext
<1>1. ks \in Seq(Key) /\ DOMAIN ks = 1 .. Len(ks) /\ Len(ks) \in 1 .. MaxArgs  BY KeysAre
<1>2. Range(ks) \subseteq Key /\ Range(ks) # {} /\ \A i \in DOMAIN ks : value[ks[i]] \in Value
  <2>1. MaxArgs \in Nat  BY RedisAssumption DEF RedisAssumption
  <2>2. 1 \in DOMAIN ks  BY <1>1, <2>1
  <2> QED  BY <1>1, <2>2 DEF Range
<1>3. PICK K \in SUBSET Key : K = Range(ks)  BY <1>2
<1>4. PICK d, e : d = Purge(redis, K) /\ e = SetKeys(d, ks, value)  OBVIOUS
<1>5. Sound(d) /\ SameView(redis, d)  BY <1>4, PurgeIs DEF Purged
<1>6. (~TooBig(d, value, K) /\ Answer(e, "replaced")) \/ Answer(d, "refused")
  BY <1>3, <1>4 DEF MSet, TooBig, NewTexts
<1>7. CASE Answer(d, "refused")
  <2>1. redis' = d /\ reply' = "refused"  BY <1>7 DEF Answer
  <2> QED  BY <1>5, <2>1, NothingSeen
<1>8. CASE ~TooBig(d, value, K) /\ Answer(e, "replaced")
  <2>1. redis' = e /\ reply' = "replaced"  BY <1>8 DEF Answer
  <2>2. Progress(d, e, K, value)  BY <1>1, <1>2, <1>3, <1>4, <1>5, SetKeysProgress
  <2>3. \E k \in K : IsText(e, k)  BY <1>2, <1>3, <1>8, <2>2 DEF Progress
  <2>4. Agree(d, e, K) /\ \A k \in K : IsText(e, k) \/ Alike(d, e, k)  BY <2>2 DEF Progress
  <2> QED  BY <1>5, <2>1, <2>3, <2>4, ReplacesRefines
<1> QED  BY <1>6, <1>7, <1>8

-----------------------------------------------------------------------------
(* Every command is a step of the key store, and so is the time that passes. *)
LEMMA OneKeyRefines ==
  ASSUME RedisInv, RedisInv', NEW k \in Key, Idles(k) \/ LooksUp(k) \/ Updates(k) \/ Takes(k)
  PROVE  KeyStore!StoreNext
BY IdlesRefines, LooksUpRefines, UpdatesRefines, TakesRefines

LEMMA StringCommandRefines == ASSUME RedisInv, RedisInv', StringCommand PROVE KeyStore!StoreNext
<1>1. CASE \E ks \in Keys : \E value \in [Range(ks) -> Value] : MSet(ks, value)  BY <1>1, MSetRefines
<1>2. CASE \E ks \in Keys : ReadStrings(ks)  BY <1>2, ReadManyRefines DEF ReadStrings
<1>3. CASE \E k \in Key : Incr(k)  BY <1>3, IncrDoes, OneKeyRefines
<1>4. CASE \E k \in Key, v \in Value : Set(k, v)  BY <1>4, SetRefines
<1> QED  BY <1>1, <1>2, <1>3, <1>4 DEF StringCommand

LEMMA HashCommandRefines == ASSUME RedisInv, RedisInv', HashCommand PROVE KeyStore!StoreNext
<1>1. PICK k \in Key :
        ReadHash(k) \/ \E F \in (SUBSET Field) \ {{}} : \E fields \in [F -> Value] : HSet(k, fields)
  BY DEF HashCommand
<1>2. CASE ReadHash(k)  BY <1>2, ReadOneDoes, OneKeyRefines
<1>3. CASE \E F \in (SUBSET Field) \ {{}} : \E fields \in [F -> Value] : HSet(k, fields)
  BY <1>3, HSetDoes, OneKeyRefines
<1> QED  BY <1>1, <1>2, <1>3

LEMMA SetCommandRefines == ASSUME RedisInv, RedisInv', SetCommand PROVE KeyStore!StoreNext
<1>1. CASE \E k \in Key : ReadSet(k)  BY <1>1, ReadOneDoes, OneKeyRefines
<1>2. CASE \E k \in Key : \E count \in 0 .. MaxArgs : SPop(k, count)  BY <1>2, SRemDoes, OneKeyRefines
<1>3. CASE \E k \in Key : \E M \in (SUBSET Value) \ {{}} : SAdd(k, M)  BY <1>3, SAddDoes, OneKeyRefines
<1>4. CASE \E k \in Key : \E M \in (SUBSET Value) \ {{}} : SRem(k, M)  BY <1>4, SRemDoes, OneKeyRefines
<1>5. CASE \E s, t \in Key, m \in Value : SMove(s, t, m)  BY <1>5, SMoveRefines
<1>6. CASE \E ks \in Keys : CombineSets(ks)  BY <1>6, ReadManyRefines DEF CombineSets
<1>7. CASE \E ks \in Keys, k \in Key : SUnionStore(k, ks) \/ SInterStore(k, ks) \/ SDiffStore(k, ks)
  BY <1>7, SStoreRefines
<1> QED  BY <1>1, <1>2, <1>3, <1>4, <1>5, <1>6, <1>7 DEF SetCommand

LEMMA ListCommandRefines == ASSUME RedisInv, RedisInv', ListCommand PROVE KeyStore!StoreNext
<1>1. CASE \E k \in Key, vs \in Values : LPush(k, vs) \/ RPush(k, vs)  BY <1>1, PushDoes, OneKeyRefines
<1>2. CASE \E k \in Key : \E end : ListPop(k, end)  BY <1>2, ListPopDoes, OneKeyRefines
<1>3. CASE \E k \in Key : ReadList(k)  BY <1>3, ReadOneDoes, OneKeyRefines
<1>4. CASE \E s, t \in Key : \E from, to : LMove(s, t, from, to)  BY <1>4, LMoveRefines
<1>5. CASE \E k \in Key, e \in Value, after \in {0, 1} : \E pivot : LInsert(k, after, pivot, e)
  BY <1>5, LInsertDoes, OneKeyRefines
<1>6. CASE \E k \in Key, e \in Value, i \in Index : LSet(k, i, e)  BY <1>6, LSetDoes, OneKeyRefines
<1>7. CASE \E k \in Key, i \in Index : \E e : LRem(k, i, e)  BY <1>7, LRemDoes, OneKeyRefines
<1>8. CASE \E k \in Key, i, j \in Index : LTrim(k, i, j)  BY <1>8, LTrimDoes, OneKeyRefines
<1> QED  BY <1>1, <1>2, <1>3, <1>4, <1>5, <1>6, <1>7, <1>8 DEF ListCommand

LEMMA KeyCommandRefines == ASSUME RedisInv, RedisInv', KeyCommand PROVE KeyStore!StoreNext
<1>1. CASE \E k \in Key : Persist(k)  BY <1>1, PersistRefines
<1>2. CASE \E k \in Key : \E ttl \in Ttl \cup {0} : Expire(k, ttl)
  <2>1. Ttl \cup {0} \subseteq Nat  BY RedisAssumption DEF RedisAssumption
  <2> QED  BY <1>2, <2>1, ExpireRefines
<1>3. CASE \E K \in SUBSET Key : Del(K)  BY <1>3, DelRefines
<1>4. CASE \E K \in SUBSET Key : ReadMeta(K)  BY <1>4, ReadMetaRefines
<1>5. CASE FlushAll  BY <1>5, FlushRefines
<1>6. ListKeys => \E K \in SUBSET Key : ReadMeta(K)  BY DEF ListKeys
<1> QED  BY <1>1, <1>2, <1>3, <1>4, <1>5, <1>6 DEF KeyCommand

LEMMA RedisNextRefines ==
  ASSUME RedisInv, RedisInv', [RedisNext]_redisVars PROVE [KeyStore!StoreNext]_(KeyStore!storeVars)
<1>1. CASE UNCHANGED redisVars
  BY <1>1 DEF redisVars, KeyStore!storeVars, LiveData, Live, Expired, Has
<1>2. CASE RedisNext
  BY <1>2, StringCommandRefines, HashCommandRefines, SetCommandRefines, ListCommandRefines,
     KeyCommandRefines, TickRefines DEF RedisNext
<1> QED  BY <1>1, <1>2

-----------------------------------------------------------------------------
(* Each of the dialogues keeps to its own state, so their invariants hold     *)
(* whichever part moves.                                                    *)
LEMMA DialoguesAlwaysInv == DatabasesSpec => [](PgInv /\ MyInv)
<1>1. DatabasesInit => PgInv /\ MyInv  BY PgInitInv, MyInitInv DEF DatabasesInit
<1>2. PgInv /\ MyInv /\ [DatabasesNext]_databaseVars => (PgInv /\ MyInv)'
  <2> SUFFICES ASSUME PgInv, MyInv, [DatabasesNext]_databaseVars PROVE PgInv' /\ MyInv'
    OBVIOUS
  <2>1. [PgNext]_pgVars /\ [MyNext]_myVars  BY DEF DatabasesNext, databaseVars
  <2> QED  BY <2>1, PgNextKeepsInv, MyNextKeepsInv
<1> QED  BY <1>1, <1>2, PTL DEF DatabasesSpec

(* In a connection to either SQL emulator, for any names, queries, limits and *)
(* orders of messages: what is executed is what was prepared or bound.        *)
THEOREM StatementsKeepQueries == DatabasesSpec => []StatementsRunAsPrepared
<1>1. PgInv /\ MyInv => StatementsRunAsPrepared
  BY PgInvExecutes, MyInvRuns DEF StatementsRunAsPrepared
<1> QED  BY <1>1, DialoguesAlwaysInv, PTL

(* The Memcached store moves by itself too.                                  *)
LEMMA CacheAlwaysInv == DatabasesSpec => []CacheInv
<1>1. DatabasesInit => CacheInv  BY CacheInitInv DEF DatabasesInit
<1>2. CacheInv /\ [DatabasesNext]_databaseVars => CacheInv'
  <2> SUFFICES ASSUME CacheInv, [DatabasesNext]_databaseVars PROVE CacheInv'
    OBVIOUS
  <2>1. [MemcachedNext]_memcachedVars  BY DEF DatabasesNext, databaseVars
  <2> QED  BY <2>1, CacheNextKeepsInv
<1> QED  BY <1>1, <1>2, PTL DEF DatabasesSpec

(* Whatever commands come in: the store and the tokens hold the same keys, no *)
(* token is used twice, and the values fit the budget.                       *)
THEOREM CacheStaysSound == DatabasesSpec => []CacheSound
<1>1. CacheInv => CacheSound  BY CacheInvSound
<1> QED  BY <1>1, CacheAlwaysInv, PTL

(* A compare-and-swap stores over the value its client saw, or not at all.    *)
THEOREM CasStaysGuarded == DatabasesSpec => CasIsGuarded
<1> DEFINE Guarded ==
      \A c \in Client, k \in Item, n \in 0 .. MaxValueBytes :
        (seen[c].key = k /\ CacheCas(c, k, n, seen[c].token) /\ counter' # counter) => seen[c].unchanged
<1>1. CacheInv => Guarded  BY CacheInvGuardsCas
<1>2. CacheInv => [Guarded]_memcachedVars  BY <1>1
<1> QED  BY <1>2, CacheAlwaysInv, PTL DEF CasIsGuarded

LEMMA RedisAlwaysInv == DatabasesSpec => []RedisInv
<1>1. DatabasesInit => RedisInv  BY RedisInitInv DEF DatabasesInit
<1>2. RedisInv /\ [DatabasesNext]_databaseVars => RedisInv'
  <2> SUFFICES ASSUME RedisInv, [DatabasesNext]_databaseVars PROVE RedisInv'
    OBVIOUS
  <2>1. [RedisNext]_redisVars  BY DEF DatabasesNext, databaseVars
  <2> QED  BY <2>1, RedisNextKeepsInv
<1> QED  BY <1>1, <1>2, PTL DEF DatabasesSpec

(* Whatever commands come in, over however many keys, values and bytes: a key *)
(* of Redis is in one dictionary at most and never with an empty container, a *)
(* deadline belongs to a key that is there, and the values of both stores fit *)
(* their budgets.                                                           *)
THEOREM DatabasesStaySound == DatabasesSpec => []DatabasesSound
<1>1. RedisInv => StoreSound  BY RedisInvSound
<1>2. CacheInv => CacheSound  BY CacheInvSound
<1>3. RedisInv /\ CacheInv => DatabasesSound  BY <1>1, <1>2 DEF DatabasesSound
<1> QED  BY <1>3, RedisAlwaysInv, CacheAlwaysInv, PTL

(* Whatever is purged when, over however many keys, values and bytes, clients *)
(* of the Redis emulator meet a key store with deadlines: a key is gone once  *)
(* its deadline passes, a command changes no key but those it names, what it  *)
(* reports done is done, elements are moved and not lost, and a deadline      *)
(* survives updates and ends with the key or its replacement.               *)
THEOREM RedisImplementsKeyStore == DatabasesSpec => RedisIsKeyStore
<1>1. DatabasesInit => KeyStore!StoreInit  BY StoreInitRefines DEF DatabasesInit
<1>2. RedisInv /\ RedisInv' /\ [DatabasesNext]_databaseVars => [KeyStore!StoreNext]_(KeyStore!storeVars)
  <2> SUFFICES ASSUME RedisInv, RedisInv', [DatabasesNext]_databaseVars
               PROVE  [KeyStore!StoreNext]_(KeyStore!storeVars)
    OBVIOUS
  <2>1. [RedisNext]_redisVars  BY DEF DatabasesNext, databaseVars
  <2> QED  BY <2>1, RedisNextRefines
<1> QED  BY <1>1, <1>2, RedisAlwaysInv, PTL DEF DatabasesSpec, RedisIsKeyStore, KeyStore!StoreSpec
==============================================================================
