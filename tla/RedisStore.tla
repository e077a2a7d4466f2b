----------------------------- MODULE RedisStore -----------------------------
(***************************************************************************)
(* The key store of the Redis emulator                                     *)
(* (services/database/redis_emulator.py): one dictionary per type of value  *)
(* and one of deadlines, shared by the threads of all connections.  Every   *)
(* command is one critical section under _store_lock and so one step.  An   *)
(* expired key stays in the dictionaries until a command that names it, or  *)
(* one that lists keys, purges it.  The store counts the bytes of values,   *)
(* not of keys.                                                            *)
(*                                                                         *)
(* A value is a numeral (a natural number) or another text (of one byte).   *)
(* A deadline is the time left, and 0 once it has passed.  A reply is       *)
(* "value" (a read found something), "none" (nothing there to act on),       *)
(* "refused" (an error) or what a kind of writing command says that did its   *)
(* work: "replaced", "updated", "taken", "moved", "combined", "removed",     *)
(* "timed" or "cleared".  Commands with a wrong number of arguments change    *)
(* nothing and are left out.  Bounds: MaxNumber for what INCR counts to,     *)
(* MaxArgs arguments of a repeated kind.                                    *)
(***************************************************************************)
EXTENDS Integers, Sequences, FiniteSets, SequencesExt, FiniteSetsExt, Functions

CONSTANTS
  Key, Field,
  Text,       (* values that are not numerals                                *)
  Number,     (* the numerals clients send                                   *)
  Ttl,        (* the times to live they send                                 *)
  Index,      (* the list indices and counts they send                       *)
  MaxBytes,   (* _MAX_TOTAL_STORE_BYTES                                      *)
  MaxNumber, MaxArgs

ASSUME RedisAssumption ==
  /\ Number \cup Ttl \cup {MaxBytes, MaxNumber, MaxArgs} \subseteq Nat
  /\ 0 \notin Ttl
  /\ Index \subseteq Int
  /\ IsFiniteSet(Field) /\ IsFiniteSet(Text \cup Number)   \* what one command may name

VARIABLES
  redis,      (* the dictionaries: store, hash, list, set, expirations       *)
  reply       (* of the last command                                         *)

redisVars == <<redis, reply>>

Type  == {"store", "hash", "list", "set"}
Value == Text \cup Number

Without(f, K) == Restrict(f, DOMAIN f \ K)
Merged(f, g)  == [x \in DOMAIN f \cup DOMAIN g |-> IF x \in DOMAIN g THEN g[x] ELSE f[x]]
Empty == << >>

RedisInit ==
  /\ redis = [d \in Type \cup {"expirations"} |-> Empty]
  /\ reply = "none"

-----------------------------------------------------------------------------
(* Keys and their deadlines.                                               *)

Has(d, k)      == \E t \in Type : k \in DOMAIN d[t]
Wrong(d, k, t) == \E u \in Type \ {t} : k \in DOMAIN d[u]

Delete(d, K) == [t \in DOMAIN d |-> Without(d[t], K)]

Expired(d) == {k \in DOMAIN d.expirations : d.expirations[k] = 0}

Purge(d, K) == Delete(d, Expired(d) \cap K)

(* The bytes of a value, each by its place.                                 *)
Encoded(v) == IF v \in Text THEN {0} ELSE {0} \cup {i \in 1 .. v - 1 : 10^i <= v}

(* The bytes of a family of sets of bytes, each by its set and its place.    *)
Together(family) == UNION {{x} \X family[x] : x \in DOMAIN family}

(* The byte of a hash's field is at place -1.                               *)
Usage(t, c) ==
  Together(CASE t = "store" -> [x \in {0} |-> Encoded(c)]
             [] t = "hash"  -> [f \in DOMAIN c |-> {-1} \cup Encoded(c[f])]
             [] t = "list"  -> [i \in DOMAIN c |-> Encoded(c[i])]
             [] t = "set"   -> [m \in c |-> Encoded(m)])

Held(d)       == {p \in Type \X Key : p[2] \in DOMAIN d[p[1]]}
StoreBytes(d) == Together([p \in Held(d) |-> Usage(p[1], d[p[1]][p[2]])])

TotalStoreBytes(d) == Cardinality(StoreBytes(d))

(* A key is in one dictionary at most: StoreSound.                          *)
KeyUsage(d, K) == Cardinality({b \in StoreBytes(d) : b[1][2] \in K})

(* updates: the new bytes of each key that is about to be written.           *)
FitsKeyUpdates(d, updates) ==
  TotalStoreBytes(d) - KeyUsage(d, DOMAIN updates) + Cardinality(Together(updates)) <= MaxBytes

-----------------------------------------------------------------------------
(* Writing a key.                                                          *)

Nothing(t) == IF t = "set" THEN {} ELSE Empty

Get(d, t, k) == IF k \in DOMAIN d[t] THEN d[t][k] ELSE Nothing(t)
Put(d, t, k, c) == [d EXCEPT ![t] = Merged(d[t], [j \in {k} |-> c])]

Fits(d, t, k, c) == FitsKeyUpdates(d, [j \in {k} |-> Usage(t, c)])

(* _set_key_string, _hash, _list and _set: d where k holds c, or nothing if  *)
(* c is empty; d itself when c does not fit.                                *)
SetKey(d, t, k, c, clear) ==
  LET keep  == IF clear THEN {} ELSE {"expirations"}
      other == [u \in DOMAIN d |-> IF u \in keep THEN d[u] ELSE Without(d[u], {k})]
  IN  IF ~Fits(d, t, k, c) THEN d
      ELSE IF t # "store" /\ c = Nothing(t) THEN other
      ELSE Put(other, t, k, c)

(* What commands that take elements away in place leave: an emptied key is   *)
(* deleted, and its deadline with it.                                       *)
(* Faulty variant: the deadline stays.                                      *)
ShrinkKeepDeadline(d, t, k, c) ==
  IF c = Nothing(t) THEN [d EXCEPT ![t] = Without(@, {k})] ELSE Put(d, t, k, c)
Shrink(d, t, k, c) == IF c = Nothing(t) THEN Delete(d, {k}) ELSE Put(d, t, k, c)

Answer(d, r) == redis' = d /\ reply' = r

Commit(d, t, k, c, r) ==
  IF Fits(d, t, k, c) THEN Answer(SetKey(d, t, k, c, r = "replaced"), r)
                      ELSE Answer(d, "refused")

If(b, r) == IF b THEN r ELSE "none"

(* The dictionaries after the keys of ks were purged and looked at in turn   *)
(* as keys of type t, up to the first that holds another type.               *)
Visit(ks, t) ==
  LET wrong == {i \in DOMAIN ks : Wrong(Purge(redis, {ks[i]}), ks[i], t)}
      last  == IF wrong = {} THEN Len(ks) ELSE Min(wrong)
  IN  [db |-> Purge(redis, Range(SubSeq(ks, 1, last))), ok |-> wrong = {}]

ReadMany(ks, t) ==
  LET v == Visit(ks, t)
  IN  Answer(v.db, IF v.ok THEN If(\E i \in DOMAIN ks : Has(v.db, ks[i]), "value") ELSE "refused")

(* A command on one key of type t, which has been purged when Change sees it *)
OnKey(k, t, Change(_)) ==
  LET v == Visit(<<k>>, t)
  IN  IF v.ok THEN Change(v.db) ELSE Answer(v.db, "refused")

(* ... and is to hold something.                                            *)
OnPresent(k, t, Change(_)) ==
  OnKey(k, t, LAMBDA d : IF k \in DOMAIN d[t] THEN Change(d) ELSE Answer(d, "none"))

Keys == UNION {[1 .. n -> Key] : n \in 1 .. MaxArgs}
Values == UNION {[1 .. n -> Value] : n \in 1 .. MaxArgs}

-----------------------------------------------------------------------------
(* Strings.                                                                *)

Set(k, v) == Commit(Purge(redis, {k}), "store", k, v, "replaced")

(* The keys are written one by one, each if it fits then.                    *)
SetKeys(d, ks, value) ==
  LET after[i \in 0 .. Len(ks)] ==
        IF i = 0 THEN d ELSE SetKey(after[i - 1], "store", ks[i], value[ks[i]], TRUE)
  IN  after[Len(ks)]

MSet(ks, value) ==
  LET d == Purge(redis, Range(ks))
  IN  IF FitsKeyUpdates(d, [k \in Range(ks) |-> Usage("store", value[k])])
      THEN Answer(SetKeys(d, ks, value), "replaced")
      ELSE Answer(d, "refused")

ReadStrings(ks) == ReadMany(ks, "store")

Incr(k) == OnKey(k, "store", LAMBDA d :
  LET n == IF k \in DOMAIN d.store THEN d.store[k] ELSE 0
  IN  IF n \in Text THEN Answer(d, "refused")
      ELSE n < MaxNumber /\ Commit(d, "store", k, n + 1, "updated"))

(* Hashes.                                                                 *)

HSet(k, fields) == OnKey(k, "hash", LAMBDA d :
  Commit(d, "hash", k, Merged(Get(d, "hash", k), fields), "updated"))

ReadHash(k) == OnPresent(k, "hash", LAMBDA d : Answer(d, "value"))

-----------------------------------------------------------------------------
(* Sets.                                                                   *)

SAdd(k, M) == OnKey(k, "set", LAMBDA d : Commit(d, "set", k, Get(d, "set", k) \cup M, "updated"))

SRem(k, M) == OnPresent(k, "set", LAMBDA d :
  Answer(Shrink(d, "set", k, d.set[k] \ M), If(M \cap d.set[k] # {}, "taken")))

SPop(k, count) == OnPresent(k, "set", LAMBDA d :
  \E M \in SUBSET d.set[k] :
     /\ Cardinality(M) = IF count < Cardinality(d.set[k]) THEN count ELSE Cardinality(d.set[k])
     /\ Answer(Shrink(d, "set", k, d.set[k] \ M), If(M # {}, "taken")))

(* Faulty variant: the destination is not purged.                           *)
SMoveUnpurged(s, t, m) ==
  LET d == Purge(redis, {s})
  IN  IF Wrong(d, s, "set") \/ Wrong(d, t, "set") THEN Answer(d, "refused")
      ELSE IF m \notin Get(d, "set", s) THEN Answer(d, "none")
      ELSE IF s = t THEN Answer(d, "moved")
      ELSE Answer(Shrink(Put(d, "set", t, Get(d, "set", t) \cup {m}),
                         "set", s, d.set[s] \ {m}), "moved")
SMove(s, t, m) ==
  LET d == Purge(redis, {s, t})
  IN  IF Wrong(d, s, "set") \/ Wrong(d, t, "set") THEN Answer(d, "refused")
      ELSE IF m \notin Get(d, "set", s) THEN Answer(d, "none")
      ELSE IF s = t THEN Answer(d, "moved")
      ELSE Answer(Shrink(Put(d, "set", t, Get(d, "set", t) \cup {m}),
                         "set", s, d.set[s] \ {m}), "moved")

(* SMEMBERS and the like.  SMEMBERS sorts the set when the lock is free again, *)
(* so it may send one of a moment later; what is sent is left out here.      *)
ReadSet(k) == OnPresent(k, "set", LAMBDA d : Answer(d, "value"))

(* SUNION, SINTER, SDIFF; SINTERCARD may stop at an earlier key.             *)
CombineSets(ks) == ReadMany(ks, "set")

StoreSet(k, ks, Combined(_)) ==
  LET v == Visit(ks, "set")
      result == Combined([i \in DOMAIN ks |-> Get(v.db, "set", ks[i])])
  IN  IF v.ok /\ Fits(v.db, "set", k, result)
      THEN Answer(SetKey(v.db, "set", k, result, TRUE), If(result # {}, "combined"))
      ELSE Answer(v.db, "refused")

SUnionStore(k, ks) == StoreSet(k, ks, LAMBDA m : UNION Range(m))
SInterStore(k, ks) == StoreSet(k, ks, LAMBDA m : {x \in m[1] : \A i \in DOMAIN m : x \in m[i]})
SDiffStore(k, ks)  == StoreSet(k, ks, LAMBDA m : m[1] \ UNION Range(Tail(m)))

-----------------------------------------------------------------------------
(* Lists.                                                                  *)

ListRange(s, start, stop) ==
  LET from == IF start >= 0 THEN start ELSE Max({0, Len(s) + start})
      to   == IF stop >= 0 THEN Min({stop, Len(s) - 1}) ELSE Len(s) + stop
  IN  SubSeq(s, from + 1, to + 1)

(* s without the first n occurrences of e, the last -n, or all when n = 0.   *)
WithoutElement(s, n, e) ==
  LET at   == {i \in DOMAIN s : s[i] = e}
      gone == CASE n = 0 -> at
                [] n > 0 -> {i \in at : Cardinality({j \in at : j <= i}) <= n}
                [] n < 0 -> {i \in at : Cardinality({j \in at : j >= i}) <= -n}
      left == DOMAIN s \ gone
  IN  [place \in 1 .. Cardinality(left) |->
         s[CHOOSE i \in left : Cardinality({j \in left : j <= i}) = place]]

Popped(s, end)     == IF end = "LEFT" THEN Tail(s) ELSE Front(s)
Pushed(s, e, end)  == IF end = "LEFT" THEN <<e>> \o s ELSE Append(s, e)
End(s, end)        == IF end = "LEFT" THEN Head(s) ELSE Last(s)

LPush(k, vs) == OnKey(k, "list", LAMBDA d :
  Commit(d, "list", k, Reverse(vs) \o Get(d, "list", k), "updated"))

RPush(k, vs) == OnKey(k, "list", LAMBDA d :
  Commit(d, "list", k, Get(d, "list", k) \o vs, "updated"))

ListPop(k, end) == OnPresent(k, "list", LAMBDA d :
  Answer(Shrink(d, "list", k, Popped(d.list[k], end)), "taken"))

ReadList(k) == OnPresent(k, "list", LAMBDA d : Answer(d, "value"))

(* LMOVE; RPOPLPUSH moves from the right to the left.  Both keys may be one. *)
LMove(s, t, from, to) ==
  LET d == Purge(redis, {s, t})
  IN  IF Wrong(d, s, "list") \/ Wrong(d, t, "list") THEN Answer(d, "refused")
      ELSE IF s \notin DOMAIN d.list THEN Answer(d, "none")
      ELSE LET taken == Put(d, "list", s, Popped(d.list[s], from))
               moved == Put(taken, "list", t,
                            Pushed(Get(taken, "list", t), End(d.list[s], from), to))
           IN  Answer(Shrink(moved, "list", s, moved.list[s]), "moved")

LInsert(k, after, pivot, e) == OnPresent(k, "list", LAMBDA d :
  LET at == {i \in DOMAIN d.list[k] : d.list[k][i] = pivot}
  IN  IF at = {} THEN Answer(d, "none")
      ELSE Commit(d, "list", k, InsertAt(d.list[k], Min(at) + after, e), "updated"))

LSet(k, index, e) == OnKey(k, "list", LAMBDA d :
  LET s == Get(d, "list", k)
      i == IF index >= 0 THEN index + 1 ELSE Len(s) + index + 1
  IN  IF i \in DOMAIN s THEN Commit(d, "list", k, [s EXCEPT ![i] = e], "updated")
                        ELSE Answer(d, "refused"))

LTrim(k, start, stop) == OnPresent(k, "list", LAMBDA d :
  Answer(Shrink(d, "list", k, ListRange(d.list[k], start, stop)), "taken"))

LRem(k, n, e) == OnPresent(k, "list", LAMBDA d :
  Answer(Shrink(d, "list", k, WithoutElement(d.list[k], n, e)), If(e \in Range(d.list[k]), "taken")))

-----------------------------------------------------------------------------
(* Keys of any type.                                                       *)

Del(K) ==
  LET d    == Purge(redis, K)
      held == {k \in K : Has(d, k)}
  IN  Answer(Delete(d, held), If(held # {}, "removed"))

Expire(k, ttl) ==
  LET d == Purge(redis, {k})
  IN  IF ~Has(d, k) THEN Answer(d, "none")
      ELSE Answer(IF ttl = 0 THEN Delete(d, {k}) ELSE Put(d, "expirations", k, ttl), "timed")

Persist(k) ==
  LET d == Purge(redis, {k})
  IN  Answer([d EXCEPT !.expirations = Without(@, {k})], If(k \in DOMAIN d.expirations, "timed"))

(* TTL, PTTL, TYPE and EXISTS.                                             *)
ReadMeta(K) ==
  LET d == Purge(redis, K) IN Answer(d, If(\E k \in K : Has(d, k), "value"))

(* KEYS, SCAN and DBSIZE look at every key.                                 *)
ListKeys == ReadMeta(Key)

FlushAll == Answer([t \in DOMAIN redis |-> Empty], "cleared")

(* Time passes.                                                            *)
Tick ==
  /\ \E k \in DOMAIN redis.expirations : redis.expirations[k] > 0
  /\ redis' = [redis EXCEPT !.expirations = [k \in DOMAIN @ |-> Max({0, @[k] - 1})]]
  /\ UNCHANGED reply

StringCommand ==
  \/ \E ks \in Keys : IsInjective(ks) /\ \E value \in [Range(ks) -> Value] : MSet(ks, value)
  \/ \E ks \in Keys : ReadStrings(ks)
  \/ \E k \in Key : Incr(k) \/ \E v \in Value : Set(k, v)

HashCommand ==
  \E k \in Key :
    \/ ReadHash(k)
    \/ \E F \in (SUBSET Field) \ {{}} : \E fields \in [F -> Value] : HSet(k, fields)

SetCommand ==
  \/ \E k \in Key :
       \/ ReadSet(k)
       \/ \E count \in 0 .. MaxArgs : SPop(k, count)
       \/ \E M \in (SUBSET Value) \ {{}} : SAdd(k, M) \/ SRem(k, M)
  \/ \E s, t \in Key, m \in Value : SMove(s, t, m)
  \/ \E ks \in Keys :
       \/ CombineSets(ks)
       \/ \E k \in Key : SUnionStore(k, ks) \/ SInterStore(k, ks) \/ SDiffStore(k, ks)

ListCommand ==
  \/ \E k \in Key, vs \in Values : LPush(k, vs) \/ RPush(k, vs)
  \/ \E k \in Key, end \in {"LEFT", "RIGHT"} : ListPop(k, end) \/ ReadList(k)
  \/ \E s, t \in Key, from, to \in {"LEFT", "RIGHT"} : LMove(s, t, from, to)
  \/ \E k \in Key, e \in Value :
       \/ \E after \in {0, 1}, pivot \in Value : LInsert(k, after, pivot, e)
       \/ \E i \in Index : LSet(k, i, e) \/ LRem(k, i, e)
  \/ \E k \in Key, i, j \in Index : LTrim(k, i, j)

KeyCommand ==
  \/ \E k \in Key : Persist(k) \/ \E ttl \in Ttl \cup {0} : Expire(k, ttl)
  \/ \E K \in (SUBSET Key) \ {{}} : Del(K) \/ ReadMeta(K)
  \/ ListKeys
  \/ FlushAll

RedisNext == StringCommand \/ HashCommand \/ SetCommand \/ ListCommand \/ KeyCommand \/ Tick

RedisSpec == RedisInit /\ [][RedisNext]_redisVars

-----------------------------------------------------------------------------
(* The dictionaries agree: a key is in one of them at most and never with    *)
(* an empty container, a deadline belongs to a key that is there, and the    *)
(* values fit the budget.  Fourteen commands write the dictionaries, some    *)
(* through the setters and some in place.                                   *)
StoreSound ==
  /\ \A k \in Key : \A t \in Type :
       k \in DOMAIN redis[t] => /\ ~Wrong(redis, k, t)
                                /\ t # "store" => redis[t][k] # Nothing(t)
  /\ \A k \in DOMAIN redis.expirations : Has(redis, k)
  /\ TotalStoreBytes(redis) <= MaxBytes

(* What clients see: the keys whose deadline has not passed.                 *)
Live == {k \in Key \ Expired(redis) : Has(redis, k)}
LiveData == [k \in Live |-> [t \in {t \in Type : k \in DOMAIN redis[t]} |-> redis[t][k]]]

KeyStore == INSTANCE KeyStore
  WITH data <- LiveData, due <- Without(redis.expirations, Expired(redis))

(* Whatever is purged when, clients meet a store in which a key is gone once *)
(* its deadline passes, a command changes no key but those it names, what it *)
(* reports done is done, elements are moved and not lost, and a deadline     *)
(* survives updates and ends with the key or its replacement.               *)
RedisIsKeyStore == KeyStore!StoreSpec

(* "Capacity check was already completed as a single atomic budget decision" *)
(* (redis_emulator.py:391): an MSET that answers OK has set all its keys.     *)
MSetIsAtomic ==
  [][\A ks \in Keys : IsInjective(ks) =>
       \A value \in [Range(ks) -> Value] :
         MSet(ks, value) /\ reply' = "replaced" =>
           \A k \in Range(ks) : k \in DOMAIN redis'.store /\ redis'.store[k] = value[k]]_redisVars
=============================================================================
