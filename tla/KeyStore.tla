------------------------------ MODULE KeyStore ------------------------------
(***************************************************************************)
(* What a key store with deadlines promises its clients: a map from keys to *)
(* typed values in which every key may have a deadline.  Time that passes   *)
(* takes exactly the keys whose deadline it reaches.                        *)
(***************************************************************************)
EXTENDS Naturals, Functions

CONSTANT Key

VARIABLES
  data,     (* of each key that exists: a function from its type to its value *)
  due,      (* the time left of the keys that have a deadline                 *)
  reply

storeVars == <<data, due, reply>>

StoreInit == data = << >> /\ due = << >> /\ reply = "none"

Drop(f, K) == Restrict(f, DOMAIN f \ K)

(* No other key than those of K is affected.                                *)
OnlyKeys(K) == Drop(data', K) = Drop(data, K) /\ Drop(due', K) = Drop(due, K)

TypeOf(map, k) == DOMAIN map[k]

Elements(map, k) ==
  IF k \notin DOMAIN map THEN {}
  ELSE UNION {CASE t = "set"   -> map[k][t]
                [] t = "list"  -> Range(map[k][t])
                [] t = "hash"  -> Range(map[k][t])
                [] t = "store" -> {map[k][t]} : t \in TypeOf(map, k)}

SameDeadline(k) == (k \in DOMAIN data' \cap DOMAIN due) =>
                      k \in DOMAIN due' /\ due'[k] = due[k]
NoNewDeadline == DOMAIN due' \subseteq DOMAIN due

Replaced(k) ==
  /\ k \in DOMAIN data' /\ TypeOf(data', k) = {"store"}
  /\ k \notin DOMAIN due'

Kept(k) == OnlyKeys(Key \ {k})

(* One key at least becomes a text without a deadline.                       *)
Replace(K) ==
  /\ OnlyKeys(K)
  /\ \A k \in K : Replaced(k) \/ Kept(k)
  /\ \E k \in K : Replaced(k)

(* k keeps its type and its deadline, or begins without one.                 *)
Update(k) ==
  /\ due' = due /\ OnlyKeys({k})
  /\ k \in DOMAIN data'
  /\ k \in DOMAIN data => TypeOf(data', k) = TypeOf(data, k)

Shrink(k) ==
  /\ OnlyKeys({k}) /\ NoNewDeadline /\ SameDeadline(k)
  /\ k \in DOMAIN data
  /\ Elements(data', k) \subseteq Elements(data, k)
  /\ k \in DOMAIN data' => TypeOf(data', k) = TypeOf(data, k) /\ Elements(data', k) # {}

(* The members that combining the sets of K leaves replace k ...             *)
Combine(k, K) ==
  /\ OnlyKeys({k})
  /\ k \in DOMAIN data' /\ TypeOf(data', k) = {"set"} /\ k \notin DOMAIN due'
  /\ Elements(data', k) # {}
  /\ Elements(data', k) \subseteq UNION {Elements(data, j) : j \in K}

(* ... or delete it, if there are none.                                      *)
CombineNone(k) == OnlyKeys({k}) /\ k \notin DOMAIN data'

Move(s, t) ==
  /\ OnlyKeys({s, t}) /\ NoNewDeadline
  /\ SameDeadline(s) /\ SameDeadline(t)
  /\ s \in DOMAIN data /\ t \in DOMAIN data'
  /\ Elements(data', s) \cup Elements(data', t) = Elements(data, s) \cup Elements(data, t)

Remove(K) == OnlyKeys(K) /\ DOMAIN data' \cap K = {} /\ DOMAIN data \cap K # {}

Clear == data' = << >> /\ due' = << >>

SetDeadline(k) ==
  /\ data' = data /\ OnlyKeys({k})
  /\ k \in DOMAIN data /\ k \in DOMAIN due'

DropDeadline(k) == k \in DOMAIN due /\ data' = data /\ due' = Drop(due, {k})

TimePasses ==
  LET over == {k \in DOMAIN due : due[k] = 1}
  IN  /\ data' = Drop(data, over)
      /\ due' = [k \in DOMAIN due \ over |-> due[k] - 1]
      /\ reply' = reply

Same == data' = data /\ due' = due

(* Every kind of command that says it did its work did it.                   *)
StoreNext ==
  \/ TimePasses
  \/ reply' \in {"none", "refused"} /\ Same
  \/ reply' = "none" /\ \E k \in Key : CombineNone(k)
  \/ reply' = "value" /\ Same /\ DOMAIN data # {}
  \/ reply' = "updated" /\ \E k \in Key : Update(k)
  \/ reply' = "replaced" /\ \E K \in SUBSET Key : Replace(K)
  \/ reply' = "taken" /\ \E k \in Key : Shrink(k)
  \/ reply' = "moved" /\ \E s, t \in Key : Move(s, t)
  \/ reply' = "combined" /\ \E k \in Key, K \in SUBSET Key : Combine(k, K)
  \/ reply' = "removed" /\ \E K \in SUBSET Key : Remove(K)
  \/ reply' = "timed" /\ \E k \in Key : SetDeadline(k) \/ DropDeadline(k) \/ Remove({k})
  \/ reply' = "cleared" /\ Clear

StoreSpec == StoreInit /\ [][StoreNext]_storeVars
=============================================================================
