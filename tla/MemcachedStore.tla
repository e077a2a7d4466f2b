--------------------------- MODULE MemcachedStore ---------------------------
(***************************************************************************)
(* The Memcached emulator (services/database/memcached_emulator.py): one    *)
(* value and one compare-and-swap token per key, guarded by _store_lock.    *)
(* Replies that a handler sends inside the critical section, the values of   *)
(* a get among them, keep the lock while the client is slow to read.         *)
(*                                                                         *)
(* A value is its length: what incr and decr write is some numeral.          *)
(* A storage command whose header is rejected leaves its data block in the   *)
(* stream, where it is read as the next command line: as clients send any    *)
(* command at any time, that is one of their commands.  Bound: MaxTokens.    *)
(***************************************************************************)
EXTENDS Integers, Sequences, FiniteSets, Functions

CONSTANTS
  Client, Item,
  MaxValueBytes, MaxCacheBytes,   (* _MAX_VALUE_BYTES, _MAX_TOTAL_STORE_BYTES *)
  MaxKeysPerGet,
  MaxTokens,
  Nobody

ASSUME MemcachedAssumption ==
  /\ {MaxValueBytes, MaxCacheBytes, MaxTokens} \subseteq Nat /\ MaxKeysPerGet \in Nat \ {0}
  /\ Nobody \notin Client \cup Item

VARIABLES
  cache,     (* _store: the length of the value of each key                  *)
  tokens,    (* _cas_tokens                                                  *)
  counter,   (* _cas_counter, from its start value                            *)
  holder,    (* the client whose handler is inside the lock, while it sends   *)
  sending,   (* what it has yet to look up and send: keys, or Nobody for      *)
             (* another reply                                                 *)
  seen       (* history: of the last value a client got with its token, the   *)
             (* key, the token, and whether the key is unchanged since        *)

memcachedVars == <<cache, tokens, counter, holder, sending, seen>>

NotSeen == [key |-> Nobody, token |-> 0, unchanged |-> FALSE]

MemcachedInit ==
  /\ cache = << >> /\ tokens = << >> /\ counter = 0
  /\ holder = Nobody /\ sending = << >>
  /\ seen = [c \in Client |-> NotSeen]

Length(k)  == IF k \in DOMAIN cache THEN cache[k] ELSE 0

(* The bytes of all values, each counted by its key and its place in there.  *)
CacheBytes == Cardinality(UNION {{k} \X (1 .. cache[k]) : k \in DOMAIN cache})

CanStoreValue(k, n) == CacheBytes - Length(k) + n <= MaxCacheBytes

(* k changes hands, for everyone who has seen it.                            *)
Changed(K) ==
  seen' = [c \in Client |-> IF seen[c].key \in K THEN [seen[c] EXCEPT !.unchanged = FALSE]
                                                 ELSE seen[c]]

Entered(dict, k, x) == [j \in DOMAIN dict \cup {k} |-> IF j = k THEN x ELSE dict[j]]

Free == holder = Nobody

Unlocked == UNCHANGED <<holder, sending>>

(* An answer from inside the lock.                                          *)
AnswerLocked(c) ==
  /\ holder' = c /\ sending' = <<Nobody>>
  /\ UNCHANGED <<cache, tokens, counter, seen>>

Write(k, n) ==
  /\ counter < MaxTokens
  /\ cache' = Entered(cache, k, n)
  /\ counter' = counter + 1
  /\ tokens' = Entered(tokens, k, counter + 1)
  /\ Changed({k}) /\ Unlocked

(* A candidate value of length n, if it fits.                               *)
Store(c, k, n) == IF CanStoreValue(k, n) THEN Write(k, n) ELSE AnswerLocked(c)

CacheSet(c, k, n) == Free /\ Store(c, k, n)

CacheAdd(c, k, n) == Free /\ IF k \in DOMAIN cache THEN AnswerLocked(c) ELSE Store(c, k, n)

(* With the token the client got for the key, or one of its own making.       *)
CacheCas(c, k, n, token) ==
  /\ Free
  /\ IF k \in DOMAIN cache /\ token = tokens[k] THEN Store(c, k, n) ELSE AnswerLocked(c)

(* append and prepend                                                       *)
CacheExtend(c, k, n) ==
  /\ Free
  /\ IF k \in DOMAIN cache /\ cache[k] + n <= MaxValueBytes
     THEN Store(c, k, cache[k] + n) ELSE AnswerLocked(c)

CacheIncrDecr(c, k) ==
  /\ Free
  /\ IF k \in DOMAIN cache THEN \E n \in 1 .. MaxValueBytes : Store(c, k, n) ELSE AnswerLocked(c)

CacheDelete(k) ==
  /\ Free
  /\ cache' = Restrict(cache, DOMAIN cache \ {k})
  /\ tokens' = Restrict(tokens, DOMAIN tokens \ {k})
  /\ Changed({k}) /\ Unlocked /\ UNCHANGED counter

(* Faulty variant: the tokens start over.                                   *)
CacheFlushRestart ==
  /\ Free
  /\ cache' = << >> /\ tokens' = << >> /\ counter' = 0
  /\ Changed(Item) /\ Unlocked
CacheFlush ==
  /\ Free
  /\ cache' = << >> /\ tokens' = << >>
  /\ Changed(Item) /\ Unlocked /\ UNCHANGED counter

(* get and gets: key by key, and all from inside the lock.                   *)
CacheGet(c, ks) ==
  /\ Free
  /\ holder' = c
  /\ sending' = SubSeq(ks, 1, IF Len(ks) < MaxKeysPerGet THEN Len(ks) ELSE MaxKeysPerGet)
  /\ UNCHANGED <<cache, tokens, counter, seen>>

(* A key without a value is passed over; what is sent the client reads, or    *)
(* its socket times out.                                                    *)
CacheSend(c) ==
  /\ holder = c
  /\ sending' = Tail(sending)
  /\ holder' = IF Len(sending) = 1 THEN Nobody ELSE c
  /\ LET k == Head(sending)
     IN  seen' = IF k \notin DOMAIN cache THEN seen
                 ELSE [seen EXCEPT ![c] = [key |-> k, token |-> tokens[k], unchanged |-> TRUE]]
  /\ UNCHANGED <<cache, tokens, counter>>

Stored(c, k) ==
  \E n \in 0 .. MaxValueBytes :
     \/ CacheSet(c, k, n) \/ CacheAdd(c, k, n) \/ CacheExtend(c, k, n)
     \/ \E token \in {seen[c].token} \cup 1 .. MaxTokens : CacheCas(c, k, n, token)

MemcachedNext ==
  \/ CacheFlush
  \/ \E k \in Item : CacheDelete(k)
  \/ \E c \in Client :
       \/ CacheSend(c)
       \/ \E k \in Item : Stored(c, k) \/ CacheIncrDecr(c, k)
       \/ \E ks \in UNION {[1 .. n -> Item] : n \in 1 .. MaxKeysPerGet + 1} : CacheGet(c, ks)

MemcachedSpec == MemcachedInit /\ [][MemcachedNext]_memcachedVars

-----------------------------------------------------------------------------
(* The store and the tokens hold the same keys, no token is used twice, and  *)
(* the values fit the budget whatever wrote them.                            *)
CacheSound ==
  /\ DOMAIN tokens = DOMAIN cache
  /\ IsInjective(tokens) /\ \A k \in DOMAIN tokens : tokens[k] \in 1 .. counter
  /\ CacheBytes <= MaxCacheBytes

(* A compare-and-swap with the token a client got for the key stores only if *)
(* nobody wrote, deleted or flushed the key since: a token never stands for   *)
(* two states of a key.                                                     *)
CasIsGuarded ==
  [][\A c \in Client, k \in Item, n \in 0 .. MaxValueBytes :
       (seen[c].key = k /\ CacheCas(c, k, n, seen[c].token) /\ counter' # counter) => seen[c].unchanged
    ]_memcachedVars
=============================================================================
