----------------------------- MODULE MCDatabases -----------------------------
(* The emulators of databases, which share nothing: a behaviour is one of    *)
(* the Redis store, of the Memcached store, of a connection to PostgreSQL or  *)
(* of one to MySQL.                                                         *)
EXTENDS RedisStore, MemcachedStore, PostgresDialogue, MysqlDialogue

CONSTANTS letter, key1, key2, field, c1, c2, i1, i2, unnamed, s1, q1, q2, blankText, d1, d2,
          tables

VARIABLE part

TwoKeys     == {key1, key2}
OneField    == {field}
OneText     == {letter}
Nine        == {9}
NineAndTen  == {9, 10}
ShortTtl    == {1}
SomeIndices == {-2, 0, 1}
NoIndex     == {0}
TwoClients  == {c1, c2}
TwoItems    == {i1, i2}
TwoNames    == {unnamed, s1}
SomeQueries == {q1, q2, blankText}
TwoDatabases == {d1, d2}

DatabaseSymmetry == Permutations(TwoKeys)

DatabasesInit ==
  /\ RedisInit /\ MemcachedInit /\ PgInit /\ MyInit
  /\ part \in {"redis", "memcached", "postgres", "mysql"}

DatabasesNext ==
  /\ UNCHANGED part
  /\ \/ part = "redis" /\ RedisNext /\ UNCHANGED <<memcachedVars, pgVars, myVars>>
     \/ part = "memcached" /\ MemcachedNext /\ UNCHANGED <<redisVars, pgVars, myVars>>
     \/ part = "postgres" /\ PgNext /\ UNCHANGED <<redisVars, memcachedVars, myVars>>
     \/ part = "mysql" /\ MyNext /\ UNCHANGED <<redisVars, memcachedVars, pgVars>>

databaseVars == <<redisVars, memcachedVars, pgVars, myVars, part>>

DatabasesSpec == DatabasesInit /\ [][DatabasesNext]_databaseVars
RedisOnlySpec == DatabasesInit /\ part = "redis" /\ [][DatabasesNext]_databaseVars

(* Both stores are sound whatever commands came in: their dictionaries agree *)
(* on the keys, no deadline and no token outlives its key, no token is used   *)
(* twice, and the values fit the budget.                                    *)
DatabasesSound == StoreSound /\ CacheSound

(* What runs under the name of a statement is the query it was prepared or    *)
(* bound with, in both dialogues.                                           *)
StatementsRunAsPrepared == ExecutesWhatWasBound /\ RunsItsOwnStatement
=============================================================================
