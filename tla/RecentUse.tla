------------------------------ MODULE RecentUse ------------------------------
(*****************************************************************************)
(* A dictionary of limited size in the order of use: an OrderedDict of which  *)
(* a key that is used moves to the end, and a key that is new goes there -    *)
(* into the place of the first one when the dictionary is full.              *)
(*****************************************************************************)
EXTENDS Naturals, Sequences

Listed(table) == {table[i] : i \in DOMAIN table}

(* Faulty variant: a full dictionary makes room also for a key it holds.      *)
UsedMakingRoom(table, k, limit) ==
  LET kept == IF Len(table) < limit THEN table ELSE Tail(table) IN
  Append(SelectSeq(kept, LAMBDA x : x # k), k)

(* The place that is given up: its own, or the first one.                     *)
Used(table, k, limit) ==
  LET place  == IF k \in Listed(table) THEN CHOOSE i \in DOMAIN table : table[i] = k ELSE 1
      others == SubSeq(table, 1, place - 1) \o SubSeq(table, place + 1, Len(table))
  IN IF k \in Listed(table) \/ Len(table) >= limit THEN Append(others, k) ELSE Append(table, k)
=============================================================================
