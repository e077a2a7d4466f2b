--------------------------- MODULE PostgresDialogue ---------------------------
(*****************************************************************************)
(* A connection to the PostgreSQL emulator                                   *)
(* (services/database/postgres_emulator.py): a start-up packet, a password   *)
(* and then messages, each answered before the next is read.  Prepared       *)
(* statements are limited in number; a portal is bound to the query its      *)
(* statement has at that time.  An error ends nothing: the messages behind   *)
(* it are answered too.                                                      *)
(*                                                                           *)
(* A query is a model value and its rows are left out.                       *)
(* Bound: MaxHeard statements and portals made or closed.                    *)
(*****************************************************************************)
EXTENDS Naturals, Sequences, FiniteSets, FiniteSetsExt

CONSTANTS
  Name,        (* names of statements and of portals                         *)
  Unnamed,     (* the empty one                                              *)
  PgQuery,     (* query texts                                                *)
  EmptyQuery,  (* the empty one                                              *)
  Unset,       (* no query                                                   *)
  PgCap,       (* _MAX_PREPARED_STATEMENTS                                   *)
  MaxHeard

ASSUME PgAssumption ==
  /\ Unnamed \in Name /\ EmptyQuery \in PgQuery /\ Unset \notin PgQuery
  /\ PgCap \in Nat \ {0} /\ MaxHeard \in Nat

VARIABLES
  pgAt,        (* "startup", "password", "ready" or "ended"                  *)
  statements,  (* prepared_statements: of every name its query, or Unset     *)
  portals,     (* bound_portals: likewise                                    *)
  heard,       (* history: what made or closed a statement or a portal       *)
  answer       (* the last message and its answer                            *)

pgVars == <<pgAt, statements, portals, heard, answer>>

NoAnswer == [to |-> "none", name |-> Unnamed, ran |-> Unset, ok |-> TRUE]

PgInit ==
  /\ pgAt = "startup"
  /\ statements = [n \in Name |-> Unset]
  /\ portals = [n \in Name |-> Unset]
  /\ heard = << >> /\ answer = NoAnswer

Known(n) == statements[n] # Unset

(* _read_startup_packet: refused, asked for SSL and told no, or accepted;    *)
(* then the password, which is any.                                          *)
StartUp ==
  /\ \/ pgAt = "startup" /\ pgAt' \in {"startup", "password", "ended"}
     \/ pgAt = "password" /\ pgAt' \in {"ready", "ended"}
  /\ UNCHANGED <<statements, portals, heard, answer>>

(* Terminate, a message too short or too long, or the end of the connection. *)
Terminate ==
  /\ pgAt = "ready"
  /\ pgAt' = "ended"
  /\ UNCHANGED <<statements, portals, heard, answer>>

(* Notes what was accepted, as far as the bound allows it.                   *)
Hear(kind, name, of) ==
  /\ Len(heard) < MaxHeard
  /\ heard' = Append(heard, [kind |-> kind, name |-> name, of |-> of])

Parse(n, q) ==
  /\ pgAt = "ready"
  /\ IF ~Known(n) /\ Cardinality({m \in Name : Known(m)}) >= PgCap
     THEN /\ answer' = [NoAnswer EXCEPT !.to = "parse", !.ok = FALSE]
          /\ UNCHANGED <<statements, heard>>
     ELSE /\ Hear("parse", n, q)
          /\ statements' = [statements EXCEPT ![n] = q]
          /\ answer' = [NoAnswer EXCEPT !.to = "parse"]
  /\ UNCHANGED <<pgAt, portals>>

Bind(p, n) ==
  /\ pgAt = "ready"
  /\ IF ~Known(n)
     THEN /\ answer' = [NoAnswer EXCEPT !.to = "bind", !.ok = FALSE]
          /\ UNCHANGED <<portals, heard>>
     ELSE /\ Hear("bind", p, n)
          /\ portals' = [portals EXCEPT ![p] = statements[n]]
          /\ answer' = [NoAnswer EXCEPT !.to = "bind"]
  /\ UNCHANGED <<pgAt, statements>>

(* A portal that is not bound falls back on the unnamed one.                 *)
Execute(p) ==
  LET found == IF portals[p] # Unset THEN portals[p] ELSE portals[Unnamed]
      q == IF found = EmptyQuery THEN Unset ELSE found
  IN
  /\ pgAt = "ready"
  /\ answer' = [to |-> "execute", name |-> p, ran |-> q, ok |-> q # Unset]
  /\ UNCHANGED <<pgAt, statements, portals, heard>>

(* Faulty variant: the kind of what is closed is not looked at.              *)
CloseByName(kind, n) ==
  /\ pgAt = "ready"
  /\ Hear(kind, n, Unset)
  /\ statements' = [statements EXCEPT ![n] = Unset]
  /\ portals' = [portals EXCEPT ![n] = Unset]
  /\ answer' = [NoAnswer EXCEPT !.to = "close"]
  /\ UNCHANGED pgAt

Close(kind, n) ==
  /\ pgAt = "ready"
  /\ Hear(kind, n, Unset)
  /\ statements' = IF kind = "close S" THEN [statements EXCEPT ![n] = Unset] ELSE statements
  /\ portals' = IF kind = "close P" THEN [portals EXCEPT ![n] = Unset] ELSE portals
  /\ answer' = [NoAnswer EXCEPT !.to = "close"]
  /\ UNCHANGED pgAt

(* A simple query is run as it is; Describe, Sync and Flush change nothing;  *)
(* a malformed or unsupported message is an error.                           *)
OtherMessage ==
  /\ pgAt = "ready"
  /\ \/ \E q \in PgQuery : answer' = [NoAnswer EXCEPT !.to = "query", !.ran = q]
     \/ answer' = [NoAnswer EXCEPT !.to = "other"]
     \/ answer' = [NoAnswer EXCEPT !.to = "other", !.ok = FALSE]
  /\ UNCHANGED <<pgAt, statements, portals, heard>>

PgNext ==
  \/ StartUp \/ Terminate \/ OtherMessage
  \/ \E n \in Name :
       \/ \E q \in PgQuery : Parse(n, q)
       \/ \E p \in Name : Bind(p, n)
       \/ Execute(n)
       \/ \E kind \in {"close S", "close P"} : Close(kind, n)

PgSpec == PgInit /\ [][PgNext]_pgVars

-----------------------------------------------------------------------------
(* The last of the first messages of those kinds with that name, 0 if none.  *)
LastOf(kinds, n, before) ==
  Max({0} \cup {i \in 1 .. before : heard[i].kind \in kinds /\ heard[i].name = n})

(* The query statement n was last parsed with among the first messages.      *)
ParsedAs(n, before) ==
  LET i == LastOf({"parse", "close S"}, n, before) IN
  IF i = 0 THEN Unset ELSE heard[i].of

(* The query a portal is bound to: of its statement at that time.            *)
BoundTo(p) ==
  LET i == LastOf({"bind", "close P"}, p, Len(heard)) IN
  IF i = 0 THEN Unset
  ELSE IF heard[i].kind = "bind" THEN ParsedAs(heard[i].of, i) ELSE Unset

(* What is executed is the query that the statement of the portal had when   *)
(* it was bound, whatever was parsed or closed under these names since; and  *)
(* no order of messages makes more statements than the limit.                *)
ExecutesWhatWasBound ==
  /\ Cardinality({n \in Name : ParsedAs(n, Len(heard)) # Unset}) <= PgCap
  /\ answer.to = "execute" =>
       LET q == IF BoundTo(answer.name) # Unset THEN BoundTo(answer.name) ELSE BoundTo(Unnamed) IN
       answer.ran = IF q = EmptyQuery THEN Unset ELSE q
=============================================================================
