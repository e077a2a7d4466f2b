---------------------------- MODULE MysqlDialogue ----------------------------
(*****************************************************************************)
(* A connection to the MySQL emulator (services/database/mysql_emulator.py): *)
(* a login and then commands, each answered before the next is read.         *)
(* Statements are prepared under numbers of the server and limited in number; *)
(* the database of the connection is what USE and INIT_DB select, and a USE  *)
(* that was prepared is answered and selects nothing.                        *)
(*                                                                           *)
(* A query is a USE of a database or lists the one in use; rows are left     *)
(* out.  Bound: MaxCommanded commands that change what the server keeps.     *)
(*****************************************************************************)
EXTENDS Naturals, Sequences, FiniteSets, FiniteSetsExt

CONSTANTS
  Database,
  DefaultDatabase,  (* "wordpress"                                           *)
  ListQuery,        (* a query that shows the database in use                *)
  MyCap,            (* _MAX_PREPARED_STATEMENTS                              *)
  MaxCommanded

ASSUME MyAssumption ==
  /\ DefaultDatabase \in Database /\ ListQuery \notin Database
  /\ MyCap \in Nat \ {0} /\ MaxCommanded \in Nat

(* A database stands for the USE of it.                                      *)
MyQuery == Database \cup {ListQuery}
Id      == 1 .. MaxCommanded

VARIABLES
  myAt,       (* "login", "ready" or "ended"                                 *)
  current,    (* current_database                                            *)
  prepared,   (* prepared_statements: ids with their queries                 *)
  nextId,     (* next_statement_id                                           *)
  commanded,  (* history: commands that selected, prepared or closed         *)
  shown       (* the last command and its answer                             *)

myVars == <<myAt, current, prepared, nextId, commanded, shown>>

Quiet(cmd, ok) == [to |-> cmd, id |-> 0, ran |-> {}, in |-> {}, ok |-> ok]

MyInit ==
  /\ myAt = "login" /\ current = DefaultDatabase
  /\ prepared = {} /\ nextId = 1
  /\ commanded = << >> /\ shown = Quiet("none", TRUE)

(* A malformed login, or one that asks for SSL, is the end.                  *)
LogIn ==
  /\ myAt = "login"
  /\ \/ myAt' = "ended" /\ UNCHANGED <<current, commanded>>
     \/ \E d \in Database :
          /\ myAt' = "ready" /\ current' = d
          /\ commanded' = <<[kind |-> "select", id |-> 0, of |-> d]>>
  /\ UNCHANGED <<prepared, nextId, shown>>

(* QUIT, an empty packet, or the end of the connection.                      *)
Quit ==
  /\ myAt = "ready"
  /\ myAt' = "ended"
  /\ UNCHANGED <<current, prepared, nextId, commanded, shown>>

Command(kind, id, of) ==
  /\ Len(commanded) < MaxCommanded
  /\ commanded' = Append(commanded, [kind |-> kind, id |-> id, of |-> of])

(* COM_QUERY of a USE, or COM_INIT_DB.                                       *)
UseDatabase(d) ==
  /\ myAt = "ready"
  /\ Command("select", 0, d)
  /\ current' = d
  /\ shown' = Quiet("select", TRUE)
  /\ UNCHANGED <<myAt, prepared, nextId>>

(* COM_QUERY of anything else; _respond_query.                               *)
ListTables ==
  /\ myAt = "ready"
  /\ shown' = [to |-> "query", id |-> 0, ran |-> {ListQuery}, in |-> {current}, ok |-> TRUE]
  /\ UNCHANGED <<myAt, current, prepared, nextId, commanded>>

(* Faulty variant: the number of the statements there are, plus one.         *)
PrepareByCount(q) ==
  LET id == Cardinality(prepared) + 1 IN
  /\ myAt = "ready"
  /\ IF Cardinality(prepared) >= MyCap
     THEN /\ shown' = Quiet("prepare", FALSE)
          /\ UNCHANGED <<prepared, nextId, commanded>>
     ELSE /\ Command("prepare", id, q)
          /\ prepared' = {x \in prepared : x.id # id} \cup {[id |-> id, of |-> q]}
          /\ UNCHANGED nextId
          /\ shown' = Quiet("prepare", TRUE)
  /\ UNCHANGED <<myAt, current>>

Prepare(q) ==
  /\ myAt = "ready"
  /\ IF Cardinality(prepared) >= MyCap
     THEN /\ shown' = Quiet("prepare", FALSE)
          /\ UNCHANGED <<prepared, nextId, commanded>>
     ELSE /\ Command("prepare", nextId, q)
          /\ prepared' = prepared \cup {[id |-> nextId, of |-> q]}
          /\ nextId' = nextId + 1
          /\ shown' = Quiet("prepare", TRUE)
  /\ UNCHANGED <<myAt, current>>

(* A prepared USE selects a database for the answer only.                    *)
ExecuteStatement(id) ==
  LET ran == {x.of : x \in {p \in prepared : p.id = id}} IN
  /\ myAt = "ready"
  /\ shown' = [to |-> "execute", id |-> id, ran |-> ran,
               in |-> IF ListQuery \in ran THEN {current} ELSE {}, ok |-> ran # {}]
  /\ UNCHANGED <<myAt, current, prepared, nextId, commanded>>

(* COM_STMT_CLOSE has no answer.                                             *)
CloseStatement(id) ==
  /\ myAt = "ready"
  /\ Command("close", id, ListQuery)
  /\ prepared' = {x \in prepared : x.id # id}
  /\ shown' = Quiet("close", TRUE)
  /\ UNCHANGED <<myAt, current, nextId>>

(* PING, RESET, a command that is not known: fine; a short one: an error.    *)
OtherCommand ==
  /\ myAt = "ready"
  /\ \E ok \in BOOLEAN : shown' = Quiet("other", ok)
  /\ UNCHANGED <<myAt, current, prepared, nextId, commanded>>

MyNext ==
  \/ LogIn \/ Quit \/ ListTables \/ OtherCommand
  \/ \E d \in Database : UseDatabase(d)
  \/ \E q \in MyQuery : Prepare(q)
  \/ \E id \in Id : ExecuteStatement(id) \/ CloseStatement(id)

MySpec == MyInit /\ [][MyNext]_myVars

-----------------------------------------------------------------------------
(* The last command of those kinds with that number, 0 if there is none.     *)
LastCommand(kinds, id) ==
  Max({0} \cup {i \in DOMAIN commanded : commanded[i].kind \in kinds /\ commanded[i].id = id})

(* No number is given to two statements, so the number a client holds runs   *)
(* the query it prepared or, once closed, nothing; and what is shown is the  *)
(* database that a query or a login selected last - never that of a USE run  *)
(* as a statement.                                                           *)
RunsItsOwnStatement ==
  /\ \A i, j \in DOMAIN commanded :
       i # j /\ commanded[i].kind = "prepare" /\ commanded[j].kind = "prepare"
         => commanded[i].id # commanded[j].id
  /\ shown.to = "execute" =>
       LET i == LastCommand({"prepare", "close"}, shown.id) IN
       shown.ran = IF i # 0 /\ commanded[i].kind = "prepare" THEN {commanded[i].of} ELSE {}
  /\ \A d \in shown.in : d = commanded[LastCommand({"select"}, 0)].of
=============================================================================
