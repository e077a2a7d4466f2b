------------------------------ MODULE IntelStore ------------------------------
(***************************************************************************)
(* The intelligence store (intel/store.py) and the operations of the          *)
(* orchestrator that call it.  Every call checks that the store is enabled,   *)
(* takes its lock, and runs its statements on a connection of its own.  A     *)
(* SELECT before the first write is outside the transaction: only the lock   *)
(* keeps others from writing in between.  Statements may fail (a full disk,   *)
(* another process), and then nothing of them is stored.                    *)
(*                                                                         *)
(* Graphs, names, payloads and metadata are left out; the schema is taken as *)
(* there.  Bounds: MaxVersion versions of a campaign, MaxRows rows of a table.*)
(***************************************************************************)
EXTENDS ReadWriteLock, Sequences, Functions

CONSTANTS
  Campaign, Status, Token,
  Table,                  (* tables rows are added to and read back from         *)
  Hits, Reports,          (* canary_hits is one of them, intelligence_reports not  *)
  None,
  MaxVersion, MaxRows

ASSUME StoreAssumption ==
  /\ {MaxVersion, MaxRows} \subseteq Nat
  /\ Hits \in Table /\ Reports \notin Table
  /\ None \notin Status \cup Token \cup [version : Nat, status : Status \cup {None}]

VARIABLES
  enabled,     (* _enabled                                                   *)
  graphs,      (* campaign_graphs: version and status, of those that exist      *)
  history,     (* campaign_graph_versions, in the order added                  *)
  tokens,      (* canary_tokens                                               *)
  rows,        (* the tables: a row is the token it is about, or None           *)
  call         (* the operation each thread runs                             *)

tableVars == <<graphs, history, tokens, rows>>
intelVars == <<enabled, tableVars, call>>
storeVars == <<lockVars, intelVars>>

(* next: the lock the operation takes next.  seen: what it read before, row:   *)
(* what it SELECTed as a writer, id: the row it added.  written, deleted:      *)
(* history, what others did to the campaign since the operation first read it. *)
Absent == [version |-> 0, status |-> None]
NoCall == [op |-> "none", next |-> "none", campaign |-> None, status |-> None, table |-> None,
           token |-> None, seen |-> None, row |-> None, id |-> 0,
           written |-> FALSE, deleted |-> FALSE]

IntelInit ==
  /\ LockInit
  /\ enabled = TRUE
  /\ graphs = << >> /\ history = [c \in Campaign |-> << >>]
  /\ tokens = {} /\ rows = [b \in Table \cup {Reports} |-> << >>]
  /\ call = [t \in Thread |-> NoCall]

Row(c) == IF c \in DOMAIN graphs THEN graphs[c] ELSE Absent

-----------------------------------------------------------------------------
(* The operations.                                                         *)

Begin(t, operation) ==
  /\ call[t].op = "none" /\ enabled
  /\ call' = [call EXCEPT ![t] = operation]
  /\ UNCHANGED <<lockVars, enabled, tableVars>>

Upsert(t, c, s) == Begin(t, [NoCall EXCEPT !.op = "upsert", !.next = "write", !.campaign = c, !.status = s])
Delete(t, c) == Begin(t, [NoCall EXCEPT !.op = "delete", !.next = "write", !.campaign = c])
SetStatus(t, c, s) == Begin(t, [NoCall EXCEPT !.op = "status", !.next = "read", !.campaign = c, !.status = s])
Versions(t, c) == Begin(t, [NoCall EXCEPT !.op = "versions", !.next = "read", !.campaign = c])
GenerateToken(t, k) == Begin(t, [NoCall EXCEPT !.op = "token", !.next = "write", !.token = k])
RecordHit(t, k) == Begin(t, [NoCall EXCEPT !.op = "row", !.next = "write", !.table = Hits, !.token = k])
RecordRow(t, b) == Begin(t, [NoCall EXCEPT !.op = "row", !.next = "write", !.table = b])
RecordReport(t) == Begin(t, [NoCall EXCEPT !.op = "report", !.next = "write", !.table = Reports])

Enter(t) ==
  /\ \/ call[t].next = "read" /\ (ReadEnter(t) \/ ReadWakes(t))
     \/ call[t].next = "write" /\ (WriteEnter(t) \/ WriteWakes(t))
  /\ UNCHANGED intelVars

(* An operation of two calls looks whether the store is enabled in between.    *)
GoesOn(t, operation) == call' = [call EXCEPT ![t] = IF enabled THEN operation ELSE NoCall]

Ends(t) == call' = [call EXCEPT ![t] = NoCall]

-----------------------------------------------------------------------------
(* Readers                                                                 *)

Reading(t, op) == place[t] = "reads" /\ call[t].op = op

(* campaign_set_status: the status before, for its answer.                    *)
ReadPrevious(t) ==
  LET row == Row(call[t].campaign)
  IN  /\ Reading(t, "status")
      /\ ReadExit(t)
      /\ IF row = Absent THEN Ends(t)
         ELSE GoesOn(t, [call[t] EXCEPT !.next = "write", !.seen = row])
      /\ UNCHANGED <<enabled, tableVars>>

(* campaign_versions: the campaign first ...                                *)
ReadCampaign(t) ==
  LET row == Row(call[t].campaign)
  IN  /\ Reading(t, "versions") /\ call[t].seen = None
      /\ ReadExit(t)
      /\ IF row = Absent THEN Ends(t)
         ELSE GoesOn(t, [call[t] EXCEPT !.seen = row])
      /\ UNCHANGED <<enabled, tableVars>>

(* ... and then its versions, the newest at the top.                         *)
ReadVersions(t) ==
  /\ Reading(t, "versions") /\ call[t].seen # None
  /\ ReadExit(t)
  /\ Ends(t)
  /\ UNCHANGED <<enabled, tableVars>>

(* What was added is read back, for the answer.                             *)
ReadBack(t) ==
  /\ Reading(t, "token") \/ Reading(t, "row")
  /\ ReadExit(t)
  /\ Ends(t)
  /\ UNCHANGED <<enabled, tableVars>>

ReadFails(t) ==
  /\ place[t] = "reads"
  /\ ReadExit(t)
  /\ Ends(t)
  /\ UNCHANGED <<enabled, tableVars>>

-----------------------------------------------------------------------------
(* Writers                                                                 *)

Writing(t, op) == place[t] = "writes" /\ call[t].op = op

SelectGraph(t) ==
  /\ place[t] = "writes" /\ call[t].op \in {"upsert", "status"} /\ call[t].row = None
  /\ call' = [call EXCEPT ![t].row = Row(call[t].campaign)]
  /\ UNCHANGED <<lockVars, enabled, tableVars>>

(* What a writer does to a campaign is held against the others' answers.      *)
Done(t, c, gone) ==
  call' = [s \in Thread |->
             IF s = t THEN NoCall
             ELSE IF call[s].campaign = c /\ call[s].seen # None
                  THEN [call[s] EXCEPT !.written = TRUE, !.deleted = @ \/ gone]
             ELSE call[s]]

(* The row of the graph and a row of its versions, in one transaction.        *)
Saves(c, version, status) ==
  LET row == [version |-> version, status |-> status]
  IN  /\ version <= MaxVersion
      /\ graphs' = [d \in DOMAIN graphs \cup {c} |-> IF d = c THEN row ELSE graphs[d]]
      /\ history' = [history EXCEPT ![c] = Append(@, row)]

(* Faulty variant: a save that leaves the status adds no row of versions.      *)
CommitUpsertQuietly(t) ==
  LET c == call[t]  version == c.row.version + 1
  IN  /\ Writing(t, "upsert") /\ c.row # None
      /\ IF c.row.status # c.status THEN Saves(c.campaign, version, c.status)
         ELSE /\ version <= MaxVersion
              /\ graphs' = [graphs EXCEPT ![c.campaign].version = version]
              /\ UNCHANGED history
      /\ WriteExit(t)
      /\ Done(t, c.campaign, FALSE)
      /\ UNCHANGED <<enabled, tokens, rows>>

CommitUpsert(t) ==
  LET c == call[t]
  IN  /\ Writing(t, "upsert") /\ c.row # None
      /\ Saves(c.campaign, c.row.version + 1, c.status)
      /\ WriteExit(t)
      /\ Done(t, c.campaign, FALSE)
      /\ UNCHANGED <<enabled, tokens, rows>>

(* A status that is there already is no new version.                         *)
CommitStatus(t) ==
  LET c == call[t]  moves == c.row.status # c.status
  IN  /\ Writing(t, "status") /\ c.row \notin {None, Absent}
      /\ IF moves THEN Saves(c.campaign, c.row.version + 1, c.status)
         ELSE UNCHANGED <<graphs, history>>
      /\ WriteExit(t)
      /\ Done(t, c.campaign, FALSE)
      /\ UNCHANGED <<enabled, tokens, rows>>

(* The campaign is gone by now.                                            *)
StatusOfNone(t) ==
  /\ Writing(t, "status") /\ call[t].row = Absent
  /\ WriteExit(t)
  /\ Ends(t)
  /\ UNCHANGED <<enabled, tableVars>>

CommitDelete(t) ==
  LET c == call[t].campaign
  IN  /\ Writing(t, "delete")
      /\ history' = [history EXCEPT ![c] = << >>]
      /\ graphs' = Restrict(graphs, DOMAIN graphs \ {c})
      /\ WriteExit(t)
      /\ Done(t, c, TRUE)
      /\ UNCHANGED <<enabled, tokens, rows>>

CommitToken(t) ==
  /\ Writing(t, "token")
  /\ tokens' = tokens \cup {call[t].token}
  /\ WriteExit(t)
  /\ GoesOn(t, [call[t] EXCEPT !.next = "read"])
  /\ UNCHANGED <<enabled, graphs, history, rows>>

(* A row is added; a hit adds its token, if that is unknown, before.          *)
CommitRow(t) ==
  LET c == call[t]  id == Len(rows[c.table]) + 1
  IN  /\ Writing(t, "row") /\ id <= MaxRows
      /\ tokens' = tokens \cup ({c.token} \ {None})
      /\ rows' = [rows EXCEPT ![c.table] = Append(@, c.token)]
      /\ WriteExit(t)
      /\ GoesOn(t, [c EXCEPT !.next = "read", !.id = id])
      /\ UNCHANGED <<enabled, graphs, history>>

CommitReport(t) ==
  /\ Writing(t, "report") /\ Len(rows[Reports]) < MaxRows
  /\ rows' = [rows EXCEPT ![Reports] = Append(@, None)]
  /\ WriteExit(t)
  /\ Ends(t)
  /\ UNCHANGED <<enabled, graphs, history, tokens>>

(* What fails is rolled back.  After a failed report, and only then, the store  *)
(* is not used any more.                                                   *)
WriteFails(t) ==
  /\ place[t] = "writes"
  /\ enabled' = (enabled /\ call[t].op # "report")
  /\ WriteExit(t)
  /\ Ends(t)
  /\ UNCHANGED tableVars

-----------------------------------------------------------------------------
Operations(t) ==
  \/ \E c \in Campaign : Delete(t, c) \/ Versions(t, c)
  \/ \E c \in Campaign, s \in Status : Upsert(t, c, s) \/ SetStatus(t, c, s)
  \/ \E k \in Token : GenerateToken(t, k) \/ RecordHit(t, k)
  \/ \E b \in Table \ {Hits} : RecordRow(t, b)
  \/ RecordReport(t)

Reads(t) == ReadPrevious(t) \/ ReadCampaign(t) \/ ReadVersions(t) \/ ReadBack(t) \/ ReadFails(t)

Writes(t) ==
  \/ SelectGraph(t) \/ CommitUpsert(t) \/ CommitStatus(t) \/ StatusOfNone(t) \/ CommitDelete(t)
  \/ CommitToken(t) \/ CommitRow(t) \/ CommitReport(t) \/ WriteFails(t)

IntelNext == \E t \in Thread : Operations(t) \/ Enter(t) \/ Reads(t) \/ Writes(t)

IntelSpec == IntelInit /\ [][IntelNext]_storeVars

-----------------------------------------------------------------------------
(* The types, and what the operations have in hand.                          *)
GraphRow == [version : Nat, status : Status \cup {None}]

CallRecord ==
  [op : {"none", "upsert", "delete", "status", "versions", "token", "row", "report"},
   next : {"none", "read", "write"},
   campaign : Campaign \cup {None}, status : Status \cup {None},
   table : Table \cup {Reports, None}, token : Token \cup {None},
   seen : GraphRow \cup {None}, row : GraphRow \cup {None}, id : Nat,
   written : BOOLEAN, deleted : BOOLEAN]

CallOK(c) ==
  /\ c.op \in {"upsert", "delete", "status", "versions"} => c.campaign \in Campaign
  /\ c.op \in {"upsert", "status"} => c.status \in Status
  /\ c.op = "token" => c.token \in Token
  /\ c.op = "row" => c.table \in Table
  /\ c.op = "none" => c.next = "none"
  /\ c.op = "status" /\ c.next = "write" => c.seen # None
  /\ c.row # None => c.op \in {"upsert", "status"}
  /\ c.id # 0 => c.op = "row"

IntelTypeOK ==
  /\ enabled \in BOOLEAN
  /\ DOMAIN graphs \subseteq Campaign /\ \A c \in DOMAIN graphs : graphs[c] \in GraphRow
  /\ history \in [Campaign -> Seq(GraphRow)]
  /\ tokens \subseteq Token
  /\ rows \in [Table \cup {Reports} -> Seq(Token \cup {None})]
  /\ call \in [Thread -> CallRecord] /\ \A t \in Thread : CallOK(call[t])

(* The versions of a campaign are numbered from 1 without a gap or a double,   *)
(* and the newest of them is the campaign's own version and status            *)
(* (tests/unit/test_intel_store.py:272): however saves, changes of status      *)
(* and deletes of several threads, and failures, follow each other.           *)
HistoryTold ==
  \A c \in Campaign :
    LET list == history[c] IN
    /\ \A i \in DOMAIN list : list[i].version = i
    /\ Row(c) = IF list = << >> THEN Absent ELSE list[Len(list)]

(* What an operation of several calls is about to answer is true, although     *)
(* others wrote in between: the versions read after a campaign contain its     *)
(* own, unless it was deleted; a change of status is reported exactly if this   *)
(* call makes it, unless others wrote to the campaign; and what is read back   *)
(* is there, with the token that a hit refers to.                           *)
AnswersHold ==
  \A t \in Thread :
    LET c == call[t] IN
    /\ c.op = "versions" /\ c.seen # None /\ ~c.deleted =>
         \E i \in DOMAIN history[c.campaign] : history[c.campaign][i].version = c.seen.version
    /\ c.op = "status" /\ c.row # None /\ ~c.written => c.row = c.seen
    /\ c.op = "token" /\ c.next = "read" => c.token \in tokens
    /\ c.id # 0 => /\ c.id \in DOMAIN rows[c.table]
                   /\ rows[c.table][c.id] = c.token /\ c.token \in tokens \cup {None}
=============================================================================
