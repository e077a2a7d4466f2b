----------------------------- MODULE PersonaTraps -----------------------------
(*****************************************************************************)
(* The vulnerable LLM and the traps of its persona pack                      *)
(* (services/vuln_llm/emulator.py, personas/traps/): a thread per request    *)
(* routes it to a tool, to a canary response, to the model or back as an     *)
(* echo, issues the canary tokens its answer shows, reports each of them and *)
(* answers.  Tokens are kept per session or per pack, or not at all; a file  *)
(* that a session read is kept in its world with the tokens it shows; token  *)
(* buckets, worlds and the files of a world are dictionaries of limited size *)
(* in the order of use.  A session is a header of the client's choice.       *)
(*                                                                           *)
(* What a request calls for stands for its text and the classifier's verdict; *)
(* of an answer only its tokens are kept; every template is known.  The pack *)
(* is loaded once: a new start makes new traps, of which requests of the old *)
(* ones know nothing.                                                        *)
(*****************************************************************************)
EXTENDS Naturals, Sequences, FiniteSets, RecentUse

CONSTANTS
  Request,
  Visitor,       (* sessions                                                 *)
  Ask,           (* what a request calls for                                 *)
  Needs,         (* of every ask: the templates its answer takes tokens of   *)
  FileAsk,       (* asks that read a file                                    *)
  ToolAsk,       (* asks that call a tool, files included                    *)
  PerSession,    (* templates of that cardinality                            *)
  PerInstall,    (* and of this one; the others are per request              *)
  MaxBuckets, MaxWorlds, MaxFilesKept   (* the limits of the dictionaries    *)

ASSUME PersonaAssumption ==
  /\ DOMAIN Needs = Ask /\ \A a \in Ask : Needs[a] \in Seq(Listed(Needs[a]))
  /\ FileAsk \subseteq ToolAsk /\ ToolAsk \subseteq Ask
  /\ PerSession \cap PerInstall = {}
  /\ {MaxBuckets, MaxWorlds, MaxFilesKept} \subseteq Nat \ {0}

VARIABLES
  pack,      (* _trap_layer is there                                         *)
  request,   (* of every request: its place, its world, the tokens its body  *)
             (* shows and those it was told were issued                      *)
  buckets,   (* _session_cache: sessions in the order of use                 *)
  kept,      (* _session_cache and _install_cache: the tokens they keep      *)
  worlds,    (* _worlds: sessions in the order of use                        *)
  worldOf,   (* _worlds: of every session the number of its latest world     *)
  files,     (* of every world its file_cache: the paths in the order of use *)
  content,   (* and of every path what its entry holds                       *)
  minted,    (* history: tokens issued so far; a token is its number         *)
  reported,  (* history: canary_issued events, of every session its tokens   *)
  answers,   (* history: answers sent                                        *)
  idle,      (* history: of every session the others issued tokens since it  *)
  dropped,   (* history: sessions whose bucket was dropped                   *)
  missed     (* history: of every world, files begun once and more than once *)

trapVars == <<pack, request, buckets, kept, worlds, worldOf, files, content, minted,
              reported, answers, idle, dropped, missed>>

NoFile == [shown |-> << >>, issued |-> << >>]

TrapsInit ==
  /\ pack = TRUE
  /\ request = [r \in Request |-> [at |-> "new"]]
  /\ buckets = << >> /\ kept = {}
  /\ worlds = << >> /\ worldOf = [s \in Visitor |-> 0]
  /\ files = << >> /\ content = << >>
  /\ minted = 0
  /\ reported = [s \in Visitor |-> {}]
  /\ answers = {} /\ dropped = {} /\ missed = << >>
  /\ idle = [s \in Visitor |-> {}]

At(r, place) == request[r].at = place
Move(r, place) == request' = [request EXCEPT ![r].at = place]

(* _respond_chat_completions up to the check of _generate_response: without  *)
(* a pack the answer is an echo.                                             *)
CheckPack(r, s, a) ==
  /\ At(r, "new")
  /\ request' = [request EXCEPT ![r] =
       [at |-> IF pack THEN "enter" ELSE "send", session |-> s, ask |-> a, world |-> 0,
        shown |-> << >>, issued |-> << >>]]
  /\ UNCHANGED <<pack, buckets, kept, worlds, worldOf, files, content, minted,
                 reported, answers, idle, dropped, missed>>

(* TrapLayer.route of anything but a tool; a stop since the check raises     *)
(* before, which is the end of the thread.                                   *)
EnterTraps(r) ==
  /\ At(r, "enter")
  /\ \/ ~pack /\ Move(r, "raised")
     \/ pack /\ request[r].ask \notin ToolAsk /\ Move(r, "issue")
  /\ UNCHANGED <<pack, buckets, kept, worlds, worldOf, files, content, minted,
                 reported, answers, idle, dropped, missed>>

(* Of a tool: it gets the world of the session, or makes it (get_or_create). *)
EnterWorld(r) ==
  LET s == request[r].session  new == s \notin Listed(worlds)
      world == IF new THEN Len(content) + 1 ELSE worldOf[s]
  IN
  /\ At(r, "enter") /\ pack /\ request[r].ask \in ToolAsk
  /\ request' = [request EXCEPT ![r].at = IF request[r].ask \in FileAsk THEN "look" ELSE "issue",
                                ![r].world = world]
  /\ worlds' = Used(worlds, s, MaxWorlds)
  /\ worldOf' = [worldOf EXCEPT ![s] = world]
  /\ IF new
     THEN /\ files' = Append(files, << >>)
          /\ content' = Append(content, [f \in FileAsk |-> NoFile])
          /\ missed' = Append(missed, [once |-> {}, twice |-> {}])
     ELSE UNCHANGED <<files, content, missed>>
  /\ UNCHANGED <<pack, buckets, kept, minted, reported, answers, idle, dropped>>

(* Faulty variant: what is found is the body alone.                          *)
LookForBody(r) ==
  LET w == request[r].world  f == request[r].ask IN
  /\ At(r, "look")
  /\ IF f \in Listed(files[w])
     THEN /\ request' = [request EXCEPT ![r].at = "report", ![r].shown = content[w][f].shown]
          /\ files' = [files EXCEPT ![w] = Used(@, f, MaxFilesKept)]
          /\ UNCHANGED missed
     ELSE /\ Move(r, "issue")
          /\ missed' = [missed EXCEPT ![w] =
               [once |-> @.once \cup {f}, twice |-> @.twice \cup (@.once \cap {f})]]
          /\ UNCHANGED files
  /\ UNCHANGED <<pack, buckets, kept, worlds, worldOf, content, minted,
                 reported, answers, idle, dropped>>

(* cached_file, under the lock of the world.                                 *)
LookForFile(r) ==
  LET w == request[r].world  f == request[r].ask IN
  /\ At(r, "look")
  /\ IF f \in Listed(files[w])
     THEN /\ request' = [request EXCEPT ![r].at = "report", ![r].shown = content[w][f].shown,
                                        ![r].issued = content[w][f].issued]
          /\ files' = [files EXCEPT ![w] = Used(@, f, MaxFilesKept)]
          /\ UNCHANGED missed
     ELSE /\ Move(r, "issue")
          /\ missed' = [missed EXCEPT ![w] =
               [once |-> @.once \cup {f}, twice |-> @.twice \cup (@.once \cap {f})]]
          /\ UNCHANGED files
  /\ UNCHANGED <<pack, buckets, kept, worlds, worldOf, content, minted,
                 reported, answers, idle, dropped>>

Owner(t, s)  == IF t \in PerSession THEN {s} ELSE {}
KeptFor(t, s) == {k \in kept : k.template = t /\ k.of = Owner(t, s)}

(* TokenFactory.issue of the next template the answer needs, under its lock. *)
IssueToken(r) ==
  LET s == request[r].session
      needs == Needs[request[r].ask]
      t == needs[Len(request[r].issued) + 1]
      found == KeptFor(t, s)
      token == IF found = {} THEN minted + 1 ELSE (CHOOSE k \in found : TRUE).token
      table == IF t \in PerSession THEN Used(buckets, s, MaxBuckets) ELSE buckets
      gone == Listed(buckets) \ Listed(table)
  IN
  /\ At(r, "issue") /\ Len(request[r].issued) < Len(needs)
  /\ request' = [request EXCEPT ![r].shown = Append(@, [template |-> t, token |-> token]),
                                ![r].issued = Append(@, [template |-> t, token |-> token])]
  /\ minted' = IF found = {} THEN minted + 1 ELSE minted
  /\ buckets' = table
  /\ kept' = {k \in kept : k.of \cap gone = {}} \cup
       IF t \in PerSession \cup PerInstall
       THEN {[template |-> t, of |-> Owner(t, s), token |-> token]} ELSE {}
  /\ dropped' = dropped \cup gone
  /\ idle' = IF t \in PerSession
             THEN [o \in Visitor |-> IF o = s THEN {} ELSE idle[o] \cup {s}] ELSE idle
  /\ UNCHANGED <<pack, worlds, worldOf, files, content, reported, answers, missed>>

(* All tokens are there: a file is cached with them.                         *)
FinishBody(r) ==
  LET w == request[r].world  f == request[r].ask IN
  /\ At(r, "issue") /\ Len(request[r].issued) = Len(Needs[f])
  /\ Move(r, "report")
  /\ IF f \in FileAsk
     THEN /\ files' = [files EXCEPT ![w] = Used(@, f, MaxFilesKept)]
          /\ content' = [content EXCEPT ![w][f] =
                           [shown |-> request[r].shown, issued |-> request[r].issued]]
     ELSE UNCHANGED <<files, content>>
  /\ UNCHANGED <<pack, buckets, kept, worlds, worldOf, minted, reported, answers, idle, dropped, missed>>

(* _generate_response with the decision: one canary_issued event per token.  *)
ReportTokens(r) ==
  /\ At(r, "report")
  /\ Move(r, "send")
  /\ reported' = [reported EXCEPT ![request[r].session] = @ \cup Listed(request[r].issued)]
  /\ UNCHANGED <<pack, buckets, kept, worlds, worldOf, files, content, minted,
                 answers, idle, dropped, missed>>

(* The answer is written, or the client is gone.                             *)
SendAnswer(r) ==
  /\ At(r, "send")
  /\ Move(r, "ended")
  /\ \/ answers' = answers \cup {[of |-> r, session |-> request[r].session, ask |-> request[r].ask,
                                  world |-> request[r].world, shown |-> request[r].shown]}
     \/ UNCHANGED answers
  /\ UNCHANGED <<pack, buckets, kept, worlds, worldOf, files, content, minted,
                 reported, idle, dropped, missed>>

StopPersona ==
  /\ pack
  /\ pack' = FALSE
  /\ UNCHANGED <<request, buckets, kept, worlds, worldOf, files, content, minted,
                 reported, answers, idle, dropped, missed>>

TrapStep(r) ==
  \/ \E s \in Visitor, a \in Ask : CheckPack(r, s, a)
  \/ EnterTraps(r) \/ EnterWorld(r) \/ LookForFile(r) \/ IssueToken(r)
  \/ FinishBody(r) \/ ReportTokens(r) \/ SendAnswer(r)

TrapsNext == StopPersona \/ \E r \in Request : TrapStep(r)

TrapsSpec == TrapsInit /\ [][TrapsNext]_trapVars

-----------------------------------------------------------------------------
(* Every token an answer shows was reported for its session before - also    *)
(* when the answer comes from a cache (personas/traps/world.py, line 143).   *)
ShownIsReported == \A a \in answers : Listed(a.shown) \subseteq reported[a.session]

(* Two answers show the same token of a template that is kept: always when   *)
(* it is kept for the pack, and in a session unless its bucket was dropped,  *)
(* which takes as many other sessions as there are buckets.                  *)
KeptTokensAgree ==
  /\ \A a, b \in answers : \A x \in Listed(a.shown), y \in Listed(b.shown) :
       x.template = y.template =>
         \/ x.template \notin PerSession \cup PerInstall
         \/ x.template \in PerSession /\ (a.session # b.session \/ a.session \in dropped)
         \/ x.token = y.token
  /\ \A s \in dropped : s \in Listed(buckets) \/ Cardinality(idle[s]) >= MaxBuckets

(* Repeated reads of a session are stable (personas/traps/tools.py, line     *)
(* 265): two answers of a world show the same file, unless both requests     *)
(* found it missing - they overlapped, or it was dropped in between.         *)
FilesAgree ==
  \A a, b \in answers :
    a.world = b.world /\ a.ask = b.ask /\ a.ask \in FileAsk
      => a.shown = b.shown \/ a.ask \in missed[a.world].twice

(* What an answer shows is reported, and agrees with what was shown before.  *)
TrapsHold == ShownIsReported /\ KeptTokensAgree /\ FilesAgree
=============================================================================
