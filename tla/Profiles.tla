-------------------------------- MODULE Profiles --------------------------------
(*****************************************************************************)
(* The profiles of visitors (agents/dirtylaundry): a table of limited size    *)
(* that the API attributes visits to.  A call looks for the profile that is   *)
(* most alike and only then joins it or creates one; it reads a profile and   *)
(* rewrites it later; it imports the profiles of another installation one by  *)
(* one.  Every call of the store holds its lock to the end, and every one     *)
(* that inserts drops the profiles seen longest ago - in whole seconds, and   *)
(* among equals those of the least id, the new one included.                 *)
(*                                                                           *)
(* A vector of metrics is a value; the store is open.  Of notes only their    *)
(* number is kept, and of a profile all but its date of creation, which       *)
(* decides nothing.  Bounds: ProfileId, LastSecond, MaxTasks.                *)
(*****************************************************************************)
EXTENDS Naturals, Sequences, FiniteSets

CONSTANTS
  Analyst,       (* threads of the API                                       *)
  Visit,         (* session ids                                              *)
  Metric,        (* vectors of metrics                                       *)
  Score,         (* of two of them, how alike they are                       *)
  MatchThreshold,
  Skill,         (* classify_skill_level of a vector                         *)
  ProfileId,     (* in the order of the strings                              *)
  Import,        (* payloads: sequences of profiles                          *)
  MaxProfiles, MaxSessionsOf, MaxNotes,  (* the limits of the store          *)
  MaxListed,     (* the most that list_profiles answers                      *)
  LastSecond, MaxTasks

ASSUME ProfilesAssumption ==
  /\ ProfileId \subseteq Nat
  /\ {MaxProfiles, MaxSessionsOf, MaxNotes, MaxListed} \subseteq Nat \ {0}
  /\ Score \in [Metric \X Metric -> Nat] /\ MatchThreshold \in Nat /\ Skill \in [Metric -> Nat]
  /\ \A payload \in Import :
       /\ payload \in Seq([id : ProfileId, skill : Nat, metrics : Metric, lastSeen : Nat])
       /\ payload # << >>
  /\ \A m, n \in Metric : Score[m, n] = Score[n, m] /\ Score[m, m] >= MatchThreshold

VARIABLES
  profiles,  (* the rows of dirtylaundry_profiles, with those of the others  *)
  second,    (* the clock, in the seconds of a timestamp; not set back       *)
  task,      (* of every thread: what is left of its call                    *)
  tasks,     (* calls so far                                                 *)
  born,      (* history: ids that had a row; a new one is another            *)
  rewritten, (* history: ids that were written again since they were created *)
  unseen,    (* history: of every id, profiles its creator had not looked at *)
  since      (* history: of every id and visit that was answered to be of    *)
             (* it: the visits added since                                   *)

profileVars == <<profiles, second, task, tasks, born, rewritten, unseen, since>>

NoTask == [at |-> "none"]

ProfilesInit ==
  /\ profiles = << >> /\ second = 0
  /\ task = [a \in Analyst |-> NoTask] /\ tasks = 0
  /\ born = {} /\ rewritten = {}
  /\ unseen = [p \in ProfileId |-> {}]
  /\ since = [p \in ProfileId |-> << >>]

(* The order of list_profiles, which _evict_profiles_locked reverses.        *)
Before(rows, p, q) ==
  \/ rows[p].lastSeen > rows[q].lastSeen
  \/ rows[p].lastSeen = rows[q].lastSeen /\ p > q

(* The first n rows in that order.                                           *)
FirstRows(rows, n) ==
  {p \in DOMAIN rows : Cardinality({q \in DOMAIN rows : Before(rows, q, p)}) < n}

Restricted(rows, ids) == [p \in ids |-> rows[p]]
Rows(p, row) == [q \in DOMAIN profiles \cup {p} |-> IF q = p THEN row ELSE profiles[q]]

Newest(visits, n) == SubSeq(visits, IF Len(visits) > n THEN Len(visits) - n + 1 ELSE 1, Len(visits))
Of(visits) == {visits[i] : i \in DOMAIN visits}
LessOf(a, b) == IF a < b THEN a ELSE b

(* Faulty variant: what is as alike as the threshold does not match.         *)
BestAbove(m) ==
  LET listed == FirstRows(profiles, MaxListed)
      better(p, q) == \/ Score[m, profiles[p].metrics] > Score[m, profiles[q].metrics]
                      \/ /\ Score[m, profiles[p].metrics] = Score[m, profiles[q].metrics]
                         /\ p # q /\ Before(profiles, p, q)
  IN {p \in listed : /\ \A q \in listed \ {p} : better(p, q)
                     /\ Score[m, profiles[p].metrics] > MatchThreshold}

(* MatchingEngine.match over the profiles that are listed: one or none.      *)
Best(m) ==
  LET listed == FirstRows(profiles, MaxListed)
      better(p, q) == \/ Score[m, profiles[p].metrics] > Score[m, profiles[q].metrics]
                      \/ /\ Score[m, profiles[p].metrics] = Score[m, profiles[q].metrics]
                         /\ p # q /\ Before(profiles, p, q)
  IN {p \in listed : /\ \A q \in listed \ {p} : better(p, q)
                     /\ Score[m, profiles[p].metrics] >= MatchThreshold}

BeginTask(a, next) ==
  /\ task[a] = NoTask /\ tasks < MaxTasks
  /\ task' = [task EXCEPT ![a] = next] /\ tasks' = tasks + 1

Go(a, next) == task' = [task EXCEPT ![a] = next] /\ UNCHANGED tasks

(* ingest_session up to the match, of the profiles as they are now.  As       *)
(* history, seen is when the profile had been seen, if not to come.          *)
MatchVisit(a, v, m) ==
  /\ LET known == {[profile |-> p, metrics |-> profiles[p].metrics] :
                     p \in FirstRows(profiles, MaxListed)}
     IN IF Best(m) = {}
        THEN BeginTask(a, [at |-> "create", visit |-> v, metrics |-> m, known |-> known])
        ELSE \E p \in Best(m) : BeginTask(a, [at |-> "join", visit |-> v, profile |-> p,
                                              seen |-> LessOf(profiles[p].lastSeen, second)])
  /\ UNCHANGED <<profiles, second, born, rewritten, unseen, since>>

(* The visits that are kept when one more is answered to be of p.            *)
WithVisit(row, v) ==
  [row EXCEPT !.sessions = Newest(IF v \in Of(@) THEN @ ELSE Append(@, v), MaxSessionsOf),
              !.lastSeen = second]

(* History: v was answered to be of p.                                       *)
Answered(p, v) ==
  IF p \notin DOMAIN profiles THEN [x \in {v} |-> {}]
  ELSE [x \in DOMAIN since[p] \cup {v} |->
          IF x # v THEN since[p][x] \cup {v}
          ELSE IF v \in Of(profiles[p].sessions) THEN since[p][v] ELSE {}]

(* add_session answers nothing when the profile was dropped in between: the    *)
(* call fails, but for a reclassification, which goes on with what it has.   *)
JoinProfile(a) ==
  LET p == task[a].profile IN
  /\ task[a].at \in {"join", "rejoin"}
  /\ IF p \in DOMAIN profiles
     THEN /\ profiles' = Rows(p, WithVisit(profiles[p], task[a].visit))
          /\ since' = [since EXCEPT ![p] = Answered(p, task[a].visit)]
     ELSE UNCHANGED <<profiles, since>>
  /\ Go(a, IF task[a].at = "join" /\ p \notin DOMAIN profiles THEN [at |-> "failed", profile |-> p]
           ELSE IF task[a].at = "rejoin" /\ task[a].changed THEN [at |-> "note", profile |-> p]
           ELSE NoTask)
  /\ UNCHANGED <<second, born, rewritten, unseen>>

(* What is left of the table when a row was written.                         *)
Written(p, row) ==
  LET rows == Rows(p, row) IN Restricted(rows, FirstRows(rows, MaxProfiles))

(* History: the visits of a profile that is gone.                            *)
Forgotten(rows) == [p \in ProfileId |-> IF p \in DOMAIN rows THEN since[p] ELSE << >>]

(* create_profile takes the time and only then waits for the lock.           *)
StampProfile(a) ==
  /\ task[a].at = "create"
  /\ Go(a, [at |-> "insert", visit |-> task[a].visit, metrics |-> task[a].metrics,
            known |-> task[a].known, seen |-> second])
  /\ UNCHANGED <<profiles, second, born, rewritten, unseen, since>>

(* The rest of it: the call fails when its own profile is dropped.           *)
CreateProfile(a) ==
  /\ task[a].at = "insert"
  /\ \E p \in ProfileId \ born :
       LET row == [skill |-> Skill[task[a].metrics], metrics |-> task[a].metrics,
                   lastSeen |-> task[a].seen, sessions |-> <<task[a].visit>>, notes |-> 0]
       IN /\ profiles' = Written(p, row)
          /\ born' = born \cup {p}
          /\ unseen' = [unseen EXCEPT ![p] =
               {q \in DOMAIN profiles :
                  [profile |-> q, metrics |-> profiles[q].metrics] \notin task[a].known}]
          /\ since' = [Forgotten(profiles') EXCEPT ![p] =
               IF p \in DOMAIN profiles' THEN Answered(p, task[a].visit) ELSE << >>]
          /\ Go(a, IF p \in DOMAIN profiles' THEN NoTask ELSE [at |-> "failed", profile |-> p])
  /\ UNCHANGED <<second, rewritten>>

(* reclassify_session reads the profile it was asked for, or the first one   *)
(* that is listed with the visit.                                            *)
ResolveProfile(a, v, m) ==
  /\ \E p \in DOMAIN profiles :
       BeginTask(a, [at |-> "rewrite", profile |-> p, visit |-> v, metrics |-> m,
                 lastSeen |-> profiles[p].lastSeen,
                 changed |-> profiles[p].skill # Skill[m]])
  /\ UNCHANGED <<profiles, second, born, rewritten, unseen, since>>

(* upsert_profile: what it does not write stays, and the later time it was   *)
(* seen; a profile that is not there, or not any more, is created.           *)
Upsert(p, skill, m, lastSeen) ==
  Written(p,
    IF p \in DOMAIN profiles
    THEN [profiles[p] EXCEPT !.skill = skill, !.metrics = m,
                             !.lastSeen = IF @ > lastSeen THEN @ ELSE lastSeen]
    ELSE [skill |-> skill, metrics |-> m, lastSeen |-> lastSeen, sessions |-> << >>, notes |-> 0])

Overwritten(p) ==
  /\ since' = Forgotten(profiles')
  /\ rewritten' = rewritten \cup {p}
  /\ UNCHANGED <<second, unseen>>

(* The profile is written as it was read, with the new metrics.              *)
RewriteProfile(a) ==
  LET p == task[a].profile IN
  /\ task[a].at = "rewrite"
  /\ profiles' = Upsert(p, Skill[task[a].metrics], task[a].metrics, task[a].lastSeen)
  /\ Overwritten(p)
  /\ Go(a, IF p \in DOMAIN profiles'
           THEN [at |-> "rejoin", profile |-> p, visit |-> task[a].visit,
                 changed |-> task[a].changed]
           ELSE [at |-> "failed", profile |-> p])
  /\ UNCHANGED born

(* add_note, if the profile is there.                                        *)
Noted(p) ==
  IF p \in DOMAIN profiles
  THEN Rows(p, [profiles[p] EXCEPT !.notes = LessOf(@ + 1, MaxNotes), !.lastSeen = second])
  ELSE profiles

(* The rest of a reclassification.                                           *)
NoteChange(a) ==
  /\ task[a].at = "note"
  /\ profiles' = Noted(task[a].profile)
  /\ Go(a, NoTask)
  /\ UNCHANGED <<second, born, rewritten, unseen, since>>

(* add_note from the API.                                                    *)
AddNote(a) ==
  /\ \E p \in DOMAIN profiles : profiles' = Noted(p)
  /\ BeginTask(a, NoTask)
  /\ UNCHANGED <<second, born, rewritten, unseen, since>>

(* share_import, or share_pull when the other installation answered.         *)
BeginImport(a, payload) ==
  /\ BeginTask(a, [at |-> "import", rows |-> payload])
  /\ UNCHANGED <<profiles, second, born, rewritten, unseen, since>>

(* One profile of it: an upsert, which ends the import when it fails.        *)
ImportProfile(a) ==
  LET row == Head(task[a].rows)  p == row.id IN
  /\ task[a].at = "import"
  /\ profiles' = Upsert(p, row.skill, row.metrics, row.lastSeen)
  /\ Overwritten(p)
  /\ born' = born \cup {p}
  /\ Go(a, IF p \in DOMAIN profiles' THEN [at |-> "mark", rows |-> task[a].rows]
           ELSE [at |-> "failed", profile |-> p])

(* Its note, and the next one.                                               *)
MarkImported(a) ==
  /\ task[a].at = "mark"
  /\ profiles' = Noted(Head(task[a].rows).id)
  /\ Go(a, IF Len(task[a].rows) > 1 THEN [at |-> "import", rows |-> Tail(task[a].rows)] ELSE NoTask)
  /\ UNCHANGED <<second, born, rewritten, unseen, since>>

(* The error is answered.                                                    *)
Fail(a) ==
  /\ task[a].at = "failed"
  /\ Go(a, NoTask)
  /\ UNCHANGED <<profiles, second, born, rewritten, unseen, since>>

NextSecond ==
  /\ second < LastSecond
  /\ second' = second + 1
  /\ UNCHANGED <<profiles, task, tasks, born, rewritten, unseen, since>>

ProfilesNext ==
  \/ NextSecond
  \/ \E a \in Analyst :
       \/ \E v \in Visit, m \in Metric : MatchVisit(a, v, m) \/ ResolveProfile(a, v, m)
       \/ JoinProfile(a) \/ StampProfile(a) \/ CreateProfile(a)
       \/ RewriteProfile(a) \/ NoteChange(a)
       \/ AddNote(a) \/ (\E payload \in Import : BeginImport(a, payload))
       \/ ImportProfile(a) \/ MarkImported(a) \/ Fail(a)

ProfilesSpec == ProfilesInit /\ [][ProfilesNext]_profileVars

-----------------------------------------------------------------------------
(* No table outgrows its limit.                                              *)
ProfilesBounded ==
  /\ Cardinality(DOMAIN profiles) <= MaxProfiles
  /\ \A p \in DOMAIN profiles :
       /\ Len(profiles[p].sessions) <= MaxSessionsOf /\ profiles[p].notes <= MaxNotes
       /\ Cardinality(Of(profiles[p].sessions)) = Len(profiles[p].sessions)

(* A visit that was answered to be of a profile is among its visits, unless  *)
(* as many others as are kept were added to it since it was first answered.   *)
VisitsKept ==
  \A p \in DOMAIN profiles : \A v \in DOMAIN since[p] :
    v \in Of(profiles[p].sessions) \/ Cardinality(since[p][v]) >= MaxSessionsOf

(* Two profiles that are alike are those of two visitors only if the creator *)
(* of one did not see the other: it came in between, was listed too far      *)
(* behind - or one of them was written again later.                          *)
ReturnsRecognised ==
  \A p, q \in DOMAIN profiles \ rewritten :
    p # q /\ Score[profiles[p].metrics, profiles[q].metrics] >= MatchThreshold
      => p \in unseen[q] \/ q \in unseen[p]

(* Recording a visit fails only when the table is full of profiles that were *)
(* seen no earlier than its own: than the new one, whose time was taken       *)
(* before the lock, or the one that was found, which is dropped only for     *)
(* others - never because the table changed in between in another way.       *)
VisitFailsOnlyFull ==
  [][\A a \in Analyst :
       task[a].at \in {"insert", "join"} /\ task'[a].at = "failed"
         => Cardinality({p \in DOMAIN profiles : profiles[p].lastSeen >= task[a].seen})
              >= MaxProfiles]_profileVars

(* The table of profiles keeps its limits, visits and visitors, and turns a   *)
(* visit away only for want of room.                                        *)
ProfilesHold ==
  [](ProfilesBounded /\ VisitsKept /\ ReturnsRecognised) /\ VisitFailsOnlyFull
=============================================================================
