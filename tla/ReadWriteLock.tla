---------------------------- MODULE ReadWriteLock ----------------------------
(***************************************************************************)
(* The lock of the intelligence store (intel/store.py, _ReadWriteLock): one  *)
(* condition variable, a number of readers, a writer, and a number of         *)
(* writers that wait, whom later readers let pass.  What the lock does while  *)
(* it holds the mutex of the condition is one step.                         *)
(***************************************************************************)
EXTENDS Naturals, FiniteSets

CONSTANT Thread

ASSUME LockAssumption == IsFiniteSet(Thread)

VARIABLES
  readers, writer, waiters,     (* _readers, _writer, _writer_waiters           *)
  place                         (* where each thread is                       *)

lockVars == <<readers, writer, waiters, place>>

(* A thread waiting in the condition sleeps until it is notified, and then     *)
(* looks again.                                                            *)
Sleeping == {"sleeps to read", "sleeps to write"}
Woken == {"woken to read", "woken to write"}
Places == {"out", "reads", "writes"} \cup Sleeping \cup Woken

At(p) == {t \in Thread : place[t] = p}

LockInit == readers = 0 /\ writer = FALSE /\ waiters = 0 /\ place = [t \in Thread |-> "out"]

MayRead == ~writer /\ waiters = 0

(* Faulty variant: a writer waits for the readers only.                      *)
MayWriteAmongWriters == readers = 0

MayWrite == ~writer /\ readers = 0

Moves(t, p) == place' = [place EXCEPT ![t] = p]

(* notify_all                                                              *)
LeavesAndNotifies(t) ==
  place' = [s \in Thread |-> CASE s = t -> "out"
                               [] place[s] = "sleeps to read" -> "woken to read"
                               [] place[s] = "sleeps to write" -> "woken to write"
                               [] OTHER -> place[s]]

-----------------------------------------------------------------------------
LooksToRead(t) ==
  /\ IF MayRead THEN readers' = readers + 1 /\ Moves(t, "reads")
     ELSE Moves(t, "sleeps to read") /\ UNCHANGED readers
  /\ UNCHANGED <<writer, waiters>>

ReadEnter(t) == place[t] = "out" /\ LooksToRead(t)
ReadWakes(t) == place[t] = "woken to read" /\ LooksToRead(t)

(* others: the writers waiting, without this one.                            *)
LooksToWrite(t, others) ==
  /\ IF MayWrite THEN writer' = TRUE /\ waiters' = others /\ Moves(t, "writes")
     ELSE waiters' = others + 1 /\ Moves(t, "sleeps to write") /\ UNCHANGED writer
  /\ UNCHANGED readers

WriteEnter(t) == place[t] = "out" /\ LooksToWrite(t, waiters)
WriteWakes(t) == place[t] = "woken to write" /\ LooksToWrite(t, waiters - 1)

(* Faulty variant: readers leave without a word.                             *)
ReadExitSilently(t) ==
  /\ place[t] = "reads"
  /\ readers' = readers - 1
  /\ Moves(t, "out")
  /\ UNCHANGED <<writer, waiters>>

ReadExit(t) ==
  /\ place[t] = "reads"
  /\ readers' = readers - 1
  /\ IF readers = 1 THEN LeavesAndNotifies(t) ELSE Moves(t, "out")
  /\ UNCHANGED <<writer, waiters>>

WriteExit(t) ==
  /\ place[t] = "writes"
  /\ writer' = FALSE
  /\ LeavesAndNotifies(t)
  /\ UNCHANGED <<readers, waiters>>

LockNext ==
  \E t \in Thread : \/ ReadEnter(t) \/ ReadWakes(t) \/ ReadExit(t)
                    \/ WriteEnter(t) \/ WriteWakes(t) \/ WriteExit(t)

LockSpec == LockInit /\ [][LockNext]_lockVars

-----------------------------------------------------------------------------
(* Whoever reads shares the store with readers only, and a writer has it      *)
(* alone (docs/current-state.md:121).                                        *)
Exclusive ==
  /\ \A s, t \in Thread : place[s] = "writes" /\ place[t] \in {"reads", "writes"} => s = t

(* No wake-up is lost: while a thread sleeps, another one is inside, who will  *)
(* notify it, or was notified and will look.                                 *)
NobodyStuck ==
  (\E t \in Thread : place[t] \in Sleeping) =>
    \E t \in Thread : place[t] \in {"reads", "writes"} \cup Woken
=============================================================================
