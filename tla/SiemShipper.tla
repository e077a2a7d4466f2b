----------------------------- MODULE SiemShipper -----------------------------
(***************************************************************************)
(* The shipping of log entries to a SIEM (SIEMHandler, core/logging.py).   *)
(* Threads that log put entries into a bounded queue, one at a time (a     *)
(* logging handler has a lock); the worker thread collects batches, sends  *)
(* each with retries, and writes to a dead-letter file what it cannot      *)
(* send.  Entries are numbered in the order in which they are logged.      *)
(*                                                                         *)
(* Back-off delays and the check of the endpoint's addresses, which only   *)
(* makes attempts fail, are abstracted.  Bounds: MaxEntries, MaxFaults.     *)
(***************************************************************************)
EXTENDS Naturals, Sequences, SequencesExt

CONSTANTS
  MaxQueue,    (* max_queue_size                                            *)
  BatchSize,   (* batch_size                                                *)
  MaxRetries,  (* max_retries                                               *)
  MaxLetters,  (* _DEAD_LETTER_MAX_BYTES, in entries                        *)
  MaxFiles,    (* _DEAD_LETTER_MAX_FILES                                    *)
  MaxEntries, MaxFaults

ASSUME ShipperAssumption ==
  /\ MaxQueue \in Nat \ {0} /\ BatchSize \in Nat \ {0} /\ MaxRetries \in Nat
  /\ MaxLetters \in Nat \ {0} /\ MaxFiles \in Nat \ {0}
  /\ MaxEntries \in Nat /\ MaxFaults \in Nat

LogEntry == 1 .. MaxEntries

VARIABLES
  transport,  (* "http" or "udp"                                            *)
  keeps,      (* whether a dead_letter_path is configured                   *)
  emitted,    (* entries logged so far                                      *)
  queue,      (* _queue                                                     *)
  batch,      (* the worker's batch                                         *)
  worker,     (* what the worker does                                       *)
  attempt,    (* its attempt at sending the batch                           *)
  handler,    (* "open", "closing" or "closed"                              *)
  received,   (* history: the entries the SIEM was sent, again on a retry   *)
  letters,    (* the dead-letter file and its older versions                *)
  discarded,  (* history: entries dropped with the oldest file, or without  *)
              (* a file to keep them in                                     *)
  refused,    (* history: entries whose logging call raised                 *)
  faults      (* writes of the dead-letter file that failed                 *)

shipperVars == <<transport, keeps, emitted, queue, batch, worker, attempt, handler,
                 received, letters, discarded, refused, faults>>

ShipperInit ==
  /\ transport \in {"http", "udp"} /\ keeps \in BOOLEAN
  /\ emitted = 0 /\ queue = << >> /\ batch = << >>
  /\ worker = "waiting" /\ attempt = 0 /\ handler = "open"
  /\ received = << >> /\ letters = [i \in 1 .. MaxFiles + 1 |-> << >>]
  /\ discarded = {} /\ refused = {} /\ faults = 0

----------------------------------------------------------------------------
(* _rotate_dead_letter_locked: a full file becomes the newest old one, and   *)
(* the oldest is removed.                                                   *)
Rotated == IF Len(letters[1]) < MaxLetters THEN letters
           ELSE [i \in 1 .. MaxFiles + 1 |-> IF i = 1 THEN << >> ELSE letters[i - 1]]
Removed == IF Len(letters[1]) < MaxLetters THEN {} ELSE ToSet(letters[MaxFiles + 1])

(* _write_dead_letter, under its lock.                                      *)
WriteLetters(entries) ==
  IF keeps
  THEN /\ letters' = [Rotated EXCEPT ![1] = @ \o entries]
       /\ discarded' = discarded \cup Removed
  ELSE discarded' = discarded \cup ToSet(entries) /\ UNCHANGED letters

WriteFault == keeps /\ faults < MaxFaults /\ faults' = faults + 1

----------------------------------------------------------------------------
(* emit: an entry the full queue does not take is written to the file; when  *)
(* that fails too, the logging call raises.                                 *)
Emit ==
  /\ emitted < MaxEntries
  /\ emitted' = emitted + 1
  /\ \/ /\ Len(queue) < MaxQueue
        /\ queue' = Append(queue, emitted + 1)
        /\ UNCHANGED <<letters, discarded, refused, faults>>
     \/ /\ Len(queue) = MaxQueue
        /\ WriteLetters(<<emitted + 1>>)
        /\ UNCHANGED <<queue, refused, faults>>
     \/ /\ Len(queue) = MaxQueue
        /\ WriteFault
        /\ refused' = refused \cup {emitted + 1}
        /\ UNCHANGED <<queue, letters, discarded>>
  /\ UNCHANGED <<transport, keeps, batch, worker, attempt, handler, received>>

----------------------------------------------------------------------------
(* _run_worker *)

Take ==
  /\ worker = "waiting" /\ queue # << >>
  /\ queue' = Tail(queue)
  /\ batch' = Append(batch, Head(queue))
  /\ worker' = IF Len(batch') >= BatchSize THEN "sending" ELSE "waiting"
  /\ attempt' = 0
  /\ UNCHANGED <<transport, keeps, emitted, handler, received, letters, discarded, refused, faults>>

(* The queue stays empty until the deadline.                                *)
FlushInterval ==
  /\ worker = "waiting" /\ queue = << >> /\ batch # << >>
  /\ worker' = "sending" /\ attempt' = 0
  /\ UNCHANGED <<transport, keeps, emitted, queue, batch, handler, received, letters,
                 discarded, refused, faults>>

EndWorker ==
  /\ worker = "waiting" /\ handler # "open" /\ queue = << >> /\ batch = << >>
  /\ worker' = "ended"
  /\ UNCHANGED <<transport, keeps, emitted, queue, batch, attempt, handler, received, letters,
                 discarded, refused, faults>>

----------------------------------------------------------------------------
(* _flush_batch *)

(* close takes the UDP socket away from the worker.                         *)
CanSend == transport = "http" \/ handler # "closed"

Send ==
  /\ worker = "sending" /\ CanSend
  /\ received' = received \o batch
  /\ batch' = << >> /\ worker' = "waiting"
  /\ UNCHANGED <<transport, keeps, emitted, queue, attempt, handler, letters, discarded, refused,
                 faults>>

(* How much of the batch arrives in an attempt that fails: over HTTP all of  *)
(* it when only the answer is lost, over UDP what went before the error.     *)
Arriving == IF ~CanSend THEN {0}
            ELSE IF transport = "http" THEN {0, Len(batch)} ELSE 0 .. Len(batch) - 1

(* Faulty variant: a batch whose attempts all failed is forgotten.           *)
SendFailsForGood ==
  /\ worker = "sending"
  /\ \E n \in Arriving : received' = received \o SubSeq(batch, 1, n)
  /\ IF attempt < MaxRetries
     THEN attempt' = attempt + 1 /\ UNCHANGED <<worker, batch>>
     ELSE worker' = "waiting" /\ batch' = << >> /\ UNCHANGED attempt
  /\ UNCHANGED <<transport, keeps, emitted, queue, handler, letters, discarded, refused, faults>>

(* Faulty variant: an attempt that fails is always followed by another.      *)
SendFailsAndRetries ==
  /\ worker = "sending"
  /\ attempt' = IF attempt < MaxRetries THEN attempt + 1 ELSE 0
  /\ UNCHANGED <<transport, keeps, emitted, queue, batch, worker, handler, received, letters,
                 discarded, refused, faults>>

SendFails ==
  /\ worker = "sending"
  /\ \E n \in Arriving : received' = received \o SubSeq(batch, 1, n)
  /\ IF attempt < MaxRetries
     THEN attempt' = attempt + 1 /\ UNCHANGED worker
     ELSE worker' = "writing" /\ UNCHANGED attempt
  /\ UNCHANGED <<transport, keeps, emitted, queue, batch, handler, letters, discarded, refused,
                 faults>>

WriteBatch ==
  /\ worker = "writing"
  /\ WriteLetters(batch)
  /\ batch' = << >> /\ worker' = "waiting"
  /\ UNCHANGED <<transport, keeps, emitted, queue, attempt, handler, received, refused, faults>>

(* The error of a write is caught nowhere: it ends the worker thread.        *)
DieWriting ==
  /\ worker = "writing" /\ WriteFault
  /\ worker' = "died"
  /\ UNCHANGED <<transport, keeps, emitted, queue, batch, attempt, handler, received, letters,
                 discarded, refused>>

----------------------------------------------------------------------------
(* close waits for the worker, but not for long.                            *)
CloseHandler ==
  /\ \/ handler = "open" /\ handler' = "closing"
     \/ handler = "closing" /\ handler' = "closed"
  /\ UNCHANGED <<transport, keeps, emitted, queue, batch, worker, attempt, received, letters,
                 discarded, refused, faults>>

WorkerStep ==
  Take \/ FlushInterval \/ EndWorker \/ Send \/ SendFails \/ WriteBatch \/ DieWriting

ShipperNext == Emit \/ WorkerStep \/ CloseHandler

ShipperSpec == ShipperInit /\ [][ShipperNext]_shipperVars

(* The worker thread runs, and every attempt has a timeout.                 *)
ShipperFairness == WF_shipperVars(WorkerStep)

FairShipperSpec == ShipperSpec /\ ShipperFairness

----------------------------------------------------------------------------
Unsent == ToSet(batch) \cup ToSet(queue)
Written == UNION {ToSet(letters[i]) : i \in DOMAIN letters}
Ended   == ToSet(received) \cup Written \cup discarded \cup refused

(* Every entry logged is waiting, was sent, or is in the dead-letter file    *)
(* and its older versions unless the newest of them pushed it out; what      *)
(* waits does so in the order of logging, behind all that was sent but the   *)
(* batch in hand, and a retry repeats nothing older than that batch.         *)
NothingLost ==
  /\ 1 .. emitted = Unsent \cup Ended
  /\ \A i, j \in DOMAIN (batch \o queue) : i < j => (batch \o queue)[i] < (batch \o queue)[j]
  /\ ToSet(queue) \cap Ended = {} /\ ToSet(batch) \cap (Written \cup discarded \cup refused) = {}
  /\ \A e \in ToSet(received) \ ToSet(batch), p \in Unsent : e < p
  /\ \A i, j \in DOMAIN received :
       i < j /\ received[j] < received[i] => \E k \in 1 .. i - 1 : received[k] = received[j]

(* Every entry logged is sent or given up in the end, however often sending   *)
(* fails - unless the worker is gone.                                       *)
EveryEntryEnds ==
  \A e \in LogEntry : e \in Unsent ~> e \in Ended \/ worker \in {"ended", "died"}

(* "... where undeliverable log entries are written for later recovery"      *)
(* (docs/user-guide.md, line 350): while the handler is open, an entry does   *)
(* not stay in the queue for good - it is taken, and sent or written.        *)
UndeliverableIsWritten ==
  [](handler = "open") =>
    \A e \in LogEntry : e \in ToSet(queue) ~> e \in ToSet(batch) \cup Ended
=============================================================================
