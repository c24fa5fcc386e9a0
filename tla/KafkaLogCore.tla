----------------------------- MODULE KafkaLogCore -----------------------------
(***************************************************************************)
(* The zap core that writes the adapter's own log to Kafka,                *)
(* internal/logger/kafka_core.go: Write, which any goroutine calls, the    *)
(* bounded channel and the one worker that sends batches.                  *)
(*                                                                         *)
(* The program never calls KafkaCore.Close, so the core's context is never *)
(* done, its channel never closed, and the worker ends with the process.   *)
(***************************************************************************)
EXTENDS Naturals, Sequences

CONSTANTS
  Logs,           \* the log entries, numbered in the order of their writing
  LogCapacity,    \* the size of logCh, 1000 in the code
  LogBatch        \* the size of a batch, 100 in the code

ASSUME LogAssumption ==
  Logs \subseteq Nat /\ LogCapacity \in Nat \ {0} /\ LogBatch \in Nat \ {0}

VARIABLES
  logCh,          \* the entries in the channel
  logBatch,       \* the entries of the batch that are not dealt with
  logFlushing,    \* the worker is in flushBatch
  logFate         \* logFate[e]: what became of entry e

logVars == <<logCh, logBatch, logFlushing, logFate>>

LogInit ==
  /\ logCh = <<>>
  /\ logBatch = <<>>
  /\ logFlushing = FALSE
  /\ logFate = [e \in Logs |-> <<>>]

LogDispose(e, f) == logFate' = [logFate EXCEPT ![e] = Append(@, f)]

-----------------------------------------------------------------------------
(* Write: a full channel drops the entry, and no metric counts it.         *)
LogWrite(e) ==
  \/ /\ Len(logCh) < LogCapacity
     /\ logCh' = Append(logCh, e)
     /\ UNCHANGED <<logBatch, logFlushing, logFate>>
  \/ /\ Len(logCh) >= LogCapacity
     /\ LogDispose(e, "dropped")
     /\ UNCHANGED <<logCh, logBatch, logFlushing>>

-----------------------------------------------------------------------------
(* logWorker.                                                              *)

(* Slip: the batch is sent one entry late.                                 *)
LogReceiveLate ==
  /\ ~logFlushing
  /\ logCh # <<>>
  /\ logCh' = Tail(logCh)
  /\ logBatch' = Append(logBatch, Head(logCh))
  /\ logFlushing' = (Len(logBatch) + 1 > LogBatch)
  /\ UNCHANGED logFate

LogReceive ==
  /\ ~logFlushing
  /\ logCh # <<>>
  /\ logCh' = Tail(logCh)
  /\ logBatch' = Append(logBatch, Head(logCh))
  /\ logFlushing' = (Len(logBatch) + 1 >= LogBatch)
  /\ UNCHANGED logFate

(* Slip: the ticker sends full batches only.                               *)
LogTickFullOnly ==
  /\ ~logFlushing
  /\ Len(logBatch) >= LogBatch
  /\ logFlushing' = TRUE
  /\ UNCHANGED <<logCh, logBatch, logFate>>

LogTick ==
  /\ ~logFlushing
  /\ logBatch # <<>>
  /\ logFlushing' = TRUE
  /\ UNCHANGED <<logCh, logBatch, logFate>>

(* Slips: the batch is sent from its end; it is sent and kept.             *)
LogFinishBackwards(f) ==
  /\ logFlushing
  /\ LogDispose(logBatch[Len(logBatch)], f)
  /\ logBatch' = SubSeq(logBatch, 1, Len(logBatch) - 1)
  /\ logFlushing' = (Len(logBatch) > 1)
  /\ UNCHANGED logCh

LogFinishKeeping(f) ==
  /\ logFlushing
  /\ Len(logFate[Head(logBatch)]) < 2
  /\ LogDispose(Head(logBatch), f)
  /\ UNCHANGED <<logCh, logBatch, logFlushing>>

(* flushBatch is done with the first entry, whatever SendMessage said.     *)
LogFinish(f) ==
  /\ logFlushing
  /\ LogDispose(Head(logBatch), f)
  /\ logBatch' = Tail(logBatch)
  /\ logFlushing' = (Tail(logBatch) # <<>>)
  /\ UNCHANGED logCh

LogFates == {"dropped", "sent", "timedOut"}

LogTypeOK ==
  /\ logCh \in Seq(Logs) /\ Len(logCh) <= LogCapacity
  /\ logBatch \in Seq(Logs) /\ Len(logBatch) <= LogBatch
  /\ logFlushing \in BOOLEAN
  /\ logFate \in [Logs -> Seq(LogFates)]
=============================================================================
