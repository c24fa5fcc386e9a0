------------------------------ MODULE Closedown ------------------------------
(***************************************************************************)
(* The last steps of main, cmd/consumer/main.go: logger.Sync, and then the *)
(* deferred calls, of which Producer.Close and a second logger.Sync matter *)
(* here, against the goroutines that still use the producer.  These are    *)
(* the worker of the log core, which nothing ever stops, and writer        *)
(* workers that main no longer waits for, because it waits for ten seconds *)
(* at most (WriterTimesOut in Adapter).                                    *)
(*                                                                         *)
(* None of those goroutines recovers from a panic, so a send on the closed *)
(* Input ends the process.                                                 *)
(***************************************************************************)
EXTENDS KafkaProducer, KafkaLogCore, Functions

CONSTANTS Late        \* messages in the last flush of a writer worker

ASSUME LateAssumption == Messages = Logs \cup Late /\ Logs \cap Late = {}

VARIABLES
  unsent,         \* the messages of Late that are not dealt with
  cloned,         \* the global logger holds a clone of the log core
  mpc             \* where main is

vars == <<producerVars, logVars, unsent, cloned, mpc>>

(* logger.go:166: with any Kubernetes field or a host name the logger is   *)
(* made by With, which clones the core.                                    *)
Init ==
  /\ ProducerInit
  /\ LogInit
  /\ unsent = Late
  /\ cloned \in BOOLEAN
  /\ mpc = "running"

-----------------------------------------------------------------------------
(* Goroutines that log, the log worker, and the late writer worker.        *)

InCore == Range(logCh) \cup Range(logBatch)

NextLog(e) ==
  /\ e \notin InCore /\ logFate[e] = <<>>
  /\ \A d \in Logs : d < e => d \in InCore \/ logFate[d] # <<>>

WriteLog ==
  /\ \E e \in Logs : NextLog(e) /\ LogWrite(e)
  /\ UNCHANGED <<producerVars, unsent, cloned, mpc>>

LogSends ==
  /\ logFlushing
  /\ SendMessage(Head(logBatch))
  /\ LogFinish("sent")
  /\ UNCHANGED <<unsent, cloned, mpc>>

(* The five seconds are for the whole batch.  Once they are over, every    *)
(* select may go either way, be Input full, free again or closed.          *)
LogTimesOut ==
  /\ LogFinish("timedOut")
  /\ UNCHANGED <<producerVars, unsent, cloned, mpc>>

LogPanics ==
  /\ inputClosed
  /\ logFlushing
  /\ mpc' = "crashed"
  /\ UNCHANGED <<producerVars, logVars, unsent, cloned>>

LogWorker ==
  \/ (LogReceive \/ LogTick) /\ UNCHANGED <<producerVars, unsent, cloned, mpc>>
  \/ LogSends \/ LogTimesOut \/ LogPanics

(* The context of the late flush is done, so each select may go either     *)
(* way; the dead letter attempts go through the same SendMessage.  While   *)
(* main runs, these workers are the business of KafkaWriter.               *)
LateSends ==
  /\ mpc # "running"
  /\ \E m \in unsent : SendMessage(m) /\ unsent' = unsent \ {m}
  /\ UNCHANGED <<logVars, cloned, mpc>>

LateGivesUp ==
  /\ mpc # "running"
  /\ \E m \in unsent : unsent' = unsent \ {m}
  /\ UNCHANGED <<producerVars, logVars, cloned, mpc>>

LatePanics ==
  /\ inputClosed
  /\ unsent # {}
  /\ mpc' = "crashed"
  /\ UNCHANGED <<producerVars, logVars, unsent, cloned>>

LateWorker == LateSends \/ LateGivesUp \/ LatePanics

-----------------------------------------------------------------------------
(* main.                                                                   *)

MainGoes(from, to) ==
  /\ mpc = from
  /\ mpc' = to
  /\ UNCHANGED <<producerVars, logVars, unsent, cloned>>

StartsSync == MainGoes("running", "syncing")

(* The wait group of a clone is its own and empty: Sync returns at once.   *)
SyncOfClone == cloned /\ MainGoes("syncing", "closing")

(* The core's own wait group waits for a worker that does not return.      *)
SyncTimesOut == ~cloned /\ MainGoes("syncing", "closing")

ProducerClose ==
  /\ mpc = "closing"
  /\ Close
  /\ mpc' = IF closing' = "closed" THEN "lastSync" ELSE mpc
  /\ UNCHANGED <<logVars, unsent, cloned>>

Exits == MainGoes("lastSync", "exited")

Main == SyncOfClone \/ SyncTimesOut \/ ProducerClose \/ Exits

Ended == mpc \in {"exited", "crashed"}

AtRest == Ended /\ UNCHANGED vars

ProducerOnly(A) == A /\ UNCHANGED <<logVars, unsent, cloned, mpc>>

Next ==
  \/ /\ ~Ended
     /\ \/ WriteLog \/ LogWorker \/ LateWorker
        \/ ProducerOnly(Sarama)
        \/ \E k \in Kinds : ProducerOnly(Handler(k))
        \/ StartsSync \/ Main
  \/ AtRest

(* Go schedules the goroutines, sarama answers every message in the end,   *)
(* by its own timeouts, and the shutdown need not come.                    *)
Fairness ==
  /\ WF_vars(~Ended /\ LogWorker)
  /\ WF_vars(~Ended /\ ProducerOnly(Sarama))
  /\ \A k \in Kinds : WF_vars(~Ended /\ ProducerOnly(Handler(k)))
  /\ WF_vars(Main)

Spec == Init /\ [][Next]_vars /\ Fairness

-----------------------------------------------------------------------------
(* The type invariant.                                                     *)
TypeOK ==
  /\ ProducerTypeOK
  /\ LogTypeOK
  /\ unsent \subseteq Late
  /\ cloned \in BOOLEAN
  /\ mpc \in {"running", "syncing", "closing", "lastSync", "exited", "crashed"}

(* The log core is a Delivery: an entry is dropped at once or held, and a  *)
(* held entry is sent or times out, once.                                  *)
L == INSTANCE Delivery WITH
       Events <- Logs, held <- InCore, ledger <- logFate,
       RefusalFates <- {"dropped"}, LeavingFates <- {"sent", "timedOut"}

LogCoreIsDelivery == L!Spec

(* The messages of which sarama still has the result to hand over.         *)
InProducer == inflight \cup results["error"] \cup results["success"]

(* The producer is a Delivery too: every message Input takes gets one      *)
(* result, and that result is counted or, in Close, thrown away, once.     *)
P == INSTANCE Delivery WITH
       Events <- Messages, held <- InProducer, ledger <- outcome,
       RefusalFates <- {}, LeavingFates <- Outcomes

(* When Producer.Close has returned, nothing is left in sarama: every log  *)
(* entry that was sent, and every late message, has its one result, though *)
(* the handlers may have stopped before the messages were answered.        *)
SentIsAnswered ==
  mpc \in {"lastSync", "exited"} =>
    /\ InProducer = {}
    /\ \A e \in Logs : logFate[e] = <<"sent">> => Len(outcome[e]) = 1

(* The log reaches the producer in the order in which it was written: once *)
(* an entry is sent, no earlier one is still in the core.                  *)
LogInOrder ==
  \A d, e \in Logs : d < e /\ logFate[e] = <<"sent">> => d \notin InCore

(* Until the shutdown every message that Input took is counted, as written *)
(* or as failed: neither handler stops before it is told to.               *)
ResultsGetCounted ==
  \A m \in Messages :
    m \in inflight ~> (outcome[m] # <<>> \/ closing # "open")

(* While main runs, an entry leaves the core, even if no other follows it. *)
LogLeavesCore ==
  \A e \in Logs : e \in InCore ~> (logFate[e] # <<>> \/ mpc # "running")

(* main ends, one way or the other: Close does not wait for ever for       *)
(* results that nobody reads, nor Sync for a worker that nobody stops.     *)
MainEnds == mpc = "syncing" ~> Ended

(* main.go:472, of the call of Sync: "make sure that all log entries are   *)
(* sent, those to Kafka too".  When Sync returns, the core holds none; it  *)
(* is stated for the clone, which is what the logger normally has.         *)
SyncSendsAll ==
  [][ cloned /\ mpc = "syncing" /\ mpc' = "closing" => InCore = {} ]_vars
=============================================================================
