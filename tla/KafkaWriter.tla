----------------------------- MODULE KafkaWriter -----------------------------
(***************************************************************************)
(* The batch writer, internal/kafka/writer.go: a bounded channel of        *)
(* messages, Write at its one end, and at the other the workers, which     *)
(* gather batches and hand them to the asynchronous producer.              *)
(*                                                                         *)
(* sarama's Input channel and the 30 s flush deadline are the environment: *)
(* Input takes a message at some time, and if it may stall for longer than *)
(* the deadline (InputMayStall) the flush may be cancelled at any point.   *)
(* A message stands for the event it carries.  Metrics of the worker       *)
(* (queue depth, latency, batch size) have no influence and are left out.  *)
(***************************************************************************)
EXTENDS EventLedger, FiniteSets, Functions

CONSTANTS
  Workers,        \* kafka.writer_workers goroutines
  MaxMessages,    \* kafka.batch.max_messages
  InputMayStall   \* the producer may block its Input past the flush deadline

(* validator.go:75 and :83 refuse anything else.                           *)
ASSUME WriterAssumption ==
  /\ IsFiniteSet(Workers) /\ Workers # {}
  /\ MaxMessages \in Nat \ {0}
  /\ InputMayStall \in BOOLEAN

VARIABLES
  messageCh,      \* the messages in the channel
  closed,         \* the channel is closed
  wpc,            \* where each worker is
  batch,          \* the messages of its batch a worker has not disposed of
  attempt,        \* writeToDLQ's attempt, for the message it is at
  leaving         \* the flush is the last one of the worker

writerVars == <<messageCh, closed, wpc, batch, attempt, leaving>>

vars == <<ledgerVars, writerVars>>

Capacity == MaxMessages * Cardinality(Workers)

MaxRetries == 3

WriterInit ==
  /\ messageCh = <<>>
  /\ closed = FALSE
  /\ wpc = [w \in Workers |-> "select"]
  /\ batch = [w \in Workers |-> <<>>]
  /\ attempt = [w \in Workers |-> 0]
  /\ leaving = [w \in Workers |-> FALSE]

(* Every message the writer has accepted and not disposed of.              *)
Held == Range(messageCh) \cup UNION {Range(batch[w]) : w \in Workers}

-----------------------------------------------------------------------------
(* Write: a select with a default, so it never blocks.  On a closed        *)
(* channel the send panics, whatever room there is.                        *)

ChannelFull == Len(messageCh) >= Capacity

WriteAccept(e) ==
  /\ ~closed
  /\ ~ChannelFull
  /\ messageCh' = Append(messageCh, e)
  /\ UNCHANGED <<ledgerVars, closed, wpc, batch, attempt, leaving>>

WriteFull(e) ==
  /\ ~closed
  /\ ChannelFull
  /\ Dispose(e, "writerFull")
  /\ UNCHANGED <<ctxDone, writerVars>>

WritePanic(e) ==
  /\ closed
  /\ Dispose(e, "writerPanic")
  /\ UNCHANGED <<ctxDone, writerVars>>

Write(e) == WriteAccept(e) \/ WriteFull(e) \/ WritePanic(e)

(* Close closes the channel; closeOnce makes a second call do nothing.     *)
CloseChannel ==
  /\ ~closed
  /\ closed' = TRUE
  /\ UNCHANGED <<ledgerVars, messageCh, wpc, batch, attempt, leaving>>

-----------------------------------------------------------------------------
(* The worker's select.  The cases that are ready are chosen among freely. *)

(* Slip: the batch is flushed one message late.                            *)
FlushDueLate(n) == n > MaxMessages

FlushDue(n) == n >= MaxMessages

(* Slip: the message is read and stays in the channel.                     *)
ReceivePeek(w) ==
  /\ wpc[w] = "select"
  /\ messageCh # <<>>
  /\ batch' = [batch EXCEPT ![w] = Append(@, Head(messageCh))]
  /\ wpc' = [wpc EXCEPT ![w] = IF FlushDue(Len(batch[w]) + 1)
                               THEN "flush" ELSE "select"]
  /\ UNCHANGED <<ledgerVars, messageCh, closed, attempt, leaving>>

Receive(w) ==
  /\ wpc[w] = "select"
  /\ messageCh # <<>>
  /\ messageCh' = Tail(messageCh)
  /\ batch' = [batch EXCEPT ![w] = Append(@, Head(messageCh))]
  /\ wpc' = [wpc EXCEPT ![w] = IF FlushDue(Len(batch[w]) + 1)
                               THEN "flush" ELSE "select"]
  /\ UNCHANGED <<ledgerVars, closed, attempt, leaving>>

(* Slip: the ticker flushes full batches only.                             *)
TickFullOnly(w) ==
  /\ wpc[w] = "select"
  /\ Len(batch[w]) >= MaxMessages
  /\ wpc' = [wpc EXCEPT ![w] = "flush"]
  /\ UNCHANGED <<ledgerVars, messageCh, closed, batch, attempt, leaving>>

Tick(w) ==
  /\ wpc[w] = "select"
  /\ batch[w] # <<>>
  /\ wpc' = [wpc EXCEPT ![w] = "flush"]
  /\ UNCHANGED <<ledgerVars, messageCh, closed, batch, attempt, leaving>>

(* Slips: the channel is not drained after Close; Close goes unnoticed.    *)
MayStopUndrained == ctxDone \/ closed

MayStopOnCancelOnly == ctxDone

(* The two cases that return: the context is done, whatever the channel    *)
(* still holds, or the channel is closed and drained.                      *)
MayStop == ctxDone \/ (closed /\ messageCh = <<>>)

StopIdle(w) ==
  /\ wpc[w] = "select"
  /\ MayStop
  /\ batch[w] = <<>>
  /\ wpc' = [wpc EXCEPT ![w] = "exited"]
  /\ UNCHANGED <<ledgerVars, messageCh, closed, batch, attempt, leaving>>

StopAfterFlush(w) ==
  /\ wpc[w] = "select"
  /\ MayStop
  /\ batch[w] # <<>>
  /\ wpc' = [wpc EXCEPT ![w] = "flush"]
  /\ leaving' = [leaving EXCEPT ![w] = TRUE]
  /\ UNCHANGED <<ledgerVars, messageCh, closed, batch, attempt>>

-----------------------------------------------------------------------------
(* flushBatch and writeToDLQ.  Both loops take the batch's messages one by *)
(* one from the front; Finish disposes of that message and goes on with    *)
(* the next one at pc, or, after the last one, back to the select or out.  *)

AfterFlush(w) == IF leaving[w] THEN "exited" ELSE "select"

(* Slip: the batch is not reset after the flush.                           *)
FinishNoReset(w, f, pc) ==
  /\ Dispose(Head(batch[w]), f)
  /\ wpc' = [wpc EXCEPT ![w] = IF Tail(batch[w]) = <<>>
                               THEN AfterFlush(w) ELSE pc]
  /\ attempt' = [attempt EXCEPT ![w] = 0]
  /\ UNCHANGED <<ctxDone, messageCh, closed, batch, leaving>>

Finish(w, f, pc) ==
  /\ Dispose(Head(batch[w]), f)
  /\ batch' = [batch EXCEPT ![w] = Tail(@)]
  /\ wpc' = [wpc EXCEPT ![w] = IF Tail(batch[w]) = <<>>
                               THEN AfterFlush(w) ELSE pc]
  /\ attempt' = [attempt EXCEPT ![w] = 0]
  /\ UNCHANGED <<ctxDone, messageCh, closed, leaving>>

(* Slip: the batch is sent from its end.                                   *)
FlushBackwards(w) ==
  /\ wpc[w] = "flush"
  /\ Dispose(batch[w][Len(batch[w])], "produced")
  /\ batch' = [batch EXCEPT ![w] = SubSeq(@, 1, Len(@) - 1)]
  /\ wpc' = [wpc EXCEPT ![w] = IF Len(batch[w]) = 1 THEN AfterFlush(w) ELSE @]
  /\ UNCHANGED <<ctxDone, messageCh, closed, attempt, leaving>>

FlushSend(w) ==
  /\ wpc[w] = "flush"
  /\ Finish(w, "produced", "flush")

(* Slip: the flush has a deadline that Input does not always meet.         *)
FlushCtxTooShort == TRUE

(* flushCtx ends with its parent or at its deadline.                       *)
FlushCtxDone == ctxDone \/ InputMayStall

(* Slip: a cancelled flush returns without a word on the rest.             *)
FlushReturnsAtOnce(w) ==
  /\ wpc[w] = "flush"
  /\ FlushCtxDone
  /\ Dispose(Head(batch[w]), "flushCancelled")
  /\ batch' = [batch EXCEPT ![w] = <<>>]
  /\ wpc' = [wpc EXCEPT ![w] = AfterFlush(w)]
  /\ UNCHANGED <<ctxDone, messageCh, closed, attempt, leaving>>

(* The message at hand is already in sentMessages when the select takes    *)
(* flushCtx.Done(), so batch[len(sentMessages):] starts after it: it goes  *)
(* neither to its topic nor to the dead letters.                           *)
FlushCancelled(w) ==
  /\ wpc[w] = "flush"
  /\ FlushCtxDone
  /\ Finish(w, "flushCancelled", "dlqSend")

(* SendMessage selects between Input and the context, here the flushCtx    *)
(* that is already done: either may be taken.                              *)
DLQSend(w) ==
  /\ wpc[w] = "dlqSend"
  /\ Finish(w, "deadLettered", "dlqSend")

(* Slip: one attempt too many.                                             *)
LastAttemptLate(w) == attempt[w] = MaxRetries

LastAttempt(w) == attempt[w] = MaxRetries - 1

DLQError(w) ==
  /\ wpc[w] = "dlqSend"
  /\ ~LastAttempt(w)
  /\ wpc' = [wpc EXCEPT ![w] = "dlqWait"]
  /\ attempt' = [attempt EXCEPT ![w] = @ + 1]
  /\ UNCHANGED <<ledgerVars, messageCh, closed, batch, leaving>>

DLQGiveUp(w) ==
  /\ wpc[w] = "dlqSend"
  /\ LastAttempt(w)
  /\ Finish(w, "dlqFailed", "dlqSend")

(* The wait before a retry selects between the backoff timer and the same  *)
(* context.  Done is ready from the start; the timer is only if the        *)
(* goroutine is held up for the backoff before it reaches the select.      *)
DLQRetry(w) ==
  /\ wpc[w] = "dlqWait"
  /\ wpc' = [wpc EXCEPT ![w] = "dlqSend"]
  /\ UNCHANGED <<ledgerVars, messageCh, closed, batch, attempt, leaving>>

DLQCancelled(w) ==
  /\ wpc[w] = "dlqWait"
  /\ Finish(w, "dlqCancelled", "dlqSend")

Worker(w) ==
  \/ Receive(w) \/ Tick(w) \/ StopIdle(w) \/ StopAfterFlush(w)
  \/ FlushSend(w) \/ FlushCancelled(w)
  \/ DLQSend(w) \/ DLQError(w) \/ DLQGiveUp(w) \/ DLQRetry(w) \/ DLQCancelled(w)

-----------------------------------------------------------------------------
(* The writer by itself: one caller that writes the events in order, and   *)
(* an environment that may close the channel and cancel the context at any *)
(* time, in any order.                                                     *)

Handed(e) == e \in Held \/ Settled(e)

NextToWrite(e) ==
  /\ ~Handed(e)
  /\ \A d \in Events : d < e => Handed(d)

Cancel == CancelContext /\ UNCHANGED <<ledger, writerVars>>

(* Every worker has returned: the writer is at rest.                       *)
AllExited == \A w \in Workers : wpc[w] = "exited"

AtRest == AllExited /\ UNCHANGED vars

Init == LedgerInit /\ WriterInit

Next ==
  \/ \E e \in Events : NextToWrite(e) /\ Write(e)
  \/ CloseChannel
  \/ Cancel
  \/ \E w \in Workers : Worker(w)
  \/ AtRest

(* Go schedules every goroutine that can run; the ticker fires for as long *)
(* as the worker lives; a flush waits for Input no longer than 30 s.       *)
Fairness == \A w \in Workers : WF_vars(Worker(w))

Spec == Init /\ [][Next]_vars /\ Fairness

-----------------------------------------------------------------------------
Flushing == {"flush", "dlqSend", "dlqWait"}

WorkerStates == Flushing \cup {"select", "exited"}

(* The type invariant.                                                     *)
WriterTypeOK ==
  /\ messageCh \in Seq(Events)
  /\ closed \in BOOLEAN
  /\ wpc \in [Workers -> WorkerStates]
  /\ batch \in [Workers -> Seq(Events)]
  /\ attempt \in [Workers -> 0..MaxRetries - 1]
  /\ leaving \in [Workers -> BOOLEAN]

TypeOK == LedgerTypeOK /\ WriterTypeOK

(* A message the writer holds is in one place: once in the channel, or     *)
(* once in the batch of one worker.  No two workers have the same message. *)
OnePlace ==
  /\ IsInjective(messageCh)
  /\ \A w \in Workers :
       /\ IsInjective(batch[w])
       /\ Range(batch[w]) \cap Range(messageCh) = {}
       /\ \A v \in Workers \ {w} : Range(batch[w]) \cap Range(batch[v]) = {}

(* Whatever the workers, the ticker, Close and the cancellation do, a      *)
(* message is disposed of at most once, and never while it is still in the *)
(* channel or in a batch: no flush sends a message a second time.          *)
HandledOnce ==
  \A e \in Events :
    /\ Len(ledger[e]) <= 1
    /\ Settled(e) => e \notin Held

(* A worker outside a flush has room in its batch, one that is flushing    *)
(* has something to flush and no more than max_messages, and one that has  *)
(* returned has left nothing behind in its batch.                          *)
BatchesInBounds ==
  \A w \in Workers :
    /\ wpc[w] = "select" => Len(batch[w]) < MaxMessages /\ ~leaving[w]
    /\ wpc[w] \in Flushing => Len(batch[w]) \in 1..MaxMessages
    /\ wpc[w] = "exited" => batch[w] = <<>>

(* Workers that return because the channel was closed drain it first: a    *)
(* message left in the channel for good means the context was cancelled.   *)
StrandedOnlyByCancel == AllExited /\ Held # {} => ctxDone

(* The writer implements Delivery: it refuses a message or holds it, and   *)
(* a message it holds leaves in exactly one way.                           *)
D == INSTANCE Delivery WITH
       held <- Held,
       RefusalFates <- {"writerFull", "writerPanic"},
       LeavingFates <- {"produced", "flushCancelled", "deadLettered",
                        "dlqFailed", "dlqCancelled"}

ImplementsDelivery == D!Spec

(* While the context lives, a message the writer accepted is disposed of   *)
(* in the end, even if it is alone in its batch (the ticker flushes it),   *)
(* and even if the channel is closed behind it.                            *)
AcceptedIsSettled ==
  \A e \in Events : e \in Held ~> (Settled(e) \/ ctxDone)

(* Wait returns: once the context is done or the channel closed, every     *)
(* worker returns.                                                         *)
WorkersReturn == (ctxDone \/ closed) ~> AllExited

(* writer.go:226: "write the messages that were not sent to the DLQ".  A   *)
(* cancelled flush disposes of no message but by the dead letter path.     *)
UnsentGoToDLQ == \A e \in Events : ~HasFate(e, "flushCancelled")
=============================================================================
