-------------------------------- MODULE Ingest --------------------------------
(***************************************************************************)
(* The way of an event from the gRPC stream into the event queue:          *)
(*   - the reader, Stream.ReadEvents in internal/grpc/stream.go, run by    *)
(*     RunWithReconnect, which offers each event to the stream channel;    *)
(*   - processEvents in cmd/consumer/main.go, which takes it from there,   *)
(*     samples it and pushes it;                                           *)
(*   - the event queue, internal/queue/queue.go.                           *)
(*                                                                         *)
(* Only the operations are here.  IngestSystem runs them by themselves,    *)
(* Adapter together with the Kafka side.                                   *)
(*                                                                         *)
(* A goroutine that has an event in hand has it in a sequence of length    *)
(* one; an empty sequence means it is back at its blocking receive.        *)
(***************************************************************************)
EXTENDS EventLedger, OrderedSequences, Functions

CONSTANTS
  MaxQueue,       \* tetragon.stream.max_queue, the size of both channels
  DropModes,      \* the values of drop_if_queue_full to explore
  Sampling,       \* tetragon.stream.sample_ratio is below one
  ReaderMayGiveUp \* reconnect.max_attempts is set: the reader may stop for good

(* validator.go:62 refuses any other queue size.                           *)
ASSUME IngestAssumption ==
  /\ MaxQueue \in Nat \ {0}
  /\ DropModes \subseteq BOOLEAN /\ DropModes # {}
  /\ Sampling \in BOOLEAN
  /\ ReaderMayGiveUp \in BOOLEAN

VARIABLES
  dropIfFull,     \* tetragon.stream.drop_if_queue_full, fixed at the start
  received,       \* the events that Recv has returned so far
  readerUp,       \* RunWithReconnect has not returned
  offered,        \* the event the reader holds, as a sequence
  streamCh,       \* grpcEventCh
  processorUp,    \* processEvents has not returned
  pushing,        \* the event processEvents holds, as a sequence
  queue           \* the channel of the event queue

readerVars == <<received, readerUp, offered>>

processorVars == <<processorUp, pushing>>

ingestVars == <<dropIfFull, readerVars, streamCh, processorVars, queue>>

IngestInit ==
  /\ dropIfFull \in DropModes
  /\ received = {}
  /\ readerUp = TRUE
  /\ offered = <<>>
  /\ streamCh = <<>>
  /\ processorUp = TRUE
  /\ pushing = <<>>
  /\ queue = <<>>

(* The events between Recv and Pop, oldest first.                          *)
Pipeline == queue \o pushing \o streamCh \o offered

-----------------------------------------------------------------------------
(* The reader.                                                             *)

NextArrival(e) ==
  /\ e \notin received
  /\ \A d \in Events : d < e => d \in received

(* Recv returns an event.  The select before Recv has seen the context     *)
(* alive, but it may have been cancelled while Recv waited.                *)
Recv(e) ==
  /\ readerUp
  /\ offered = <<>>
  /\ NextArrival(e)
  /\ received' = received \cup {e}
  /\ offered' = <<e>>
  /\ UNCHANGED <<ledgerVars, dropIfFull, readerUp, streamCh, processorVars, queue>>

StreamChFull == Len(streamCh) >= MaxQueue

(* The check of the context before the next Recv belongs to the step.      *)
OfferAccepted ==
  /\ offered # <<>>
  /\ ~StreamChFull
  /\ streamCh' = Append(streamCh, Head(offered))
  /\ offered' = <<>>
  /\ readerUp' = ~ctxDone
  /\ UNCHANGED <<ledgerVars, dropIfFull, received, processorVars, queue>>

(* Slip: an event that does not fit is forgotten without being counted.    *)
OfferDroppedUncounted ==
  /\ offered # <<>>
  /\ StreamChFull
  /\ ~ctxDone
  /\ offered' = <<>>
  /\ UNCHANGED <<ledgerVars, dropIfFull, received, readerUp, streamCh,
                 processorVars, queue>>

(* The default case of the select: neither channel is ready.               *)
OfferDropped ==
  /\ offered # <<>>
  /\ StreamChFull
  /\ ~ctxDone
  /\ Dispose(Head(offered), "streamFull")
  /\ offered' = <<>>
  /\ UNCHANGED <<ctxDone, dropIfFull, received, readerUp, streamCh,
                 processorVars, queue>>

(* The select takes ctx.Done(): ReadEvents returns with the event in hand, *)
(* and RunWithReconnect after it.                                          *)
OfferCancelled ==
  /\ offered # <<>>
  /\ ctxDone
  /\ Dispose(Head(offered), "streamCancelled")
  /\ offered' = <<>>
  /\ readerUp' = FALSE
  /\ UNCHANGED <<ctxDone, dropIfFull, received, streamCh, processorVars, queue>>

(* RunWithReconnect returns between two events: because of the context, or *)
(* because its reconnect budget is used up.  (A reconnect changes nothing  *)
(* here; GrpcReconnect has it in detail.)                                  *)
ReaderStops ==
  /\ readerUp
  /\ offered = <<>>
  /\ ctxDone \/ ReaderMayGiveUp
  /\ readerUp' = FALSE
  /\ UNCHANGED <<ledgerVars, dropIfFull, received, offered, streamCh,
                 processorVars, queue>>

Reader == OfferAccepted \/ OfferDropped \/ OfferCancelled \/ ReaderStops

-----------------------------------------------------------------------------
(* processEvents: take an event, sample it, push it.                       *)

(* Slip: the next event is taken before the one in hand is pushed.         *)
TakeTwo ==
  /\ processorUp
  /\ streamCh # <<>>
  /\ streamCh' = Tail(streamCh)
  /\ pushing' = Append(pushing, Head(streamCh))
  /\ UNCHANGED <<ledgerVars, dropIfFull, readerVars, processorUp, queue>>

TakeSampled ==
  /\ processorUp
  /\ pushing = <<>>
  /\ streamCh # <<>>
  /\ streamCh' = Tail(streamCh)
  /\ pushing' = <<Head(streamCh)>>
  /\ UNCHANGED <<ledgerVars, dropIfFull, readerVars, processorUp, queue>>

TakeSkipped ==
  /\ processorUp
  /\ pushing = <<>>
  /\ streamCh # <<>>
  /\ Sampling
  /\ streamCh' = Tail(streamCh)
  /\ Dispose(Head(streamCh), "sampledOut")
  /\ UNCHANGED <<ctxDone, dropIfFull, readerVars, processorVars, queue>>

ProcessorStops ==
  /\ processorUp
  /\ pushing = <<>>
  /\ ctxDone
  /\ processorUp' = FALSE
  /\ UNCHANGED <<ledgerVars, dropIfFull, readerVars, streamCh, pushing, queue>>

(* Queue.Push: with room the event goes in, in both modes.                 *)
QueueFull == Len(queue) >= MaxQueue

PushAccepted ==
  /\ pushing # <<>>
  /\ ~QueueFull
  /\ queue' = Append(queue, Head(pushing))
  /\ pushing' = <<>>
  /\ UNCHANGED <<ledgerVars, dropIfFull, readerVars, streamCh, processorUp>>

(* Slips: instead of being dropped the event goes to the end of the stream *)
(* channel again; processEvents returns when a push fails.                 *)
PushRequeues ==
  /\ pushing # <<>>
  /\ dropIfFull
  /\ QueueFull
  /\ ~StreamChFull
  /\ streamCh' = Append(streamCh, Head(pushing))
  /\ pushing' = <<>>
  /\ UNCHANGED <<ledgerVars, dropIfFull, readerVars, processorUp, queue>>

PushFailureReturns ==
  /\ pushing # <<>>
  /\ dropIfFull
  /\ QueueFull
  /\ Dispose(Head(pushing), "queueFull")
  /\ pushing' = <<>>
  /\ processorUp' = FALSE
  /\ UNCHANGED <<ctxDone, dropIfFull, readerVars, streamCh, queue>>

(* Without room, drop mode drops at once, even if the context is done ...  *)
PushDropped ==
  /\ pushing # <<>>
  /\ dropIfFull
  /\ QueueFull
  /\ Dispose(Head(pushing), "queueFull")
  /\ pushing' = <<>>
  /\ UNCHANGED <<ctxDone, dropIfFull, readerVars, streamCh, processorUp, queue>>

(* Slip: block mode waits for room only.                                   *)
PushWaitsForRoomOnly == FALSE

(* ... and block mode waits for room or for the context, whichever the     *)
(* select takes.                                                           *)
PushCancelled ==
  /\ pushing # <<>>
  /\ ~dropIfFull
  /\ ctxDone
  /\ Dispose(Head(pushing), "pushCancelled")
  /\ pushing' = <<>>
  /\ UNCHANGED <<ctxDone, dropIfFull, readerVars, streamCh, processorUp, queue>>

Processor ==
  \/ TakeSampled \/ TakeSkipped \/ ProcessorStops
  \/ PushAccepted \/ PushDropped \/ PushCancelled

-----------------------------------------------------------------------------
(* Queue.Pop, in the goroutine that calls it.  The case of ctx.Done()      *)
(* changes nothing here: the caller returns.                               *)
Pop(e) ==
  /\ queue # <<>>
  /\ e = Head(queue)
  /\ queue' = Tail(queue)
  /\ UNCHANGED <<dropIfFull, readerVars, streamCh, processorVars>>

-----------------------------------------------------------------------------
IngestTypeOK ==
  /\ LedgerTypeOK
  /\ dropIfFull \in DropModes
  /\ received \subseteq Events
  /\ readerUp \in BOOLEAN
  /\ processorUp \in BOOLEAN
  /\ streamCh \in Seq(Events)
  /\ queue \in Seq(Events)
  /\ offered \in Seq(Events) /\ Len(offered) <= 1
  /\ pushing \in Seq(Events) /\ Len(pushing) <= 1
=============================================================================
