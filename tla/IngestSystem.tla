----------------------------- MODULE IngestSystem -----------------------------
(***************************************************************************)
(* Reader, processEvents and event queue with one consumer that pops, and  *)
(* a context that may be cancelled at any time.                            *)
(***************************************************************************)
EXTENDS Ingest

VARIABLE popped         \* what the consumer has popped, in order

vars == <<ledgerVars, ingestVars, popped>>

Init == LedgerInit /\ IngestInit /\ popped = <<>>

Arrive == \E e \in Events : Recv(e) /\ UNCHANGED popped

ReaderStep == Reader /\ UNCHANGED popped

ProcessorStep == Processor /\ UNCHANGED popped

(* The consumer may go on popping after the cancellation, as long as its   *)
(* select takes the queue and not ctx.Done().                              *)
Consume ==
  \E e \in Events : Pop(e) /\ popped' = Append(popped, e) /\ UNCHANGED ledgerVars

Cancel == CancelContext /\ UNCHANGED <<ledger, ingestVars, popped>>

(* Both goroutines have returned.                                          *)
AtRest == ~readerUp /\ ~processorUp /\ UNCHANGED vars

Next == Arrive \/ ReaderStep \/ ProcessorStep \/ Consume \/ Cancel \/ AtRest

(* Go schedules the goroutines; Tetragon need not send, the consumer need  *)
(* not pop once the context is done, and nobody need cancel.               *)
Fairness ==
  /\ WF_vars(ReaderStep /\ (offered # <<>> \/ ctxDone))
  /\ WF_vars(ProcessorStep)
  /\ WF_vars(Consume /\ ~ctxDone)

Spec == Init /\ [][Next]_vars /\ Fairness

-----------------------------------------------------------------------------
(* The type invariant.                                                     *)
TypeOK == IngestTypeOK /\ popped \in Seq(Events)

(* Two channels, two goroutines and three places to drop do not disturb    *)
(* the order of arrival: what was popped, followed by what is on the way,  *)
(* is in the order in which Recv returned it, and holds no event twice.    *)
InArrivalOrder == Increasing(popped \o Pipeline)

(* Every event received is in one of three conditions: popped, on its way, *)
(* or disposed of, once.                                                   *)
Accounted ==
  \A e \in Events :
    /\ e \in received => (e \in Range(popped \o Pipeline) <=> ~Settled(e))
    /\ e \notin received => e \notin Range(popped \o Pipeline) /\ ~Settled(e)
    /\ Len(ledger[e]) <= 1

(* While the context lives, an event on its way gets popped or a metric    *)
(* counts its drop: neither a full queue nor the two hops lose one without *)
(* a trace, and block mode does not hold processEvents for ever.           *)
ReceivedIsConsumed ==
  \A e \in Events :
    e \in received ~> (e \in Range(popped) \/ Settled(e) \/ ctxDone)

(* In drop mode a processEvents that has an event never waits for the      *)
(* consumer, and in either mode it returns once the context is done: Push  *)
(* does not hold up the shutdown.                                          *)
ProcessorFree ==
  /\ (pushing # <<>> /\ dropIfFull) ~> pushing = <<>>
  /\ ctxDone ~> (~processorUp /\ ~readerUp)

(* The design's block mode, professional.md:67: "queue full -> block the   *)
(* reader".  With drop_if_queue_full off, no event is dropped for lack of  *)
(* room.                                                                   *)
BlockModeDropsNothing ==
  ~dropIfFull => \A e \in Events : ~HasFate(e, "streamFull")
=============================================================================
