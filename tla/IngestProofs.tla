----------------------------- MODULE IngestProofs -----------------------------
(***************************************************************************)
(* For any set of events, any queue size and both modes: the ingest side   *)
(* keeps the order of arrival and accounts for every event.  The steps are *)
(* those of IngestSteps; what lies behind the queue is what was popped.    *)
(***************************************************************************)
EXTENDS IngestSystem, IngestSteps

IInv ==
  /\ popped \in Seq(Events) /\ Increasing(popped)
  /\ IngestInv(Range(popped))

LEMMA InitInv == Init => IInv
<1> SUFFICES ASSUME Init PROVE IInv
  OBVIOUS
<1>1. popped \in Seq(Events) /\ Increasing(popped) /\ Range(popped) = {}
  BY Nothing DEF Init
<1>2. IngestInv({})
  BY BeginInv DEF Init
<1> QED
  BY <1>1, <1>2 DEF IInv

LEMMA ConsumeInv == IInv /\ Consume => IInv'
<1> SUFFICES ASSUME IInv, NEW e \in Events, Pop(e), popped' = Append(popped, e),
                    UNCHANGED ledgerVars
             PROVE  IInv'
  BY DEF Consume
<1> PICK P : P = Range(popped)
  OBVIOUS
<1>1. IngestInv(P) /\ popped \in Seq(Events) /\ Increasing(popped)
  BY DEF IInv
<1>2. IngestInv(P \cup {e})' /\ Below(P, {e})
  BY <1>1, PopInv, Popped
<1>3. /\ popped' \in Seq(Events) /\ Range(popped') = P \cup {e}
      /\ Increasing(popped')
  BY <1>1, <1>2, AppendToQueue, AppendOrdered
<1> QED
  BY <1>2, <1>3 DEF IInv

LEMMA StepInv == IInv /\ [Next]_vars => IInv'
<1> SUFFICES ASSUME IInv, [Next]_vars PROVE IInv'
  OBVIOUS
<1> PICK P : P = Range(popped)
  OBVIOUS
<1>1. IngestInv(P)
  BY DEF IInv
<1>2. CASE Consume
  BY <1>2, ConsumeInv
<1>3. ASSUME popped' = popped, IngestInv(P)' PROVE IInv'
  BY <1>3 DEF IInv
<1>4. CASE Arrive \/ ReaderStep \/ ProcessorStep
  BY <1>1, <1>3, <1>4, RecvInv, ReaderInv, ProcessorInv
     DEF Arrive, ReaderStep, ProcessorStep
<1>5. CASE Cancel \/ AtRest \/ UNCHANGED vars
  <2>1. UNCHANGED <<ledger, dropIfFull, received, offered, streamCh, pushing, queue,
                    readerUp, processorUp, popped>>
    BY <1>5 DEF Cancel, AtRest, vars, ingestVars, ledgerVars, readerVars, processorVars
  <2>2. ctxDone' \in BOOLEAN
    BY <1>1, <1>5 DEF Cancel, CancelContext, AtRest, vars, ledgerVars, IngestInv,
                      IngestTypeOK, LedgerTypeOK
  <2>3. readerUp' \in BOOLEAN /\ processorUp' \in BOOLEAN
    BY <1>1, <2>1 DEF IngestInv, IngestTypeOK
  <2> QED
    BY <1>1, <1>3, <2>1, <2>2, <2>3, IdleInv
<1> QED
  BY <1>2, <1>4, <1>5 DEF Next

LEMMA Invariance == Spec => []IInv
BY InitInv, StepInv, PTL DEF Spec

(* The buffers and hands hold events, one at most in each hand.            *)
THEOREM TypeCorrect == Spec => []TypeOK
<1>1. IInv => TypeOK
  BY DEF IInv, IngestInv, TypeOK
<1> QED
  BY <1>1, Invariance, PTL

LEMMA Whole ==
  ASSUME IInv
  PROVE  /\ Increasing(popped \o Pipeline)
         /\ Range(popped \o Pipeline) = Places(Range(popped))
<1> PICK P : P = Range(popped)
  OBVIOUS
<1>1. /\ Pipeline \in Seq(Events) /\ Increasing(Pipeline)
      /\ Places(P) = P \cup Range(Pipeline) /\ Below(P, Range(Pipeline))
  BY WholePipeline DEF IInv
<1> QED
  BY <1>1, Joined DEF IInv

(* Whatever is dropped on the way, events are popped in the order in which *)
(* Recv has returned them, and none twice (stream.go:79, queue.go:58,      *)
(* main.go:527).                                                           *)
THEOREM ArrivalOrderKept == Spec => []InArrivalOrder
<1>1. IInv => InArrivalOrder
  BY Whole DEF InArrivalOrder
<1> QED
  BY <1>1, Invariance, PTL

(* Every event received is popped, under way or settled, exactly one of    *)
(* them, and settled once (stream.go:79-98, queue.go:58-92).               *)
THEOREM EveryEventAccounted == Spec => []Accounted
<1>1. IInv => Accounted
  BY Whole DEF Accounted, IInv, IngestInv, Account
<1> QED
  BY <1>1, Invariance, PTL
=============================================================================
