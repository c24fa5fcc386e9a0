---------------------------- MODULE AdapterProofs ----------------------------
(***************************************************************************)
(* Theorems about the whole adapter, for any set of events, any number of  *)
(* workers and any sizes of the channels and batches.                      *)
(*                                                                         *)
(* The invariants of the two sides meet at the queue: IngestInv says that  *)
(* what lies behind the queue is older than all that is before it, and the *)
(* writer's IInv that each message it holds is in one place of its own.    *)
(* Each operation is argued once, in IngestSteps or KafkaWriterProofs;     *)
(* here each step of the composition is shown to be one of them on its     *)
(* side and none on the other.                                             *)
(***************************************************************************)
EXTENDS Adapter, IngestSteps, FiniteSetTheorems

(* What lies behind the queue.                                             *)
Behind == W!Held \cup Range(writing)

IInv ==
  /\ hasWriter \in BOOLEAN /\ loopUp \in BOOLEAN /\ mpc \in MainStates
  /\ writing \in Seq(Events) /\ Len(writing) <= 1
  /\ W!IInv
  /\ IngestInv(Behind)
  /\ W!Held \cap Range(writing) = {}

(* What the step does to the events the adapter has.                       *)
Kept == HandsOver(Behind)

Lost(F) == SettlesOne(Behind, F)

Taken ==
  \E e \in Events :
    /\ e \notin Places(Behind) /\ ledger[e] = <<>>
    /\ Places(Behind)' = Places(Behind) \cup {e}
    /\ ledger' = ledger

(* The writer's own names for the ledger's operators.                      *)
LEMMA SameLedger ==
  /\ W!Fates = Fates
  /\ \A e : W!Settled(e) <=> Settled(e)
  /\ W!LedgerTypeOK <=> LedgerTypeOK
BY DEF W!Fates, W!DeliveredFates, W!CountedFates, W!SilentFates, W!SampledFates,
       Fates, DeliveredFates, CountedFates, SilentFates, SampledFates,
       W!Settled, Settled, W!LedgerTypeOK, LedgerTypeOK

LEMMA HeldIsEvents == ASSUME IInv PROVE Behind \subseteq Events
BY DEF IInv, IngestInv

(* The writer's invariant after a step that leaves its buffers alone.      *)
LEMMA WriterUntouched ==
  ASSUME IInv, UNCHANGED writerVars, NEW P, IngestInv(P)', W!Held \subseteq P
  PROVE  W!IInv' /\ W!Held' = W!Held
<1>1. /\ ledger' \in [Events -> Seq(Fates)] /\ ctxDone' \in BOOLEAN
      /\ \A e \in Events : Len(ledger'[e]) <= 1 /\ (e \in P => ledger'[e] = <<>>)
  BY DEF IngestInv, IngestTypeOK, LedgerTypeOK, Account, Places, Settled
<1>2. UNCHANGED W!writerVars
  BY DEF writerVars, W!writerVars
<1> QED
  BY <1>1, <1>2, SameLedger, AdapterAssumption, EventsAssumption, W!BesideInv DEF IInv

-----------------------------------------------------------------------------
(* A step of the ingest side.                                              *)
LEMMA IngestSide ==
  ASSUME IInv, UNCHANGED kafkaSide, NEW P, P = Behind, IngestInv(P)'
  PROVE  IInv' /\ Behind' = P
<1>1. UNCHANGED <<hasWriter, loopUp, writing, mpc>> /\ UNCHANGED writerVars
  BY DEF kafkaSide, loopVars
<1>2. W!IInv' /\ W!Held' = W!Held
  BY <1>1, WriterUntouched DEF Behind
<1>3. Behind' = P
  BY <1>1, <1>2 DEF Behind
<1> QED
  BY <1>1, <1>2, <1>3 DEF IInv

LEMMA ArriveStep ==
  ASSUME IInv, Arrive
  PROVE  IInv' /\ Taken
<1> PICK P : P = Behind
  OBVIOUS
<1> PICK e \in Events : Recv(e) /\ UNCHANGED kafkaSide
  BY DEF Arrive
<1>1. /\ IngestInv(P)' /\ Places(P)' = Places(P) \cup {e}
      /\ e \notin Places(P) /\ ledger[e] = <<>> /\ ledger' = ledger
  BY RecvInv DEF IInv
<1>2. IInv' /\ Behind' = P
  BY <1>1, IngestSide
<1> QED
  BY <1>1, <1>2 DEF Taken, Places

LEMMA IngestStep ==
  ASSUME IInv, ReaderStep \/ ProcessorStep
  PROVE  IInv' /\ (Kept \/ Lost(IngestFates))
<1> PICK P : P = Behind
  OBVIOUS
<1>1. IngestInv(P)' /\ (HandsOver(P) \/ SettlesOne(P, IngestFates))
  BY ReaderInv, ProcessorInv DEF IInv, ReaderStep, ProcessorStep
<1>2. IInv' /\ Behind' = P
  BY <1>1, IngestSide DEF ReaderStep, ProcessorStep
<1> QED
  BY <1>1, <1>2 DEF Kept, Lost, HandsOver, SettlesOne, Leaves, Places

-----------------------------------------------------------------------------
(* The steps of writeToKafka.                                              *)
LEMMA LoopPopStep ==
  ASSUME IInv, LoopPop
  PROVE  IInv' /\ Kept
<1> PICK P : P = Behind
  OBVIOUS
<1> PICK e \in Events : Pop(e) /\ writing' = <<e>>
  BY DEF LoopPop
<1>1. /\ writing = <<>> /\ UNCHANGED ledgerVars
      /\ UNCHANGED <<hasWriter, loopUp, mpc>> /\ UNCHANGED writerVars
  BY DEF LoopPop
<1>2. IngestInv(P \cup {e})' /\ Places(P \cup {e})' = Places(P) /\ e \notin P
  BY <1>1, PopInv DEF IInv
<1>3. W!IInv' /\ W!Held' = W!Held
  BY <1>1, <1>2, WriterUntouched DEF Behind
<1>4. /\ writing' \in Seq(Events) /\ Len(writing') <= 1
      /\ Range(writing) = {} /\ Range(writing') = {e}
  BY <1>1, Single, Nothing
<1>5. Behind' = P \cup {e}
  BY <1>3, <1>4 DEF Behind
<1>6. W!Held' \cap Range(writing') = {}
  BY <1>2, <1>3, <1>4 DEF Behind
<1>7. IInv'
  BY <1>1, <1>2, <1>3, <1>4, <1>5, <1>6 DEF IInv
<1>8. ledger' = ledger
  BY <1>1 DEF ledgerVars
<1> QED
  BY <1>2, <1>5, <1>7, <1>8 DEF Kept, HandsOver, Places

LEMMA LoopInvalidStep ==
  ASSUME IInv, LoopInvalid
  PROVE  IInv' /\ Lost({"invalid"})
<1> PICK P : P = Behind
  OBVIOUS
<1> PICK e \in Events : Pop(e) /\ Dispose(e, "invalid")
  BY DEF LoopInvalid
<1>1. /\ ctxDone' = ctxDone
      /\ UNCHANGED <<hasWriter, loopUp, writing, mpc>> /\ UNCHANGED writerVars
  BY DEF LoopInvalid, loopVars
<1>2. IngestInv(P)' /\ SettlesOne(P, {"invalid"})
  BY <1>1, PopSettledInv DEF IInv, Fates, CountedFates
<1>3. W!IInv' /\ W!Held' = W!Held
  BY <1>1, <1>2, WriterUntouched DEF Behind
<1>4. Behind' = P
  BY <1>1, <1>3 DEF Behind
<1>5. IInv'
  BY <1>1, <1>2, <1>3, <1>4 DEF IInv
<1> QED
  BY <1>2, <1>4, <1>5 DEF Lost, SettlesOne, Leaves, Places

(* The event in hand is settled, without a writer, by a full channel, or   *)
(* by the panic.                                                           *)
LEMMA HandSettled ==
  ASSUME IInv, writing # <<>>, writing' = <<>>, NEW f \in Fates, Dispose(Head(writing), f),
         UNCHANGED <<ctxDone, ingestVars, hasWriter, mpc>>, UNCHANGED writerVars,
         loopUp' \in BOOLEAN
  PROVE  IInv' /\ Lost({f})
<1> PICK P : P = Behind
  OBVIOUS
<1> PICK h : h = Head(writing)
  OBVIOUS
<1>1. h \in Events /\ Range(writing) = {h} /\ Range(writing') = {}
  BY InHand, Nothing DEF IInv
<1>2. h \in P /\ W!Held = P \ {h}
  BY <1>1 DEF Behind, IInv
<1>3. /\ IngestInv(P \ {h})' /\ Places(P \ {h})' = Places(P) \ {h}
      /\ h \in Places(P) /\ ledger[h] = <<>> /\ ledger' = [ledger EXCEPT ![h] = <<f>>]
  BY <1>2, SettledBehindInv DEF IInv
<1>4. W!IInv' /\ W!Held' = W!Held
  BY <1>2, <1>3, WriterUntouched
<1>5. Behind' = P \ {h}
  BY <1>1, <1>2, <1>4 DEF Behind
<1>6. /\ writing' \in Seq(Events) /\ Len(writing') <= 1
      /\ W!Held' \cap Range(writing') = {}
  BY <1>1, Nothing
<1>7. IInv'
  BY <1>3, <1>4, <1>5, <1>6 DEF IInv
<1>8. Leaves(Behind, h, f)
  BY <1>3, <1>5 DEF Leaves, Places
<1> QED
  BY <1>1, <1>7, <1>8 DEF Lost, SettlesOne

LEMMA LoopWritesStep ==
  ASSUME IInv, LoopWrites
  PROVE  IInv' /\ (Kept \/ Lost({"writerFull"}))
<1> PICK h : h = Head(writing)
  OBVIOUS
<1>1. /\ writing # <<>> /\ writing' = <<>>
      /\ UNCHANGED ingestVars /\ UNCHANGED <<hasWriter, loopUp, mpc>>
  BY DEF LoopWrites
<1>2. CASE W!WriteFull(h)
  <2>1. /\ Dispose(h, "writerFull") /\ ctxDone' = ctxDone /\ UNCHANGED writerVars
    BY <1>2 DEF W!WriteFull, W!Dispose, Dispose, W!writerVars, writerVars
  <2>2. "writerFull" \in Fates /\ loopUp' \in BOOLEAN
    BY <1>1 DEF Fates, CountedFates, IInv
  <2> QED
    BY <1>1, <2>1, <2>2, HandSettled
<1>3. CASE W!WriteAccept(h)
  <2> PICK P : P = Behind
    OBVIOUS
  <2>1. h \in Events /\ Range(writing) = {h} /\ Range(writing') = {}
    BY <1>1, InHand, Nothing DEF IInv
  <2>2. h \in P /\ W!Held = P \ {h}
    BY <2>1 DEF Behind, IInv
  <2>3. ~Settled(h)
    BY <2>1, <2>2, Unsettled DEF IInv, Places, Settled
  <2>4. ~W!Handed(h)
    BY <2>2, <2>3, SameLedger DEF W!Handed
  <2>5. W!IInv'
    BY <1>3, <2>1, <2>4, AdapterAssumption, EventsAssumption, W!AcceptInv DEF IInv
  <2>6. W!Held' = W!Held \cup {h} /\ UNCHANGED <<ctxDone, ledger>>
    BY <1>3, <2>1, AdapterAssumption, EventsAssumption, W!Accepted DEF IInv
  <2>7. Behind' = P
    BY <2>1, <2>2, <2>6 DEF Behind
  <2>8. IngestInv(P)' /\ HandsOver(P)
    <3>1. UNCHANGED <<dropIfFull, received, offered, streamCh, pushing, queue,
                      readerUp, processorUp>>
      BY <1>1 DEF ingestVars, readerVars, processorVars
    <3>2. ctxDone' \in BOOLEAN /\ readerUp' \in BOOLEAN /\ processorUp' \in BOOLEAN
      BY <2>6, <3>1 DEF IInv, IngestInv, IngestTypeOK, LedgerTypeOK
    <3> QED
      BY <2>6, <3>1, <3>2, IdleInv DEF IInv
  <2>9. /\ writing' \in Seq(Events) /\ Len(writing') <= 1
        /\ W!Held' \cap Range(writing') = {}
    BY <1>1, <2>1, Nothing
  <2>10. IInv'
    BY <1>1, <2>5, <2>7, <2>8, <2>9 DEF IInv
  <2> QED
    BY <2>7, <2>8, <2>10 DEF Kept, HandsOver, Places
<1> QED
  BY <1>2, <1>3 DEF LoopWrites

LEMMA LoopGivesUpStep ==
  ASSUME IInv, LoopSkips \/ LoopPanics
  PROVE  /\ IInv'
         /\ LoopSkips => Lost({"noWriter"})
         /\ LoopPanics => Lost({"writerPanic"})
<1>1. CASE LoopSkips
  <2>1. "noWriter" \in Fates /\ loopUp' \in BOOLEAN
    BY <1>1 DEF LoopSkips, Fates, CountedFates, IInv
  <2>2. UNCHANGED <<ctxDone, ingestVars, hasWriter, mpc>> /\ UNCHANGED writerVars
    BY <1>1 DEF LoopSkips
  <2>3. IInv' /\ Lost({"noWriter"})
    BY <1>1, <2>1, <2>2, HandSettled DEF LoopSkips
  <2>4. ~LoopPanics
    BY <1>1 DEF LoopSkips, LoopPanics
  <2> QED
    BY <2>3, <2>4
<1>2. CASE LoopPanics
  <2>1. "writerPanic" \in Fates /\ loopUp' \in BOOLEAN
    BY <1>2 DEF LoopPanics, Fates, SilentFates
  <2>2. /\ Dispose(Head(writing), "writerPanic")
        /\ UNCHANGED <<ctxDone, ingestVars, hasWriter, mpc>> /\ UNCHANGED writerVars
    BY <1>2 DEF LoopPanics, W!WritePanic, W!Dispose, Dispose, W!writerVars, writerVars
  <2>3. IInv' /\ Lost({"writerPanic"})
    BY <1>2, <2>1, <2>2, HandSettled DEF LoopPanics
  <2>4. ~LoopSkips
    BY <1>2 DEF LoopSkips, LoopPanics
  <2> QED
    BY <2>3, <2>4
<1> QED
  BY <1>1, <1>2

-----------------------------------------------------------------------------
(* A step of a worker.                                                     *)
LEMMA WorkerStepInv ==
  ASSUME IInv, NEW w \in Workers, WorkerStep(w)
  PROVE  IInv' /\ (Kept \/ Lost(W!WorkerFates(w)))
<1> PICK P : P = Behind
  OBVIOUS
<1>1. /\ W!Worker(w) /\ UNCHANGED ingestVars
      /\ UNCHANGED <<hasWriter, loopUp, writing, mpc>>
  BY DEF WorkerStep, loopVars
<1>2. UNCHANGED <<dropIfFull, received, offered, streamCh, pushing, queue,
                  readerUp, processorUp>>
  BY <1>1 DEF ingestVars, readerVars, processorVars
<1>3. W!IInv'
  BY <1>1, AdapterAssumption, EventsAssumption, W!WorkerInv DEF IInv
<1>4. /\ UNCHANGED <<ctxDone, closed>>
      /\ \/ UNCHANGED <<W!Held, ledger>>
         \/ \E e \in Events, f \in W!WorkerFates(w) :
              /\ e \in W!Held /\ ledger[e] = <<>>
              /\ W!Held' = W!Held \ {e}
              /\ ledger' = [ledger EXCEPT ![e] = <<f>>]
  BY <1>1, AdapterAssumption, EventsAssumption, W!WorkerMoves DEF IInv
<1>5. CASE UNCHANGED <<W!Held, ledger>>
  <2>1. ctxDone' \in BOOLEAN /\ readerUp' \in BOOLEAN /\ processorUp' \in BOOLEAN
    BY <1>2, <1>4 DEF IInv, IngestInv, IngestTypeOK, LedgerTypeOK
  <2>2. IngestInv(P)' /\ HandsOver(P)
    BY <1>2, <1>5, <2>1, IdleInv DEF IInv
  <2>3. Behind' = P /\ W!Held' \cap Range(writing') = {}
    BY <1>1, <1>5 DEF Behind, IInv
  <2>4. IInv'
    BY <1>1, <1>3, <2>2, <2>3 DEF IInv
  <2> QED
    BY <2>2, <2>3, <2>4 DEF Kept, HandsOver, Places
<1>6. ASSUME NEW e \in Events, NEW f \in W!WorkerFates(w), e \in W!Held, ledger[e] = <<>>,
             W!Held' = W!Held \ {e}, ledger' = [ledger EXCEPT ![e] = <<f>>]
      PROVE  IInv' /\ Lost(W!WorkerFates(w))
  <2>1. f \in Fates /\ Dispose(e, f)
    <3>1. Append(<<>>, f) = <<f>>
      OBVIOUS
    <3> QED
      BY <1>6, <3>1 DEF W!WorkerFates, Fates, DeliveredFates, CountedFates, SilentFates, Dispose
  <2>2. /\ IngestInv(P \ {e})' /\ Places(P \ {e})' = Places(P) \ {e}
        /\ e \in Places(P)
    BY <1>1, <1>4, <1>6, <2>1, SettledBehindInv DEF IInv, Behind
  <2>3. Behind' = P \ {e} /\ W!Held' \cap Range(writing') = {}
    BY <1>1, <1>6 DEF Behind, IInv
  <2>4. IInv'
    BY <1>1, <1>3, <2>2, <2>3 DEF IInv
  <2>5. Leaves(Behind, e, f)
    BY <1>6, <2>2, <2>3 DEF Leaves, Places
  <2> QED
    BY <2>4, <2>5 DEF Lost, SettlesOne
<1> QED
  BY <1>4, <1>5, <1>6

-----------------------------------------------------------------------------
(* The steps that touch no event: those of main, and LoopStops.            *)
LEMMA QuietStep ==
  ASSUME IInv, UNCHANGED <<ledger, ingestVars, hasWriter, writing>>, UNCHANGED writerVars,
         ctxDone' \in BOOLEAN, loopUp' \in BOOLEAN, mpc' \in MainStates
  PROVE  IInv' /\ Kept
<1> PICK P : P = Behind
  OBVIOUS
<1>1. UNCHANGED <<dropIfFull, received, offered, streamCh, pushing, queue,
                  readerUp, processorUp>>
  BY DEF ingestVars, readerVars, processorVars
<1>2. readerUp' \in BOOLEAN /\ processorUp' \in BOOLEAN
  BY <1>1 DEF IInv, IngestInv, IngestTypeOK
<1>3. IngestInv(P)' /\ HandsOver(P)
  BY <1>1, <1>2, IdleInv DEF IInv
<1>4. W!IInv' /\ W!Held' = W!Held
  BY <1>3, WriterUntouched DEF Behind
<1>5. Behind' = P
  BY <1>4 DEF Behind
<1>6. IInv'
  BY <1>3, <1>4, <1>5 DEF IInv
<1> QED
  BY <1>3, <1>5, <1>6 DEF Kept, HandsOver, Places

LEMMA ClosesStep ==
  ASSUME IInv, ClosesWriter
  PROVE  IInv' /\ Kept
<1> PICK P : P = Behind
  OBVIOUS
<1>1. /\ W!CloseChannel /\ mpc' = "waitWriter"
      /\ UNCHANGED ingestVars /\ UNCHANGED <<hasWriter, loopUp, writing>>
  BY DEF ClosesWriter, MainGoes, loopVars
<1>2. W!IInv'
  BY <1>1, AdapterAssumption, EventsAssumption, W!EnvironmentInv DEF IInv
<1>3. UNCHANGED <<ctxDone, ledger>> /\ W!Held' = W!Held
  BY <1>1 DEF W!CloseChannel, W!ledgerVars, W!Held
<1>4. UNCHANGED <<dropIfFull, received, offered, streamCh, pushing, queue,
                  readerUp, processorUp>>
  BY <1>1 DEF ingestVars, readerVars, processorVars
<1>5. ctxDone' \in BOOLEAN /\ readerUp' \in BOOLEAN /\ processorUp' \in BOOLEAN
  BY <1>3, <1>4 DEF IInv, IngestInv, IngestTypeOK, LedgerTypeOK
<1>6. IngestInv(P)' /\ HandsOver(P)
  BY <1>3, <1>4, <1>5, IdleInv DEF IInv
<1>7. Behind' = P
  BY <1>1, <1>3 DEF Behind
<1>8. IInv'
  BY <1>1, <1>2, <1>3, <1>6, <1>7 DEF IInv, MainStates
<1> QED
  BY <1>6, <1>7, <1>8 DEF Kept, HandsOver, Places

LEMMA MainStep ==
  ASSUME IInv, Signal \/ Main \/ LoopStops \/ UNCHANGED vars
  PROVE  IInv' /\ Kept
<1>1. CASE ClosesWriter
  BY <1>1, ClosesStep
<1>2. CASE LoopStops
  <2>1. /\ UNCHANGED <<ledger, ingestVars, hasWriter, writing, ctxDone, mpc>>
        /\ UNCHANGED writerVars /\ loopUp' = FALSE
    BY <1>2 DEF LoopStops, ledgerVars
  <2>2. ctxDone' \in BOOLEAN /\ loopUp' \in BOOLEAN /\ mpc' \in MainStates
    BY <2>1 DEF IInv, IngestInv, IngestTypeOK, LedgerTypeOK
  <2> QED
    BY <2>1, <2>2, QuietStep
<1>3. CASE UNCHANGED vars
  <2>1. /\ UNCHANGED <<ledger, ingestVars, hasWriter, loopUp, writing, ctxDone, mpc>>
        /\ UNCHANGED writerVars
    BY <1>3 DEF vars, ledgerVars, loopVars
  <2>2. ctxDone' \in BOOLEAN /\ loopUp' \in BOOLEAN /\ mpc' \in MainStates
    BY <2>1 DEF IInv, IngestInv, IngestTypeOK, LedgerTypeOK
  <2> QED
    BY <2>1, <2>2, QuietStep
<1>4. CASE Signal
  <2>1. /\ UNCHANGED <<ledger, ingestVars, hasWriter, loopUp, writing>>
        /\ UNCHANGED writerVars
        /\ ctxDone' = TRUE /\ mpc' = "draining"
    BY <1>4 DEF Signal, MainGoes, CancelContext, loopVars
  <2>2. ctxDone' \in BOOLEAN /\ loopUp' \in BOOLEAN /\ mpc' \in MainStates
    BY <2>1 DEF IInv, MainStates
  <2> QED
    BY <2>1, <2>2, QuietStep
<1>5. CASE Main /\ ~ClosesWriter
  <2>1. /\ UNCHANGED ledgerVars /\ UNCHANGED writerVars
        /\ UNCHANGED <<ingestVars, hasWriter, loopVars>>
        /\ mpc' \in MainStates
    BY <1>5 DEF Main, DrainSeesEmpty, DrainConfirms, DrainResumes, DrainTimesOut, SkipsWriter,
                WriterDone, WriterTimesOut, Returns, ReturnsByTimeout, MainGoes, MainStates
  <2>2. ctxDone' \in BOOLEAN /\ loopUp' \in BOOLEAN
    BY <2>1 DEF ledgerVars, loopVars, IInv, IngestInv, IngestTypeOK, LedgerTypeOK
  <2>3. UNCHANGED <<ledger, ingestVars, hasWriter, writing>>
    BY <2>1 DEF ledgerVars, loopVars
  <2> QED
    BY <2>1, <2>2, <2>3, QuietStep
<1> QED
  BY <1>1, <1>2, <1>3, <1>4, <1>5

-----------------------------------------------------------------------------
LEMMA InitInv == Init => IInv /\ InAdapter = {} /\ Behind = {}
<1> SUFFICES ASSUME Init PROVE IInv /\ InAdapter = {} /\ Behind = {}
  OBVIOUS
<1>1. /\ messageCh = <<>> /\ writing = <<>> /\ loopUp = TRUE /\ mpc = "running"
      /\ closed = FALSE /\ hasWriter \in BOOLEAN
      /\ batch = [w \in Workers |-> <<>>]
      /\ attempt = [w \in Workers |-> 0]
      /\ leaving = [w \in Workers |-> FALSE]
      /\ wpc = [w \in Workers |-> IF hasWriter THEN "select" ELSE "exited"]
  BY DEF Init
<1>2. IngestInv({}) /\ Places({}) = {} /\ Range(Pipeline) = {}
  BY BeginInv DEF Init
<1>3. Range(messageCh) = {} /\ Range(writing) = {} /\ \A w \in Workers : Range(batch[w]) = {}
  BY <1>1, Nothing
<1>4. W!Held = {}
  BY <1>3 DEF W!Held, W!Range, Range
<1>5. Behind = {} /\ InAdapter = {}
  BY <1>2, <1>3, <1>4 DEF Behind, InAdapter
<1>6. W!WriterTypeOK
  <2>1. messageCh \in Seq(Events) /\ batch \in [Workers -> Seq(Events)]
    BY <1>1, Nothing
  <2>2. wpc \in [Workers -> W!WorkerStates]
    BY <1>1 DEF W!WorkerStates, W!Flushing
  <2>3. attempt \in [Workers -> 0..W!MaxRetries - 1]
    BY <1>1 DEF W!MaxRetries
  <2>4. leaving \in [Workers -> BOOLEAN] /\ closed \in BOOLEAN
    BY <1>1
  <2> QED
    BY <2>1, <2>2, <2>3, <2>4 DEF W!WriterTypeOK
<1>7. W!TypeOK
  BY <1>2, <1>6, SameLedger DEF W!TypeOK, IngestInv, IngestTypeOK
<1>8. W!OnePlace
  <2>1. W!IsInjective(<<>>)
    BY DEF W!IsInjective
  <2> QED
    BY <1>1, <1>3, <2>1 DEF W!OnePlace, W!Range, Range
<1>9. W!HandledOnce
  BY <1>2, <1>4 DEF W!HandledOnce, IngestInv, Account
<1>10. W!BatchesInBounds
  <2>1. \A w \in Workers : batch[w] = <<>> /\ ~leaving[w] /\ wpc[w] \in {"select", "exited"}
    BY <1>1
  <2>2. MaxMessages \in Nat \ {0} /\ Len(<<>>) = 0
    BY AdapterAssumption DEF W!WriterAssumption
  <2> QED
    BY <2>1, <2>2 DEF W!BatchesInBounds, W!Flushing
<1> QED
  BY <1>1, <1>2, <1>3, <1>4, <1>5, <1>7, <1>8, <1>9, <1>10, Nothing DEF IInv, W!IInv, MainStates

(* What a step that is not the panic may do with an event it gives up.     *)
LossFates ==
  IngestFates
    \cup {"produced", "flushCancelled", "deadLettered", "dlqFailed", "dlqCancelled"}
    \cup {"invalid", "noWriter", "writerFull"}

LEMMA StepInv ==
  ASSUME IInv, [Next]_vars
  PROVE  IInv' /\ (Kept \/ Taken \/ Lost(LossFates) \/ (LoopPanics /\ Lost({"writerPanic"})))
<1>1. CASE Arrive
  BY <1>1, ArriveStep
<1>2. CASE ReaderStep \/ ProcessorStep
  BY <1>2, IngestStep DEF Lost, SettlesOne, LossFates
<1>3. CASE Loop
  BY <1>3, LoopPopStep, LoopInvalidStep, LoopWritesStep, LoopGivesUpStep, MainStep
     DEF Loop, Lost, SettlesOne, LossFates
<1>4. ASSUME NEW w \in Workers, WorkerStep(w) PROVE IInv' /\ (Kept \/ Lost(LossFates))
  BY <1>4, WorkerStepInv DEF Lost, SettlesOne, LossFates, W!WorkerFates
<1>5. CASE Signal \/ Main \/ AtRest \/ UNCHANGED vars
  BY <1>5, MainStep DEF AtRest
<1> QED
  BY <1>1, <1>2, <1>3, <1>4, <1>5 DEF Next

LEMMA Invariance == Spec => []IInv
<1>1. Init => IInv
  BY InitInv
<1>2. IInv /\ [Next]_vars => IInv'
  BY StepInv
<1> QED
  BY <1>1, <1>2, PTL DEF Spec

(* All buffers of the adapter keep their types (Adapter's main.go,         *)
(* stream.go, queue.go and writer.go).                                     *)
THEOREM TypeCorrect == Spec => []TypeOK
<1>1. IInv => TypeOK
  BY DEF IInv, IngestInv, W!IInv, W!TypeOK, TypeOK
<1> QED
  BY <1>1, Invariance, PTL

(* What the writer promises of its messages, it keeps in the adapter, where *)
(* its caller, Close and the cancellation are writeToKafka and main: a     *)
(* message is in one place, is disposed of once, and no batch outgrows     *)
(* max_messages (writer.go:57, :130, :157, :227).                          *)
THEOREM WriterKeepsItsPromises == Spec => [](W!OnePlace /\ W!HandledOnce /\ W!BatchesInBounds)
<1>1. IInv => W!OnePlace /\ W!HandledOnce /\ W!BatchesInBounds
  BY DEF IInv, W!IInv
<1> QED
  BY <1>1, Invariance, PTL

-----------------------------------------------------------------------------
(* The refinement.                                                         *)
Where == InAdapter = Places(Behind)

LEMMA WhereEventsAre == IInv => Where
<1> SUFFICES ASSUME IInv PROVE InAdapter = Places(Behind)
  BY DEF Where
<1> PICK P : P = Behind
  OBVIOUS
<1>1. Places(P) = P \cup Range(Pipeline)
  BY WholePipeline DEF IInv
<1> QED
  BY <1>1 DEF InAdapter, Behind

LEMMA StepRefines == IInv /\ Where /\ Where' /\ [Next]_vars => [D!Next]_D!vars
<1> SUFFICES ASSUME IInv, Where, Where', [Next]_vars
             PROVE  D!Next \/ UNCHANGED <<InAdapter, ledger>>
  BY DEF D!vars
<1>2. InAdapter = Places(Behind) /\ InAdapter' = Places(Behind)'
  BY DEF Where
<1>4. CASE Kept
  BY <1>2, <1>4 DEF Kept, HandsOver
<1>5. CASE Taken
  BY <1>2, <1>5 DEF Taken, D!Next, D!Accept, D!Unknown
<1>6. ASSUME NEW h \in Events, NEW f \in Fates, Leaves(Behind, h, f) PROVE D!Next
  BY <1>2, <1>6 DEF Leaves, D!Next, D!Leave
<1>7. LossFates \cup {"writerPanic"} \subseteq Fates
  BY DEF LossFates, IngestFates, Fates, DeliveredFates, CountedFates,
         SilentFates, SampledFates
<1>8. CASE Lost(LossFates) \/ Lost({"writerPanic"})
  BY <1>6, <1>7, <1>8 DEF Lost, SettlesOne
<1> QED
  BY <1>4, <1>5, <1>8, StepInv

(* The adapter is a Delivery: every event Recv has returned (stream.go:71) *)
(* is in exactly one of its buffers, or in hand, until it is disposed of,  *)
(* once, whatever the queue, the workers and the shutdown do.              *)
THEOREM AdapterIsDelivery == Spec => ImplementsDelivery
<1>1. Init => D!Init
  BY InitInv DEF Init, LedgerInit, D!Init
<1>2. IInv /\ Where /\ Where' /\ [Next]_vars => [D!Next]_D!vars
  BY StepRefines
<1>3. IInv => Where
  BY WhereEventsAre
<1> QED
  BY <1>1, <1>2, <1>3, Invariance, PTL DEF Spec, ImplementsDelivery, D!Spec

-----------------------------------------------------------------------------
(* What becomes of the fates of an event.                                  *)
LEMMA FateAfter ==
  ASSUME ledger \in [Events -> Seq(Fates)], NEW h \in Events, NEW f,
         ledger' = [ledger EXCEPT ![h] = <<f>>], NEW e \in Events, NEW g, HasFate(e, g)'
  PROVE  HasFate(e, g) \/ (e = h /\ g = f)
<1> PICK l : l = <<f>>
  OBVIOUS
<1>1. Len(l) = 1 /\ l[1] = f
  OBVIOUS
<1>2. ledger'[h] = l /\ \A x \in Events \ {h} : ledger'[x] = ledger[x]
  OBVIOUS
<1>3. CASE e = h
  <2>1. PICK i \in 1..Len(l) : l[i] = g
    BY <1>2, <1>3 DEF HasFate
  <2>2. i = 1
    BY <1>1
  <2> QED
    BY <1>1, <1>3, <2>1, <2>2
<1>4. CASE e # h
  BY <1>2, <1>4 DEF HasFate
<1> QED
  BY <1>3, <1>4

LEMMA NewFates ==
  ASSUME IInv, NEW F, Kept \/ Taken \/ Lost(F), NEW e \in Events, NEW g, HasFate(e, g)'
  PROVE  \/ HasFate(e, g)
         \/ g \in F /\ \E f \in F : g = f /\ Leaves(Behind, e, f)
<1>1. CASE Kept \/ Taken
  BY <1>1 DEF Kept, HandsOver, Taken, HasFate
<1>2. ASSUME NEW h \in Events, NEW f \in F, Leaves(Behind, h, f), ~HasFate(e, g)
      PROVE  e = h /\ g = f
  <2>1. ledger \in [Events -> Seq(Fates)]
    BY DEF IInv, IngestInv, IngestTypeOK, LedgerTypeOK
  <2> QED
    BY <1>2, <2>1, FateAfter DEF Leaves
<1> QED
  BY <1>1, <1>2 DEF Lost, SettlesOne

-----------------------------------------------------------------------------
(* The panic: the goroutine that writes is up as long as it has an event.  *)
HandInv == writing # <<>> => loopUp

LEMMA LoopControl ==
  ASSUME [Next]_vars, ~LoopPanics
  PROVE  /\ loopUp' => loopUp
         /\ HandInv => HandInv'
<1>1. CASE Loop
  BY <1>1 DEF Loop, LoopPop, LoopInvalid, LoopStops, LoopSkips, LoopWrites, loopVars, HandInv
<1>2. CASE ~Loop
  <2>1. UNCHANGED <<loopUp, writing>>
    BY <1>2 DEF Next, Arrive, ReaderStep, ProcessorStep, WorkerStep, Signal, Main,
       DrainSeesEmpty, DrainConfirms, DrainResumes, DrainTimesOut, ClosesWriter, SkipsWriter,
       WriterDone, WriterTimesOut, Returns, ReturnsByTimeout, MainGoes, AtRest, vars,
       kafkaSide, loopVars
  <2> QED
    BY <2>1 DEF HandInv
<1> QED
  BY <1>1, <1>2

LEMMA PanicStep ==
  ASSUME IInv, HandInv, OnePanicAtMost, [Next]_vars
  PROVE  HandInv' /\ OnePanicAtMost'
<1>1. CASE LoopPanics
  <2>1. writing' = <<>> /\ loopUp' = FALSE /\ loopUp
    BY <1>1 DEF LoopPanics, HandInv
  <2>2. \A e \in Events : ~HasFate(e, "writerPanic")
    BY <2>1 DEF OnePanicAtMost
  <2>3. PICK h \in Events : Leaves(Behind, h, "writerPanic")
    BY <1>1, LoopGivesUpStep DEF Lost, SettlesOne
  <2>4. ledger \in [Events -> Seq(Fates)] /\ ledger' = [ledger EXCEPT ![h] = <<"writerPanic">>]
    BY <2>3 DEF Leaves, IInv, IngestInv, IngestTypeOK, LedgerTypeOK
  <2>5. \A e \in Events : HasFate(e, "writerPanic")' => e = h
    BY <2>2, <2>4, FateAfter
  <2> QED
    BY <2>1, <2>5 DEF HandInv, OnePanicAtMost
<1>2. CASE ~LoopPanics
  <2>1. Kept \/ Taken \/ Lost(LossFates)
    BY <1>2, StepInv
  <2>2. "writerPanic" \notin LossFates
    BY DEF LossFates, IngestFates
  <2>3. \A e \in Events : HasFate(e, "writerPanic")' => HasFate(e, "writerPanic")
    BY <2>1, <2>2, NewFates
  <2>4. (loopUp' => loopUp) /\ HandInv'
    BY <1>2, LoopControl
  <2> QED
    BY <2>3, <2>4 DEF OnePanicAtMost
<1> QED
  BY <1>1, <1>2

(* The ledger holds nothing at the start.                                  *)
LEMMA NoFateAtStart ==
  ASSUME Init, NEW e \in Events, NEW f
  PROVE  ~HasFate(e, f)
<1> PICK l : l = <<>>
  OBVIOUS
<1>1. ledger[e] = l /\ Len(l) = 0
  BY DEF Init, LedgerInit
<1> QED
  BY <1>1 DEF HasFate

(* The panic of a Write after Close (writer.go:57, main.go:411) costs one  *)
(* event at most: the deferred recover ends the goroutine.                 *)
THEOREM OnePanicOnly == Spec => []OnePanicAtMost
<1>1. Init => HandInv /\ OnePanicAtMost
  BY NoFateAtStart DEF Init, HandInv, OnePanicAtMost
<1>2. IInv /\ HandInv /\ OnePanicAtMost /\ [Next]_vars => HandInv' /\ OnePanicAtMost'
  BY PanicStep
<1> QED
  BY <1>1, <1>2, Invariance, PTL DEF Spec

-----------------------------------------------------------------------------
(* Before the signal nothing has happened that could make a loss silent.   *)
Calm ==
  /\ ~ctxDone /\ ~closed
  /\ W!NoDeadLetters
  /\ \A e \in Events : ~Silent(e)

CalmInv == ~InputMayStall /\ mpc = "running" => Calm

LEMMA CalmStep ==
  ASSUME IInv, CalmInv, [Next]_vars
  PROVE  CalmInv'
<1> SUFFICES ASSUME ~InputMayStall, mpc' = "running" PROVE Calm'
  BY DEF CalmInv
<1>1. mpc = "running" /\ ~Signal /\ ~Main
  <2>1. ~Signal /\ ~Main
    BY DEF Signal, Main, DrainSeesEmpty, DrainConfirms, DrainResumes, DrainTimesOut,
       ClosesWriter, SkipsWriter, WriterDone, WriterTimesOut, Returns, ReturnsByTimeout, MainGoes
  <2>2. mpc' = mpc
    BY <2>1 DEF Next, Arrive, ReaderStep, ProcessorStep, WorkerStep, AtRest, vars, kafkaSide,
       Loop, LoopPop, LoopInvalid, LoopStops, LoopSkips, LoopWrites, LoopPanics
  <2> QED
    BY <2>1, <2>2
<1>2. Calm
  BY <1>1 DEF CalmInv
<1>3. ~LoopPanics /\ ~LoopStops
  BY <1>2 DEF Calm, LoopPanics, LoopStops, W!WritePanic
<1>4. ASSUME NEW F, Kept \/ Taken \/ Lost(F), F \cap SilentFates = {}
      PROVE  \A e \in Events : ~Silent(e)'
  <2> SUFFICES ASSUME NEW e \in Events, NEW f \in SilentFates, HasFate(e, f)' PROVE FALSE
    BY DEF Silent
  <2>1. HasFate(e, f) \/ f \in F
    BY <1>4, NewFates
  <2> QED
    BY <1>2, <1>4, <2>1 DEF Calm, Silent
<1>5. ASSUME UNCHANGED <<ctxDone, closed, wpc>>, \A e \in Events : ~Silent(e)' PROVE Calm'
  BY <1>2, <1>5 DEF Calm, W!NoDeadLetters
<1>6. CASE Arrive \/ UNCHANGED vars \/ AtRest
  <2>1. Kept \/ Taken \/ Lost({})
    BY <1>6, ArriveStep, MainStep DEF AtRest
  <2>2. UNCHANGED <<ctxDone, closed, wpc>>
    BY <1>6 DEF Arrive, Recv, AtRest, vars, ledgerVars, kafkaSide, writerVars
  <2> QED
    BY <1>4, <1>5, <2>1, <2>2
<1>7. CASE ReaderStep \/ ProcessorStep
  <2>1. Kept \/ Taken \/ Lost(IngestFates)
    BY <1>7, IngestStep
  <2>2. IngestFates \cap SilentFates = {}
    BY <1>2 DEF Calm, IngestFates, SilentFates
  <2>3. UNCHANGED <<closed, wpc>>
    BY <1>7 DEF ReaderStep, ProcessorStep, kafkaSide, writerVars
  <2>4. ctxDone' = ctxDone
    BY <1>7 DEF ReaderStep, ProcessorStep, Reader, Processor, OfferAccepted, OfferDropped,
       OfferCancelled, ReaderStops, TakeSampled, TakeSkipped, ProcessorStops, PushAccepted,
       PushDropped, PushCancelled, ledgerVars
  <2> QED
    BY <1>4, <1>5, <2>1, <2>2, <2>3, <2>4
<1>8. CASE Loop
  <2>1. LoopPop \/ LoopInvalid \/ LoopSkips \/ LoopWrites
    BY <1>3, <1>8 DEF Loop
  <2>2. Kept \/ Taken \/ Lost({"invalid", "noWriter", "writerFull"})
    BY <2>1, LoopPopStep, LoopInvalidStep, LoopWritesStep, LoopGivesUpStep
       DEF Lost, SettlesOne
  <2>3. {"invalid", "noWriter", "writerFull"} \cap SilentFates = {}
    BY DEF SilentFates
  <2>4. UNCHANGED <<ctxDone, closed, wpc>>
    BY <2>1 DEF LoopPop, LoopInvalid, LoopSkips, LoopWrites, ledgerVars, writerVars,
       W!WriteAccept, W!WriteFull, W!ledgerVars, W!writerVars
  <2> QED
    BY <1>4, <1>5, <2>2, <2>3, <2>4
<1>9. ASSUME NEW w \in Workers, WorkerStep(w) PROVE Calm'
  <2>1. ~W!FlushCtxDone
    BY <1>2 DEF Calm, W!FlushCtxDone
  <2>2. W!Worker(w) /\ W!IInv
    BY <1>9 DEF WorkerStep, IInv
  <2>3. W!NoDeadLetters'
    BY <1>2, <2>1, <2>2, AdapterAssumption, EventsAssumption, W!NoDeadLettersKept DEF Calm
  <2>4. UNCHANGED <<ctxDone, closed>>
    BY <2>2, AdapterAssumption, EventsAssumption, W!WorkerMoves
  <2>5. Kept \/ Taken \/ Lost({"produced"})
    <3>1. CASE wpc[w] = "flush"
      <4>1. W!WorkerFates(w) = {"produced"}
        BY <2>1, <3>1 DEF W!WorkerFates
      <4> QED
        BY <1>9, <4>1, WorkerStepInv
    <3>2. CASE wpc[w] # "flush"
      <4>1. W!Receive(w) \/ W!Tick(w) \/ W!StopIdle(w) \/ W!StopAfterFlush(w)
        BY <1>2, <2>2, <3>2 DEF Calm, W!NoDeadLetters, W!Worker, W!FlushSend,
           W!FlushCancelled, W!DLQSend, W!DLQError, W!DLQGiveUp, W!DLQRetry, W!DLQCancelled
      <4>2. ledger' = ledger
        BY <4>1 DEF W!Receive, W!Tick, W!StopIdle, W!StopAfterFlush, W!ledgerVars
      <4>3. ~Lost(W!WorkerFates(w))
        <5> SUFFICES ASSUME NEW h \in Events, NEW f, Leaves(Behind, h, f) PROVE FALSE
          BY DEF Lost, SettlesOne
        <5>1. ledger' = [ledger EXCEPT ![h] = <<f>>] /\ ledger[h] = <<>>
          BY DEF Leaves
        <5>2. ledger'[h] = <<f>>
          BY <5>1 DEF IInv, IngestInv, IngestTypeOK, LedgerTypeOK
        <5> QED
          BY <4>2, <5>1, <5>2
      <4> QED
        BY <1>9, <4>3, WorkerStepInv
    <3> QED
      BY <3>1, <3>2
  <2>6. {"produced"} \cap SilentFates = {}
    BY DEF SilentFates
  <2>7. \A e \in Events : ~Silent(e)'
    BY <1>4, <2>5, <2>6
  <2> QED
    BY <1>2, <2>3, <2>4, <2>7 DEF Calm
<1> QED
  BY <1>1, <1>6, <1>7, <1>8, <1>9 DEF Next

(* Until the signal, and with a producer that keeps taking messages, no    *)
(* event goes without a metric (stream.go:84-97, queue.go:58-92,           *)
(* main.go:545-600, writer.go:157-215).                                    *)
THEOREM NoSilentLoss == Spec => []SilentLossOnlyAtShutdown
<1>1. Init => CalmInv
  <2> SUFFICES ASSUME Init PROVE Calm
    BY DEF CalmInv
  <2>1. \A e \in Events : ~Silent(e)
    BY NoFateAtStart DEF Silent
  <2> QED
    BY <2>1 DEF Calm, Init, LedgerInit, W!NoDeadLetters
<1>2. IInv /\ CalmInv /\ [Next]_vars => CalmInv'
  BY CalmStep
<1>3. CalmInv => SilentLossOnlyAtShutdown
  BY DEF CalmInv, Calm, SilentLossOnlyAtShutdown
<1> QED
  BY <1>1, <1>2, <1>3, Invariance, PTL DEF Spec

-----------------------------------------------------------------------------
(* The adapter is one line but for the batches: the channel is in order and *)
(* older than what writeToKafka has in hand, and each batch is in order and *)
(* older than the channel, though not than another batch.                   *)
InLine ==
  /\ Increasing(messageCh)
  /\ \A w \in Workers :
       Increasing(batch[w]) /\ Below(Range(batch[w]), Range(messageCh))
  /\ Below(W!Held, Range(writing))

LEMMA WriterHolds ==
  ASSUME W!IInv
  PROVE  /\ messageCh \in Seq(Events) /\ batch \in [Workers -> Seq(Events)]
         /\ \A e : e \in W!Held <=> \/ e \in Range(messageCh)
                                    \/ \E w \in Workers : e \in Range(batch[w])
BY DEF W!IInv, W!TypeOK, W!WriterTypeOK, W!Held, W!Range, Range

LEMMA InLineUntouched ==
  ASSUME InLine, UNCHANGED <<messageCh, batch>>, writing' = writing \/ writing' = <<>>
  PROVE  InLine'
<1>1. W!Held' = W!Held
  BY DEF W!Held
<1>2. Range(<<>>) = {}
  BY Nothing
<1> QED
  BY <1>1, <1>2 DEF InLine, Below

LEMMA InLinePop ==
  ASSUME IInv, InLine, LoopPop
  PROVE  InLine'
<1> PICK P : P = Behind
  OBVIOUS
<1> PICK e \in Events : Pop(e) /\ writing' = <<e>>
  BY DEF LoopPop
<1>1. Below(P, {e})
  BY Popped DEF IInv
<1>2. UNCHANGED <<messageCh, batch>>
  BY DEF LoopPop, writerVars
<1>3. W!Held' = W!Held /\ W!Held \subseteq P
  BY <1>2 DEF W!Held, Behind
<1>4. Range(writing') = {e}
  BY Single
<1> QED
  BY <1>1, <1>2, <1>3, <1>4 DEF InLine, Below

LEMMA InLineWrite ==
  ASSUME IInv, InLine, LoopWrites
  PROVE  InLine'
<1> PICK h : h = Head(writing)
  OBVIOUS
<1>1. writing # <<>> /\ writing' = <<>>
  BY DEF LoopWrites
<1>2. CASE W!WriteFull(h)
  BY <1>1, <1>2, InLineUntouched DEF W!WriteFull, W!writerVars
<1>3. CASE W!WriteAccept(h)
  <2>1. h \in Events /\ Range(writing) = {h} /\ Range(writing') = {}
    BY <1>1, InHand, Nothing DEF IInv
  <2>2. messageCh' = Append(messageCh, h) /\ batch' = batch
    BY <1>3 DEF W!WriteAccept
  <2>3. Below(W!Held, {h}) /\ messageCh \in Seq(Events)
    BY <2>1, WriterHolds DEF InLine, IInv
  <2>4. Increasing(messageCh) /\ Below(Range(messageCh), {h})
    BY <2>3, WriterHolds DEF InLine, Below, IInv
  <2>5. Increasing(messageCh') /\ Range(messageCh') = Range(messageCh) \cup {h}
    BY <2>1, <2>2, <2>3, <2>4, AppendOrdered, AppendToQueue
  <2>6. ASSUME NEW w \in Workers
        PROVE  Increasing(batch'[w]) /\ Below(Range(batch'[w]), Range(messageCh'))
    <3>1. Below(Range(batch[w]), {h})
      BY <2>3, WriterHolds DEF Below, IInv
    <3>2. Increasing(batch[w]) /\ Below(Range(batch[w]), Range(messageCh))
      BY DEF InLine
    <3> QED
      BY <2>2, <2>5, <3>1, <3>2 DEF Below
  <2>7. Below(W!Held', Range(writing'))
    BY <2>1 DEF Below
  <2> QED
    BY <2>5, <2>6, <2>7 DEF InLine
<1> QED
  BY <1>2, <1>3 DEF LoopWrites

(* What a worker's step does to its batch, and when it produces.           *)
LEMMA WorkerDoes ==
  ASSUME NEW w \in Workers, W!Worker(w)
  PROVE  \/ W!Receive(w)
         \/ UNCHANGED <<ledger, messageCh, batch>>
         \/ /\ wpc[w] \in W!Flushing
            /\ messageCh' = messageCh
            /\ batch' = [batch EXCEPT ![w] = Tail(@)]
            /\ \E f \in Fates : Dispose(Head(batch[w]), f)
<1>1. CASE W!Tick(w) \/ W!StopIdle(w) \/ W!StopAfterFlush(w) \/ W!DLQError(w) \/ W!DLQRetry(w)
  BY <1>1 DEF W!Tick, W!StopIdle, W!StopAfterFlush, W!DLQError, W!DLQRetry, W!ledgerVars
<1>2. CASE \/ W!FlushSend(w) \/ W!FlushCancelled(w)
           \/ W!DLQSend(w) \/ W!DLQGiveUp(w) \/ W!DLQCancelled(w)
  <2>1. /\ wpc[w] \in W!Flushing
        /\ \E f \in W!WorkerFates(w), pc \in W!Flushing \ {"dlqWait"} : W!Finish(w, f, pc)
    BY <1>2, AdapterAssumption, EventsAssumption, W!FinishSteps
  <2>2. W!WorkerFates(w) \subseteq Fates
    BY DEF W!WorkerFates, Fates, DeliveredFates, CountedFates, SilentFates
  <2> QED
    BY <2>1, <2>2 DEF W!Finish, W!Dispose, Dispose
<1> QED
  BY <1>1, <1>2 DEF W!Worker

LEMMA InLineWorker ==
  ASSUME IInv, InLine, NEW w \in Workers, WorkerStep(w)
  PROVE  InLine'
<1>1. W!Worker(w) /\ writing' = writing
  BY DEF WorkerStep, loopVars
<1>2. ASSUME Range(messageCh') \subseteq Range(messageCh), NEW v \in Workers, v # w,
             batch'[v] = batch[v]
      PROVE  Increasing(batch'[v]) /\ Below(Range(batch'[v]), Range(messageCh'))
  BY <1>2 DEF InLine, Below
<1>3. messageCh \in Seq(Events) /\ batch \in [Workers -> Seq(Events)] /\ batch[w] \in Seq(Events)
  BY WriterHolds DEF IInv
<1>4. /\ Increasing(messageCh) /\ Increasing(batch[w])
      /\ Below(Range(batch[w]), Range(messageCh)) /\ Below(W!Held, Range(writing))
  BY DEF InLine
<1>5. W!Held' \subseteq W!Held
  BY <1>1, AdapterAssumption, EventsAssumption, W!WorkerMoves DEF IInv
<1>6. Below(W!Held', Range(writing'))
  BY <1>1, <1>4, <1>5 DEF Below
<1>7. CASE W!Receive(w)
  <2> PICK h : h = Head(messageCh)
    OBVIOUS
  <2>1. /\ messageCh # <<>> /\ messageCh' = Tail(messageCh)
        /\ batch'[w] = Append(batch[w], h)
        /\ \A v \in Workers : v # w => batch'[v] = batch[v]
    BY <1>3, <1>7 DEF W!Receive
  <2>2. /\ h \in Events /\ Range(messageCh) = Range(messageCh') \cup {h}
        /\ Increasing(messageCh') /\ Below({h}, Range(messageCh'))
    BY <1>3, <1>4, <2>1, TakeFromQueue, TailOrdered
  <2>3. Below(Range(batch[w]), {h})
    BY <1>4, <2>2 DEF Below
  <2>4. Increasing(batch'[w]) /\ Range(batch'[w]) = Range(batch[w]) \cup {h}
    <3> PICK b \in Seq(Events) : b = batch[w]
      BY <1>3
    <3>1. Increasing(Append(b, h)) /\ Range(Append(b, h)) = Range(b) \cup {h}
      BY <1>4, <2>2, <2>3, AppendOrdered, AppendToQueue
    <3> QED
      BY <2>1, <3>1
  <2>5. Below(Range(batch'[w]), Range(messageCh'))
    BY <1>4, <2>2, <2>4 DEF Below
  <2> QED
    BY <1>2, <1>6, <2>1, <2>2, <2>4, <2>5 DEF InLine
<1>8. CASE UNCHANGED <<ledger, messageCh, batch>>
  BY <1>1, <1>8, InLineUntouched
<1>9. CASE /\ wpc[w] \in W!Flushing /\ messageCh' = messageCh
           /\ batch' = [batch EXCEPT ![w] = Tail(@)]
  <2>1. /\ batch'[w] = Tail(batch[w]) /\ batch[w] # <<>>
        /\ \A v \in Workers : v # w => batch'[v] = batch[v]
    <3>1. Len(batch[w]) \in 1..MaxMessages
      BY <1>9 DEF IInv, W!IInv, W!BatchesInBounds
    <3>2. MaxMessages \in Nat \ {0}
      BY AdapterAssumption DEF W!WriterAssumption
    <3> QED
      BY <1>3, <1>9, <3>1, <3>2
  <2>2. Increasing(batch'[w]) /\ Range(batch'[w]) \subseteq Range(batch[w])
    <3> PICK b \in Seq(Events) : b = batch[w]
      BY <1>3
    <3>1. Increasing(Tail(b)) /\ Range(b) = Range(Tail(b)) \cup {Head(b)}
      BY <1>4, <2>1, TailOrdered, TakeFromQueue
    <3> QED
      BY <2>1, <3>1
  <2>3. Below(Range(batch'[w]), Range(messageCh'))
    BY <1>4, <1>9, <2>2 DEF Below
  <2> QED
    BY <1>2, <1>4, <1>6, <1>9, <2>1, <2>2, <2>3 DEF InLine
<1> QED
  BY <1>1, <1>7, <1>8, <1>9, WorkerDoes

LEMMA InLineStep ==
  ASSUME IInv, InLine, [Next]_vars
  PROVE  InLine'
<1>1. CASE Loop
  <2>1. CASE LoopInvalid \/ LoopStops \/ LoopSkips \/ LoopPanics
    BY <2>1, InLineUntouched DEF LoopInvalid, LoopStops, LoopSkips, LoopPanics, loopVars,
       writerVars, W!WritePanic, W!writerVars
  <2> QED
    BY <1>1, <2>1, InLinePop, InLineWrite DEF Loop
<1>2. CASE \E w \in Workers : WorkerStep(w)
  BY <1>2, InLineWorker
<1>3. CASE Arrive \/ ReaderStep \/ ProcessorStep
  BY <1>3, InLineUntouched DEF Arrive, ReaderStep, ProcessorStep, kafkaSide, writerVars, loopVars
<1>4. CASE Signal \/ Main \/ AtRest \/ UNCHANGED vars
  <2>1. UNCHANGED <<messageCh, batch, writing>>
    BY <1>4 DEF Signal, Main, DrainSeesEmpty, DrainConfirms, DrainResumes, DrainTimesOut,
       ClosesWriter, SkipsWriter, WriterDone, WriterTimesOut, Returns, ReturnsByTimeout,
       MainGoes, AtRest, vars, loopVars, writerVars, W!CloseChannel
  <2> QED
    BY <2>1, InLineUntouched
<1> QED
  BY <1>1, <1>2, <1>3, <1>4 DEF Next

(* Only a worker produces, and the earlier events there are at that moment *)
(* are in the batches of the others.                                       *)
LEMMA OldestFirst ==
  ASSUME IInv, InLine, [Next]_vars,
         NEW e \in Events, HasFate(e, "produced")', ~HasFate(e, "produced")
  PROVE  /\ Places(Behind)' \subseteq Places(Behind)
         /\ \E w \in Workers : \A d \in Places(Behind) :
              d < e => \E v \in Workers \ {w} : d \in Range(batch[v])
<1>1. ASSUME NEW F, "produced" \notin F PROVE ~(Kept \/ Taken \/ Lost(F))
  BY <1>1, NewFates
<1>2. PICK w \in Workers : WorkerStep(w)
  <2>1. "produced" \notin IngestFates
    BY DEF IngestFates
  <2>2. ~(Kept \/ Taken) /\ ~Lost(IngestFates) /\ ~Lost({"writerPanic"})
        /\ ~Lost({"invalid", "noWriter", "writerFull"})
    BY <1>1, <2>1
  <2>3. ~Arrive /\ ~ReaderStep /\ ~ProcessorStep /\ ~Signal /\ ~Main /\ ~(UNCHANGED vars)
    BY <2>2, ArriveStep, IngestStep, MainStep
  <2>4. ~Loop
    BY <2>2, LoopPopStep, LoopInvalidStep, LoopWritesStep, LoopGivesUpStep, MainStep
       DEF Loop, Lost, SettlesOne
  <2> QED
    BY <2>3, <2>4 DEF Next, AtRest
<1>3. Lost(W!WorkerFates(w)) /\ ledger' # ledger
  <2>1. ledger' # ledger
    BY DEF HasFate
  <2> QED
    BY <1>2, <2>1, WorkerStepInv DEF Kept, HandsOver
<1>4. Leaves(Behind, e, "produced")
  BY <1>3, NewFates
<1>5. Places(Behind)' \subseteq Places(Behind)
  BY <1>4 DEF Leaves
<1>6. /\ W!Worker(w) /\ ~W!Receive(w) /\ wpc[w] \in W!Flushing
      /\ \E f \in Fates : Dispose(Head(batch[w]), f)
  <2>1. W!Worker(w)
    BY <1>2 DEF WorkerStep
  <2>2. ~W!Receive(w)
    BY <1>3 DEF W!Receive, W!ledgerVars
  <2> QED
    BY <1>3, <2>1, <2>2, WorkerDoes
<1>7. /\ messageCh \in Seq(Events) /\ batch[w] \in Seq(Events) /\ batch[w] # <<>>
      /\ \A x : x \in W!Held <=> \/ x \in Range(messageCh)
                               \/ \E v \in Workers : x \in Range(batch[v])
  <2>1. Len(batch[w]) \in 1..MaxMessages
    BY <1>6 DEF IInv, W!IInv, W!BatchesInBounds
  <2>2. MaxMessages \in Nat \ {0}
    BY AdapterAssumption DEF W!WriterAssumption
  <2> QED
    BY <2>1, <2>2, WriterHolds DEF IInv
<1> PICK h : h = Head(batch[w])
  OBVIOUS
<1>8. h = e
  <2>1. ledger'[e] = <<"produced">> /\ ledger[e] = <<>>
    BY <1>4 DEF Leaves, IInv, IngestInv, IngestTypeOK, LedgerTypeOK
  <2>2. ledger'[e] # ledger[e]
    BY <2>1
  <2> QED
    BY <1>6, <2>2 DEF Dispose, IInv, IngestInv, IngestTypeOK, LedgerTypeOK
<1>9. /\ Range(batch[w]) = Range(Tail(batch[w])) \cup {e}
      /\ Below({e}, Range(Tail(batch[w])))
  BY <1>7, <1>8, TakeFromQueue, TailOrdered DEF InLine
<1>10. /\ Below(Range(batch[w]), Range(messageCh)) /\ Below(W!Held, Range(writing))
  BY DEF InLine
<1> DEFINE elsewhere(d) == \E v \in Workers \ {w} : d \in Range(batch[v])
<1>11. ASSUME NEW d \in Behind PROVE d = e \/ e < d \/ elsewhere(d)
  <2>1. CASE d \in Range(batch[w])
    BY <1>9, <2>1 DEF Below
  <2>2. CASE d \in Range(messageCh) \/ d \in Range(writing)
    BY <1>7, <1>9, <1>10, <2>2 DEF Below
  <2>3. CASE \E v \in Workers \ {w} : d \in Range(batch[v])
    BY <2>3
  <2> QED
    BY <1>7, <1>11, <2>1, <2>2, <2>3 DEF Behind
<1>12. ASSUME NEW d \in Places(Behind) PROVE d = e \/ e < d \/ elsewhere(d)
  <2>1. e \in Behind
    BY <1>7, <1>9 DEF Behind
  <2> QED
    BY <1>11, <1>12, <2>1 DEF Places, IInv, IngestInv, Order, Chain, Below
<1>13. Places(Behind) \subseteq Nat /\ e \in Nat
  BY Facts, EventsAssumption DEF Places, IInv, IngestInv
<1>14. \A d \in Places(Behind) : d < e => elsewhere(d)
  BY <1>12, <1>13
<1> QED
  BY <1>5, <1>14

-----------------------------------------------------------------------------
(* Counting.                                                               *)
(* S has at most n elements.                                               *)
AtMost(S, n) == IsFiniteSet(S) /\ Cardinality(S) <= n

LEMMA UnionAtMost ==
  ASSUME NEW S, NEW m \in Nat, AtMost(S, m), NEW T, NEW n \in Nat, AtMost(T, n)
  PROVE  AtMost(S \cup T, m + n)
<1>1. /\ IsFiniteSet(S \cup T)
      /\ Cardinality(S \cup T) = Cardinality(S) + Cardinality(T) - Cardinality(S \cap T)
  BY FS_Union DEF AtMost
<1>2. IsFiniteSet(S \cap T)
  BY FS_Subset DEF AtMost
<1>3. Cardinality(S) \in Nat /\ Cardinality(T) \in Nat /\ Cardinality(S \cap T) \in Nat
  BY <1>2, FS_CardinalityType DEF AtMost
<1> QED
  BY <1>1, <1>3 DEF AtMost

LEMMA UpTo == \A n \in Nat : IsFiniteSet(1..n) /\ Cardinality(1..n) = n
BY FS_Interval

(* A queue holds no more events than it is long.                           *)
LEMMA SequenceAtMost ==
  ASSUME NEW S, NEW s \in Seq(S), NEW n \in Nat, Len(s) <= n
  PROVE  AtMost(Range(s), n)
<1>1. Len(s) \in Nat /\ s \in [1..Len(s) -> Range(s)]
  BY DEF Range
<1>2. \A e \in Range(s) : \E i \in 1..Len(s) : s[i] = e
  BY DEF Range
<1>3. s \in Surjection(1..Len(s), Range(s))
  BY <1>1, <1>2 DEF Surjection
<1>4. IsFiniteSet(1..Len(s)) /\ Cardinality(1..Len(s)) = Len(s)
  BY <1>1, UpTo
<1>5. IsFiniteSet(Range(s)) /\ Cardinality(Range(s)) <= Cardinality(1..Len(s))
  BY <1>3, <1>4, FS_Surjection
<1>6. Cardinality(Range(s)) \in Nat /\ Cardinality(1..Len(s)) \in Nat
  BY <1>4, <1>5, FS_CardinalityType
<1> QED
  BY <1>1, <1>4, <1>5, <1>6 DEF AtMost

(* A batch of n at most for each of some workers: an event there has a     *)
(* place in V \X 1..n.                                                     *)
LEMMA BatchesAtMost ==
  ASSUME NEW V, IsFiniteSet(V), NEW S, NEW b, \A w \in V : b[w] \in Seq(S),
         NEW n \in Nat, \A w \in V : Len(b[w]) <= n
  PROVE  AtMost(UNION {Range(b[w]) : w \in V}, Cardinality(V) * n)
<1> DEFINE all == UNION {Range(b[w]) : w \in V}
           places == {p \in V \X (1..n) : p[2] <= Len(b[p[1]])}
           at == [p \in places |-> b[p[1]][p[2]]]
<1>1. /\ IsFiniteSet(V \X (1..n))
      /\ Cardinality(V \X (1..n)) = Cardinality(V) * n
  <2>1. IsFiniteSet(1..n) /\ Cardinality(1..n) = n
    BY UpTo
  <2> QED
    BY <2>1, FS_Product
<1>2. IsFiniteSet(places) /\ Cardinality(places) <= Cardinality(V) * n
  BY <1>1, FS_Subset
<1>3. at \in Surjection(places, all)
  <2>1. ASSUME NEW p \in places PROVE at[p] \in all
    <3>1. p[1] \in V /\ p[2] \in 1..Len(b[p[1]])
      OBVIOUS
    <3>2. b[p[1]][p[2]] \in Range(b[p[1]])
      BY <3>1 DEF Range
    <3> QED
      BY <3>1, <3>2
  <2>2. ASSUME NEW e \in all PROVE \E p \in places : at[p] = e
    <3>1. PICK w \in V : e \in Range(b[w])
      OBVIOUS
    <3>2. PICK i \in 1..Len(b[w]) : b[w][i] = e
      BY <3>1 DEF Range
    <3>3. b[w] \in Seq(S) /\ Len(b[w]) \in Nat /\ Len(b[w]) <= n
      OBVIOUS
    <3>4. <<w, i>> \in places
      BY <3>3
    <3>5. at[<<w, i>>] = e
      BY <3>2, <3>4
    <3> QED
      BY <3>4, <3>5
  <2> QED
    BY <2>1, <2>2 DEF Surjection
<1>4. IsFiniteSet(all) /\ Cardinality(all) <= Cardinality(places)
  BY <1>2, <1>3, FS_Surjection
<1>5. Cardinality(all) \in Nat /\ Cardinality(places) \in Nat /\ Cardinality(V) * n \in Nat
  BY <1>1, <1>2, <1>4, FS_CardinalityType
<1> QED
  BY <1>2, <1>4, <1>5 DEF AtMost

LEMMA SubsetAtMost ==
  ASSUME NEW T, NEW n \in Int, AtMost(T, n), NEW S \in SUBSET T
  PROVE  AtMost(S, n)
<1>1. IsFiniteSet(S) /\ Cardinality(S) <= Cardinality(T)
  BY FS_Subset DEF AtMost
<1>2. Cardinality(S) \in Nat /\ Cardinality(T) \in Nat
  BY <1>1, FS_CardinalityType DEF AtMost
<1> QED
  BY <1>1, <1>2 DEF AtMost

LEMMA NoneAtMost ==
  ASSUME NEW S, AtMost(S, 0)
  PROVE  S = {}
<1>1. Cardinality(S) = 0
  BY FS_CardinalityType DEF AtMost
<1> QED
  BY <1>1, FS_EmptySet DEF AtMost

LEMMA CapacityIsNatural ==
  /\ IsFiniteSet(Workers) /\ Cardinality(Workers) \in Nat /\ MaxMessages \in Nat
  /\ W!Capacity = MaxMessages * Cardinality(Workers)
  /\ W!Capacity \in Nat
<1>1. IsFiniteSet(Workers) /\ MaxMessages \in Nat
  BY AdapterAssumption DEF W!WriterAssumption, W!IsFiniteSet, IsFiniteSet
<1>2. Cardinality(Workers) \in Nat
  BY <1>1, FS_CardinalityType
<1>3. W!Capacity = MaxMessages * Cardinality(Workers)
  BY DEF W!Capacity, W!Cardinality, Cardinality, W!IsFiniteSet, IsFiniteSet
<1> QED
  BY <1>1, <1>2, <1>3

LEMMA BatchAtMost ==
  ASSUME IInv, NEW w \in Workers
  PROVE  batch[w] \in Seq(Events) /\ Len(batch[w]) <= MaxMessages
<1>1. MaxMessages \in Nat /\ batch[w] \in Seq(Events)
  BY CapacityIsNatural, WriterHolds DEF IInv
<1>2. wpc[w] \in W!Flushing \cup {"select", "exited"}
  BY DEF IInv, W!IInv, W!TypeOK, W!WriterTypeOK, W!WorkerStates
<1>3. CASE wpc[w] \in W!Flushing
  BY <1>1, <1>3 DEF IInv, W!IInv, W!BatchesInBounds
<1>4. CASE wpc[w] = "select"
  <2>1. Len(batch[w]) < MaxMessages /\ Len(batch[w]) \in Nat
    BY <1>1, <1>4 DEF IInv, W!IInv, W!BatchesInBounds
  <2> QED
    BY <1>1, <2>1
<1>5. CASE wpc[w] = "exited"
  <2>1. batch[w] = <<>>
    BY <1>5 DEF IInv, W!IInv, W!BatchesInBounds
  <2>2. Len(<<>>) = 0
    OBVIOUS
  <2> QED
    BY <1>1, <2>1, <2>2
<1> QED
  BY <1>1, <1>2, <1>3, <1>4, <1>5

(* How many earlier events a step may leave behind.                        *)
LEMMA Overtakes ==
  ASSUME IInv, InLine, Where, Where', [Next]_vars,
         NEW e \in Events, HasFate(e, "produced")', ~HasFate(e, "produced")
  PROVE  AtMost({d \in InAdapter' : d < e}, (Cardinality(Workers) - 1) * MaxMessages)
<1>1. InAdapter' \subseteq Places(Behind)
  BY OldestFirst DEF Where
<1> PICK w \in Workers : \A d \in Places(Behind) :
              d < e => \E v \in Workers \ {w} : d \in Range(batch[v])
  BY OldestFirst
<1> DEFINE V == Workers \ {w}
           others == UNION {Range(batch[v]) : v \in V}
<1>2. /\ IsFiniteSet(V) /\ Cardinality(V) = Cardinality(Workers) - 1
      /\ Cardinality(Workers) - 1 \in Nat /\ MaxMessages \in Nat
  <2>1. IsFiniteSet(V) /\ Cardinality(V) = Cardinality(Workers) - 1
    BY FS_RemoveElement, CapacityIsNatural
  <2>2. Cardinality(V) \in Nat
    BY <2>1, FS_CardinalityType
  <2> QED
    BY <2>1, <2>2, CapacityIsNatural
<1>3. AtMost(others, Cardinality(V) * MaxMessages)
  <2>1. \A v \in V : batch[v] \in Seq(Events) /\ Len(batch[v]) <= MaxMessages
    BY BatchAtMost
  <2> HIDE DEF V
  <2> QED
    BY <1>2, <2>1, BatchesAtMost
<1>4. {d \in InAdapter' : d < e} \subseteq others
  BY <1>1
<1> HIDE DEF others, V
<1> QED
  BY <1>2, <1>3, <1>4, SubsetAtMost

(* Several workers may send events out of order, by full batches: what a   *)
(* worker hands to the producer overtakes nothing but events in the        *)
(* batches of the others.                                                  *)
OvertakingBounded ==
  [][ \A e \in Events :
        HasFate(e, "produced")' /\ ~HasFate(e, "produced")
          => AtMost({d \in InAdapter' : d < e},
                    (Cardinality(Workers) - 1) * MaxMessages) ]_vars

LEMMA LineKept == Spec => [](IInv /\ InLine /\ Where)
<1>1. Init => InLine
  <2> SUFFICES ASSUME Init PROVE InLine
    OBVIOUS
  <2>1. /\ messageCh = <<>> /\ writing = <<>>
        /\ \A w \in Workers : batch[w] = <<>>
    BY DEF Init
  <2> QED
    BY <2>1, Nothing DEF InLine, Below
<1>2. IInv /\ InLine /\ [Next]_vars => InLine'
  BY InLineStep
<1>3. IInv => Where
  BY WhereEventsAre
<1> QED
  BY <1>1, <1>2, <1>3, Invariance, PTL DEF Spec

(* For any number of workers, an event overtakes at most a batch of each   *)
(* of the other workers (main.go:545, writer.go:57, :97, :157), however    *)
(* long the queues are.                                                    *)
THEOREM OvertakingIsBounded == Spec => OvertakingBounded
<1>1. IInv /\ InLine /\ Where /\ Where' /\ [Next]_vars
        => [ \A e \in Events :
               HasFate(e, "produced")' /\ ~HasFate(e, "produced")
                 => AtMost({d \in InAdapter' : d < e},
                           (Cardinality(Workers) - 1) * MaxMessages) ]_vars
  BY Overtakes
<1> QED
  BY <1>1, LineKept, PTL DEF Spec, OvertakingBounded

(* With one worker nothing is produced while an earlier event is anywhere  *)
(* in the adapter: there is no other batch it could be in.                 *)
THEOREM ProducedInArrivalOrder == Spec => ProducedInOrder
<1>1. IInv /\ InLine /\ Where /\ Where' /\ [Next]_vars
        => [ \A e \in Events :
               HasFate(e, "produced")' /\ ~HasFate(e, "produced") /\ Cardinality(Workers) = 1
                 => \A d \in Events : d < e => d \notin InAdapter' ]_vars
  <2> SUFFICES ASSUME IInv, InLine, Where, Where', [Next]_vars,
                      NEW e \in Events, HasFate(e, "produced")', ~HasFate(e, "produced"),
                      Cardinality(Workers) = 1, NEW d \in Events, d < e, d \in InAdapter'
               PROVE  FALSE
    OBVIOUS
  <2>1. AtMost({c \in InAdapter' : c < e}, 0)
    <3>1. (Cardinality(Workers) - 1) * MaxMessages = 0
      BY CapacityIsNatural
    <3> QED
      BY <3>1, Overtakes
  <2> QED
    BY <2>1, NoneAtMost
<1> QED
  BY <1>1, LineKept, PTL DEF Spec, ProducedInOrder

-----------------------------------------------------------------------------
(* No channel is over its capacity.                                        *)
Room ==
  /\ Len(streamCh) <= MaxQueue /\ Len(queue) <= MaxQueue
  /\ Len(messageCh) <= W!Capacity

(* What a step may do to a bounded channel.                                *)
LEMMA BoundedQueue ==
  ASSUME NEW S, NEW s \in Seq(S), NEW n \in Nat, Len(s) <= n
  PROVE  /\ \A e \in S : Len(s) < n => Len(Append(s, e)) <= n
         /\ s # <<>> => Len(Tail(s)) <= n
OBVIOUS

LEMMA RoomIngest ==
  ASSUME IInv, Room, Reader \/ Processor
  PROVE  Len(streamCh') <= MaxQueue /\ Len(queue') <= MaxQueue
<1> USE IngestAssumption DEF Room
<1>1. /\ streamCh \in Seq(Events) /\ queue \in Seq(Events)
      /\ offered \in Seq(Events) /\ pushing \in Seq(Events) /\ MaxQueue \in Nat
  BY DEF IInv, IngestInv, IngestTypeOK
<1>2. CASE OfferAccepted
  BY <1>1, <1>2 DEF OfferAccepted, StreamChFull
<1>3. CASE PushAccepted
  BY <1>1, <1>3 DEF PushAccepted, QueueFull, readerVars
<1>4. CASE TakeSampled \/ TakeSkipped
  BY <1>1, <1>4 DEF TakeSampled, TakeSkipped
<1>5. CASE \/ OfferDropped \/ OfferCancelled \/ ReaderStops \/ ProcessorStops
           \/ PushDropped \/ PushCancelled
  BY <1>5 DEF OfferDropped, OfferCancelled, ReaderStops, ProcessorStops, PushDropped,
              PushCancelled, readerVars, processorVars
<1> QED
  BY <1>2, <1>3, <1>4, <1>5 DEF Reader, Processor

LEMMA RoomWriter ==
  ASSUME IInv, Room, NEW e \in Events, W!WriteAccept(e)
  PROVE  Len(messageCh') <= W!Capacity
BY WriterHolds, CapacityIsNatural DEF IInv, Room, W!WriteAccept, W!ChannelFull

LEMMA RoomStep ==
  ASSUME IInv, Room, [Next]_vars
  PROVE  Room'
<1>1. /\ streamCh \in Seq(Events) /\ queue \in Seq(Events) /\ messageCh \in Seq(Events)
      /\ writing \in Seq(Events)
  BY WriterHolds DEF IInv, IngestInv, IngestTypeOK
<1>2. W!Capacity' = W!Capacity /\ W!Capacity \in Nat /\ MaxQueue \in Nat
  BY CapacityIsNatural, IngestAssumption DEF W!Capacity
<1>3. CASE ReaderStep \/ ProcessorStep
  <2>1. messageCh' = messageCh
    BY <1>3 DEF ReaderStep, ProcessorStep, kafkaSide, writerVars
  <2> QED
    BY <1>2, <1>3, <2>1, RoomIngest DEF ReaderStep, ProcessorStep, Room
<1>4. CASE Arrive
  BY <1>2, <1>4 DEF Arrive, Recv, kafkaSide, writerVars, Room
<1>5. CASE LoopPop \/ LoopInvalid
  <2>1. UNCHANGED <<streamCh, messageCh>> /\ queue # <<>> /\ queue' = Tail(queue)
    BY <1>5 DEF LoopPop, LoopInvalid, Pop, writerVars
  <2> QED
    BY <1>1, <1>2, <2>1, BoundedQueue DEF Room
<1>6. CASE LoopWrites
  <2>1. UNCHANGED <<streamCh, queue>>
    BY <1>6 DEF LoopWrites, ingestVars
  <2>2. Head(writing) \in Events
    BY <1>1, <1>6, InHand DEF LoopWrites, IInv
  <2>3. Len(messageCh') <= W!Capacity
    <3>1. CASE W!WriteAccept(Head(writing))
      BY <2>2, <3>1, RoomWriter
    <3>2. CASE W!WriteFull(Head(writing))
      BY <3>2 DEF W!WriteFull, W!writerVars, Room
    <3> QED
      BY <1>6, <3>1, <3>2 DEF LoopWrites
  <2> QED
    BY <1>2, <2>1, <2>3 DEF Room
<1>7. CASE \E w \in Workers : WorkerStep(w)
  <2> PICK w \in Workers : WorkerStep(w)
    BY <1>7
  <2>1. UNCHANGED <<streamCh, queue>> /\ W!Worker(w)
    BY DEF WorkerStep, ingestVars
  <2>2. messageCh' = messageCh \/ (messageCh # <<>> /\ messageCh' = Tail(messageCh))
    BY <2>1, WorkerDoes DEF W!Receive
  <2> QED
    BY <1>1, <1>2, <2>1, <2>2, BoundedQueue DEF Room
<1>8. CASE LoopStops \/ LoopSkips \/ LoopPanics
  BY <1>2, <1>8 DEF LoopStops, LoopSkips, LoopPanics, ingestVars, writerVars,
                    W!WritePanic, W!writerVars, Room
<1>9. CASE Signal \/ Main \/ AtRest \/ UNCHANGED vars
  <2>1. UNCHANGED <<messageCh, streamCh, queue>>
    BY <1>9 DEF Signal, Main, DrainSeesEmpty, DrainConfirms, DrainResumes, DrainTimesOut,
       ClosesWriter, SkipsWriter, WriterDone, WriterTimesOut, Returns, ReturnsByTimeout,
       MainGoes, AtRest, vars, ingestVars, writerVars, W!CloseChannel
  <2> QED
    BY <1>2, <2>1 DEF Room
<1> QED
  BY <1>3, <1>4, <1>5, <1>6, <1>7, <1>8, <1>9 DEF Next, Loop

(* The events that are lost if the process ends now: Recv has returned     *)
(* them, and nobody has disposed of them.                                  *)
Undisposed == {e \in received : ~Settled(e)}

(* Two channels of MaxQueue, the writer's channel and as much again in its *)
(* batches, and the hands of reader, processEvents and writeToKafka.       *)
Holding == 2 * MaxQueue + 2 * (MaxMessages * Cardinality(Workers)) + 3

(* The events that have no fate yet are those in the buffers, and there    *)
(* are no more of them than the settings say.                              *)
LossBounded == Undisposed = InAdapter /\ AtMost(Undisposed, Holding)

(* A crash, or a shutdown that leaves its buffers behind (main.go:370),    *)
(* loses at most 2 * max_queue + 2 * max_messages * writer_workers + 3     *)
(* events that sarama does not have yet, whatever the load and however     *)
(* long Kafka takes.  The bound is reached when every buffer is full.      *)
THEOREM LossIsBounded == Spec => []LossBounded
<1>1. Init => Room
  <2> SUFFICES ASSUME Init PROVE Room
    OBVIOUS
  <2>1. Len(<<>>) = 0 /\ streamCh = <<>> /\ queue = <<>> /\ messageCh = <<>>
    BY DEF Init, IngestInit
  <2> QED
    BY <2>1, CapacityIsNatural, IngestAssumption DEF Room
<1>2. IInv /\ Room /\ [Next]_vars => Room'
  BY RoomStep
<1>3. IInv /\ Room => LossBounded
  <2> SUFFICES ASSUME IInv, Room PROVE LossBounded
    OBVIOUS
  <2>1. /\ streamCh \in Seq(Events) /\ queue \in Seq(Events)
        /\ messageCh \in Seq(Events) /\ batch \in [Workers -> Seq(Events)]
        /\ writing \in Seq(Events) /\ Len(writing) <= 1
        /\ offered \in Seq(Events) /\ Len(offered) <= 1
        /\ pushing \in Seq(Events) /\ Len(pushing) <= 1
    BY WriterHolds DEF IInv, IngestInv, IngestTypeOK
  <2> DEFINE batches == UNION {Range(batch[w]) : w \in Workers}
             cap == MaxMessages * Cardinality(Workers)
  <2>2. /\ MaxQueue \in Nat /\ MaxMessages \in Nat /\ cap \in Nat
        /\ cap = Cardinality(Workers) * MaxMessages /\ Len(messageCh) <= cap
    BY CapacityIsNatural, IngestAssumption DEF Room
  <2>3. /\ IsFiniteSet(Workers)
        /\ \A w \in Workers : batch[w] \in Seq(Events) /\ Len(batch[w]) <= MaxMessages
    BY BatchAtMost, CapacityIsNatural
  <2>4. /\ AtMost(Range(messageCh), cap) /\ AtMost(batches, cap)
        /\ AtMost(Range(queue), MaxQueue) /\ AtMost(Range(streamCh), MaxQueue)
        /\ AtMost(Range(writing), 1) /\ AtMost(Range(pushing), 1) /\ AtMost(Range(offered), 1)
    <3>1. AtMost(batches, cap)
      BY <2>2, <2>3, BatchesAtMost
    <3>2. 1 \in Nat
      OBVIOUS
    <3> HIDE DEF batches, cap
    <3> QED
      BY <2>1, <2>2, <3>1, <3>2, SequenceAtMost DEF Room
  <2>5. InAdapter = (((((Range(messageCh) \cup batches) \cup Range(queue))
                        \cup Range(streamCh)) \cup Range(writing)) \cup Range(pushing))
                        \cup Range(offered)
    <3>1. InAdapter = Places(Behind)
      BY WhereEventsAre DEF Where
    <3>2. W!Held = Range(messageCh) \cup batches
      BY WriterHolds DEF IInv
    <3> QED
      BY <3>1, <3>2 DEF Places, Behind
  <2> HIDE DEF batches, cap
  <2>6. AtMost(Range(messageCh) \cup batches, cap + cap)
    BY <2>2, <2>4, UnionAtMost
  <2>7. AtMost((Range(messageCh) \cup batches) \cup Range(queue), cap + cap + MaxQueue)
    BY <2>2, <2>4, <2>6, UnionAtMost
  <2>8. cap + cap + MaxQueue \in Nat
    BY <2>2
  <2>9. AtMost(((Range(messageCh) \cup batches) \cup Range(queue)) \cup Range(streamCh),
               cap + cap + MaxQueue + MaxQueue)
    BY <2>2, <2>4, <2>7, <2>8, UnionAtMost
  <2>10. AtMost(InAdapter, cap + cap + MaxQueue + MaxQueue + 1 + 1 + 1)
    <3> DEFINE buffers == ((Range(messageCh) \cup batches) \cup Range(queue)) \cup Range(streamCh)
               n == cap + cap + MaxQueue + MaxQueue
    <3>1. n \in Nat /\ 1 \in Nat /\ AtMost(buffers, n)
      BY <2>2, <2>9
    <3> HIDE DEF buffers, n
    <3>2. AtMost(buffers \cup Range(writing), n + 1) /\ n + 1 \in Nat
      BY <2>4, <3>1, UnionAtMost
    <3>3. AtMost((buffers \cup Range(writing)) \cup Range(pushing), n + 1 + 1) /\ n + 1 + 1 \in Nat
      BY <2>4, <3>1, <3>2, UnionAtMost
    <3>4. AtMost(((buffers \cup Range(writing)) \cup Range(pushing)) \cup Range(offered), n + 1 + 1 + 1)
      BY <2>4, <3>1, <3>3, UnionAtMost
    <3> QED
      BY <2>5, <3>4 DEF buffers, n
  <2>11. Holding = cap + cap + MaxQueue + MaxQueue + 1 + 1 + 1
    BY <2>2 DEF Holding, cap
  <2>12. Undisposed = InAdapter
    <3>1. InAdapter = Places(Behind) /\ received \subseteq Events
      BY WhereEventsAre DEF Where, IInv, IngestInv, IngestTypeOK
    <3>2. \A e \in Events : e \in Places(Behind) <=> e \in received /\ ~Settled(e)
      BY DEF IInv, IngestInv, Account
    <3>3. Places(Behind) \subseteq Events
      BY Facts DEF Places, IInv, IngestInv
    <3> QED
      BY <3>1, <3>2, <3>3 DEF Undisposed
  <2> QED
    BY <2>10, <2>11, <2>12 DEF LossBounded
<1> QED
  BY <1>1, <1>2, <1>3, Invariance, PTL DEF Spec
=============================================================================
