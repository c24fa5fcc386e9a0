-------------------------- MODULE KafkaWriterProofs --------------------------
(***************************************************************************)
(* Theorems about the batch writer, for any set of events, any number of   *)
(* workers and any batch size.                                             *)
(*                                                                         *)
(* HandledOnce alone is not inductive: that a message is not settled twice *)
(* needs that it is in one place only (OnePlace) and that a worker in a    *)
(* flush has a message at hand (BatchesInBounds).  IInv is these four      *)
(* invariants together.                                                    *)
(***************************************************************************)
EXTENDS KafkaWriter, SequenceFacts

IInv == TypeOK /\ OnePlace /\ HandledOnce /\ BatchesInBounds

(* Where a held message is.                                                *)
LEMMA HeldIs ==
  \A e : e \in Held <=> \/ e \in Range(messageCh)
                        \/ \E w \in Workers : e \in Range(batch[w])
BY DEF Held

(* What the type invariant says of one worker, and of the buffers.         *)
LEMMA TypesOf ==
  ASSUME TypeOK, NEW w \in Workers
  PROVE  /\ messageCh \in Seq(Events)
         /\ batch[w] \in Seq(Events)
         /\ wpc[w] \in WorkerStates
         /\ attempt[w] \in 0..MaxRetries - 1
         /\ leaving[w] \in BOOLEAN
         /\ Len(batch[w]) \in Nat
<1>1. batch[w] \in Seq(Events)
  BY DEF TypeOK, WriterTypeOK
<1> QED
  BY <1>1, LenProperties DEF TypeOK, WriterTypeOK

-----------------------------------------------------------------------------
(* Initially nothing is held and nothing settled.                          *)
LEMMA InitInv == Init => IInv
<1> SUFFICES ASSUME Init PROVE IInv
  OBVIOUS
<1> USE DEF Init, LedgerInit, WriterInit
<1>1. TypeOK
  <2>1. <<>> \in Seq(Events) /\ <<>> \in Seq(Fates)
    OBVIOUS
  <2>2. LedgerTypeOK
    BY <2>1 DEF LedgerTypeOK
  <2>3. batch \in [Workers -> Seq(Events)]
    BY <2>1
  <2>4. /\ wpc \in [Workers -> WorkerStates]
        /\ attempt \in [Workers -> 0..MaxRetries - 1]
        /\ leaving \in [Workers -> BOOLEAN]
    BY DEF WorkerStates, MaxRetries
  <2>5. messageCh \in Seq(Events) /\ closed \in BOOLEAN
    BY <2>1
  <2>6. WriterTypeOK
    BY <2>3, <2>4, <2>5 DEF WriterTypeOK
  <2> QED
    BY <2>2, <2>6 DEF TypeOK
<1>2. Range(messageCh) = {} /\ \A w \in Workers : Range(batch[w]) = {}
  BY <1>1, EmptyRange, TypesOf DEF TypeOK, WriterTypeOK
<1>3. OnePlace
  <2>1. IsInjective(<<>>)
    BY DEF IsInjective
  <2> QED
    BY <2>1, <1>2 DEF OnePlace
<1>4. HandledOnce
  <2>1. \A e \in Events : ledger[e] = <<>>
    OBVIOUS
  <2>2. \A s : s = <<>> => Len(s) <= 1
    OBVIOUS
  <2>3. \A e \in Events : Len(ledger[e]) <= 1
    BY <2>1, <2>2
  <2>4. \A e \in Events : ~Settled(e)
    BY <2>1 DEF Settled
  <2> QED
    BY <2>3, <2>4 DEF HandledOnce
<1>5. BatchesInBounds
  <2>1. Len(<<>>) = 0
    OBVIOUS
  <2> QED
    BY <2>1, WriterAssumption DEF BatchesInBounds, Flushing
<1> QED
  BY <1>1, <1>3, <1>4, <1>5 DEF IInv

-----------------------------------------------------------------------------
(* A message that is not held and not settled enters the channel.          *)
LEMMA AcceptInv ==
  ASSUME IInv, NEW e \in Events, ~Handed(e), WriteAccept(e)
  PROVE  IInv'
<1> USE DEF WriteAccept, ledgerVars
<1>1. messageCh \in Seq(Events)
  BY DEF IInv, TypeOK, WriterTypeOK
<1>2. /\ messageCh' \in Seq(Events)
      /\ Range(messageCh') = Range(messageCh) \cup {e}
      /\ IsInjective(messageCh) /\ e \notin Range(messageCh)
           => IsInjective(messageCh')
  BY <1>1, AppendToQueue
<1>3. /\ e \notin Range(messageCh)
      /\ \A w \in Workers : e \notin Range(batch[w])
      /\ ledger[e] = <<>>
  BY HeldIs DEF Handed, Settled
<1>4. TypeOK'
  BY <1>2 DEF IInv, TypeOK, LedgerTypeOK, WriterTypeOK
<1>5. OnePlace'
  <2>1. IsInjective(messageCh)' /\ UNCHANGED batch
    BY <1>2, <1>3 DEF IInv, OnePlace
  <2>2. Range(messageCh') = Range(messageCh) \cup {e}
    BY <1>2
  <2> QED
    BY <1>3, <2>1, <2>2 DEF IInv, OnePlace
<1>6. HandledOnce'
  <2>1. \A x : x \in Held' => x \in Held \/ x = e
    BY <1>2 DEF Held
  <2> QED
    BY <2>1, <1>3 DEF IInv, HandledOnce, Settled
<1>7. BatchesInBounds'
  BY DEF IInv, BatchesInBounds
<1> QED
  BY <1>4, <1>5, <1>6, <1>7 DEF IInv

(* A message that is not held is refused: only the ledger changes.         *)
LEMMA RefuseInv ==
  ASSUME IInv, NEW e \in Events, ~Handed(e), NEW f \in Fates,
         Dispose(e, f), UNCHANGED <<ctxDone, writerVars>>
  PROVE  IInv'
<1> USE DEF Dispose, writerVars
<1>1. ledger \in [Events -> Seq(Fates)] /\ ledger[e] = <<>>
  BY DEF IInv, TypeOK, LedgerTypeOK, Handed, Settled
<1>2. /\ ledger'[e] = Append(<<>>, f)
      /\ \A d \in Events \ {e} : ledger'[d] = ledger[d]
      /\ ledger' \in [Events -> Seq(Fates)]
  BY <1>1
<1>3. Len(ledger'[e]) = 1
  BY <1>2
<1>4. TypeOK'
  BY <1>2 DEF IInv, TypeOK, LedgerTypeOK, WriterTypeOK
<1>5. OnePlace'
  BY DEF IInv, OnePlace
<1>6. HandledOnce'
  <2>1. Held' = Held
    BY DEF Held
  <2>2. e \notin Held
    BY DEF Handed
  <2> QED
    BY <1>2, <1>3, <2>1, <2>2 DEF IInv, HandledOnce, Settled
<1>7. BatchesInBounds'
  BY DEF IInv, BatchesInBounds
<1> QED
  BY <1>4, <1>5, <1>6, <1>7 DEF IInv

(* A message moves from the channel to one batch.                          *)
LEMMA ReceiveInv ==
  ASSUME IInv, NEW w \in Workers, Receive(w)
  PROVE  IInv'
<1> USE DEF Receive, ledgerVars
<1> DEFINE e == Head(messageCh)
<1>1. /\ messageCh \in Seq(Events)
      /\ batch \in [Workers -> Seq(Events)]
      /\ wpc \in [Workers -> WorkerStates]
  BY DEF IInv, TypeOK, WriterTypeOK
<1>2. /\ e \in Events
      /\ e \in Range(messageCh)
      /\ messageCh' \in Seq(Events)
      /\ Range(messageCh) = Range(messageCh') \cup {e}
      /\ IsInjective(messageCh')
      /\ e \notin Range(messageCh')
  BY <1>1, TakeFromQueue DEF IInv, OnePlace
<1>3. /\ batch'[w] = Append(batch[w], e)
      /\ \A v \in Workers \ {w} : batch'[v] = batch[v]
      /\ batch[w] \in Seq(Events)
  BY <1>1
<1> HIDE DEF e
<1>4. e \notin Range(batch[w]) /\ IsInjective(batch[w])
  BY <1>2 DEF IInv, OnePlace
<1>5. /\ batch'[w] \in Seq(Events)
      /\ Len(batch'[w]) = Len(batch[w]) + 1
      /\ Range(batch'[w]) = Range(batch[w]) \cup {e}
      /\ IsInjective(batch'[w])
  BY <1>2, <1>3, <1>4, AppendToQueue
<1>6. TypeOK'
  <2>1. batch' \in [Workers -> Seq(Events)]
    BY <1>1, <1>3, <1>5
  <2>2. wpc' \in [Workers -> WorkerStates]
    BY <1>1 DEF WorkerStates, Flushing
  <2> QED
    BY <1>2, <2>1, <2>2 DEF IInv, TypeOK, LedgerTypeOK, WriterTypeOK
<1>7. OnePlace'
  <2>1. ASSUME NEW u \in Workers
        PROVE  /\ IsInjective(batch'[u])
               /\ Range(batch'[u]) \cap Range(messageCh') = {}
    BY <1>2, <1>3, <1>5 DEF IInv, OnePlace
  <2>2. ASSUME NEW u \in Workers, NEW v \in Workers \ {u}
        PROVE  Range(batch'[u]) \cap Range(batch'[v]) = {}
    BY <1>2, <1>3, <1>5 DEF IInv, OnePlace
  <2> QED
    BY <1>2, <2>1, <2>2 DEF OnePlace
<1>8. HandledOnce'
  <2>1. ASSUME NEW x \in Held' PROVE x \in Held
    <3>1. x \in Range(messageCh') \/ \E v \in Workers : x \in Range(batch'[v])
      BY <2>1 DEF Held
    <3>2. x \in Range(messageCh) \/ \E v \in Workers : x \in Range(batch[v])
      BY <3>1, <1>2, <1>3, <1>5
    <3> QED
      BY <3>2, HeldIs
  <2> QED
    BY <2>1 DEF IInv, HandledOnce, Settled
<1>9. BatchesInBounds'
  <2>1. Len(batch[w]) \in Nat /\ Len(batch[w]) < MaxMessages /\ ~leaving[w]
    BY <1>3, LenProperties DEF IInv, BatchesInBounds
  <2>2. \/ wpc'[w] = "flush" /\ Len(batch'[w]) \in 1..MaxMessages
        \/ wpc'[w] = "select" /\ Len(batch'[w]) < MaxMessages
    BY <1>1, <1>5, <2>1, WriterAssumption DEF FlushDue
  <2>3. \A v \in Workers \ {w} : wpc'[v] = wpc[v]
    BY <1>1
  <2> QED
    BY <1>3, <2>1, <2>2, <2>3 DEF IInv, BatchesInBounds, Flushing
<1> QED
  BY <1>6, <1>7, <1>8, <1>9 DEF IInv
-----------------------------------------------------------------------------
(* A worker in a flush disposes of the message at hand.                    *)
LEMMA FinishInv ==
  ASSUME IInv, NEW w \in Workers, wpc[w] \in Flushing,
         NEW f \in Fates, NEW pc \in Flushing \ {"dlqWait"}, Finish(w, f, pc)
  PROVE  IInv'
<1> USE DEF Finish, Dispose
<1> DEFINE e == Head(batch[w])
<1>1. /\ ledger \in [Events -> Seq(Fates)]
      /\ batch \in [Workers -> Seq(Events)]
      /\ wpc \in [Workers -> WorkerStates]
      /\ attempt \in [Workers -> 0..MaxRetries - 1]
      /\ leaving[w] \in BOOLEAN
  BY DEF IInv, TypeOK, LedgerTypeOK, WriterTypeOK
<1>2. batch[w] \in Seq(Events) /\ batch[w] # <<>> /\ Len(batch[w]) <= MaxMessages
  <2>1. batch[w] \in Seq(Events) /\ Len(batch[w]) \in 1..MaxMessages
    BY <1>1 DEF IInv, BatchesInBounds
  <2> QED
    BY <2>1, WriterAssumption
<1>3. /\ e \in Events
      /\ e \in Range(batch[w])
      /\ Tail(batch[w]) \in Seq(Events)
      /\ Len(batch[w]) \in Nat \ {0}
      /\ Len(Tail(batch[w])) = Len(batch[w]) - 1
      /\ Range(batch[w]) = Range(Tail(batch[w])) \cup {e}
      /\ IsInjective(Tail(batch[w]))
      /\ e \notin Range(Tail(batch[w]))
  BY <1>2, TakeFromQueue DEF IInv, OnePlace
<1>4. /\ batch'[w] = Tail(batch[w])
      /\ \A v \in Workers \ {w} : batch'[v] = batch[v]
  BY <1>1
<1>5. ledger' = [ledger EXCEPT ![e] = Append(@, f)]
  OBVIOUS
<1> HIDE DEF e
<1>6. ledger[e] = <<>>
  <2>1. e \in Held
    BY <1>3, HeldIs
  <2> QED
    BY <2>1, <1>3 DEF IInv, HandledOnce, Settled
<1>7. /\ ledger' \in [Events -> Seq(Fates)]
      /\ Len(ledger'[e]) = 1
      /\ \A d \in Events \ {e} : ledger'[d] = ledger[d]
  <2>1. Append(<<>>, f) \in Seq(Fates) /\ Len(Append(<<>>, f)) = 1
    OBVIOUS
  <2>2. ledger'[e] = Append(<<>>, f)
    BY <1>1, <1>3, <1>5, <1>6
  <2>3. \A d \in Events \ {e} : ledger'[d] = ledger[d]
    BY <1>1, <1>5
  <2>4. ledger' \in [Events -> Seq(Fates)]
    <3>1. ledger' = [ledger EXCEPT ![e] = Append(<<>>, f)]
      BY <1>5, <1>6
    <3>2. ledger \in [Events -> Seq(Fates)]
      BY <1>1
    <3> QED
      BY <2>1, <3>1, <3>2
  <2> QED
    BY <2>1, <2>2, <2>3, <2>4
<1>8. TypeOK'
  <2>1. batch' \in [Workers -> Seq(Events)]
    BY <1>1, <1>3, <1>4
  <2>2. wpc' \in [Workers -> WorkerStates]
    BY <1>1 DEF WorkerStates, Flushing, AfterFlush
  <2>3. attempt' \in [Workers -> 0..MaxRetries - 1]
    BY <1>1 DEF MaxRetries
  <2> QED
    BY <1>7, <2>1, <2>2, <2>3 DEF IInv, TypeOK, LedgerTypeOK, WriterTypeOK
<1>9. OnePlace'
  <2>1. ASSUME NEW u \in Workers
        PROVE  /\ IsInjective(batch'[u])
               /\ Range(batch'[u]) \cap Range(messageCh') = {}
    BY <1>3, <1>4 DEF IInv, OnePlace
  <2>2. ASSUME NEW u \in Workers, NEW v \in Workers \ {u}
        PROVE  Range(batch'[u]) \cap Range(batch'[v]) = {}
    BY <1>3, <1>4 DEF IInv, OnePlace
  <2> QED
    BY <2>1, <2>2 DEF IInv, OnePlace
<1>10. \A x : x \in Held' <=> x \in Held /\ x # e
  <2>1. \A x : x \in Held' <=> \/ x \in Range(messageCh')
                               \/ \E v \in Workers : x \in Range(batch'[v])
    BY DEF Held
  <2>2. /\ messageCh' = messageCh
        /\ e \notin Range(messageCh)
        /\ \A v \in Workers \ {w} : e \notin Range(batch[v])
    BY <1>3 DEF IInv, OnePlace
  <2> QED
    BY <2>1, <2>2, <1>3, <1>4, HeldIs
<1>11. HandledOnce'
  BY <1>7, <1>10 DEF IInv, HandledOnce, Settled
<1>12. BatchesInBounds'
  <2>1. \A v \in Workers \ {w} : wpc'[v] = wpc[v]
    BY <1>1
  <2>2. CASE Tail(batch[w]) = <<>>
    <3>1. batch'[w] = <<>> /\ Len(batch'[w]) = 0
      BY <2>2, <1>4, EmptySeq
    <3>2. \/ wpc'[w] = "exited"
          \/ wpc'[w] = "select" /\ ~leaving'[w]
      BY <2>2, <1>1 DEF AfterFlush
    <3> QED
      BY <2>1, <3>1, <3>2, <1>4, WriterAssumption
         DEF IInv, BatchesInBounds, Flushing
  <2>3. CASE Tail(batch[w]) # <<>>
    <3>1. Len(batch'[w]) \in 1..MaxMessages
      <4>1. Len(Tail(batch[w])) \in Nat \ {0}
        BY <2>3, <1>3, EmptySeq
      <4>2. Len(batch'[w]) = Len(Tail(batch[w]))
        BY <1>4
      <4>3. Len(Tail(batch[w])) <= MaxMessages
        BY <1>2, <1>3, WriterAssumption
      <4>4. \A n \in Nat \ {0} : n <= MaxMessages => n \in 1..MaxMessages
        BY WriterAssumption
      <4> QED
        BY <4>1, <4>2, <4>3, <4>4
    <3>2. wpc'[w] = pc
      BY <2>3, <1>1
    <3> QED
      BY <2>1, <3>1, <3>2, <1>4 DEF IInv, BatchesInBounds, Flushing
  <2> QED
    BY <2>2, <2>3
<1> QED
  BY <1>8, <1>9, <1>11, <1>12 DEF IInv

-----------------------------------------------------------------------------
(* Every other step of a worker moves its control only.                    *)
LEMMA ControlInv ==
  ASSUME IInv, NEW w \in Workers,
         Tick(w) \/ StopIdle(w) \/ StopAfterFlush(w) \/ DLQError(w) \/ DLQRetry(w)
  PROVE  IInv'
<1> USE DEF Tick, StopIdle, StopAfterFlush, DLQError, DLQRetry, ledgerVars
<1>1. UNCHANGED <<ctxDone, ledger, messageCh, closed, batch>>
  OBVIOUS
<1>2. /\ wpc \in [Workers -> WorkerStates]
      /\ attempt \in [Workers -> 0..MaxRetries - 1]
      /\ leaving \in [Workers -> BOOLEAN]
      /\ batch[w] \in Seq(Events)
  BY DEF IInv, TypeOK, WriterTypeOK
<1>3. TypeOK'
  <2>1. wpc' \in [Workers -> WorkerStates]
    BY <1>2 DEF WorkerStates, Flushing
  <2>2. attempt' \in [Workers -> 0..MaxRetries - 1]
    <3>1. CASE DLQError(w)
      BY <1>2, <3>1 DEF MaxRetries, LastAttempt
    <3>2. CASE ~DLQError(w)
      BY <1>2, <3>2
    <3> QED
      BY <3>1, <3>2
  <2>3. leaving' \in [Workers -> BOOLEAN]
    BY <1>2
  <2> QED
    BY <1>1, <2>1, <2>2, <2>3 DEF IInv, TypeOK, LedgerTypeOK, WriterTypeOK
<1>4. OnePlace' /\ HandledOnce'
  <2>1. Held' = Held
    BY <1>1 DEF Held
  <2> QED
    BY <1>1, <2>1 DEF IInv, OnePlace, HandledOnce, Settled
<1>5. BatchesInBounds'
  <2>1. \A v \in Workers \ {w} : wpc'[v] = wpc[v] /\ leaving'[v] = leaving[v]
    BY <1>2
  <2>2. CASE StopIdle(w)
    BY <2>2, <2>1, <1>1, <1>2 DEF IInv, BatchesInBounds, Flushing
  <2>3. CASE DLQError(w) \/ DLQRetry(w)
    BY <2>3, <2>1, <1>1, <1>2 DEF IInv, BatchesInBounds, Flushing
  <2>4. CASE Tick(w) \/ StopAfterFlush(w)
    <3>1. wpc[w] = "select" /\ wpc'[w] = "flush" /\ batch[w] # <<>>
      BY <2>4, <1>2
    <3>2. Len(batch[w]) \in Nat \ {0} /\ Len(batch[w]) < MaxMessages
      BY <3>1, <1>2, EmptySeq DEF IInv, BatchesInBounds
    <3>3. Len(batch[w]) \in 1..MaxMessages
      BY <3>2, WriterAssumption
    <3> QED
      BY <3>1, <3>3, <2>1, <1>1 DEF IInv, BatchesInBounds, Flushing
  <2> QED
    BY <2>2, <2>3, <2>4
<1> QED
  BY <1>3, <1>4, <1>5 DEF IInv

(* What a worker may do with a message it holds: while a flush runs in its *)
(* time, nothing but to produce it.                                        *)
WorkerFates(w) ==
  {"produced"} \cup
    IF wpc[w] = "flush" /\ ~FlushCtxDone THEN {}
    ELSE {"flushCancelled", "deadLettered", "dlqFailed", "dlqCancelled"}

(* Every step a worker takes in a flush that disposes of a message.        *)
LEMMA FinishSteps ==
  ASSUME NEW w \in Workers,
         \/ FlushSend(w) \/ FlushCancelled(w)
         \/ DLQSend(w) \/ DLQGiveUp(w) \/ DLQCancelled(w)
  PROVE  /\ wpc[w] \in Flushing
         /\ \E f \in WorkerFates(w), pc \in Flushing \ {"dlqWait"} :
              Finish(w, f, pc)
<1>1. CASE FlushSend(w)
  BY <1>1 DEF FlushSend, Flushing, WorkerFates
<1>2. CASE FlushCancelled(w)
  BY <1>2 DEF FlushCancelled, Flushing, WorkerFates
<1>3. CASE DLQSend(w)
  BY <1>3 DEF DLQSend, Flushing, WorkerFates
<1>4. CASE DLQGiveUp(w)
  BY <1>4 DEF DLQGiveUp, Flushing, WorkerFates
<1>5. CASE DLQCancelled(w)
  BY <1>5 DEF DLQCancelled, Flushing, WorkerFates
<1> QED
  BY <1>1, <1>2, <1>3, <1>4, <1>5

LEMMA WorkerInv ==
  ASSUME IInv, NEW w \in Workers, Worker(w)
  PROVE  IInv'
<1>1. CASE Receive(w)
  BY <1>1, ReceiveInv
<1>2. CASE Tick(w) \/ StopIdle(w) \/ StopAfterFlush(w) \/ DLQError(w) \/ DLQRetry(w)
  BY <1>2, ControlInv
<1>3. CASE \/ FlushSend(w) \/ FlushCancelled(w)
           \/ DLQSend(w) \/ DLQGiveUp(w) \/ DLQCancelled(w)
  <2>1. wpc[w] \in Flushing
    BY <1>3, FinishSteps
  <2>2. PICK f \in Fates, pc \in Flushing \ {"dlqWait"} : Finish(w, f, pc)
    BY <1>3, FinishSteps
       DEF WorkerFates, Fates, DeliveredFates, CountedFates, SilentFates, SampledFates
  <2> QED
    BY <2>1, <2>2, FinishInv
<1> QED
  BY <1>1, <1>2, <1>3 DEF Worker

(* The environment's other steps leave the buffers alone.                  *)
LEMMA EnvironmentInv ==
  ASSUME IInv, CloseChannel \/ Cancel \/ UNCHANGED vars
  PROVE  IInv'
<1>1. UNCHANGED <<ledger, messageCh, wpc, batch, attempt, leaving>>
  BY DEF CloseChannel, Cancel, vars, ledgerVars, writerVars
<1>2. TypeOK'
  BY <1>1 DEF IInv, TypeOK, LedgerTypeOK, WriterTypeOK, CloseChannel, Cancel,
             CancelContext, vars, ledgerVars, writerVars
<1>3. Held' = Held
  BY <1>1 DEF Held
<1> QED
  BY <1>1, <1>2, <1>3
     DEF IInv, OnePlace, HandledOnce, BatchesInBounds, Settled

(* The inductive step: one case per disjunct of Next.                      *)
LEMMA NextInv == IInv /\ [Next]_vars => IInv'
<1> SUFFICES ASSUME IInv, [Next]_vars PROVE IInv'
  OBVIOUS
<1>1. ASSUME NEW e \in Events, NextToWrite(e), Write(e) PROVE IInv'
  <2>1. ~Handed(e)
    BY <1>1 DEF NextToWrite
  <2>2. CASE WriteAccept(e)
    BY <2>1, <2>2, AcceptInv
  <2>3. CASE WriteFull(e) \/ WritePanic(e)
    <3>1. PICK f \in Fates : Dispose(e, f) /\ UNCHANGED <<ctxDone, writerVars>>
      BY <2>3 DEF WriteFull, WritePanic, Fates, CountedFates, SilentFates
    <3> QED
      BY <2>1, <3>1, RefuseInv
  <2> QED
    BY <1>1, <2>2, <2>3 DEF Write
<1>2. CASE \E w \in Workers : Worker(w)
  BY <1>2, WorkerInv
<1>3. CASE CloseChannel \/ Cancel \/ UNCHANGED vars
  BY <1>3, EnvironmentInv
<1> QED
  BY <1>1, <1>2, <1>3 DEF Next, AtRest

LEMMA Invariance == Spec => []IInv
<1>1. Init => IInv
  BY InitInv
<1>2. IInv /\ [Next]_vars => IInv'
  BY NextInv
<1> QED
  BY <1>1, <1>2, PTL DEF Spec

-----------------------------------------------------------------------------
(* The state variables of the writer (writer.go:29) keep their types.      *)
THEOREM TypeCorrect == Spec => []TypeOK
<1>1. IInv => TypeOK
  BY DEF IInv
<1> QED
  BY <1>1, Invariance, PTL

(* flushBatch and writeToDLQ (writer.go:157, :271) dispose of no message   *)
(* twice, whatever the workers, the ticker and the shutdown do.            *)
THEOREM DisposedOfOnce == Spec => []HandledOnce
<1>1. IInv => HandledOnce
  BY DEF IInv
<1> QED
  BY <1>1, Invariance, PTL

(* No two of the buffers a message can wait in (writer.go:36, :92) hold    *)
(* the same message.                                                       *)
THEOREM HeldInOnePlace == Spec => []OnePlace
<1>1. IInv => OnePlace
  BY DEF IInv
<1> QED
  BY <1>1, Invariance, PTL

(* A batch never exceeds max_messages and a worker that has returned has   *)
(* flushed its own (writer.go:97, :115, :130).                             *)
THEOREM BatchBounds == Spec => []BatchesInBounds
<1>1. IInv => BatchesInBounds
  BY DEF IInv
<1> QED
  BY <1>1, Invariance, PTL

-----------------------------------------------------------------------------
(* A worker that has returned, or is on its way out, was entitled to: and  *)
(* that it was lasts, for the context stays done, a closed channel takes   *)
(* no more messages and an empty one stays empty.                          *)
StopInv == \A w \in Workers : wpc[w] = "exited" \/ leaving[w] => MayStop

LEMMA MayStopLasts ==
  ASSUME [Next]_vars, MayStop, TypeOK
  PROVE  MayStop'
<1> USE DEF MayStop
<1>1. CASE \E e \in Events : NextToWrite(e) /\ Write(e)
  BY <1>1 DEF Write, WriteAccept, WriteFull, WritePanic, ledgerVars, writerVars
<1>2. CASE CloseChannel \/ Cancel \/ UNCHANGED vars
  BY <1>2 DEF CloseChannel, Cancel, CancelContext, vars, ledgerVars, writerVars
<1>3. ASSUME NEW w \in Workers, Worker(w) PROVE MayStop'
  <2>1. CASE Receive(w)
    BY <2>1 DEF Receive, ledgerVars
  <2>2. CASE Tick(w) \/ StopIdle(w) \/ StopAfterFlush(w) \/ DLQError(w) \/ DLQRetry(w)
    BY <2>2 DEF Tick, StopIdle, StopAfterFlush, DLQError, DLQRetry, ledgerVars
  <2>3. CASE \/ FlushSend(w) \/ FlushCancelled(w)
             \/ DLQSend(w) \/ DLQGiveUp(w) \/ DLQCancelled(w)
    BY <2>3, FinishSteps DEF Finish
  <2> QED
    BY <1>3, <2>1, <2>2, <2>3 DEF Worker
<1> QED
  BY <1>1, <1>2, <1>3 DEF Next, AtRest

LEMMA StopStep ==
  ASSUME IInv, StopInv, [Next]_vars
  PROVE  StopInv'
<1> SUFFICES ASSUME NEW w \in Workers, wpc'[w] = "exited" \/ leaving'[w]
             PROVE  MayStop'
  BY DEF StopInv
<1>1. TypeOK
  BY DEF IInv
<1>2. /\ wpc \in [Workers -> WorkerStates]
      /\ leaving \in [Workers -> BOOLEAN]
  BY DEF IInv, TypeOK, WriterTypeOK
<1>3. CASE wpc[w] = "exited" \/ leaving[w]
  BY <1>1, <1>3, MayStopLasts DEF StopInv
<1>4. CASE ~(wpc[w] = "exited" \/ leaving[w])
  <2>1. PICK v \in Workers : Worker(v)
    BY <1>4 DEF Next, AtRest, CloseChannel, Cancel, Write, WriteAccept,
                WriteFull, WritePanic, vars, writerVars
  <2>2. CASE StopIdle(v) \/ StopAfterFlush(v)
    BY <1>1, <2>2, MayStopLasts DEF StopIdle, StopAfterFlush
  <2>3. CASE Receive(v) \/ Tick(v) \/ DLQError(v) \/ DLQRetry(v)
    BY <1>2, <1>4, <2>3 DEF Receive, Tick, DLQError, DLQRetry
  <2>4. CASE \/ FlushSend(v) \/ FlushCancelled(v)
             \/ DLQSend(v) \/ DLQGiveUp(v) \/ DLQCancelled(v)
    <3>1. PICK f \in Fates, pc \in Flushing \ {"dlqWait"} : Finish(v, f, pc)
      BY <2>4, FinishSteps
         DEF WorkerFates, Fates, DeliveredFates, CountedFates, SilentFates, SampledFates
    <3>2. leaving' = leaving
      BY <3>1 DEF Finish
    <3>3. wpc'[w] # "exited"
      BY <1>2, <1>4, <3>1 DEF Finish, AfterFlush, Flushing
    <3> QED
      BY <1>4, <3>2, <3>3
  <2> QED
    BY <2>1, <2>2, <2>3, <2>4 DEF Worker
<1> QED
  BY <1>3, <1>4

(* writer.go:111-125: workers that stop because of Close leave nothing in  *)
(* the channel; only the cancelled context (writer.go:96) strands messages.*)
THEOREM NothingStrandedByClose == Spec => []StrandedOnlyByCancel
<1>1. Init => StopInv
  BY DEF Init, WriterInit, StopInv
<1>2. IInv /\ StopInv /\ [Next]_vars => StopInv'
  BY StopStep
<1>3. IInv /\ StopInv => StrandedOnlyByCancel
  <2> SUFFICES ASSUME IInv, StopInv, AllExited, ~ctxDone PROVE Held = {}
    BY DEF StrandedOnlyByCancel
  <2>1. PICK w \in Workers : TRUE
    BY WriterAssumption
  <2>2. messageCh = <<>>
    BY <2>1 DEF AllExited, StopInv, MayStop
  <2>3. \A v \in Workers : batch[v] = <<>>
    BY DEF AllExited, IInv, BatchesInBounds
  <2>4. Range(messageCh) = {}
    BY <2>2, EmptyRange DEF IInv, TypeOK, WriterTypeOK
  <2>5. \A v \in Workers : Range(batch[v]) = {}
    BY <2>3, EmptyRange DEF IInv, TypeOK, WriterTypeOK
  <2> QED
    BY <2>4, <2>5 DEF Held
<1> QED
  BY <1>1, <1>2, <1>3, Invariance, PTL DEF Spec

-----------------------------------------------------------------------------
(* Accepting, refusing and finishing a message are Delivery's steps; the   *)
(* others change neither what is held nor the ledger.                      *)

LEMMA Accepted ==
  ASSUME IInv, NEW e \in Events, WriteAccept(e)
  PROVE  Held' = Held \cup {e} /\ UNCHANGED <<ctxDone, ledger>>
<1>1. messageCh \in Seq(Events) /\ messageCh' = Append(messageCh, e)
  BY DEF WriteAccept, IInv, TypeOK, WriterTypeOK
<1>2. Range(messageCh') = Range(messageCh) \cup {e}
  BY <1>1, AppendToQueue
<1> QED
  BY <1>2 DEF Held, WriteAccept, ledgerVars

LEMMA AcceptRefines ==
  ASSUME IInv, NEW e \in Events, ~Handed(e), WriteAccept(e)
  PROVE  D!Accept(e)
BY Accepted DEF D!Accept, D!Unknown, Handed, Settled

LEMMA RefuseRefines ==
  ASSUME IInv, NEW e \in Events, ~Handed(e), NEW f \in Fates,
         Dispose(e, f), UNCHANGED writerVars
  PROVE  D!Refuse(e, f)
<1>1. ledger[e] = <<>> /\ e \notin Held
  BY DEF Handed, Settled
<1>2. ledger' = [ledger EXCEPT ![e] = <<f>>]
  <2>1. Append(<<>>, f) = <<f>>
    OBVIOUS
  <2> QED
    BY <1>1, <2>1 DEF Dispose, IInv, TypeOK, LedgerTypeOK
<1>3. Held' = Held
  BY DEF Held, writerVars
<1> QED
  BY <1>1, <1>2, <1>3 DEF D!Refuse, D!Unknown

LEMMA FinishRefines ==
  ASSUME IInv, NEW w \in Workers, wpc[w] \in Flushing,
         NEW f \in Fates, NEW pc, Finish(w, f, pc)
  PROVE  \E e \in Events : D!Leave(e, f)
<1> DEFINE e == Head(batch[w])
<1>1. batch \in [Workers -> Seq(Events)] /\ batch[w] \in Seq(Events)
  BY DEF IInv, TypeOK, WriterTypeOK
<1>2. batch[w] # <<>>
  <2>1. Len(batch[w]) \in 1..MaxMessages
    BY DEF IInv, BatchesInBounds
  <2> QED
    BY <2>1, WriterAssumption
<1>3. /\ e \in Events
      /\ Range(batch[w]) = Range(Tail(batch[w])) \cup {e}
      /\ e \notin Range(Tail(batch[w]))
  BY <1>1, <1>2, TakeFromQueue DEF IInv, OnePlace
<1>4. /\ batch'[w] = Tail(batch[w])
      /\ \A v \in Workers \ {w} : batch'[v] = batch[v]
      /\ messageCh' = messageCh
  BY <1>1 DEF Finish
<1>5. ledger' = [ledger EXCEPT ![e] = Append(@, f)]
  BY DEF Finish, Dispose
<1> HIDE DEF e
<1>6. e \in Held
  BY <1>3, HeldIs
<1>7. ledger[e] = <<>>
  BY <1>3, <1>6 DEF IInv, HandledOnce, Settled
<1>8. ledger' = [ledger EXCEPT ![e] = <<f>>]
  <2>1. Append(<<>>, f) = <<f>>
    OBVIOUS
  <2> QED
    BY <1>5, <1>7, <2>1
<1>9. Held' = Held \ {e}
  <2>1. \A x : x \in Held' <=> \/ x \in Range(messageCh')
                               \/ \E v \in Workers : x \in Range(batch'[v])
    BY DEF Held
  <2>2. /\ e \notin Range(messageCh)
        /\ \A v \in Workers \ {w} : e \notin Range(batch[v])
    BY <1>3 DEF IInv, OnePlace
  <2>3. \A x : x \in Held' <=> x \in Held /\ x # e
    BY <2>1, <2>2, <1>3, <1>4, HeldIs
  <2> QED
    BY <2>3
<1>10. D!Leave(e, f)
  BY <1>6, <1>7, <1>8, <1>9 DEF D!Leave
<1> QED
  BY <1>3, <1>10

LEMMA WorkerRefines ==
  ASSUME IInv, NEW w \in Workers, Worker(w)
  PROVE  \/ \E e \in Events, f \in WorkerFates(w) : D!Leave(e, f)
         \/ UNCHANGED <<Held, ledger>>
<1>1. CASE Receive(w)
  <2>1. UNCHANGED ledger
    BY <1>1 DEF Receive, ledgerVars
  <2>2. /\ messageCh \in Seq(Events) /\ messageCh # <<>>
        /\ batch \in [Workers -> Seq(Events)] /\ batch[w] \in Seq(Events)
    BY <1>1 DEF Receive, IInv, TypeOK, WriterTypeOK
  <2>3. /\ Head(messageCh) \in Events
        /\ Range(messageCh) = Range(Tail(messageCh)) \cup {Head(messageCh)}
    BY <2>2, TakeFromQueue
  <2>4. /\ messageCh' = Tail(messageCh)
        /\ batch'[w] = Append(batch[w], Head(messageCh))
        /\ \A v \in Workers \ {w} : batch'[v] = batch[v]
    BY <1>1, <2>2 DEF Receive
  <2>5. Range(batch'[w]) = Range(batch[w]) \cup {Head(messageCh)}
    BY <2>2, <2>3, <2>4, AppendToQueue
  <2>6. \A x : x \in Held' <=> \/ x \in Range(messageCh')
                               \/ \E v \in Workers : x \in Range(batch'[v])
    BY DEF Held
  <2>7. \A x : x \in Held' <=> x \in Held
    BY <2>3, <2>4, <2>5, <2>6, HeldIs
  <2>8. Held' = Held
    BY <2>7
  <2> QED
    BY <2>1, <2>8
<1>2. CASE Tick(w) \/ StopIdle(w) \/ StopAfterFlush(w) \/ DLQError(w) \/ DLQRetry(w)
  BY <1>2 DEF Tick, StopIdle, StopAfterFlush, DLQError, DLQRetry, Held, ledgerVars
<1>3. CASE \/ FlushSend(w) \/ FlushCancelled(w)
           \/ DLQSend(w) \/ DLQGiveUp(w) \/ DLQCancelled(w)
  <2>1. wpc[w] \in Flushing
    BY <1>3, FinishSteps
  <2>2. PICK f \in WorkerFates(w), pc \in Flushing \ {"dlqWait"} : Finish(w, f, pc)
    BY <1>3, FinishSteps
  <2>3. f \in Fates
    BY DEF WorkerFates, Fates, DeliveredFates, CountedFates, SilentFates
  <2> QED
    BY <2>1, <2>2, <2>3, FinishRefines
<1> QED
  BY <1>1, <1>2, <1>3 DEF Worker

LEMMA WorkerMoves ==
  ASSUME IInv, NEW w \in Workers, Worker(w)
  PROVE  /\ UNCHANGED <<ctxDone, closed>>
         /\ \/ UNCHANGED <<Held, ledger>>
            \/ \E e \in Events, f \in WorkerFates(w) :
                 /\ e \in Held /\ ledger[e] = <<>>
                 /\ Held' = Held \ {e}
                 /\ ledger' = [ledger EXCEPT ![e] = <<f>>]
<1>1. UNCHANGED <<ctxDone, closed>>
  BY DEF Worker, Receive, Tick, StopIdle, StopAfterFlush, FlushSend, FlushCancelled,
         DLQSend, DLQError, DLQGiveUp, DLQRetry, DLQCancelled, Finish, ledgerVars
<1> QED
  BY <1>1, WorkerRefines DEF D!Leave

(* As long as no flush has run out of its time, nothing goes to the dead   *)
(* letters.                                                                *)
NoDeadLetters == \A w \in Workers : wpc[w] \notin {"dlqSend", "dlqWait"}

LEMMA NoDeadLettersKept ==
  ASSUME IInv, NEW w \in Workers, Worker(w), NoDeadLetters, ~FlushCtxDone
  PROVE  NoDeadLetters'
<1>1. wpc \in [Workers -> WorkerStates]
  BY DEF IInv, TypeOK, WriterTypeOK
<1>2. Receive(w) \/ Tick(w) \/ StopIdle(w) \/ StopAfterFlush(w) \/ FlushSend(w)
  BY DEF Worker, NoDeadLetters, FlushCancelled, DLQSend, DLQError, DLQGiveUp, DLQRetry,
         DLQCancelled
<1>3. CASE FlushSend(w)
  BY <1>1, <1>3 DEF FlushSend, Finish, AfterFlush, NoDeadLetters
<1>4. CASE Receive(w) \/ Tick(w) \/ StopIdle(w) \/ StopAfterFlush(w)
  BY <1>1, <1>4 DEF Receive, Tick, StopIdle, StopAfterFlush, NoDeadLetters
<1> QED
  BY <1>2, <1>3, <1>4

(* A step beside the writer keeps its invariant, if it settles nothing     *)
(* that the writer holds, and nothing twice.                               *)
LEMMA BesideInv ==
  ASSUME IInv, UNCHANGED writerVars, ledger' \in [Events -> Seq(Fates)], ctxDone' \in BOOLEAN,
         \A e \in Events : Len(ledger'[e]) <= 1 /\ (e \in Held => ledger'[e] = <<>>)
  PROVE  IInv' /\ Held' = Held
<1>1. UNCHANGED <<messageCh, closed, wpc, batch, attempt, leaving>>
  BY DEF writerVars
<1>2. TypeOK'
  BY <1>1 DEF IInv, TypeOK, LedgerTypeOK, WriterTypeOK
<1>3. Held' = Held
  BY <1>1 DEF Held
<1>4. HandledOnce'
  BY <1>3 DEF HandledOnce, Settled
<1> QED
  BY <1>1, <1>2, <1>3, <1>4 DEF IInv, OnePlace, BatchesInBounds

LEMMA StepRefines == IInv /\ [Next]_vars => [D!Next]_D!vars
<1> SUFFICES ASSUME IInv, [Next]_vars PROVE D!Next \/ UNCHANGED <<Held, ledger>>
  BY DEF D!vars
<1>1. ASSUME NEW e \in Events, NextToWrite(e), Write(e) PROVE D!Next
  <2>1. ~Handed(e)
    BY <1>1 DEF NextToWrite
  <2>2. CASE WriteAccept(e)
    BY <2>1, <2>2, AcceptRefines DEF D!Next
  <2>3. CASE WriteFull(e) \/ WritePanic(e)
    <3>1. PICK f \in {"writerFull", "writerPanic"} :
            Dispose(e, f) /\ UNCHANGED writerVars
      BY <2>3 DEF WriteFull, WritePanic
    <3>2. f \in Fates
      BY DEF Fates, CountedFates, SilentFates
    <3>3. D!Refuse(e, f)
      BY <2>1, <3>1, <3>2, RefuseRefines
    <3> QED
      BY <3>3 DEF D!Next
  <2> QED
    BY <1>1, <2>2, <2>3 DEF Write
<1>2. ASSUME NEW w \in Workers, Worker(w)
      PROVE  D!Next \/ UNCHANGED <<Held, ledger>>
  <2>1. CASE UNCHANGED <<Held, ledger>>
    BY <2>1
  <2>2. ASSUME NEW e \in Events, NEW f \in WorkerFates(w), D!Leave(e, f) PROVE D!Next
    BY <2>2 DEF D!Next, WorkerFates
  <2> QED
    BY <1>2, <2>1, <2>2, WorkerRefines
<1>3. CASE CloseChannel \/ Cancel \/ UNCHANGED vars
  BY <1>3 DEF CloseChannel, Cancel, vars, ledgerVars, writerVars, Held
<1> QED
  BY <1>1, <1>2, <1>3 DEF Next, AtRest

(* The writer (writer.go) is a Delivery: whatever it has accepted, it      *)
(* holds until it disposes of it, once, in one of the five ways of         *)
(* flushBatch and writeToDLQ.                                              *)
THEOREM WriterIsDelivery == Spec => ImplementsDelivery
<1>1. Init => D!Init
  <2> SUFFICES ASSUME Init PROVE D!Init
    OBVIOUS
  <2>1. TypeOK /\ OnePlace
    BY InitInv DEF IInv
  <2>2. messageCh = <<>> /\ \A w \in Workers : batch[w] = <<>>
    BY DEF Init, WriterInit
  <2>3. Range(messageCh) = {}
    BY <2>1, <2>2, EmptyRange DEF TypeOK, WriterTypeOK
  <2>4. \A w \in Workers : Range(batch[w]) = {}
    BY <2>1, <2>2, EmptyRange DEF TypeOK, WriterTypeOK
  <2>5. Held = {}
    BY <2>3, <2>4 DEF Held
  <2> QED
    BY <2>5 DEF Init, LedgerInit, D!Init
<1>2. IInv /\ [Next]_vars => [D!Next]_D!vars
  BY StepRefines
<1> QED
  BY <1>1, <1>2, Invariance, PTL DEF Spec, ImplementsDelivery, D!Spec
=============================================================================
