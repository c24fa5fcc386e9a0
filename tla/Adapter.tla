------------------------------- MODULE Adapter -------------------------------
(***************************************************************************)
(* The running adapter, cmd/consumer/main.go: the ingest side, the event   *)
(* queue, the goroutine of writeToKafka that moves events from the queue   *)
(* to the batch writer, the writer's workers, and main itself, which waits *)
(* for a signal and then shuts all of it down.                             *)
(*                                                                         *)
(* Time is left out: a timeout of main may strike whenever main waits.     *)
(* When main returns the process ends, and with it every goroutine.        *)
(***************************************************************************)
EXTENDS Ingest, FiniteSets

CONSTANTS Workers, MaxMessages, InputMayStall

VARIABLES messageCh, closed, wpc, batch, attempt, leaving

(* The writer, with the lemmas on its operations.                          *)
W == INSTANCE KafkaWriterProofs

ASSUME AdapterAssumption == W!WriterAssumption

VARIABLES
  hasWriter,      \* NewProducer succeeded, so there is a writer
  loopUp,         \* the goroutine of writeToKafka has not returned
  writing,        \* the event writeToKafka holds, as a sequence
  mpc             \* where main is

writerVars == <<messageCh, closed, wpc, batch, attempt, leaving>>

loopVars == <<loopUp, writing>>

vars == <<ledgerVars, ingestVars, writerVars, hasWriter, loopVars, mpc>>

MainStates == {"running", "draining", "confirming", "closing",
               "waitWriter", "waitAll", "exited"}

(* Without a producer no worker is started (main.go:254).                  *)
Init ==
  /\ LedgerInit
  /\ IngestInit
  /\ messageCh = <<>>
  /\ closed = FALSE
  /\ hasWriter \in BOOLEAN
  /\ wpc = [w \in Workers |-> IF hasWriter THEN "select" ELSE "exited"]
  /\ batch = [w \in Workers |-> <<>>]
  /\ attempt = [w \in Workers |-> 0]
  /\ leaving = [w \in Workers |-> FALSE]
  /\ loopUp = TRUE
  /\ writing = <<>>
  /\ mpc = "running"

-----------------------------------------------------------------------------
(* writeToKafka: Pop, normalise and serialise, Write.                      *)

(* Slip: a second event is popped before the one in hand is written.       *)
LoopPopTwo ==
  /\ loopUp
  /\ \E e \in Events : Pop(e) /\ writing' = Append(writing, e)
  /\ UNCHANGED <<ledgerVars, writerVars, hasWriter, loopUp, mpc>>

LoopPop ==
  /\ loopUp
  /\ writing = <<>>
  /\ \E e \in Events : Pop(e) /\ writing' = <<e>>
  /\ UNCHANGED <<ledgerVars, writerVars, hasWriter, loopUp, mpc>>

(* Slip: an event that cannot be normalised is skipped without a count.    *)
LoopInvalidUncounted ==
  /\ loopUp
  /\ writing = <<>>
  /\ \E e \in Events : Pop(e)
  /\ UNCHANGED <<ledgerVars, writerVars, hasWriter, loopVars, mpc>>

(* Normalize or the serialisation fails: the event is skipped.             *)
LoopInvalid ==
  /\ loopUp
  /\ writing = <<>>
  /\ \E e \in Events : Pop(e) /\ Dispose(e, "invalid")
  /\ UNCHANGED <<ctxDone, writerVars, hasWriter, loopVars, mpc>>

(* Pop's select takes ctx.Done(), whatever the queue holds.                *)
LoopStops ==
  /\ loopUp
  /\ writing = <<>>
  /\ ctxDone
  /\ loopUp' = FALSE
  /\ UNCHANGED <<ledgerVars, ingestVars, writerVars, hasWriter, writing, mpc>>

LoopSkips ==
  /\ writing # <<>>
  /\ ~hasWriter
  /\ Dispose(Head(writing), "noWriter")
  /\ writing' = <<>>
  /\ UNCHANGED <<ctxDone, ingestVars, writerVars, hasWriter, loopUp, mpc>>

LoopWrites ==
  /\ writing # <<>>
  /\ hasWriter
  /\ W!WriteAccept(Head(writing)) \/ W!WriteFull(Head(writing))
  /\ writing' = <<>>
  /\ UNCHANGED <<ingestVars, hasWriter, loopUp, mpc>>

(* Slip: the panic is recovered inside the loop, which goes on.            *)
LoopPanicsAndGoesOn ==
  /\ writing # <<>>
  /\ hasWriter
  /\ W!WritePanic(Head(writing))
  /\ writing' = <<>>
  /\ UNCHANGED <<ingestVars, hasWriter, loopUp, mpc>>

(* Write panics on the closed channel; the goroutine recovers and ends.    *)
LoopPanics ==
  /\ writing # <<>>
  /\ hasWriter
  /\ W!WritePanic(Head(writing))
  /\ writing' = <<>>
  /\ loopUp' = FALSE
  /\ UNCHANGED <<ingestVars, hasWriter, mpc>>

Loop == LoopPop \/ LoopInvalid \/ LoopStops \/ LoopSkips \/ LoopWrites \/ LoopPanics

-----------------------------------------------------------------------------
(* main, from the signal to its return.                                    *)

MainGoes(from, to) ==
  /\ mpc = from
  /\ mpc' = to
  /\ UNCHANGED <<ingestVars, hasWriter, loopVars>>

(* The signal, SetShutdown and cancel().                                   *)
Signal ==
  /\ MainGoes("running", "draining")
  /\ CancelContext
  /\ UNCHANGED <<ledger, writerVars>>

(* The drain loop: at a tick the queue is empty, and half a second later   *)
(* it is empty still, or it is not and the loop goes on.                   *)
DrainSeesEmpty ==
  /\ queue = <<>>
  /\ MainGoes("draining", "confirming")
  /\ UNCHANGED <<ledgerVars, writerVars>>

DrainConfirms ==
  /\ queue = <<>>
  /\ MainGoes("confirming", "closing")
  /\ UNCHANGED <<ledgerVars, writerVars>>

DrainResumes ==
  /\ queue # <<>>
  /\ MainGoes("confirming", "draining")
  /\ UNCHANGED <<ledgerVars, writerVars>>

(* Slip: the drain loop has no deadline.                                   *)
DrainNeverTimesOut == FALSE

DrainTimesOut ==
  /\ MainGoes("draining", "closing")
  /\ UNCHANGED <<ledgerVars, writerVars>>

ClosesWriter ==
  /\ hasWriter
  /\ MainGoes("closing", "waitWriter")
  /\ W!CloseChannel

SkipsWriter ==
  /\ ~hasWriter
  /\ MainGoes("closing", "waitAll")
  /\ UNCHANGED <<ledgerVars, writerVars>>

WriterDone ==
  /\ W!AllExited
  /\ MainGoes("waitWriter", "waitAll")
  /\ UNCHANGED <<ledgerVars, writerVars>>

WriterTimesOut ==
  /\ MainGoes("waitWriter", "waitAll")
  /\ UNCHANGED <<ledgerVars, writerVars>>

(* The servers' shutdown and the log's sync, which touch none of this      *)
(* state, come with the return.                                            *)
GoroutinesDone == ~readerUp /\ ~processorUp /\ ~loopUp

Returns ==
  /\ GoroutinesDone
  /\ MainGoes("waitAll", "exited")
  /\ UNCHANGED <<ledgerVars, writerVars>>

ReturnsByTimeout ==
  /\ MainGoes("waitAll", "exited")
  /\ UNCHANGED <<ledgerVars, writerVars>>

Main ==
  \/ DrainSeesEmpty \/ DrainConfirms \/ DrainResumes \/ DrainTimesOut
  \/ ClosesWriter \/ SkipsWriter \/ WriterDone \/ WriterTimesOut
  \/ Returns \/ ReturnsByTimeout

-----------------------------------------------------------------------------
kafkaSide == <<writerVars, hasWriter, loopVars, mpc>>

Arrive == \E e \in Events : Recv(e) /\ UNCHANGED kafkaSide

ReaderStep == Reader /\ UNCHANGED kafkaSide

ProcessorStep == Processor /\ UNCHANGED kafkaSide

WorkerStep(w) == W!Worker(w) /\ UNCHANGED <<ingestVars, hasWriter, loopVars, mpc>>

Running == mpc # "exited"

AtRest == ~Running /\ UNCHANGED vars

Next ==
  \/ /\ Running
     /\ \/ Arrive \/ ReaderStep \/ ProcessorStep \/ Loop
        \/ \E w \in Workers : WorkerStep(w)
        \/ Signal \/ Main
  \/ AtRest

(* The same, but none of main's waits times out: each ends because what it *)
(* waits for has come about.  The drain loop then waits for as long as the *)
(* queue holds an event.                                                   *)
DrainWaits == mpc = "draining" /\ queue # <<>> /\ UNCHANGED vars

InTime ==
  /\ mpc = "draining" => mpc' # "closing"
  /\ mpc = "waitWriter" /\ mpc' = "waitAll" => W!AllExited
  /\ mpc = "waitAll" /\ mpc' = "exited" => GoroutinesDone

InTimeSpec == Init /\ [][(Next /\ InTime) \/ DrainWaits]_vars

(* Go schedules every goroutine, the tickers fire and main's waits are all *)
(* bounded.  Tetragon need not send and nobody need send a signal.         *)
Fairness ==
  /\ WF_vars(Running /\ ReaderStep /\ (offered # <<>> \/ ctxDone))
  /\ WF_vars(Running /\ ProcessorStep)
  /\ WF_vars(Running /\ Loop)
  /\ \A w \in Workers : WF_vars(Running /\ WorkerStep(w))
  /\ WF_vars(Main)

Spec == Init /\ [][Next]_vars /\ Fairness

-----------------------------------------------------------------------------
(* Where an event is while the adapter has it, oldest place first.         *)
InAdapter == W!Held \cup Range(writing) \cup Range(Pipeline)

(* The type invariant.                                                     *)
TypeOK ==
  /\ IngestTypeOK
  /\ W!WriterTypeOK
  /\ hasWriter \in BOOLEAN
  /\ loopUp \in BOOLEAN
  /\ writing \in Seq(Events) /\ Len(writing) <= 1
  /\ mpc \in MainStates

(* The adapter as a whole is a Delivery: every event Recv has returned is  *)
(* in one of its buffers until it is disposed of, once, at one of the      *)
(* places that can.                                                        *)
D == INSTANCE Delivery WITH
       held <- InAdapter, RefusalFates <- {}, LeavingFates <- Fates

ImplementsDelivery == D!Spec

(* As long as nobody asks for a shutdown and the producer keeps taking     *)
(* messages, every event that does not reach Kafka is counted by a metric. *)
SilentLossOnlyAtShutdown ==
  ~InputMayStall => \A e \in Events : Silent(e) => mpc # "running"

(* With one worker an event is never handed to the producer while an       *)
(* earlier one is still anywhere in the adapter.                           *)
ProducedInOrder ==
  [][ \A e \in Events :
        HasFate(e, "produced")' /\ ~HasFate(e, "produced") /\ Cardinality(Workers) = 1
          => \A d \in Events : d < e => d \notin InAdapter' ]_vars

(* A write that meets the closed channel is the last thing the goroutine   *)
(* of writeToKafka does: at most one event is lost to the panic.           *)
OnePanicAtMost ==
  \A d, e \in Events :
    HasFate(d, "writerPanic") /\ HasFate(e, "writerPanic") => d = e /\ ~loopUp

(* While the adapter runs, an event it received is disposed of in the end. *)
ReceivedIsSettled ==
  \A e \in Events : e \in received ~> (Settled(e) \/ ctxDone)

(* The shutdown ends: after the signal main returns, whatever the other    *)
(* goroutines do.                                                          *)
ShutdownEnds == ctxDone ~> mpc = "exited"

(* README.md:13, graceful shutdown: "no data is lost".  When main returns  *)
(* no event is left in a buffer: stated for an adapter with a writer, and  *)
(* checked under InTimeSpec, where main returns only after the workers and *)
(* all other goroutines have, so that no wait was too short.               *)
NothingLeftBehind == mpc = "exited" /\ hasWriter => InAdapter = {}

(* main.go:411: when main closes the writer's channel "the goroutine of    *)
(* writeToKafka should have returned", and writer.go:72: no Write after    *)
(* Close.                                                                  *)
NoWriteAfterClose == \A e \in Events : ~HasFate(e, "writerPanic")
=============================================================================
