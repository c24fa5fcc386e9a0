---------------------------- MODULE KafkaProducer ----------------------------
(***************************************************************************)
(* The asynchronous producer, internal/kafka/producer.go: SendMessage, the *)
(* two goroutines that read the results, and Close.                        *)
(*                                                                         *)
(* The sarama producer it wraps is external and appears as producer.go     *)
(* uses it: a bounded Input, a result for every message it took, on one of *)
(* two bounded channels, and a Close that refuses to end before it has     *)
(* handed over every result, and then closes Input and the channels.       *)
(***************************************************************************)
EXTENDS Naturals, Sequences, FiniteSets

CONSTANTS
  Messages,       \* what anybody sends
  InputCapacity,  \* how many messages sarama takes without an answer
  ResultCapacity  \* the size of the Errors and of the Successes channel

ASSUME ProducerAssumption ==
  InputCapacity \in Nat \ {0} /\ ResultCapacity \in Nat \ {0}

VARIABLES
  inflight,       \* the messages sarama has taken and not answered
  results,        \* the answers in the Errors and in the Successes channel
  handlerUp,      \* handleErrors, handleSuccesses have not returned
  closing,        \* where Close is
  inputClosed,    \* sarama has closed Input and the two channels
  outcome         \* outcome[m]: what became of m's results

producerVars == <<inflight, results, handlerUp, closing, inputClosed, outcome>>

Kinds == {"error", "success"}

ProducerInit ==
  /\ inflight = {}
  /\ results = [k \in Kinds |-> {}]
  /\ handlerUp = [k \in Kinds |-> TRUE]
  /\ closing = "open"
  /\ inputClosed = FALSE
  /\ outcome = [m \in Messages |-> <<>>]

-----------------------------------------------------------------------------
(* SendMessage, in the goroutine that calls it: Input takes the message;   *)
(* what happens otherwise is up to the caller's context.  A send on the    *)
(* closed Input panics.                                                    *)

InputFull == Cardinality(inflight) >= InputCapacity

SendMessage(m) ==
  /\ ~inputClosed
  /\ ~InputFull
  /\ inflight' = inflight \cup {m}
  /\ UNCHANGED <<results, handlerUp, closing, inputClosed, outcome>>

-----------------------------------------------------------------------------
(* sarama.                                                                 *)

Answer(m, k) ==
  /\ m \in inflight
  /\ Cardinality(results[k]) < ResultCapacity
  /\ inflight' = inflight \ {m}
  /\ results' = [results EXCEPT ![k] = @ \cup {m}]
  /\ UNCHANGED <<handlerUp, closing, inputClosed, outcome>>

InputCloses ==
  /\ closing = "draining"
  /\ ~inputClosed
  /\ inflight = {}
  /\ inputClosed' = TRUE
  /\ UNCHANGED <<inflight, results, handlerUp, closing, outcome>>

Sarama == (\E m \in Messages, k \in Kinds : Answer(m, k)) \/ InputCloses

-----------------------------------------------------------------------------
(* handleErrors and handleSuccesses.                                       *)

Take(m, k, fate) ==
  /\ m \in results[k]
  /\ results' = [results EXCEPT ![k] = @ \ {m}]
  /\ outcome' = [outcome EXCEPT ![m] = Append(@, fate)]

Counted == [error |-> "countedFailed", success |-> "countedWritten"]

(* Slip: a handler returns after its first result.                         *)
HandleOnce(m, k) ==
  /\ handlerUp[k]
  /\ Take(m, k, Counted[k])
  /\ handlerUp' = [handlerUp EXCEPT ![k] = FALSE]
  /\ UNCHANGED <<inflight, closing, inputClosed>>

(* A result is counted and, if it is an error, logged.  That is all: no    *)
(* message goes to the dead letter topic from here.                        *)
Handle(m, k) ==
  /\ handlerUp[k]
  /\ Take(m, k, Counted[k])
  /\ UNCHANGED <<inflight, handlerUp, closing, inputClosed>>

(* The producer's own context is done, or the channel is closed and empty, *)
(* which comes later.                                                      *)
HandlerStops(k) ==
  /\ handlerUp[k]
  /\ closing # "open"
  /\ handlerUp' = [handlerUp EXCEPT ![k] = FALSE]
  /\ UNCHANGED <<inflight, results, closing, inputClosed, outcome>>

Handler(k) == (\E m \in Messages : Handle(m, k)) \/ HandlerStops(k)

-----------------------------------------------------------------------------
(* Close: cancel the context of the handlers, close sarama's producer,     *)
(* which reads the remaining results itself and throws them away, and wait *)
(* for the handlers.                                                       *)

CloseGoes(from, to) ==
  /\ closing = from
  /\ closing' = to
  /\ UNCHANGED <<inflight, results, handlerUp, inputClosed, outcome>>

CloseCancels == CloseGoes("open", "cancelled")

CloseAsks == CloseGoes("cancelled", "draining")

(* Slip: sarama is asked to close and nobody reads the results any more.   *)
CloseReadsNothing == FALSE

CloseReads ==
  /\ closing = "draining"
  /\ \E m \in Messages, k \in Kinds : Take(m, k, "thrownAway")
  /\ UNCHANGED <<inflight, handlerUp, closing, inputClosed>>

(* Slip: AsyncClose in the place of Close, which waits for nothing.        *)
CloseDoneAtOnce == CloseGoes("draining", "waiting")

CloseDone ==
  /\ inputClosed
  /\ \A k \in Kinds : results[k] = {}
  /\ CloseGoes("draining", "waiting")

CloseReturns ==
  /\ \A k \in Kinds : ~handlerUp[k]
  /\ CloseGoes("waiting", "closed")

Close == CloseCancels \/ CloseAsks \/ CloseReads \/ CloseDone \/ CloseReturns

-----------------------------------------------------------------------------
Outcomes == {"countedFailed", "countedWritten", "thrownAway"}

ProducerTypeOK ==
  /\ inflight \subseteq Messages
  /\ results \in [Kinds -> SUBSET Messages]
  /\ handlerUp \in [Kinds -> BOOLEAN]
  /\ closing \in {"open", "cancelled", "draining", "waiting", "closed"}
  /\ inputClosed \in BOOLEAN
  /\ outcome \in [Messages -> Seq(Outcomes)]
=============================================================================
