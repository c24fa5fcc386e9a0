# TLA+ models of the Tetragon Kafka adapter

The adapter (`cmd/consumer/main.go` and `internal/`) reads security events from Tetragon over a gRPC stream
and writes them to Kafka. It is a chain of goroutines connected by bounded channels, all of them under one
root context that `main` cancels at shutdown. This directory models that chain, checks the models with TLC on
small instances, and proves all of what is checked but liveness with TLAPS for every value of the constants.

## The system

```
 Tetragon ==gRPC==> ReadEvents --grpcEventCh--> processEvents --Queue.ch--> writeToKafka --messageCh--> workers --> sarama --> Kafka
                    (RunWithReconnect)           (Sampler)                   (Normalize, Route, key)    (batches, DLQ)
 every goroutine --log--> KafkaCore.logCh --> log worker --> sarama          main: start-up, signal, shutdown
```

| component | state it keeps | operations | what is hard | what makes it correct |
|---|---|---|---|---|
| batch writer `kafka/writer.go` | channel, a batch per worker | `Write`, `worker`, `flushBatch`, `writeToDLQ`, `Close`, `Wait` | workers, ticker, `Close` and cancellation in any order; a flush cut short | a message is held once and disposed of once; batches stay in bounds; workers drain and return |
| reader `grpc/stream.go` | the event in hand | `ReadEvents` | drops without blocking; select against the context | every event is passed on, counted or cut off by the context |
| `processEvents` in `main.go` | the event in hand | loop | three ways to lose an event, one goroutine | no failure ends the loop |
| event queue `queue/queue.go` | channel | `Push` (drop or block mode), `Pop`, `Size` | full queue, cancelled wait | order; block mode lets go at shutdown |
| sampler `queue/sampler.go` | random source | `ShouldSample` | none, one goroutine | - |
| `writeToKafka` in `main.go` | the event in hand | loop | several early `continue`s; a panic that is recovered | one disposal per event |
| shutdown in `main.go` | where main is | signal, drain loop, close, waits | what it waits for may have stopped already | it ends; nothing is lost (not so, see Findings) |
| reconnect manager `grpc/reconnect.go`, `client.go`, `config.GetReconnectBackoff` | client, attempt counter | `RunWithReconnect` | overflow, budget, a dial that fails after the close | one connection; exact budget; stops and goes on when it should |
| producer `kafka/producer.go` | sarama's queues, two handlers | `SendMessage`, handlers, `Close` | closing while others send; results nobody reads | one outcome per message; `Close` returns, and then nothing is left in sarama |
| log core `logger/kafka_core.go`, `logger.go` | channel, batch | `Write`, worker, `Sync`, `With` | clones; nothing ever stops the worker | entries once and in order; `Sync` waits for them (not so) |
| start-up in `main.go` | where main is, the shared `err`, producer, loggers | load, validate, servers, producer, pipeline, readiness | data race on `err`; two loggers; a signal before `signal.Notify`; restarts | main judges its own producer's error; log lines are heard |
| health server `health/server.go` | ready and shutdown flags | `SetReady`, `SetShutdown`, `healthHandler` | a probe overtaken by the shutdown; readiness by the clock | who asks after `SetShutdown` is refused (nothing follows from "healthy" about producer and stream, see Findings) |
| topic admin `kafka/topic_admin.go` | topics of the cluster | `EnsureTopics` | list, then create, while other replicas do; failures that are only logged | every event has a topic, unless the cluster failed |
| router `router/`, dedup key `kafka/partition_key.go` | none | pure functions | events that share a key under compaction | only duplicates vanish |
| normaliser, schema | none | pure functions | - | - |
| configuration `config/`, `logger.Init` | none of their own | load, validate, outputs | defaults that stay; values accepted here and refused by sarama | the validator's bounds are the models' assumptions |
| metrics | counters | - | - | - |

`PROJECT.json` lists the components with what is modelled of each, and the hazards at their lines.

## Modules

| module | models | 
|---|---|
| `EventLedger` | the events (a number each, in order of arrival), the root context, and the ledger: a history variable that records every disposal of every event |
| `Delivery` | abstract specification of a stage: an event handed in is refused or held, and a held one leaves in exactly one way |
| `KafkaWriter` | `internal/kafka/writer.go`: the operations, and as a specification of its own a caller, `Close` and the cancellation at any time |
| `KafkaWriterProofs` | the theorems about it |
| `OrderedSequences`, `SequenceFacts` | what it means for a queue to be in order; lemmas on sequences used as queues: order, no repetition; induction and recursion over the naturals |
| `Ingest` | operations of reader, sampler, `processEvents` and event queue |
| `IngestSystem`, `IngestProofs`, `IngestSteps` | `Ingest` with a consumer that pops; its theorems; the lemmas on `Ingest`'s steps, for any set of events behind the queue |
| `Adapter`, `AdapterProofs` | `Ingest` + `KafkaWriter` + `writeToKafka` + `main` from the signal to the last wait; its theorems |
| `GrpcReconnect`, `GrpcReconnectProofs` | the reconnect manager, with durations of bounded width; its theorems |
| `KafkaProducer` | `internal/kafka/producer.go` around sarama, which is external |
| `KafkaLogCore` | `internal/logger/kafka_core.go` |
| `Routing` | `internal/router` and `internal/kafka/partition_key.go`: topic and compaction key of an event, as operators |
| `TopicAdmin` | `internal/kafka/topic_admin.go` against a cluster that lags behind, fails or does not answer, and another replica |
| `HealthServer` | `internal/health/server.go`: the flags and one probe in the handler |
| `AdapterConfig` | `Load`, `Validate`, `parseAcks` and the outputs of `logger.Init`, as operators on a configuration |
| `Startup`, `StartupProofs` | the four above + `main` from the first line to the signal and on to its return, the goroutines of the HTTP servers, crash and restart; its theorems |
| `Closedown`, `ClosedownProofs` | `KafkaProducer` + `KafkaLogCore` + the end of `main`: `logger.Sync` and the deferred calls; its theorems |
| `*MC` | constants for TLC |

State and code correspond as follows.

- A Go channel is a sequence, `len` and `cap` its length and a constant. A goroutine that has an event in hand
  has it in a sequence of length one (`offered`, `pushing`, `writing`), or in its `batch`.
- `select` is a choice between the actions whose case is ready; with a `default`, that action is enabled only
  if no other case is. `ctx.Done()` and another ready case are therefore both possible, as Go has it.
- A send on a closed channel panics: `WritePanic` (recovered in `writeToKafka`'s goroutine, which ends) and
  `LogPanics`, `LatePanics` (not recovered, the process ends).
- An action is one receive, one send or one check of the program with everything up to the next point at which
  other goroutines can be seen. `flushBatch` and `writeToDLQ` go message by message (`Finish`).
- Messages are told apart by trace id in `flushBatch`. Trace ids are 128 random bits, so the models take
  `len(sentMessages)` to be the number of messages the loop has reached.
- When `main` returns, the process ends and with it every goroutine (`Running`, `Ended`, `Ends`). The pod is then
  started again (`Restarts`); only the cluster, its topics and records, is as it was.
- The data race on `main`'s `err`: every store is a step, and main's `if err != nil` after `NewProducer` sees either
  the variable or the value it has just stored there (`JudgesProducer`), as both are code a compiler may make.
- A key is a sequence of tokens, so that concatenation can make one key of different fields; a token stands for
  a run of characters, and the separator for a token of its own. A digest of a long key is a token before it: unlike the
  program's 32 characters it grows with the key, which only stands for its being no other key.
- The outputs of the log are a list where main looks at it (`FirstOutputs`), and a set for the logger, which only asks
  what it contains.
- In `Startup` the pipeline is one action (`StoresEvent`: some event's record is in its topic), since what it does
  with events is the subject of `Adapter`; between the signal and `Shutdown` of the servers lies `Adapter`'s shutdown.

Definitions whose comment begins with "Slip" are not part of any specification. Each is a plausible mistake in
the operation after it; put in that operation's place, it makes the property listed beside it in `PROJECT.json` fail.

## Runs

| run | instance | checks |
|---|---|---|
| `KafkaWriter` | 5 messages, 2 workers, batches of 2, stalling Input | types; `OnePlace`; `HandledOnce`; `BatchesInBounds`; `StrandedOnlyByCancel`; refinement of `Delivery`; `AcceptedIsSettled`, `WorkersReturn` |
| `Ingest` | 5 events, channels of 2, both modes, sampling, a reader that may give up | types; `InArrivalOrder`; `Accounted`; `ReceivedIsConsumed`, `ProcessorFree` |
| `Adapter` | 3 events, channels of 1, one worker, batches of 2, both modes, with and without a writer | types; `SilentLossOnlyAtShutdown`; `OnePanicAtMost`; refinement of `Delivery`; `ProducedInOrder`; `ReceivedIsSettled`, `ShutdownEnds` |
| `GrpcReconnect` | budgets 0, 1, 3; durations of 20 bits in ms | types; `OneConnection`; `StatusTruthful`; `GivesUpAtBudget`; `BackoffAsDesigned`; `StopsAfterCancel`, `KeepsTrying` |
| `Closedown` | 3 log entries, 1 late message, log channel of 2, Input of 2, result channels of 1 | types; `LogInOrder`; `SentIsAnswered`; the log core refines `Delivery`; `ResultsGetCounted`, `LogLeavesCore`, `MainEnds` |
| `Startup` | 7 configuration files, 5 events, 2 lives, 3 topics | types; `VerdictRight`; `EventsHaveATopic`; `LateProbesRefused`; `LogHeard`; `OnlyDuplicatesVanish` |
| `KafkaWriterUnsent`, `IngestBlock`, `AdapterNothingLeftBehind`, `AdapterNoWriteAfterClose`, `GrpcReconnectBackoff`, `ClosedownLog` | as the run they are named after, where the counterexample exists | one sentence of the documentation or of a comment each, which the code does not keep; `AdapterNothingLeftBehind` under `InTimeSpec`, in which no wait of main times out |

**Bounds.** A channel has to be empty, partly full and full, a batch has to fill up and to be cut short by the
ticker, and one more event than fits has to arrive. The writer's channel has `MaxMessages * workers` = 4 places
and the run 5 messages; `Ingest` has two channels of two and two hands. In `Adapter` every channel is as small
as the code allows, so that every way to lose an event needs one or two events. One worker is enough there,
since the order of events is kept by one worker only and the interplay of workers is `KafkaWriter`'s. Durations
of 20 bits with a second of 1000 units overflow as 64 bits with a second of 10^9 do, only sooner: the backoff
gets negative at attempt 10 and stays zero from 17 (34 and 55 in the program). The attempt counter saturates at
18, where the backoff has stopped changing. Everything else is finite by nature: events are numbered, not
generated.

The files of `Startup` cover each branch start-up takes: topics created or not, two event types that share a
topic, servers or none, a log to file, to both, to Kafka only, to Kafka given twice and to a misspelt output, an idempotent producer with
acks that sarama refuses, and a configuration that `Validate` refuses. The cluster begins with any subset
of the topics. The events include two that differ in the place of the separator only, one with the separator inside
a value, one with a field missing and one of a kind the router has no case for; keys of more than 3 tokens get a
digest, and one of the events has such a key. A second life is enough to come upon topics and records a first one has
left. The other replica acts while this one ensures its topics, the only time at which this one looks.

**Fairness.** Weak fairness for each goroutine, which is what Go's scheduler gives. It covers the tickers and
timeouts as well, because a goroutine at a `select` with a ticker does go on. Nothing is assumed of Tetragon
(events need not arrive, streams need not end, unless the context is done), of the operator (no signal need
come) or of Kafka, with one exception: sarama answers every message in the end, by its own retries and
timeouts. Which of several ready cases a `select` takes is left open. No liveness property needs strong fairness.
`Startup` assumes none: its properties are safety, and the process may be killed at any point.

**Time** is left out: a timeout of main may strike whenever main waits, a ticker whenever its goroutine
selects. The flush deadline of 30 s is a constant, `InputMayStall`: with it the flush may be cancelled at any
message, without it only by the context. This allows more than the program can do, never less, so the
safety properties carry over. The counterexamples do not depend on it: `NothingLeftBehind` is checked under `InTimeSpec`,
where no wait of main times out, and in the others the step that strikes is one the program can take at that point.
The five seconds of a log batch are over at any of its entries (`LogTimesOut`), as they are one limit for the whole batch.

## Findings

1. `KafkaWriterUnsent`: a cancelled flush writes `batch[len(sentMessages):]` to the DLQ, but the message at hand
   is already counted in `sentMessages`. It is lost (writer.go:226-227).
2. `IngestBlock`: block mode does not block the reader. `ReadEvents` drops when `grpcEventCh` is full
   (stream.go:84), whatever `drop_if_queue_full` says.
3. `AdapterNothingLeftBehind`: `cancel()` comes before draining (main.go:370), so everyone who would empty the
   buffers may return with events in them; README.md:13 of the repository promises no loss. In the trace the reader puts
   an event into `grpcEventCh` and returns, and so do `processEvents`, `writeToKafka` and the worker, all because of the
   context; main then sees the queue empty, the workers done and all goroutines done, without a timeout, and returns.
4. `AdapterNoWriteAfterClose`: an empty queue does not mean that `writeToKafka` is done. It may hold an event
   and write it to the channel main has just closed: a panic, not the `default` case writer.go:71 expects.
5. `GrpcReconnectBackoff`: `GetReconnectBackoff` doubles first and cuts afterwards; int64 overflows, and after
   55 reconnects (about 25 minutes at 30 s) the manager reconnects without a pause.
6. `ClosedownLog`: `With` clones the log core without its wait group, so `Sync` returns at once with entries
   still in the channel. The log worker then sends to a producer that is being closed.

Met while modelling start-up; no run is about them:

- The shared `err` (main.go:185, 213, 226) can make main throw away a producer that did come up, if a server failed at
  that moment. It is then never closed and its gauge stays at 1. `VerdictRight` states that nothing worse happens.
- Queue, health server and producer keep the logger of the first `Init` (main.go:119, 169, 226). With Kafka as the only
  output that one is a no-op, so that the producer's delivery errors (producer.go:158) are never seen; with file and
  Kafka they go on writing to the file that logger.go:108 says is switched off. An output spelt `Kafka` is found by
  the logger, not by main (main.go:59), and the log stays switched off.
- `EnsureTopics` returns nil whatever failed, so main.go:159 reports that all topics exist. The model's
  `EventsHaveATopic` therefore has to except the topics a request failed for.
- Keys leave out empty fields with their separators and do not escape the separator (partition_key.go:27), so that
  different events can get one key, and compaction keeps one of them. README.md:260 of the repository calls the key
  unique. `OnlyDuplicatesVanish` holds for events that have all fields and no separator inside, and says so.
- `partition_key.mode` is validated and never used: `GenerateDedupKey` looks at fields and separator only.
- The default map routes `process_lsm`, but `DetectEventType` has no such case: LSM events go to the unknown topic.
- deployment.yaml:52 probes `/ready`, which health/server.go answers with 404: such a pod never gets ready
  (`Answer` models it; professional.md:617 describes that path).
- The service gets ready two seconds after the pipeline's start (main.go:341), with or without producer and stream;
  main.go:339 says that it waits for all components, professional.md:616 that `/health` tells the state of both. No
  property ties "healthy" to them, since the code does not; `Started` is main's place in its program, no more.
- With the outputs `[kafka, kafka]` the first logger makes a file: main.go:65 looks for a list of length one, and
  main.go:80 then falls back to the file, though the comment in main.go:53 wants none when Kafka is the only output.

## Proofs

`KafkaWriterProofs` (assumptions `EventsAssumption` and `WriterAssumption` only, so for any finite set of
workers, any batch size, any set of numbered events, and an Input that stalls or not):

- `TypeCorrect`, `HeldInOnePlace`, `DisposedOfOnce`, `BatchBounds`: the invariants of the run. None of them is
  inductive alone. That a message is disposed of once needs that it is in one place (or a second worker would
  dispose of it again) and that what is held is not settled; that it is in one place needs that `Write` is given
  only new messages; and every step of a flush needs that its batch is not empty. So the inductive invariant
  is their conjunction, `IInv == TypeOK /\ OnePlace /\ HandledOnce /\ BatchesInBounds`, and each action has a lemma.
- `NothingStrandedByClose`: an inductive argument beside `IInv`: a worker returns without the cancellation only if the
  channel is closed and empty, and a closed channel takes nothing any more.
- `WriterIsDelivery`: the refinement. Under `IInv` every step of the writer maps to `Accept`, `Refuse`, `Leave`
  or a stutter of `Delivery`. Moving a message from the channel to a batch is the stutter, and the lemmas of
  `SequenceFacts` say that it leaves the set of held messages as it is.

`IngestProofs` (`EventsAssumption` and `IngestAssumption` only: any set of numbered events, any channel size, both modes,
with and without sampling): `TypeCorrect`, `ArrivalOrderKept` and `EveryEventAccounted`. The steps of `Ingest` are proved
in `IngestSteps`, once for both systems that contain it, around the invariant `IngestInv(P)`, where `P` is the set of
events that have left the queue for whatever lies behind it. Besides the types it has three parts. `Order` says for each
pair of the five places (`P`, queue, the processor's hand, the channel, the reader's hand) that all of the one is older
than all of the other, so a hand-over keeps the order; `Arrived`, that `Recv` has returned the events by number, so a new
one is younger than all others; `Account`, that received is the same as passing through or settled once. The last two
theorems need each other: that letting go of an event takes it out of the pipeline for good needs that no other place
holds it, which is the order's.

`AdapterProofs` (`EventsAssumption`, `IngestAssumption`, and `AdapterAssumption`, which is the writer's). The two sides
meet at the queue: `P` is what `writeToKafka` has in hand and what the writer holds, and the
invariant is `IngestInv` of it, the writer's `IInv`, and that the event in `writeToKafka`'s hand is not in the writer.
`Adapter` instantiates `KafkaWriterProofs` rather than `KafkaWriter`, so that the writer's lemmas hold in it as they stand;
a step of one side is, for the other, a step beside it (`BesideInv`, `SettledBehindInv`).

- `TypeCorrect`, and `AdapterIsDelivery`: every step is `Accept`, `Refuse`, `Leave` or a stutter of `Delivery`, where
  what is held is what lies anywhere from the reader's hand to a worker's batch.
- `OnePanicOnly`, from `HandInv`: once the goroutine has panicked it has nothing in hand, and takes nothing any more.
- `NoSilentLoss`, from `CalmInv`: before the signal the context is alive, the channel open, no worker writes dead letters
  unless its flush may run out of time, and so no step with a silent fate is enabled.
- `WriterKeepsItsPromises`: the writer's invariants hold here too, where `writeToKafka` and `main` are its callers.
- `OvertakingIsBounded`, from `InLine`: every batch is in order and older than the channel, and that is older than the hand; so
  the first of a batch, which is what a flush produces next, is older than all events but those in the batches of the
  other workers. It overtakes (workers - 1) * max_messages at most. `ProducedInArrivalOrder` is the case of one worker.
- `LossIsBounded`, from `Room`, the capacities of the channels: the events received and not disposed of are those in the
  buffers, at most 2 * max_queue + 2 * max_messages * writer_workers + 3 of them. Findings 3 and 4, and a crash, lose no
  more than that (sarama's own buffers come on top). No run checks these two bounds, because TLC needs more events than the
  runs have to reach them; with 8 events and all sizes 1, and with 4 events, 2 workers and batches of 2, TLC finds them kept,
  and reached.

`ClosedownProofs` (`ProducerAssumption`, `LogAssumption` and `LateAssumption`: any entries and late messages, any sizes):
`TypeCorrect`, `LogKeepsOrder`, `LogCoreDelivers` and `ProducerDelivers`, the two refinements of `Delivery`, and
`SentIsAlwaysAnswered`. That the producer is a `Delivery` is proved and not a property of the run: most of it is what sarama
is taken to do, one result for each message. What the code adds, that `Close` asks for the results and waits for them,
is `SentIsAnswered`. The invariant has three parts. `ProducerInv`: what sarama has is in flight or in one of the result channels, not in two of
them, and has no outcome yet. `LogInv`: the batch is older than the channel, entries are written in their order, and
what the core holds has no fate. `SendersInv` ties the two: an entry is new to sarama until the log core lets go of it,
and a late message until its worker does; without it sarama might be given a message it already has, and the
producer's `Accept` would fail. `SentIsAlwaysAnswered` needs two more: `ClosingInv`, how far `Close` and main are and what
is empty by then, and `AnswersInv`, that a sent entry is in sarama or has its one result.

`GrpcReconnectProofs` (`BudgetAssumption` and `DurationAssumption`: all budgets, jitters, backoff settings and widths of a
duration): `TypeCorrect`, `ConnectionKept`, `GaugeIsTruthful`, `BudgetIsExact`, `BackoffIsAsDesigned` and
`BackoffAlwaysVanishes`. The invariant has two parts that are no property of the run. `BudgetKept`: with a budget, `reconnects`
is `attempt`, or one more from the reconnect to the end of the pause, and neither passes the budget. `PauseKept`: from the
reconnect to the end of the pause, `wait` is the backoff of the attempt that is counted, plus a jitter. What that backoff is,
is arithmetic. `DoublingIsExact`: as long as the initial backoff times 2^n fits, wrapping keeps every doubling.
`DoublingShifts`: wrapping takes away multiples of 2^Width and so leaves the low bits alone, so that after n doublings the
lowest n bits are zero, and those a second ends in as well. When these are all there are, nothing is left
(`DoublingVanishes`). `BackoffAlwaysVanishes` is finding 5 for all settings: with 64 bits and a second of 10^9, which ends
in nine zero bits, every pause from attempt 55 on is the jitter alone. TLC finds the bound tight in the instance of the run.

`StartupProofs` (for all configuration files, traffic and numbers of restarts; assumed are only that a file has topics,
outputs, which are a list, and a key, whose fields are a list and whose separator is a text, that the strings of an event
are texts, that a text can name every event type, and that the default map has `unknown` and `dlq`):

- `VerdictAlwaysRight`, from `ErrInv`: a server returns without an error only after main has stopped it, which is after
  the verdict; so nil in `err` at the verdict can only be main's own, and an error other than its own needs a failure.
- `LateProbesAlwaysRefused`, from `HealthInv`: a probe that came after the shutdown has read the flag that says so,
  because the flag is never taken back while the process lives.
- `EventsAlwaysHaveATopic`, from `TopicInv`: every configured type is still to be looked at, being created, or covered;
  loading adds the defaults, so `Route` never leaves the map.
- `LogAlwaysHeard`, from a lemma on what main leaves of the list (`FirstOutputsKept`: a file in it means that it is not
  Kafka alone, which needs that it is a list) and one on what `LogOutputs` makes of its arguments.
- `TypeCorrect`, from `ErrInv`, `HealthInv` and two invariants for the rest: of the topics it needs that loading a
  configuration twice, as a second life does, is loading it once (`LoadKeeps`).
- `CompactionKeepsDistinct` (`OnlyDuplicatesVanish`): two events that have every field and no separator inside have one key
  only if they have the same fields (`KeyIdentifies`). Of two equal keys the part after the last separator is the same,
  since no value has the separator inside, and so is the rest, which is the key of one field less: an induction over the
  fields. A digest is longer than its text by a token, so it is told from another digest by the text; that no digest is
  also a short key follows from its length. The invariant `KeyInv` adds to this that the key setting stays well formed through
  every load and restart and that records are of events of the traffic; the step that compacts replaces a record by
  one with the same key.

Induction. The library's induction theorems have an operator parameter and cannot be cited. `SequenceFacts` gets induction from
one that has none, `WFMin`: a set of naturals that is not all of `Nat` misses a least member, so a set that has 0 and
with n also n + 1 is all of `Nat` (`Induction`). From this follows `Recursion`: an equation that defines a function on `Nat`
from its value one below has a solution. A recursive function of the models (`pow2`, `doubled`, `joined`) is a `CHOOSE` of a
solution of its equation, so these lemmas give it the equation. That is why the models use such functions and no `RECURSIVE`
operators.

Only model-checked is liveness, which is out of the prover's reach: `AcceptedIsSettled`, `WorkersReturn`,
`ReceivedIsConsumed`, `ProcessorFree`, `ReceivedIsSettled`, `ShutdownEnds`, `StopsAfterCancel`, `KeepsTrying`, `ResultsGetCounted`,
`LogLeavesCore` and `MainEnds`. Every invariant, action property and refinement of the passing runs is proved.

## Not modelled

- Message contents: JSON and protobuf encoding, headers, the schema's fields. In the pipeline an event is a number;
  its topic and key are modelled in `Routing`.
- Metrics other than those that tell what became of an event and the connection gauge, the memory ticker among them.
  Logging, except as the log core's input and for where it goes; rate limits on log lines.
- TLS set-up, environment variables and the syntax of addresses (pure I/O), except as ways to fail. The numeric bounds
  of `Validate` are the constants' assumptions; settings handed on to sarama and to the cluster have no effect here.
- `Queue.Close` and its metrics goroutine, `KafkaCore.Close` (no caller), pprof (configured, never started).
- Delivery to the DLQ after sarama has given a message up: the code does not attempt it (`Handle` counts it only).

## Plan

The order in which the modules were and will be written, most important first:

1. done: `KafkaWriter` with proofs, `Ingest`, `Adapter`, `GrpcReconnect` with proofs, `KafkaProducer`, `KafkaLogCore`, `Closedown`.
2. done: `Routing`, `TopicAdmin`, `HealthServer`, `AdapterConfig` and their composition `Startup`, with proofs.
3. done: proofs of `Ingest` (`InArrivalOrder` and `Accounted`, with the lemmas of `SequenceFacts`).
4. done: proofs of `Adapter` (refinement of `Delivery`, from the writer's invariant and `Ingest`'s; its safety).
5. done: proofs of `Closedown` (`KafkaProducer` and `KafkaLogCore` as implementations of `Delivery`, `LogInOrder`).
6. done: induction and recursion over the naturals, with them `BackoffAsDesigned` and `OnlyDuplicatesVanish`; the bounds on
   loss and overtaking.
7. left: nothing of the list above. What would add to it is the normaliser's record layout, if a property is ever stated
   about it.
