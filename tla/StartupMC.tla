------------------------------ MODULE StartupMC ------------------------------
(* A small instance of Startup.  Each file differs from Plain in what one   *)
(* part of start-up depends on.                                             *)
EXTENDS Startup, TLC

MCDefaultTopics ==
  "process_exec" :> "exec" @@ "unknown" :> "other" @@ "dlq" :> "dlq"

MCKey ==
  [mode |-> "deduplication", fields |-> <<"node", "process.pid">>,
   separator |-> <<"|">>]

Plain ==
  [topics |-> <<>>, autoCreate |-> FALSE, key |-> MCKey, acks |-> "all",
   idempotent |-> TRUE, monitoring |-> FALSE, healthPort |-> 8080,
   metricsPort |-> 9090, outputs |-> <<"file">>, kafkaLog |-> FALSE,
   console |-> FALSE]

MCFiles ==
  { \* two types share a topic
    [Plain EXCEPT !.topics = "process_exec" :> "other", !.autoCreate = TRUE],
    \* the servers, and both kinds of log
    [Plain EXCEPT !.monitoring = TRUE, !.outputs = <<"file", "kafka">>,
                  !.kafkaLog = TRUE],
    \* Kafka alone, misspelt in the second, and a key without its separator
    [Plain EXCEPT !.outputs = <<"kafka">>, !.kafkaLog = TRUE, !.acks = "ALL"],
    [Plain EXCEPT !.outputs = <<"Kafka">>, !.console = TRUE,
                  !.key.separator = <<>>],
    \* Kafka twice, which is not Kafka alone
    [Plain EXCEPT !.outputs = <<"kafka", "kafka">>, !.kafkaLog = TRUE],
    \* accepted here, not by sarama
    [Plain EXCEPT !.acks = "1", !.outputs = <<>>],
    \* refused
    [Plain EXCEPT !.monitoring = TRUE, !.metricsPort = 8080] }

MCTokens == EventTypes \cup {"n", "1", "2", "|", "t"}

Exec(node, pid) ==
  [kind |-> "process_exec", node |-> node, time |-> <<"t">>,
   attrs |-> "process.pid" :> pid]

(* The first two differ but for the separator; the third's node looks like *)
(* the first's key; the fourth has no node; the last has no case.          *)
MCTraffic ==
  { Exec(<<"n">>, <<"1", "2">>), Exec(<<"n", "1">>, <<"2">>),
    Exec(<<"n", "|", "1", "2">>, <<>>), Exec(<<>>, <<"2">>),
    [Exec(<<"n">>, <<"1", "2">>) EXCEPT !.kind = "process_lsm"] }
=============================================================================
