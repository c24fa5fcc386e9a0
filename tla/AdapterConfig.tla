---------------------------- MODULE AdapterConfig ----------------------------
(***************************************************************************)
(* What start-up makes of the configuration: internal/config's Load and    *)
(* Validate, the producer's reading of it, and the outputs that            *)
(* internal/logger derives from it.  A configuration is a record           *)
(*   [topics, autoCreate, key, acks, idempotent, monitoring, healthPort,   *)
(*    metricsPort, outputs, kafkaLog, console].                            *)
(* The numeric bounds Validate also checks are the assumptions on the      *)
(* constants of the other modules.                                         *)
(***************************************************************************)
EXTENDS Naturals, Sequences, Functions

CONSTANT DefaultTopics      \* the map from event type to topic of DefaultConfig

ASSUME DefaultTopicsAssumption == {"unknown", "dlq"} \subseteq DOMAIN DefaultTopics

(* viper decodes into DefaultConfig's map, key by key: a type the file     *)
(* does not name keeps its default topic.                                  *)
MergedTopics(topics) ==
  [type \in DOMAIN topics \cup DOMAIN DefaultTopics |->
     IF type \in DOMAIN topics THEN topics[type] ELSE DefaultTopics[type]]

Load(file) == [file EXCEPT !.topics = MergedTopics(file.topics)]

LowerCase(word) ==
  CASE word = "ALL" -> "all"
    [] word = "Kafka" -> "kafka"
    [] OTHER -> word

Modes == {"deduplication", "fields_concat", "hash", "random"}

Validate(cfg) ==
  /\ LowerCase(cfg.acks) \in {"all", "1", "0"}
  /\ DOMAIN cfg.topics # {}
  /\ cfg.key.mode \in Modes
  /\ cfg.monitoring =>
       /\ cfg.healthPort \in 1..65535
       /\ cfg.metricsPort \in 1..65535
       /\ cfg.healthPort # cfg.metricsPort

(* The validator knows "ALL", this switch does not and falls through to    *)
(* its default, which is the same.                                         *)
parseAcks(acks) ==
  CASE acks = "1" -> "WaitForLocal"
    [] acks = "0" -> "NoResponse"
    [] OTHER -> "WaitForAll"

(* sarama, external: an idempotent producer has to wait for all replicas.  *)
SaramaAccepts(cfg) == cfg.idempotent => parseAcks(cfg.acks) = "WaitForAll"

-----------------------------------------------------------------------------
(* Where log lines go.  The logger is built twice: before there is a       *)
(* producer without the Kafka output, then once more with it.  main        *)
(* compares the members of the list exactly, the logger without regard to  *)
(* case.                                                                   *)
HasKafkaLog(cfg) == "kafka" \in Range(cfg.outputs)

(* The outputs of the first logger, as the set the logger makes of them.   *)
(* Kafka has to be the only member of the list, and only once, for there   *)
(* to be none.                                                             *)
FirstOutputs(cfg) ==
  LET onlyKafkaOutput == HasKafkaLog(cfg) /\ Len(cfg.outputs) = 1
      newOutputs == Range(cfg.outputs) \ {"kafka"}
  IN  CASE onlyKafkaOutput -> {}
        [] ~onlyKafkaOutput /\ newOutputs = {} -> {"file"}
        [] ~onlyKafkaOutput /\ newOutputs # {} -> newOutputs

contains(outputs, item) == \E o \in outputs : LowerCase(o) = item

(* Slip: the file is switched off whether or not there is a producer.      *)
OutputsTrustingKafka(cfg, outputs, producer) ==
  LET toKafka == contains(outputs, "kafka") /\ cfg.kafkaLog
  IN  {s \in {"kafka"} : toKafka /\ producer} \cup
      {s \in {"file"} : contains(outputs, "file") /\ ~toKafka} \cup
      {s \in {"console"} : cfg.console}

(* logger.Init: with none of these it logs nowhere.                        *)
LogOutputs(cfg, outputs, producer) ==
  LET toKafka == contains(outputs, "kafka") /\ cfg.kafkaLog /\ producer
  IN  {s \in {"kafka"} : toKafka} \cup
      {s \in {"file"} : contains(outputs, "file") /\ ~toKafka} \cup
      {s \in {"console"} : cfg.console}
=============================================================================
