---------------------------- MODULE StartupProofs ----------------------------
(***************************************************************************)
(* For every configuration, every traffic and any number of restarts: the  *)
(* race on err does main no harm beyond the loss of a live producer, no    *)
(* probe that comes after the shutdown is told "healthy", events have a    *)
(* topic to go to, log lines are heard, and the key of an event is its     *)
(* identity.                                                               *)
(***************************************************************************)
EXTENDS Startup, SequenceFacts

(* What err and the two variables of the producer say between the call of  *)
(* NewProducer and main's look at err.  That a server returns without an   *)
(* error only once main has stopped it keeps nil out of err until then.    *)
ErrInv ==
  /\ created \in BOOLEAN /\ hasProducer \in BOOLEAN
  /\ stopped \in BOOLEAN /\ serverFailed \in BOOLEAN
  /\ stopped => mpc = "waitAll"
  /\ created => mpc = "verdict" \/ Judged
  /\ hasProducer => Judged
  /\ mpc = "verdict" /\ err = "nil" => created
  /\ mpc = "verdict" /\ created /\ err # "nil" => serverFailed
  /\ VerdictRight

LEMMA ErrInit == Init => ErrInv
BY DEF Init, ErrInv, VerdictRight, Judged, Started

(* The steps after which nothing is left of the process.                   *)
LEMMA EndsErr == Ends => ErrInv'
BY DEF Ends, ErrInv, VerdictRight, Judged, Started

LEMMA ErrStep == ErrInv /\ [Next]_vars => ErrInv'
<1> SUFFICES ASSUME ErrInv, [Next]_vars PROVE ErrInv'
  OBVIOUS
<1> USE DEF ErrInv, VerdictRight, Judged, Started, Goes
<1>1. CASE LoadsConfig
  BY <1>1 DEF LoadsConfig, restOfLoad, producerVars, serverVars
<1>2. CASE RejectsConfig \/ DiesBeforeServers \/ Exits \/ Killed
  BY <1>2, EndsErr DEF RejectsConfig, DiesBeforeServers, Exits, Killed
<1>3. CASE BeginsTopics \/ SkipsTopics
  BY <1>3 DEF BeginsTopics, SkipsTopics, restOfTopics, producerVars, serverVars
<1>4. CASE EnsuresTopics \/ TopicsDone
  BY <1>4 DEF EnsuresTopics, TopicsDone, restOfTopics, producerVars, serverVars
<1>5. CASE StartsServers \/ NoServers
  <2>1. CASE StartsServers
    BY <2>1 DEF StartsServers, producerVars
  <2>2. CASE NoServers
    BY <2>2 DEF NoServers, restOfTopics, producerVars, serverVars
  <2> QED
    BY <1>5, <2>1, <2>2
<1>6. CASE CreatesProducer \/ ProducerFails
  <2>1. CASE CreatesProducer
    BY <2>1 DEF CreatesProducer, restOfProducer, producerVars, serverVars
  <2>2. CASE ProducerFails
    BY <2>2 DEF ProducerFails, restOfProducer, producerVars, serverVars
  <2> QED
    BY <1>6, <2>1, <2>2
<1>7. CASE JudgesProducer
  BY <1>7 DEF JudgesProducer, OwnError, restOfProducer, serverVars
<1>8. CASE RebuildsLogger \/ StartsPipeline \/ GetsReady \/ ArmsSignals \/ Signal
  <2>1. CASE RebuildsLogger
    BY <2>1 DEF RebuildsLogger, restOfProducer, producerVars, serverVars
  <2>2. CASE StartsPipeline
    BY <2>2 DEF StartsPipeline, restOfMain, producerVars, serverVars
  <2>3. CASE GetsReady
    BY <2>3 DEF GetsReady, restOfMain, producerVars, serverVars
  <2>4. CASE ArmsSignals
    BY <2>4 DEF ArmsSignals, restOfMain, producerVars, serverVars
  <2>5. CASE Signal
    BY <2>5 DEF Signal, restOfMain, producerVars, serverVars
  <2> QED
    BY <1>8, <2>1, <2>2, <2>3, <2>4, <2>5
<1>9. CASE StopsServers
  BY <1>9 DEF StopsServers, restOfMain, producerVars
<1>10. CASE HealthListens \/ HealthFails \/ HealthReturns
  <2>1. CASE HealthListens
    BY <2>1 DEF HealthListens, restOfServer, producerVars
  <2>2. CASE HealthFails
    BY <2>2 DEF HealthFails, restOfServer, producerVars
  <2>3. CASE HealthReturns
    BY <2>3 DEF HealthReturns, restOfServer, producerVars
  <2> QED
    BY <1>10, <2>1, <2>2, <2>3
<1>11. CASE MetricsListens \/ MetricsFails \/ MetricsReturns
  <2>1. CASE MetricsListens
    BY <2>1 DEF MetricsListens, restOfServer, producerVars
  <2>2. CASE MetricsFails
    BY <2>2 DEF MetricsFails, restOfServer, producerVars
  <2>3. CASE MetricsReturns
    BY <2>3 DEF MetricsReturns, restOfServer, producerVars
  <2> QED
    BY <1>11, <2>1, <2>2, <2>3
<1>12. CASE ProbeStep \/ OtherReplicaStarts \/ StoresEvent \/ Compacts
  BY <1>12 DEF ProbeStep, OtherReplicaStarts, StoresEvent, Compacts, restOfTraffic,
    producerVars, serverVars
<1>13. CASE Restarts
  BY <1>13 DEF Restarts, producerVars, serverVars
<1>14. CASE LastLife \/ UNCHANGED vars
  BY <1>14 DEF LastLife, vars, producerVars, serverVars
<1> QED
  BY <1>1, <1>2, <1>3, <1>4, <1>5, <1>6, <1>7, <1>8, <1>9, <1>10, <1>11, <1>12,
     <1>13, <1>14 DEF Next, Main, Servers

(* main never keeps a producer NewProducer did not return, and loses one   *)
(* that it did return only if a server has failed (main.go:185, 213, 226). *)
THEOREM VerdictAlwaysRight == Spec => []VerdictRight
<1>1. ErrInv => VerdictRight
  BY DEF ErrInv
<1> QED
  BY <1>1, ErrInit, ErrStep, PTL DEF Spec

-----------------------------------------------------------------------------
(* The flag of the shutdown is not taken back while the process lives, so  *)
(* that a probe that came after it cannot miss it.                         *)
HealthInv ==
  /\ probe \in Probes
  /\ ready \in BOOLEAN /\ shutdown \in BOOLEAN
  /\ probe.late => shutdown
  /\ probe.stage = "read" /\ probe.late => probe.sawShutdown

LEMMA HealthStart == Init => HealthInv
<1>1. NoProbe \in Probes
  BY DEF NoProbe, Probes, Paths
<1>2. ~NoProbe.late /\ NoProbe.stage # "read"
  BY DEF NoProbe
<1> QED
  BY <1>1, <1>2 DEF Init, HealthInit, HealthInv

LEMMA EndsHealth == Ends => HealthInv'
<1>1. NoProbe \in Probes
  BY DEF NoProbe, Probes, Paths
<1>2. ~NoProbe.late /\ NoProbe.stage # "read"
  BY DEF NoProbe
<1> QED
  BY <1>1, <1>2 DEF Ends, HealthForget, HealthInv

LEMMA HealthStep == HealthInv /\ [Next]_vars => HealthInv'
<1> SUFFICES ASSUME HealthInv, [Next]_vars PROVE HealthInv'
  OBVIOUS
<1> USE DEF HealthInv
<1>1. CASE LoadsConfig
  BY <1>1 DEF LoadsConfig, restOfLoad, healthVars
<1>2. CASE RejectsConfig \/ DiesBeforeServers \/ Exits \/ Killed
  BY <1>2, EndsHealth DEF RejectsConfig, DiesBeforeServers, Exits, Killed
<1>3. CASE BeginsTopics \/ SkipsTopics \/ EnsuresTopics \/ TopicsDone
  BY <1>3 DEF BeginsTopics, SkipsTopics, EnsuresTopics, TopicsDone, restOfTopics,
    healthVars
<1>4. CASE StartsServers \/ NoServers
  <2>1. CASE StartsServers
    BY <2>1 DEF StartsServers, SetReady
  <2>2. CASE NoServers
    BY <2>2 DEF NoServers, restOfTopics, healthVars
  <2> QED
    BY <1>4, <2>1, <2>2
<1>5. CASE CreatesProducer \/ ProducerFails \/ JudgesProducer \/ RebuildsLogger
  BY <1>5 DEF CreatesProducer, ProducerFails, JudgesProducer, RebuildsLogger,
    restOfProducer, healthVars
<1>6. CASE StartsPipeline \/ ArmsSignals \/ StopsServers
  BY <1>6 DEF StartsPipeline, ArmsSignals, StopsServers, healthVars
<1>7. CASE GetsReady
  BY <1>7 DEF GetsReady, SetReady, healthVars
<1>8. CASE Signal
  BY <1>8 DEF Signal, SetShutdown, healthVars
<1>9. CASE Servers
  BY <1>9 DEF Servers, HealthListens, HealthFails, HealthReturns, MetricsListens,
    MetricsFails, MetricsReturns, restOfServer, healthVars
<1>10. CASE ProbeStep
  <2>1. mpc' = mpc
    BY <1>10 DEF ProbeStep
  <2>2. CASE ProbeArrives
    BY <2>1, <2>2 DEF ProbeArrives, NoProbe, Probes, Paths
  <2>3. CASE ProbeReads
    BY <2>1, <2>3 DEF ProbeReads, Probes
  <2>4. CASE ProbeAnswered
    BY <2>1, <2>4 DEF ProbeAnswered, NoProbe, Probes, Paths
  <2> QED
    BY <1>10, <2>2, <2>3, <2>4 DEF ProbeStep
<1>11. CASE StoresEvent \/ Compacts \/ OtherReplicaStarts
  BY <1>11 DEF StoresEvent, Compacts, OtherReplicaStarts, restOfTraffic, healthVars
<1>12. CASE Restarts
  BY <1>12 DEF Restarts, healthVars
<1>13. CASE LastLife \/ UNCHANGED vars
  BY <1>13 DEF LastLife, vars, healthVars
<1> QED
  BY <1>1, <1>2, <1>3, <1>4, <1>5, <1>6, <1>7, <1>8, <1>9, <1>10, <1>11, <1>12,
     <1>13 DEF Next, Main

(* A probe that arrives after SetShutdown reads the flag and is refused    *)
(* (server.go:130-147, main.go:364), in every life of the process.         *)
THEOREM LateProbesAlwaysRefused == Spec => []LateProbesRefused
<1>1. HealthInv => LateProbesRefused
  <2> SUFFICES ASSUME HealthInv, probe.stage = "read", probe.late
               PROVE Answer(probe) # "healthy"
    BY DEF LateProbesRefused
  <2>1. probe.sawShutdown
    BY DEF HealthInv
  <2> QED
    BY <2>1 DEF Answer
<1> QED
  BY <1>1, HealthStart, HealthStep, PTL DEF Spec

-----------------------------------------------------------------------------
(* Each type's topic is still to be looked at, being created, or dealt     *)
(* with; and once the configuration is loaded, every event has a type in   *)
(* the map, if only "unknown".                                             *)
Covered(type) == cfg.topics[type] \in cluster \cup refused

TopicInv ==
  /\ "topics" \in DOMAIN cfg
  /\ mpc \notin {"load", "dead"} => {"unknown", "dlq"} \subseteq DOMAIN cfg.topics
  /\ mpc = "ensure" =>
       \A type \in DOMAIN cfg.topics :
         type \in remaining \/ creating = <<type>> \/ Covered(type)
  /\ mpc \notin {"load", "dead", "client", "ensure"} /\ cfg.autoCreate =>
       \A type \in DOMAIN cfg.topics : Covered(type)

LEMMA TopicInit == Init => TopicInv
BY FilesAssumption DEF Init, TopicInv

LEMMA EndsTopic == TopicInv /\ Ends => TopicInv'
BY DEF Ends, TopicInv, lifeVars

(* Loading adds the default topics to those of the file.                   *)
LEMMA LoadedTopics ==
  ASSUME NEW f, "topics" \in DOMAIN f
  PROVE  /\ "topics" \in DOMAIN Load(f)
         /\ {"unknown", "dlq"} \subseteq DOMAIN Load(f).topics
<1>1. DOMAIN Load(f) = DOMAIN f /\ Load(f).topics = MergedTopics(f.topics)
  BY DEF Load
<1>2. DOMAIN MergedTopics(f.topics) = DOMAIN f.topics \cup DOMAIN DefaultTopics
  BY DEF MergedTopics
<1> QED
  BY <1>1, <1>2, DefaultTopicsAssumption

(* One step of EnsureTopics deals with the type it takes away, or starts   *)
(* to create its topic.                                                    *)
LEMMA EnsureKeeps == TopicInv /\ EnsuresTopics => TopicInv'
<1> SUFFICES ASSUME TopicInv, EnsuresTopics PROVE TopicInv'
  OBVIOUS
<1> USE DEF TopicInv, Covered, TopicFor
<1>1. mpc = "ensure" /\ mpc' = "ensure" /\ cfg' = cfg
  BY DEF EnsuresTopics, restOfTopics, lifeVars
<1>2. CASE ListFails(cfg.topics) \/ ListShowsTopic(cfg.topics)
  BY <1>1, <1>2 DEF ListFails, ListShowsTopic, Look
<1>3. CASE ListOmitsTopic
  BY <1>1, <1>3 DEF ListOmitsTopic, Look
<1>4. CASE CreateSucceeds(cfg.topics) \/ CreateComesTooLate(cfg.topics)
  BY <1>1, <1>4 DEF CreateSucceeds, CreateComesTooLate, EndCreate, Target
<1>5. CASE CreateRefused(cfg.topics) \/ CreateUnanswered(cfg.topics)
  BY <1>1, <1>5 DEF CreateRefused, CreateUnanswered, EndCreate, Target
<1> QED
  BY <1>2, <1>3, <1>4, <1>5 DEF EnsuresTopics, EnsureStep

LEMMA TopicStep == TopicInv /\ [Next]_vars => TopicInv'
<1> SUFFICES ASSUME TopicInv, [Next]_vars PROVE TopicInv'
  OBVIOUS
<1> USE DEF TopicInv, Covered, Goes
<1>1. CASE LoadsConfig
  BY <1>1, LoadedTopics DEF LoadsConfig
<1>2. CASE RejectsConfig \/ DiesBeforeServers \/ Exits \/ Killed
  BY <1>2, EndsTopic DEF RejectsConfig, DiesBeforeServers, Exits, Killed
<1>3. CASE BeginsTopics
  BY <1>3 DEF BeginsTopics, BeginEnsure, restOfTopics, lifeVars
<1>4. CASE SkipsTopics
  BY <1>4 DEF SkipsTopics, restOfTopics, lifeVars, topicVars
<1>5. CASE EnsuresTopics
  BY <1>5, EnsureKeeps
<1>6. CASE TopicsDone
  BY <1>6 DEF TopicsDone, EnsureDone, restOfTopics, lifeVars, topicVars
<1>7. CASE StartsServers \/ NoServers
  BY <1>7 DEF StartsServers, NoServers, restOfTopics, lifeVars, topicVars
<1>8. CASE CreatesProducer \/ ProducerFails \/ JudgesProducer \/ RebuildsLogger
  BY <1>8 DEF CreatesProducer, ProducerFails, JudgesProducer, RebuildsLogger,
    restOfProducer, lifeVars, topicVars
<1>9. CASE StartsPipeline \/ GetsReady \/ ArmsSignals \/ Signal \/ StopsServers
  BY <1>9 DEF StartsPipeline, GetsReady, ArmsSignals, Signal, StopsServers, restOfMain,
    lifeVars, topicVars
<1>10. CASE Servers
  BY <1>10 DEF Servers, HealthListens, HealthFails, HealthReturns, MetricsListens,
    MetricsFails, MetricsReturns, restOfServer, lifeVars, topicVars
<1>11. CASE ProbeStep
  BY <1>11 DEF ProbeStep, lifeVars, topicVars
<1>12. CASE StoresEvent \/ Compacts
  BY <1>12 DEF StoresEvent, Compacts, restOfTraffic, lifeVars, topicVars
<1>13. CASE OtherReplicaStarts
  BY <1>13 DEF OtherReplicaStarts, ReplicaCreates, lifeVars
<1>14. CASE Restarts
  BY <1>14 DEF Restarts
<1>15. CASE LastLife \/ UNCHANGED vars
  BY <1>15 DEF LastLife, vars, lifeVars, topicVars
<1> QED
  BY <1>1, <1>2, <1>3, <1>4, <1>5, <1>6, <1>7, <1>8, <1>9, <1>10, <1>11, <1>12,
     <1>13, <1>14, <1>15 DEF Next, Main

(* When events flow, their topics and the dead letter topic exist, unless  *)
(* the cluster has failed a request for them (topic_admin.go:42-128).      *)
THEOREM EventsAlwaysHaveATopic == Spec => []EventsHaveATopic
<1>1. TopicInv => EventsHaveATopic
  <2> SUFFICES ASSUME TopicInv, Started, cfg.autoCreate
               PROVE  \A topic \in {Route(cfg.topics, e) : e \in Traffic}
                                     \cup {GetDLQTopic(cfg.topics)} :
                        topic \in cluster \cup refused
    BY DEF EventsHaveATopic
  <2>1. {"unknown", "dlq"} \subseteq DOMAIN cfg.topics
    BY DEF TopicInv, Started
  <2>2. \A type \in DOMAIN cfg.topics : cfg.topics[type] \in cluster \cup refused
    BY DEF TopicInv, Started, Covered
  <2>3. ASSUME NEW e \in Traffic
        PROVE  Route(cfg.topics, e) \in cluster \cup refused
    BY <2>1, <2>2 DEF Route
  <2>4. GetDLQTopic(cfg.topics) \in cluster \cup refused
    BY <2>1, <2>2 DEF GetDLQTopic
  <2> QED
    BY <2>3, <2>4
<1> QED
  BY <1>1, TopicInit, TopicStep, PTL DEF Spec

-----------------------------------------------------------------------------
(* What the logger makes of its outputs: a file that is asked for is used, *)
(* or else Kafka, never both, and a file only if it is asked for.          *)
LEMMA OutputsKept ==
  ASSUME NEW c, NEW outputs, NEW producer
  PROVE  /\ "file" \in outputs =>
              LogOutputs(c, outputs, producer) \cap {"file", "kafka"} # {}
         /\ ~ {"file", "kafka"} \subseteq LogOutputs(c, outputs, producer)
         /\ outputs \subseteq {"kafka"} => "file" \notin LogOutputs(c, outputs, producer)
         /\ "file" \in outputs => "file" \in LogOutputs(c, outputs, FALSE)
BY DEF LogOutputs, contains, LowerCase

LogInv ==
  /\ {"topics", "outputs"} \subseteq DOMAIN cfg
  /\ cfg.outputs \in Seq(Range(cfg.outputs))
  /\ mpc \in {"load", "dead"} => earlyLog = {} /\ mainLog = {}
  /\ LogHeard

LEMMA LogInit == Init => LogInv
BY FilesAssumption DEF Init, LogInv, LogHeard

LEMMA OnlyKafka == Range(<<"kafka">>) = {"kafka"}
BY DEF Range

(* main takes Kafka and nothing else from the list; a list with a file     *)
(* beside it has more than one member.                                     *)
LEMMA FirstOutputsKept ==
  ASSUME NEW c, c.outputs \in Seq(Range(c.outputs))
  PROVE  /\ "file" \in Range(c.outputs) => "file" \in FirstOutputs(c)
         /\ c.outputs = <<"kafka">> => FirstOutputs(c) = {}
<1> PICK outputs : outputs = c.outputs
  OBVIOUS
<1>1. Range(outputs) = {outputs[i] : i \in 1..Len(outputs)}
  BY RangeEquality
<1>2. "file" \in Range(outputs) /\ "kafka" \in Range(outputs) => Len(outputs) # 1
  BY <1>1
<1>3. "file" \in Range(outputs) => "file" \in FirstOutputs(c)
  BY <1>2 DEF FirstOutputs, HasKafkaLog
<1>4. outputs = <<"kafka">> => Len(outputs) = 1 /\ "kafka" \in Range(outputs)
  BY <1>1
<1>5. outputs = <<"kafka">> => FirstOutputs(c) = {}
  BY <1>4 DEF FirstOutputs, HasKafkaLog
<1> QED
  BY <1>3, <1>5

LEMMA LogStep == LogInv /\ [Next]_vars => LogInv'
<1> SUFFICES ASSUME LogInv, [Next]_vars PROVE LogInv'
  OBVIOUS
<1> USE DEF LogInv, LogHeard, Goes
<1>1. CASE LoadsConfig
  <2>1. PICK c : cfg' = c
    OBVIOUS
  <2>2. /\ earlyLog' = LogOutputs(c, FirstOutputs(c), FALSE)
        /\ mainLog' = earlyLog'
        /\ mpc' = "client"
    BY <1>1, <2>1 DEF LoadsConfig
  <2>3. c.outputs = cfg.outputs /\ DOMAIN c = DOMAIN cfg
    BY <1>1, <2>1 DEF LoadsConfig, Load
  <2>4. "file" \in Range(c.outputs) => "file" \in earlyLog'
    BY <2>2, <2>3, FirstOutputsKept, OutputsKept
  <2>5. ~ {"file", "kafka"} \subseteq earlyLog'
    BY <2>2 DEF LogOutputs
  <2>6. c.outputs = <<"kafka">> => "file" \notin earlyLog'
    BY <2>2, <2>3, FirstOutputsKept, OutputsKept
  <2> QED
    BY <2>1, <2>2, <2>3, <2>4, <2>5, <2>6
<1>2. CASE RejectsConfig \/ DiesBeforeServers \/ Exits \/ Killed
  BY <1>2 DEF RejectsConfig, DiesBeforeServers, Exits, Killed, Ends, lifeVars
<1>3. CASE BeginsTopics \/ SkipsTopics \/ EnsuresTopics \/ TopicsDone
  BY <1>3 DEF BeginsTopics, SkipsTopics, EnsuresTopics, TopicsDone, restOfTopics,
    lifeVars, logVars
<1>4. CASE StartsServers \/ NoServers
  BY <1>4 DEF StartsServers, NoServers, restOfTopics, lifeVars, logVars
<1>5. CASE CreatesProducer \/ ProducerFails \/ JudgesProducer
  BY <1>5 DEF CreatesProducer, ProducerFails, JudgesProducer, restOfProducer,
    lifeVars, logVars
<1>6. CASE RebuildsLogger
  <2>1. mpc = "logger" /\ mpc' = "pipeline" /\ cfg' = cfg /\ earlyLog' = earlyLog
    BY <1>6 DEF RebuildsLogger, restOfProducer, lifeVars
  <2>2. CASE mainLog' = mainLog
    BY <2>1, <2>2
  <2>3. CASE mainLog' = LogOutputs(cfg, Range(cfg.outputs), hasProducer)
    <3>1. cfg.outputs = <<"kafka">> => Range(cfg.outputs) \subseteq {"kafka"}
      BY OnlyKafka
    <3> QED
      BY <2>1, <2>3, <3>1, OutputsKept
  <2> QED
    BY <1>6, <2>2, <2>3 DEF RebuildsLogger
<1>7. CASE StartsPipeline \/ GetsReady \/ ArmsSignals \/ Signal \/ StopsServers
  BY <1>7 DEF StartsPipeline, GetsReady, ArmsSignals, Signal, StopsServers, restOfMain,
    lifeVars, logVars
<1>8. CASE Servers
  BY <1>8 DEF Servers, HealthListens, HealthFails, HealthReturns, MetricsListens,
    MetricsFails, MetricsReturns, restOfServer, lifeVars, logVars
<1>9. CASE ProbeStep \/ StoresEvent \/ Compacts \/ OtherReplicaStarts
  BY <1>9 DEF ProbeStep, StoresEvent, Compacts, OtherReplicaStarts, restOfTraffic,
    lifeVars, logVars
<1>10. CASE Restarts
  BY <1>10 DEF Restarts, logVars
<1>11. CASE LastLife \/ UNCHANGED vars
  BY <1>11 DEF LastLife, vars, lifeVars, logVars
<1> QED
  BY <1>1, <1>2, <1>3, <1>4, <1>5, <1>6, <1>7, <1>8, <1>9, <1>10, <1>11
  DEF Next, Main

(* Who asked for a log file is heard, with or without a producer, and no   *)
(* line is written twice (main.go:51-86 and 240, logger.go:110-132).       *)
THEOREM LogAlwaysHeard == Spec => []LogHeard
<1>1. LogInv => LogHeard
  BY DEF LogInv
<1> QED
  BY <1>1, LogInit, LogStep, PTL DEF Spec

-----------------------------------------------------------------------------
(* The rest of the types.                                                  *)
ControlInv ==
  /\ lives \in 0..Lives /\ mpc \in MainStates /\ err \in Errors
  /\ healthSrv \in ServerStates /\ metricsSrv \in ServerStates
  /\ earlyLog \subseteq Sinks /\ mainLog \subseteq Sinks
  /\ kept \subseteq Traffic

LEMMA ControlStep == ControlInv /\ [Next]_vars => ControlInv'
<1> SUFFICES ASSUME ControlInv, [Next]_vars PROVE ControlInv'
  OBVIOUS
<1> USE DEF ControlInv, Goes, MainStates, Errors, ServerStates, lifeVars, serverVars, logVars
<1>1. \A c, outputs, producer : LogOutputs(c, outputs, producer) \subseteq Sinks
  BY DEF LogOutputs, Sinks
<1>2. CASE LoadsConfig
  <2>1. earlyLog' \subseteq Sinks /\ mainLog' \subseteq Sinks
    BY <1>1, <1>2 DEF LoadsConfig
  <2> QED
    BY <1>2, <2>1 DEF LoadsConfig, restOfLoad
<1>3. CASE RejectsConfig \/ DiesBeforeServers \/ Exits \/ Killed
  BY <1>3 DEF RejectsConfig, DiesBeforeServers, Exits, Killed, Ends
<1>4. CASE BeginsTopics \/ SkipsTopics \/ EnsuresTopics \/ TopicsDone
  BY <1>4 DEF BeginsTopics, SkipsTopics, EnsuresTopics, TopicsDone, restOfTopics
<1>5. CASE StartsServers \/ NoServers
  BY <1>5 DEF StartsServers, NoServers, restOfTopics
<1>6. CASE CreatesProducer \/ ProducerFails \/ JudgesProducer
  BY <1>6 DEF CreatesProducer, ProducerFails, JudgesProducer, restOfProducer
<1>7. CASE RebuildsLogger
  <2>1. mainLog' \subseteq Sinks
    BY <1>1, <1>7 DEF RebuildsLogger
  <2> QED
    BY <1>7, <2>1 DEF RebuildsLogger, restOfProducer
<1>8. CASE StartsPipeline \/ GetsReady \/ ArmsSignals \/ Signal \/ StopsServers
  BY <1>8 DEF StartsPipeline, GetsReady, ArmsSignals, Signal, StopsServers, restOfMain
<1>9. CASE HealthListens \/ HealthFails \/ HealthReturns
  BY <1>9 DEF HealthListens, HealthFails, HealthReturns, restOfServer
<1>10. CASE MetricsListens \/ MetricsFails \/ MetricsReturns
  BY <1>10 DEF MetricsListens, MetricsFails, MetricsReturns, restOfServer
<1>11. CASE ProbeStep \/ OtherReplicaStarts
  BY <1>11 DEF ProbeStep, OtherReplicaStarts
<1>12. CASE StoresEvent \/ Compacts
  BY <1>12 DEF StoresEvent, Compacts, restOfTraffic
<1>13. CASE Restarts
  <2>1. lives' \in 0..Lives
    BY <1>13, LivesAssumption DEF Restarts
  <2> QED
    BY <1>13, <2>1 DEF Restarts
<1>14. CASE LastLife \/ UNCHANGED vars
  BY <1>14 DEF LastLife, vars
<1> QED
  BY <1>2, <1>3, <1>4, <1>5, <1>6, <1>7, <1>8, <1>9, <1>10, <1>11, <1>12, <1>13, <1>14
  DEF Next, Main, Servers

LEMMA InHand ==
  ASSUME NEW S, NEW x \in S
  PROVE  <<x>> \in Seq(S) /\ Len(<<x>>) <= 1
OBVIOUS

(* The bookkeeping of EnsureTopics is about configured topics.             *)
KnownTopics == Range(Load(cfg).topics)

TopicTypes ==
  /\ "topics" \in DOMAIN cfg
  /\ remaining \subseteq DOMAIN cfg.topics
  /\ creating = <<>> \/ \E type \in DOMAIN cfg.topics : creating = <<type>>
  /\ cluster \cup refused \subseteq KnownTopics

(* Loading keeps what the file names, and loading twice is loading once.   *)
LEMMA LoadKeeps ==
  ASSUME NEW f, "topics" \in DOMAIN f
  PROVE  /\ \A type \in DOMAIN f.topics : f.topics[type] \in Range(Load(f).topics)
         /\ DOMAIN f.topics \subseteq DOMAIN Load(f).topics
         /\ Load(Load(f)).topics = Load(f).topics
<1> DEFINE merged == MergedTopics(f.topics)
<1>1. \A g : "topics" \in DOMAIN g =>
        "topics" \in DOMAIN Load(g) /\ Load(g).topics = MergedTopics(g.topics)
  BY DEF Load
<1>2. DOMAIN merged = DOMAIN f.topics \cup DOMAIN DefaultTopics
  BY DEF MergedTopics
<1>3. \A type \in DOMAIN f.topics : merged[type] = f.topics[type]
  BY DEF MergedTopics
<1>4. MergedTopics(merged) = merged
  BY DEF MergedTopics
<1> HIDE DEF merged
<1>5. Load(f).topics = merged /\ Load(Load(f)).topics = merged
  BY <1>1, <1>4 DEF merged
<1> QED
  BY <1>2, <1>3, <1>5 DEF Range

LEMMA EnsureTypes ==
  ASSUME TopicTypes, EnsureStep(cfg.topics), cfg' = cfg
  PROVE  TopicTypes'
<1>1. KnownTopics' = KnownTopics
  BY DEF KnownTopics
<1>2. \A type \in DOMAIN cfg.topics : TopicFor(cfg.topics, type) \in KnownTopics
  BY LoadKeeps DEF TopicTypes, TopicFor, KnownTopics
<1> USE DEF TopicTypes
<1>3. CASE ListFails(cfg.topics) \/ ListShowsTopic(cfg.topics)
  BY <1>1, <1>2, <1>3 DEF ListFails, ListShowsTopic, Look
<1>4. CASE ListOmitsTopic
  BY <1>1, <1>4 DEF ListOmitsTopic, Look
<1>5. CASE CreateSucceeds(cfg.topics) \/ CreateComesTooLate(cfg.topics)
           \/ CreateRefused(cfg.topics) \/ CreateUnanswered(cfg.topics)
  <2>1. EndCreate
    BY <1>5 DEF CreateSucceeds, CreateComesTooLate, CreateRefused, CreateUnanswered
  <2>2. Target(cfg.topics) \in KnownTopics
    <3>1. PICK type \in DOMAIN cfg.topics : creating = <<type>>
      BY <2>1 DEF EndCreate
    <3>2. Head(creating) = type
      BY <3>1
    <3> QED
      BY <1>2, <3>2 DEF Target
  <2>3. \A topic \in cluster' \cup refused' :
          topic \in cluster \cup refused \cup {Target(cfg.topics)}
    BY <1>5 DEF CreateSucceeds, CreateComesTooLate, CreateRefused, CreateUnanswered
  <2> QED
    BY <1>1, <2>1, <2>2, <2>3 DEF EndCreate
<1> QED
  BY <1>3, <1>4, <1>5 DEF EnsureStep

LEMMA TopicTypesStep == TopicTypes /\ [Next]_vars => TopicTypes'
<1> SUFFICES ASSUME TopicTypes, [Next]_vars PROVE TopicTypes'
  OBVIOUS
<1>1. CASE LoadsConfig
  <2>1. cfg' = Load(cfg) /\ UNCHANGED <<cluster, remaining, creating, refused>>
    BY <1>1 DEF LoadsConfig, restOfLoad, topicVars
  <2>2. /\ "topics" \in DOMAIN Load(cfg)
        /\ DOMAIN cfg.topics \subseteq DOMAIN Load(cfg).topics
        /\ Load(Load(cfg)).topics = Load(cfg).topics
    BY LoadKeeps, LoadedTopics DEF TopicTypes
  <2>3. KnownTopics' = KnownTopics
    BY <2>1, <2>2 DEF KnownTopics
  <2> QED
    BY <2>1, <2>2, <2>3 DEF TopicTypes
<1>2. CASE EnsuresTopics
  BY <1>2, EnsureTypes DEF EnsuresTopics, restOfTopics, lifeVars
<1>3. ASSUME cfg' = cfg, cluster' \cup refused' \subseteq KnownTopics,
             remaining' \subseteq DOMAIN cfg.topics, creating' \in {creating, <<>>}
      PROVE  TopicTypes'
  BY <1>3 DEF TopicTypes, KnownTopics
<1>4. CASE RejectsConfig \/ DiesBeforeServers \/ Exits \/ Killed
  BY <1>3, <1>4 DEF RejectsConfig, DiesBeforeServers, Exits, Killed, Ends, lifeVars,
    TopicsForget, TopicTypes
<1>5. CASE BeginsTopics
  BY <1>3, <1>5 DEF BeginsTopics, BeginEnsure, restOfTopics, lifeVars, TopicTypes
<1>6. CASE OtherReplicaStarts
  <2>1. \A topic \in Range(cfg.topics) : topic \in KnownTopics
    BY LoadKeeps DEF TopicTypes, KnownTopics, Range
  <2> QED
    BY <1>3, <1>6, <2>1 DEF OtherReplicaStarts, ReplicaCreates, lifeVars, TopicTypes
<1>7. ASSUME UNCHANGED <<cfg, cluster, remaining, creating, refused>> PROVE TopicTypes'
  BY <1>3, <1>7 DEF TopicTypes
<1>8. CASE SkipsTopics \/ TopicsDone \/ StartsServers \/ NoServers
  BY <1>7, <1>8 DEF SkipsTopics, TopicsDone, StartsServers, NoServers, restOfTopics,
    lifeVars, topicVars
<1>9. CASE CreatesProducer \/ ProducerFails \/ JudgesProducer \/ RebuildsLogger
  BY <1>7, <1>9 DEF CreatesProducer, ProducerFails, JudgesProducer, RebuildsLogger,
    restOfProducer, lifeVars, topicVars
<1>10. CASE StartsPipeline \/ GetsReady \/ ArmsSignals \/ Signal \/ StopsServers
  BY <1>7, <1>10 DEF StartsPipeline, GetsReady, ArmsSignals, Signal, StopsServers,
    restOfMain, lifeVars, topicVars
<1>11. CASE Servers
  BY <1>7, <1>11 DEF Servers, HealthListens, HealthFails, HealthReturns, MetricsListens,
    MetricsFails, MetricsReturns, restOfServer, lifeVars, topicVars
<1>12. CASE ProbeStep \/ StoresEvent \/ Compacts
  BY <1>7, <1>12 DEF ProbeStep, StoresEvent, Compacts, restOfTraffic, lifeVars, topicVars
<1>13. CASE Restarts \/ LastLife \/ UNCHANGED vars
  BY <1>7, <1>13 DEF Restarts, LastLife, vars, lifeVars, topicVars
<1> QED
  BY <1>1, <1>2, <1>4, <1>5, <1>6, <1>8, <1>9, <1>10, <1>11, <1>12, <1>13 DEF Next, Main

(* All variables of start-up stay in their types, through every restart;   *)
(* in particular no topic but a configured one is asked for (main.go:151). *)
THEOREM TypeCorrect == Spec => []TypeOK
<1>1. Init => ControlInv /\ TopicTypes
  <2> SUFFICES ASSUME Init PROVE ControlInv /\ TopicTypes
    OBVIOUS
  <2>1. ControlInv
    BY LivesAssumption DEF Init, ControlInv, MainStates, Errors, ServerStates
  <2>2. TopicTypes
    BY FilesAssumption DEF Init, TopicTypes, KnownTopics
  <2> QED
    BY <2>1, <2>2
<1>2. ErrInv /\ HealthInv /\ ControlInv /\ TopicTypes => TypeOK
  <2> SUFFICES ASSUME ErrInv, HealthInv, ControlInv, TopicTypes PROVE TypeOK
    OBVIOUS
  <2>1. creating \in Seq(DOMAIN cfg.topics) /\ Len(creating) <= 1
    <3>1. CASE creating = <<>>
      BY <3>1
    <3>2. ASSUME NEW type \in DOMAIN cfg.topics, creating = <<type>>
          PROVE  creating \in Seq(DOMAIN cfg.topics) /\ Len(creating) <= 1
      BY <3>2, InHand
    <3> QED
      BY <3>1, <3>2 DEF TopicTypes
  <2> QED
    BY <2>1 DEF ErrInv, HealthInv, ControlInv, TopicTypes, KnownTopics, TypeOK
<1> QED
  BY <1>1, <1>2, ErrInit, ErrStep, HealthStart, HealthStep, ControlStep, TopicTypesStep,
     PTL DEF Spec

-----------------------------------------------------------------------------
(* Keys.  A value that does not have the separator's tokens inside can be  *)
(* cut off the end of a joined key in one way only.                        *)

Apart(s, t) == \A i \in 1..Len(s), j \in 1..Len(t) : s[i] # t[j]

(* The shorter of two last values would leave a token of its separator     *)
(* inside the longer.                                                      *)
LEMMA NotShorter ==
  ASSUME NEW S, NEW a \in Seq(S), NEW b \in Seq(S), NEW v \in Seq(S), NEW w \in Seq(S),
         NEW sep \in Seq(S), sep # <<>>, Apart(sep, w),
         (a \o sep) \o v = (b \o sep) \o w
  PROVE  ~ (Len(v) < Len(w))
<1> SUFFICES ASSUME Len(v) < Len(w) PROVE FALSE
  OBVIOUS
<1> DEFINE p == a \o sep
           q == b \o sep
           x == p \o v
           y == q \o w
           i == Len(p)
           k == Len(w) - Len(v)
<1>1. /\ Len(a) \in Nat /\ Len(b) \in Nat /\ Len(v) \in Nat /\ Len(w) \in Nat
      /\ Len(sep) \in Nat \ {0}
  BY LenProperties, EmptySeq
<1>2. /\ p \in Seq(S) /\ Len(p) = Len(a) + Len(sep)
      /\ p[Len(a) + Len(sep)] = sep[Len(sep)]
  <2>1. /\ p \in Seq(S) /\ Len(p) = Len(a) + Len(sep)
        /\ \A n \in 1..Len(a) + Len(sep) :
             p[n] = IF n <= Len(a) THEN a[n] ELSE sep[n - Len(a)]
    BY ConcatProperties
  <2> HIDE DEF p
  <2>2. /\ Len(a) + Len(sep) \in 1..Len(a) + Len(sep)
        /\ ~ (Len(a) + Len(sep) <= Len(a))
        /\ (Len(a) + Len(sep)) - Len(a) = Len(sep)
    BY <1>1
  <2> QED
    BY <2>1, <2>2
<1>3. q \in Seq(S) /\ Len(q) = Len(b) + Len(sep)
  BY ConcatProperties
<1> HIDE DEF p, q
<1>4. p \in Seq(S) /\ q \in Seq(S)
  BY <1>2, <1>3
<1>5. /\ Len(x) = Len(p) + Len(v)
      /\ \A n \in 1..Len(p) + Len(v) : x[n] = IF n <= Len(p) THEN p[n] ELSE v[n - Len(p)]
  BY <1>4, ConcatProperties
<1>6. /\ Len(y) = Len(q) + Len(w)
      /\ \A n \in 1..Len(q) + Len(w) : y[n] = IF n <= Len(q) THEN q[n] ELSE w[n - Len(q)]
  BY <1>4, ConcatProperties
<1>7. x = y
  BY DEF p, q
<1> HIDE DEF x, y
<1>8. /\ i \in 1..Len(p) + Len(v) /\ i <= Len(p)
      /\ i \in 1..Len(q) + Len(w) /\ ~ (i <= Len(q)) /\ i - Len(q) = k
      /\ k \in 1..Len(w)
  BY <1>1, <1>2, <1>3, <1>5, <1>6, <1>7
<1>9. x[i] = sep[Len(sep)]
  BY <1>2, <1>5, <1>8
<1>10. y[i] = w[k]
  BY <1>6, <1>8
<1>11. Len(sep) \in 1..Len(sep)
  BY <1>1
<1> QED
  BY <1>7, <1>8, <1>9, <1>10, <1>11 DEF Apart

LEMMA CutLast ==
  ASSUME NEW S, NEW sep \in Seq(S), sep # <<>>
  PROVE  \A s, t, d, e \in Seq(S) :
           Apart(sep, d) /\ Apart(sep, e) /\ (s \o sep) \o d = (t \o sep) \o e
             => s = t /\ d = e
<1> SUFFICES ASSUME NEW a \in Seq(S), NEW b \in Seq(S), NEW v \in Seq(S), NEW w \in Seq(S),
                    Apart(sep, v), Apart(sep, w), (a \o sep) \o v = (b \o sep) \o w
             PROVE  a = b /\ v = w
  BY Zenon
<1> DEFINE p == a \o sep
           q == b \o sep
           x == p \o v
           y == q \o w
<1>1. Len(v) = Len(w)
  <2>1. ~ (Len(v) < Len(w)) /\ ~ (Len(w) < Len(v))
    BY NotShorter
  <2>2. Len(v) \in Nat /\ Len(w) \in Nat
    BY LenProperties
  <2> QED
    BY <2>1, <2>2
<1>2. p \in Seq(S) /\ q \in Seq(S)
  BY ConcatProperties
<1>3. x = y
  OBVIOUS
<1> HIDE DEF p, q
<1>4. /\ Len(x) = Len(p) + Len(v)
      /\ \A n \in 1..Len(p) + Len(v) : x[n] = IF n <= Len(p) THEN p[n] ELSE v[n - Len(p)]
  BY <1>2, ConcatProperties
<1>5. /\ Len(y) = Len(q) + Len(w)
      /\ \A n \in 1..Len(q) + Len(w) : y[n] = IF n <= Len(q) THEN q[n] ELSE w[n - Len(q)]
  BY <1>2, ConcatProperties
<1> HIDE DEF x, y
<1>6. /\ Len(v) \in Nat /\ Len(w) \in Nat /\ Len(p) \in Nat /\ Len(q) \in Nat
      /\ Len(p) = Len(q)
  <2>1. Len(v) \in Nat /\ Len(w) \in Nat /\ Len(p) \in Nat /\ Len(q) \in Nat
    BY <1>2, LenProperties
  <2> QED
    BY <1>1, <1>3, <1>4, <1>5, <2>1
<1>7. v = w
  <2>1. ASSUME NEW n \in 1..Len(v) PROVE v[n] = w[n]
    <3>1. /\ Len(p) + n \in 1..Len(p) + Len(v) /\ ~ (Len(p) + n <= Len(p))
          /\ (Len(p) + n) - Len(p) = n
      BY <1>6
    <3>2. x[Len(p) + n] = v[n]
      BY <1>4, <3>1
    <3>3. y[Len(p) + n] = w[n]
      BY <1>1, <1>5, <1>6, <3>1
    <3> QED
      BY <1>3, <3>2, <3>3
  <2> QED
    BY <1>1, <2>1, SeqEqual
<1>8. p = q
  <2>1. ASSUME NEW n \in 1..Len(p) PROVE p[n] = q[n]
    <3>1. n \in 1..Len(p) + Len(v) /\ n <= Len(p)
      BY <1>6
    <3>2. x[n] = p[n] /\ y[n] = q[n]
      BY <1>1, <1>4, <1>5, <1>6, <3>1
    <3> QED
      BY <1>3, <3>2
  <2> QED
    BY <1>2, <1>6, <2>1, SeqEqual
<1>9. a = b
  BY <1>8, ConcatSimplifications DEF p, q
<1> QED
  BY <1>7, <1>9

(* All but the last of a sequence, and the last.                           *)
LEMMA FrontAndLast ==
  ASSUME NEW S, NEW s \in Seq(S), s # <<>>
  PROVE  /\ Front(s) \in Seq(S) /\ Last(s) \in S
         /\ Len(Front(s)) = Len(s) - 1
         /\ \A i \in 1..Len(s) - 1 : Front(s)[i] = s[i]
         /\ Last(s) = s[Len(s)]
<1>1. Len(s) \in Nat \ {0} /\ \A i \in 1..Len(s) : s[i] \in S
  BY EmptySeq, ElementOfSeq
<1>2. /\ 1 \in Int /\ Len(s) - 1 \in Int
      /\ \A i \in 1..Len(s) - 1 : s[i] \in S
  BY <1>1
<1> DEFINE n == Len(s) - 1
<1>3. /\ Front(s) \in Seq(S)
      /\ Len(Front(s)) = IF 1 <= n THEN n - 1 + 1 ELSE 0
      /\ \A i \in 1..n - 1 + 1 : Front(s)[i] = s[1 + i - 1]
  <2> QED
    BY <1>2, SubSeqProperties DEF Front
<1>4. Last(s) = s[Len(s)] /\ Last(s) \in S
  BY <1>1 DEF Last
<1>5. Len(Front(s)) = n
  <2>1. n \in Nat
    BY <1>1
  <2> HIDE DEF n
  <2>2. n - 1 + 1 = n /\ (~ (1 <= n) => n = 0)
    BY <2>1
  <2> QED
    BY <1>3, <2>2
<1>6. ASSUME NEW i \in 1..Len(s) - 1 PROVE Front(s)[i] = s[i]
  <2>1. i \in 1..(Len(s) - 1) - 1 + 1 /\ 1 + i - 1 = i
    BY <1>1
  <2> QED
    BY <1>3, <2>1
<1> QED
  BY <1>3, <1>4, <1>5, <1>6

(* Two sequences with the same front and the same last element are equal.  *)
LEMMA FrontLastEqual ==
  ASSUME NEW S, NEW s \in Seq(S), NEW t \in Seq(S), s # <<>>, t # <<>>,
         Front(s) = Front(t), Last(s) = Last(t)
  PROVE  s = t
<1>1. /\ Len(Front(s)) = Len(s) - 1 /\ Len(Front(t)) = Len(t) - 1
      /\ \A i \in 1..Len(s) - 1 : Front(s)[i] = s[i]
      /\ \A i \in 1..Len(t) - 1 : Front(t)[i] = t[i]
      /\ Last(s) = s[Len(s)] /\ Last(t) = t[Len(t)]
  BY FrontAndLast
<1>2. Len(s) \in Nat \ {0} /\ Len(t) \in Nat \ {0}
  BY EmptySeq
<1>3. Len(s) = Len(t)
  BY <1>1, <1>2
<1>4. ASSUME NEW i \in 1..Len(s) PROVE s[i] = t[i]
  <2>1. CASE i = Len(s)
    BY <1>1, <1>3, <2>1
  <2>2. CASE i # Len(s)
    <3>1. i \in 1..Len(s) - 1
      BY <1>2, <2>2
    <3> QED
      BY <1>1, <1>3, <3>1
  <2> QED
    BY <2>1, <2>2
<1> QED
  BY <1>3, <1>4, SeqEqual

(* What Join writes after a value more.                                    *)
Extended(before, separator, v) ==
  IF v = <<>> THEN before
  ELSE IF before = <<>> THEN v ELSE before \o separator \o v

LEMMA ExtendedIsText ==
  ASSUME NEW before \in Text, NEW separator \in Text, NEW v \in Text
  PROVE  Extended(before, separator, v) \in Text
<1>1. before \o separator \in Text
  BY ConcatProperties DEF Text
<1>2. before \o separator \o v \in Text
  BY <1>1, ConcatProperties DEF Text
<1> QED
  BY <1>2 DEF Extended

LEMMA FrontOfValues ==
  ASSUME NEW p \in Seq(Text) \X Text, p[1] # <<>>
  PROVE  /\ <<Front(p[1]), p[2]>> \in Seq(Text) \X Text
         /\ Last(p[1]) \in Text /\ p[2] \in Text
         /\ Len(p[1]) \in Nat \ {0} /\ Len(Front(p[1])) = Len(p[1]) - 1
<1>1. p[1] \in Seq(Text) /\ p[2] \in Text
  OBVIOUS
<1>2. Front(p[1]) \in Seq(Text) /\ Last(p[1]) \in Text /\ Len(Front(p[1])) = Len(p[1]) - 1
  BY <1>1, FrontAndLast
<1>3. Len(p[1]) \in Nat \ {0}
  BY <1>1, EmptySeq
<1> QED
  BY <1>1, <1>2, <1>3

(* The recursion of joined is one over the number of values.               *)
LEMMA JoinedEquation ==
  \A p \in Seq(Text) \X Text :
    joined[p] = IF p[1] = <<>> THEN <<>>
                ELSE Extended(joined[<<Front(p[1]), p[2]>>], p[2], Last(p[1]))
<1> DEFINE P == Seq(Text) \X Text
           body(f, p) ==
             IF p[1] = <<>> THEN <<>>
             ELSE Extended(f[<<Front(p[1]), p[2]>>], p[2], Last(p[1]))
           Solves(f) == f = [p \in P |-> body(f, p)]
           first == [p \in P |-> <<>>]
           step == [q \in Nat \X [P -> Text] |-> [p \in P |-> body(q[2], p)]]
<1>1. first \in [P -> Text]
  BY EmptySeq DEF Text
<1>2. ASSUME NEW f \in [P -> Text], NEW p \in P PROVE body(f, p) \in Text
  <2>1. CASE p[1] = <<>>
    BY <2>1, EmptySeq DEF Text
  <2>2. CASE p[1] # <<>>
    <3>1. /\ <<Front(p[1]), p[2]>> \in P
          /\ Last(p[1]) \in Text /\ p[2] \in Text
      BY <2>2, FrontOfValues
    <3>2. f[<<Front(p[1]), p[2]>>] \in Text
      BY <3>1
    <3> QED
      BY <2>2, <3>1, <3>2, ExtendedIsText
  <2> QED
    BY <2>1, <2>2
<1>3. \E f : Solves(f)
  <2>1. step \in [Nat \X [P -> Text] -> [P -> Text]]
    <3> HIDE DEF body, P
    <3> QED
      BY <1>2
  <2>2. ASSUME NEW n \in Nat, NEW f \in [P -> Text], NEW p \in P
        PROVE  step[<<n, f>>][p] = body(f, p)
    <3> HIDE DEF body, P
    <3> QED
      OBVIOUS
  <2> HIDE DEF step, first
  <2>3. PICK F : IsRecursion(F, [P -> Text], first, step)
    BY <1>1, <2>1, Recursion, Zenon
  <2>4. /\ F[0] = first
        /\ \A n \in Nat : F[n] \in [P -> Text]
        /\ \A n \in Nat : F[n + 1] = step[<<n, F[n]>>]
    BY <2>3 DEF IsRecursion
  <2> DEFINE f == [p \in P |-> F[Len(p[1])][p]]
  <2>5. ASSUME NEW p \in P PROVE f[p] = body(f, p)
    <3>1. CASE p[1] = <<>>
      <4>1. Len(p[1]) = 0
        BY <3>1, EmptySeq
      <4>2. first[p] = <<>>
        BY DEF first
      <4> QED
        BY <2>4, <3>1, <4>1, <4>2
    <3>2. CASE p[1] # <<>>
      <4> DEFINE n == Len(p[1]) - 1
                 r == <<Front(p[1]), p[2]>>
      <4>1. /\ n \in Nat /\ n + 1 = Len(p[1]) /\ r \in P
            /\ r[1] = Front(p[1]) /\ Len(Front(p[1])) = n
        BY <3>2, FrontOfValues
      <4> HIDE DEF n, r
      <4>2. f[p] = F[n + 1][p] /\ f[r] = F[n][r]
        BY <4>1
      <4>3. F[n] \in [P -> Text] /\ F[n + 1] = step[<<n, F[n]>>]
        BY <2>4, <4>1
      <4>4. f[p] = body(F[n], p)
        <5> HIDE DEF body, f
        <5> QED
          BY <2>2, <4>1, <4>2, <4>3
      <4>5. body(F[n], p) = Extended(F[n][r], p[2], Last(p[1]))
        BY <3>2 DEF r
      <4>6. body(f, p) = Extended(f[r], p[2], Last(p[1]))
        <5> HIDE DEF f
        <5> QED
          BY <3>2 DEF r
      <4> HIDE DEF f, body
      <4> QED
        BY <4>2, <4>4, <4>5, <4>6
    <3> QED
      BY <3>1, <3>2
  <2>6. Solves(f)
    <3>1. f = [p \in P |-> f[p]]
      OBVIOUS
    <3> HIDE DEF f, body, P
    <3> QED
      BY <2>5, <3>1
  <2> QED
    BY <2>6, Zenon
<1>4. Solves(joined)
  <2>1. joined = CHOOSE f : Solves(f)
    BY Zenon DEF joined, Extended
  <2> HIDE DEF Solves
  <2> QED
    BY <1>3, <2>1
<1>5. ASSUME NEW p \in P PROVE joined[p] = body(joined, p)
  <2> HIDE DEF body, P
  <2> QED
    BY <1>4
<1> QED
  BY <1>5

LEMMA JoinSteps ==
  ASSUME NEW values \in Seq(Text), NEW separator \in Text
  PROVE  Join(values, separator) =
           IF values = <<>> THEN <<>>
           ELSE Extended(Join(Front(values), separator), separator, Last(values))
<1> DEFINE p == <<values, separator>>
<1>1. p \in Seq(Text) \X Text /\ p[1] = values /\ p[2] = separator
  OBVIOUS
<1> HIDE DEF p
<1>2. joined[p] = IF p[1] = <<>> THEN <<>>
                  ELSE Extended(joined[<<Front(p[1]), p[2]>>], p[2], Last(p[1]))
  BY <1>1, JoinedEquation
<1> QED
  BY <1>1, <1>2 DEF Join, p

LEMMA JoinIsText ==
  ASSUME NEW separator \in Text
  PROVE  \A values \in Seq(Text) : Join(values, separator) \in Text
<1> DEFINE T == {n \in Nat : \A values \in Seq(Text) :
                     Len(values) = n => Join(values, separator) \in Text}
<1>1. 0 \in T
  <2>1. ASSUME NEW values \in Seq(Text), Len(values) = 0
        PROVE  Join(values, separator) \in Text
    <3>1. values = <<>>
      BY <2>1, EmptySeq
    <3> QED
      BY <3>1, JoinSteps, EmptySeq DEF Text
  <2> QED
    BY <2>1
<1>2. ASSUME NEW n \in Nat, n \in T PROVE n + 1 \in T
  <2>1. ASSUME NEW values \in Seq(Text), Len(values) = n + 1
        PROVE  Join(values, separator) \in Text
    <3>1. values # <<>>
      BY <2>1, EmptySeq
    <3>2. /\ Front(values) \in Seq(Text) /\ Last(values) \in Text
          /\ Len(Front(values)) = n
      BY <2>1, <3>1, FrontAndLast
    <3>3. Join(Front(values), separator) \in Text
      BY <1>2, <3>2
    <3> QED
      BY <3>1, <3>2, <3>3, JoinSteps, ExtendedIsText
  <2> QED
    BY <2>1
<1>3. Nat \subseteq T
  <2> HIDE DEF T
  <2> QED
    BY <1>1, <1>2, Induction
<1> QED
  BY <1>3, LenProperties

(* No value is empty or has a token of the separator inside.               *)
Plain(values, separator) ==
  \A i \in 1..Len(values) : values[i] # <<>> /\ Apart(separator, values[i])

(* Such values can be told from their text.                                *)
LEMMA JoinIsInjective ==
  ASSUME NEW separator \in Text, separator # <<>>
  PROVE  \A v, w \in Seq(Text) :
           /\ Len(v) = Len(w) /\ Plain(v, separator) /\ Plain(w, separator)
           /\ Join(v, separator) = Join(w, separator)
           => v = w
<1>1. \A s, t, d, e \in Text :
        Apart(separator, d) /\ Apart(separator, e)
        /\ (s \o separator) \o d = (t \o separator) \o e
          => s = t /\ d = e
  BY CutLast, Zenon DEF Text
<1> DEFINE T == {n \in Nat : \A v, w \in Seq(Text) :
                     /\ Len(v) = n /\ Len(w) = n
                     /\ Plain(v, separator) /\ Plain(w, separator)
                     /\ Join(v, separator) = Join(w, separator)
                     => v = w}
<1>2. 0 \in T
  BY EmptySeq
<1>3. ASSUME NEW n \in Nat, n \in T PROVE n + 1 \in T
  <2> SUFFICES ASSUME NEW v \in Seq(Text), NEW w \in Seq(Text),
                      Len(v) = n + 1, Len(w) = n + 1,
                      Plain(v, separator), Plain(w, separator),
                      Join(v, separator) = Join(w, separator)
               PROVE  v = w
    OBVIOUS
  <2> DEFINE a == Front(v)  b == Front(w)  x == Last(v)  y == Last(w)
             A == Join(a, separator)
             B == Join(b, separator)
  <2>1. v # <<>> /\ w # <<>>
    BY EmptySeq
  <2>2. /\ a \in Seq(Text) /\ b \in Seq(Text) /\ x \in Text /\ y \in Text
        /\ Len(a) = n /\ Len(b) = n /\ x = v[n + 1] /\ y = w[n + 1]
        /\ \A i \in 1..n : a[i] = v[i] /\ b[i] = w[i]
    <3>1. Len(v) - 1 = n /\ Len(w) - 1 = n
      OBVIOUS
    <3>2. /\ a \in Seq(Text) /\ x \in Text /\ Len(a) = Len(v) - 1 /\ x = v[Len(v)]
          /\ \A i \in 1..Len(v) - 1 : a[i] = v[i]
      BY <2>1, FrontAndLast
    <3>3. /\ b \in Seq(Text) /\ y \in Text /\ Len(b) = Len(w) - 1 /\ y = w[Len(w)]
          /\ \A i \in 1..Len(w) - 1 : b[i] = w[i]
      BY <2>1, FrontAndLast
    <3> HIDE DEF a, b, x, y
    <3> QED
      BY <3>1, <3>2, <3>3
  <2>3. A \in Text /\ B \in Text
    BY <2>2, JoinIsText
  <2>4. /\ Plain(a, separator) /\ Plain(b, separator)
        /\ x # <<>> /\ y # <<>> /\ Apart(separator, x) /\ Apart(separator, y)
    <3>1. \A i \in 1..n : i \in 1..n + 1
      OBVIOUS
    <3>2. n + 1 \in 1..n + 1
      OBVIOUS
    <3> HIDE DEF a, b, x, y
    <3> QED
      BY <2>2, <3>1, <3>2 DEF Plain
  <2>5. Extended(A, separator, x) = Extended(B, separator, y)
    BY <2>1, JoinSteps
  <2> HIDE DEF a, b, x, y
  <2>6. n # 0 => A # <<>> /\ B # <<>>
    <3> SUFFICES ASSUME n # 0 PROVE A # <<>> /\ B # <<>>
      OBVIOUS
    <3>1. /\ a # <<>> /\ b # <<>> /\ n \in 1..n
      BY <2>2, EmptySeq
    <3>2. /\ Last(a) = a[n] /\ Last(b) = b[n] /\ Last(a) \in Text /\ Last(b) \in Text
          /\ Front(a) \in Seq(Text) /\ Front(b) \in Seq(Text)
      BY <2>2, <3>1, FrontAndLast
    <3>3. Last(a) # <<>> /\ Last(b) # <<>>
      BY <2>2, <2>4, <3>1, <3>2 DEF Plain
    <3>4. /\ A = Extended(Join(Front(a), separator), separator, Last(a))
          /\ B = Extended(Join(Front(b), separator), separator, Last(b))
      BY <2>2, <3>1, JoinSteps
    <3>5. Join(Front(a), separator) \in Text /\ Join(Front(b), separator) \in Text
      BY <3>2, JoinIsText
    <3>6. ASSUME NEW s \in Text, NEW t \in Text, t # <<>>
          PROVE  Extended(s, separator, t) # <<>>
      <4>1. s \o separator \in Text
        BY ConcatProperties DEF Text
      <4>2. s \o separator \o t # <<>>
        BY <3>6, <4>1, ConcatEqualIffEmpty DEF Text
      <4> QED
        BY <3>6, <4>2 DEF Extended
    <3> HIDE DEF A, B
    <3> QED
      BY <3>2, <3>3, <3>4, <3>5, <3>6
  <2>7. a = b /\ x = y
    <3>1. CASE n = 0
      <4>1. a = <<>> /\ b = <<>>
        BY <2>2, <3>1, EmptySeq
      <4>2. A = <<>> /\ B = <<>>
        BY <4>1, EmptySeq, JoinSteps
      <4> HIDE DEF A, B
      <4> QED
        BY <2>4, <2>5, <4>1, <4>2 DEF Extended
    <3>2. CASE n # 0
      <4> HIDE DEF A, B
      <4>1. (A \o separator) \o x = (B \o separator) \o y
        BY <2>4, <2>5, <2>6, <3>2 DEF Extended
      <4>2. A = B /\ x = y
        <5>1. A \in Text /\ B \in Text /\ x \in Text /\ y \in Text
          BY <2>2, <2>3
        <5>2. Apart(separator, x) /\ Apart(separator, y)
          BY <2>4
        <5>3. \A d, e \in Text :
                Apart(separator, d) /\ Apart(separator, e)
                /\ (A \o separator) \o d = (B \o separator) \o e
                => A = B /\ d = e
          BY <1>1, <5>1, Zenon
        <5> QED
          BY <4>1, <5>1, <5>2, <5>3, Zenon
      <4>3. Join(a, separator) = Join(b, separator)
        BY <4>2 DEF A, B
      <4> QED
        BY <1>3, <2>2, <2>4, <4>2, <4>3
    <3> QED
      BY <3>1, <3>2
  <2> QED
    BY <2>1, <2>7, FrontLastEqual DEF a, b, x, y
<1>4. Nat \subseteq T
  <2> HIDE DEF T
  <2> QED
    BY <1>2, <1>3, Induction
<1> QED
  BY <1>4, LenProperties

(* SHA-256 is taken to be injective, and a digest to be no other event's   *)
(* short key; in the model the one follows from the text in the digest and *)
(* the other from its length.                                              *)
Keyed(text) == IF Len(text) > LongKey THEN Digest(text) ELSE text

LEMMA KeyedIsInjective ==
  ASSUME NEW s \in Text, NEW t \in Text, Keyed(s) = Keyed(t)
  PROVE  s = t
<1> DEFINE S == Tokens \cup {"sha256"}
           h == <<"sha256">>
<1>1. s \in Seq(S) /\ t \in Seq(S)
  BY SeqMonotonic DEF Text
<1>2. h \in Seq(S) /\ Len(h) = 1
  <2>1. "sha256" \in S
    OBVIOUS
  <2> QED
    BY <2>1, InHand
<1> HIDE DEF S, h
<1>3. /\ Len(h \o s) = 1 + Len(s) /\ Len(h \o t) = 1 + Len(t)
      /\ Len(s) \in Nat /\ Len(t) \in Nat /\ LongKey \in Nat
  <2>1. \A x, y \in Seq(S) : Len(x \o y) = Len(x) + Len(y)
    BY ConcatProperties
  <2>2. \A x \in Seq(S) : Len(x) \in Nat
    BY LenProperties
  <2> QED
    BY <1>1, <1>2, <2>1, <2>2, LongKeyAssumption
<1>4. /\ Keyed(s) = IF Len(s) > LongKey THEN h \o s ELSE s
      /\ Keyed(t) = IF Len(t) > LongKey THEN h \o t ELSE t
  BY DEF Keyed, Digest, h
<1>5. (Len(s) > LongKey) <=> (Len(t) > LongKey)
  <2>1. ASSUME Len(s) > LongKey, ~ (Len(t) > LongKey) PROVE FALSE
    <3>1. h \o s = t
      BY <1>4, <2>1
    <3>2. Len(t) = 1 + Len(s)
      BY <1>3, <3>1
    <3> QED
      BY <1>3, <2>1, <3>2
  <2>2. ASSUME ~ (Len(s) > LongKey), Len(t) > LongKey PROVE FALSE
    <3>1. h \o t = s
      BY <1>4, <2>2
    <3>2. Len(s) = 1 + Len(t)
      BY <1>3, <3>1
    <3> QED
      BY <1>3, <2>2, <3>2
  <2> QED
    BY <2>1, <2>2
<1>6. CASE Len(s) > LongKey
  <2>1. h \o s = h \o t
    BY <1>4, <1>5, <1>6
  <2> QED
    BY <1>1, <1>2, <2>1, ConcatSimplifications
<1>7. CASE ~ (Len(s) > LongKey)
  BY <1>4, <1>5, <1>7
<1> QED
  BY <1>6, <1>7

LEMMA ValuesAreText ==
  ASSUME NEW e \in Traffic, NEW key, key.fields \in Seq(Range(key.fields))
  PROVE  /\ FieldValues(e, key) \in Seq(Text)
         /\ Len(FieldValues(e, key)) = Len(key.fields)
<1> DEFINE n == Len(key.fields)
           value(i) == ExtractFieldValue(e, key.fields[i])
<1>1. n \in Nat
  BY LenProperties
<1>2. \A type \in EventTypes : <<type>> \in Text
  BY TokensAssumption, InHand DEF Text
<1>3. DetectEventType(e) \in EventTypes /\ "unknown" \in EventTypes
  BY DEF DetectEventType, EventTypes
<1>4. GetEventNode(e) \in Text
  BY <1>2, <1>3, TrafficAssumption DEF GetEventNode
<1>5. ASSUME NEW field PROVE ExtractAttribute(e, field) \in Text
  BY TrafficAssumption, EmptySeq DEF ExtractAttribute, Text
<1>6. ASSUME NEW field PROVE ExtractFieldValue(e, field) \in Text
  BY <1>2, <1>3, <1>4, <1>5, TrafficAssumption DEF ExtractFieldValue
<1>7. \A i \in 1..n : value(i) \in Text
  BY <1>6
<1>8. FieldValues(e, key) = [i \in 1..n |-> value(i)]
  BY DEF FieldValues
<1> HIDE DEF n, value
<1>9. FieldValues(e, key) \in Seq(Text)
  BY <1>1, <1>7, <1>8, IsASeq
<1>10. Len(FieldValues(e, key)) = n
  BY <1>1, <1>8
<1> QED
  BY <1>9, <1>10 DEF n

LEMMA IdentifiableIsPlain ==
  ASSUME NEW e \in Traffic, NEW key, key.fields \in Seq(Range(key.fields)),
         key.separator \in Text, Identifiable(e, key)
  PROVE  key.separator # <<>> /\ Plain(FieldValues(e, key), key.separator)
<1> DEFINE values == FieldValues(e, key)
           separator == key.separator
<1>1. values \in Seq(Text) /\ separator \in Seq(Tokens)
  BY ValuesAreText DEF Text
<1>2. /\ separator # <<>>
      /\ \A v \in Range(values) :
           v # <<>> /\ ~ \E t \in Range(separator) : t \in Range(v)
  BY DEF Identifiable
<1> HIDE DEF values, separator
<1>3. /\ Range(values) = {values[i] : i \in 1..Len(values)}
      /\ Range(separator) = {separator[i] : i \in 1..Len(separator)}
  BY <1>1, RangeEquality
<1>4. ASSUME NEW i \in 1..Len(values)
      PROVE  values[i] # <<>> /\ Apart(separator, values[i])
  <2>1. values[i] \in Range(values) /\ values[i] \in Seq(Tokens)
    BY <1>1, <1>3, ElementOfSeq DEF Text
  <2>2. Range(values[i]) = {values[i][j] : j \in 1..Len(values[i])}
    BY <2>1, RangeEquality
  <2> QED
    BY <1>2, <1>3, <2>1, <2>2 DEF Apart
<1> QED
  BY <1>2, <1>4 DEF Plain, values, separator

(* Two identifiable events with the same key have the same values.         *)
LEMMA KeyIdentifies ==
  ASSUME NEW d \in Traffic, NEW e \in Traffic, NEW key,
         key.fields \in Seq(Range(key.fields)), key.separator \in Text,
         Identifiable(d, key), Identifiable(e, key),
         GenerateDedupKey(d, key) = GenerateDedupKey(e, key)
  PROVE  FieldValues(d, key) = FieldValues(e, key)
<1> DEFINE v == FieldValues(d, key)
           w == FieldValues(e, key)
           separator == key.separator
<1>1. /\ v \in Seq(Text) /\ w \in Seq(Text) /\ Len(v) = Len(w)
      /\ separator \in Text
  BY ValuesAreText
<1>2. separator # <<>> /\ Plain(v, separator) /\ Plain(w, separator)
  BY IdentifiableIsPlain
<1>3. Keyed(Join(v, separator)) = Keyed(Join(w, separator))
  BY Zenon DEF GenerateDedupKey, Keyed
<1> HIDE DEF v, w, separator
<1>4. Join(v, separator) \in Text /\ Join(w, separator) \in Text
  BY <1>1, JoinIsText
<1>5. Join(v, separator) = Join(w, separator)
  BY <1>3, <1>4, KeyedIsInjective
<1>6. v = w
  BY <1>1, <1>2, <1>5, JoinIsInjective
<1> QED
  BY <1>6 DEF v, w

(* The key's settings survive every reload of the configuration.           *)
KeyInv ==
  /\ {"topics", "key"} \subseteq DOMAIN cfg
  /\ cfg.key.fields \in Seq(Range(cfg.key.fields))
  /\ cfg.key.separator \in Text
  /\ kept \subseteq Traffic

Compaction ==
  \A d \in kept : d \notin kept' =>
    \E e \in kept' :
      /\ SameRecord(d, e)
      /\ \/ FieldValues(d, cfg.key) = FieldValues(e, cfg.key)
         \/ ~Identifiable(d, cfg.key) \/ ~Identifiable(e, cfg.key)

LEMMA KeyStep == KeyInv /\ [Next]_vars => KeyInv' /\ Compaction
<1> SUFFICES ASSUME KeyInv, [Next]_vars PROVE KeyInv' /\ Compaction
  OBVIOUS
<1>1. CASE UNCHANGED <<cfg, kept>>
  BY <1>1 DEF KeyInv, Compaction
<1>2. CASE LoadsConfig
  <2>1. UNCHANGED kept
    BY <1>2 DEF LoadsConfig, restOfLoad
  <2>2. cfg' = Load(cfg)
    BY <1>2 DEF LoadsConfig
  <2>3. {"topics", "key"} \subseteq DOMAIN cfg' /\ cfg'.key = cfg.key
    BY <2>2 DEF KeyInv, Load
  <2> QED
    BY <2>1, <2>3 DEF KeyInv, Compaction
<1>3. CASE StoresEvent
  <2>1. UNCHANGED cfg
    BY <1>3 DEF StoresEvent, restOfTraffic, lifeVars
  <2>2. PICK e \in Traffic : kept' = kept \cup {e}
    BY <1>3 DEF StoresEvent
  <2> QED
    BY <2>1, <2>2 DEF KeyInv, Compaction
<1>4. CASE Compacts
  <2>1. UNCHANGED cfg
    BY <1>4 DEF Compacts, restOfTraffic, lifeVars
  <2>2. PICK d \in kept, e \in kept : d # e /\ SameRecord(d, e) /\ kept' = kept \ {d}
    BY <1>4 DEF Compacts
  <2>3. d \in Traffic /\ e \in Traffic /\ e \in kept'
    BY <2>2 DEF KeyInv
  <2>4. \/ FieldValues(d, cfg.key) = FieldValues(e, cfg.key)
        \/ ~Identifiable(d, cfg.key) \/ ~Identifiable(e, cfg.key)
    BY <2>2, <2>3, KeyIdentifies DEF KeyInv, SameRecord
  <2>5. Compaction
    BY <2>2, <2>3, <2>4 DEF Compaction
  <2> QED
    BY <2>1, <2>2, <2>5 DEF KeyInv
<1>5. CASE UNCHANGED vars
  BY <1>1, <1>5 DEF vars, lifeVars
<1>6. CASE Main /\ ~ LoadsConfig
  <2>1. UNCHANGED <<cfg, kept>>
    BY <1>6 DEF Main, RejectsConfig, DiesBeforeServers, Exits, Ends, BeginsTopics,
      SkipsTopics, EnsuresTopics, TopicsDone, restOfTopics, StartsServers, NoServers,
      CreatesProducer, ProducerFails, JudgesProducer, RebuildsLogger, restOfProducer,
      StartsPipeline, GetsReady, ArmsSignals, StopsServers, restOfMain, lifeVars
  <2> QED
    BY <1>1, <2>1
<1>7. CASE Signal \/ Killed \/ Restarts \/ LastLife
  <2>1. UNCHANGED <<cfg, kept>>
    BY <1>7 DEF Signal, restOfMain, Killed, Ends, Restarts, LastLife, vars, lifeVars
  <2> QED
    BY <1>1, <2>1
<1>8. CASE Servers \/ ProbeStep \/ OtherReplicaStarts
  <2>1. UNCHANGED <<cfg, kept>>
    BY <1>8 DEF Servers, HealthListens, HealthFails, HealthReturns, MetricsListens,
      MetricsFails, MetricsReturns, restOfServer, ProbeStep, OtherReplicaStarts, lifeVars
  <2> QED
    BY <1>1, <2>1
<1> QED
  BY <1>2, <1>3, <1>4, <1>5, <1>6, <1>7, <1>8 DEF Next

(* For every traffic, list of key fields and separator, compaction drops   *)
(* an event only in favour of one with the same values in all fields of    *)
(* the key, if both have them all and the separator in none: joining the   *)
(* fields (partition_key.go:25-34) and hashing the long keys (:39-42) take *)
(* no two such events for one.                                             *)
THEOREM CompactionKeepsDistinct == Spec => OnlyDuplicatesVanish
<1>1. Init => KeyInv
  <2> SUFFICES ASSUME Init PROVE KeyInv
    OBVIOUS
  <2>1. cfg \in Files /\ kept = {}
    BY DEF Init
  <2> QED
    BY <2>1, FilesAssumption DEF KeyInv
<1>2. [][Compaction]_vars => OnlyDuplicatesVanish
  BY PTL DEF OnlyDuplicatesVanish, Compaction
<1>3. KeyInv /\ [Next]_vars => [Compaction]_vars
  BY KeyStep
<1>4. KeyInv /\ [Next]_vars => KeyInv'
  BY KeyStep
<1> QED
  BY <1>1, <1>2, <1>3, <1>4, PTL DEF Spec
=============================================================================
