------------------------------- MODULE Startup -------------------------------
(***************************************************************************)
(* The life of the process as cmd/consumer/main.go runs it: configuration, *)
(* logger, topics, the two HTTP servers, the producer, the pipeline,       *)
(* readiness, the signal, the end; and then the next life, for the pod is  *)
(* restarted whatever the reason.  What happens to events in the pipeline  *)
(* at shutdown is Adapter's; here an event matters for the topic it goes   *)
(* to and for the key under which the compacted topic keeps it.            *)
(*                                                                         *)
(* main and the goroutines of the two servers share main's variable err    *)
(* and no lock.  Its value is the name of who failed.                      *)
(***************************************************************************)
EXTENDS AdapterConfig, Routing, TopicAdmin, HealthServer

CONSTANTS
  Files,          \* the configuration files the adapter may be started with
  Traffic,        \* the events Tetragon may send
  Lives           \* how often the process is started (bound of the model)

ASSUME LivesAssumption == Lives \in Nat

ASSUME FilesAssumption ==
  \A f \in Files : /\ {"topics", "outputs", "key"} \subseteq DOMAIN f
                   /\ f.outputs \in Seq(Range(f.outputs))
                   /\ f.key.fields \in Seq(Range(f.key.fields))
                   /\ f.key.separator \in Text

ASSUME TrafficAssumption ==
  \A e \in Traffic : /\ e.node \in Text /\ e.time \in Text
                     /\ \A field \in DOMAIN e.attrs : e.attrs[field] \in Text

VARIABLES
  cfg,            \* the configuration, the file's until it is loaded
  lives,          \* starts left
  mpc,            \* where main is
  err,            \* main's variable err, captured by the servers' goroutines
  created,        \* NewProducer has returned a producer
  hasProducer,    \* main keeps it: producer # nil
  healthSrv,      \* the goroutine of the health server
  metricsSrv,     \* the goroutine of the metrics server
  stopped,        \* main has called Shutdown on the servers
  serverFailed,   \* history: a server has failed in this life
  earlyLog,       \* where the parts built before the producer log to
  mainLog,        \* where main and the parts built after it log to
  kept            \* the events of which a record is in its topic

lifeVars == <<cfg, lives>>
serverVars == <<healthSrv, metricsSrv, stopped, serverFailed>>
producerVars == <<created, hasProducer>>
logVars == <<earlyLog, mainLog>>

vars == <<topicVars, healthVars, lifeVars, mpc, err, producerVars, serverVars,
          logVars, kept>>

MainStates == {"load", "client", "ensure", "servers", "producer", "verdict",
               "logger", "pipeline", "waiting", "unarmed", "serving", "closing",
               "waitAll", "dead"}

Errors == {"nil", "closed", "producer", "health", "metrics"}

ServerStates == {"off", "starting", "up", "returned"}

Sinks == {"file", "kafka", "console"}

Init ==
  /\ cfg \in Files
  /\ lives = Lives
  /\ mpc = "load"
  /\ err = "nil"
  /\ created = FALSE /\ hasProducer = FALSE
  /\ healthSrv = "off" /\ metricsSrv = "off"
  /\ stopped = FALSE /\ serverFailed = FALSE
  /\ earlyLog = {} /\ mainLog = {}
  /\ cluster \in SUBSET Range(Load(cfg).topics)
  /\ remaining = {} /\ creating = <<>> /\ refused = {}
  /\ HealthInit
  /\ kept = {}

-----------------------------------------------------------------------------
(* main, up to readiness.                                                  *)

Goes(from, to) == mpc = from /\ mpc' = to

(* The process ends, and with it everything but the cluster.               *)
Ends ==
  /\ mpc' = "dead"
  /\ err' = "nil"
  /\ created' = FALSE /\ hasProducer' = FALSE
  /\ healthSrv' = "off" /\ metricsSrv' = "off"
  /\ stopped' = FALSE /\ serverFailed' = FALSE
  /\ earlyLog' = {} /\ mainLog' = {}
  /\ TopicsForget
  /\ HealthForget
  /\ UNCHANGED <<lifeVars, kept>>

restOfLoad == <<topicVars, healthVars, lives, err, producerVars, serverVars, kept>>

(* Load, Validate and the first logger.Init.                               *)
LoadsConfig ==
  /\ Goes("load", "client")
  /\ cfg' = Load(cfg)
  /\ Validate(cfg')
  /\ earlyLog' = LogOutputs(cfg', FirstOutputs(cfg'), FALSE)
  /\ mainLog' = earlyLog'
  /\ UNCHANGED restOfLoad

RejectsConfig ==
  /\ mpc = "load"
  /\ ~Validate(Load(cfg))
  /\ Ends

restOfTopics == <<healthVars, lifeVars, producerVars, serverVars, logVars, kept>>

(* log.Fatal: NewClient has failed, or NewTopicAdmin has.                  *)
DiesBeforeServers == mpc = "client" /\ Ends

BeginsTopics ==
  /\ cfg.autoCreate
  /\ Goes("client", "ensure")
  /\ BeginEnsure(cfg.topics)
  /\ UNCHANGED <<restOfTopics, err>>

SkipsTopics ==
  /\ ~cfg.autoCreate
  /\ Goes("client", "servers")
  /\ UNCHANGED <<restOfTopics, err, topicVars>>

EnsuresTopics ==
  /\ mpc = "ensure"
  /\ EnsureStep(cfg.topics)
  /\ UNCHANGED <<restOfTopics, err, mpc>>

(* EnsureTopics returns nil whatever has failed.                           *)
TopicsDone ==
  /\ EnsureDone
  /\ Goes("ensure", "servers")
  /\ err' = "nil"
  /\ UNCHANGED <<restOfTopics, topicVars>>

StartsServers ==
  /\ cfg.monitoring
  /\ Goes("servers", "producer")
  /\ SetReady(FALSE)
  /\ healthSrv' = "starting" /\ metricsSrv' = "starting"
  /\ UNCHANGED <<topicVars, lifeVars, err, producerVars, stopped, serverFailed,
                 logVars, kept>>

NoServers ==
  /\ ~cfg.monitoring
  /\ Goes("servers", "producer")
  /\ UNCHANGED <<topicVars, restOfTopics, err>>

restOfProducer == <<topicVars, healthVars, lifeVars, serverVars, kept>>

(* producer, err := NewProducer(...).                                      *)
CreatesProducer ==
  /\ SaramaAccepts(cfg)
  /\ Goes("producer", "verdict")
  /\ created' = TRUE
  /\ err' = "nil"
  /\ UNCHANGED <<restOfProducer, hasProducer, logVars>>

ProducerFails ==
  /\ Goes("producer", "verdict")
  /\ err' = "producer"
  /\ UNCHANGED <<restOfProducer, producerVars, logVars>>

OwnError == IF created THEN "nil" ELSE "producer"

(* if err != nil: a race.  main sees what the variable holds now, or what  *)
(* it has stored there itself, if the compiler kept that in a register.    *)
JudgesProducer ==
  /\ Goes("verdict", "logger")
  /\ \E seen \in {err, OwnError} : hasProducer' = (seen = "nil")
  /\ UNCHANGED <<restOfProducer, err, created, logVars>>

(* The second logger.Init.                                                 *)
RebuildsLogger ==
  /\ Goes("logger", "pipeline")
  /\ mainLog' = IF HasKafkaLog(cfg) /\ cfg.kafkaLog
                  THEN LogOutputs(cfg, Range(cfg.outputs), hasProducer)
                  ELSE mainLog
  /\ UNCHANGED <<restOfProducer, err, producerVars, earlyLog>>

restOfMain == <<topicVars, lifeVars, err, producerVars, logVars, kept>>

(* Writer, reconnect manager, processEvents and writeToKafka.              *)
StartsPipeline ==
  /\ Goes("pipeline", "waiting")
  /\ UNCHANGED <<restOfMain, healthVars, serverVars>>

(* Two seconds later, whatever became of the rest.                         *)
GetsReady ==
  /\ Goes("waiting", "unarmed")
  /\ IF cfg.monitoring THEN SetReady(TRUE) ELSE UNCHANGED healthVars
  /\ UNCHANGED <<restOfMain, serverVars>>

(* signal.Notify: until now a signal has killed the process.               *)
ArmsSignals ==
  /\ Goes("unarmed", "serving")
  /\ UNCHANGED <<restOfMain, healthVars, serverVars>>

-----------------------------------------------------------------------------
(* main, from the signal on.                                               *)

Signal ==
  /\ Goes("serving", "closing")
  /\ IF cfg.monitoring THEN SetShutdown(TRUE) ELSE UNCHANGED healthVars
  /\ UNCHANGED <<restOfMain, serverVars>>

StopsServers ==
  /\ Goes("closing", "waitAll")
  /\ IF cfg.monitoring THEN stopped' = TRUE ELSE UNCHANGED stopped
  /\ UNCHANGED <<restOfMain, healthVars, healthSrv, metricsSrv, serverFailed>>

(* Both waits, for the servers and for all goroutines, have timeouts, so   *)
(* that nothing is known of the others when main returns.                  *)
Exits == mpc = "waitAll" /\ Ends

-----------------------------------------------------------------------------
(* The goroutines of the servers.  Each stores what its server returned in *)
(* err before looking at it.                                               *)

restOfServer == <<topicVars, lifeVars, mpc, producerVars, logVars, kept>>

(* Slip: Start returns as soon as it listens and serves in a goroutine of  *)
(* its own, as the comment in Start has it.                                *)
HealthListensAndReturns ==
  /\ healthSrv = "starting"
  /\ healthSrv' = "up"
  /\ err' = "nil"
  /\ UNCHANGED <<restOfServer, healthVars, metricsSrv, stopped, serverFailed>>

HealthListens ==
  /\ healthSrv = "starting"
  /\ healthSrv' = "up"
  /\ UNCHANGED <<restOfServer, healthVars, err, metricsSrv, stopped, serverFailed>>

(* The port is taken, or Accept fails later.                               *)
HealthFails ==
  /\ healthSrv = "starting" \/ (healthSrv = "up" /\ ~stopped)
  /\ healthSrv' = "returned"
  /\ err' = "health"
  /\ serverFailed' = TRUE
  /\ UNCHANGED <<restOfServer, healthVars, metricsSrv, stopped>>

(* Serve returns ErrServerClosed, which Start turns into nil.              *)
HealthReturns ==
  /\ healthSrv = "up"
  /\ stopped
  /\ healthSrv' = "returned"
  /\ err' = "nil"
  /\ UNCHANGED <<restOfServer, healthVars, metricsSrv, stopped, serverFailed>>

MetricsListens ==
  /\ metricsSrv = "starting"
  /\ ~stopped
  /\ metricsSrv' = "up"
  /\ UNCHANGED <<restOfServer, healthVars, err, healthSrv, stopped, serverFailed>>

MetricsFails ==
  /\ metricsSrv \in {"starting", "up"}
  /\ ~stopped
  /\ metricsSrv' = "returned"
  /\ err' = "metrics"
  /\ serverFailed' = TRUE
  /\ UNCHANGED <<restOfServer, healthVars, healthSrv, stopped>>

MetricsReturns ==
  /\ metricsSrv \in {"starting", "up"}
  /\ stopped
  /\ metricsSrv' = "returned"
  /\ err' = "closed"
  /\ UNCHANGED <<restOfServer, healthVars, healthSrv, stopped, serverFailed>>

Servers ==
  \/ HealthListens \/ HealthFails \/ HealthReturns
  \/ MetricsListens \/ MetricsFails \/ MetricsReturns

(* A stopped server takes no more requests; those in the handler go on.    *)
ProbeStep ==
  /\ \/ healthSrv = "up" /\ ~stopped /\ ProbeArrives
     \/ ProbeReads
     \/ ProbeAnswered
  /\ UNCHANGED <<topicVars, lifeVars, mpc, err, producerVars, serverVars, logVars, kept>>

-----------------------------------------------------------------------------
(* The topics.  All replicas write the same events with the same keys.     *)

(* main has started the goroutines of the pipeline and is still there; of  *)
(* producer and stream this says nothing, so that a record needs both.     *)
Started == mpc \in {"waiting", "unarmed", "serving", "closing", "waitAll"}

restOfTraffic == <<topicVars, healthVars, lifeVars, mpc, err, producerVars,
                   serverVars, logVars>>

StoresEvent ==
  /\ Started
  /\ hasProducer
  /\ \E e \in Traffic : kept' = kept \cup {e}
  /\ UNCHANGED restOfTraffic

SameRecord(d, e) ==
  /\ Route(cfg.topics, d) = Route(cfg.topics, e)
  /\ GenerateDedupKey(d, cfg.key) = GenerateDedupKey(e, cfg.key)

(* External: log compaction drops a record when a later one has its key.   *)
(* Replicas write in any order, so that either may be the later one.       *)
Compacts ==
  /\ \E d, e \in kept : d # e /\ SameRecord(d, e) /\ kept' = kept \ {d}
  /\ UNCHANGED restOfTraffic

OtherReplicaStarts ==
  /\ mpc = "ensure"
  /\ ReplicaCreates(cfg.topics)
  /\ UNCHANGED <<healthVars, lifeVars, mpc, err, producerVars, serverVars, logVars, kept>>

-----------------------------------------------------------------------------
(* A signal before signal.Notify, SIGKILL, the memory limit.               *)
Killed == mpc # "dead" /\ Ends

(* The kubelet starts the container again.                                 *)
Restarts ==
  /\ lives > 1
  /\ Goes("dead", "load")
  /\ lives' = lives - 1
  /\ UNCHANGED <<topicVars, healthVars, cfg, err, producerVars, serverVars,
                 logVars, kept>>

LastLife == mpc = "dead" /\ lives <= 1 /\ UNCHANGED vars

Main ==
  \/ LoadsConfig \/ RejectsConfig \/ DiesBeforeServers
  \/ BeginsTopics \/ SkipsTopics \/ EnsuresTopics \/ TopicsDone
  \/ StartsServers \/ NoServers \/ CreatesProducer \/ ProducerFails
  \/ JudgesProducer \/ RebuildsLogger \/ StartsPipeline \/ GetsReady
  \/ ArmsSignals \/ StopsServers \/ Exits

Next ==
  \/ Main \/ Signal \/ Servers \/ ProbeStep
  \/ StoresEvent \/ Compacts \/ OtherReplicaStarts
  \/ Killed \/ Restarts \/ LastLife

Spec == Init /\ [][Next]_vars

-----------------------------------------------------------------------------
(* The type invariant.                                                     *)
TypeOK ==
  /\ lives \in 0..Lives
  /\ mpc \in MainStates
  /\ err \in Errors
  /\ created \in BOOLEAN /\ hasProducer \in BOOLEAN
  /\ healthSrv \in ServerStates /\ metricsSrv \in ServerStates
  /\ stopped \in BOOLEAN /\ serverFailed \in BOOLEAN
  /\ earlyLog \subseteq Sinks /\ mainLog \subseteq Sinks
  /\ remaining \subseteq DOMAIN cfg.topics
  /\ creating \in Seq(DOMAIN cfg.topics) /\ Len(creating) <= 1
  /\ cluster \cup refused \subseteq Range(Load(cfg).topics)
  /\ ready \in BOOLEAN /\ shutdown \in BOOLEAN /\ probe \in Probes
  /\ kept \subseteq Traffic

Judged == mpc \in {"logger", "pipeline"} \/ Started

(* For all the sharing of err, main never goes on with a producer that     *)
(* NewProducer did not return, and it throws one away that did come up     *)
(* only if a server has failed.                                            *)
VerdictRight ==
  Judged => /\ hasProducer => created
            /\ created => hasProducer \/ serverFailed

(* Once events flow, each has a topic to go to, and so has its dead        *)
(* letter: the topic exists unless the cluster has failed a request for it *)
(* in this life.  Other replicas, stale metadata, types that share a topic *)
(* and crashes half-way through creating them do not matter.               *)
EventsHaveATopic ==
  Started /\ cfg.autoCreate =>
    \A topic \in {Route(cfg.topics, e) : e \in Traffic} \cup {GetDLQTopic(cfg.topics)} :
      topic \in cluster \cup refused

(* Who asks after SetShutdown is never told "healthy", however the request *)
(* falls between the shutdown's steps and through restarts.  "healthy" is  *)
(* by the clock, and nothing follows from it about producer and stream.    *)
LateProbesRefused ==
  probe.stage = "read" /\ probe.late => Answer(probe) # "healthy"

(* Who asked for a log file is heard for good, by the parts built before   *)
(* the producer as by those built after it, and whatever becomes of the    *)
(* producer; no line goes both to Kafka and to the file (logger.go:109);   *)
(* and with Kafka as the only output, given once, no file is ever made     *)
(* (main.go:53).                                                           *)
LogHeard ==
  /\ "file" \in Range(cfg.outputs) /\ mpc \notin {"load", "dead"} =>
       /\ "file" \in earlyLog
       /\ mainLog \cap {"file", "kafka"} # {}
  /\ ~ {"file", "kafka"} \subseteq mainLog
  /\ cfg.outputs = <<"kafka">> => "file" \notin earlyLog \cup mainLog

(* QUICKSTART.md:5, deduplication by key: compaction drops an event only   *)
(* in favour of one with the same values in all fields of the key.  The    *)
(* code keeps this for events that have them all, without the separator.   *)
OnlyDuplicatesVanish ==
  [][ \A d \in kept : d \notin kept' =>
        \E e \in kept' :
          /\ SameRecord(d, e)
          /\ \/ FieldValues(d, cfg.key) = FieldValues(e, cfg.key)
             \/ ~Identifiable(d, cfg.key) \/ ~Identifiable(e, cfg.key) ]_vars
=============================================================================
