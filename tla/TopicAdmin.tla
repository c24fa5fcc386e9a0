------------------------------ MODULE TopicAdmin ------------------------------
(***************************************************************************)
(* internal/kafka/topic_admin.go: at start-up, list the topics and create  *)
(* the one that is missing, for one configured topic after the other.      *)
(* Between listing and creating, another replica of the adapter may create *)
(* the topic.  The cluster is external and answers as brokers do: with     *)
(* metadata that lags behind, with an error, or not at all, having created *)
(* the topic nevertheless.                                                 *)
(*                                                                         *)
(* Operations for Startup; `topics' is the configured map from event type  *)
(* to topic, which Go ranges over in any order.                            *)
(***************************************************************************)
EXTENDS Sequences, SequencesExt

VARIABLES
  cluster,      \* the topics that exist
  remaining,    \* the event types EnsureTopics has still to look at
  creating,     \* the one it is about to create a topic for, as a sequence
  refused       \* topics an answer of the cluster failed for, in this life

topicVars == <<cluster, remaining, creating, refused>>

(* Slip: the loop of main.go:151 collects the keys of the map.             *)
TopicForKey(topics, type) == type

TopicFor(topics, type) == topics[type]

(* A process that starts knows nothing; the cluster stays as it is.        *)
TopicsForget ==
  /\ remaining' = {}
  /\ creating' = <<>>
  /\ refused' = {}
  /\ UNCHANGED cluster

BeginEnsure(topics) ==
  /\ remaining' = DOMAIN topics
  /\ UNCHANGED <<cluster, creating, refused>>

Look(type) == creating = <<>> /\ type \in remaining /\ remaining' = remaining \ {type}

(* Slip: the first error ends the loop.                                    *)
ListFailureEnds(topics) ==
  \E type \in remaining :
    /\ creating = <<>>
    /\ remaining' = {}
    /\ refused' = refused \cup {TopicFor(topics, type)}
    /\ UNCHANGED <<cluster, creating>>

ListFails(topics) ==
  \E type \in remaining :
    /\ Look(type)
    /\ refused' = refused \cup {TopicFor(topics, type)}
    /\ UNCHANGED <<cluster, creating>>

ListShowsTopic(topics) ==
  \E type \in remaining :
    /\ Look(type)
    /\ TopicFor(topics, type) \in cluster
    /\ UNCHANGED <<cluster, creating, refused>>

(* The topic does not exist, or the broker asked does not know of it yet.  *)
ListOmitsTopic ==
  \E type \in remaining :
    /\ Look(type)
    /\ creating' = <<type>>
    /\ UNCHANGED <<cluster, refused>>

EndCreate == creating # <<>> /\ creating' = <<>> /\ UNCHANGED remaining

Target(topics) == TopicFor(topics, Head(creating))

CreateSucceeds(topics) ==
  /\ EndCreate
  /\ Target(topics) \notin cluster
  /\ cluster' = cluster \cup {Target(topics)}
  /\ UNCHANGED refused

(* "Topic already exists" is an error too: counted as failed, not skipped. *)
CreateComesTooLate(topics) ==
  /\ EndCreate
  /\ Target(topics) \in cluster
  /\ UNCHANGED <<cluster, refused>>

CreateRefused(topics) ==
  /\ EndCreate
  /\ refused' = refused \cup {Target(topics)}
  /\ UNCHANGED cluster

CreateUnanswered(topics) ==
  /\ EndCreate
  /\ cluster' = cluster \cup {Target(topics)}
  /\ refused' = refused \cup {Target(topics)}

EnsureStep(topics) ==
  \/ ListFails(topics) \/ ListShowsTopic(topics) \/ ListOmitsTopic
  \/ CreateSucceeds(topics) \/ CreateComesTooLate(topics)
  \/ CreateRefused(topics) \/ CreateUnanswered(topics)

EnsureDone == remaining = {} /\ creating = <<>>

(* Another replica with the same configuration.                            *)
ReplicaCreates(topics) ==
  /\ cluster' \in {cluster \cup {t} : t \in Range(topics) \ cluster}
  /\ UNCHANGED <<remaining, creating, refused>>
=============================================================================
