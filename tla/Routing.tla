------------------------------- MODULE Routing -------------------------------
(***************************************************************************)
(* Where an event goes and under which key: internal/router and            *)
(* internal/kafka/partition_key.go, which keep no state.                   *)
(*                                                                         *)
(* An event is a record [kind, node, time, attrs].  Its kind is the member *)
(* of the protobuf oneof that is set, attrs the fields of its process and  *)
(* pod by their configuration names.  A string that can end up in a key is *)
(* a sequence of tokens, <<>> if it is empty, so that concatenation does   *)
(* to keys what it does in the program.  The name of a type is one token.  *)
(***************************************************************************)
EXTENDS Naturals, Sequences, SequencesExt

CONSTANTS
  Tokens,         \* what strings are made of
  LongKey         \* a key of more tokens is replaced by its digest

ProcessKinds ==
  {"process_exec", "process_exit", "process_kprobe", "process_tracepoint"}

EventTypes == ProcessKinds \cup {"test", "unknown"}

ASSUME TokensAssumption == EventTypes \subseteq Tokens

ASSUME LongKeyAssumption == LongKey \in Nat

Text == Seq(Tokens)

DetectEventType(e) ==
  IF e.kind \in EventTypes THEN e.kind ELSE "unknown"

GetEventNode(e) == IF e.node = <<>> THEN <<"unknown">> ELSE e.node

Route(topics, e) ==
  LET type == DetectEventType(e) IN
  CASE type \in DOMAIN topics -> topics[type]
    [] type \notin DOMAIN topics /\ "unknown" \in DOMAIN topics -> topics["unknown"]
    [] OTHER -> "tetragon.unknown"

GetDLQTopic(topics) ==
  IF "dlq" \in DOMAIN topics THEN topics["dlq"] ELSE "tetragon.dlq"

-----------------------------------------------------------------------------
(* Only the four process kinds are looked into for process and pod.        *)
ExtractAttribute(e, field) ==
  IF e.kind \in ProcessKinds /\ field \in DOMAIN e.attrs
    THEN e.attrs[field] ELSE <<>>

ExtractFieldValue(e, field) ==
  CASE field = "node" -> GetEventNode(e)
    [] field = "type" -> <<DetectEventType(e)>>
    [] field = "timestamp" -> e.time
    [] OTHER -> ExtractAttribute(e, field)

FieldValues(e, key) ==
  [i \in 1..Len(key.fields) |-> ExtractFieldValue(e, key.fields[i])]

(* Slip: the separator is forgotten.                                       *)
JoinBare(values, separator) == FlattenSeq(values)

(* The loop over the fields; p is their values, and the separator.  An     *)
(* empty value leaves no trace, not even a separator.                      *)
joined[p \in Seq(Text) \X Text] ==
  IF p[1] = <<>> THEN <<>>
  ELSE LET before == joined[<<Front(p[1]), p[2]>>]
           v == Last(p[1])
       IN  IF v = <<>> THEN before
           ELSE IF before = <<>> THEN v ELSE before \o p[2] \o v

Join(values, separator) == joined[<<values, separator>>]

(* Half a SHA-256 in hex, 32 characters: neither two texts with one digest *)
(* nor a short key that is a digest is expected.  Here the digest is the   *)
(* text with a token before it, which keeps just that; its length is not   *)
(* the program's.                                                          *)
Digest(text) == <<"sha256">> \o text

(* The configured mode (deduplication, hash, random...) plays no part.     *)
GenerateDedupKey(e, key) ==
  LET text == Join(FieldValues(e, key), key.separator)
  IN IF Len(text) > LongKey THEN Digest(text) ELSE text

-----------------------------------------------------------------------------
(* No configured field of e is empty or has the separator inside: the      *)
(* events for which the key is meant to be the identity.  (A separator of  *)
(* several tokens must share none of them with a value.)                   *)
Identifiable(e, key) ==
  /\ key.separator # <<>>
  /\ \A v \in Range(FieldValues(e, key)) :
       v # <<>> /\ ~ \E t \in Range(key.separator) : t \in Range(v)
=============================================================================
