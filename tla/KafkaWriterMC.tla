---------------------------- MODULE KafkaWriterMC ----------------------------
(* The batch writer with a few events, for TLC.                             *)
EXTENDS KafkaWriter

CONSTANT NumEvents

MCEvents == 1..NumEvents
=============================================================================
