------------------------------- MODULE IngestMC -------------------------------
(* The ingest side with a few events, for TLC.                              *)
EXTENDS IngestSystem

CONSTANT NumEvents

MCEvents == 1..NumEvents

BothModes == {TRUE, FALSE}
BlockOnly == {FALSE}
=============================================================================
