------------------------------ MODULE AdapterMC ------------------------------
(* The adapter with a few events, for TLC.                                  *)
EXTENDS Adapter

CONSTANT NumEvents

MCEvents == 1..NumEvents

BothModes == {TRUE, FALSE}
DropOnly == {TRUE}
BlockOnly == {FALSE}
=============================================================================
