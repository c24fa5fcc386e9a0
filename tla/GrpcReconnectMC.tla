--------------------------- MODULE GrpcReconnectMC ---------------------------
(* Durations of 20 bits that count milliseconds: doubling a second gets    *)
(* negative at attempt 10 and stays zero from attempt 17 on, where 64 bits *)
(* of nanoseconds do so at 34 and 55.                                      *)
EXTENDS GrpcReconnect

MCBudgets == {0, 1, 3}
MCJitters == {0, 999}
=============================================================================
