----------------------------- MODULE ClosedownMC -----------------------------
(* The end of main with a few entries and one late message, for TLC.        *)
EXTENDS Closedown

CONSTANT NumLogs, NumLate

MCLogs == 1..NumLogs
MCLate == NumLogs + 1 .. NumLogs + NumLate
MCMessages == MCLogs \cup MCLate
=============================================================================
