--------------------------- MODULE OrderedSequences ---------------------------
(* Numbers in the order in which they have arrived.                         *)
EXTENDS Naturals, Sequences

Increasing(s) == \A i, j \in 1..Len(s) : i < j => s[i] < s[j]

Below(X, Y) == \A x \in X, y \in Y : x < y
=============================================================================
