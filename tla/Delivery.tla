------------------------------- MODULE Delivery -------------------------------
(***************************************************************************)
(* What a stage of the adapter promises its caller, and all it promises:   *)
(* an event handed in is either refused on the spot or held, and a held    *)
(* event leaves in exactly one way.  No event is held and settled at once, *)
(* none is settled twice, and none disappears.  The stage promises         *)
(* nothing about when.                                                     *)
(***************************************************************************)
EXTENDS Sequences

CONSTANTS
  Events,         \* what is handed to the stage
  RefusalFates,   \* what may happen to an event the stage does not take
  LeavingFates    \* what may happen to an event the stage holds

VARIABLES
  held,           \* the events the stage has taken and not disposed of
  ledger          \* ledger[e]: what happened to e, <<>> if nothing yet

vars == <<held, ledger>>

Init ==
  /\ held = {}
  /\ ledger = [e \in Events |-> <<>>]

Unknown(e) == e \notin held /\ ledger[e] = <<>>

Accept(e) ==
  /\ Unknown(e)
  /\ held' = held \cup {e}
  /\ UNCHANGED ledger

Refuse(e, f) ==
  /\ Unknown(e)
  /\ ledger' = [ledger EXCEPT ![e] = <<f>>]
  /\ UNCHANGED held

Leave(e, f) ==
  /\ e \in held
  /\ ledger[e] = <<>>
  /\ held' = held \ {e}
  /\ ledger' = [ledger EXCEPT ![e] = <<f>>]

Next ==
  \E e \in Events :
    \/ Accept(e)
    \/ \E f \in RefusalFates : Refuse(e, f)
    \/ \E f \in LeavingFates : Leave(e, f)

Spec == Init /\ [][Next]_vars
=============================================================================
