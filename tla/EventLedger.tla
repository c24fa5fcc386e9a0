----------------------------- MODULE EventLedger -----------------------------
(***************************************************************************)
(* What every part of the adapter shares: the Tetragon events, the root    *)
(* context that main cancels at shutdown, and the ledger, a history        *)
(* variable that records how the adapter got rid of each event.            *)
(*                                                                         *)
(* An event is the number of its arrival on the gRPC stream, so `<' on     *)
(* events is arrival order.  The ledger keeps a sequence of fates per      *)
(* event, not one fate, so that an event the code disposes of twice shows  *)
(* up as a sequence of length two.                                         *)
(***************************************************************************)
EXTENDS Naturals, Sequences

CONSTANT Events         \* the events the model follows

ASSUME EventsAssumption == Events \subseteq Nat

(* Handed to the Input channel of the sarama producer, on the event's own  *)
(* topic or on the dead letter topic.                                      *)
DeliveredFates == {"produced", "deadLettered"}

(* Given up, and a metric counts it: drops_total with a reason,            *)
(* events_out_total with "writer_not_initialized", normalize_errors_total  *)
(* or dlq_write_failures_total.                                            *)
CountedFates == {"streamFull", "queueFull", "writerFull", "noWriter",
                 "invalid", "dlqFailed"}

(* Given up with a log line at most: no metric tells the event is gone.    *)
SilentFates == {"streamCancelled", "pushCancelled", "writerPanic",
                "flushCancelled", "dlqCancelled"}

(* Left out on purpose by the sampler.                                     *)
SampledFates == {"sampledOut"}

Fates == DeliveredFates \cup CountedFates \cup SilentFates \cup SampledFates

VARIABLES
  ctxDone,      \* main has called cancel(): ctx.Done() is closed
  ledger        \* ledger[e]: how e was disposed of, oldest first

ledgerVars == <<ctxDone, ledger>>

LedgerTypeOK ==
  /\ ctxDone \in BOOLEAN
  /\ ledger \in [Events -> Seq(Fates)]

LedgerInit ==
  /\ ctxDone = FALSE
  /\ ledger = [e \in Events |-> <<>>]

(* The step disposes of event e with fate f.                               *)
Dispose(e, f) == ledger' = [ledger EXCEPT ![e] = Append(@, f)]

(* main.go:370, cancel(): the root context is done, for good.              *)
CancelContext == ~ctxDone /\ ctxDone' = TRUE

Settled(e) == ledger[e] # <<>>

HasFate(e, f) == \E i \in 1..Len(ledger[e]) : ledger[e][i] = f

Silent(e) == \E f \in SilentFates : HasFate(e, f)
=============================================================================
