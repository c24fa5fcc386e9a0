---------------------------- MODULE GrpcReconnect ----------------------------
(***************************************************************************)
(* The reconnect manager, internal/grpc/reconnect.go, with the part of     *)
(* Stream.ReadEvents that opens and ends a stream, the client it replaces  *)
(* at every reconnect, and GetReconnectBackoff of internal/config.         *)
(*                                                                         *)
(* The gRPC library and Tetragon are the environment: a stream opens or    *)
(* does not, ends at some time or never, and a client can be created or    *)
(* not (TLS files, address).  Which events a stream carries is the         *)
(* business of Ingest.                                                     *)
(*                                                                         *)
(* Durations are integers of Width bits, as time.Duration has 64: Second   *)
(* is the number of units in a second.  The attempt counter saturates at   *)
(* AttemptBound, which is chosen so that the backoff no longer changes.    *)
(***************************************************************************)
EXTENDS Integers

CONSTANTS
  Budgets,        \* the values of reconnect.max_attempts to explore, 0 = no limit
  InitialBackoff, \* reconnect.initial_backoff_seconds
  MaxBackoff,     \* reconnect.max_backoff_seconds
  Jitters,        \* what the jitter may add, {0} if it is off
  Width,          \* the bits of a duration
  Second,         \* a second, in units of a duration
  AttemptBound    \* bound on the attempt counter

(* The code has no bound on max_attempts; here it must lie within the      *)
(* counter's.                                                              *)
ASSUME BudgetAssumption ==
  /\ AttemptBound \in Nat
  /\ Budgets \subseteq 0..AttemptBound /\ Budgets # {}

(* The powers of two.                                                      *)
pow2[n \in Nat] == IF n = 0 THEN 1 ELSE 2 * pow2[n - 1]

(* validator.go:126-139.  The two settings themselves do not overflow.     *)
ASSUME DurationAssumption ==
  /\ Width \in Nat \ {0} /\ Second \in Nat \ {0}
  /\ InitialBackoff \in Nat \ {0} /\ MaxBackoff \in Nat
  /\ InitialBackoff <= MaxBackoff /\ MaxBackoff * Second < pow2[Width - 1]
  /\ Jitters \subseteq 0..Second - 1 /\ Jitters # {}

VARIABLES
  ctxDone,        \* the root context is done
  rpc,            \* where RunWithReconnect is
  budget,         \* maxAttempts
  attempt,        \* the attempt counter
  hasClient,      \* rm.client is not nil
  conns,          \* the connections open
  connStatus,     \* the gauge grpc_connection_status
  reconnects,     \* how often it has reconnected, at most AttemptBound
  wait            \* the pause before the next try

vars == <<ctxDone, rpc, budget, attempt, hasClient, conns, connStatus,
          reconnects, wait>>

States == {"top", "streaming", "check", "redial", "sleeping", "stopped"}

(* main creates the first client, and does not go on without one.          *)
Init ==
  /\ ctxDone = FALSE
  /\ rpc = "top"
  /\ budget \in Budgets
  /\ attempt = 0
  /\ hasClient = TRUE
  /\ conns = 1
  /\ connStatus = 0
  /\ reconnects = 0
  /\ wait = 0

-----------------------------------------------------------------------------
(* GetReconnectBackoff: double attempt times, and only then cut.           *)

(* The value a two's complement number of Width bits keeps of n.           *)
Wrap(n) ==
  ((n + pow2[Width - 1]) % pow2[Width]) - pow2[Width - 1]

doubled[n \in Nat] ==
  IF n = 0 THEN Wrap(InitialBackoff * Second) ELSE Wrap(2 * doubled[n - 1])

(* Slip: one doubling too many.                                            *)
DoubledOnceMore(n) ==
  IF doubled[n + 1] > MaxBackoff * Second THEN MaxBackoff * Second
                                          ELSE doubled[n + 1]

GetReconnectBackoff(n) ==
  IF doubled[n] > MaxBackoff * Second THEN MaxBackoff * Second ELSE doubled[n]

OneMore(n) == IF n < AttemptBound THEN n + 1 ELSE n

-----------------------------------------------------------------------------
(* One round of RunWithReconnect.                                          *)

Stop(from) ==
  /\ rpc = from
  /\ ctxDone
  /\ rpc' = "stopped"
  /\ UNCHANGED <<ctxDone, budget, attempt, hasClient, conns, connStatus,
                 reconnects, wait>>

(* The context is looked at at the top of the loop, before a reconnect,    *)
(* and while the manager sleeps.                                           *)
Stops == Stop("top") \/ Stop("check") \/ Stop("sleeping")

(* Without a client there is nothing to open.                              *)
NoStream ==
  /\ rpc = "top"
  /\ ~ctxDone
  /\ ~hasClient
  /\ rpc' = "check"
  /\ UNCHANGED <<ctxDone, budget, attempt, hasClient, conns, connStatus,
                 reconnects, wait>>

(* GetEvents succeeds or fails.                                            *)
StreamOpens ==
  /\ rpc = "top"
  /\ ~ctxDone
  /\ hasClient
  /\ rpc' = "streaming"
  /\ connStatus' = 1
  /\ UNCHANGED <<ctxDone, budget, attempt, hasClient, conns, reconnects, wait>>

StreamFails ==
  /\ rpc = "top"
  /\ ~ctxDone
  /\ hasClient
  /\ rpc' = "check"
  /\ connStatus' = 0
  /\ UNCHANGED <<ctxDone, budget, attempt, hasClient, conns, reconnects, wait>>

(* Slips: the gauge stays up; the stream does not notice the context.      *)
StreamEndsUnnoticed ==
  /\ rpc = "streaming"
  /\ rpc' = "check"
  /\ UNCHANGED <<ctxDone, budget, attempt, hasClient, conns, connStatus,
                 reconnects, wait>>

StreamIgnoresContext ==
  /\ rpc = "streaming"
  /\ ~ctxDone
  /\ rpc' = "check"
  /\ connStatus' = 0
  /\ UNCHANGED <<ctxDone, budget, attempt, hasClient, conns, reconnects, wait>>

(* Recv fails or the context is done: ReadEvents returns an error either   *)
(* way.  (It never returns nil, so reconnect.go:59-64 is never reached.)   *)
StreamEnds ==
  /\ rpc = "streaming"
  /\ rpc' = "check"
  /\ connStatus' = 0
  /\ UNCHANGED <<ctxDone, budget, attempt, hasClient, conns, reconnects, wait>>

(* Slip: the budget is compared one too late.                              *)
BudgetUsedLate == budget > 0 /\ attempt > budget

BudgetUsed == budget > 0 /\ attempt >= budget

GivesUp ==
  /\ rpc = "check"
  /\ ~ctxDone
  /\ BudgetUsed
  /\ rpc' = "stopped"
  /\ UNCHANGED <<ctxDone, budget, attempt, hasClient, conns, connStatus,
                 reconnects, wait>>

(* Slips: the old client is left open; a client that is not there is       *)
(* closed.                                                                 *)
ReconnectsLeaving ==
  /\ rpc = "check"
  /\ ~ctxDone
  /\ ~BudgetUsed
  /\ \E j \in Jitters : wait' = GetReconnectBackoff(attempt) + j
  /\ reconnects' = OneMore(reconnects)
  /\ rpc' = "redial"
  /\ UNCHANGED <<ctxDone, budget, attempt, hasClient, conns, connStatus>>

ReconnectsUnchecked ==
  /\ rpc = "check"
  /\ ~ctxDone
  /\ ~BudgetUsed
  /\ \E j \in Jitters : wait' = GetReconnectBackoff(attempt) + j
  /\ reconnects' = OneMore(reconnects)
  /\ conns' = conns - 1
  /\ rpc' = "redial"
  /\ UNCHANGED <<ctxDone, budget, attempt, hasClient, connStatus>>

(* The pause is computed, then the old client closed.                      *)
Reconnects ==
  /\ rpc = "check"
  /\ ~ctxDone
  /\ ~BudgetUsed
  /\ \E j \in Jitters : wait' = GetReconnectBackoff(attempt) + j
  /\ reconnects' = OneMore(reconnects)
  /\ conns' = IF hasClient THEN conns - 1 ELSE conns
  /\ rpc' = "redial"
  /\ UNCHANGED <<ctxDone, budget, attempt, hasClient, connStatus>>

(* NewClient, which takes ten seconds at most.                             *)
DialSucceeds ==
  /\ rpc = "redial"
  /\ hasClient' = TRUE
  /\ conns' = conns + 1
  /\ rpc' = "sleeping"
  /\ UNCHANGED <<ctxDone, budget, attempt, connStatus, reconnects, wait>>

(* Slip: without a new client the manager returns.                         *)
DialFailureReturns ==
  /\ rpc = "redial"
  /\ hasClient' = FALSE
  /\ rpc' = "stopped"
  /\ UNCHANGED <<ctxDone, budget, attempt, conns, connStatus, reconnects, wait>>

DialFails ==
  /\ rpc = "redial"
  /\ hasClient' = FALSE
  /\ rpc' = "sleeping"
  /\ UNCHANGED <<ctxDone, budget, attempt, conns, connStatus, reconnects, wait>>

Wakes ==
  /\ rpc = "sleeping"
  /\ attempt' = OneMore(attempt)
  /\ rpc' = "top"
  /\ UNCHANGED <<ctxDone, budget, hasClient, conns, connStatus, reconnects, wait>>

Manager ==
  \/ Stops \/ NoStream \/ StreamOpens \/ StreamFails \/ StreamEnds
  \/ GivesUp \/ Reconnects \/ DialSucceeds \/ DialFails \/ Wakes

Cancel ==
  /\ ~ctxDone
  /\ ctxDone' = TRUE
  /\ UNCHANGED <<rpc, budget, attempt, hasClient, conns, connStatus,
                 reconnects, wait>>

AtRest == rpc = "stopped" /\ UNCHANGED vars

Next == Manager \/ Cancel \/ AtRest

(* Go schedules the goroutine, NewClient and GetEvents return, the timer   *)
(* fires, and a gRPC stream ends when its context does.  Otherwise a       *)
(* stream may last for ever.                                               *)
Fairness == WF_vars(Manager /\ (rpc = "streaming" => ctxDone))

Spec == Init /\ [][Next]_vars /\ Fairness

-----------------------------------------------------------------------------
(* The type invariant.                                                     *)
TypeOK ==
  /\ ctxDone \in BOOLEAN
  /\ rpc \in States
  /\ budget \in Budgets
  /\ attempt \in 0..AttemptBound
  /\ hasClient \in BOOLEAN
  /\ conns \in Nat
  /\ connStatus \in {0, 1}
  /\ reconnects \in 0..AttemptBound
  /\ wait \in Int

(* However often streams and dials fail, no connection leaks, and no       *)
(* stream is opened on a connection that has been closed: a client means   *)
(* one open connection, none means none, but for the moment between the    *)
(* Close of the old client and the answer of NewClient.                    *)
OneConnection ==
  conns = IF hasClient /\ rpc # "redial" THEN 1 ELSE 0

(* The gauge shows a connection just as long as there is a stream.         *)
StatusTruthful == connStatus = 1 <=> rpc = "streaming"

(* The manager gives up by itself only with a budget, and after exactly    *)
(* that many reconnects.  The counter is never reset, so the budget is     *)
(* for the life of the process, not for one outage.                        *)
GivesUpAtBudget ==
  rpc = "stopped" /\ ~ctxDone =>
    budget > 0 /\ attempt = budget /\ reconnects = budget

(* professional.md:87, "exponential backoff ... (1s -> 2s -> 4s ... at     *)
(* most 30s)": as long as the doubling fits a duration, the pause is the   *)
(* initial one times 2^attempt, cut at the maximum, plus the jitter.       *)
BackoffAsDesigned ==
  rpc = "sleeping" /\ InitialBackoff * Second * pow2[attempt] < pow2[Width - 1] =>
    LET full == InitialBackoff * pow2[attempt]
        base == IF full < MaxBackoff THEN full ELSE MaxBackoff
    IN  wait - base * Second \in Jitters

(* The manager returns once the context is done, wherever it was.          *)
StopsAfterCancel == ctxDone ~> rpc = "stopped"

(* Without a budget a stream that ended is followed by a new try, whatever *)
(* failed in between.                                                      *)
KeepsTrying == (rpc = "check" /\ budget = 0) ~> (rpc = "top" \/ ctxDone)

(* professional.md:87 again, without the proviso: the pause never falls    *)
(* below the initial backoff.                                              *)
BackoffNeverVanishes == rpc = "sleeping" => wait >= InitialBackoff * Second
=============================================================================
