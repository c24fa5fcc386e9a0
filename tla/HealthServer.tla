----------------------------- MODULE HealthServer -----------------------------
(***************************************************************************)
(* internal/health/server.go: two flags behind a lock and the handler that *)
(* reads them both under the lock and answers after releasing it.          *)
(* Operations for Startup.  One probe at a time is followed; requests      *)
(* share nothing but the flags, which they only read.                      *)
(***************************************************************************)
EXTENDS Naturals

VARIABLES
  ready, shutdown,      \* the flags
  probe                 \* the request in the handler

healthVars == <<ready, shutdown, probe>>

(* What the mux and the kubelet's two configurations know of: both probes  *)
(* of the DaemonSet ask /health, the Deployment's readiness probe /ready.  *)
Paths == {"/health", "/ready"}

Probes == [stage: {"none", "asked", "read"}, path: Paths,
           sawReady: BOOLEAN, sawShutdown: BOOLEAN,
           late: BOOLEAN]       \* history: it came after SetShutdown(true)

NoProbe == [stage |-> "none", path |-> "/health",
            sawReady |-> FALSE, sawShutdown |-> FALSE, late |-> FALSE]

HealthInit == ready = FALSE /\ shutdown = FALSE /\ probe = NoProbe

HealthForget == ready' = FALSE /\ shutdown' = FALSE /\ probe' = NoProbe

SetReady(value) == ready' = value /\ UNCHANGED <<shutdown, probe>>

SetShutdown(value) == shutdown' = value /\ UNCHANGED <<ready, probe>>

ProbeArrives ==
  /\ probe.stage = "none"
  /\ \E path \in Paths :
       probe' = [NoProbe EXCEPT !.stage = "asked", !.path = path, !.late = shutdown]
  /\ UNCHANGED <<ready, shutdown>>

ProbeReads ==
  /\ probe.stage = "asked"
  /\ probe' = [probe EXCEPT !.stage = "read", !.sawReady = ready,
                            !.sawShutdown = shutdown]
  /\ UNCHANGED <<ready, shutdown>>

(* Slip: the readiness flag is looked at first and decides.                *)
ReadyDecides(p) ==
  CASE p.path # "/health" -> "not found"
    [] p.path = "/health" /\ p.sawReady -> "healthy"
    [] OTHER -> IF p.sawShutdown THEN "shutting down" ELSE "not ready"

(* The answer.  Every path but /health and / falls to rootHandler's 404.   *)
Answer(p) ==
  CASE p.path # "/health" -> "not found"
    [] p.path = "/health" /\ p.sawShutdown -> "shutting down"
    [] p.path = "/health" /\ ~p.sawShutdown /\ ~p.sawReady -> "not ready"
    [] OTHER -> "healthy"

ProbeAnswered ==
  /\ probe.stage = "read"
  /\ probe' = NoProbe
  /\ UNCHANGED <<ready, shutdown>>
=============================================================================
