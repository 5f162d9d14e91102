-------------------------------- MODULE Health --------------------------------
(***************************************************************************)
(* The health monitor (internal/health) and what it is asked by /healthz   *)
(* and tells the metrics: rounds of checks, one backend after the other in *)
(* no particular order, of the backends it was started with.               *)
(***************************************************************************)
EXTENDS Naturals, TLC

CONSTANTS
  AllBackends,
  AtFirst,      \* sets of backends that may be reachable at the start
  MaxFlips      \* bound: how often a backend becomes reachable or unreachable

ASSUME HealthAssumption == AtFirst \subseteq SUBSET AllBackends /\ MaxFlips \in Nat

VARIABLES
  reachable,   \* the backends that answer a listing now
  flips,
  monitor,     \* "off", "idle" between rounds, "round"
  watched,     \* the backends of the State that the monitor was given
  todo,        \* those of the round that are still to be checked
  newStatus,   \* what the round has found
  status,      \* what the last round found
  gauge        \* the metric sftp2s3_backend_healthy

world == <<reachable, flips>>
healthVars == <<world, monitor, watched, todo, newStatus, status, gauge>>

NoStatus == [b \in {} |-> FALSE]

(* No monitor, and no metrics: the process is down. *)
Stopped(m, bs, t, ns, s, g) ==
  m = "off" /\ bs = {} /\ t = {} /\ ns = NoStatus /\ s = NoStatus /\ g = NoStatus

HealthInit ==
  /\ reachable \in AtFirst /\ flips = 0
  /\ Stopped(monitor, watched, todo, newStatus, status, gauge)

Flip(b) ==
  /\ flips < MaxFlips /\ flips' = flips + 1
  /\ reachable' = IF b \in reachable THEN reachable \ {b} ELSE reachable \cup {b}
  /\ UNCHANGED <<monitor, watched, todo, newStatus, status, gauge>>

(* NewHealthMonitor and Start.  With an interval of 0 there is none. *)
StartMonitor(backends, interval) ==
  /\ watched' = backends
  /\ monitor' = IF interval > 0 THEN "idle" ELSE "off"
  /\ UNCHANGED <<todo, newStatus, status, gauge>>

StopMonitor == Stopped(monitor', watched', todo', newStatus', status', gauge')

(* checkAll: at once and when the ticker fires, ... *)
BeginRound ==
  /\ monitor = "idle" /\ monitor' = "round"
  /\ todo' = watched /\ newStatus' = NoStatus
  /\ UNCHANGED <<world, watched, status, gauge>>

(* An entry of a map of the monitor. *)
Noted(f, b, v) == [x \in DOMAIN f \cup {b} |-> IF x = b THEN v ELSE f[x]]

(* ... checkBackend, which ends at the backend's timeout, ... *)
Check(b) ==
  /\ b \in todo /\ todo' = todo \ {b}
  /\ newStatus' = Noted(newStatus, b, b \in reachable)
  /\ gauge' = Noted(gauge, b, b \in reachable)
  /\ UNCHANGED <<world, monitor, watched, status>>

(* Variant: what was found before is kept. *)
StatusAfterRoundMerged == status @@ newStatus

StatusAfterRound == newStatus

(* ... and the new status takes the place of the old one. *)
EndRound ==
  /\ monitor = "round" /\ todo = {} /\ monitor' = "idle"
  /\ status' = StatusAfterRound /\ newStatus' = NoStatus
  /\ UNCHANGED <<world, watched, todo, gauge>>

Monitor == BeginRound \/ (\E b \in AllBackends : Check(b)) \/ EndRound

(* What /healthz answers by. *)
AllHealthy == \A b \in DOMAIN status : status[b]
-----------------------------------------------------------------------------
HealthTypeOK ==
  /\ reachable \subseteq AllBackends /\ flips \in 0 .. MaxFlips
  /\ monitor \in {"off", "idle", "round"}
  /\ watched \subseteq AllBackends /\ todo \subseteq watched
  /\ \A f \in {newStatus, status, gauge} :
       DOMAIN f \subseteq watched /\ \A b \in DOMAIN f : f[b] \in BOOLEAN
  /\ DOMAIN newStatus = IF monitor = "round" THEN watched \ todo ELSE {}
  /\ DOMAIN status \in {{}, watched}

(* "/healthz returns 503 while any backend is unhealthy" (README), as far  *)
(* as the monitor goes: once the backends stay as they are, /healthz and   *)
(* the gauge come to say of those that the process was started with what   *)
(* is the case, and go on saying it, through all reloads.                  *)
HealthSettles ==
  \A R \in SUBSET AllBackends :
    <>[](reachable = R /\ monitor # "off")
      => <>[](/\ AllHealthy <=> watched \subseteq R
              /\ gauge = [b \in watched |-> b \in R])
=============================================================================
