----------------------------- MODULE ConnLimiter -----------------------------
(***************************************************************************)
(* The limit on a user's concurrent connections                            *)
(* (ratelimit.UserConnLimiter).  Connections acquire and release under a   *)
(* mutex; a reload of the configuration replaces the limits and keeps the  *)
(* counts.                                                                 *)
(***************************************************************************)
EXTENDS Integers, FiniteSets

CONSTANTS
  Users,
  Conns,      \* the connections that may be made
  Limits      \* the limits that configurations may give; 0 is no limit

ASSUME ConnsAssumption == IsFiniteSet(Conns)
ASSUME LimitsAssumption == Limits # {} /\ Limits \subseteq [Users -> Nat]

VARIABLES
  limits,     \* UserConnLimiter.limits
  counts,     \* UserConnLimiter.counts
  holders     \* holders[u]: the connections of u that were admitted, and
              \* have not been released

vars == <<limits, counts, holders>>
-----------------------------------------------------------------------------
Init ==
  /\ limits \in Limits
  /\ counts = [u \in Users |-> 0]
  /\ holders = [u \in Users |-> {}]

Unlimited(u) == limits[u] = 0

(* Variant: one more than the limit. *)
HasRoomOneMore(u) == Unlimited(u) \/ counts[u] <= limits[u]

HasRoom(u) == Unlimited(u) \/ counts[u] < limits[u]

(* Acquire returns true; a connection of an unlimited user is not counted. *)
Acquire(u, c) ==
  /\ \A v \in Users : c \notin holders[v]
  /\ HasRoom(u)
  /\ counts' = IF Unlimited(u) THEN counts ELSE [counts EXCEPT ![u] = @ + 1]
  /\ holders' = [holders EXCEPT ![u] = @ \cup {c}]
  /\ UNCHANGED limits

(* Variant: the place of a connection is not given back while the user has *)
(* no limit.                                                               *)
CountAfterReleaseIfLimited(u) ==
  IF counts[u] > 0 /\ ~ Unlimited(u) THEN counts[u] - 1 ELSE counts[u]

(* Variant: the count is taken down without a look at it. *)
CountAfterReleaseUnchecked(u) == counts[u] - 1

CountAfterRelease(u) == IF counts[u] > 0 THEN counts[u] - 1 ELSE 0

(* Release, whether or not the connection was counted. *)
Release(u, c) ==
  /\ c \in holders[u]
  /\ counts' = [counts EXCEPT ![u] = CountAfterRelease(u)]
  /\ holders' = [holders EXCEPT ![u] = @ \ {c}]
  /\ UNCHANGED limits

(* Update: the limits of a new configuration. *)
UpdateTo(l) ==
  /\ limits' = l
  /\ UNCHANGED <<counts, holders>>

Next ==
  \/ \E u \in Users, c \in Conns : Acquire(u, c) \/ Release(u, c)
  \/ \E l \in Limits : UpdateTo(l)

Spec == Init /\ [][Next]_vars
-----------------------------------------------------------------------------
TypeOK ==
  /\ limits \in Limits
  /\ counts \in [Users -> Nat]
  /\ holders \in [Users -> SUBSET Conns]

(* A user is never counted above the connections that he has: however      *)
(* limits come and go, no place stays taken for ever, and Acquire refuses  *)
(* nobody who is below his limit.                                          *)
CountsCovered == \A u \in Users : counts[u] <= Cardinality(holders[u])

(* The users that every configuration limits. *)
AlwaysLimited(u) == \A l \in Limits : l[u] > 0

(* A connection is admitted only within the limit in force, for a user     *)
(* that no reload has ever made unlimited.                                 *)
CapForLimited ==
  [][\A u \in Users : (AlwaysLimited(u) /\ holders'[u] # holders[u]) =>
        \/ holders'[u] \subseteq holders[u]
        \/ Cardinality(holders'[u]) <= limits[u]]_vars
=============================================================================
