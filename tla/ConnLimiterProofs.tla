-------------------------- MODULE ConnLimiterProofs --------------------------
(***************************************************************************)
(* The connection limit, for any users, any number of connections and any  *)
(* sequence of configurations.                                             *)
(*                                                                         *)
(* The count of a user who has had no limit for a while may be below the   *)
(* number of his connections, so that only `counts[u] <= connections` is   *)
(* invariant in general.  For a user whom every configuration limits the   *)
(* two are equal, which is what makes the limit a limit.                   *)
(***************************************************************************)
EXTENDS ConnLimiter, FiniteSetTheorems, TLAPS

(* Cardinality of a finite set of connections with one more, or one less. *)
LEMMA OneMore ==
  ASSUME NEW S, IsFiniteSet(S), NEW c, c \notin S
  PROVE  /\ Cardinality(S \cup {c}) = Cardinality(S) + 1
         /\ Cardinality(S) \in Nat
  BY FS_AddElement, FS_CardinalityType

LEMMA OneLess ==
  ASSUME NEW S, IsFiniteSet(S), NEW c \in S
  PROVE  /\ Cardinality(S \ {c}) = Cardinality(S) - 1
         /\ Cardinality(S \ {c}) \in Nat
  BY FS_RemoveElement, FS_CardinalityType

(* The count is exact for the users that always have a limit. *)
CountsExact ==
  \A u \in Users : AlwaysLimited(u) => counts[u] = Cardinality(holders[u])

IInv == TypeOK /\ CountsCovered /\ CountsExact

LEMMA HoldersAreFinite ==
  ASSUME TypeOK, NEW u \in Users
  PROVE  IsFiniteSet(holders[u]) /\ Cardinality(holders[u]) \in Nat
  BY ConnsAssumption, FS_Subset, FS_CardinalityType DEF TypeOK

LEMMA Unlimited_Limited ==
  ASSUME TypeOK, NEW u \in Users, AlwaysLimited(u)
  PROVE  ~ Unlimited(u)
  BY LimitsAssumption DEF TypeOK, AlwaysLimited, Unlimited

LEMMA InitIInv == Init => IInv
  <1> SUFFICES ASSUME Init PROVE IInv
    OBVIOUS
  <1>1. TypeOK
    BY LimitsAssumption DEF Init, TypeOK
  <1>2. \A u \in Users : counts[u] = 0 /\ Cardinality(holders[u]) = 0
    BY FS_EmptySet DEF Init
  <1> QED
    BY <1>1, <1>2 DEF IInv, CountsCovered, CountsExact

LEMMA AcquireKeepsIInv ==
  ASSUME IInv, NEW u \in Users, NEW c \in Conns, Acquire(u, c)
  PROVE  IInv'
  <1> USE DEF IInv
  <1>1. TypeOK'
    BY LimitsAssumption DEF TypeOK, Acquire
  <1>2. c \notin holders[u]
    BY DEF Acquire
  <1>3. /\ Cardinality(holders[u] \cup {c}) = Cardinality(holders[u]) + 1
        /\ Cardinality(holders[u]) \in Nat
    BY <1>2, HoldersAreFinite, OneMore
  <1>4. holders' = [holders EXCEPT ![u] = holders[u] \cup {c}]
    BY DEF Acquire
  <1>5. \A v \in Users : v # u => counts'[v] = counts[v] /\ holders'[v] = holders[v]
    BY <1>4 DEF Acquire, TypeOK
  <1>6. holders'[u] = holders[u] \cup {c}
    BY <1>4 DEF TypeOK
  <1>7. /\ Unlimited(u) => counts'[u] = counts[u]
        /\ ~ Unlimited(u) => counts'[u] = counts[u] + 1
    BY DEF Acquire, TypeOK
  <1>8. Cardinality(holders'[u]) = Cardinality(holders[u]) + 1
    BY <1>3, <1>6
  <1>9. CountsCovered'
    <2> SUFFICES ASSUME NEW v \in Users PROVE counts'[v] <= Cardinality(holders'[v])
      BY DEF CountsCovered
    <2>1. counts[v] <= Cardinality(holders[v]) /\ counts[v] \in Nat
      BY DEF CountsCovered, TypeOK
    <2>2. CASE v = u
      BY <1>3, <1>7, <1>8, <2>1, <2>2
    <2>3. CASE v # u
      BY <1>5, <2>1, <2>3
    <2> QED
      BY <2>2, <2>3
  <1>10. CountsExact'
    <2> SUFFICES ASSUME NEW v \in Users, AlwaysLimited(v)
                 PROVE  counts'[v] = Cardinality(holders'[v])
      BY DEF CountsExact, AlwaysLimited
    <2>1. counts[v] = Cardinality(holders[v]) /\ ~ Unlimited(v)
      BY Unlimited_Limited DEF CountsExact
    <2>2. CASE v = u
      BY <1>3, <1>7, <1>8, <2>1, <2>2
    <2>3. CASE v # u
      BY <1>5, <2>1, <2>3
    <2> QED
      BY <2>2, <2>3
  <1> QED
    BY <1>1, <1>9, <1>10

LEMMA ReleaseKeepsIInv ==
  ASSUME IInv, NEW u \in Users, NEW c \in Conns, Release(u, c)
  PROVE  IInv'
  <1> USE DEF IInv
  <1>1. counts' = [counts EXCEPT ![u] = CountAfterRelease(u)]
    BY DEF Release
  <1>2. /\ counts[u] \in Nat
        /\ CountAfterRelease(u) \in Nat
        /\ counts[u] > 0 => CountAfterRelease(u) = counts[u] - 1
        /\ counts[u] = 0 => CountAfterRelease(u) = 0
    BY DEF CountAfterRelease, TypeOK
  <1>3. holders' = [holders EXCEPT ![u] = holders[u] \ {c}]
    BY DEF Release
  <1>4. TypeOK'
    BY <1>1, <1>2, <1>3 DEF TypeOK, Release
  <1>5. /\ Cardinality(holders[u] \ {c}) = Cardinality(holders[u]) - 1
        /\ Cardinality(holders[u] \ {c}) \in Nat
        /\ Cardinality(holders[u]) \in Nat
    BY HoldersAreFinite, OneLess DEF Release
  <1>6. \A v \in Users : v # u => counts'[v] = counts[v] /\ holders'[v] = holders[v]
    BY <1>1, <1>3 DEF TypeOK
  <1>7. /\ holders'[u] = holders[u] \ {c}
        /\ counts'[u] \in Nat
        /\ \/ counts[u] = 0 /\ counts'[u] = 0
           \/ counts[u] > 0 /\ counts'[u] = counts[u] - 1
    BY <1>1, <1>2, <1>3 DEF TypeOK
  <1>8. /\ Cardinality(holders'[u]) = Cardinality(holders[u]) - 1
        /\ Cardinality(holders'[u]) \in Nat
        /\ Cardinality(holders[u]) \in Nat
    BY <1>5, <1>7
  <1>9. /\ counts[u] <= Cardinality(holders[u]) => counts'[u] <= Cardinality(holders'[u])
        /\ counts[u] = Cardinality(holders[u]) => counts'[u] = Cardinality(holders'[u])
    <2> HIDE DEF IInv
    <2> DEFINE m == Cardinality(holders[u])
               n == Cardinality(holders'[u])
    <2>1. m \in Nat /\ n \in Nat /\ n = m - 1
      BY <1>8
    <2> HIDE DEF m, n
    <2>2. (counts[u] <= m => counts'[u] <= n) /\ (counts[u] = m => counts'[u] = n)
      BY <1>2, <1>7, <2>1
    <2> QED
      BY <2>2 DEF m, n
  <1>10. CountsCovered'
    <2> SUFFICES ASSUME NEW v \in Users PROVE counts'[v] <= Cardinality(holders'[v])
      BY DEF CountsCovered
    <2>1. counts[v] <= Cardinality(holders[v])
      BY DEF CountsCovered
    <2>2. CASE v = u
      BY <1>9, <2>1, <2>2
    <2>3. CASE v # u
      BY <1>6, <2>1, <2>3
    <2> QED
      BY <2>2, <2>3
  <1>11. CountsExact'
    <2> SUFFICES ASSUME NEW v \in Users, AlwaysLimited(v)
                 PROVE  counts'[v] = Cardinality(holders'[v])
      BY DEF CountsExact, AlwaysLimited
    <2>1. counts[v] = Cardinality(holders[v])
      BY DEF CountsExact
    <2>2. CASE v = u
      BY <1>9, <2>1, <2>2
    <2>3. CASE v # u
      BY <1>6, <2>1, <2>3
    <2> QED
      BY <2>2, <2>3
  <1> QED
    BY <1>4, <1>10, <1>11

LEMMA NextKeepsIInv == IInv /\ [Next]_vars => IInv'
  <1> SUFFICES ASSUME IInv, [Next]_vars PROVE IInv'
    OBVIOUS
  <1>1. ASSUME NEW u \in Users, NEW c \in Conns, Acquire(u, c) PROVE IInv'
    BY <1>1, AcquireKeepsIInv
  <1>2. ASSUME NEW u \in Users, NEW c \in Conns, Release(u, c) PROVE IInv'
    BY <1>2, ReleaseKeepsIInv
  <1>3. ASSUME NEW l \in Limits, UpdateTo(l) PROVE IInv'
    BY <1>3 DEF UpdateTo, IInv, TypeOK, CountsCovered, CountsExact, AlwaysLimited
  <1>4. CASE UNCHANGED vars
    BY <1>4 DEF vars, IInv, TypeOK, CountsCovered, CountsExact, AlwaysLimited
  <1> QED
    BY <1>1, <1>2, <1>3, <1>4 DEF Next

(* Counts stay natural numbers, are never above the connections there are  *)
(* (UserConnLimiter.Release, and Update's "existing counts are preserved"),*)
(* and are exact for users that always have a limit.                       *)
THEOREM CountsHold == Spec => []CountsCovered
  <1>1. IInv => CountsCovered
    BY DEF IInv
  <1> QED
    BY InitIInv, NextKeepsIInv, <1>1, PTL DEF Spec

(* The maps keep their shape: no count goes below zero, however often a    *)
(* user gains and loses a limit between Acquire and Release.               *)
THEOREM LimiterTyped == Spec => []TypeOK
  <1>1. IInv => TypeOK
    BY DEF IInv
  <1> QED
    BY InitIInv, NextKeepsIInv, <1>1, PTL DEF Spec

(* No step takes a user who always has a limit above the limit in force    *)
(* (UserConnLimiter.Acquire), however connections and reloads interleave.  *)
THEOREM LimitIsKept == Spec => CapForLimited
  <1>1. ASSUME IInv, [Next]_vars
        PROVE  [\A u \in Users : (AlwaysLimited(u) /\ holders'[u] # holders[u]) =>
                  \/ holders'[u] \subseteq holders[u]
                  \/ Cardinality(holders'[u]) <= limits[u]]_vars
    <2> SUFFICES ASSUME NEW u \in Users, AlwaysLimited(u), holders'[u] # holders[u], Next
                 PROVE  \/ holders'[u] \subseteq holders[u]
                        \/ Cardinality(holders'[u]) <= limits[u]
      BY <1>1
    <2> USE DEF IInv
    <2>1. ASSUME NEW v \in Users, NEW c \in Conns, Acquire(v, c)
          PROVE  Cardinality(holders'[u]) <= limits[u]
      <3>1. u = v /\ holders'[u] = holders[u] \cup {c}
        BY <1>1, <2>1 DEF Acquire, TypeOK
      <3>2. c \notin holders[u]
        BY <2>1, <3>1 DEF Acquire
      <3>3. /\ Cardinality(holders[u] \cup {c}) = Cardinality(holders[u]) + 1
            /\ Cardinality(holders[u]) \in Nat
        BY <1>1, <3>2, HoldersAreFinite, OneMore
      <3>4. counts[u] < limits[u]
        BY <1>1, <2>1, <3>1, Unlimited_Limited DEF Acquire, HasRoom
      <3>5. counts[u] = Cardinality(holders[u]) /\ limits[u] \in Nat
        BY <1>1, LimitsAssumption DEF CountsExact, TypeOK
      <3> QED
        BY <3>1, <3>3, <3>4, <3>5
    <2>2. ASSUME NEW v \in Users, NEW c \in Conns, Release(v, c)
          PROVE  holders'[u] \subseteq holders[u]
      BY <1>1, <2>2 DEF Release, TypeOK
    <2>3. ASSUME NEW l \in Limits, UpdateTo(l)
          PROVE  holders'[u] \subseteq holders[u]
      BY <2>3 DEF UpdateTo
    <2> QED
      BY <2>1, <2>2, <2>3 DEF Next
  <1> QED
    BY InitIInv, NextKeepsIInv, <1>1, PTL DEF Spec, CapForLimited
=============================================================================
