---------------------------- MODULE RateRegistry ----------------------------
(***************************************************************************)
(* The token buckets that throttle the users' transfers                    *)
(* (ratelimit.UserRateRegistry).  A bucket is a number, its identity: the  *)
(* sessions that hold the same bucket share one rate.                      *)
(***************************************************************************)
EXTENDS Naturals, Sequences, FiniteSets

CONSTANTS Users

VARIABLES
  limiters,   \* limiters[u]: the bucket of u, or NoBucket
  speeds      \* speeds[n]: the rate of bucket n; buckets are never reused

NoBucket == 0

(* Variant: the buckets of a reload are new ones. *)
NewcomersAllAfresh(rate) == {u \in Users : rate[u] > 0}

(* Users that are limited and have no bucket yet. *)
Newcomers(rate) == {u \in Users : rate[u] > 0 /\ limiters[u] = NoBucket}

(* The number of a new bucket, one for each newcomer. *)
Numbering(S, from) ==
  {f \in [S -> from + 1 .. from + Cardinality(S)] :
     \A u, v \in S : u # v => f[u] # f[v]}

RateOf(rate, buckets, n) ==
  LET holder == CHOOSE u \in Users : buckets[u] = n IN rate[holder]

(* Update: a user that is no longer limited loses the bucket, a user that  *)
(* still is keeps it at the new rate, and a newcomer gets a full new one.  *)
UpdateTo(rate) ==
  LET new == Newcomers(rate) IN
  \E number \in Numbering(new, Len(speeds)) :
    /\ limiters' = [u \in Users |-> IF rate[u] = 0 THEN NoBucket
                                    ELSE IF u \in new THEN number[u]
                                    ELSE limiters[u]]
    /\ speeds' = [n \in 1 .. Len(speeds) + Cardinality(new) |->
                    IF \E u \in Users : limiters'[u] = n
                    THEN RateOf(rate, limiters', n) ELSE speeds[n]]

Init(rate) ==
  LET new == {u \in Users : rate[u] > 0} IN
  \E number \in Numbering(new, 0) :
    /\ limiters = [u \in Users |-> IF u \in new THEN number[u] ELSE NoBucket]
    /\ speeds = [n \in 1 .. Cardinality(new) |-> RateOf(rate, limiters, n)]
=============================================================================
