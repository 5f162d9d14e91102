---------------------------- MODULE MCConnLimiter ----------------------------
(* Instances of ConnLimiter for TLC. *)
EXTENDS ConnLimiter, TLC

(* "ann" always has a limit, "bob" does not; connections are alike. *)
TwoUsers == {"ann", "bob"}
Reloads  == {[u \in TwoUsers |-> IF u = "ann" THEN a ELSE b] : a \in 1..2, b \in 0..2}

ConnsAreAlike == Permutations(Conns)
=============================================================================
