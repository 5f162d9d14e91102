------------------------------ MODULE MCServer ------------------------------
(* Instances of Server for TLC. *)
EXTENDS Server, TLC

TwoUsers == {"ann", "bob"}

Config(known, limit, rate) ==
  [known |-> known,
   limit |-> [u \in TwoUsers |-> IF u \in known THEN limit[u] ELSE 0],
   rate  |-> [u \in TwoUsers |-> IF u \in known THEN rate[u] ELSE 0]]

Of(a, b) == [u \in TwoUsers |-> IF u = "ann" THEN a ELSE b]

(* "ann" is always limited and throttled; "bob" is not, or is removed. *)
Varied == {Config(TwoUsers, Of(1, 1), Of(1, 1)),
           Config(TwoUsers, Of(2, 0), Of(2, 0)),
           Config({"ann"}, Of(1, 0), Of(1, 0))}

(* One configuration. *)
Fixed == {Config(TwoUsers, Of(1, 0), Of(1, 0))}

ConnsAreAlike == Permutations(Conns)
=============================================================================
