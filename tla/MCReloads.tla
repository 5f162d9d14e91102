------------------------------ MODULE MCReloads ------------------------------
(* Instances of Reloads for TLC. *)
EXTENDS Reloads

Config(users, backends) == [users |-> users, backends |-> backends, interval |-> 1]

(* Two users may have the same name at sshid.io. *)
TwoConfigs == {Config(<<"n1", "n1">>, {"b1"}), Config(<<"n1">>, {"b1", "b2"})}
=============================================================================
