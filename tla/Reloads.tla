------------------------------- MODULE Reloads -------------------------------
(***************************************************************************)
(* The life of the process (cmd/sftp2s3/main.go): it builds a State, gives *)
(* its backends to the health monitor, reloads, and may die and be started *)
(* again at any time.  A reload builds a new State; the monitor stays with *)
(* the first one.                                                          *)
(***************************************************************************)
EXTENDS Keys, Health

ASSUME ConfigsAssumption ==
  \A c \in Configs : c.backends \subseteq AllBackends /\ c.interval \in Nat

vars == <<keysVars, healthVars>>

Init == KeysInit /\ HealthInit

(* The first State starts the monitor. *)
StartUp ==
  /\ state = NoState /\ Complete
  /\ StartMonitor(config.backends, config.interval)
  /\ UNCHANGED world

(* A reload stores its State, and that is all. *)
Reloaded == state # NoState /\ Complete /\ UNCHANGED healthVars

ProcessDies == Die /\ StopMonitor /\ UNCHANGED world

Process ==
  \/ StartUp \/ Reloaded
  \/ (Resolve \/ OtherFailure) /\ UNCHANGED healthVars

Next ==
  \/ Process
  \/ ProcessDies
  \/ (Tick \/ \E n \in Names : Publish(n)) /\ UNCHANGED healthVars
  \/ (\E c \in Configs : Begin(c)) /\ UNCHANGED healthVars
  \/ (Monitor \/ \E b \in AllBackends : Flip(b)) /\ UNCHANGED keysVars

Spec == Init /\ [][Next]_vars

(* The ticker of the monitor fires, and its checks end.  Nobody needs to   *)
(* start or reload the process, and it may stop in the middle of a build.  *)
FairSpec == Spec /\ WF_vars(Monitor /\ UNCHANGED keysVars)
-----------------------------------------------------------------------------
(* Both components, and what the process makes of them. *)
TypeOK ==
  /\ KeysTypeOK /\ HealthTypeOK
  /\ state = NoState => monitor = "off"
=============================================================================
