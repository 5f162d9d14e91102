------------------------- MODULE NamespaceRefinement -------------------------
(***************************************************************************)
(* The commands of FileCommands, run by one session, implement Namespace.  *)
(* `before` remembers the buckets as they were when the running command    *)
(* was sent: the abstract tree changes when the command is answered.       *)
(***************************************************************************)
EXTENDS MCFileCommands

VARIABLE before

TheSession == CHOOSE s \in Sessions : TRUE

HInit == Init /\ before = store
HNext == Next /\ before' = IF pc'[TheSession] = "idle" THEN store' ELSE before
HSpec == HInit /\ [][HNext]_<<vars, before>>

(* As in FairSpec: every S3 call returns. *)
HFairSpec == HSpec /\ \A s \in Sessions : WF_vars(Call(s))

Promise == INSTANCE Namespace WITH
  Mounts   <- VFS[TheSession],
  Granted  <- Perms[TheSession],
  Commands <- Requests[TheSession],
  tree     <- before,
  command  <- req[TheSession],
  running  <- pc[TheSession] # "idle",
  answer   <- answer[TheSession]

(* Every command is atomic when it succeeds; when it fails, nothing it was *)
(* about is lost, and a rename has not begun to delete its source before   *)
(* all of it is copied (handleRename, Filecmd "Remove", "Mkdir").          *)
ImplementsNamespace == Promise!Spec
=============================================================================
