--------------------------- MODULE RenameHistory ----------------------------
(***************************************************************************)
(* What others do to a tree while a session renames it.  `touched[s]` are  *)
(* the objects, by bucket and key, that other sessions have stored,        *)
(* replaced or deleted since the running command of s was sent.            *)
(***************************************************************************)
EXTENDS MCFileCommands

VARIABLE touched

(* The objects that a step changes. *)
Changed ==
  UNION {{<<c, k>> : k \in {j \in DOMAIN store[c] \cup DOMAIN store'[c] :
                              \/ j \notin DOMAIN store[c] \cap DOMAIN store'[c]
                              \/ store[c][j] # store'[c][j]}} : c \in Buckets}

Noted(s) ==
  touched' = [u \in Sessions |-> IF pc'[u] = "idle" THEN {}
                                 ELSE IF u = s THEN touched[u]
                                 ELSE touched[u] \cup Changed]

HInit == Init /\ touched = [s \in Sessions |-> {}]

HNext ==
  \/ \E s \in Sessions : (Start(s) \/ Call(s) \/ Fail(s)) /\ Noted(s)
  \/ Quiescent /\ UNCHANGED touched

HSpec == HInit /\ [][HNext]_<<vars, touched>>

(* The object k of the source is stored at its target, with what it has.   *)
HasCopy(s, k) ==
  LET to == Target(s, k) IN
  /\ to \in DOMAIN store'[DstBucket(s)]
  /\ store'[DstBucket(s)][to] = store[SrcBucket(s)][k]

(* A rename whose source and target are apart deletes an object only when  *)
(* its copy is at the target, as it is: unless another session has         *)
(* meanwhile touched the object (stored it there, say), or its copy, or    *)
(* the object with the name of the directory itself, on which it depends   *)
(* what is deleted.  Nothing that others do elsewhere, in the same         *)
(* directory and between any two calls of the rename, loses what they left *)
(* alone (sameBackendRename, crossBackendRename, and the pages of both and *)
(* of DeletePrefix).                                                       *)
UntouchedIsMoved ==
  [][\A s \in Sessions :
       (req[s].method = "Rename" /\ (DeleteSource(s) \/ DeleteBatch(s))) =>
         \A k \in DOMAIN store[SrcBucket(s)] \ DOMAIN store'[SrcBucket(s)] :
           \/ HasCopy(s, k)
           \/ touched[s] \cap { <<SrcBucket(s), k>>, <<SrcBucket(s), SrcKey(s)>>,
                                <<DstBucket(s), Target(s, k)>> } # {}]_vars
=============================================================================
