------------------------- MODULE FileCommandsProofs -------------------------
(***************************************************************************)
(* Proofs about FileCommands, for all sessions, users, trees, requests and *)
(* failures.                                                               *)
(*                                                                         *)
(* IInv: the types and the fit of a command's work are inductive only      *)
(* together: that no object has an empty name depends on the checks made   *)
(* when the command was accepted. Confinement depends on the lists of keys *)
(* that earlier calls of the same command left behind.                     *)
(*                                                                         *)
(* NamesInv, RemoveInv and MoveInv, each on top of IInv: where contents    *)
(* get their names, what a Remove has still to delete, and what a rename   *)
(* has still to copy.                                                      *)
(***************************************************************************)
EXTENDS FileCommands, BucketLemmas

IInv == TypeOK /\ WorkFitsCommand

USE DEF Calls, Permissions

(* The types of what a command names. *)
LEMMA SourceTyped ==
  ASSUME TypeOK, NEW s \in Sessions, Accepted(s, req[s])
  PROVE  /\ SrcBucket(s) \in Buckets
         /\ SrcPrefix(s) \in Seq(Segment)
         /\ req[s].from.rel \in Seq(Name)
         /\ req[s].from.rel \in Seq(Segment)
         /\ SrcKey(s) \in Key
         /\ SrcDir(s) \in Dir
         /\ AtOrIn(SrcKey(s), SrcPrefix(s) \o req[s].from.rel)
<1>1. req[s] \in Request /\ req[s].from \in Path
  BY DEF TypeOK, Request
<1>2. req[s].from.backend \in DOMAIN VFS[s]
  BY DEF Accepted, Visible
<1>3. req[s].from.backend \in Backends /\ SrcPrefix(s) \in Seq(Segment)
  BY <1>2, VFSAssumption DEF SrcPrefix
<1>4. req[s].from.rel \in Seq(Name) /\ req[s].from.rel \in Seq(Segment)
  BY <1>1 DEF Path, Name
<1>5. SrcBucket(s) \in Buckets
  BY <1>3, BucketOfAssumption DEF SrcBucket
<1> QED BY <1>3, <1>4, <1>5, ObjectKeyIsAt DEF SrcKey, SrcDir

LEMMA TargetTyped ==
  ASSUME TypeOK, NEW s \in Sessions, Accepted(s, req[s]),
         req[s].method \in {"Rename", "Copy"}
  PROVE  /\ DstBucket(s) \in Buckets
         /\ DstPrefix(s) \in Seq(Segment)
         /\ req[s].to.rel \in Seq(Segment)
         /\ DstKey(s) \in Key
         /\ DstDir(s) \in Dir
         /\ AtOrIn(DstKey(s), DstPrefix(s) \o req[s].to.rel)
<1>1. req[s] \in Request /\ req[s].to \in Path
  BY DEF TypeOK, Request
<1>2. req[s].to.backend \in DOMAIN VFS[s]
  BY DEF Accepted, Visible
<1>3. req[s].to.backend \in Backends /\ DstPrefix(s) \in Seq(Segment)
  BY <1>2, VFSAssumption DEF DstPrefix
<1>4. req[s].to.rel \in Seq(Segment)
  BY <1>1 DEF Path, Name
<1>5. DstBucket(s) \in Buckets
  BY <1>3, BucketOfAssumption DEF DstBucket
<1> QED BY <1>3, <1>4, <1>5, ObjectKeyIsAt DEF DstKey, DstDir

(* A copied object goes to a key at or below the path of the target. *)
LEMMA TargetIsAt ==
  ASSUME IInv, NEW s \in Sessions, pc[s] \in {"copy", "upload"}, NEW k \in todo[s]
  PROVE  /\ Target(s, k) \in Key
         /\ Covers(s, req[s].to, DstBucket(s), Target(s, k))
<1>1. Fits(s)
  BY DEF IInv, WorkFitsCommand
<1>2. /\ Accepted(s, req[s])
      /\ req[s].method \in {"Rename", "Copy"}
      /\ isFile[s] \/ InDir(k, SrcDir(s))
  BY <1>1 DEF Fits
<1>3. k \in Key
  BY DEF IInv, TypeOK
<1>4. TypeOK
  BY DEF IInv
<1>5. req[s].to.backend \in DOMAIN VFS[s]
  BY <1>2 DEF Accepted, Visible
<1>6. CASE isFile[s]
  BY <1>2, <1>4, <1>5, <1>6, TargetTyped DEF Target, Covers, DstBucket, DstPrefix
<1>7. CASE ~ isFile[s]
  <2>1. Target(s, k) = Rebase(k, SrcDir(s), DstDir(s))
    BY <1>7 DEF Target
  <2>2. Target(s, k) \in Key /\ InDir(Target(s, k), DstDir(s))
    BY <2>1, <1>2, <1>3, <1>4, <1>7, SourceTyped, TargetTyped, RebaseIsIn
  <2>3. AtOrIn(Target(s, k), DstDir(s))
    BY <2>2, <1>2, <1>4, TargetTyped, InDirIsAtOrIn
  <2> QED BY <2>2, <2>3, <1>5 DEF Covers, DstBucket, DstPrefix, DstDir, DirPrefix
<1> QED BY <1>6, <1>7

-----------------------------------------------------------------------------
(* A stored object changes one key, deleted keys only themselves.          *)
LEMMA PutKeepsStore ==
  ASSUME IsStore(store), NEW c \in Buckets, NEW k \in Key, ValidKey(k),
         NEW x \in Contents,
         store' = [store EXCEPT ![c] = PutObject(store[c], k, x)]
  PROVE  /\ IsStore(store')
         /\ \A b \in Buckets :
              /\ DOMAIN store[b] \subseteq DOMAIN store'[b]
              /\ \A j \in DOMAIN store'[b] :
                   (b = c /\ j = k) \/ (j \in DOMAIN store[b] /\ store'[b][j] = store[b][j])
<1>1. DOMAIN store' = Buckets
  BY DEF IsStore
<1>2. store'[c] = PutObject(store[c], k, x)
  BY DEF IsStore
<1>3. \A b \in Buckets : b # c => store'[b] = store[b]
  BY DEF IsStore
<1>4. /\ DOMAIN store'[c] = DOMAIN store[c] \cup {k}
      /\ store'[c][k] = x
      /\ \A j \in DOMAIN store[c] : j # k => store'[c][j] = store[c][j]
  BY <1>2 DEF PutObject
<1>5. IsFiniteSet(DOMAIN store'[c])
  BY <1>4, FS_AddElement DEF IsStore
<1> QED BY <1>1, <1>3, <1>4, <1>5 DEF IsStore

LEMMA DeleteKeepsStore ==
  ASSUME IsStore(store), NEW c \in Buckets, NEW keys,
         store' = [store EXCEPT ![c] = DeleteKeys(store[c], keys)]
  PROVE  /\ IsStore(store')
         /\ \A b \in Buckets :
              /\ \A j \in DOMAIN store[b] \ DOMAIN store'[b] : b = c /\ j \in keys
              /\ \A j \in DOMAIN store'[b] :
                   j \in DOMAIN store[b] /\ store'[b][j] = store[b][j]
<1>1. DOMAIN store' = Buckets
  BY DEF IsStore
<1>2. store'[c] = DeleteKeys(store[c], keys)
  BY DEF IsStore
<1>3. \A b \in Buckets : b # c => store'[b] = store[b]
  BY DEF IsStore
<1>4. /\ DOMAIN store'[c] = DOMAIN store[c] \ keys
      /\ \A j \in DOMAIN store'[c] : store'[c][j] = store[c][j]
  BY <1>2 DEF DeleteKeys
<1>5. IsFiniteSet(DOMAIN store'[c])
  BY <1>4, FS_Subset DEF IsStore
<1> QED BY <1>1, <1>3, <1>4, <1>5 DEF IsStore

(* Pages and batches are parts of what they are taken from. *)
LEMMA PagesAreListed ==
  ASSUME NEW o, NEW dir, NEW after, NEW n
  PROVE  /\ \A k \in Remaining(o, dir, after) : k \in DOMAIN o /\ InDir(k, dir)
         /\ \A S : FirstKeys(S, n) \subseteq S
  BY DEF Remaining, FirstKeys
-----------------------------------------------------------------------------
(* A session changes none of the variables of another. *)
LEMMA OthersUnchanged ==
  ASSUME TypeOK, NEW s \in Sessions, NEW t \in Sessions, t # s,
         Start(s) \/ Call(s) \/ Fail(s)
  PROVE  /\ pc'[t] = pc[t]
         /\ req'[t] = req[t]
         /\ isFile'[t] = isFile[t]
         /\ todo'[t] = todo[t]
         /\ body'[t] = body[t]
<1> USE DEF TypeOK, Reply, Goto, walk
<1>1. CASE Start(s)
  BY <1>1 DEF Start
<1>2. CASE Fail(s)
  BY <1>2 DEF Fail
<1>3. CASE HeadSource(s)
  BY <1>3 DEF HeadSource
<1>4. CASE ProbeChildren(s)
  BY <1>4 DEF ProbeChildren
<1>5. CASE HeadPlaceholder(s)
  BY <1>5 DEF HeadPlaceholder
<1>6. CASE ListPage(s)
  BY <1>6 DEF ListPage
<1>7. CASE CopyWithinBackend(s)
  BY <1>7 DEF CopyWithinBackend, WhenCopyFails, AfterCopy, LoseReply
<1>8. CASE StreamGet(s)
  BY <1>8 DEF WhenCopyFails, StreamGet
<1>9. CASE StreamPut(s)
  BY <1>9 DEF StreamPut, AfterCopy, LoseReply
<1>10. CASE Recheck(s)
  BY <1>10 DEF Recheck
<1>11. CASE DeleteSource(s)
  BY <1>11 DEF DeleteSource, LoseReply
<1>12. CASE DeleteList(s)
  BY <1>12 DEF DeleteList
<1>13. CASE DeleteBatch(s)
  BY <1>13 DEF DeleteBatch, LoseReply
<1>14. CASE Put(s)
  BY <1>14 DEF Put, LoseReply
<1>15. CASE RefuseKey(s)
  BY <1>15 DEF RefuseKey
<1> QED
  BY <1>1, <1>2, <1>3, <1>4, <1>5, <1>6, <1>7, <1>8, <1>9, <1>10, <1>11, <1>12,
     <1>13, <1>14, <1>15 DEF Call

(* Hence the work of another session still fits its command. *)
LEMMA OthersFit ==
  ASSUME IInv, NEW s \in Sessions, NEW t \in Sessions, t # s,
         Start(s) \/ Call(s) \/ Fail(s), pc'[t] # "idle"
  PROVE  Fits(t)'
<1>1. /\ pc'[t] = pc[t]
      /\ req'[t] = req[t]
      /\ isFile'[t] = isFile[t]
      /\ todo'[t] = todo[t]
  BY OthersUnchanged DEF IInv
<1>2. Fits(t)
  BY <1>1 DEF IInv, WorkFitsCommand
<1>3. SrcDir(t)' = SrcDir(t)
  BY <1>1 DEF SrcDir, SrcPrefix
<1> QED BY <1>1, <1>2, <1>3 DEF Fits

-----------------------------------------------------------------------------
(* The actions, one by one.  The work of the session that steps is in the  *)
(* tree that its command names; the types are kept.                        *)
Kept(s) == TypeOK' /\ (pc'[s] # "idle" => Fits(s)')

LEMMA InitKeeps == Init => IInv
<1> SUFFICES ASSUME Init PROVE IInv
  OBVIOUS
<1>1. NoRequest \in Request
  BY EmptyAssumption, EmptySeq DEF NoRequest, Request, RootPath, Path, Methods, Name, Segment
<1>2. IsStore(store)
  BY InitialStoresAssumption DEF Init
<1>3. <<>> \in Seq(Segment)
  OBVIOUS
<1>4. TypeOK
  BY <1>1, <1>2, <1>3, EmptyAssumption, BoundAssumption DEF Init, TypeOK
<1>5. WorkFitsCommand
  BY DEF Init, WorkFitsCommand
<1> QED BY <1>4, <1>5 DEF IInv

LEMMA StartKeeps ==
  ASSUME IInv, NEW s \in Sessions, Start(s)
  PROVE  Kept(s)
<1> USE DEF Reply, Goto
<1>1. PICK r \in Requests[s] :
        /\ req' = [req EXCEPT ![s] = r]
        /\ body' = [body EXCEPT ![s] = IF r.method = "Put" THEN r.content ELSE Empty]
        /\ IF ~ Accepted(s, r) THEN Reply(s, "error")
           ELSE IF NothingToDo(r) THEN Reply(s, "ok")
           ELSE /\ pc' = [pc EXCEPT ![s] =
                           IF r.method \in {"Put", "Mkdir"} THEN "put" ELSE "exists"]
                /\ answer' = [answer EXCEPT ![s] = "none"]
  BY DEF Start
<1>2. r \in Request /\ r.content \in Contents
  BY RequestsAssumption DEF Request
<1>3. pc' \in [Sessions -> Calls \cup {"idle"}] /\ answer' \in [Sessions -> {"none", "ok", "error"}]
  <2>1. pc \in [Sessions -> Calls \cup {"idle"}] /\ answer \in [Sessions -> {"none", "ok", "error"}]
    BY DEF IInv, TypeOK
  <2>2. PICK p \in {"idle", "put", "exists"}, a \in {"none", "ok", "error"} :
          pc' = [pc EXCEPT ![s] = p] /\ answer' = [answer EXCEPT ![s] = a]
    <3>1. CASE ~ Accepted(s, r)
      BY <1>1, <3>1
    <3>2. CASE Accepted(s, r) /\ NothingToDo(r)
      BY <1>1, <3>2
    <3>3. CASE Accepted(s, r) /\ ~ NothingToDo(r) /\ r.method \in {"Put", "Mkdir"}
      BY <1>1, <3>3
    <3>4. CASE Accepted(s, r) /\ ~ NothingToDo(r) /\ r.method \notin {"Put", "Mkdir"}
      BY <1>1, <3>4
    <3> QED BY <3>1, <3>2, <3>3, <3>4
  <2> QED BY <2>1, <2>2
<1>4. TypeOK'
  <2> USE DEF IInv, TypeOK, Start
  <2>1. IsStore(store')
    OBVIOUS
  <2>2. pc' \in [Sessions -> Calls \cup {"idle"}] /\ answer' \in [Sessions -> {"none", "ok", "error"}]
    BY <1>3
  <2>3. DOMAIN req' = Sessions /\ \A t \in Sessions : req'[t] \in Request
    BY <1>1, <1>2
  <2>4. body' \in [Sessions -> Contents]
    BY <1>1, <1>2, EmptyAssumption
  <2>5. /\ isFile' \in [Sessions -> BOOLEAN]
        /\ children' \in [Sessions -> BOOLEAN]
        /\ more' \in [Sessions -> BOOLEAN]
    OBVIOUS
  <2>6. DOMAIN todo' = Sessions /\ \A t \in Sessions : \A k \in todo'[t] : k \in Key
    OBVIOUS
  <2>7. DOMAIN cursor' = Sessions /\ \A t \in Sessions : cursor'[t] \in Seq(Segment)
    OBVIOUS
  <2>8. sent' \in 0..MaxCommands /\ faults' \in 0..MaxFaults
    BY BoundAssumption
  <2> QED BY <2>1, <2>2, <2>3, <2>4, <2>5, <2>6, <2>7, <2>8
<1>5. ASSUME pc'[s] # "idle" PROVE Fits(s)'
  <2>1. /\ Accepted(s, r) /\ ~ NothingToDo(r)
        /\ pc'[s] = IF r.method \in {"Put", "Mkdir"} THEN "put" ELSE "exists"
    BY <1>1, <1>5 DEF IInv, TypeOK
  <2>2. req'[s] = r /\ todo'[s] = {}
    BY <1>1 DEF Start, IInv, TypeOK
  <2> QED BY <2>1, <2>2 DEF Fits, Accepted, Visible
<1> QED BY <1>4, <1>5 DEF Kept

LEMMA FailKeeps ==
  ASSUME IInv, NEW s \in Sessions, Fail(s)
  PROVE  Kept(s)
<1>1. TypeOK'
  BY BoundAssumption DEF IInv, TypeOK, Fail, Reply, walk
<1>2. pc'[s] = "idle"
  BY DEF IInv, TypeOK, Fail, Reply
<1> QED BY <1>1, <1>2 DEF Kept

LEMMA RefuseKeyKeeps ==
  ASSUME IInv, NEW s \in Sessions, RefuseKey(s)
  PROVE  Kept(s)
<1>1. TypeOK'
  BY DEF IInv, TypeOK, RefuseKey, Reply, walk
<1>2. pc'[s] = "idle"
  BY DEF IInv, TypeOK, RefuseKey, Reply
<1> QED BY <1>1, <1>2 DEF Kept

LEMMA HeadSourceKeeps ==
  ASSUME IInv, NEW s \in Sessions, HeadSource(s)
  PROVE  Kept(s)
<1> USE DEF Goto
<1>1. Fits(s) /\ TypeOK /\ Accepted(s, req[s])
  BY DEF HeadSource, IInv, WorkFitsCommand, Fits
<1>2. SrcKey(s) \in Key
  BY <1>1, SourceTyped
<1>3. TypeOK'
  <2> USE <1>1 DEF TypeOK, HeadSource
  <2>1. pc' \in [Sessions -> Calls \cup {"idle"}] /\ answer' \in [Sessions -> {"none", "ok", "error"}]
    OBVIOUS
  <2>2. DOMAIN todo' = Sessions /\ \A t \in Sessions : \A k \in todo'[t] : k \in Key
    <3>1. CASE todo' = todo
      BY <3>1
    <3>2. CASE todo' = [todo EXCEPT ![s] = {SrcKey(s)}]
      BY <3>2, <1>2
    <3> QED BY <3>1, <3>2
  <2>3. isFile' \in [Sessions -> BOOLEAN]
    OBVIOUS
  <2> QED BY <2>1, <2>2, <2>3
<1>4. Fits(s)'
  <2>1. SrcDir(s)' = SrcDir(s) /\ req'[s] = req[s] /\ Accepted(s, req[s])'
    BY <1>1 DEF HeadSource, SrcDir, SrcPrefix, Accepted, Visible
  <2>2. req[s].method \in {"Rename", "Copy", "Remove"}
    BY <1>1 DEF HeadSource, Fits, Accepted, TypeOK, Request, Methods
  <2>3. CASE pc'[s] = "copy"
    <3>1. isFile'[s] /\ req[s].method # "Remove"
      BY <1>1, <2>3 DEF HeadSource, TypeOK
    <3> QED BY <1>1, <2>1, <2>2, <2>3, <3>1 DEF Fits
  <2>4. CASE pc'[s] = "children"
    <3>1. todo'[s] = {}
      BY <1>1, <2>4 DEF HeadSource, TypeOK, Fits
    <3> QED BY <1>1, <2>1, <2>2, <2>4, <3>1 DEF Fits
  <2> QED BY <1>1, <2>3, <2>4 DEF HeadSource, TypeOK
<1> QED BY <1>3, <1>4 DEF Kept

LEMMA ProbeChildrenKeeps ==
  ASSUME IInv, NEW s \in Sessions, ProbeChildren(s)
  PROVE  Kept(s)
<1> USE DEF Goto, Reply, walk
<1>1. Fits(s) /\ TypeOK
  BY DEF ProbeChildren, IInv, WorkFitsCommand
<1>2. TypeOK'
  BY <1>1 DEF TypeOK, ProbeChildren, HasEntries
<1>3. ASSUME pc'[s] # "idle" PROVE Fits(s)'
  <2>1. SrcDir(s)' = SrcDir(s) /\ req'[s] = req[s]
    BY DEF ProbeChildren, SrcDir, SrcPrefix
  <2>2. req[s].method \in {"Rename", "Copy", "Remove"}
    BY <1>1 DEF ProbeChildren, Fits, Accepted, TypeOK, Request, Methods
  <2>3. todo'[s] = {}
    BY <1>1 DEF ProbeChildren, Fits
  <2>4. \/ pc'[s] \in {"deleteObject", "deleteList"} /\ req[s].method = "Remove"
        \/ pc'[s] \in {"list", "placeholder"} /\ req[s].method # "Remove"
    BY <1>1, <1>3 DEF ProbeChildren, TypeOK
  <2> QED BY <1>1, <2>1, <2>2, <2>3, <2>4 DEF Fits
<1> QED BY <1>2, <1>3 DEF Kept

LEMMA HeadPlaceholderKeeps ==
  ASSUME IInv, NEW s \in Sessions, HeadPlaceholder(s)
  PROVE  Kept(s)
<1> USE DEF Goto, Reply
<1>1. Fits(s) /\ TypeOK /\ Accepted(s, req[s])
  BY DEF HeadPlaceholder, IInv, WorkFitsCommand, Fits
<1>2. Placeholder(SrcDir(s)) \in Key /\ InDir(Placeholder(SrcDir(s)), SrcDir(s))
  BY <1>1, SourceTyped, PlaceholderIsIn
<1>3. TypeOK'
  <2> USE <1>1 DEF TypeOK, HeadPlaceholder
  <2>1. pc' \in [Sessions -> Calls \cup {"idle"}] /\ answer' \in [Sessions -> {"none", "ok", "error"}]
    OBVIOUS
  <2>2. DOMAIN todo' = Sessions /\ \A t \in Sessions : \A k \in todo'[t] : k \in Key
    <3>1. CASE todo' = todo
      BY <3>1
    <3>2. CASE todo' = [todo EXCEPT ![s] = {Placeholder(SrcDir(s))}]
      BY <3>2, <1>2
    <3> QED BY <3>1, <3>2
  <2>3. isFile' \in [Sessions -> BOOLEAN]
    OBVIOUS
  <2> QED BY <2>1, <2>2, <2>3
<1>4. ASSUME pc'[s] # "idle" PROVE Fits(s)'
  <2>1. SrcDir(s)' = SrcDir(s) /\ req'[s] = req[s]
    BY DEF HeadPlaceholder, SrcDir, SrcPrefix
  <2>2. pc'[s] = "copy" /\ todo'[s] = {Placeholder(SrcDir(s))}
    BY <1>1, <1>4 DEF HeadPlaceholder, TypeOK
  <2> QED BY <1>1, <1>2, <2>1, <2>2 DEF Fits, HeadPlaceholder
<1> QED BY <1>3, <1>4 DEF Kept

(* How a step leaves the control state: the command is answered, another   *)
(* call is next, or the same call is repeated.                             *)
LEMMA ControlTyped ==
  ASSUME TypeOK, NEW s \in Sessions,
         \/ \E a \in {"ok", "error"} : Reply(s, a)
         \/ \E c \in Calls : Goto(s, c)
         \/ UNCHANGED <<pc, answer>>
  PROVE  /\ pc' \in [Sessions -> Calls \cup {"idle"}]
         /\ answer' \in [Sessions -> {"none", "ok", "error"}]
<1>1. /\ pc \in [Sessions -> Calls \cup {"idle"}]
      /\ answer \in [Sessions -> {"none", "ok", "error"}]
  BY DEF TypeOK
<1>2. ASSUME NEW a \in {"ok", "error"}, Reply(s, a)
      PROVE  /\ pc' = [pc EXCEPT ![s] = "idle"]
             /\ answer' = [answer EXCEPT ![s] = a]
  BY <1>2 DEF Reply
<1>3. ASSUME NEW c \in Calls, Goto(s, c)
      PROVE  pc' = [pc EXCEPT ![s] = c] /\ answer' = answer
  BY <1>3 DEF Goto
<1> QED
  BY <1>1, <1>2, <1>3

(* A reply that is lost changes neither the command nor what it works on. *)
LEMMA LoseReplyKeeps ==
  ASSUME TypeOK, NEW s \in Sessions, LoseReply(s)
  PROVE  /\ pc' \in [Sessions -> Calls \cup {"idle"}]
         /\ answer' \in [Sessions -> {"none", "ok", "error"}]
         /\ faults' \in 0..MaxFaults
         /\ UNCHANGED <<todo, cursor, more>>
         /\ pc'[s] # "idle" => pc'[s] = pc[s]
<1>1. faults' \in 0..MaxFaults /\ UNCHANGED <<todo, cursor, more>>
  BY BoundAssumption DEF TypeOK, LoseReply, walk
<1>2. CASE Reply(s, "error")
  BY <1>1, <1>2, ControlTyped DEF Reply, TypeOK
<1>3. CASE UNCHANGED <<pc, answer>>
  BY <1>1, <1>3, ControlTyped
<1> QED BY <1>2, <1>3 DEF LoseReply

(* The call that follows a copied object. *)
LEMMA AfterCopyGoes ==
  ASSUME TypeOK, NEW s \in Sessions, NEW rest, AfterCopy(s, rest)
  PROVE  /\ pc' \in [Sessions -> Calls \cup {"idle"}]
         /\ answer' \in [Sessions -> {"none", "ok", "error"}]
         /\ \/ pc'[s] \in {"idle", "copy", "list"}
            \/ pc'[s] = "recheck" /\ rest = {} /\ req[s].method = "Rename"
<1>1. CASE Goto(s, "copy")
  BY <1>1, ControlTyped DEF Goto, TypeOK
<1>2. CASE Goto(s, "list")
  BY <1>2, ControlTyped DEF Goto, TypeOK
<1>3. CASE Goto(s, "recheck") /\ rest = {} /\ req[s].method = "Rename"
  BY <1>3, ControlTyped DEF Goto, TypeOK
<1>4. CASE Reply(s, "ok")
  BY <1>4, ControlTyped DEF Reply, TypeOK
<1> QED BY <1>1, <1>2, <1>3, <1>4 DEF AfterCopy

LEMMA ListPageKeeps ==
  ASSUME IInv, NEW s \in Sessions, ListPage(s)
  PROVE  Kept(s)
<1> DEFINE rest == Remaining(store[SrcBucket(s)], SrcDir(s), cursor[s])
           page == FirstKeys(rest, PageSize)
<1>1. Fits(s) /\ TypeOK /\ Accepted(s, req[s]) /\ pc[s] = "list"
  BY DEF ListPage, IInv, WorkFitsCommand, Fits
<1>2. \A k \in page : k \in Key /\ InDir(k, SrcDir(s))
  <2>1. SrcBucket(s) \in Buckets
    BY <1>1, SourceTyped
  <2>2. \A k \in page : k \in DOMAIN store[SrcBucket(s)] /\ InDir(k, SrcDir(s))
    BY PagesAreListed
  <2> QED BY <1>1, <2>1, <2>2 DEF TypeOK, IsStore
<1>3. /\ UNCHANGED <<store, req, isFile, children, body, sent, faults>>
      /\ todo' = [todo EXCEPT ![s] = page]
      /\ more' = [more EXCEPT ![s] = page # rest]
  BY DEF ListPage
<1>4. \/ page = {} /\ UNCHANGED cursor /\ req[s].method = "Rename" /\ Goto(s, "recheck")
      \/ page = {} /\ UNCHANGED cursor /\ Reply(s, "ok")
      \/ \E last \in page : cursor' = [cursor EXCEPT ![s] = last] /\ Goto(s, "copy")
  BY DEF ListPage
<1>5. TypeOK'
  <2>1. /\ pc' \in [Sessions -> Calls \cup {"idle"}]
        /\ answer' \in [Sessions -> {"none", "ok", "error"}]
    BY <1>1, <1>4, ControlTyped
  <2>2. DOMAIN cursor' = Sessions /\ \A t \in Sessions : cursor'[t] \in Seq(Segment)
    BY <1>1, <1>2, <1>4 DEF TypeOK, Key
  <2>3. DOMAIN todo' = Sessions /\ \A t \in Sessions : \A k \in todo'[t] : k \in Key
    BY <1>1, <1>2, <1>3 DEF TypeOK
  <2>4. more' \in [Sessions -> BOOLEAN]
    BY <1>1, <1>3 DEF TypeOK
  <2> QED BY <1>1, <1>3, <2>1, <2>2, <2>3, <2>4 DEF TypeOK
<1>6. ASSUME pc'[s] # "idle" PROVE Fits(s)'
  <2>1. SrcDir(s)' = SrcDir(s) /\ req'[s] = req[s]
    BY <1>3 DEF SrcDir, SrcPrefix
  <2>2. todo'[s] = page
    BY <1>1, <1>3 DEF TypeOK
  <2>3. pc'[s] = "copy" \/ (pc'[s] = "recheck" /\ page = {} /\ req[s].method = "Rename")
    BY <1>1, <1>4, <1>6 DEF TypeOK, Goto, Reply
  <2> QED BY <1>1, <1>2, <1>3, <2>1, <2>2, <2>3 DEF Fits
<1> QED BY <1>5, <1>6 DEF Kept
-----------------------------------------------------------------------------
(* The calls that change a bucket: the changed keys are those that the     *)
(* command of the session may change.                                      *)
Inside(s) ==
  \A c \in Buckets :
    /\ \A k \in DOMAIN store[c] \ DOMAIN store'[c] : MayRemove(s, c, k)
    /\ \A k \in DOMAIN store'[c] :
         (k \in DOMAIN store[c] => store'[c][k] # store[c][k]) => MayWrite(s, c, k)

LEMMA PermissionsHeld ==
  ASSUME NEW s \in Sessions, Accepted(s, req[s])
  PROVE  /\ req[s].method \in {"Rename", "Remove"} => "delete" \in Perms[s]
         /\ req[s].method \in {"Rename", "Copy", "Put", "Mkdir"} => "write" \in Perms[s]
         /\ req[s].method \in {"Remove", "Put"} => req[s].from.rel # <<>>
         /\ req[s].from.backend \in DOMAIN VFS[s]
  BY DEF Accepted, Needs, Visible

(* Storing one key that the session may write. *)
LEMMA PutIsInside ==
  ASSUME IInv, NEW s \in Sessions, NEW c \in Buckets, NEW k \in Key, ValidKey(k),
         NEW x \in Contents, MayWrite(s, c, k),
         store' = [store EXCEPT ![c] = PutObject(store[c], k, x)]
  PROVE  IsStore(store') /\ Inside(s)
<1>1. IsStore(store)
  BY DEF IInv, TypeOK
<1>2. /\ IsStore(store')
      /\ \A b \in Buckets :
           /\ DOMAIN store[b] \subseteq DOMAIN store'[b]
           /\ \A j \in DOMAIN store'[b] :
                (b = c /\ j = k) \/ (j \in DOMAIN store[b] /\ store'[b][j] = store[b][j])
  BY <1>1, PutKeepsStore
<1> QED BY <1>2 DEF Inside

(* Deleting keys of the source. *)
LEMMA DeleteIsInside ==
  ASSUME IInv, NEW s \in Sessions, NEW keys, Accepted(s, req[s]),
         req[s].method \in {"Rename", "Remove"}, pc[s] # "idle",
         \A k \in keys : k \in Key /\ (k = SrcKey(s) \/ InDir(k, SrcDir(s))),
         store' = [store EXCEPT ![SrcBucket(s)] = DeleteKeys(store[SrcBucket(s)], keys)]
  PROVE  IsStore(store') /\ Inside(s)
<1>1. IsStore(store) /\ TypeOK
  BY DEF IInv, TypeOK
<1>2. \A k \in keys : Covers(s, req[s].from, SrcBucket(s), k)
  <2> SUFFICES ASSUME NEW k \in keys PROVE Covers(s, req[s].from, SrcBucket(s), k)
    OBVIOUS
  <2>1. AtOrIn(k, SrcDir(s))
    <3>1. CASE k = SrcKey(s)
      BY <1>1, <3>1, SourceTyped DEF SrcDir, DirPrefix
    <3>2. CASE InDir(k, SrcDir(s))
      BY <1>1, <3>2, SourceTyped, InDirIsAtOrIn
    <3> QED BY <3>1, <3>2
  <2> QED BY <2>1, PermissionsHeld DEF Covers, SrcBucket, SrcPrefix, SrcDir, DirPrefix
<1>3. \A k \in keys : MayRemove(s, SrcBucket(s), k)
  BY <1>2, PermissionsHeld DEF MayRemove
<1>4. SrcBucket(s) \in Buckets
  BY <1>1, SourceTyped
<1>5. /\ IsStore(store')
      /\ \A b \in Buckets :
           /\ \A j \in DOMAIN store[b] \ DOMAIN store'[b] : b = SrcBucket(s) /\ j \in keys
           /\ \A j \in DOMAIN store'[b] :
                j \in DOMAIN store[b] /\ store'[b][j] = store[b][j]
  BY <1>1, <1>4, DeleteKeepsStore
<1> QED BY <1>3, <1>5 DEF Inside

LEMMA SameBucket ==
  ASSUME NEW s, ~ CrossBackend(req[s])
  PROVE  SrcBucket(s) = DstBucket(s)
  BY DEF CrossBackend, SrcBucket, DstBucket

LEMMA CopyWithinBackendKeeps ==
  ASSUME IInv, NEW s \in Sessions, CopyWithinBackend(s)
  PROVE  Kept(s) /\ Inside(s)
<1>1. Fits(s) /\ TypeOK /\ Accepted(s, req[s]) /\ pc[s] = "copy"
      /\ req[s].method \in {"Rename", "Copy"}
  BY DEF CopyWithinBackend, IInv, WorkFitsCommand, Fits
<1>2. UNCHANGED <<req, isFile, children, body, sent>> /\ SrcDir(s)' = SrcDir(s)
  BY DEF CopyWithinBackend, SrcDir, SrcPrefix
<1>3. PICK k \in todo[s] :
        /\ IsNext(k, s)
        /\ \/ Reply(s, "error") /\ UNCHANGED <<store, walk, faults>>
           \/ /\ k \in DOMAIN store[SrcBucket(s)]
              /\ store' = [store EXCEPT ![SrcBucket(s)] =
                     PutObject(store[SrcBucket(s)], Target(s, k), store[SrcBucket(s)][k])]
              /\ \/ /\ todo' = [todo EXCEPT ![s] = todo[s] \ {k}]
                    /\ AfterCopy(s, todo[s] \ {k})
                    /\ UNCHANGED <<cursor, more, faults>>
                 \/ LoseReply(s)
  BY DEF WhenCopyFails, CopyWithinBackend
<1>4. CASE Reply(s, "error") /\ UNCHANGED <<store, walk, faults>>
  <2>1. TypeOK'
    BY <1>1, <1>2, <1>4, ControlTyped DEF TypeOK, walk
  <2>2. pc'[s] = "idle"
    BY <1>1, <1>4 DEF TypeOK, Reply
  <2> QED BY <1>4, <2>1, <2>2 DEF Kept, Inside
<1>5. CASE /\ k \in DOMAIN store[SrcBucket(s)]
           /\ store' = [store EXCEPT ![SrcBucket(s)] =
                  PutObject(store[SrcBucket(s)], Target(s, k), store[SrcBucket(s)][k])]
  <2>1. SrcBucket(s) \in Buckets /\ store[SrcBucket(s)][k] \in Contents
    BY <1>1, <1>5, SourceTyped DEF TypeOK, IsStore
  <2>2. Target(s, k) \in Key /\ MayWrite(s, SrcBucket(s), Target(s, k))
    <3>1. SrcBucket(s) = DstBucket(s)
      BY SameBucket DEF CopyWithinBackend
    <3> QED BY <1>1, <3>1, TargetIsAt, PermissionsHeld DEF MayWrite
  <2>3. ValidKey(Target(s, k))
    BY <1>1, <1>3 DEF CopyWithinBackend, KeyIsEmpty
  <2>4. IsStore(store') /\ Inside(s)
    BY <1>5, <2>1, <2>2, <2>3, PutIsInside
  <2>5. CASE /\ todo' = [todo EXCEPT ![s] = todo[s] \ {k}]
             /\ AfterCopy(s, todo[s] \ {k})
             /\ UNCHANGED <<cursor, more, faults>>
    <3>1. TypeOK'
      BY <1>1, <1>2, <2>4, <2>5, AfterCopyGoes DEF TypeOK
    <3>2. todo'[s] = todo[s] \ {k} /\ req'[s] = req[s] /\ isFile'[s] = isFile[s]
      BY <1>1, <1>2, <2>5 DEF TypeOK
    <3>3. \/ pc'[s] \in {"idle", "copy", "list"}
          \/ pc'[s] = "recheck" /\ todo[s] \ {k} = {} /\ req[s].method = "Rename"
      BY <1>1, <2>5, AfterCopyGoes
    <3>4. pc'[s] # "idle" => Fits(s)'
      BY <1>1, <1>2, <3>2, <3>3 DEF Fits
    <3> QED BY <2>4, <3>1, <3>4 DEF Kept
  <2>6. CASE LoseReply(s)
    <3>1. TypeOK'
      BY <1>1, <1>2, <2>4, <2>6, LoseReplyKeeps DEF TypeOK
    <3>2. pc'[s] # "idle" => Fits(s)'
      BY <1>1, <1>2, <2>6, LoseReplyKeeps DEF Fits
    <3> QED BY <2>4, <3>1, <3>2 DEF Kept
  <2> QED BY <1>3, <1>5, <2>5, <2>6, <1>4
<1> QED BY <1>3, <1>4, <1>5

LEMMA StreamGetKeeps ==
  ASSUME IInv, NEW s \in Sessions, StreamGet(s)
  PROVE  Kept(s)
<1>1. Fits(s) /\ TypeOK /\ Accepted(s, req[s]) /\ pc[s] = "copy"
  BY DEF StreamGet, IInv, WorkFitsCommand, Fits
<1>2. UNCHANGED <<store, req, isFile, children, walk, sent, faults>> /\ SrcDir(s)' = SrcDir(s)
  BY DEF StreamGet, SrcDir, SrcPrefix
<1>3. PICK k \in todo[s] :
        IF k \in DOMAIN store[SrcBucket(s)]
        THEN body' = [body EXCEPT ![s] = store[SrcBucket(s)][k]] /\ Goto(s, "upload")
        ELSE UNCHANGED body /\ Reply(s, "error")
  BY DEF WhenCopyFails, StreamGet
<1>4. body' \in [Sessions -> Contents]
  <2>1. SrcBucket(s) \in Buckets
    BY <1>1, SourceTyped
  <2> QED BY <1>1, <1>3, <2>1 DEF TypeOK, IsStore
<1>5. /\ Goto(s, "upload") \/ Reply(s, "error")
      /\ pc'[s] \in {"upload", "idle"}
  BY <1>1, <1>3 DEF TypeOK, Goto, Reply
<1>6. TypeOK'
  BY <1>1, <1>2, <1>4, <1>5, ControlTyped DEF TypeOK, walk
<1>7. pc'[s] # "idle" => Fits(s)'
  BY <1>1, <1>2, <1>5 DEF Fits, walk
<1> QED BY <1>6, <1>7 DEF Kept

LEMMA StreamPutKeeps ==
  ASSUME IInv, NEW s \in Sessions, StreamPut(s)
  PROVE  Kept(s) /\ Inside(s)
<1>1. Fits(s) /\ TypeOK /\ Accepted(s, req[s]) /\ pc[s] = "upload"
      /\ req[s].method \in {"Rename", "Copy"}
  BY DEF StreamPut, IInv, WorkFitsCommand, Fits
<1>2. UNCHANGED <<req, isFile, children, body, sent>> /\ SrcDir(s)' = SrcDir(s)
  BY DEF StreamPut, SrcDir, SrcPrefix
<1>3. PICK k \in todo[s] :
        /\ IsNext(k, s)
        /\ store' = [store EXCEPT ![DstBucket(s)] =
              PutObject(store[DstBucket(s)], Target(s, k), body[s])]
        /\ \/ /\ todo' = [todo EXCEPT ![s] = todo[s] \ {k}]
              /\ AfterCopy(s, todo[s] \ {k})
              /\ UNCHANGED <<cursor, more, faults>>
           \/ LoseReply(s)
  BY DEF StreamPut
<1>4. IsStore(store') /\ Inside(s)
  <2>1. DstBucket(s) \in Buckets /\ body[s] \in Contents
    BY <1>1, TargetTyped DEF TypeOK
  <2>2. Target(s, k) \in Key /\ MayWrite(s, DstBucket(s), Target(s, k))
    BY <1>1, TargetIsAt, PermissionsHeld DEF MayWrite
  <2>3. ValidKey(Target(s, k))
    BY <1>1, <1>3 DEF StreamPut, KeyIsEmpty
  <2> QED BY <1>3, <2>1, <2>2, <2>3, PutIsInside
<1>5. CASE /\ todo' = [todo EXCEPT ![s] = todo[s] \ {k}]
           /\ AfterCopy(s, todo[s] \ {k})
           /\ UNCHANGED <<cursor, more, faults>>
  <2>1. TypeOK'
    BY <1>1, <1>2, <1>4, <1>5, AfterCopyGoes DEF TypeOK
  <2>2. todo'[s] = todo[s] \ {k} /\ req'[s] = req[s] /\ isFile'[s] = isFile[s]
    BY <1>1, <1>2, <1>5 DEF TypeOK
  <2>3. \/ pc'[s] \in {"idle", "copy", "list"}
        \/ pc'[s] = "recheck" /\ todo[s] \ {k} = {} /\ req[s].method = "Rename"
    BY <1>1, <1>5, AfterCopyGoes
  <2>4. pc'[s] # "idle" => Fits(s)'
    BY <1>1, <1>2, <2>2, <2>3 DEF Fits
  <2> QED BY <1>4, <2>1, <2>4 DEF Kept
<1>6. CASE LoseReply(s)
  <2>1. TypeOK'
    BY <1>1, <1>2, <1>4, <1>6, LoseReplyKeeps DEF TypeOK
  <2>2. pc'[s] # "idle" => Fits(s)'
    BY <1>1, <1>2, <1>6, LoseReplyKeeps DEF Fits
  <2> QED BY <1>4, <2>1, <2>2 DEF Kept
<1> QED BY <1>3, <1>5, <1>6

LEMMA RecheckKeeps ==
  ASSUME IInv, NEW s \in Sessions, Recheck(s)
  PROVE  Kept(s)
<1>1. Fits(s) /\ TypeOK /\ Accepted(s, req[s]) /\ pc[s] = "recheck"
  BY DEF Recheck, IInv, WorkFitsCommand, Fits
<1>2. UNCHANGED <<store, req, children, todo, more, body, sent, faults>> /\ SrcDir(s)' = SrcDir(s)
  BY DEF Recheck, SrcDir, SrcPrefix
<1>3. PICK c \in {"deleteObject", "deleteList"} : Goto(s, c)
  BY DEF Recheck
<1>4. TypeOK'
  <2>1. isFile' \in [Sessions -> BOOLEAN]
    BY <1>1 DEF Recheck, TypeOK
  <2>2. DOMAIN cursor' = Sessions /\ \A t \in Sessions : cursor'[t] \in Seq(Segment)
    BY <1>1 DEF Recheck, TypeOK
  <2>3. /\ pc' \in [Sessions -> Calls \cup {"idle"}]
        /\ answer' \in [Sessions -> {"none", "ok", "error"}]
    BY <1>1, <1>3, ControlTyped
  <2> QED BY <1>1, <1>2, <2>1, <2>2, <2>3 DEF TypeOK
<1>5. Fits(s)'
  <2>1. pc'[s] \in {"deleteObject", "deleteList"}
    BY <1>1, <1>3 DEF Goto, TypeOK
  <2> QED BY <1>1, <1>2, <2>1 DEF Fits
<1> QED BY <1>4, <1>5 DEF Kept

LEMMA DeleteSourceKeeps ==
  ASSUME IInv, NEW s \in Sessions, DeleteSource(s)
  PROVE  Kept(s) /\ Inside(s)
<1>1. /\ Fits(s) /\ TypeOK /\ Accepted(s, req[s]) /\ pc[s] = "deleteObject"
      /\ req[s].method \in {"Rename", "Remove"}
      /\ SrcKey(s) \in Key
  BY SourceTyped DEF DeleteSource, IInv, WorkFitsCommand, Fits
<1>2. UNCHANGED <<req, isFile, children, body, sent>> /\ SrcDir(s)' = SrcDir(s)
  BY DEF DeleteSource, SrcDir, SrcPrefix
<1>3. IsStore(store') /\ Inside(s)
  <2> DEFINE keys == {SrcKey(s)}
  <2>1. store' = [store EXCEPT ![SrcBucket(s)] = DeleteKeys(store[SrcBucket(s)], keys)]
    BY DEF DeleteSource
  <2>2. \A k \in keys : k \in Key /\ (k = SrcKey(s) \/ InDir(k, SrcDir(s)))
    BY <1>1
  <2> HIDE DEF keys
  <2> QED BY <1>1, <2>1, <2>2, DeleteIsInside
<1>4. CASE UNCHANGED <<walk, faults>> /\ (Goto(s, "deleteList") \/ Reply(s, "ok"))
  <2>1. TypeOK'
    BY <1>1, <1>2, <1>3, <1>4, ControlTyped DEF TypeOK, walk
  <2>2. pc'[s] \in {"deleteList", "idle"}
    BY <1>1, <1>4 DEF Goto, Reply, TypeOK
  <2>3. pc'[s] # "idle" => Fits(s)'
    BY <1>1, <1>2, <1>4, <2>2 DEF Fits, walk
  <2> QED BY <1>3, <2>1, <2>3 DEF Kept
<1>5. CASE LoseReply(s)
  <2>1. TypeOK'
    BY <1>1, <1>2, <1>3, <1>5, LoseReplyKeeps DEF TypeOK
  <2>2. pc'[s] # "idle" => Fits(s)'
    BY <1>1, <1>2, <1>5, LoseReplyKeeps DEF Fits
  <2> QED BY <1>3, <2>1, <2>2 DEF Kept
<1> QED BY <1>4, <1>5 DEF DeleteSource

LEMMA DeleteListKeeps ==
  ASSUME IInv, NEW s \in Sessions, DeleteList(s)
  PROVE  Kept(s)
<1> DEFINE rest == Remaining(store[SrcBucket(s)], SrcDir(s), cursor[s])
           page == FirstKeys(rest, PageSize)
<1>1. Fits(s) /\ TypeOK /\ Accepted(s, req[s]) /\ pc[s] = "deleteList"
  BY DEF DeleteList, IInv, WorkFitsCommand, Fits
<1>2. UNCHANGED <<store, req, isFile, children, more, body, sent, faults>> /\ SrcDir(s)' = SrcDir(s)
  BY DEF DeleteList, SrcDir, SrcPrefix
<1>3. \A k \in todo[s] \cup page : k \in Key /\ InDir(k, SrcDir(s))
  <2>1. SrcBucket(s) \in Buckets
    BY <1>1, SourceTyped
  <2>2. \A k \in page : k \in DOMAIN store[SrcBucket(s)] /\ InDir(k, SrcDir(s))
    BY PagesAreListed
  <2> QED BY <1>1, <2>1, <2>2 DEF TypeOK, IsStore, Fits
<1>4. /\ todo' = [todo EXCEPT ![s] = todo[s] \cup page]
      /\ \/ UNCHANGED cursor
         \/ \E last \in page : cursor' = [cursor EXCEPT ![s] = last]
      /\ Goto(s, "deleteList") \/ Goto(s, "deleteBatch") \/ Reply(s, "ok")
  BY DEF DeleteList
<1>5. TypeOK'
  <2>1. DOMAIN cursor' = Sessions /\ \A t \in Sessions : cursor'[t] \in Seq(Segment)
    BY <1>1, <1>3, <1>4 DEF TypeOK, Key
  <2>2. DOMAIN todo' = Sessions /\ \A t \in Sessions : \A k \in todo'[t] : k \in Key
    BY <1>1, <1>3, <1>4 DEF TypeOK
  <2>3. /\ pc' \in [Sessions -> Calls \cup {"idle"}]
        /\ answer' \in [Sessions -> {"none", "ok", "error"}]
    BY <1>1, <1>4, ControlTyped
  <2> QED BY <1>1, <1>2, <2>1, <2>2, <2>3 DEF TypeOK
<1>6. pc'[s] # "idle" => Fits(s)'
  <2>1. todo'[s] = todo[s] \cup page
    BY <1>1, <1>4 DEF TypeOK
  <2>2. pc'[s] \in {"deleteList", "deleteBatch", "idle"}
    BY <1>1, <1>4 DEF Goto, Reply, TypeOK
  <2> QED BY <1>1, <1>2, <1>3, <2>1, <2>2 DEF Fits
<1> QED BY <1>5, <1>6 DEF Kept

LEMMA DeleteBatchKeeps ==
  ASSUME IInv, NEW s \in Sessions, DeleteBatch(s)
  PROVE  Kept(s) /\ Inside(s)
<1> DEFINE batch == FirstKeys(todo[s], BatchSize)
<1>1. /\ Fits(s) /\ TypeOK /\ Accepted(s, req[s]) /\ pc[s] = "deleteBatch"
      /\ req[s].method \in {"Rename", "Remove"}
  BY DEF DeleteBatch, IInv, WorkFitsCommand, Fits
<1>2. UNCHANGED <<req, isFile, children, body, sent>> /\ SrcDir(s)' = SrcDir(s)
  BY DEF DeleteBatch, SrcDir, SrcPrefix
<1>3. \A k \in todo[s] : k \in Key /\ InDir(k, SrcDir(s))
  BY <1>1 DEF Fits, TypeOK
<1>4. PICK kept : store' = [store EXCEPT ![SrcBucket(s)] =
                    DeleteKeys(store[SrcBucket(s)], batch \ kept)]
  BY DEF DeleteBatch
<1>5. IsStore(store') /\ Inside(s)
  <2>1. batch \subseteq todo[s]
    BY PagesAreListed
  <2>2. \A k \in batch \ kept : k \in Key /\ (k = SrcKey(s) \/ InDir(k, SrcDir(s)))
    BY <1>3, <2>1
  <2> DEFINE gone == batch \ kept
  <2>3. store' = [store EXCEPT ![SrcBucket(s)] = DeleteKeys(store[SrcBucket(s)], gone)]
    BY <1>4
  <2>4. \A k \in gone : k \in Key /\ (k = SrcKey(s) \/ InDir(k, SrcDir(s)))
    BY <2>2
  <2> HIDE DEF gone
  <2> QED BY <1>1, <2>3, <2>4, DeleteIsInside
<1>6. CASE /\ todo' = [todo EXCEPT ![s] = todo[s] \ batch]
           /\ Goto(s, "deleteBatch") \/ Reply(s, "ok")
           /\ UNCHANGED <<cursor, more, faults>>
  <2>1. TypeOK'
    BY <1>1, <1>2, <1>5, <1>6, ControlTyped DEF TypeOK
  <2>2. pc'[s] \in {"deleteBatch", "idle"} /\ todo'[s] = todo[s] \ batch
    BY <1>1, <1>6 DEF Goto, Reply, TypeOK
  <2>3. pc'[s] # "idle" => Fits(s)'
    BY <1>1, <1>2, <1>3, <2>2 DEF Fits
  <2> QED BY <1>5, <2>1, <2>3 DEF Kept
<1>7. CASE LoseReply(s)
  <2>1. TypeOK'
    BY <1>1, <1>2, <1>5, <1>7, LoseReplyKeeps DEF TypeOK
  <2>2. pc'[s] # "idle" => Fits(s)'
    BY <1>1, <1>2, <1>7, LoseReplyKeeps DEF Fits
  <2> QED BY <1>5, <2>1, <2>2 DEF Kept
<1> QED BY <1>6, <1>7 DEF DeleteBatch

LEMMA PutKeeps ==
  ASSUME IInv, NEW s \in Sessions, Put(s)
  PROVE  Kept(s) /\ Inside(s)
<1>1. /\ Fits(s) /\ TypeOK /\ Accepted(s, req[s]) /\ pc[s] = "put"
      /\ req[s].method \in {"Put", "Mkdir"}
      /\ ~ NothingToDo(req[s])
  BY DEF Put, IInv, WorkFitsCommand, Fits
<1>2. UNCHANGED <<req, isFile, children, body, sent>> /\ SrcDir(s)' = SrcDir(s)
  BY DEF Put, SrcDir, SrcPrefix
<1>3. /\ PutKey(s) \in Key
      /\ ValidKey(PutKey(s))
      /\ AtOrIn(PutKey(s), SrcPrefix(s) \o req[s].from.rel)
  <2>1. CASE req[s].method = "Mkdir"
    <3>1. SrcDir(s) # <<>>
      <4>1. Len(req[s].from.rel) > 0
        BY <1>1, <2>1, SourceTyped DEF NothingToDo
      <4>2. Len(SrcDir(s)) = Len(SrcPrefix(s)) + Len(req[s].from.rel)
        BY <1>1, SourceTyped, ConcatStartsWith DEF SrcDir, DirPrefix
      <4> QED BY <1>1, <4>1, <4>2, SourceTyped
    <3> QED BY <1>1, <2>1, <3>1, SourceTyped, PlaceholderIsIn, InDirIsAtOrIn
            DEF PutKey, SrcDir, DirPrefix
  <2>2. CASE req[s].method = "Put"
    <3>1. req[s].from.rel # <<>>
      BY <1>1, <2>2, PermissionsHeld
    <3> QED BY <1>1, <2>2, <3>1, SourceTyped, ObjectKeyIsValid DEF PutKey, SrcKey
  <2> QED BY <1>1, <2>1, <2>2
<1>4. IsStore(store') /\ Inside(s)
  <2>1. SrcBucket(s) \in Buckets /\ body[s] \in Contents
    BY <1>1, SourceTyped DEF TypeOK
  <2>2. MayWrite(s, SrcBucket(s), PutKey(s))
    BY <1>1, <1>3, PermissionsHeld DEF MayWrite, Covers, SrcBucket, SrcPrefix
  <2>3. store' = [store EXCEPT ![SrcBucket(s)] =
                    PutObject(store[SrcBucket(s)], PutKey(s), body[s])]
    BY DEF Put
  <2> QED BY <1>3, <2>1, <2>2, <2>3, PutIsInside
<1>5. CASE Reply(s, "ok") /\ UNCHANGED <<walk, faults>>
  <2>1. TypeOK'
    BY <1>1, <1>2, <1>4, <1>5, ControlTyped DEF TypeOK, walk
  <2>2. pc'[s] = "idle"
    BY <1>1, <1>5 DEF Reply, TypeOK
  <2> QED BY <1>4, <2>1, <2>2 DEF Kept
<1>6. CASE LoseReply(s)
  <2>1. TypeOK'
    BY <1>1, <1>2, <1>4, <1>6, LoseReplyKeeps DEF TypeOK
  <2>2. pc'[s] # "idle" => Fits(s)'
    BY <1>1, <1>2, <1>6, LoseReplyKeeps DEF Fits
  <2> QED BY <1>4, <2>1, <2>2 DEF Kept
<1> QED BY <1>5, <1>6 DEF Put
-----------------------------------------------------------------------------
(* Every step of a session keeps its work in place, and is inside what the *)
(* session was granted.                                                    *)
LEMMA StepKeeps ==
  ASSUME IInv, NEW s \in Sessions, Start(s) \/ Call(s) \/ Fail(s)
  PROVE  Kept(s) /\ Inside(s)
<1>1. ASSUME UNCHANGED store PROVE Inside(s)
  BY <1>1 DEF Inside
<1>2. CASE Start(s)
  BY <1>1, <1>2, StartKeeps DEF Start
<1>3. CASE Fail(s)
  BY <1>1, <1>3, FailKeeps DEF Fail
<1>4. CASE HeadSource(s)
  BY <1>1, <1>4, HeadSourceKeeps DEF HeadSource
<1>5. CASE ProbeChildren(s)
  BY <1>1, <1>5, ProbeChildrenKeeps DEF ProbeChildren
<1>6. CASE HeadPlaceholder(s)
  BY <1>1, <1>6, HeadPlaceholderKeeps DEF HeadPlaceholder
<1>7. CASE ListPage(s)
  BY <1>1, <1>7, ListPageKeeps DEF ListPage
<1>8. CASE CopyWithinBackend(s)
  BY <1>8, CopyWithinBackendKeeps
<1>9. CASE StreamGet(s)
  BY <1>1, <1>9, StreamGetKeeps DEF StreamGet
<1>10. CASE StreamPut(s)
  BY <1>10, StreamPutKeeps
<1>11. CASE Recheck(s)
  BY <1>1, <1>11, RecheckKeeps DEF Recheck
<1>12. CASE DeleteSource(s)
  BY <1>12, DeleteSourceKeeps
<1>13. CASE DeleteList(s)
  BY <1>1, <1>13, DeleteListKeeps DEF DeleteList
<1>14. CASE DeleteBatch(s)
  BY <1>14, DeleteBatchKeeps
<1>15. CASE Put(s)
  BY <1>15, PutKeeps
<1>16. CASE RefuseKey(s)
  BY <1>1, <1>16, RefuseKeyKeeps DEF RefuseKey
<1> QED
  BY <1>2, <1>3, <1>4, <1>5, <1>6, <1>7, <1>8, <1>9, <1>10, <1>11, <1>12, <1>13,
     <1>14, <1>15, <1>16 DEF Call

LEMMA NextKeeps == IInv /\ [Next]_vars => IInv'
<1> SUFFICES ASSUME IInv, [Next]_vars PROVE IInv'
  OBVIOUS
<1>1. CASE UNCHANGED vars
  <2>1. TypeOK'
    BY <1>1 DEF IInv, TypeOK, vars
  <2>2. ASSUME NEW s \in Sessions, pc'[s] # "idle" PROVE Fits(s)'
    BY <1>1, <2>2 DEF IInv, WorkFitsCommand, Fits, SrcDir, SrcPrefix, vars
  <2> QED BY <2>1, <2>2 DEF IInv, WorkFitsCommand
<1>2. ASSUME NEW s \in Sessions, Start(s) \/ Call(s) \/ Fail(s) PROVE IInv'
  <2>1. Kept(s)
    BY <1>2, StepKeeps
  <2>2. ASSUME NEW t \in Sessions, pc'[t] # "idle" PROVE Fits(t)'
    BY <1>2, <2>1, <2>2, OthersFit DEF Kept
  <2> QED BY <2>1, <2>2 DEF IInv, WorkFitsCommand, Kept
<1> QED BY <1>1, <1>2 DEF Next, Quiescent

LEMMA InvariantHolds == Spec => []IInv
<1>1. Init => IInv
  BY InitKeeps
<1>2. IInv /\ [Next]_vars => IInv'
  BY NextKeeps
<1> QED BY <1>1, <1>2, PTL DEF Spec

(* Every variable keeps its type; in particular no command ever gives an   *)
(* object an empty key, whatever paths a client names and whatever a tree  *)
(* that is copied holds (copyPrefix, and the `key == ""` checks).          *)
THEOREM NoEmptyKeys == Spec => []TypeOK
<1>1. IInv => TypeOK
  BY DEF IInv
<1> QED BY InvariantHolds, <1>1, PTL

(* The keys a session is about to copy or delete are always in the tree of *)
(* the command that it runs (the listings of copyPrefix and DeletePrefix). *)
THEOREM WorkIsInTree == Spec => []WorkFitsCommand
<1>1. IInv => WorkFitsCommand
  BY DEF IInv
<1> QED BY InvariantHolds, <1>1, PTL

(* No session ever changes an object outside the prefixes, the backends    *)
(* and the permissions it was granted, whatever other sessions do and      *)
(* whichever calls fail (resolve, the require checks, and the listings     *)
(* that later calls act on).                                               *)
THEOREM Confinement == Spec => ConfinedToGrant
<1> DEFINE Step ==
      \A c \in Buckets :
        /\ \A k \in DOMAIN store[c] \ DOMAIN store'[c] :
             \E s \in Sessions : MayRemove(s, c, k)
        /\ \A k \in DOMAIN store'[c] :
             (k \in DOMAIN store[c] => store'[c][k] # store[c][k])
               => \E s \in Sessions : MayWrite(s, c, k)
<1>1. ASSUME IInv, [Next]_vars PROVE [Step]_vars
  <2>1. CASE UNCHANGED vars
    BY <2>1
  <2>2. ASSUME NEW s \in Sessions, Start(s) \/ Call(s) \/ Fail(s) PROVE Step
    <3>1. Inside(s)
      BY <1>1, <2>2, StepKeeps
    <3> QED BY <3>1 DEF Inside
  <2> QED BY <1>1, <2>1, <2>2 DEF Next, Quiescent
<1>2. Init => IInv
  BY InitKeeps
<1>3. IInv /\ [Next]_vars => IInv'
  BY NextKeeps
<1> QED BY <1>1, <1>2, <1>3, PTL DEF Spec, ConfinedToGrant

-----------------------------------------------------------------------------
(* Contents and names.  Two things can give a content a name that ends in  *)
(* a slash: an object that was there at first, and a file that is renamed  *)
(* or copied to the root of a backend, whose key is the backend's prefix   *)
(* (ObjectKey).  Where neither is, nothing else does.                      *)
HasName(k) == k[Len(k)] # EmptySegment

NothingGoesToARoot ==
  \A s \in Sessions : \A r \in Requests[s] :
    r.method \in {"Rename", "Copy"} => r.to.rel # <<>>

NamedAtFirst ==
  \A st \in InitialStores : \A c \in Buckets : \A k \in DOMAIN st[c] :
    st[c][k] # Empty => HasName(k)

(* A command is one that was sent. *)
CommandWasSent(s) == req[s] = NoRequest \/ req[s] \in Requests[s]

(* What is about to be stored has, or gets, a name. *)
BodyHasName(s) ==
  /\ pc[s] = "put" /\ req[s].method = "Mkdir" => body[s] = Empty
  /\ pc[s] = "upload" /\ ~ isFile[s] /\ body[s] # Empty =>
       \A k \in todo[s] : IsNext(k, s) => HasName(k)

NamesInv == ContentsHaveNames /\ \A s \in Sessions : CommandWasSent(s) /\ BodyHasName(s)

LEMMA NonEmptyEndsInName ==
  ASSUME NEW prefix \in Seq(Segment), NEW rel \in Seq(Name), rel # <<>>
  PROVE  HasName(ObjectKey(prefix, rel))
<1>1. rel \in Seq(Segment) /\ Len(rel) \in Nat /\ Len(rel) > 0 /\ Len(prefix) \in Nat
  BY DEF Name, Segment
<1>2. /\ ObjectKey(prefix, rel) = prefix \o rel
      /\ Len(prefix \o rel) = Len(prefix) + Len(rel)
  BY <1>1, ConcatStartsWith DEF ObjectKey
<1>3. (prefix \o rel)[Len(prefix) + Len(rel)] = rel[Len(rel)]
  BY <1>1
<1>4. rel[Len(rel)] \in Name
  BY <1>1
<1> QED
  BY <1>2, <1>3, <1>4 DEF HasName, Name

LEMMA RebaseKeepsName ==
  ASSUME NEW k \in Key, NEW from \in Dir, NEW to \in Dir, InDir(k, from), HasName(k)
  PROVE  HasName(Rebase(k, from, to))
<1>1. /\ k \in Seq(Nat) /\ from \in Seq(Nat) /\ to \in Seq(Nat)
      /\ Len(k) \in Nat /\ Len(from) \in Nat /\ Len(to) \in Nat /\ Len(k) > Len(from)
  BY DEF Key, Dir, Segment, InDir
<1> DEFINE t == SubSeq(k, Len(from) + 1, Len(k))
<1>2. t \in Seq(Nat) /\ Len(t) = Len(k) - Len(from) /\ t[Len(k) - Len(from)] = k[Len(k)]
  <2>1. /\ Len(from) + 1 \in 1 .. Len(k) + 1 /\ Len(k) \in Len(from) .. Len(k)
        /\ Len(k) - (Len(from) + 1) + 1 = Len(k) - Len(from)
        /\ Len(k) - Len(from) \in 1 .. Len(k) - Len(from)
        /\ (Len(k) - Len(from)) + (Len(from) + 1) - 1 = Len(k)
    BY <1>1
  <2>2. \A i \in 1 .. Len(k) - (Len(from) + 1) + 1 : t[i] = k[i + (Len(from) + 1) - 1]
    BY <1>1
  <2>3. t \in Seq(Nat) /\ Len(t) = Len(k) - Len(from)
    BY <1>1
  <2> HIDE DEF t
  <2> QED
    BY <2>1, <2>2, <2>3
<1>3. Len(to \o t) = Len(to) + Len(t) /\ (to \o t)[Len(to) + Len(t)] = t[Len(t)]
  <2> HIDE DEF t
  <2>1. Len(t) \in Nat /\ Len(t) >= 1 /\ t \in Seq(Nat) /\ to \in Seq(Nat)
    BY <1>1, <1>2
  <2> QED
    BY <2>1
<1>4. Rebase(k, from, to) = to \o t
  BY DEF Rebase
<1> HIDE DEF t
<1> QED
  BY <1>1, <1>2, <1>3, <1>4 DEF HasName

LEMMA RunningWasSent ==
  ASSUME IInv, NamesInv, NEW s \in Sessions, pc[s] # "idle"
  PROVE  req[s] \in Requests[s]
<1>1. req[s].method # "None"
  BY DEF IInv, WorkFitsCommand, Fits, Accepted
<1>2. NoRequest.method = "None"
  BY DEF NoRequest
<1> QED
  BY <1>1, <1>2 DEF NamesInv, CommandWasSent

(* A file gets the name of the target, anything else keeps its own. *)
LEMMA TargetHasName ==
  ASSUME IInv, NamesInv, NothingGoesToARoot, NEW s \in Sessions,
         pc[s] \in {"copy", "upload"}, NEW k \in todo[s], isFile[s] \/ HasName(k)
  PROVE  HasName(Target(s, k))
<1>1. Fits(s) /\ TypeOK
  BY DEF IInv, WorkFitsCommand
<1>2. /\ Accepted(s, req[s]) /\ req[s].method \in {"Rename", "Copy"}
      /\ isFile[s] \/ InDir(k, SrcDir(s))
  BY <1>1 DEF Fits
<1>3. CASE isFile[s]
  <2>1. req[s].to.rel # <<>>
    BY <1>2, RunningWasSent DEF NothingGoesToARoot
  <2>2. req[s].to.rel \in Seq(Name)
    BY <1>1 DEF TypeOK, Request, Path
  <2>3. DstPrefix(s) \in Seq(Segment)
    BY <1>1, <1>2, TargetTyped
  <2> QED
    BY <1>3, <2>1, <2>2, <2>3, NonEmptyEndsInName DEF Target, DstKey
<1>4. CASE ~ isFile[s]
  <2>1. k \in Key
    BY <1>1 DEF TypeOK
  <2> QED
    BY <1>1, <1>2, <1>4, <2>1, SourceTyped, TargetTyped, RebaseKeepsName DEF Target
<1> QED
  BY <1>3, <1>4

(* The next object of a page is one. *)
LEMMA NextIsOne ==
  ASSUME TypeOK, NEW s \in Sessions, NEW j, NEW k, IsNext(j, s), IsNext(k, s)
  PROVE  j = k
BY KeyLessTotal DEF IsNext, TypeOK

LEMMA PutKeepsNames ==
  ASSUME IsStore(store), ContentsHaveNames, NEW c \in Buckets, NEW k, NEW x,
         store' = [store EXCEPT ![c] = PutObject(store[c], k, x)], x = Empty \/ HasName(k)
  PROVE  ContentsHaveNames'
<1>1. store'[c] = PutObject(store[c], k, x) /\ \A b \in Buckets : b # c => store'[b] = store[b]
  BY DEF IsStore
<1>2. /\ DOMAIN store'[c] = DOMAIN store[c] \cup {k}
      /\ store'[c][k] = x
      /\ \A j \in DOMAIN store[c] : j # k => store'[c][j] = store[c][j]
  BY <1>1 DEF PutObject
<1> QED
  BY <1>1, <1>2 DEF ContentsHaveNames, HasName

LEMMA DeleteKeepsNames ==
  ASSUME IsStore(store), ContentsHaveNames, NEW c \in Buckets, NEW keys,
         store' = [store EXCEPT ![c] = DeleteKeys(store[c], keys)]
  PROVE  ContentsHaveNames'
<1>1. \A b \in Buckets : \A j \in DOMAIN store'[b] : j \in DOMAIN store[b] /\ store'[b][j] = store[b][j]
  BY DeleteKeepsStore
<1> QED
  BY <1>1 DEF ContentsHaveNames
-----------------------------------------------------------------------------
LEMMA InitNames == Init /\ NamedAtFirst => NamesInv
<1> SUFFICES ASSUME Init, NamedAtFirst PROVE NamesInv
  OBVIOUS
<1>1. ContentsHaveNames
  BY DEF Init, NamedAtFirst, ContentsHaveNames, HasName
<1>2. \A s \in Sessions : CommandWasSent(s) /\ BodyHasName(s)
  BY DEF Init, CommandWasSent, BodyHasName
<1> QED
  BY <1>1, <1>2 DEF NamesInv

(* The bucket after a step. *)
LEMMA StoreKeepsNames ==
  ASSUME IInv, NamesInv, NothingGoesToARoot, NEW s \in Sessions, Start(s) \/ Call(s) \/ Fail(s)
  PROVE  ContentsHaveNames'
<1>0. TypeOK /\ IsStore(store) /\ ContentsHaveNames
  BY DEF IInv, TypeOK, NamesInv
<1>1. ASSUME UNCHANGED store PROVE ContentsHaveNames'
  BY <1>0, <1>1 DEF ContentsHaveNames
<1>2. CASE CopyWithinBackend(s)
  <2>1. /\ Fits(s) /\ Accepted(s, req[s]) /\ pc[s] = "copy"
        /\ req[s].method \in {"Rename", "Copy"}
    BY <1>2 DEF CopyWithinBackend, IInv, WorkFitsCommand, Fits
  <2>2. SrcBucket(s) \in Buckets
    BY <1>0, <2>1, SourceTyped
  <2>3. ASSUME NEW k \in todo[s], k \in DOMAIN store[SrcBucket(s)],
               store' = [store EXCEPT ![SrcBucket(s)] =
                           PutObject(store[SrcBucket(s)], Target(s, k), store[SrcBucket(s)][k])]
        PROVE  ContentsHaveNames'
    <3>1. store[SrcBucket(s)][k] = Empty \/ HasName(k)
      BY <1>0, <2>2, <2>3 DEF ContentsHaveNames, HasName
    <3>2. store[SrcBucket(s)][k] = Empty \/ HasName(Target(s, k))
      BY <2>1, <3>1, TargetHasName
    <3> QED
      BY <1>0, <2>2, <2>3, <3>2, PutKeepsNames
  <2> QED
    BY <1>1, <1>2, <2>3 DEF CopyWithinBackend
<1>3. CASE StreamPut(s)
  <2>1. /\ Fits(s) /\ Accepted(s, req[s]) /\ pc[s] = "upload"
        /\ req[s].method \in {"Rename", "Copy"}
    BY <1>3 DEF StreamPut, IInv, WorkFitsCommand, Fits
  <2>2. DstBucket(s) \in Buckets
    BY <1>0, <2>1, TargetTyped
  <2>3. PICK k \in todo[s] :
          /\ IsNext(k, s)
          /\ store' = [store EXCEPT ![DstBucket(s)] =
                         PutObject(store[DstBucket(s)], Target(s, k), body[s])]
    BY <1>3 DEF StreamPut
  <2>4. body[s] = Empty \/ isFile[s] \/ HasName(k)
    BY <2>1, <2>3 DEF NamesInv, BodyHasName
  <2>5. body[s] = Empty \/ HasName(Target(s, k))
    BY <2>1, <2>4, TargetHasName
  <2> QED
    BY <1>0, <2>2, <2>3, <2>5, PutKeepsNames
<1>4. CASE DeleteSource(s)
  <2>1. SrcBucket(s) \in Buckets
    BY <1>0, <1>4, SourceTyped DEF DeleteSource, IInv, WorkFitsCommand, Fits
  <2> QED
    BY <1>0, <1>4, <2>1, DeleteKeepsNames DEF DeleteSource
<1>5. CASE DeleteBatch(s)
  <2>1. SrcBucket(s) \in Buckets
    BY <1>0, <1>5, SourceTyped DEF DeleteBatch, IInv, WorkFitsCommand, Fits
  <2>2. PICK keys : store' = [store EXCEPT ![SrcBucket(s)] = DeleteKeys(store[SrcBucket(s)], keys)]
    BY <1>5 DEF DeleteBatch
  <2> QED
    BY <1>0, <2>1, <2>2, DeleteKeepsNames
<1>6. CASE Put(s)
  <2>1. /\ Accepted(s, req[s]) /\ pc[s] = "put" /\ req[s].method \in {"Put", "Mkdir"}
    BY <1>6 DEF Put, IInv, WorkFitsCommand, Fits
  <2>2. SrcBucket(s) \in Buckets /\ SrcPrefix(s) \in Seq(Segment) /\ req[s].from.rel \in Seq(Name)
    BY <1>0, <2>1, SourceTyped
  <2>3. body[s] = Empty \/ HasName(PutKey(s))
    <3>1. CASE req[s].method = "Mkdir"
      BY <2>1, <3>1 DEF NamesInv, BodyHasName
    <3>2. CASE req[s].method = "Put"
      <4>1. req[s].from.rel # <<>>
        BY <2>1, <3>2, PermissionsHeld
      <4> QED
        BY <2>2, <3>2, <4>1, NonEmptyEndsInName DEF PutKey, SrcKey
    <3> QED
      BY <2>1, <3>1, <3>2
  <2> QED
    BY <1>0, <1>6, <2>2, <2>3, PutKeepsNames DEF Put
<1> QED
  BY <1>1, <1>2, <1>3, <1>4, <1>5, <1>6
     DEF Call, Start, Fail, HeadSource, ProbeChildren, HeadPlaceholder, ListPage, StreamGet,
         Recheck, DeleteList, RefuseKey

(* What the session that steps is about to store. *)
LEMMA BodyKeepsName ==
  ASSUME IInv, NamesInv, NEW s \in Sessions, Start(s) \/ Call(s) \/ Fail(s)
  PROVE  CommandWasSent(s)' /\ BodyHasName(s)'
<1>0. TypeOK /\ ContentsHaveNames /\ BodyHasName(s) /\ CommandWasSent(s) /\ (pc[s] # "idle" => Fits(s))
  BY DEF IInv, NamesInv, WorkFitsCommand
<1>1. CASE Start(s)
  <2>1. PICK r \in Requests[s] :
          /\ req' = [req EXCEPT ![s] = r]
          /\ body' = [body EXCEPT ![s] = IF r.method = "Put" THEN r.content ELSE Empty]
    BY <1>1 DEF Start
  <2>2. req'[s] = r /\ (r.method = "Mkdir" => body'[s] = Empty)
    BY <1>0, <2>1 DEF TypeOK
  <2>3. pc'[s] \in {"idle", "put", "exists"}
    BY <1>0, <1>1 DEF Start, TypeOK, Reply
  <2> QED
    BY <2>2, <2>3 DEF CommandWasSent, BodyHasName
<1>2. ASSUME UNCHANGED req, pc'[s] \notin {"put", "upload"}
      PROVE  CommandWasSent(s)' /\ BodyHasName(s)'
  BY <1>0, <1>2 DEF CommandWasSent, BodyHasName
<1>3. ASSUME UNCHANGED <<req, body, isFile, todo>>, pc'[s] = pc[s]
      PROVE  CommandWasSent(s)' /\ BodyHasName(s)'
  BY <1>0, <1>3 DEF CommandWasSent, BodyHasName, IsNext
<1>4. ASSUME LoseReply(s), UNCHANGED <<req, body, isFile>>
      PROVE  CommandWasSent(s)' /\ BodyHasName(s)'
  <2>1. UNCHANGED todo /\ (pc'[s] = "idle" \/ pc'[s] = pc[s])
    BY <1>0, <1>4, LoseReplyKeeps
  <2> QED
    BY <1>2, <1>3, <1>4, <2>1
<1>5. CASE Fail(s) \/ RefuseKey(s)
  BY <1>0, <1>2, <1>5 DEF Fail, RefuseKey, Reply, TypeOK
<1>6. CASE HeadSource(s) \/ ProbeChildren(s) \/ HeadPlaceholder(s) \/ ListPage(s) \/ Recheck(s) \/ DeleteList(s)
  <2>1. UNCHANGED req /\ ((\E a \in {"ok", "error"} : Reply(s, a)) \/ \E c \in Calls \ {"put", "upload"} : Goto(s, c))
    BY <1>6 DEF HeadSource, ProbeChildren, HeadPlaceholder, ListPage, Recheck, DeleteList
  <2>2. pc'[s] \notin {"put", "upload"}
    BY <1>0, <2>1 DEF Reply, Goto, TypeOK
  <2> QED
    BY <1>2, <2>1, <2>2
<1>7. CASE CopyWithinBackend(s) \/ StreamPut(s)
  <2>1. UNCHANGED <<req, body, isFile>>
    BY <1>7 DEF CopyWithinBackend, StreamPut
  <2>2. \/ LoseReply(s)
        \/ Reply(s, "error")
        \/ \E k \in todo[s] : AfterCopy(s, todo[s] \ {k})
    BY <1>7 DEF WhenCopyFails, CopyWithinBackend, StreamPut
  <2>3. ASSUME NEW rest, AfterCopy(s, rest) PROVE pc'[s] \notin {"put", "upload"}
    BY <1>0, <2>3, AfterCopyGoes
  <2>4. Reply(s, "error") => pc'[s] \notin {"put", "upload"}
    BY <1>0 DEF Reply, TypeOK
  <2> QED
    BY <1>2, <1>4, <2>1, <2>2, <2>3, <2>4
<1>8. CASE StreamGet(s)
  <2>1. PICK k \in todo[s] :
          /\ IsNext(k, s)
          /\ IF k \in DOMAIN store[SrcBucket(s)]
             THEN body' = [body EXCEPT ![s] = store[SrcBucket(s)][k]] /\ Goto(s, "upload")
             ELSE UNCHANGED body /\ Reply(s, "error")
    BY <1>8 DEF WhenCopyFails, StreamGet
  <2>2. UNCHANGED <<req, isFile, todo>>
    BY <1>8 DEF StreamGet, walk
  <2>3. CASE k \notin DOMAIN store[SrcBucket(s)]
    BY <1>0, <1>2, <2>1, <2>2, <2>3 DEF Reply, TypeOK
  <2>4. CASE k \in DOMAIN store[SrcBucket(s)]
    <3>1. pc'[s] = "upload" /\ body'[s] = store[SrcBucket(s)][k]
      BY <1>0, <2>1, <2>4 DEF Goto, TypeOK
    <3>2. SrcBucket(s) \in Buckets
      BY <1>0, <1>8, SourceTyped DEF StreamGet, Fits
    <3>3. body'[s] # Empty => HasName(k)
      BY <1>0, <2>4, <3>1, <3>2 DEF ContentsHaveNames, HasName
    <3>4. \A j \in todo[s] : IsNext(j, s) => j = k
      BY <1>0, <2>1, NextIsOne
    <3> QED
      BY <1>0, <2>2, <3>1, <3>3, <3>4 DEF CommandWasSent, BodyHasName, IsNext
  <2> QED
    BY <2>3, <2>4
<1>9. CASE DeleteSource(s) \/ DeleteBatch(s) \/ Put(s)
  <2>1. UNCHANGED <<req, body, isFile>>
    BY <1>9 DEF DeleteSource, DeleteBatch, Put
  <2>2. LoseReply(s) \/ Reply(s, "ok") \/ Goto(s, "deleteList") \/ Goto(s, "deleteBatch")
    BY <1>9 DEF DeleteSource, DeleteBatch, Put
  <2>3. LoseReply(s) \/ pc'[s] \notin {"put", "upload"}
    BY <1>0, <2>2 DEF Reply, Goto, TypeOK
  <2> QED
    BY <1>2, <1>4, <2>1, <2>3
<1> QED
  BY <1>1, <1>5, <1>6, <1>7, <1>8, <1>9 DEF Call

LEMMA NamesStep == IInv /\ NamesInv /\ NothingGoesToARoot /\ [Next]_vars => NamesInv'
<1> SUFFICES ASSUME IInv, NamesInv, NothingGoesToARoot, [Next]_vars PROVE NamesInv'
  OBVIOUS
<1>1. CASE UNCHANGED vars
  BY <1>1 DEF NamesInv, ContentsHaveNames, CommandWasSent, BodyHasName, IsNext, vars
<1>2. ASSUME NEW s \in Sessions, Start(s) \/ Call(s) \/ Fail(s) PROVE NamesInv'
  <2>1. ContentsHaveNames'
    BY <1>2, StoreKeepsNames
  <2>2. ASSUME NEW t \in Sessions PROVE CommandWasSent(t)' /\ BodyHasName(t)'
    <3>1. CASE t = s
      BY <1>2, <3>1, BodyKeepsName
    <3>2. CASE t # s
      <4>1. /\ pc'[t] = pc[t] /\ req'[t] = req[t] /\ isFile'[t] = isFile[t]
            /\ todo'[t] = todo[t] /\ body'[t] = body[t]
        BY <1>2, <3>2, OthersUnchanged DEF IInv
      <4> QED
        BY <4>1 DEF NamesInv, CommandWasSent, BodyHasName, IsNext
    <3> QED
      BY <3>1, <3>2
  <2> QED
    BY <2>1, <2>2 DEF NamesInv
<1> QED
  BY <1>1, <1>2 DEF Next, Quiescent

(* Where the objects had names at first and no command renames or copies   *)
(* to the root of a backend, no content ever gets a key that ends in a     *)
(* slash, which no path names: placeholders are empty (Filecmd "Mkdir"),   *)
(* files have a name (Filewrite refuses a root), and what is below a       *)
(* directory keeps its name when it is moved (copyPrefix).                 *)
THEOREM NamesArePreserved ==
  ASSUME NothingGoesToARoot, NamedAtFirst
  PROVE  Spec => []ContentsHaveNames
<1>1. Init => IInv /\ NamesInv
  BY InitKeeps, InitNames
<1>2. IInv /\ NamesInv /\ [Next]_vars => IInv' /\ NamesInv'
  BY NextKeeps, NamesStep
<1>3. NamesInv => ContentsHaveNames
  BY DEF NamesInv
<1> QED
  BY <1>1, <1>2, <1>3, PTL DEF Spec

-----------------------------------------------------------------------------
(* One session, alone on its trees.  Two sessions can undo what the other  *)
(* is answered, one that removes a directory and one that writes into it.  *)
Alone == \A s \in Sessions, t \in Sessions : s = t

(* The keys of the source directory that are there. *)
Below(s) == {k \in DOMAIN store[SrcBucket(s)] : InDir(k, SrcDir(s))}

SourceKeyGone(s) == SrcKey(s) \notin DOMAIN store[SrcBucket(s)]

(* What a Remove knows at each of its calls. *)
RemoveHolds(s) ==
  req[s].method = "Remove" =>
    /\ pc[s] \in {"exists", "children", "deleteObject"} => cursor[s] = <<>>
    /\ pc[s] = "children" /\ ~ isFile[s] => SourceKeyGone(s)
    /\ pc[s] = "deleteObject" /\ ~ children[s] => Below(s) = {}
    /\ pc[s] \in {"deleteList", "deleteBatch"} => SourceKeyGone(s)
    /\ pc[s] = "deleteList" => \A k \in Below(s) : k \in todo[s] \/ KeyLess(cursor[s], k)
    /\ pc[s] = "deleteBatch" => Below(s) \subseteq todo[s]
    /\ pc[s] = "idle" /\ answer[s] = "ok" =>
         \A k \in DOMAIN store[SrcBucket(s)] : ~ Covers(s, req[s].from, SrcBucket(s), k)

(* A running command has no answer. *)
Unanswered(s) == pc[s] # "idle" => answer[s] = "none"

RemoveInv == \A s \in Sessions : Unanswered(s) /\ RemoveHolds(s)

LEMMA AfterTheStart ==
  ASSUME NEW k \in Key, NEW dir \in Dir, InDir(k, dir)
  PROVE  KeyLess(<<>>, k)
<1>1. Len(k) > 0 /\ Len(k) \in Nat
  BY DEF InDir, Dir, Key
<1>2. SubSeq(k, 1, 0) = <<>>
  OBVIOUS
<1> QED
  BY <1>1, <1>2 DEF KeyLess

(* A key that a path covers is the key of the path, or is below it. *)
LEMMA CoveredKeys ==
  ASSUME TypeOK, NEW s \in Sessions, Accepted(s, req[s]), req[s].from.rel # <<>>,
         NEW k \in Key, Covers(s, req[s].from, SrcBucket(s), k)
  PROVE  k = SrcKey(s) \/ InDir(k, SrcDir(s))
<1>1. SrcKey(s) = SrcDir(s) /\ AtOrIn(k, SrcDir(s)) /\ SrcDir(s) \in Dir
  BY SourceTyped DEF Covers, SrcKey, SrcDir, SrcPrefix, ObjectKey, DirPrefix
<1>2. k \in Seq(Nat) /\ SrcDir(s) \in Seq(Nat) /\ Len(k) \in Nat /\ Len(SrcDir(s)) \in Nat
  BY <1>1 DEF Key, Dir, Segment
<1>3. CASE Len(k) > Len(SrcDir(s))
  BY <1>1, <1>3 DEF AtOrIn, InDir
<1>4. CASE Len(k) = Len(SrcDir(s))
  <2>1. SubSeq(k, 1, Len(k)) = k
    BY <1>2
  <2> QED
    BY <1>1, <1>4, <2>1 DEF AtOrIn
<1> QED
  BY <1>1, <1>2, <1>3, <1>4 DEF AtOrIn

(* The source of a Remove, once nothing is there. *)
LEMMA NothingIsCovered ==
  ASSUME IInv, NEW s \in Sessions, pc[s] # "idle", req[s].method = "Remove",
         UNCHANGED req, NEW objects, objects \subseteq Key,
         SrcKey(s) \notin objects, \A k \in objects : ~ InDir(k, SrcDir(s)),
         NEW k \in objects
  PROVE  ~ Covers(s, req[s].from, SrcBucket(s), k)
<1>1. TypeOK /\ Accepted(s, req[s])
  BY DEF IInv, WorkFitsCommand, Fits
<1>2. req[s].from.rel # <<>>
  BY <1>1, PermissionsHeld
<1>3. k \in Key
  OBVIOUS
<1> QED
  BY <1>1, <1>2, <1>3, CoveredKeys

LEMMA InitRemoves == Init => RemoveInv
<1> SUFFICES ASSUME Init, NEW s \in Sessions PROVE Unanswered(s) /\ RemoveHolds(s)
  BY DEF RemoveInv
<1>1. req[s].method = "None" /\ pc[s] = "idle"
  BY DEF Init, NoRequest
<1> QED
  BY <1>1 DEF Unanswered, RemoveHolds

LEMMA AnswersComeLast ==
  ASSUME TypeOK, NEW s \in Sessions, Unanswered(s), Start(s) \/ Call(s) \/ Fail(s)
  PROVE  Unanswered(s)'
<1>1. CASE Start(s)
  BY <1>1 DEF Start, Reply, TypeOK, Unanswered
<1>2. ASSUME pc[s] # "idle",
             \/ \E a \in {"ok", "error"} : Reply(s, a)
             \/ \E c \in Calls : Goto(s, c)
             \/ UNCHANGED <<pc, answer>>
      PROVE  Unanswered(s)'
  BY <1>2 DEF Reply, Goto, TypeOK, Unanswered
<1>3. ASSUME NEW rest, AfterCopy(s, rest)
      PROVE  (\E a \in {"ok", "error"} : Reply(s, a)) \/ \E c \in Calls : Goto(s, c)
  BY <1>3 DEF AfterCopy
<1>4. CASE CopyWithinBackend(s) \/ StreamPut(s)
  <2>1. LoseReply(s) \/ Reply(s, "error") \/ \E rest \in SUBSET todo[s] : AfterCopy(s, rest)
    BY <1>4 DEF WhenCopyFails, CopyWithinBackend, StreamPut
  <2> QED
    BY <1>2, <1>3, <1>4, <2>1 DEF CopyWithinBackend, StreamPut, LoseReply
<1>5. CASE HeadSource(s) \/ ProbeChildren(s) \/ HeadPlaceholder(s) \/ ListPage(s)
  BY <1>2, <1>5 DEF HeadSource, ProbeChildren, HeadPlaceholder, ListPage
<1>6. CASE StreamGet(s) \/ Recheck(s) \/ DeleteList(s) \/ Fail(s)
  BY <1>2, <1>6 DEF WhenCopyFails, StreamGet, Recheck, DeleteList, Fail
<1>7. CASE DeleteSource(s) \/ DeleteBatch(s) \/ Put(s)
  BY <1>2, <1>7 DEF DeleteSource, DeleteBatch, Put, LoseReply
<1>8. CASE RefuseKey(s)
  BY <1>2, <1>8 DEF RefuseKey, KeyIsEmpty
<1> QED
  BY <1>1, <1>4, <1>5, <1>6, <1>7, <1>8 DEF Call

(* A step of a Remove, or of another command of the session. *)
LEMMA RemoveStep ==
  ASSUME IInv, NEW s \in Sessions, RemoveHolds(s), PerKeyErrors = FALSE,
         Start(s) \/ Call(s) \/ Fail(s)
  PROVE  RemoveHolds(s)'
<1>0. TypeOK /\ IsStore(store) /\ (pc[s] # "idle" => Fits(s) /\ Accepted(s, req[s]))
  BY DEF IInv, TypeOK, WorkFitsCommand, Fits
<1>1. CASE Start(s)
  <2>1. PICK r \in Requests[s] :
          /\ req' = [req EXCEPT ![s] = r]
          /\ IF ~ Accepted(s, r) THEN Reply(s, "error")
             ELSE IF NothingToDo(r) THEN Reply(s, "ok")
             ELSE /\ pc' = [pc EXCEPT ![s] =
                             IF r.method \in {"Put", "Mkdir"} THEN "put" ELSE "exists"]
                  /\ answer' = [answer EXCEPT ![s] = "none"]
    BY <1>1 DEF Start
  <2>2. req'[s] = r /\ cursor'[s] = <<>>
    BY <1>0, <1>1, <2>1 DEF TypeOK, Start
  <2>3. r.method = "Remove" => pc'[s] = "exists" \/ (pc'[s] = "idle" /\ answer'[s] = "error")
    BY <1>0, <2>1 DEF TypeOK, Reply, NothingToDo
  <2> QED
    BY <2>2, <2>3 DEF RemoveHolds
<1> SUFFICES ASSUME ~ Start(s), req[s].method = "Remove", UNCHANGED req PROVE RemoveHolds(s)'
  <2>1. UNCHANGED req \/ Start(s)
    BY DEF Call, Fail, HeadSource, ProbeChildren, HeadPlaceholder, ListPage, CopyWithinBackend,
           StreamGet, StreamPut, Recheck, DeleteSource, DeleteList, DeleteBatch, Put, RefuseKey
  <2>2. req'[s].method # "Remove" => RemoveHolds(s)'
    BY DEF RemoveHolds
  <2> QED
    BY <1>1, <2>1, <2>2
<1>2. /\ SrcDir(s)' = SrcDir(s) /\ SrcKey(s)' = SrcKey(s) /\ SrcBucket(s)' = SrcBucket(s)
      /\ req'[s] = req[s]
  BY DEF SrcDir, SrcKey, SrcBucket, SrcPrefix
<1>3. pc[s] # "idle" /\ Fits(s) /\ Accepted(s, req[s])
  BY <1>0 DEF Call, Fail, HeadSource, ProbeChildren, HeadPlaceholder, ListPage, CopyWithinBackend,
              StreamGet, StreamPut, Recheck, DeleteSource, DeleteList, DeleteBatch, Put, RefuseKey,
              KeyIsEmpty
<1>4. /\ SrcBucket(s) \in Buckets /\ SrcKey(s) \in Key /\ SrcDir(s) \in Dir
      /\ DOMAIN store[SrcBucket(s)] \subseteq Key /\ IsFiniteSet(DOMAIN store[SrcBucket(s)])
  BY <1>0, <1>3, SourceTyped DEF IsStore
<1>5. pc[s] \in {"exists", "children", "deleteObject", "deleteList", "deleteBatch"}
  BY <1>0, <1>3 DEF Fits, TypeOK
<1>6. ASSUME pc'[s] = "idle", answer'[s] = "error" PROVE RemoveHolds(s)'
  BY <1>6 DEF RemoveHolds
<1>7. Reply(s, "error") => RemoveHolds(s)'
  BY <1>0, <1>6 DEF Reply, TypeOK
<1>8. CASE Fail(s) \/ RefuseKey(s)
  BY <1>7, <1>8 DEF Fail, RefuseKey
<1>9. CASE HeadSource(s)
  <2>1. /\ isFile'[s] = (SrcKey(s) \in DOMAIN store[SrcBucket(s)])
        /\ UNCHANGED <<store, cursor>> /\ pc'[s] = "children" /\ pc[s] = "exists"
    BY <1>0, <1>9 DEF HeadSource, TypeOK, Goto
  <2> QED
    BY <1>2, <2>1 DEF RemoveHolds, SourceKeyGone
<1>10. CASE ProbeChildren(s)
  <2>1. /\ pc[s] = "children" /\ UNCHANGED <<store, isFile, todo, cursor>>
        /\ children'[s] = (Below(s) # {})
        /\ \/ isFile[s] /\ pc'[s] = "deleteObject"
           \/ ~ isFile[s] /\ pc'[s] = "deleteList"
           \/ Reply(s, "error")
    BY <1>0, <1>10 DEF ProbeChildren, TypeOK, Goto, walk, HasEntries, Below
  <2>2. cursor[s] = <<>> /\ (~ isFile[s] => SourceKeyGone(s))
    BY <2>1 DEF RemoveHolds
  <2>3. \A k \in Below(s) : KeyLess(<<>>, k)
    BY <1>4, AfterTheStart DEF Below
  <2>4. Below(s)' = Below(s) /\ SourceKeyGone(s)' = SourceKeyGone(s)
    BY <1>2, <2>1 DEF Below, SourceKeyGone
  <2>5. CASE isFile[s] /\ pc'[s] = "deleteObject"
    BY <2>1, <2>2, <2>4, <2>5 DEF RemoveHolds
  <2>6. CASE ~ isFile[s] /\ pc'[s] = "deleteList"
    BY <2>1, <2>2, <2>3, <2>4, <2>6 DEF RemoveHolds
  <2> QED
    BY <1>7, <2>1, <2>5, <2>6
<1>11. CASE DeleteSource(s)
  <2>1. /\ pc[s] = "deleteObject" /\ UNCHANGED <<children, isFile>>
        /\ store' = [store EXCEPT ![SrcBucket(s)] = DeleteKeys(store[SrcBucket(s)], {SrcKey(s)})]
    BY <1>11 DEF DeleteSource
  <2>2. DOMAIN store'[SrcBucket(s)] = DOMAIN store[SrcBucket(s)] \ {SrcKey(s)}
    BY <1>0, <1>4, <2>1 DEF IsStore, DeleteKeys
  <2>3. SourceKeyGone(s)' /\ Below(s)' \subseteq Below(s)
    BY <1>2, <2>2 DEF SourceKeyGone, Below
  <2>4. cursor[s] = <<>> /\ (~ children[s] => Below(s) = {})
    BY <2>1 DEF RemoveHolds
  <2>5. CASE LoseReply(s)
    <3>1. UNCHANGED cursor /\ (Reply(s, "error") \/ UNCHANGED <<pc, answer>>)
      BY <2>5 DEF LoseReply, walk
    <3>2. CASE UNCHANGED <<pc, answer>>
      BY <2>1, <2>3, <2>4, <3>1, <3>2 DEF RemoveHolds
    <3> QED
      BY <1>7, <3>1, <3>2
  <2>6. CASE children[s] /\ Goto(s, "deleteList") /\ UNCHANGED walk
    <3>1. pc'[s] = "deleteList" /\ cursor'[s] = <<>>
      BY <1>0, <2>4, <2>6 DEF Goto, TypeOK, walk
    <3>2. \A k \in Below(s)' : KeyLess(<<>>, k)
      BY <1>4, <2>3, AfterTheStart DEF Below
    <3> QED
      BY <2>3, <3>1, <3>2 DEF RemoveHolds
  <2>7. CASE ~ children[s] /\ Reply(s, "ok")
    <3>1. pc'[s] = "idle" /\ Below(s)' = {}
      BY <1>0, <2>3, <2>4, <2>7 DEF Reply, TypeOK
    <3> DEFINE objects == DOMAIN store'[SrcBucket(s)]
    <3>2. /\ objects \subseteq Key /\ SrcKey(s) \notin objects
          /\ \A k \in objects : ~ InDir(k, SrcDir(s))
      BY <1>2, <1>4, <2>2, <3>1 DEF Below
    <3> HIDE DEF objects
    <3>3. \A k \in objects : ~ Covers(s, req[s].from, SrcBucket(s), k)
      BY <1>3, <3>2, NothingIsCovered
    <3> QED
      BY <1>2, <3>1, <3>3 DEF RemoveHolds, objects, Covers
  <2> QED
    BY <1>11, <2>5, <2>6, <2>7 DEF DeleteSource
<1>12. CASE DeleteList(s)
  <2> DEFINE rest == Remaining(store[SrcBucket(s)], SrcDir(s), cursor[s])
             page == FirstKeys(rest, PageSize)
             keys == todo[s] \cup page
  <2>1. /\ pc[s] = "deleteList" /\ UNCHANGED <<store, isFile, children>>
        /\ todo' = [todo EXCEPT ![s] = keys]
        /\ \/ page = {} /\ UNCHANGED cursor
           \/ \E last \in page : IsLast(last, page) /\ cursor' = [cursor EXCEPT ![s] = last]
        /\ IF page # rest THEN Goto(s, "deleteList")
           ELSE IF keys # {} THEN Goto(s, "deleteBatch")
           ELSE Reply(s, "ok")
    BY <1>12 DEF DeleteList
  <2>2. SourceKeyGone(s) /\ \A k \in Below(s) : k \in todo[s] \/ KeyLess(cursor[s], k)
    BY <2>1 DEF RemoveHolds
  <2>3. rest \subseteq Key /\ IsFiniteSet(rest) /\ PageSize \in Nat \ {0}
    <3>1. rest \subseteq DOMAIN store[SrcBucket(s)]
      BY DEF Remaining
    <3> QED
      BY <1>4, <3>1, FS_Subset, SizeAssumption
  <2>4. \A k \in Below(s) : k \in todo[s] \/ k \in rest
    BY <2>2 DEF Below, Remaining
  <2>5. Below(s)' = Below(s) /\ SourceKeyGone(s)'
    BY <1>2, <2>1, <2>2 DEF Below, SourceKeyGone
  <2>6. todo'[s] = keys
    BY <1>0, <2>1 DEF TypeOK
  <2>7. CASE page # rest
    <3>1. pc'[s] = "deleteList"
      BY <1>0, <2>1, <2>7 DEF Goto, TypeOK
    <3>2. page # {}
      <4>1. page \subseteq rest /\ (rest # {} => page # {})
        <5> HIDE DEF rest
        <5> QED
          BY <2>3, PageIsFirst
      <4> QED
        BY <2>7, <4>1
    <3>3. PICK last \in page : IsLast(last, page) /\ cursor' = [cursor EXCEPT ![s] = last]
      BY <2>1, <3>2
    <3>4. \A k \in rest \ page : KeyLess(last, k)
      <4> HIDE DEF rest
      <4> QED
        BY <2>3, <3>3, PageIsFirst
    <3>5. cursor'[s] = last
      BY <1>0, <3>3 DEF TypeOK
    <3>6. \A k \in Below(s)' : k \in todo'[s] \/ KeyLess(cursor'[s], k)
      BY <2>4, <2>5, <2>6, <3>4, <3>5
    <3> QED
      BY <2>5, <3>1, <3>6 DEF RemoveHolds
  <2>8. CASE page = rest
    <3>1. Below(s)' \subseteq todo'[s]
      BY <2>4, <2>5, <2>6, <2>8
    <3>2. CASE keys # {}
      <4>1. pc'[s] = "deleteBatch"
        BY <1>0, <2>1, <2>8, <3>2 DEF Goto, TypeOK
      <4> QED
        BY <2>5, <3>1, <4>1 DEF RemoveHolds
    <3>3. CASE keys = {}
      <4>1. pc'[s] = "idle" /\ Below(s) = {}
        BY <1>0, <2>1, <2>5, <2>6, <2>8, <3>1, <3>3 DEF Reply, TypeOK
      <4> DEFINE objects == DOMAIN store[SrcBucket(s)]
      <4>2. /\ objects \subseteq Key /\ SrcKey(s) \notin objects
            /\ \A k \in objects : ~ InDir(k, SrcDir(s))
        BY <1>4, <2>2, <4>1 DEF Below, SourceKeyGone
      <4> HIDE DEF objects
      <4>3. \A k \in objects : ~ Covers(s, req[s].from, SrcBucket(s), k)
        BY <1>3, <4>2, NothingIsCovered
      <4> QED
        BY <1>2, <2>1, <4>1, <4>3 DEF RemoveHolds, objects, Covers
    <3> QED
      BY <3>2, <3>3
  <2> QED
    BY <2>7, <2>8
<1>13. CASE DeleteBatch(s)
  <2> DEFINE batch == FirstKeys(todo[s], BatchSize)
             rest == todo[s] \ batch
  <2>1. /\ pc[s] = "deleteBatch"
        /\ store' = [store EXCEPT ![SrcBucket(s)] = DeleteKeys(store[SrcBucket(s)], batch)]
        /\ \/ /\ todo' = [todo EXCEPT ![s] = rest]
              /\ IF rest # {} THEN Goto(s, "deleteBatch") ELSE Reply(s, "ok")
           \/ LoseReply(s)
    <3>1. batch \ {} = batch
      OBVIOUS
    <3> QED
      BY <1>13, <3>1 DEF DeleteBatch
  <2>2. SourceKeyGone(s) /\ Below(s) \subseteq todo[s]
    BY <2>1 DEF RemoveHolds
  <2>3. DOMAIN store'[SrcBucket(s)] = DOMAIN store[SrcBucket(s)] \ batch
    BY <1>0, <1>4, <2>1 DEF IsStore, DeleteKeys
  <2>4. SourceKeyGone(s)' /\ Below(s)' = Below(s) \ batch
    BY <1>2, <2>2, <2>3 DEF SourceKeyGone, Below
  <2>5. CASE LoseReply(s)
    <3>1. UNCHANGED todo /\ (Reply(s, "error") \/ UNCHANGED <<pc, answer>>)
      BY <2>5 DEF LoseReply, walk
    <3>2. CASE UNCHANGED <<pc, answer>>
      BY <2>1, <2>2, <2>4, <3>1, <3>2 DEF RemoveHolds
    <3> QED
      BY <1>7, <3>1, <3>2
  <2>6. CASE todo' = [todo EXCEPT ![s] = rest] /\ rest # {} /\ Goto(s, "deleteBatch")
    <3>1. pc'[s] = "deleteBatch" /\ todo'[s] = rest
      BY <1>0, <2>6 DEF Goto, TypeOK
    <3> QED
      BY <2>2, <2>4, <3>1 DEF RemoveHolds
  <2>7. CASE rest = {} /\ Reply(s, "ok")
    <3>1. pc'[s] = "idle" /\ Below(s)' = {}
      BY <1>0, <2>2, <2>4, <2>7 DEF Reply, TypeOK
    <3> DEFINE objects == DOMAIN store'[SrcBucket(s)]
    <3>2. /\ objects \subseteq Key /\ SrcKey(s) \notin objects
          /\ \A k \in objects : ~ InDir(k, SrcDir(s))
      BY <1>2, <1>4, <2>3, <2>4, <3>1 DEF Below, SourceKeyGone
    <3> HIDE DEF objects
    <3>3. \A k \in objects : ~ Covers(s, req[s].from, SrcBucket(s), k)
      BY <1>3, <3>2, NothingIsCovered
    <3> QED
      BY <1>2, <3>1, <3>3 DEF RemoveHolds, objects, Covers
  <2> QED
    BY <2>1, <2>5, <2>6, <2>7
<1> QED
  BY <1>0, <1>5, <1>8, <1>9, <1>10, <1>11, <1>12, <1>13
     DEF Call, HeadPlaceholder, ListPage, CopyWithinBackend, StreamGet, StreamPut, Recheck, Put

(* A session that is alone, where DeleteObjects keeps no key and says it   *)
(* succeeded: when a Remove is answered with success, the object that its  *)
(* path names is gone, and all that was below it, however many pages and   *)
(* batches there were and whichever calls had to be repeated (Filecmd      *)
(* "Remove", DeletePrefix).                                                *)
THEOREM RemovesAreComplete ==
  ASSUME Alone, PerKeyErrors = FALSE
  PROVE  Spec => []RemovedIsGone
<1>1. Init => IInv /\ RemoveInv
  BY InitKeeps, InitRemoves
<1>2. ASSUME IInv, RemoveInv, [Next]_vars PROVE RemoveInv'
  <2>1. CASE UNCHANGED vars
    BY <1>2, <2>1 DEF RemoveInv, RemoveHolds, Unanswered, Below, SourceKeyGone, Covers, SrcDir, SrcKey,
                      SrcBucket, SrcPrefix, vars
  <2>2. ASSUME NEW s \in Sessions, Start(s) \/ Call(s) \/ Fail(s) PROVE RemoveInv'
    <3>1. RemoveHolds(s)' /\ Unanswered(s)'
      BY <1>2, <2>2, RemoveStep, AnswersComeLast DEF RemoveInv, IInv
    <3>2. \A t \in Sessions : t = s
      BY DEF Alone
    <3> QED
      BY <3>1, <3>2 DEF RemoveInv
  <2> QED
    BY <1>2, <2>1, <2>2 DEF Next, Quiescent
<1>3. IInv /\ RemoveInv => RemovedIsGone
  <2> SUFFICES ASSUME IInv, RemoveInv, NEW s \in Sessions, req[s].method = "Remove", answer[s] = "ok"
               PROVE  \A k \in DOMAIN store[SrcBucket(s)] : ~ Covers(s, req[s].from, SrcBucket(s), k)
    BY DEF RemovedIsGone
  <2>1. pc[s] = "idle"
    BY DEF RemoveInv, Unanswered
  <2> QED
    BY <2>1 DEF RemoveInv, RemoveHolds
<1> QED
  BY <1>1, <1>2, <1>3, NextKeeps, PTL DEF Spec

-----------------------------------------------------------------------------
(* Renames and copies whose source and target are apart: neither path is   *)
(* the other, or is below it, in the bucket where they are.                *)
Overlap(s, r) ==
  LET from == DirPrefix(VFS[s][r.from.backend], r.from.rel)
      to   == DirPrefix(VFS[s][r.to.backend], r.to.rel)
  IN  /\ BucketOf[r.from.backend] = BucketOf[r.to.backend]
      /\ AtOrIn(from, to) \/ AtOrIn(to, from)

Moving(s) == req[s].method \in {"Rename", "Copy"} /\ ~ Overlap(s, req[s])

(* What is to be moved and is still at its source, ...  *)
SourceKeys(s) ==
  IF isFile[s] THEN {SrcKey(s)} \cap DOMAIN store[SrcBucket(s)] ELSE Below(s)

(* ... is at its destination already, ... *)
Copied(s, k) ==
  /\ Target(s, k) \in DOMAIN store[DstBucket(s)]
  /\ store[DstBucket(s)][Target(s, k)] = store[SrcBucket(s)][k]

(* ... or will be copied. *)
Pending(s, k) ==
  \/ pc[s] \in {"copy", "upload"} /\ k \in todo[s]
  \/ pc[s] = "list" /\ KeyLess(cursor[s], k)
  \/ pc[s] \in {"copy", "upload"} /\ more[s] /\ KeyLess(cursor[s], k)

Starting == {"exists", "children", "placeholder"}
Asked    == {"children", "placeholder", "list", "copy", "upload", "recheck"}
Underway == {"list", "copy", "upload", "recheck", "deleteObject", "deleteList", "deleteBatch"}

KnowsSource(s) ==
  /\ pc[s] \in Asked => (isFile[s] <=> SrcKey(s) \in DOMAIN store[SrcBucket(s)])
  /\ pc[s] \in {"children", "placeholder", "list", "deleteList", "deleteBatch"} => ~ isFile[s]
  /\ pc[s] = "deleteObject" => isFile[s]
  /\ pc[s] = "placeholder" => Below(s) = {}

KnowsWork(s) ==
  /\ pc[s] \in Starting => cursor[s] = <<>> /\ ~ more[s]
  /\ pc[s] \in {"copy", "upload"} /\ isFile[s] => todo[s] = {SrcKey(s)} /\ ~ more[s]
  /\ pc[s] = "upload" => \A k \in todo[s] : IsNext(k, s) =>
        k \in DOMAIN store[SrcBucket(s)] /\ body[s] = store[SrcBucket(s)][k]

AllMoved(s) == pc[s] \in Underway => \A k \in SourceKeys(s) : Copied(s, k) \/ Pending(s, k)

MoveHolds(s) == Moving(s) => KnowsSource(s) /\ KnowsWork(s) /\ AllMoved(s)

(* A target is never in the source. *)
LEMMA TargetApart ==
  ASSUME TypeOK, NEW s \in Sessions, Accepted(s, req[s]), Moving(s),
         NEW k \in Key, isFile[s] \/ InDir(k, SrcDir(s))
  PROVE  SrcBucket(s) = DstBucket(s) => ~ AtOrIn(Target(s, k), SrcDir(s))
<1>1. req[s].method \in {"Rename", "Copy"}
  BY DEF Moving
<1>2. /\ SrcDir(s) \in Dir /\ DstDir(s) \in Dir
      /\ DstKey(s) \in Key /\ AtOrIn(DstKey(s), DstDir(s))
  BY <1>1, SourceTyped, TargetTyped DEF DstDir, DirPrefix
<1>3. Target(s, k) \in Key /\ AtOrIn(Target(s, k), DstDir(s))
  <2>1. CASE isFile[s]
    BY <1>2, <2>1 DEF Target
  <2>2. CASE ~ isFile[s]
    <3>1. Rebase(k, SrcDir(s), DstDir(s)) \in Key /\ InDir(Rebase(k, SrcDir(s), DstDir(s)), DstDir(s))
      BY <1>2, <2>2, RebaseIsIn
    <3> QED
      BY <1>2, <2>2, <3>1, InDirIsAtOrIn DEF Target
  <2> QED
    BY <2>1, <2>2
<1>4. SUFFICES ASSUME SrcBucket(s) = DstBucket(s), AtOrIn(Target(s, k), SrcDir(s)) PROVE FALSE
  OBVIOUS
<1>5. AtOrIn(SrcDir(s), DstDir(s)) \/ AtOrIn(DstDir(s), SrcDir(s))
  BY <1>2, <1>3, <1>4, SharedKeys
<1>6. Overlap(s, req[s])
  BY <1>4, <1>5 DEF Overlap, SrcBucket, DstBucket, SrcDir, DstDir, SrcPrefix, DstPrefix
<1> QED
  BY <1>6 DEF Moving

(* Every key of the source is at or below the path of the source. *)
LEMMA SourceKeysAreAt ==
  ASSUME TypeOK, NEW s \in Sessions, Accepted(s, req[s])
  PROVE  /\ AtOrIn(SrcKey(s), SrcDir(s))
         /\ \A k \in Below(s) : k \in Key /\ InDir(k, SrcDir(s)) /\ AtOrIn(k, SrcDir(s))
         /\ SourceKeys(s) \subseteq DOMAIN store[SrcBucket(s)]
         /\ \A k \in SourceKeys(s) : /\ k \in Key /\ AtOrIn(k, SrcDir(s))
                                     /\ isFile[s] \/ InDir(k, SrcDir(s))
                                     /\ isFile[s] => k = SrcKey(s)
<1>1. /\ SrcBucket(s) \in Buckets /\ SrcDir(s) \in Dir /\ SrcKey(s) \in Key
      /\ AtOrIn(SrcKey(s), SrcDir(s))
  BY SourceTyped DEF SrcDir, DirPrefix
<1>2. \A k \in Below(s) : k \in Key /\ InDir(k, SrcDir(s))
  BY <1>1 DEF Below, TypeOK, IsStore
<1>3. \A k \in Below(s) : AtOrIn(k, SrcDir(s))
  BY <1>1, <1>2, InDirIsAtOrIn
<1> QED
  BY <1>1, <1>2, <1>3 DEF SourceKeys, Below

(* An object is copied: the source stays as it is, what was at its         *)
(* destination stays there, and the copy is.                               *)
LEMMA CopyingMoves ==
  ASSUME TypeOK, NEW s \in Sessions, Accepted(s, req[s]), Moving(s),
         NEW k \in Key, isFile[s] \/ InDir(k, SrcDir(s)), isFile[s] => k = SrcKey(s),
         k \in DOMAIN store[SrcBucket(s)],
         store' = [store EXCEPT ![DstBucket(s)] =
                     PutObject(store[DstBucket(s)], Target(s, k), store[SrcBucket(s)][k])],
         UNCHANGED <<req, isFile>>
  PROVE  /\ Below(s)' = Below(s) /\ SourceKeys(s)' = SourceKeys(s)
         /\ SrcKey(s) \in DOMAIN store'[SrcBucket(s)] <=> SrcKey(s) \in DOMAIN store[SrcBucket(s)]
         /\ \A j \in SourceKeys(s) : (j = k \/ Copied(s, j)) => Copied(s, j)'
         /\ k \in DOMAIN store'[SrcBucket(s)]
         /\ store'[SrcBucket(s)][k] = store[SrcBucket(s)][k]
<1> DEFINE A == SrcBucket(s)
           B == DstBucket(s)
           t == Target(s, k)
           x == store[SrcBucket(s)][k]
<1>1. A \in Buckets /\ B \in Buckets /\ req[s].method \in {"Rename", "Copy"}
  BY SourceTyped, TargetTyped DEF Moving
<1>2. /\ A' = A /\ B' = B /\ SrcDir(s)' = SrcDir(s) /\ SrcKey(s)' = SrcKey(s)
      /\ \A j : Target(s, j)' = Target(s, j)
  BY DEF SrcBucket, DstBucket, SrcDir, DstDir, SrcKey, DstKey, SrcPrefix, DstPrefix, Target
<1>3. /\ DOMAIN store'[B] = DOMAIN store[B] \cup {t}
      /\ store'[B][t] = x
      /\ \A j \in DOMAIN store[B] : j # t => store'[B][j] = store[B][j]
  <2>1. store'[B] = PutObject(store[B], t, x)
    BY <1>1 DEF TypeOK, IsStore
  <2> HIDE DEF B, t, x
  <2> QED
    BY <2>1 DEF PutObject
<1>4. A # B => store'[A] = store[A]
  BY <1>1 DEF TypeOK, IsStore
<1>5. A = B => ~ AtOrIn(t, SrcDir(s))
  BY TargetApart
<1>6. \A j : AtOrIn(j, SrcDir(s)) =>
        /\ j \in DOMAIN store'[A] <=> j \in DOMAIN store[A]
        /\ j \in DOMAIN store[A] => store'[A][j] = store[A][j]
  <2> HIDE DEF A, B, t, x
  <2> QED
    BY <1>3, <1>4, <1>5
<1>7. /\ AtOrIn(SrcKey(s), SrcDir(s)) /\ SrcDir(s) \in Dir
      /\ \A j \in SourceKeys(s) : /\ j \in Key /\ AtOrIn(j, SrcDir(s)) /\ j \in DOMAIN store[A]
                                  /\ isFile[s] \/ InDir(j, SrcDir(s))
                                  /\ isFile[s] => j = SrcKey(s)
      /\ \A j \in Below(s) : AtOrIn(j, SrcDir(s))
  BY SourceKeysAreAt, SourceTyped
<1>8. Below(s)' = Below(s)
  <2>1. \A j \in DOMAIN store'[A] : InDir(j, SrcDir(s)) => AtOrIn(j, SrcDir(s))
    <3>1. \A j \in DOMAIN store'[A] : j \in Key
      <4>1. \A j \in DOMAIN store[A] : j \in Key
        BY <1>1 DEF TypeOK, IsStore
      <4>2. t \in Key
        BY <1>1, SourceTyped, TargetTyped, RebaseIsIn DEF Target
      <4> HIDE DEF A, B, t, x
      <4> QED
        BY <1>3, <1>4, <4>1, <4>2
    <3> QED
      BY <1>7, <3>1, InDirIsAtOrIn
  <2> QED
    BY <1>2, <1>6, <1>7, <2>1 DEF Below
<1>9. SourceKeys(s)' = SourceKeys(s)
  BY <1>2, <1>6, <1>7, <1>8 DEF SourceKeys
<1>10. ASSUME NEW j \in SourceKeys(s), j = k \/ Copied(s, j) PROVE Copied(s, j)'
  <2>1. store'[A][j] = store[A][j]
    BY <1>6, <1>7
  <2>2. CASE j = k
    <3>1. t \in DOMAIN store'[B] /\ store'[B][t] = store'[A][j]
      BY <1>3, <2>1, <2>2
    <3> QED
      BY <1>2, <2>2, <3>1 DEF Copied
  <2>3. CASE j # k
    <3>1. Target(s, j) # t
      <4>1. ~ isFile[s] /\ InDir(j, SrcDir(s)) /\ InDir(k, SrcDir(s)) /\ j \in Key
        BY <1>7, <2>3
      <4> QED
        BY <1>1, <1>7, <2>3, <4>1, TargetTyped, RebaseApart DEF Target
    <3>2. Target(s, j) \in DOMAIN store[B] /\ store[B][Target(s, j)] = store[A][j]
      BY <1>10, <2>3 DEF Copied
    <3>3. Target(s, j) \in DOMAIN store'[B] /\ store'[B][Target(s, j)] = store'[A][j]
      <4> HIDE DEF A, B, t, x
      <4> QED
        BY <1>3, <2>1, <3>1, <3>2
    <3> QED
      BY <1>2, <3>3 DEF Copied
  <2> QED
    BY <2>2, <2>3
<1>11. AtOrIn(k, SrcDir(s))
  BY <1>7, InDirIsAtOrIn
<1> QED
  BY <1>6, <1>7, <1>8, <1>9, <1>10, <1>11

(* Keys of the source are deleted: what is left of it has the copies that  *)
(* it had.                                                                 *)
LEMMA DeletingMoves ==
  ASSUME TypeOK, NEW s \in Sessions, Accepted(s, req[s]), Moving(s),
         NEW keys, \A j \in keys : j = SrcKey(s) \/ InDir(j, SrcDir(s)), keys \subseteq Key,
         store' = [store EXCEPT ![SrcBucket(s)] = DeleteKeys(store[SrcBucket(s)], keys)],
         UNCHANGED <<req, isFile>>
  PROVE  /\ SourceKeys(s)' = SourceKeys(s) \ keys
         /\ \A j \in SourceKeys(s) : Copied(s, j) =>
              /\ j \notin keys => Copied(s, j)'
              /\ Target(s, j) \in DOMAIN store'[DstBucket(s)]
              /\ store'[DstBucket(s)][Target(s, j)] = store[SrcBucket(s)][j]
<1> DEFINE A == SrcBucket(s)
           B == DstBucket(s)
<1>1. A \in Buckets /\ B \in Buckets /\ req[s].method \in {"Rename", "Copy"}
  BY SourceTyped, TargetTyped DEF Moving
<1>2. /\ A' = A /\ B' = B /\ SrcDir(s)' = SrcDir(s) /\ SrcKey(s)' = SrcKey(s)
      /\ \A j : Target(s, j)' = Target(s, j)
  BY DEF SrcBucket, DstBucket, SrcDir, DstDir, SrcKey, DstKey, SrcPrefix, DstPrefix, Target
<1>3. /\ DOMAIN store'[A] = DOMAIN store[A] \ keys
      /\ \A j \in DOMAIN store'[A] : store'[A][j] = store[A][j]
  <2>1. store'[A] = DeleteKeys(store[A], keys)
    BY <1>1 DEF TypeOK, IsStore
  <2> HIDE DEF A
  <2> QED
    BY <2>1 DEF DeleteKeys
<1>4. A # B => store'[B] = store[B]
  BY <1>1 DEF TypeOK, IsStore
<1>5. SourceKeys(s)' = SourceKeys(s) \ keys
  BY <1>2, <1>3 DEF SourceKeys, Below
<1>6. \A j \in keys : AtOrIn(j, SrcDir(s))
  BY SourceKeysAreAt, SourceTyped, InDirIsAtOrIn
<1>7. ASSUME NEW j \in SourceKeys(s), Copied(s, j)
      PROVE  /\ j \notin keys => Copied(s, j)'
             /\ Target(s, j) \in DOMAIN store'[DstBucket(s)]
             /\ store'[DstBucket(s)][Target(s, j)] = store[SrcBucket(s)][j]
  <2>1. A = B => ~ AtOrIn(Target(s, j), SrcDir(s))
    BY TargetApart, SourceKeysAreAt
  <2>2. Target(s, j) \in DOMAIN store[B] /\ store[B][Target(s, j)] = store[A][j]
    BY <1>7 DEF Copied
  <2>3. j \in DOMAIN store[A]
    BY SourceKeysAreAt
  <2>4. Target(s, j) \in DOMAIN store'[B] /\ store'[B][Target(s, j)] = store[A][j]
    <3> HIDE DEF A, B
    <3> QED
      BY <1>3, <1>4, <1>6, <2>1, <2>2
  <2>5. j \notin keys => store'[A][j] = store[A][j]
    BY <1>3, <2>3
  <2> QED
    BY <1>2, <2>4, <2>5 DEF Copied
<1> QED
  BY <1>5, <1>7


(* The command of a session, while it runs. *)
LEMMA MovingNames ==
  ASSUME NEW s, UNCHANGED req
  PROVE  /\ SrcBucket(s)' = SrcBucket(s) /\ SrcDir(s)' = SrcDir(s) /\ SrcKey(s)' = SrcKey(s)
         /\ Moving(s)' <=> Moving(s)
         /\ UNCHANGED store => Below(s)' = Below(s)
         /\ UNCHANGED store /\ isFile'[s] = isFile[s] =>
              SourceKeys(s)' = SourceKeys(s) /\ \A k : Copied(s, k)' <=> Copied(s, k)
<1>1. /\ SrcBucket(s)' = SrcBucket(s) /\ SrcDir(s)' = SrcDir(s) /\ SrcKey(s)' = SrcKey(s)
      /\ DstBucket(s)' = DstBucket(s) /\ DstDir(s)' = DstDir(s) /\ DstKey(s)' = DstKey(s)
  BY DEF SrcBucket, DstBucket, SrcDir, DstDir, SrcKey, DstKey, SrcPrefix, DstPrefix
<1>2. Moving(s)' <=> Moving(s)
  BY DEF Moving, Overlap
<1>3. ASSUME UNCHANGED store PROVE Below(s)' = Below(s)
  BY <1>1, <1>3 DEF Below
<1>4. ASSUME UNCHANGED store, isFile'[s] = isFile[s]
      PROVE  SourceKeys(s)' = SourceKeys(s) /\ \A k : Copied(s, k)' <=> Copied(s, k)
  <2>1. \A k : Target(s, k)' = Target(s, k)
    BY <1>1, <1>4 DEF Target
  <2> QED
    BY <1>1, <1>3, <1>4, <2>1 DEF SourceKeys, Copied
<1> QED
  BY <1>1, <1>2, <1>3, <1>4

(* A command starts by asking what its source is. *)
LEMMA StartMoves ==
  ASSUME TypeOK, NEW s \in Sessions, Start(s)
  PROVE  MoveHolds(s)'
<1>1. PICK r \in Requests[s] :
        /\ req' = [req EXCEPT ![s] = r]
        /\ IF ~ Accepted(s, r) THEN Reply(s, "error")
           ELSE IF NothingToDo(r) THEN Reply(s, "ok")
           ELSE /\ pc' = [pc EXCEPT ![s] =
                           IF r.method \in {"Put", "Mkdir"} THEN "put" ELSE "exists"]
                /\ answer' = [answer EXCEPT ![s] = "none"]
  BY DEF Start
<1>2. cursor'[s] = <<>> /\ ~ more'[s]
  BY DEF TypeOK, Start
<1>3. pc'[s] \in {"exists", "put", "idle"}
  BY <1>1 DEF TypeOK, Reply
<1> QED
  BY <1>2, <1>3 DEF MoveHolds, KnowsSource, KnowsWork, AllMoved, Starting, Asked, Underway

(* An answered command has nothing more to know. *)
LEMMA AnsweredMoves ==
  ASSUME TypeOK, NEW s \in Sessions, NEW a, Reply(s, a)
  PROVE  MoveHolds(s)'
<1>1. pc'[s] = "idle"
  BY DEF TypeOK, Reply
<1> QED
  BY <1>1 DEF MoveHolds, KnowsSource, KnowsWork, AllMoved, Starting, Asked, Underway

(* One object more is copied. *)
LEMMA CopiedMoves ==
  ASSUME IInv, NEW s \in Sessions, MoveHolds(s), Moving(s), pc[s] \in {"copy", "upload"},
         NEW k, IsNext(k, s), k \in DOMAIN store[SrcBucket(s)],
         store' = [store EXCEPT ![DstBucket(s)] =
                     PutObject(store[DstBucket(s)], Target(s, k), store[SrcBucket(s)][k])],
         UNCHANGED <<req, isFile, body>>,
         \/ /\ todo' = [todo EXCEPT ![s] = todo[s] \ {k}]
            /\ AfterCopy(s, todo[s] \ {k})
            /\ UNCHANGED <<cursor, more>>
         \/ LoseReply(s)
  PROVE  MoveHolds(s)'
<1> DEFINE rest == todo[s] \ {k}
<1>1. TypeOK /\ Fits(s) /\ Accepted(s, req[s])
  BY DEF IInv, WorkFitsCommand, Fits
<1>2. KnowsSource(s) /\ KnowsWork(s) /\ AllMoved(s)
  BY DEF MoveHolds
<1>3. k \in todo[s] /\ k \in Key /\ (isFile[s] => todo[s] = {SrcKey(s)} /\ ~ more[s])
  BY <1>1, <1>2 DEF IsNext, TypeOK, KnowsWork
<1>4. isFile[s] \/ InDir(k, SrcDir(s))
  BY <1>1, <1>3 DEF Fits
<1>5. /\ Below(s)' = Below(s) /\ SourceKeys(s)' = SourceKeys(s)
      /\ SrcKey(s) \in DOMAIN store'[SrcBucket(s)] <=> SrcKey(s) \in DOMAIN store[SrcBucket(s)]
      /\ \A j \in SourceKeys(s) : (j = k \/ Copied(s, j)) => Copied(s, j)'
      /\ k \in DOMAIN store'[SrcBucket(s)]
      /\ store'[SrcBucket(s)][k] = store[SrcBucket(s)][k]
  BY <1>1, <1>3, <1>4, CopyingMoves
<1>6. /\ SrcBucket(s)' = SrcBucket(s) /\ SrcKey(s)' = SrcKey(s) /\ isFile'[s] = isFile[s]
      /\ body'[s] = body[s]
  BY MovingNames
<1>7. \A j \in SourceKeys(s) : Copied(s, j)' \/ (j # k /\ Pending(s, j))
  BY <1>2, <1>5 DEF AllMoved, Underway
<1>8. isFile[s] <=> SrcKey(s) \in DOMAIN store[SrcBucket(s)]
  BY <1>2 DEF KnowsSource, Asked
<1>9. CASE LoseReply(s)
  <2>1. UNCHANGED <<todo, cursor, more>> /\ (Reply(s, "error") \/ UNCHANGED <<pc, answer>>)
    BY <1>9 DEF LoseReply, walk
  <2>2. CASE UNCHANGED <<pc, answer>>
    <3>1. KnowsSource(s)'
      BY <1>5, <1>6, <1>8, <2>2 DEF KnowsSource, Asked
    <3>2. \A j \in todo[s] : IsNext(j, s) => j = k
      BY <1>1, NextIsOne
    <3>3. \A j : IsNext(j, s)' <=> IsNext(j, s)
      BY <2>1 DEF IsNext
    <3>4. pc[s] = "upload" => body[s] = store[SrcBucket(s)][k]
      BY <1>2, <1>3 DEF KnowsWork
    <3>5. KnowsWork(s)'
      BY <1>3, <1>5, <1>6, <2>1, <2>2, <3>2, <3>3, <3>4 DEF KnowsWork, Starting
    <3>6. \A j : Pending(s, j)' <=> Pending(s, j)
      BY <2>1, <2>2 DEF Pending
    <3>7. AllMoved(s)'
      BY <1>5, <1>7, <3>6 DEF AllMoved
    <3> QED
      BY <3>1, <3>5, <3>7 DEF MoveHolds
  <2> QED
    BY <1>1, <2>1, <2>2, AnsweredMoves
<1>10. CASE todo' = [todo EXCEPT ![s] = rest] /\ AfterCopy(s, rest) /\ UNCHANGED <<cursor, more>>
  <2>1. todo'[s] = rest /\ cursor'[s] = cursor[s] /\ more'[s] = more[s]
    BY <1>1, <1>10 DEF TypeOK
  <2>2. \A j \in SourceKeys(s) : Copied(s, j)' \/ j \in rest \/ (more[s] /\ KeyLess(cursor[s], j))
    BY <1>7 DEF Pending
  <2>3. CASE rest # {} /\ Goto(s, "copy")
    <3>1. pc'[s] = "copy"
      BY <1>1, <2>3 DEF Goto, TypeOK
    <3>2. ~ isFile[s]
      BY <1>3, <2>3
    <3>3. KnowsSource(s)' /\ KnowsWork(s)'
      BY <1>5, <1>6, <1>8, <3>1, <3>2 DEF KnowsSource, KnowsWork, Asked, Starting
    <3>4. AllMoved(s)'
      BY <1>5, <2>1, <2>2, <3>1 DEF AllMoved, Pending
    <3> QED
      BY <3>3, <3>4 DEF MoveHolds
  <2>4. CASE rest = {} /\ more[s] /\ Goto(s, "list")
    <3>1. pc'[s] = "list" /\ ~ isFile[s]
      BY <1>1, <1>3, <2>4 DEF Goto, TypeOK
    <3>2. KnowsSource(s)' /\ KnowsWork(s)'
      BY <1>5, <1>6, <1>8, <3>1 DEF KnowsSource, KnowsWork, Asked, Starting
    <3>3. AllMoved(s)'
      BY <1>5, <2>1, <2>2, <2>4, <3>1 DEF AllMoved, Pending
    <3> QED
      BY <3>2, <3>3 DEF MoveHolds
  <2>5. CASE rest = {} /\ ~ more[s] /\ Goto(s, "recheck")
    <3>1. pc'[s] = "recheck"
      BY <1>1, <2>5 DEF Goto, TypeOK
    <3>2. KnowsSource(s)' /\ KnowsWork(s)'
      BY <1>5, <1>6, <1>8, <3>1 DEF KnowsSource, KnowsWork, Asked, Starting
    <3>3. AllMoved(s)'
      BY <1>5, <2>2, <2>5, <3>1 DEF AllMoved
    <3> QED
      BY <3>2, <3>3 DEF MoveHolds
  <2>6. CASE Reply(s, "ok")
    BY <1>1, <2>6, AnsweredMoves
  <2> QED
    BY <1>10, <2>3, <2>4, <2>5, <2>6 DEF AfterCopy
<1> QED
  BY <1>9, <1>10


(* What a command finds out about its source, and the pages of the source  *)
(* that it copies.                                                         *)
LEMMA SourceMoves ==
  ASSUME IInv, NEW s \in Sessions, MoveHolds(s), Moving(s),
         HeadSource(s) \/ ProbeChildren(s) \/ HeadPlaceholder(s)
  PROVE  MoveHolds(s)'
<1>1. TypeOK /\ (pc[s] # "idle" => Fits(s) /\ Accepted(s, req[s]))
  BY DEF IInv, WorkFitsCommand, Fits
<1>2. KnowsSource(s) /\ KnowsWork(s) /\ req[s].method \in {"Rename", "Copy"}
  BY DEF MoveHolds, Moving
<1>3. UNCHANGED <<store, req>>
  BY DEF HeadSource, ProbeChildren, HeadPlaceholder
<1>4. /\ SrcBucket(s)' = SrcBucket(s) /\ SrcKey(s)' = SrcKey(s) /\ Below(s)' = Below(s)
      /\ isFile'[s] = isFile[s] => SourceKeys(s)' = SourceKeys(s)
  BY <1>3, MovingNames
<1> DEFINE found == SrcKey(s) \in DOMAIN store[SrcBucket(s)]
<1>5. CASE HeadSource(s)
  <2>1. /\ pc[s] = "exists" /\ isFile'[s] = found
        /\ cursor'[s] = <<>> /\ ~ more'[s]
        /\ IF found THEN todo'[s] = {SrcKey(s)} /\ pc'[s] = "copy" ELSE pc'[s] = "children"
    BY <1>1, <1>2, <1>5 DEF HeadSource, TypeOK, Goto, KnowsWork, Starting
  <2>2. KnowsSource(s)' /\ KnowsWork(s)'
    BY <1>3, <1>4, <2>1 DEF KnowsSource, KnowsWork, Asked, Starting
  <2>3. AllMoved(s)'
    BY <1>4, <2>1 DEF AllMoved, SourceKeys, Pending, Underway
  <2> QED
    BY <2>2, <2>3 DEF MoveHolds
<1>6. CASE ProbeChildren(s)
  <2>1. /\ pc[s] = "children" /\ UNCHANGED <<isFile, todo, cursor, more>>
        /\ pc'[s] = IF Below(s) # {} THEN "list" ELSE "placeholder"
    BY <1>1, <1>2, <1>6 DEF ProbeChildren, TypeOK, Goto, walk, HasEntries, Below
  <2>2. /\ ~ isFile[s] /\ ~ found /\ cursor[s] = <<>> /\ ~ more[s]
    BY <1>2, <2>1 DEF KnowsSource, KnowsWork, Asked, Starting
  <2>3. KnowsSource(s)' /\ KnowsWork(s)'
    BY <1>3, <1>4, <2>1, <2>2 DEF KnowsSource, KnowsWork, Asked, Starting
  <2>4. \A k \in SourceKeys(s) : KeyLess(<<>>, k)
    BY <1>1, <2>1, <2>2, SourceTyped, SourceKeysAreAt, AfterTheStart
  <2>5. AllMoved(s)'
    BY <1>4, <2>1, <2>2, <2>4 DEF AllMoved, Pending, Underway
  <2> QED
    BY <2>3, <2>5 DEF MoveHolds
<1>7. CASE HeadPlaceholder(s)
  <2>1. pc[s] = "placeholder" /\ Below(s) = {}
    BY <1>2, <1>7 DEF HeadPlaceholder, KnowsSource
  <2>2. Placeholder(SrcDir(s)) \notin DOMAIN store[SrcBucket(s)]
    BY <1>1, <2>1, SourceTyped, PlaceholderIsIn DEF Below
  <2>3. Reply(s, "error")
    BY <1>7, <2>2 DEF HeadPlaceholder
  <2> QED
    BY <1>1, <2>3, AnsweredMoves
<1> QED
  BY <1>5, <1>6, <1>7

LEMMA PageMoves ==
  ASSUME IInv, NEW s \in Sessions, MoveHolds(s), Moving(s), ListPage(s)
  PROVE  MoveHolds(s)'
<1> DEFINE rest == Remaining(store[SrcBucket(s)], SrcDir(s), cursor[s])
           page == FirstKeys(rest, PageSize)
<1>1. TypeOK /\ pc[s] = "list" /\ Accepted(s, req[s])
  BY DEF IInv, WorkFitsCommand, Fits, ListPage
<1>2. /\ KnowsSource(s) /\ KnowsWork(s) /\ AllMoved(s)
      /\ ~ isFile[s] /\ SrcKey(s) \notin DOMAIN store[SrcBucket(s)]
  BY <1>1 DEF MoveHolds, KnowsSource, Asked
<1>3. /\ UNCHANGED <<store, req, isFile>> /\ todo'[s] = page /\ more'[s] = (page # rest)
  BY <1>1 DEF ListPage, TypeOK
<1>4. /\ SrcBucket(s)' = SrcBucket(s) /\ SrcKey(s)' = SrcKey(s)
      /\ Below(s)' = Below(s) /\ SourceKeys(s)' = SourceKeys(s)
      /\ \A k : Copied(s, k)' <=> Copied(s, k)
  BY <1>3, MovingNames
<1>5. rest \subseteq Key /\ IsFiniteSet(rest) /\ PageSize \in Nat \ {0}
  <2>1. rest \subseteq DOMAIN store[SrcBucket(s)]
    BY DEF Remaining
  <2>2. SrcBucket(s) \in Buckets
    BY <1>1, SourceTyped
  <2>3. DOMAIN store[SrcBucket(s)] \subseteq Key /\ IsFiniteSet(DOMAIN store[SrcBucket(s)])
    BY <1>1, <2>2 DEF TypeOK, IsStore
  <2> QED
    BY <2>1, <2>3, FS_Subset, SizeAssumption
<1>6. \A k \in SourceKeys(s) : Copied(s, k) \/ k \in rest
  <2>1. \A k \in SourceKeys(s) : Copied(s, k) \/ KeyLess(cursor[s], k)
    BY <1>1, <1>2 DEF AllMoved, Pending, Underway
  <2>2. SourceKeys(s) = Below(s)
    BY <1>2 DEF SourceKeys
  <2> QED
    BY <2>1, <2>2 DEF Below, Remaining
<1>7. rest # {} => page # {}
  <2> HIDE DEF rest
  <2> QED
    BY <1>5, PageIsFirst
<1>8. CASE page = {}
  <2>1. CASE Goto(s, "recheck")
    <3>1. pc'[s] = "recheck"
      BY <1>1, <2>1 DEF Goto, TypeOK
    <3>2. KnowsSource(s)' /\ KnowsWork(s)'
      BY <1>2, <1>3, <1>4, <3>1 DEF KnowsSource, KnowsWork, Asked, Starting
    <3>3. AllMoved(s)'
      BY <1>4, <1>6, <1>7, <1>8 DEF AllMoved
    <3> QED
      BY <3>2, <3>3 DEF MoveHolds
  <2>2. CASE Reply(s, "ok")
    BY <1>1, <2>2, AnsweredMoves
  <2> QED
    BY <1>8, <2>1, <2>2 DEF ListPage
<1>9. CASE page # {}
  <2>1. PICK last \in page : /\ IsLast(last, page)
                             /\ cursor' = [cursor EXCEPT ![s] = last]
                             /\ Goto(s, "copy")
    BY <1>9 DEF ListPage
  <2>2. pc'[s] = "copy" /\ cursor'[s] = last
    BY <1>1, <2>1 DEF Goto, TypeOK
  <2>3. \A k \in rest \ page : KeyLess(last, k)
    <3> HIDE DEF rest
    <3> QED
      BY <1>5, <2>1, PageIsFirst
  <2>4. KnowsSource(s)' /\ KnowsWork(s)'
    BY <1>2, <1>3, <1>4, <2>2 DEF KnowsSource, KnowsWork, Asked, Starting
  <2>5. \A k \in rest : Pending(s, k)'
    <3> HIDE DEF rest, page
    <3> QED
      BY <1>3, <2>2, <2>3 DEF Pending
  <2>6. AllMoved(s)'
    <3> HIDE DEF rest, page
    <3> QED
      BY <1>4, <1>6, <2>5 DEF AllMoved
  <2> QED
    BY <2>4, <2>6 DEF MoveHolds
<1> QED
  BY <1>8, <1>9

(* The copies themselves. *)
LEMMA CopyMoves ==
  ASSUME IInv, NEW s \in Sessions, MoveHolds(s), Moving(s),
         CopyWithinBackend(s) \/ StreamGet(s) \/ StreamPut(s)
  PROVE  MoveHolds(s)'
<1>1. TypeOK /\ pc[s] \in {"copy", "upload"}
  BY DEF IInv, CopyWithinBackend, StreamGet, StreamPut
<1>2. KnowsSource(s) /\ KnowsWork(s) /\ AllMoved(s)
  BY DEF MoveHolds
<1>3. CASE CopyWithinBackend(s)
  <2>1. SrcBucket(s) = DstBucket(s)
    BY <1>3, SameBucket DEF CopyWithinBackend
  <2>2. PICK k \in todo[s] :
          /\ IsNext(k, s)
          /\ \/ Reply(s, "error")
             \/ /\ k \in DOMAIN store[SrcBucket(s)]
                /\ store' = [store EXCEPT ![DstBucket(s)] =
                               PutObject(store[DstBucket(s)], Target(s, k), store[SrcBucket(s)][k])]
                /\ \/ /\ todo' = [todo EXCEPT ![s] = todo[s] \ {k}]
                      /\ AfterCopy(s, todo[s] \ {k})
                      /\ UNCHANGED <<cursor, more>>
                   \/ LoseReply(s)
    BY <1>3, <2>1 DEF WhenCopyFails, CopyWithinBackend
  <2>3. UNCHANGED <<req, isFile, body>>
    BY <1>3 DEF CopyWithinBackend
  <2> QED
    BY <1>1, <2>2, <2>3, AnsweredMoves, CopiedMoves
<1>4. CASE StreamPut(s)
  <2>1. PICK k \in todo[s] :
          /\ IsNext(k, s)
          /\ store' = [store EXCEPT ![DstBucket(s)] =
                         PutObject(store[DstBucket(s)], Target(s, k), body[s])]
          /\ \/ /\ todo' = [todo EXCEPT ![s] = todo[s] \ {k}]
                /\ AfterCopy(s, todo[s] \ {k})
                /\ UNCHANGED <<cursor, more>>
             \/ LoseReply(s)
    BY <1>4 DEF StreamPut
  <2>2. UNCHANGED <<req, isFile, body>> /\ pc[s] = "upload"
    BY <1>4 DEF StreamPut
  <2>3. k \in DOMAIN store[SrcBucket(s)] /\ body[s] = store[SrcBucket(s)][k]
    BY <1>2, <2>1, <2>2 DEF KnowsWork
  <2> QED
    BY <1>1, <2>1, <2>2, <2>3, CopiedMoves
<1>5. CASE StreamGet(s)
  <2>1. PICK k \in todo[s] :
          /\ IsNext(k, s)
          /\ \/ /\ k \in DOMAIN store[SrcBucket(s)]
                /\ body' = [body EXCEPT ![s] = store[SrcBucket(s)][k]]
                /\ Goto(s, "upload")
             \/ Reply(s, "error")
    BY <1>5 DEF WhenCopyFails, StreamGet
  <2>2. UNCHANGED <<store, req, isFile, todo, cursor, more>> /\ pc[s] = "copy"
    BY <1>5 DEF StreamGet, walk
  <2>3. CASE /\ k \in DOMAIN store[SrcBucket(s)]
             /\ body' = [body EXCEPT ![s] = store[SrcBucket(s)][k]]
             /\ Goto(s, "upload")
    <3>1. pc'[s] = "upload" /\ body'[s] = store[SrcBucket(s)][k]
      BY <1>1, <2>3 DEF Goto, TypeOK
    <3>2. /\ SrcBucket(s)' = SrcBucket(s) /\ SrcKey(s)' = SrcKey(s) /\ Below(s)' = Below(s)
          /\ SourceKeys(s)' = SourceKeys(s) /\ \A j : Copied(s, j)' <=> Copied(s, j)
      BY <2>2, MovingNames
    <3>3. \A j \in todo'[s] : IsNext(j, s)' => j = k
      <4>1. \A j \in todo[s] : IsNext(j, s) => j = k
        BY <1>1, <2>1, NextIsOne
      <4> QED
        BY <2>2, <4>1 DEF IsNext
    <3>4. KnowsSource(s)'
      BY <1>2, <2>2, <3>1, <3>2 DEF KnowsSource, Asked
    <3>5. KnowsWork(s)'
      BY <1>2, <2>2, <2>3, <3>1, <3>2, <3>3 DEF KnowsWork, Starting
    <3>6. \A j : Pending(s, j) => Pending(s, j)'
      BY <2>2, <3>1 DEF Pending
    <3>7. AllMoved(s)'
      BY <1>1, <1>2, <3>2, <3>6 DEF AllMoved, Underway
    <3> QED
      BY <3>4, <3>5, <3>7 DEF MoveHolds
  <2> QED
    BY <1>1, <2>1, <2>3, AnsweredMoves
<1> QED
  BY <1>3, <1>4, <1>5


(* The end of a rename: what it deletes has been copied. *)
LEMMA RemovalMoves ==
  ASSUME IInv, NEW s \in Sessions, MoveHolds(s), Moving(s),
         Recheck(s) \/ DeleteSource(s) \/ DeleteList(s) \/ DeleteBatch(s)
  PROVE  MoveHolds(s)'
<1>1. /\ TypeOK /\ Fits(s) /\ Accepted(s, req[s]) /\ pc[s] # "idle"
      /\ req[s].method \in {"Rename", "Copy"}
  BY DEF IInv, WorkFitsCommand, Fits, Moving, Recheck, DeleteSource, DeleteList, DeleteBatch
<1>2. KnowsSource(s) /\ KnowsWork(s) /\ AllMoved(s)
  BY DEF MoveHolds
<1>3. UNCHANGED req
  BY DEF Recheck, DeleteSource, DeleteList, DeleteBatch
<1>4. /\ SrcBucket(s)' = SrcBucket(s) /\ SrcKey(s)' = SrcKey(s)
      /\ UNCHANGED store => Below(s)' = Below(s)
      /\ UNCHANGED store /\ isFile'[s] = isFile[s] =>
           SourceKeys(s)' = SourceKeys(s) /\ \A k : Copied(s, k)' <=> Copied(s, k)
  BY <1>3, MovingNames
<1>5. \A k \in SourceKeys(s) : Copied(s, k)
  BY <1>2 DEF AllMoved, Pending, Underway, Recheck, DeleteSource, DeleteList, DeleteBatch
<1>6. CASE Recheck(s)
  <2>1. pc[s] = "recheck" /\ UNCHANGED store /\ isFile'[s] = isFile[s]
        /\ pc'[s] = IF isFile[s] THEN "deleteObject" ELSE "deleteList"
    BY <1>1, <1>2, <1>6 DEF Recheck, TypeOK, Goto, KnowsSource, Asked
  <2>2. KnowsSource(s)' /\ KnowsWork(s)'
    BY <2>1 DEF KnowsSource, KnowsWork, Asked, Starting
  <2> QED
    BY <1>4, <1>5, <2>1, <2>2 DEF MoveHolds, AllMoved
<1>7. CASE DeleteList(s)
  <2>1. pc[s] = "deleteList" /\ UNCHANGED <<store, isFile>> /\ ~ isFile[s]
    BY <1>2, <1>7 DEF DeleteList, KnowsSource
  <2>2. CASE \E c \in {"deleteList", "deleteBatch"} : Goto(s, c)
    <3>1. pc'[s] \in {"deleteList", "deleteBatch"}
      BY <1>1, <2>2 DEF Goto, TypeOK
    <3>2. KnowsSource(s)' /\ KnowsWork(s)'
      BY <2>1, <3>1 DEF KnowsSource, KnowsWork, Asked, Starting
    <3> QED
      BY <1>4, <1>5, <2>1, <3>2 DEF MoveHolds, AllMoved
  <2>3. CASE Reply(s, "ok")
    BY <1>1, <2>3, AnsweredMoves
  <2> QED
    BY <1>7, <2>2, <2>3 DEF DeleteList
<1>8. ASSUME NEW keys, keys \subseteq Key, \A j \in keys : j = SrcKey(s) \/ InDir(j, SrcDir(s)),
             store' = [store EXCEPT ![SrcBucket(s)] = DeleteKeys(store[SrcBucket(s)], keys)],
             UNCHANGED isFile
      PROVE  \A k \in SourceKeys(s)' : Copied(s, k)'
  <2>1. /\ SourceKeys(s)' = SourceKeys(s) \ keys
        /\ \A j \in SourceKeys(s) : Copied(s, j) => (j \notin keys => Copied(s, j)')
    BY <1>1, <1>3, <1>8, DeletingMoves
  <2> QED
    BY <1>5, <2>1
<1>9. CASE DeleteSource(s)
  <2>1. /\ pc[s] = "deleteObject" /\ isFile[s] /\ UNCHANGED isFile
        /\ store' = [store EXCEPT ![SrcBucket(s)] = DeleteKeys(store[SrcBucket(s)], {SrcKey(s)})]
        /\ (\E a \in {"ok", "error"} : Reply(s, a)) \/ UNCHANGED <<pc, answer>>
    BY <1>1, <1>2, <1>9 DEF DeleteSource, KnowsSource, LoseReply
  <2>2. SrcKey(s) \in Key
    BY <1>1, SourceTyped
  <2>3. \A k \in SourceKeys(s)' : Copied(s, k)'
    <3> DEFINE keys == {SrcKey(s)}
    <3>1. /\ keys \subseteq Key /\ \A j \in keys : j = SrcKey(s) \/ InDir(j, SrcDir(s))
          /\ store' = [store EXCEPT ![SrcBucket(s)] = DeleteKeys(store[SrcBucket(s)], keys)]
      BY <2>1, <2>2
    <3> HIDE DEF keys
    <3> QED
      BY <1>8, <2>1, <3>1
  <2>4. CASE UNCHANGED <<pc, answer>>
    <3>1. KnowsSource(s)' /\ KnowsWork(s)'
      BY <2>1, <2>4 DEF KnowsSource, KnowsWork, Asked, Starting
    <3> QED
      BY <2>3, <3>1 DEF MoveHolds, AllMoved
  <2> QED
    BY <1>1, <2>1, <2>4, AnsweredMoves
<1>10. CASE DeleteBatch(s)
  <2> DEFINE batch == FirstKeys(todo[s], BatchSize)
  <2>1. /\ pc[s] = "deleteBatch" /\ ~ isFile[s] /\ UNCHANGED isFile
    BY <1>2, <1>10 DEF DeleteBatch, KnowsSource
  <2>2. PICK kept \in SUBSET batch :
          store' = [store EXCEPT ![SrcBucket(s)] = DeleteKeys(store[SrcBucket(s)], batch \ kept)]
    BY <1>10 DEF DeleteBatch
  <2>3. batch \subseteq todo[s]
    BY PagesAreListed
  <2>4. batch \ kept \subseteq Key /\ \A j \in batch \ kept : InDir(j, SrcDir(s))
    BY <1>1, <2>1, <2>3 DEF TypeOK, Fits
  <2>5. \A k \in SourceKeys(s)' : Copied(s, k)'
    <3> HIDE DEF batch
    <3> QED
      BY <1>8, <2>1, <2>2, <2>4
  <2>6. \/ \E a \in {"ok", "error"} : Reply(s, a)
        \/ Goto(s, "deleteBatch")
        \/ UNCHANGED <<pc, answer>>
    BY <1>10 DEF DeleteBatch, LoseReply
  <2>7. CASE Goto(s, "deleteBatch") \/ UNCHANGED <<pc, answer>>
    <3>1. pc'[s] = "deleteBatch"
      BY <1>1, <2>1, <2>7 DEF Goto, TypeOK
    <3>2. KnowsSource(s)' /\ KnowsWork(s)'
      BY <2>1, <3>1 DEF KnowsSource, KnowsWork, Asked, Starting
    <3> QED
      BY <2>5, <3>2 DEF MoveHolds, AllMoved
  <2> QED
    BY <1>1, <2>6, <2>7, AnsweredMoves
<1> QED
  BY <1>6, <1>7, <1>9, <1>10

LEMMA MoveStep ==
  ASSUME IInv, NEW s \in Sessions, MoveHolds(s), Start(s) \/ Call(s) \/ Fail(s)
  PROVE  MoveHolds(s)'
<1>1. TypeOK /\ (pc[s] # "idle" => Fits(s))
  BY DEF IInv, WorkFitsCommand
<1>2. CASE Start(s)
  BY <1>1, <1>2, StartMoves
<1>3. ASSUME Call(s) \/ Fail(s) PROVE UNCHANGED req
  BY <1>3 DEF Call, Fail, HeadSource, ProbeChildren, HeadPlaceholder, ListPage, CopyWithinBackend,
       StreamGet, StreamPut, Recheck, DeleteSource, DeleteList, DeleteBatch, Put, RefuseKey
<1>4. CASE (Call(s) \/ Fail(s)) /\ ~ Moving(s)
  <2>1. ~ Moving(s)'
    BY <1>3, <1>4, MovingNames
  <2> QED
    BY <2>1 DEF MoveHolds
<1>5. CASE Moving(s) /\ (RefuseKey(s) \/ Fail(s))
  BY <1>1, <1>5, AnsweredMoves DEF RefuseKey, Fail
<1>6. CASE Moving(s) /\ Put(s)
  BY <1>1, <1>6 DEF Put, Fits, Moving
<1> QED
  BY <1>2, <1>4, <1>5, <1>6, SourceMoves, PageMoves, CopyMoves, RemovalMoves DEF Call


(* What a session removes while it renames is stored where it was moved.   *)
LEMMA MovedIsStored ==
  ASSUME IInv, NEW s \in Sessions, MoveHolds(s), Moving(s), Start(s) \/ Call(s) \/ Fail(s),
         pc[s] # "idle", NEW c \in Buckets, NEW k \in DOMAIN store[c] \ DOMAIN store'[c]
  PROVE  Stored(store', store[c][k])
<1>1. TypeOK /\ Fits(s) /\ Accepted(s, req[s]) /\ req[s].method \in {"Rename", "Copy"}
  BY DEF IInv, WorkFitsCommand, Fits, Moving
<1>2. DeleteSource(s) \/ DeleteBatch(s)
  <2>1. ASSUME UNCHANGED store PROVE FALSE
    BY <2>1
  <2>2. ASSUME NEW b \in Buckets, NEW key, NEW x,
               store' = [store EXCEPT ![b] = PutObject(store[b], key, x)]
        PROVE  FALSE
    <3>1. store'[c] = store[c] \/ store'[c] = PutObject(store[c], key, x)
      BY <1>1, <2>2 DEF TypeOK, IsStore
    <3> QED
      BY <3>1 DEF PutObject
  <2>3. SrcBucket(s) \in Buckets /\ DstBucket(s) \in Buckets
    BY <1>1, SourceTyped, TargetTyped
  <2>4. ~ CopyWithinBackend(s)
    BY <2>1, <2>2, <2>3 DEF CopyWithinBackend
  <2>5. ~ StreamPut(s)
    BY <2>2, <2>3 DEF StreamPut
  <2>6. ~ Put(s)
    BY <2>2, <2>3 DEF Put
  <2>7. ~ Start(s) /\ ~ Fail(s) /\ ~ RefuseKey(s)
    BY <2>1 DEF Start, Fail, RefuseKey
  <2>8. /\ ~ HeadSource(s) /\ ~ ProbeChildren(s) /\ ~ HeadPlaceholder(s) /\ ~ ListPage(s)
        /\ ~ StreamGet(s) /\ ~ Recheck(s) /\ ~ DeleteList(s)
    BY <2>1 DEF HeadSource, ProbeChildren, HeadPlaceholder, ListPage, StreamGet, Recheck, DeleteList
  <2> QED
    BY <2>4, <2>5, <2>6, <2>7, <2>8 DEF Call
<1>3. KnowsSource(s) /\ \A j \in SourceKeys(s) : Copied(s, j)
  BY <1>2 DEF MoveHolds, AllMoved, Pending, Underway, DeleteSource, DeleteBatch
<1>4. ASSUME NEW keys, keys \subseteq Key, keys \cap DOMAIN store[SrcBucket(s)] \subseteq SourceKeys(s),
             \A j \in keys : j = SrcKey(s) \/ InDir(j, SrcDir(s)),
             store' = [store EXCEPT ![SrcBucket(s)] = DeleteKeys(store[SrcBucket(s)], keys)],
             UNCHANGED <<req, isFile>>
      PROVE  Stored(store', store[c][k])
  <2>1. c = SrcBucket(s) /\ k \in keys
    <3>1. SrcBucket(s) \in Buckets /\ (c # SrcBucket(s) => store'[c] = store[c])
      BY <1>1, <1>4, SourceTyped DEF TypeOK, IsStore
    <3>2. DOMAIN store'[SrcBucket(s)] = DOMAIN store[SrcBucket(s)] \ keys
      BY <1>1, <1>4, <3>1 DEF TypeOK, IsStore, DeleteKeys
    <3> QED
      BY <3>1, <3>2
  <2>2. k \in SourceKeys(s) /\ Copied(s, k)
    BY <1>3, <1>4, <2>1
  <2>3. /\ Target(s, k) \in DOMAIN store'[DstBucket(s)]
        /\ store'[DstBucket(s)][Target(s, k)] = store[SrcBucket(s)][k]
    BY <1>1, <1>4, <2>2, DeletingMoves
  <2>4. DstBucket(s) \in Buckets
    BY <1>1, TargetTyped
  <2> QED
    BY <2>1, <2>3, <2>4 DEF Stored
<1>5. CASE DeleteSource(s)
  <2> DEFINE keys == {SrcKey(s)}
  <2>1. isFile[s] /\ SrcKey(s) \in Key
    BY <1>1, <1>3, <1>5, SourceTyped DEF DeleteSource, KnowsSource
  <2>2. /\ keys \subseteq Key /\ keys \cap DOMAIN store[SrcBucket(s)] \subseteq SourceKeys(s)
        /\ \A j \in keys : j = SrcKey(s) \/ InDir(j, SrcDir(s))
        /\ store' = [store EXCEPT ![SrcBucket(s)] = DeleteKeys(store[SrcBucket(s)], keys)]
        /\ UNCHANGED <<req, isFile>>
    BY <1>5, <2>1 DEF DeleteSource, SourceKeys
  <2> HIDE DEF keys
  <2> QED
    BY <1>4, <2>2
<1>6. CASE DeleteBatch(s)
  <2> DEFINE batch == FirstKeys(todo[s], BatchSize)
  <2>1. pc[s] = "deleteBatch" /\ ~ isFile[s] /\ UNCHANGED <<req, isFile>>
    BY <1>3, <1>6 DEF DeleteBatch, KnowsSource
  <2>2. PICK kept \in SUBSET batch :
          store' = [store EXCEPT ![SrcBucket(s)] = DeleteKeys(store[SrcBucket(s)], batch \ kept)]
    BY <1>6 DEF DeleteBatch
  <2>3. batch \subseteq todo[s]
    BY PagesAreListed
  <2>4. \A j \in todo[s] : j \in Key /\ InDir(j, SrcDir(s))
    BY <1>1, <2>1 DEF TypeOK, Fits
  <2> DEFINE keys == batch \ kept
  <2>5. /\ keys \subseteq Key /\ \A j \in keys : j = SrcKey(s) \/ InDir(j, SrcDir(s))
        /\ keys \cap DOMAIN store[SrcBucket(s)] \subseteq SourceKeys(s)
    <3> HIDE DEF batch
    <3> QED
      BY <2>1, <2>3, <2>4 DEF SourceKeys, Below
  <2>6. store' = [store EXCEPT ![SrcBucket(s)] = DeleteKeys(store[SrcBucket(s)], keys)]
    BY <2>2
  <2> HIDE DEF keys
  <2> QED
    BY <1>4, <2>1, <2>5, <2>6
<1> QED
  BY <1>2, <1>5, <1>6

(* Every rename that a session may send is apart from its target. *)
RenamesApart ==
  \A s \in Sessions : \A r \in Requests[s] :
    r.method = "Rename" /\ Visible(s, r.from) /\ Visible(s, r.to) => ~ Overlap(s, r)

MoveInv == \A s \in Sessions : CommandWasSent(s) /\ MoveHolds(s)

LEMMA InitMoves == Init => MoveInv
<1> SUFFICES ASSUME Init, NEW s \in Sessions PROVE CommandWasSent(s) /\ MoveHolds(s)
  BY DEF MoveInv
<1>1. req[s] = NoRequest /\ NoRequest.method = "None"
  BY DEF Init, NoRequest
<1> QED
  BY <1>1 DEF CommandWasSent, MoveHolds, Moving

LEMMA SentStep ==
  ASSUME TypeOK, NEW s \in Sessions, CommandWasSent(s), Start(s) \/ Call(s) \/ Fail(s)
  PROVE  CommandWasSent(s)'
<1>1. CASE Start(s)
  BY <1>1 DEF TypeOK, Start, CommandWasSent
<1>2. CASE Call(s) \/ Fail(s)
  <2>1. UNCHANGED req
    BY <1>2 DEF Call, Fail, HeadSource, ProbeChildren, HeadPlaceholder, ListPage, CopyWithinBackend,
         StreamGet, StreamPut, Recheck, DeleteSource, DeleteList, DeleteBatch, Put, RefuseKey
  <2> QED
    BY <2>1 DEF CommandWasSent
<1> QED
  BY <1>1, <1>2

(* A session that is alone, whose renames have a source and a target that  *)
(* are apart (neither is the other, or below it, in one bucket): no step   *)
(* of a rename or a copy makes a content disappear, in however many pages  *)
(* the tree is listed, whatever is at the target already, whichever calls  *)
(* fail or take effect without an answer, and whatever the session did     *)
(* before (the handlers' Rename: copyPrefix, the second look at the        *)
(* source, DeletePrefix).                                                  *)
THEOREM RenamesLoseNothing ==
  ASSUME Alone, RenamesApart
  PROVE  Spec => RenameKeepsContent
<1> DEFINE Step ==
      \A c \in Buckets : \A k \in DOMAIN store[c] \ DOMAIN store'[c] :
        \/ store[c][k] = Empty
        \/ Stored(store', store[c][k])
        \/ \E s \in Sessions : req[s].method = "Remove" /\ MayRemove(s, c, k)
<1>1. Init => IInv /\ MoveInv
  BY InitKeeps, InitMoves
<1>2. ASSUME IInv, MoveInv, [Next]_vars PROVE MoveInv'
  <2>1. CASE UNCHANGED vars
    <3>1. ASSUME NEW s \in Sessions PROVE CommandWasSent(s)' /\ MoveHolds(s)'
      <4>1. /\ UNCHANGED <<req, store, isFile, pc, todo, cursor, more, body>>
            /\ CommandWasSent(s) /\ MoveHolds(s)
        BY <1>2, <2>1, <3>1 DEF vars, MoveInv
      <4>2. /\ SrcBucket(s)' = SrcBucket(s) /\ SrcKey(s)' = SrcKey(s) /\ Below(s)' = Below(s)
            /\ Moving(s)' <=> Moving(s)
            /\ SourceKeys(s)' = SourceKeys(s) /\ \A k : Copied(s, k)' <=> Copied(s, k)
        BY <4>1, MovingNames
      <4>3. (KnowsSource(s)' <=> KnowsSource(s)) /\ (KnowsWork(s)' <=> KnowsWork(s))
        BY <4>1, <4>2 DEF KnowsSource, KnowsWork, IsNext
      <4>4. AllMoved(s)' <=> AllMoved(s)
        BY <4>1, <4>2 DEF AllMoved, Pending
      <4> QED
        BY <4>1, <4>2, <4>3, <4>4 DEF CommandWasSent, MoveHolds
    <3> QED
      BY <3>1 DEF MoveInv
  <2>2. ASSUME NEW s \in Sessions, Start(s) \/ Call(s) \/ Fail(s) PROVE MoveInv'
    <3>1. MoveHolds(s)' /\ CommandWasSent(s)'
      BY <1>2, <2>2, MoveStep, SentStep DEF MoveInv, IInv
    <3>2. \A t \in Sessions : t = s
      BY DEF Alone
    <3> QED
      BY <3>1, <3>2 DEF MoveInv
  <2> QED
    BY <1>2, <2>1, <2>2 DEF Next, Quiescent
<1>3. ASSUME IInv, MoveInv, [Next]_vars PROVE [Step]_vars
  <2>1. CASE UNCHANGED vars
    BY <2>1
  <2>2. ASSUME NEW s \in Sessions, Start(s) \/ Call(s) \/ Fail(s),
               NEW c \in Buckets, NEW k \in DOMAIN store[c] \ DOMAIN store'[c]
        PROVE  \/ Stored(store', store[c][k])
               \/ \E t \in Sessions : req[t].method = "Remove" /\ MayRemove(t, c, k)
    <3>1. PICK t \in Sessions : MayRemove(t, c, k)
      BY <1>3, <2>2, StepKeeps DEF Inside
    <3>2. t = s /\ pc[s] # "idle" /\ req[s].method \in {"Remove", "Rename"}
      BY <3>1 DEF Alone, MayRemove
    <3>3. CASE req[s].method = "Rename"
      <4>1. req[s] \in Requests[s] /\ Accepted(s, req[s])
        <5>1. NoRequest.method = "None"
          BY DEF NoRequest
        <5> QED
          BY <1>3, <3>2, <3>3, <5>1 DEF MoveInv, CommandWasSent, IInv, WorkFitsCommand, Fits
      <4>2. Moving(s)
        BY <3>3, <4>1 DEF Moving, RenamesApart, Accepted
      <4>3. MoveHolds(s)
        BY <1>3 DEF MoveInv
      <4> QED
        BY <1>3, <2>2, <3>2, <4>2, <4>3, MovedIsStored
    <3> QED
      BY <3>1, <3>2, <3>3
  <2> QED
    BY <1>3, <2>1, <2>2 DEF Next, Quiescent
<1> QED
  BY <1>1, <1>2, <1>3, NextKeeps, PTL DEF Spec, RenameKeepsContent
=============================================================================
