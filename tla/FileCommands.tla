---------------------------- MODULE FileCommands ----------------------------
(***************************************************************************)
(* The SFTP commands that change files, run one S3 call at a time          *)
(* (internal/sftphandlers/handlers.go over internal/storage).  S3 has no   *)
(* rename and no directories: a command is a sequence of calls, and other  *)
(* sessions, failures and the end of the process come between them.        *)
(*                                                                         *)
(* A session runs one command at a time; an upload that ends while a       *)
(* command runs is a command of another session with the same rights.      *)
(***************************************************************************)
EXTENDS Bucket

CONSTANTS
  Sessions,      \* the SFTP sessions
  Backends,      \* the names of the configured backends
  NoBackend,     \* the virtual root, which belongs to no backend
  Buckets,       \* the S3 buckets
  BucketOf,      \* the bucket of a backend; several backends may share one
  VFS,           \* VFS[s]: the prefix of each backend that session s sees
  Perms,         \* Perms[s]: the permissions of session s
  Contents,      \* what an object may contain
  Empty,         \* the content of a directory placeholder
  Requests,      \* Requests[s]: the commands that session s may send
  InitialStores, \* what the buckets may hold at first
  PageSize,      \* keys in a page of a listing (1000 in S3)
  BatchSize,     \* keys in a call of DeleteObjects (1000 in the code)
  PerKeyErrors,  \* may DeleteObjects keep some keys and still succeed?
  MaxCommands,   \* bound: commands sent in a behaviour
  MaxFaults      \* bound: failed or repeated calls in a behaviour

Permissions == {"read", "write", "delete"}
Methods     == {"None", "Rename", "Copy", "Remove", "Mkdir", "Put"}
Path        == [backend : Backends \cup {NoBackend}, rel : Seq(Name)]
Request     == [method : Methods, from : Path, to : Path, content : Contents]

RootPath  == [backend |-> NoBackend, rel |-> <<>>]
NoRequest == [method |-> "None", from |-> RootPath, to |-> RootPath,
              content |-> Empty]

(* A bucket has some number of objects, whose names are not empty. *)
IsStore(st) ==
  /\ DOMAIN st = Buckets
  /\ \A c \in Buckets :
        /\ IsFiniteSet(DOMAIN st[c])
        /\ \A k \in DOMAIN st[c] : k \in Key /\ ValidKey(k) /\ st[c][k] \in Contents

ASSUME NoBackendAssumption == NoBackend \notin Backends
ASSUME BucketOfAssumption == BucketOf \in [Backends -> Buckets]
ASSUME VFSAssumption ==
  \A s \in Sessions : /\ DOMAIN VFS[s] \subseteq Backends
                      /\ \A b \in DOMAIN VFS[s] : VFS[s][b] \in Seq(Segment)
ASSUME PermsAssumption == \A s \in Sessions : Perms[s] \subseteq Permissions
ASSUME EmptyAssumption == Empty \in Contents
ASSUME RequestsAssumption == \A s \in Sessions : \A r \in Requests[s] : r \in Request
ASSUME InitialStoresAssumption == \A st \in InitialStores : IsStore(st)
ASSUME SizeAssumption == PageSize \in Nat \ {0} /\ BatchSize \in Nat \ {0}
ASSUME BoundAssumption == MaxCommands \in Nat /\ MaxFaults \in Nat
ASSUME PerKeyErrorsAssumption == PerKeyErrors \in BOOLEAN

VARIABLES
  store,     \* store[c]: the objects of bucket c
  pc,        \* pc[s]: the next S3 call of the command of s, or "idle"
  req,       \* req[s]: the command of s, or its last one
  isFile,    \* isFile[s]: the source key exists as an object
  children,  \* children[s]: something exists below the source
  todo,      \* todo[s]: keys listed, and still to be copied or deleted
  cursor,    \* cursor[s]: the last key of the last page listed
  more,      \* more[s]: the last page listed was not the last one
  body,      \* body[s]: the content being uploaded
  answer,    \* answer[s]: how the last command of s was answered
  sent,      \* commands sent so far
  faults     \* failed or repeated calls so far

vars == <<store, pc, req, isFile, children, todo, cursor, more, body,
          answer, sent, faults>>

walk == <<todo, cursor, more>>
-----------------------------------------------------------------------------
(* What a command names. *)
SrcBucket(s) == BucketOf[req[s].from.backend]
SrcPrefix(s) == VFS[s][req[s].from.backend]
SrcKey(s)    == ObjectKey(SrcPrefix(s), req[s].from.rel)
SrcDir(s)    == DirPrefix(SrcPrefix(s), req[s].from.rel)
DstBucket(s) == BucketOf[req[s].to.backend]
DstPrefix(s) == VFS[s][req[s].to.backend]
DstKey(s)    == ObjectKey(DstPrefix(s), req[s].to.rel)
DstDir(s)    == DirPrefix(DstPrefix(s), req[s].to.rel)

CrossBackend(r) == r.from.backend # r.to.backend

(* Variant: the directories between the source and the object are lost. *)
TargetByName(s, k) ==
  IF isFile[s] THEN DstKey(s) ELSE DstDir(s) \o <<k[Len(k)]>>

(* Where the object k of the source goes. *)
Target(s, k) ==
  IF isFile[s] THEN DstKey(s) ELSE Rebase(k, SrcDir(s), DstDir(s))

IsNext(k, s) == k \in todo[s] /\ \A j \in todo[s] : ~ KeyLess(j, k)

(* resolve: the path is on a backend that the session sees. *)
Visible(s, path) == path.backend \in DOMAIN VFS[s]

(* Variant: a rename is taken for a write. *)
NeedsWriteOnly(r) ==
  IF r.method = "Remove" THEN {"delete"} ELSE {"write"}

Needs(r) ==
  CASE r.method = "Rename" ->
         {"delete", "write"} \cup (IF CrossBackend(r) THEN {"read"} ELSE {})
    [] r.method = "Copy"   -> {"read", "write"}
    [] r.method = "Remove" -> {"delete"}
    [] OTHER               -> {"write"}

(* Variant: the root of a backend is not special. *)
AcceptedAtRoot(s, r) ==
  /\ r.method # "None"
  /\ Needs(r) \subseteq Perms[s]
  /\ Visible(s, r.from)
  /\ r.method \in {"Rename", "Copy"} => Visible(s, r.to)

(* The checks made before the first S3 call. *)
Accepted(s, r) ==
  /\ r.method # "None"
  /\ Needs(r) \subseteq Perms[s]
  /\ Visible(s, r.from)
  /\ r.method \in {"Rename", "Copy"} => Visible(s, r.to)
  /\ r.method \in {"Remove", "Put"} => r.from.rel # <<>>

(* The root of a backend always exists: Mkdir has nothing to do. *)
NothingToDo(r) == r.method = "Mkdir" /\ r.from.rel = <<>>
-----------------------------------------------------------------------------
Init ==
  /\ store \in InitialStores
  /\ pc = [s \in Sessions |-> "idle"]
  /\ req = [s \in Sessions |-> NoRequest]
  /\ isFile = [s \in Sessions |-> FALSE]
  /\ children = [s \in Sessions |-> FALSE]
  /\ todo = [s \in Sessions |-> {}]
  /\ cursor = [s \in Sessions |-> <<>>]
  /\ more = [s \in Sessions |-> FALSE]
  /\ body = [s \in Sessions |-> Empty]
  /\ answer = [s \in Sessions |-> "none"]
  /\ sent = 0
  /\ faults = 0

Reply(s, a) == /\ pc' = [pc EXCEPT ![s] = "idle"]
               /\ answer' = [answer EXCEPT ![s] = a]

Goto(s, call) == /\ pc' = [pc EXCEPT ![s] = call]
                 /\ UNCHANGED answer

(* Variant: the copy ends with the first page. *)
AfterCopyOnePage(s, rest) ==
  IF rest # {} THEN Goto(s, "copy")
  ELSE IF req[s].method = "Rename" THEN Goto(s, "recheck")
  ELSE Reply(s, "ok")

(* What follows a copied object, when `rest` is left of its page. *)
AfterCopy(s, rest) ==
  IF rest # {} THEN Goto(s, "copy")
  ELSE IF more[s] THEN Goto(s, "list")
  ELSE IF req[s].method = "Rename" THEN Goto(s, "recheck")
  ELSE Reply(s, "ok")

(* Variant: the loops over pages and objects end, and the error is lost. *)
WhenCopyFailsGoOn(s) ==
  IF req[s].method = "Rename" THEN Goto(s, "recheck") ELSE Reply(s, "ok")

(* What follows an object that could not be copied. *)
WhenCopyFails(s) == Reply(s, "error")

(* A client sends a command.  It is refused, or has nothing to do, or      *)
(* starts with its first S3 call.                                          *)
Start(s) ==
  /\ pc[s] = "idle"
  /\ sent < MaxCommands
  /\ \E r \in Requests[s] :
        /\ req' = [req EXCEPT ![s] = r]
        /\ body' = [body EXCEPT ![s] = IF r.method = "Put" THEN r.content ELSE Empty]
        /\ IF ~ Accepted(s, r) THEN Reply(s, "error")
           ELSE IF NothingToDo(r) THEN Reply(s, "ok")
           ELSE /\ pc' = [pc EXCEPT ![s] =
                           IF r.method \in {"Put", "Mkdir"} THEN "put" ELSE "exists"]
                /\ answer' = [answer EXCEPT ![s] = "none"]
  /\ isFile' = [isFile EXCEPT ![s] = FALSE]
  /\ children' = [children EXCEPT ![s] = FALSE]
  /\ todo' = [todo EXCEPT ![s] = {}]
  /\ cursor' = [cursor EXCEPT ![s] = <<>>]
  /\ more' = [more EXCEPT ![s] = FALSE]
  /\ sent' = sent + 1
  /\ UNCHANGED <<store, faults>>
-----------------------------------------------------------------------------
(* Failures.  A call fails before it does anything (an S3 error, the       *)
(* backend's timeout, the end of the connection), or it takes effect and   *)
(* its reply is lost: then the S3 client repeats the call or gives up.     *)
Fail(s) ==
  /\ pc[s] # "idle"
  /\ faults < MaxFaults
  /\ faults' = faults + 1
  /\ Reply(s, "error")
  /\ UNCHANGED <<store, req, isFile, children, walk, body, sent>>

LoseReply(s) ==
  /\ faults < MaxFaults
  /\ faults' = faults + 1
  /\ Reply(s, "error") \/ UNCHANGED <<pc, answer>>
  /\ UNCHANGED walk

(* The key of the next call is the empty string. *)
KeyIsEmpty(s) ==
  CASE pc[s] = "exists"      -> ~ ValidKey(SrcKey(s))
    [] pc[s] = "placeholder" -> ~ ValidKey(Placeholder(SrcDir(s)))
    [] pc[s] = "upload" \/ (pc[s] = "copy" /\ ~ CrossBackend(req[s])) ->
         \E k \in todo[s] : IsNext(k, s) /\ ~ ValidKey(Target(s, k))
    [] OTHER -> FALSE

RefuseKey(s) ==
  /\ KeyIsEmpty(s)
  /\ Reply(s, "error")
  /\ UNCHANGED <<store, req, isFile, children, walk, body, sent, faults>>
-----------------------------------------------------------------------------
(* Is the source a file?  (HeadObject) *)
HeadSource(s) ==
  LET found == SrcKey(s) \in DOMAIN store[SrcBucket(s)]
  IN  /\ pc[s] = "exists"
      /\ ~ KeyIsEmpty(s)
      /\ isFile' = [isFile EXCEPT ![s] = found]
      /\ IF found /\ req[s].method # "Remove"
         THEN /\ todo' = [todo EXCEPT ![s] = {SrcKey(s)}]
              /\ Goto(s, "copy")
         ELSE /\ UNCHANGED todo
              /\ Goto(s, "children")
      /\ UNCHANGED <<store, req, children, cursor, more, body, sent, faults>>

(* Is there anything below the source?  (ListObjectsV2 of one key) *)
ProbeChildren(s) ==
  LET found == HasEntries(store[SrcBucket(s)], SrcDir(s))
  IN  /\ pc[s] = "children"
      /\ children' = [children EXCEPT ![s] = found]
      /\ IF req[s].method = "Remove"
         THEN IF isFile[s] THEN Goto(s, "deleteObject")
              ELSE IF found THEN Goto(s, "deleteList")
              ELSE Reply(s, "error")
         ELSE Goto(s, IF found THEN "list" ELSE "placeholder")
      /\ UNCHANGED <<store, req, isFile, walk, body, sent, faults>>

(* No children: copy the directory's placeholder, if there is one. *)
HeadPlaceholder(s) ==
  LET key == Placeholder(SrcDir(s))
  IN  /\ pc[s] = "placeholder"
      /\ ~ KeyIsEmpty(s)
      /\ IF key \in DOMAIN store[SrcBucket(s)]
         THEN /\ todo' = [todo EXCEPT ![s] = {key}]
              /\ Goto(s, "copy")
         ELSE /\ UNCHANGED todo
              /\ Reply(s, "error")
      /\ UNCHANGED <<store, req, isFile, children, cursor, more, body, sent, faults>>

(* The next page of the source directory, as the directory is now. *)
ListPage(s) ==
  LET rest == Remaining(store[SrcBucket(s)], SrcDir(s), cursor[s])
      page == FirstKeys(rest, PageSize)
  IN  /\ pc[s] = "list"
      /\ todo' = [todo EXCEPT ![s] = page]
      /\ more' = [more EXCEPT ![s] = page # rest]
      /\ \/ /\ page = {}
            /\ UNCHANGED cursor
            /\ IF req[s].method = "Rename" THEN Goto(s, "recheck") ELSE Reply(s, "ok")
         \/ \E last \in page :
               /\ IsLast(last, page)
               /\ cursor' = [cursor EXCEPT ![s] = last]
               /\ Goto(s, "copy")
      /\ UNCHANGED <<store, req, isFile, children, body, sent, faults>>

(* CopyObject.  The source object may have gone since it was listed, and   *)
(* S3 may refuse to copy an object to itself.                              *)
CopyWithinBackend(s) ==
  /\ pc[s] = "copy"
  /\ ~ CrossBackend(req[s])
  /\ ~ KeyIsEmpty(s)
  /\ \E k \in todo[s] :
        LET src  == store[SrcBucket(s)]
            rest == todo[s] \ {k}
        IN  /\ IsNext(k, s)
            /\ \/ /\ k \notin DOMAIN src \/ k = Target(s, k)
                  /\ WhenCopyFails(s)
                  /\ UNCHANGED <<store, walk, faults>>
               \/ /\ k \in DOMAIN src
                  /\ store' = [store EXCEPT ![SrcBucket(s)] =
                                 PutObject(src, Target(s, k), src[k])]
                  /\ \/ /\ todo' = [todo EXCEPT ![s] = rest]
                        /\ AfterCopy(s, rest)
                        /\ UNCHANGED <<cursor, more, faults>>
                     \/ LoseReply(s)
  /\ UNCHANGED <<req, isFile, children, body, sent>>

(* streamCopyObject: GetObject from one backend ... *)
StreamGet(s) ==
  /\ pc[s] = "copy"
  /\ CrossBackend(req[s])
  /\ \E k \in todo[s] :
        LET src == store[SrcBucket(s)]
        IN  /\ IsNext(k, s)
            /\ IF k \in DOMAIN src
               THEN /\ body' = [body EXCEPT ![s] = src[k]]
                    /\ Goto(s, "upload")
               ELSE /\ UNCHANGED body
                    /\ WhenCopyFails(s)
  /\ UNCHANGED <<store, req, isFile, children, walk, sent, faults>>

(* ... and an upload of what was read to the other. *)
StreamPut(s) ==
  /\ pc[s] = "upload"
  /\ ~ KeyIsEmpty(s)
  /\ \E k \in todo[s] :
        LET rest == todo[s] \ {k}
        IN  /\ IsNext(k, s)
            /\ store' = [store EXCEPT ![DstBucket(s)] =
                           PutObject(@, Target(s, k), body[s])]
            /\ \/ /\ todo' = [todo EXCEPT ![s] = rest]
                  /\ AfterCopy(s, rest)
                  /\ UNCHANGED <<cursor, more, faults>>
               \/ LoseReply(s)
  /\ UNCHANGED <<req, isFile, children, body, sent>>

(* A rename has copied everything: it asks again whether the source is a   *)
(* file, to know what it deletes.                                          *)
Recheck(s) ==
  LET found == SrcKey(s) \in DOMAIN store[SrcBucket(s)]
  IN  /\ pc[s] = "recheck"
      /\ isFile' = [isFile EXCEPT ![s] = found]
      /\ cursor' = [cursor EXCEPT ![s] = <<>>]
      /\ Goto(s, IF found THEN "deleteObject" ELSE "deleteList")
      /\ UNCHANGED <<store, req, children, todo, more, body, sent, faults>>

(* DeleteObject of the source key. *)
DeleteSource(s) ==
  /\ pc[s] = "deleteObject"
  /\ store' = [store EXCEPT ![SrcBucket(s)] = DeleteKeys(@, {SrcKey(s)})]
  /\ \/ /\ IF req[s].method = "Remove" /\ children[s]
           THEN Goto(s, "deleteList")
           ELSE Reply(s, "ok")
        /\ UNCHANGED <<walk, faults>>
     \/ LoseReply(s)
  /\ UNCHANGED <<req, isFile, children, body, sent>>

(* DeletePrefix: the keys of the directory are listed page by page ... *)
DeleteList(s) ==
  LET rest == Remaining(store[SrcBucket(s)], SrcDir(s), cursor[s])
      page == FirstKeys(rest, PageSize)
      keys == todo[s] \cup page
  IN  /\ pc[s] = "deleteList"
      /\ todo' = [todo EXCEPT ![s] = keys]
      /\ \/ page = {} /\ UNCHANGED cursor
         \/ \E last \in page : /\ IsLast(last, page)
                               /\ cursor' = [cursor EXCEPT ![s] = last]
      /\ IF page # rest THEN Goto(s, "deleteList")
         ELSE IF keys # {} THEN Goto(s, "deleteBatch")
         ELSE Reply(s, "ok")
      /\ UNCHANGED <<store, req, isFile, children, more, body, sent, faults>>

(* ... and all of them deleted, a batch at a time.  The errors of single   *)
(* keys that a successful reply may carry are not looked at.               *)
DeleteBatch(s) ==
  LET batch == FirstKeys(todo[s], BatchSize)
      rest  == todo[s] \ batch
  IN  /\ pc[s] = "deleteBatch"
      /\ \E kept \in IF PerKeyErrors THEN SUBSET batch ELSE {{}} :
            store' = [store EXCEPT ![SrcBucket(s)] = DeleteKeys(@, batch \ kept)]
      /\ \/ /\ todo' = [todo EXCEPT ![s] = rest]
            /\ IF rest # {} THEN Goto(s, "deleteBatch") ELSE Reply(s, "ok")
            /\ UNCHANGED <<cursor, more, faults>>
         \/ LoseReply(s)
      /\ UNCHANGED <<req, isFile, children, body, sent>>

(* Variant: a file is stored under the name of a directory. *)
PutKeyOfDir(s) == Placeholder(SrcDir(s))

(* The upload of a written file, and the placeholder of a new directory. *)
PutKey(s) ==
  IF req[s].method = "Mkdir" THEN Placeholder(SrcDir(s)) ELSE SrcKey(s)

Put(s) ==
  /\ pc[s] = "put"
  /\ store' = [store EXCEPT ![SrcBucket(s)] = PutObject(@, PutKey(s), body[s])]
  /\ \/ Reply(s, "ok") /\ UNCHANGED <<walk, faults>>
     \/ LoseReply(s)
  /\ UNCHANGED <<req, isFile, children, body, sent>>
-----------------------------------------------------------------------------
(* The step of a session that has a command to run. *)
Call(s) ==
  \/ HeadSource(s) \/ ProbeChildren(s) \/ HeadPlaceholder(s) \/ ListPage(s)
  \/ CopyWithinBackend(s) \/ StreamGet(s) \/ StreamPut(s) \/ Recheck(s)
  \/ DeleteSource(s) \/ DeleteList(s) \/ DeleteBatch(s) \/ Put(s)
  \/ RefuseKey(s)

(* The clients have sent all they will send. *)
Quiescent ==
  /\ sent = MaxCommands
  /\ \A s \in Sessions : pc[s] = "idle"
  /\ UNCHANGED vars

Next == (\E s \in Sessions : Start(s) \/ Call(s) \/ Fail(s)) \/ Quiescent

Spec == Init /\ [][Next]_vars

(* Handlers run to their end whatever the clients do: every S3 call        *)
(* returns, at the latest when the backend's timeout expires.              *)
FairSpec == Spec /\ \A s \in Sessions : WF_vars(Call(s))
-----------------------------------------------------------------------------
(* Properties.                                                             *)

Calls == {"exists", "children", "placeholder", "list", "copy", "upload",
          "recheck", "deleteObject", "deleteList", "deleteBatch", "put"}

(* Every variable has its type; no object has an empty name, whatever path *)
(* a client gives (the `key == ""` checks of the handlers and the SDK's).  *)
TypeOK ==
  /\ IsStore(store)
  /\ pc \in [Sessions -> Calls \cup {"idle"}]
  /\ DOMAIN req = Sessions /\ \A s \in Sessions : req[s] \in Request
  /\ isFile \in [Sessions -> BOOLEAN]
  /\ children \in [Sessions -> BOOLEAN]
  /\ DOMAIN todo = Sessions
  /\ \A s \in Sessions : \A k \in todo[s] : k \in Key
  /\ DOMAIN cursor = Sessions /\ \A s \in Sessions : cursor[s] \in Seq(Segment)
  /\ more \in [Sessions -> BOOLEAN]
  /\ body \in [Sessions -> Contents]
  /\ answer \in [Sessions -> {"none", "ok", "error"}]
  /\ sent \in 0..MaxCommands
  /\ faults \in 0..MaxFaults

(* The control state of a session fits the command that it runs, and the   *)
(* keys that it is about to copy or to delete are in the tree which that   *)
(* command names: none is left over from the listing of an earlier phase   *)
(* or of an earlier command.                                               *)
Fits(s) ==
  LET m == req[s].method IN
  /\ Accepted(s, req[s])
  /\ ~ NothingToDo(req[s])
  /\ (pc[s] = "put") <=> (m \in {"Put", "Mkdir"})
  /\ pc[s] \in {"placeholder", "list", "copy", "upload"} => m \in {"Rename", "Copy"}
  /\ pc[s] = "recheck" => m = "Rename"
  /\ pc[s] \in {"deleteObject", "deleteList", "deleteBatch"} => m \in {"Rename", "Remove"}
  /\ pc[s] \in {"exists", "children", "placeholder", "recheck", "deleteObject"} => todo[s] = {}
  /\ pc[s] \in {"copy", "upload"} =>
        isFile[s] \/ \A k \in todo[s] : InDir(k, SrcDir(s))
  /\ pc[s] \in {"deleteList", "deleteBatch"} => \A k \in todo[s] : InDir(k, SrcDir(s))

WorkFitsCommand == \A s \in Sessions : pc[s] # "idle" => Fits(s)

(* The key k of bucket c is the object, or is in the tree, that the path   *)
(* names for session s: inside the prefix that the session is confined to. *)
Covers(s, path, c, k) ==
  /\ path.backend \in DOMAIN VFS[s]
  /\ c = BucketOf[path.backend]
  /\ AtOrIn(k, VFS[s][path.backend] \o path.rel)

(* Session s runs a command that may remove, or that may write, the key.   *)
MayRemove(s, c, k) ==
  /\ pc[s] # "idle"
  /\ req[s].method \in {"Remove", "Rename"}
  /\ "delete" \in Perms[s]
  /\ Covers(s, req[s].from, c, k)

MayWrite(s, c, k) ==
  /\ pc[s] # "idle"
  /\ "write" \in Perms[s]
  /\ \/ req[s].method \in {"Put", "Mkdir"} /\ Covers(s, req[s].from, c, k)
     \/ req[s].method \in {"Rename", "Copy"} /\ Covers(s, req[s].to, c, k)

(* An object appears, changes or disappears only while a session runs a    *)
(* command whose paths name it, inside the session's prefix, with the      *)
(* permission the change needs.  The keys a session works on come from     *)
(* listings made earlier, of a tree chosen by prefix, and none may lead a  *)
(* later call outside what the user was granted.                           *)
ConfinedToGrant ==
  [][\A c \in Buckets :
       /\ \A k \in DOMAIN store[c] \ DOMAIN store'[c] :
            \E s \in Sessions : MayRemove(s, c, k)
       /\ \A k \in DOMAIN store'[c] :
            (k \in DOMAIN store[c] => store'[c][k] # store[c][k])
              => \E s \in Sessions : MayWrite(s, c, k)]_vars

(* A content is somewhere in the buckets. *)
Stored(st, x) == \E c \in Buckets : \E k \in DOMAIN st[c] : st[c][k] = x

(* No step of a rename or a copy makes a content disappear: whatever it    *)
(* deletes is, at that moment, also stored under another key.  Only Remove *)
(* and a write over an existing object destroy contents.                   *)
RenameKeepsContent ==
  [][\A c \in Buckets : \A k \in DOMAIN store[c] \ DOMAIN store'[c] :
       \/ store[c][k] = Empty
       \/ Stored(store', store[c][k])
       \/ \E s \in Sessions : req[s].method = "Remove" /\ MayRemove(s, c, k)]_vars

(* Contents are in files that a path names, never under a key that ends in *)
(* a slash: no listing shows those and no path reaches them.               *)
ContentsHaveNames ==
  \A c \in Buckets : \A k \in DOMAIN store[c] :
     store[c][k] # Empty => k[Len(k)] # EmptySegment

(* What a Remove answered with success named is gone: the object, and      *)
(* everything below it (Filecmd "Remove", DeletePrefix).                   *)
RemovedIsGone ==
  \A s \in Sessions :
     (req[s].method = "Remove" /\ answer[s] = "ok") =>
       \A k \in DOMAIN store[SrcBucket(s)] :
          ~ Covers(s, req[s].from, SrcBucket(s), k)

(* Every command is answered, however often calls fail or are repeated. *)
Answered == \A s \in Sessions : (pc[s] # "idle") ~> (pc[s] = "idle")
=============================================================================
