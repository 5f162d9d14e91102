------------------------------ MODULE Namespace ------------------------------
(***************************************************************************)
(* What the file commands promise to one session that is alone on its      *)
(* trees: a command answered with success has had its whole effect and no  *)
(* other, as if in one step; a command answered with an error may have had *)
(* a part of it, in which every object it was about is still stored under  *)
(* its old key or its new one.                                             *)
(***************************************************************************)
EXTENDS Bucket

CONSTANTS
  Buckets, BucketOf,
  Mounts,       \* the prefix of each backend that the session sees
  Granted,      \* the permissions of the session
  Commands,     \* the commands that it may send
  Empty         \* the content of a directory placeholder

VARIABLES
  tree,         \* the objects of each bucket
  command,      \* the last command sent
  running,      \* it is not answered yet
  answer

vars == <<tree, command, running, answer>>
-----------------------------------------------------------------------------
(* At most one content is at an address. *)
At(t, c, k) == IF k \in DOMAIN t[c] THEN {t[c][k]} ELSE {}

BucketAt(path) == BucketOf[path.backend]
KeyAt(path)    == ObjectKey(Mounts[path.backend], path.rel)
DirAt(path)    == DirPrefix(Mounts[path.backend], path.rel)

(* A path names a file if its key exists, and otherwise a directory. *)
IsFileAt(t, path) == KeyAt(path) \in DOMAIN t[BucketAt(path)]
TreeAt(t, path)   == {k \in DOMAIN t[BucketAt(path)] : InDir(k, DirAt(path))}

(* The keys that a rename or a copy is about, and where each one goes. *)
Sources(t, r) == IF IsFileAt(t, r.from) THEN {KeyAt(r.from)} ELSE TreeAt(t, r.from)

Destination(t, r, k) ==
  IF IsFileAt(t, r.from) THEN KeyAt(r.to) ELSE Rebase(k, DirAt(r.from), DirAt(r.to))

(* The contents that an address is to receive. *)
Incoming(t, r, c, k) ==
  CASE r.method \in {"Rename", "Copy"} ->
         {t[BucketAt(r.from)][j] : j \in {i \in Sources(t, r) :
            c = BucketAt(r.to) /\ k = Destination(t, r, i)}}
    [] r.method = "Mkdir" ->
         IF c = BucketAt(r.from) /\ k = Placeholder(DirAt(r.from)) THEN {Empty} ELSE {}
    [] r.method = "Put" ->
         IF c = BucketAt(r.from) /\ k = KeyAt(r.from) THEN {r.content} ELSE {}
    [] OTHER -> {}

(* The address is to become free. *)
Outgoing(t, r, c, k) ==
  /\ c = BucketAt(r.from)
  /\ \/ r.method = "Rename" /\ k \in Sources(t, r)
     \/ r.method = "Remove" /\ (k = KeyAt(r.from) \/ k \in TreeAt(t, r.from))

AfterSuccess(t, r, c, k) ==
  IF Incoming(t, r, c, k) # {} THEN Incoming(t, r, c, k)
  ELSE IF Outgoing(t, r, c, k) THEN {} ELSE At(t, c, k)

Addresses(t, u) == Buckets \X UNION {DOMAIN t[c] \cup DOMAIN u[c] : c \in Buckets}

Succeeded(t, u, r) ==
  \A a \in Addresses(t, u) : At(u, a[1], a[2]) = AfterSuccess(t, r, a[1], a[2])

(* A rename removes nothing before everything is at its destination. *)
FailedPartly(t, u, r) ==
  /\ \A a \in Addresses(t, u) :
        At(u, a[1], a[2]) \in {At(t, a[1], a[2]), AfterSuccess(t, r, a[1], a[2])}
  /\ r.method = "Rename" =>
        \/ \A k \in Sources(t, r) : k \in DOMAIN u[BucketAt(r.from)]
        \/ \A k \in Sources(t, r) : At(u, BucketAt(r.to), Destination(t, r, k))
                                    = Incoming(t, r, BucketAt(r.to), Destination(t, r, k))

(* There is something that the command can be about. *)
Possible(t, r) ==
  CASE r.method \in {"Rename", "Copy"} -> Sources(t, r) # {}
    [] r.method = "Remove" -> IsFileAt(t, r.from) \/ TreeAt(t, r.from) # {}
    [] OTHER -> TRUE

(* What the user was granted covers the command. *)
Permitted(r) ==
  /\ r.from.backend \in DOMAIN Mounts
  /\ CASE r.method = "Rename" -> /\ r.to.backend \in DOMAIN Mounts
                                 /\ {"write", "delete"} \subseteq Granted
                                 /\ r.from.backend # r.to.backend => "read" \in Granted
       [] r.method = "Copy"   -> /\ r.to.backend \in DOMAIN Mounts
                                 /\ {"read", "write"} \subseteq Granted
       [] r.method = "Remove" -> r.from.rel # <<>> /\ "delete" \in Granted
       [] r.method = "Put"    -> r.from.rel # <<>> /\ "write" \in Granted
       [] OTHER               -> "write" \in Granted
-----------------------------------------------------------------------------
Init == ~ running

Send ==
  /\ ~ running
  /\ command' \in Commands
  /\ \/ running' /\ Permitted(command')
     \/ ~ running' /\ answer' = "error"
     \/ /\ ~ running' /\ answer' = "ok"
        /\ Permitted(command')
        /\ command'.method = "Mkdir" /\ command'.from.rel = <<>>
  /\ UNCHANGED tree

Return ==
  /\ running /\ ~ running'
  /\ UNCHANGED command
  /\ \/ answer' = "ok" /\ Possible(tree, command) /\ Succeeded(tree, tree', command)
     \/ answer' = "error" /\ FailedPartly(tree, tree', command)

Next == Send \/ Return

Spec == Init /\ [][Next]_vars
=============================================================================
