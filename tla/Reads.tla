-------------------------------- MODULE Reads --------------------------------
(***************************************************************************)
(* What a session reads (Filelist and Fileread in internal/sftphandlers):  *)
(* listings, which take an S3 call for each page, stat, which may take     *)
(* two, and downloads, which take one to open the file and one for each    *)
(* read.  Other sessions store and delete objects between any two calls.   *)
(*                                                                         *)
(* The objects are those of one bucket; a stored object is a version, told *)
(* from all others, and a number of parts of equal size.                   *)
(***************************************************************************)
EXTENDS Bucket

CONSTANTS
  Prefix,       \* the prefix of the session's backend
  Requests,     \* what the client may ask for: [method, rel]
  Keys,         \* the keys that other sessions store and delete
  InitialKeys,  \* sets of keys that may be there from the start
  MaxSize,      \* bound: parts of an object
  MaxReadSizes, \* the limits on a read, in parts; 0 is no limit
  PageSize,     \* keys and prefixes in a page of a listing
  MaxChanges    \* bound: objects stored and deleted in a behaviour

(* A path is cleaned before it is asked for, and a key is not empty: the   *)
(* key "" is <<EmptySegment>>.                                             *)
ASSUME NamesAssumption ==
  /\ Prefix \in Dir
  /\ Requests \subseteq [method : {"List", "Stat", "Get"}, rel : Seq(Name)]
  /\ Keys \subseteq Key \ {<<>>}
  /\ \A S \in InitialKeys : S \subseteq Keys /\ IsFiniteSet(S)

ASSUME SizesAssumption ==
  /\ MaxSize \in Nat \ {0} /\ PageSize \in Nat \ {0} /\ MaxChanges \in Nat
  /\ MaxReadSizes \subseteq Nat

VARIABLES
  objects,      \* objects[k]: the object of key k
  changes,
  mayRead,      \* the user has the permission "read"
  maxReadSize,
  request,
  pc,           \* the next call
  after,        \* the listing continues after this key
  entries,      \* entries[n]: what has been listed under the name n
  size,         \* the size found when the file was opened
  got,          \* got[i]: the version that part i of the download is of
  answer,       \* how the request ended
  ever, always  \* what was the case at some time, or all the time, since then

settings == <<mayRead, maxReadSize>>
progress == <<request, pc, after, entries, size, got, answer>>
witness == <<ever, always>>
vars == <<objects, changes, settings, progress, witness>>

ToKey == ObjectKey(Prefix, request.rel)
ToDir == DirPrefix(Prefix, request.rel)

Object == [version : 0 .. MaxChanges, size : 1 .. MaxSize]
Entry  == [kind : {"file"}, object : Object] \cup {[kind |-> "dir"]}

AsFile(o)   == [kind |-> "file", object |-> o]
AsDirectory == [kind |-> "dir"]
SomeFile    == [kind |-> "some file"]

NoEntries == [n \in {} |-> AsDirectory]

(* The directories that a key is below. *)
Above(k) == {SubSeq(k, 1, n) : n \in 0 .. Len(k) - 1}

(* What can be said of the keys: this one has that object, has some        *)
(* object, or has keys below it.                                           *)
Facts(objs) ==
  LET keys == DOMAIN objs IN
  {[at |-> k, is |-> AsFile(objs[k])] : k \in keys}
  \cup {[at |-> k, is |-> SomeFile] : k \in keys}
  \cup {[at |-> d, is |-> AsDirectory] : d \in UNION {Above(k) : k \in keys}}

Init ==
  /\ \E S \in InitialKeys : objects = [k \in S |-> [version |-> 0, size |-> MaxSize]]
  /\ changes = 0
  /\ mayRead \in BOOLEAN /\ maxReadSize \in MaxReadSizes
  /\ request = [method |-> "none", rel |-> <<>>]
  /\ pc = "idle" /\ after = <<>> /\ entries = NoEntries
  /\ size = 0 /\ got = <<>> /\ answer = "none"
  /\ ever = {} /\ always = {}

(* The history of a request ends with its answer. *)
Remember ==
  IF pc = "idle" THEN UNCHANGED witness
  ELSE /\ ever' = ever \cup Facts(objects')
       /\ always' = always \cap Facts(objects')
-----------------------------------------------------------------------------
(* Other sessions. *)

Store(k) ==
  /\ changes < MaxChanges /\ changes' = changes + 1
  /\ \E n \in 1 .. MaxSize :
       objects' = PutObject(objects, k, [version |-> changes + 1, size |-> n])
  /\ Remember
  /\ UNCHANGED <<settings, progress>>

Delete(k) ==
  /\ changes < MaxChanges /\ changes' = changes + 1
  /\ k \in DOMAIN objects
  /\ objects' = DeleteKeys(objects, {k})
  /\ Remember
  /\ UNCHANGED <<settings, progress>>
-----------------------------------------------------------------------------
(* Requests. *)

Reply(a) == pc' = "idle" /\ answer' = a

FirstCall(q) ==
  CASE q.method = "List" -> "page" [] q.method = "Stat" -> "head" [] OTHER -> "open"

(* Filelist and Fileread before the first call: requireRead, resolve, and  *)
(* the root of a backend, which is a directory unseen.                     *)
Start(q) ==
  /\ pc = "idle"
  /\ request' = q
  /\ \/ ~ mayRead /\ Reply("denied")
     \/ mayRead /\ q.rel = <<>> /\ q.method = "Stat" /\ Reply("directory")
     \/ mayRead /\ q.rel = <<>> /\ q.method = "Get" /\ Reply("error")
     \/ /\ mayRead /\ (q.rel # <<>> \/ q.method = "List")
        /\ pc' = FirstCall(q) /\ answer' = "none"
  /\ after' = <<>> /\ entries' = NoEntries /\ size' = 0 /\ got' = <<>>
  /\ ever' = Facts(objects) /\ always' = Facts(objects)
  /\ UNCHANGED <<objects, changes, settings>>

(* A call fails: an error of S3, the backend's timeout, the end of the     *)
(* session.                                                                *)
Fail ==
  /\ pc # "idle"
  /\ Reply("error")
  /\ UNCHANGED <<objects, changes, settings, request, after, entries, size, got, witness>>
-----------------------------------------------------------------------------
(* listDirectory. *)

(* With a delimiter, what is deeper below the directory is one common      *)
(* prefix, "d/name/".                                                      *)
ItemOf(k, dir) ==
  IF Len(k) = Len(dir) + 1 THEN k ELSE Placeholder(SubSeq(k, 1, Len(dir) + 1))

(* Variant: a page starts over where a common prefix was listed. *)
ItemsAgain(dir) ==
  {i \in {ItemOf(k, dir) : k \in {j \in DOMAIN objects : InDir(j, dir)}} :
     after = <<>> \/ KeyLess(after, i) \/ Len(after) > Len(dir) + 1}

(* What the listing still has to return. *)
Items(dir) ==
  {i \in {ItemOf(k, dir) : k \in {j \in DOMAIN objects : InDir(j, dir)}} :
     KeyLess(after, i)}

NameOf(item, dir) == item[Len(dir) + 1]

(* Variant: the placeholder is listed with the others. *)
NamedWithPlaceholder(items, dir) == items

(* The placeholder of the directory itself, "d/", and what is below an     *)
(* empty name, "d//", are passed over.                                     *)
Named(items, dir) == {i \in items : NameOf(i, dir) # EmptySegment}

(* The entries of one page: the common prefixes come before the objects,   *)
(* and what was seen stays as it was seen.                                 *)
ListPage ==
  LET dir   == ToDir
      page  == FirstKeys(Items(dir), PageSize)
      named == Named(page, dir)
      names == {NameOf(i, dir) : i \in named}
  IN
  /\ pc = "page"
  /\ entries' = [n \in DOMAIN entries \cup names |->
                   IF n \in DOMAIN entries THEN entries[n]
                   ELSE IF Append(Append(dir, n), EmptySegment) \in named THEN AsDirectory
                   ELSE AsFile(objects[Append(dir, n)])]
  /\ IF page = Items(dir)
     THEN Reply("listed") /\ UNCHANGED after
     ELSE after' = (CHOOSE k \in page : IsLast(k, page)) /\ UNCHANGED <<pc, answer>>
  /\ UNCHANGED <<objects, changes, settings, request, size, got, witness>>
-----------------------------------------------------------------------------
(* statPath. *)

(* Variant: the prefix lacks its slash. *)
HasBelowByKey == \E k \in DOMAIN objects : AtOrIn(k, ToDir)

HasBelow == HasEntries(objects, ToDir)

HeadObject ==
  /\ pc = "head"
  /\ IF ToKey \in DOMAIN objects
     THEN /\ Reply("file")
          /\ entries' = [n \in {EmptySegment} |-> AsFile(objects[ToKey])]
     ELSE pc' = "probe" /\ UNCHANGED <<answer, entries>>
  /\ UNCHANGED <<objects, changes, settings, request, after, size, got, witness>>

ProbeEntries ==
  /\ pc = "probe"
  /\ Reply(IF HasBelow THEN "directory" ELSE "not found")
  /\ UNCHANGED <<objects, changes, settings, request, after, entries, size, got, witness>>
-----------------------------------------------------------------------------
(* Fileread and s3Reader.ReadAt. *)

OpenFile ==
  /\ pc = "open"
  /\ IF ToKey \in DOMAIN objects
     THEN pc' = "read" /\ size' = objects[ToKey].size /\ UNCHANGED answer
     ELSE Reply("not found") /\ UNCHANGED size
  /\ UNCHANGED <<objects, changes, settings, request, after, entries, got, witness>>

TooLarge(n) == maxReadSize > 0 /\ n > maxReadSize

(* Variant: a read is not cut off at the size found at the opening. *)
EndOfReadUncut(n) == Len(got) + n

EndOfRead(n) == IF Len(got) + n >= size THEN size ELSE Len(got) + n

(* Variant: what is asked for must fit. *)
AtEndIfCut(n) == Len(got) + n > size

AtEnd(n) == Len(got) >= size

(* The client asks for n parts after those it has.  The range is read from *)
(* the object as it is now: it may be gone, or end before the range does.  *)
(* What can be read of it is the answer, and the client goes on.           *)
ReadAt(n) ==
  LET off == Len(got) IN
  /\ pc = "read"
  /\ \/ TooLarge(n) /\ Reply("error") /\ UNCHANGED got
     \/ ~ TooLarge(n) /\ AtEnd(n) /\ Reply("end of file") /\ UNCHANGED got
     \/ /\ ~ TooLarge(n) /\ ~ AtEnd(n)
        /\ ToKey \in DOMAIN objects => objects[ToKey].size <= off
        /\ Reply("error") /\ UNCHANGED got
     \/ /\ ~ TooLarge(n) /\ ~ AtEnd(n)
        /\ ToKey \in DOMAIN objects /\ off < objects[ToKey].size
        /\ LET o   == objects[ToKey]
               end == IF EndOfRead(n) < o.size THEN EndOfRead(n) ELSE o.size
           IN got' = got \o [i \in 1 .. end - off |-> o.version]
        /\ UNCHANGED <<pc, answer>>
  /\ UNCHANGED <<objects, changes, settings, request, after, entries, size, witness>>
-----------------------------------------------------------------------------
Call == ListPage \/ HeadObject \/ ProbeEntries \/ OpenFile

Next ==
  \/ \E k \in Keys : Store(k) \/ Delete(k)
  \/ \E q \in Requests : Start(q)
  \/ Call \/ Fail
  \/ \E n \in 1 .. MaxSize : ReadAt(n)

Spec == Init /\ [][Next]_vars

(* A call ends, for its context has a timeout.  The client need not read. *)
FairSpec == Spec /\ WF_vars(Call)
-----------------------------------------------------------------------------
(* Properties.  Each says what an answer is worth when the objects changed *)
(* while it was found.                                                     *)

TypeOK ==
  /\ DOMAIN objects \subseteq Keys /\ \A k \in DOMAIN objects : objects[k] \in Object
  /\ changes \in 0 .. MaxChanges
  /\ mayRead \in BOOLEAN /\ maxReadSize \in MaxReadSizes
  /\ request \in Requests \cup {[method |-> "none", rel |-> <<>>]}
  /\ pc \in {"idle", "page", "head", "probe", "open", "read"}
  /\ \A n \in DOMAIN entries : entries[n] \in Entry
  /\ size \in 0 .. MaxSize
  /\ got \in Seq(0 .. MaxChanges) /\ Len(got) <= size
  /\ answer \in {"none", "denied", "directory", "file", "listed", "not found",
                 "end of file", "error"}
  /\ pc = "idle" => (answer = "none" => request.method = "none")

(* A finished listing has every entry that was there all the time, under   *)
(* its name, and none that was never there; a name that is a file and a    *)
(* directory at once is listed once (listDirectory's `seen`).              *)
ListingIsFaithful ==
  answer = "listed" =>
    /\ \A f \in always : (Len(f.at) = Len(ToDir) + 1 /\ InDir(f.at, ToDir))
          => f.at = Placeholder(ToDir) \/ f.at[Len(f.at)] \in DOMAIN entries
    /\ \A n \in DOMAIN entries :
          /\ n # EmptySegment
          /\ [at |-> Append(ToDir, n), is |-> entries[n]] \in ever

(* What stat says was so at some time since it was asked.  It may miss     *)
(* what became a file when it was looked for as a directory, but not what  *)
(* was one or the other all the time.                                      *)
StatIsFaithful ==
  (request.method = "Stat" /\ request.rel # <<>>) =>
    /\ answer = "file" => [at |-> ToKey, is |-> entries[EmptySegment]] \in ever
    /\ answer = "directory" => [at |-> ToDir, is |-> AsDirectory] \in ever
    /\ answer = "not found" =>
         /\ [at |-> ToKey, is |-> SomeFile] \notin always
         /\ [at |-> ToDir, is |-> AsDirectory] \notin always

(* A download of a file that nobody replaced is that file, whole.  Of one  *)
(* that was replaced it may be a mix, but never longer than the file was   *)
(* when it was opened, and every part is one that the file had.            *)
DownloadIsFaithful ==
  /\ \A f \in always : (f.at = ToKey /\ f.is.kind = "file" /\ answer = "end of file")
        => got = [i \in 1 .. f.is.object.size |-> f.is.object.version]
  /\ \A i \in 1 .. Len(got) : \E f \in ever :
        /\ f.at = ToKey /\ f.is.kind = "file"
        /\ f.is.object.version = got[i] /\ i <= f.is.object.size
  /\ Len(got) <= size

(* Every request is answered, also while the directory changes. *)
Answered == pc \in {"page", "head", "probe", "open"} ~> pc \in {"read", "idle"}
=============================================================================
