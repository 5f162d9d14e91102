----------------------------- MODULE ReadsProofs -----------------------------
(***************************************************************************)
(* What a session reads, for any keys, requests, sizes of pages and of     *)
(* reads, and any changes by others between two calls.                     *)
(*                                                                         *)
(* While a request is under way everything that is the case has been the   *)
(* case at some time since it came, and what has been the case all the     *)
(* time still is.  A page returns what comes first of the items left, so   *)
(* that an item that is not named yet comes after the last of the page.    *)
(***************************************************************************)
EXTENDS Reads, BucketLemmas

(* Between the calls of a request. *)
InCourse ==
  /\ pc = "page" => request.method = "List"
  /\ pc \in {"head", "probe"} => request.method = "Stat" /\ request.rel # <<>>
  /\ pc \in {"open", "read"} => request.method = "Get" /\ request.rel # <<>>
  /\ pc # "idle" => answer = "none"
  /\ pc = "open" => got = <<>>

Shapes ==
  /\ TypeOK
  /\ IsFiniteSet(DOMAIN objects)
  /\ after \in Key
  /\ InCourse

Witnessed == pc # "idle" => Facts(objects) \subseteq ever /\ always \subseteq Facts(objects)

(* The item that a listing of the directory returns for a fact. *)
ItemFor(f) == IF f.is = AsDirectory THEN Placeholder(f.at) ELSE f.at

(* The facts about what a directory lists. *)
Direct(f, dir) ==
  Len(f.at) = Len(dir) + 1 /\ InDir(f.at, dir) /\ f.at # Placeholder(dir)

ListingHolds ==
  /\ pc = "page" \/ answer = "listed" =>
       \A n \in DOMAIN entries :
         n # EmptySegment /\ [at |-> Append(ToDir, n), is |-> entries[n]] \in ever
  /\ answer = "listed" =>
       \A f \in always : Direct(f, ToDir) => f.at[Len(f.at)] \in DOMAIN entries
  /\ pc = "page" =>
       \A f \in always : Direct(f, ToDir) =>
         f.at[Len(f.at)] \in DOMAIN entries \/ KeyLess(after, ItemFor(f))

StatHolds ==
  /\ pc = "probe" => [at |-> ToKey, is |-> SomeFile] \notin always
  /\ StatIsFaithful

DownloadHolds ==
  /\ DownloadIsFaithful
  /\ pc = "read" =>
       \A f \in always : (f.at = ToKey /\ f.is.kind = "file") =>
         /\ size = f.is.object.size
         /\ \A i \in 1 .. Len(got) : got[i] = f.is.object.version

IInv == Shapes /\ Witnessed /\ ListingHolds /\ StatHolds /\ DownloadHolds

-----------------------------------------------------------------------------
(* The operators. *)

AnyRequest == Requests \cup {[method |-> "none", rel |-> <<>>]}

(* The names of a request are names of keys. *)
LEMMA NamesOfRequests ==
  ASSUME NEW q \in AnyRequest
  PROVE  /\ q.rel \in Seq(Segment)
         /\ ObjectKey(Prefix, q.rel) \in Key /\ DirPrefix(Prefix, q.rel) \in Dir
<1>1. Seq(Name) \subseteq Seq(Segment) /\ <<>> \in Seq(Segment)
  BY DEF Name
<1>2. q \in Requests => q.rel \in Seq(Name)
  BY NamesAssumption
<1>3. q \notin Requests => q.rel = <<>>
  BY DEF AnyRequest
<1>4. Prefix \in Seq(Segment)
  BY NamesAssumption DEF Dir
<1>5. q.rel \in Seq(Segment)
  BY <1>1, <1>2, <1>3
<1> QED
  BY <1>4, <1>5, ObjectKeyIsAt

LEMMA RequestNames ==
  ASSUME request \in AnyRequest
  PROVE  ToKey \in Key /\ ToDir \in Dir
  BY NamesOfRequests DEF ToKey, ToDir

(* The kinds of facts tell them apart. *)
LEMMA KindsDiffer ==
  /\ AsDirectory.kind = "dir" /\ SomeFile.kind = "some file"
  /\ AsDirectory # SomeFile
  /\ \A o : AsFile(o).kind = "file" /\ AsFile(o).object = o
            /\ AsFile(o) # AsDirectory /\ AsFile(o) # SomeFile
<1>1. AsDirectory.kind = "dir" /\ SomeFile.kind = "some file"
  BY DEF AsDirectory, SomeFile
<1>2. \A o : AsFile(o).kind = "file" /\ AsFile(o).object = o
  BY DEF AsFile
<1> QED
  BY <1>1, <1>2

(* What the facts of a set of objects are. *)
LEMMA FactsOfObjects ==
  ASSUME NEW objs, NEW k \in DOMAIN objs
  PROVE  /\ [at |-> k, is |-> AsFile(objs[k])] \in Facts(objs)
         /\ [at |-> k, is |-> SomeFile] \in Facts(objs)
         /\ \A n \in 0 .. Len(k) - 1 :
              [at |-> SubSeq(k, 1, n), is |-> AsDirectory] \in Facts(objs)
<1>1. \A n \in 0 .. Len(k) - 1 : SubSeq(k, 1, n) \in UNION {Above(j) : j \in DOMAIN objs}
  BY DEF Above
<1> QED
  BY <1>1 DEF Facts

LEMMA FactsComeFromObjects ==
  ASSUME NEW objs, NEW f \in Facts(objs)
  PROVE  /\ f.is.kind = "file" => f.at \in DOMAIN objs /\ f.is = AsFile(objs[f.at])
         /\ f.is = SomeFile => f.at \in DOMAIN objs
         /\ f.is = AsDirectory =>
              \E k \in DOMAIN objs : \E n \in 0 .. Len(k) - 1 : f.at = SubSeq(k, 1, n)
         /\ f.is # AsDirectory => f.at \in DOMAIN objs
<1>1. CASE \E k \in DOMAIN objs : f = [at |-> k, is |-> AsFile(objs[k])]
  <2>1. PICK k \in DOMAIN objs : f = [at |-> k, is |-> AsFile(objs[k])]
    BY <1>1
  <2>2. f.at = k /\ f.is = AsFile(objs[k])
    BY <2>1
  <2> QED
    BY <2>2, KindsDiffer
<1>2. CASE \E k \in DOMAIN objs : f = [at |-> k, is |-> SomeFile]
  <2>1. PICK k \in DOMAIN objs : f = [at |-> k, is |-> SomeFile]
    BY <1>2
  <2>2. f.at = k /\ f.is = SomeFile
    BY <2>1
  <2> QED
    BY <2>2, KindsDiffer
<1>3. CASE \E d \in UNION {Above(k) : k \in DOMAIN objs} : f = [at |-> d, is |-> AsDirectory]
  <2>1. PICK d \in UNION {Above(k) : k \in DOMAIN objs} : f = [at |-> d, is |-> AsDirectory]
    BY <1>3
  <2>2. f.at = d /\ f.is = AsDirectory
    BY <2>1
  <2>3. PICK k \in DOMAIN objs : d \in Above(k)
    BY <2>1
  <2>4. \E n \in 0 .. Len(k) - 1 : d = SubSeq(k, 1, n)
    BY <2>3 DEF Above
  <2> QED
    BY <2>2, <2>4, KindsDiffer
<1> QED
  BY <1>1, <1>2, <1>3 DEF Facts

(* The items of a listing, their names and what they stand for. *)
LEMMA ItemsOfKeys ==
  ASSUME NEW k \in Key, NEW dir \in Dir, InDir(k, dir)
  PROVE  /\ ItemOf(k, dir) \in Key /\ Len(dir) + 1 <= Len(k)
         /\ Len(dir) \in Nat
         /\ k[Len(dir) + 1] \in Segment
         /\ NameOf(ItemOf(k, dir), dir) = k[Len(dir) + 1]
         /\ SubSeq(k, 1, Len(dir) + 1) = Append(dir, k[Len(dir) + 1])
         /\ Len(k) = Len(dir) + 1 =>
              ItemOf(k, dir) = k /\ k = Append(dir, k[Len(dir) + 1])
         /\ Len(k) # Len(dir) + 1 =>
              /\ ItemOf(k, dir) = Placeholder(Append(dir, k[Len(dir) + 1]))
              /\ Len(ItemOf(k, dir)) = Len(dir) + 2
<1> DEFINE l == Len(dir)
           s == SubSeq(k, 1, l + 1)
<1>1. l \in Nat /\ Len(k) \in Nat /\ l + 1 <= Len(k) /\ SubSeq(k, 1, l) = dir
  BY DEF Key, Dir, InDir
<1>2. k[l + 1] \in Segment
  BY <1>1 DEF Key
<1>3. s \in Seq(Segment) /\ Len(s) = l + 1 /\ \A i \in 1 .. l + 1 : s[i] = k[i]
  BY <1>1 DEF Key
<1>4. \A i \in 1 .. l : dir[i] = k[i]
  <2>1. \A i \in 1 .. l : SubSeq(k, 1, l)[i] = k[i]
    BY <1>1 DEF Key
  <2> QED
    BY <1>1, <2>1
<1>5. /\ Append(dir, k[l + 1]) \in Seq(Segment)
      /\ Len(Append(dir, k[l + 1])) = l + 1
      /\ \A i \in 1 .. l : Append(dir, k[l + 1])[i] = dir[i]
      /\ Append(dir, k[l + 1])[l + 1] = k[l + 1]
  BY <1>1, <1>2 DEF Dir
<1>6. s = Append(dir, k[l + 1])
  <2>1. \A i \in 1 .. l + 1 : s[i] = Append(dir, k[l + 1])[i]
    BY <1>1, <1>3, <1>4, <1>5
  <2> QED
    BY <1>3, <1>5, <2>1, SeqEqual
<1>7. /\ Placeholder(s) \in Seq(Segment) /\ Len(Placeholder(s)) = l + 2
      /\ Placeholder(s)[l + 1] = k[l + 1]
  <2>1. <<EmptySegment>> \in Seq(Segment) /\ Len(<<EmptySegment>>) = 1
    BY DEF EmptySegment, Segment
  <2> HIDE DEF s, l
  <2>2. s \o <<EmptySegment>> \in Seq(Segment)
    BY <1>3, <2>1
  <2>3. Len(s \o <<EmptySegment>>) = l + 2
    BY <1>1, <1>3, <2>1
  <2>4. (s \o <<EmptySegment>>)[l + 1] = s[l + 1]
    BY <1>1, <1>3, <2>1
  <2>5. Placeholder(s) = s \o <<EmptySegment>>
    BY DEF Placeholder
  <2> QED
    BY <1>1, <1>3, <2>2, <2>3, <2>4, <2>5
<1>8. Len(k) = l + 1 => s = k
  BY <1>1, <1>3, SeqEqual DEF Key
<1> QED
  BY <1>1, <1>2, <1>6, <1>7, <1>8 DEF ItemOf, NameOf, Key

-----------------------------------------------------------------------------
(* Other sessions: nothing of the request moves but what is remembered. *)

ChangeByOthers == \E k \in Keys : Store(k) \/ Delete(k)

LEMMA ObjectsStayTyped ==
  ASSUME Shapes, ChangeByOthers
  PROVE  Shapes'
<1>1. PICK k \in Keys : Store(k) \/ Delete(k)
  BY DEF ChangeByOthers
<1>2. /\ UNCHANGED <<settings, progress>>
      /\ changes \in 0 .. MaxChanges /\ changes + 1 \in 0 .. MaxChanges
      /\ changes' = changes + 1
  <2>1. UNCHANGED <<settings, progress>> /\ changes < MaxChanges /\ changes' = changes + 1
    BY <1>1 DEF Store, Delete
  <2>2. changes \in 0 .. MaxChanges
    BY DEF Shapes, TypeOK
  <2> QED
    BY <2>1, <2>2, SizesAssumption
<1>3. /\ DOMAIN objects' \subseteq Keys /\ IsFiniteSet(DOMAIN objects')
      /\ \A j \in DOMAIN objects' : objects'[j] \in Object
  <2>1. CASE Store(k)
    <3>1. PICK n \in 1 .. MaxSize :
            objects' = PutObject(objects, k, [version |-> changes + 1, size |-> n])
      BY <2>1 DEF Store
    <3>2. [version |-> changes + 1, size |-> n] \in Object
      BY <1>2, <3>1 DEF Object
    <3>3. DOMAIN objects' = DOMAIN objects \cup {k}
      BY <3>1 DEF PutObject
    <3>4. \A j \in DOMAIN objects' : objects'[j] \in Object
      BY <3>1, <3>2 DEF PutObject, Shapes, TypeOK
    <3>5. IsFiniteSet(DOMAIN objects \cup {k})
      BY FS_AddElement DEF Shapes
    <3> QED
      BY <1>1, <3>3, <3>4, <3>5 DEF Shapes, TypeOK
  <2>2. CASE Delete(k)
    <3>1. objects' = DeleteKeys(objects, {k})
      BY <2>2 DEF Delete
    <3>2. /\ DOMAIN objects' \subseteq DOMAIN objects
          /\ \A j \in DOMAIN objects' : objects'[j] = objects[j]
      BY <3>1 DEF DeleteKeys
    <3> QED
      BY <3>2, FS_Subset DEF Shapes, TypeOK
  <2> QED
    BY <1>1, <2>1, <2>2
<1> QED
  BY <1>2, <1>3 DEF Shapes, TypeOK, InCourse, settings, progress, Object, Entry

LEMMA HistoryGoesOn ==
  ASSUME Witnessed, ChangeByOthers
  PROVE  Witnessed' /\ ever \subseteq ever' /\ always' \subseteq always
<1>1. UNCHANGED <<settings, progress>> /\ Remember
  BY DEF ChangeByOthers, Store, Delete
<1> QED
  BY <1>1 DEF Remember, Witnessed, witness, progress

LEMMA ChangeByOthersHolds ==
  ASSUME IInv, ChangeByOthers
  PROVE  IInv'
<1>1. Shapes'
  BY ObjectsStayTyped DEF IInv
<1>2. Witnessed' /\ ever \subseteq ever' /\ always' \subseteq always
  BY HistoryGoesOn DEF IInv
<1>3. UNCHANGED <<request, pc, after, entries, size, got, answer>>
  BY DEF ChangeByOthers, Store, Delete, progress
<1>4. UNCHANGED <<ToKey, ToDir>>
  BY <1>3 DEF ToKey, ToDir
<1>5. ListingHolds'
  BY <1>2, <1>3, <1>4 DEF IInv, ListingHolds
<1>6. StatHolds'
  BY <1>2, <1>3, <1>4 DEF IInv, StatHolds, StatIsFaithful
<1>7. DownloadHolds'
  BY <1>2, <1>3, <1>4 DEF IInv, DownloadHolds, DownloadIsFaithful
<1> QED
  BY <1>1, <1>2, <1>5, <1>6, <1>7 DEF IInv
-----------------------------------------------------------------------------
(* The start of a request, and its failure. *)

LEMMA StartHolds ==
  ASSUME IInv, NEW q \in Requests, Start(q)
  PROVE  IInv'
<1>1. /\ request' = q /\ after' = <<>> /\ entries' = NoEntries
      /\ size' = 0 /\ got' = <<>>
      /\ ever' = Facts(objects) /\ always' = Facts(objects)
      /\ UNCHANGED <<objects, changes, settings>>
      /\ pc = "idle"
  BY DEF Start
<1>2. q.method \in {"List", "Stat", "Get"}
  BY NamesAssumption
<1>3. /\ \/ pc' = "idle" /\ answer' \in {"denied", "directory", "error"}
         \/ pc' = FirstCall(q) /\ answer' = "none" /\ (q.rel # <<>> \/ q.method = "List")
      /\ q.rel # <<>> => answer' # "directory"
      /\ answer' \notin {"listed", "file", "not found", "end of file"}
  BY DEF Start, Reply
<1>4. /\ q.method = "List" => FirstCall(q) = "page"
      /\ q.method = "Stat" => FirstCall(q) = "head"
      /\ q.method = "Get" => FirstCall(q) = "open"
  BY DEF FirstCall
<1>5. DOMAIN entries' = {}
  BY <1>1 DEF NoEntries
<1>6. /\ DOMAIN objects \subseteq Keys /\ IsFiniteSet(DOMAIN objects)
      /\ \A k \in DOMAIN objects : objects[k] \in Object
      /\ changes \in 0 .. MaxChanges
      /\ mayRead \in BOOLEAN /\ maxReadSize \in MaxReadSizes
  BY DEF IInv, Shapes, TypeOK
<1>7. TypeOK'
  <2>1. got' \in Seq(0 .. MaxChanges) /\ Len(got') <= size' /\ size' \in 0 .. MaxSize
    BY <1>1, SizesAssumption
  <2>2. pc' \in {"idle", "page", "head", "open"}
    BY <1>2, <1>3, <1>4
  <2>3. /\ answer' \in {"none", "denied", "directory", "error"}
        /\ pc' = "idle" => answer' # "none"
    BY <1>2, <1>3, <1>4
  <2> QED
    BY <1>1, <1>5, <1>6, <2>1, <2>2, <2>3 DEF TypeOK, settings, Object
<1>8. InCourse'
  BY <1>1, <1>2, <1>3, <1>4 DEF InCourse
<1>9. after' \in Key
  BY <1>1 DEF Key
<1>10. Shapes'
  BY <1>1, <1>6, <1>7, <1>8, <1>9 DEF Shapes
<1>11. Witnessed'
  BY <1>1 DEF Witnessed
<1>12. ListingHolds'
  <2>1. ASSUME NEW f \in always', Direct(f, ToDir')
        PROVE  KeyLess(after', ItemFor(f))
    <3>1. f \in Facts(objects) /\ ToDir' \in Dir
      BY <1>1, <2>1, <1>7, NamesOfRequests DEF ToDir, TypeOK, AnyRequest
    <3>2. f.at \in Key
      <4>1. CASE f.is = AsDirectory
        <5>1. PICK k \in DOMAIN objects : \E n \in 0 .. Len(k) - 1 : f.at = SubSeq(k, 1, n)
          BY <3>1, <4>1, FactsComeFromObjects
        <5>2. k \in Key
          BY <1>6, NamesAssumption
        <5> QED
          BY <5>1, <5>2 DEF Key
      <4>2. CASE f.is # AsDirectory
        BY <1>6, <3>1, <4>2, FactsComeFromObjects, NamesAssumption
      <4> QED
        BY <4>1, <4>2
    <3>3. ItemFor(f) \in Key /\ Len(ItemFor(f)) > 0
      <4>1. Len(f.at) > 0
        BY <2>1, <3>1 DEF Direct, Dir
      <4>2. Placeholder(f.at) \in Key /\ Len(Placeholder(f.at)) > Len(f.at)
        BY <3>2, PlaceholderIsIn DEF Key, Dir, InDir
      <4> QED
        BY <3>2, <4>1, <4>2 DEF ItemFor, Key
    <3>4. SubSeq(ItemFor(f), 1, 0) = <<>>
      BY <3>3 DEF Key
    <3> QED
      BY <1>1, <3>3, <3>4 DEF KeyLess
  <2> QED
    BY <1>3, <1>5, <2>1 DEF ListingHolds
<1>13. StatHolds'
  BY <1>1, <1>2, <1>3, <1>4 DEF StatHolds, StatIsFaithful
<1>14. DownloadHolds'
  <2>1. Len(got') = 0 /\ size' = 0 /\ pc' # "read" /\ answer' # "end of file"
    BY <1>1, <1>2, <1>3, <1>4
  <2>2. 0 <= 0 /\ \A i \in 1 .. 0 : FALSE
    OBVIOUS
  <2>3. Len(got') <= size' /\ \A i \in 1 .. Len(got') : FALSE
    BY <2>1, <2>2, Zenon
  <2>4. DownloadIsFaithful'
    BY <2>1, <2>3, Zenon DEF DownloadIsFaithful
  <2> QED
    BY <2>1, <2>4, Zenon DEF DownloadHolds
<1> QED
  BY <1>10, <1>11, <1>12, <1>13, <1>14 DEF IInv

LEMMA FailHolds ==
  ASSUME IInv, Fail
  PROVE  IInv'
<1>1. /\ pc # "idle" /\ pc' = "idle" /\ answer' = "error"
      /\ UNCHANGED <<objects, changes, settings, request, after, entries, size, got, witness>>
  BY DEF Fail, Reply
<1>2. UNCHANGED <<ToKey, ToDir, ever, always>>
  BY <1>1 DEF ToKey, ToDir, witness
<1>3. TypeOK'
  BY <1>1 DEF IInv, Shapes, TypeOK, settings, Object, Entry
<1>4. Shapes'
  BY <1>1, <1>3 DEF IInv, Shapes, InCourse
<1>5. Witnessed' /\ ListingHolds'
  BY <1>1 DEF Witnessed, ListingHolds
<1>6. StatHolds'
  BY <1>1 DEF StatHolds, StatIsFaithful
<1>7. DownloadHolds'
  BY <1>1, <1>2 DEF IInv, DownloadHolds, DownloadIsFaithful
<1> QED
  BY <1>4, <1>5, <1>6, <1>7 DEF IInv

-----------------------------------------------------------------------------
(* Listings. *)

(* The keys of the bucket are keys, and a fact is about a key. *)
LEMMA FactsAreOfKeys ==
  ASSUME Shapes, NEW f \in Facts(objects)
  PROVE  f.at \in Key
<1>1. DOMAIN objects \subseteq Key
  BY NamesAssumption DEF Shapes, TypeOK
<1>2. CASE f.is = AsDirectory
  <2>1. PICK k \in DOMAIN objects : \E n \in 0 .. Len(k) - 1 : f.at = SubSeq(k, 1, n)
    BY <1>2, FactsComeFromObjects
  <2>2. k \in Key
    BY <1>1
  <2> QED
    BY <2>1, <2>2 DEF Key
<1>3. CASE f.is # AsDirectory
  BY <1>1, <1>3, FactsComeFromObjects
<1> QED
  BY <1>2, <1>3

(* What a listing still has to return is a finite set of keys. *)
LEMMA ItemsAreKeys ==
  ASSUME Shapes, NEW dir \in Dir
  PROVE  /\ Items(dir) \subseteq Key /\ IsFiniteSet(Items(dir))
         /\ \A i \in Items(dir) : \E k \in DOMAIN objects :
              k \in Key /\ InDir(k, dir) /\ i = ItemOf(k, dir)
<1>1. DOMAIN objects \subseteq Key
  BY NamesAssumption DEF Shapes, TypeOK
<1>2. \A i \in Items(dir) : \E k \in DOMAIN objects :
         k \in Key /\ InDir(k, dir) /\ i = ItemOf(k, dir)
  BY <1>1 DEF Items
<1>3. Items(dir) \subseteq Key
  BY <1>2, ItemsOfKeys
<1>4. IsFiniteSet(Items(dir))
  <2> DEFINE below == {k \in DOMAIN objects : InDir(k, dir)}
             items == {ItemOf(k, dir) : k \in below}
  <2>1. IsFiniteSet(below)
    BY FS_Subset DEF Shapes
  <2>2. IsFiniteSet(items)
    <3> HIDE DEF below
    <3>1. PICK n \in Nat : ExistsSurjection(1 .. n, below)
      BY <2>1, FS_NatSurjection
    <3>2. PICK g \in [1 .. n -> below] : \A k \in below : \E i \in 1 .. n : g[i] = k
      BY <3>1 DEF ExistsSurjection, Surjection
    <3>3. [i \in 1 .. n |-> ItemOf(g[i], dir)] \in Surjection(1 .. n, items)
      <4>1. [i \in 1 .. n |-> ItemOf(g[i], dir)] \in [1 .. n -> items]
        BY <3>2
      <4>2. ASSUME NEW j \in items
            PROVE  \E i \in 1 .. n : [m \in 1 .. n |-> ItemOf(g[m], dir)][i] = j
        <5>1. PICK k \in below : j = ItemOf(k, dir)
          BY <4>2
        <5>2. PICK i \in 1 .. n : g[i] = k
          BY <3>2
        <5> QED
          BY <5>1, <5>2
      <4> QED
        BY <4>1, <4>2 DEF Surjection
    <3>4. ExistsSurjection(1 .. n, items)
      BY <3>3 DEF ExistsSurjection
    <3> QED
      BY <3>4, FS_NatSurjection
  <2>3. Items(dir) \subseteq items
    BY DEF Items
  <2> QED
    BY <2>2, <2>3, FS_Subset
<1> QED
  BY <1>2, <1>3, <1>4

(* What a directory lists, and has not listed yet, is among its items,     *)
(* under its name.                                                         *)
LEMMA FactsAreItems ==
  ASSUME Shapes, NEW dir \in Dir, NEW f \in Facts(objects), Direct(f, dir),
         KeyLess(after, ItemFor(f))
  PROVE  /\ ItemFor(f) \in Items(dir)
         /\ NameOf(ItemFor(f), dir) = f.at[Len(f.at)]
         /\ f.at[Len(f.at)] # EmptySegment
<1>1. DOMAIN objects \subseteq Key
  BY NamesAssumption DEF Shapes, TypeOK
<1>2. f.at \in Key /\ InDir(f.at, dir) /\ Len(f.at) = Len(dir) + 1 /\ f.at # Placeholder(dir)
  BY FactsAreOfKeys DEF Direct
<1>3. f.at = Append(dir, f.at[Len(dir) + 1])
  BY <1>2, ItemsOfKeys
<1>4. f.at[Len(f.at)] # EmptySegment
  <2>1. Placeholder(dir) = Append(dir, EmptySegment)
    BY DEF Placeholder, Dir, EmptySegment, Segment
  <2> QED
    BY <1>2, <1>3, <2>1
<1>5. PICK k \in DOMAIN objects : InDir(k, dir) /\ ItemOf(k, dir) = ItemFor(f)
                                  /\ k[Len(dir) + 1] = f.at[Len(dir) + 1]
  <2>1. CASE f.is = AsDirectory
    <3>1. PICK k \in DOMAIN objects : \E n \in 0 .. Len(k) - 1 : f.at = SubSeq(k, 1, n)
      BY <2>1, FactsComeFromObjects
    <3>2. PICK n \in 0 .. Len(k) - 1 : f.at = SubSeq(k, 1, n)
      BY <3>1
    <3>3. k \in Key /\ Len(k) \in Nat
      BY <1>1 DEF Key
    <3>4. n = Len(dir) + 1 /\ n < Len(k) /\ Len(dir) \in Nat
      BY <1>2, <3>2, <3>3 DEF Key, Dir
    <3>5. SubSeq(k, 1, Len(dir)) = dir
      <4>1. SubSeq(f.at, 1, Len(dir)) = dir
        BY <1>2 DEF InDir
      <4>2. SubSeq(f.at, 1, Len(dir)) = SubSeq(k, 1, Len(dir))
        <5>1. /\ SubSeq(f.at, 1, Len(dir)) \in Seq(Segment)
              /\ Len(SubSeq(f.at, 1, Len(dir))) = Len(dir)
              /\ \A i \in 1 .. Len(dir) : SubSeq(f.at, 1, Len(dir))[i] = f.at[i]
          BY <1>2, <3>4 DEF Key
        <5>2. /\ SubSeq(k, 1, Len(dir)) \in Seq(Segment)
              /\ Len(SubSeq(k, 1, Len(dir))) = Len(dir)
              /\ \A i \in 1 .. Len(dir) : SubSeq(k, 1, Len(dir))[i] = k[i]
          BY <3>3, <3>4 DEF Key
        <5>3. \A i \in 1 .. Len(dir) : f.at[i] = k[i]
          BY <3>2, <3>3, <3>4 DEF Key
        <5> QED
          BY <5>1, <5>2, <5>3, SeqEqual
      <4> QED
        BY <4>1, <4>2
    <3>6. InDir(k, dir)
      BY <3>4, <3>5 DEF InDir
    <3>7. SubSeq(k, 1, Len(dir) + 1) = f.at
      BY <3>2, <3>4
    <3>8. ItemOf(k, dir) = Placeholder(f.at)
      <4>1. Len(k) # Len(dir) + 1
        BY <3>3, <3>4
      <4> QED
        BY <3>7, <4>1 DEF ItemOf
    <3>9. k[Len(dir) + 1] = f.at[Len(dir) + 1]
      BY <3>2, <3>3, <3>4 DEF Key
    <3> QED
      BY <2>1, <3>6, <3>8, <3>9 DEF ItemFor
  <2>2. CASE f.is # AsDirectory
    <3>1. f.at \in DOMAIN objects
      BY <2>2, FactsComeFromObjects
    <3>2. ItemOf(f.at, dir) = ItemFor(f)
      BY <1>2, <2>2 DEF ItemOf, ItemFor
    <3> QED
      BY <1>2, <3>1, <3>2
  <2> QED
    BY <2>1, <2>2
<1>6. NameOf(ItemFor(f), dir) = f.at[Len(f.at)]
  BY <1>1, <1>2, <1>5, ItemsOfKeys
<1>7. ItemFor(f) \in Items(dir)
  BY <1>5 DEF Items
<1> QED
  BY <1>4, <1>6, <1>7

(* A listed name is that of a fact: of a directory where the item is a     *)
(* common prefix, and of the object with that key where it is not.         *)
LEMMA ItemsAreFacts ==
  ASSUME Shapes, NEW dir \in Dir, NEW i \in Items(dir)
  PROVE  LET n == NameOf(i, dir) IN
         \/ /\ i = Append(Append(dir, n), EmptySegment)
            /\ [at |-> Append(dir, n), is |-> AsDirectory] \in Facts(objects)
         \/ /\ i = Append(dir, n) /\ Append(dir, n) \in DOMAIN objects
            /\ [at |-> Append(dir, n), is |-> AsFile(objects[Append(dir, n)])] \in Facts(objects)
            /\ \A m : i # Append(Append(dir, m), EmptySegment)
<1> DEFINE n == NameOf(i, dir)
<1>1. PICK k \in DOMAIN objects : k \in Key /\ InDir(k, dir) /\ i = ItemOf(k, dir)
  BY ItemsAreKeys
<1>2. /\ n = k[Len(dir) + 1] /\ n \in Segment /\ Len(dir) \in Nat
      /\ Len(k) \in Nat /\ Len(dir) + 1 <= Len(k)
      /\ SubSeq(k, 1, Len(dir) + 1) = Append(dir, n)
  BY <1>1, ItemsOfKeys DEF Key
<1>3. CASE Len(k) = Len(dir) + 1
  <2>1. i = k /\ k = Append(dir, n)
    BY <1>1, <1>2, <1>3, ItemsOfKeys
  <2>2. [at |-> k, is |-> AsFile(objects[k])] \in Facts(objects)
    BY FactsOfObjects
  <2>3. ASSUME NEW m
        PROVE  i # Append(Append(dir, m), EmptySegment)
    <3>1. Len(Append(Append(dir, m), EmptySegment)) = Len(dir) + 2
      BY DEF Dir
    <3> QED
      BY <1>2, <1>3, <2>1, <3>1
  <2> QED
    BY <2>1, <2>2, <2>3
<1>4. CASE Len(k) # Len(dir) + 1
  <2>1. i = Placeholder(Append(dir, n))
    BY <1>1, <1>2, <1>4, ItemsOfKeys
  <2>2. Append(dir, n) \in Seq(Segment)
    BY <1>2 DEF Dir
  <2>3. Placeholder(Append(dir, n)) = Append(Append(dir, n), EmptySegment)
    BY <2>2 DEF Placeholder, EmptySegment, Segment
  <2>4. [at |-> SubSeq(k, 1, Len(dir) + 1), is |-> AsDirectory] \in Facts(objects)
    <3>1. Len(dir) + 1 \in 0 .. Len(k) - 1
      BY <1>2, <1>4
    <3> QED
      BY <3>1, FactsOfObjects
  <2> QED
    BY <1>2, <2>1, <2>3, <2>4
<1> QED
  BY <1>3, <1>4


LEMMA ListPageHolds ==
  ASSUME IInv, ListPage
  PROVE  IInv'
<1> DEFINE dir   == ToDir
           page  == FirstKeys(Items(dir), PageSize)
           named == Named(page, dir)
           names == {NameOf(i, dir) : i \in named}
<1>1. /\ pc = "page"
      /\ entries' = [n \in DOMAIN entries \cup names |->
                       IF n \in DOMAIN entries THEN entries[n]
                       ELSE IF Append(Append(dir, n), EmptySegment) \in named THEN AsDirectory
                       ELSE AsFile(objects[Append(dir, n)])]
      /\ IF page = Items(dir)
         THEN pc' = "idle" /\ answer' = "listed" /\ after' = after
         ELSE after' = (CHOOSE k \in page : IsLast(k, page)) /\ pc' = pc /\ answer' = answer
      /\ UNCHANGED <<objects, changes, settings, request, size, got, witness>>
  BY DEF ListPage, Reply
<1>2. UNCHANGED <<ToKey, ToDir, ever, always>>
  BY <1>1 DEF ToKey, ToDir, witness
<1>3. Shapes /\ dir \in Dir
  BY RequestNames DEF IInv, Shapes, TypeOK, AnyRequest
<1>4. /\ Items(dir) \subseteq Key /\ IsFiniteSet(Items(dir))
      /\ page \subseteq Items(dir)
      /\ Items(dir) # {} => \E last \in page : IsLast(last, page)
      /\ \A last : IsLast(last, page) => \A k \in Items(dir) \ page : KeyLess(last, k)
  <2>1. Items(dir) \subseteq Key /\ IsFiniteSet(Items(dir))
    BY <1>3, ItemsAreKeys
  <2> QED
    BY <2>1, PageIsFirst, SizesAssumption
<1>5. /\ Facts(objects) \subseteq ever /\ always \subseteq Facts(objects)
      /\ answer = "none" /\ request.method = "List" /\ got' = got /\ size' = size
  BY <1>1 DEF IInv, Witnessed, Shapes, InCourse
<1>6. page # Items(dir) => IsLast(after', page) /\ after' \in page
  <2>1. SUFFICES ASSUME page # Items(dir)
                 PROVE  IsLast(after', page) /\ after' \in page
    OBVIOUS
  <2>2. \E last \in page : IsLast(last, page)
    BY <1>4, <2>1
  <2>3. after' = CHOOSE k \in page : IsLast(k, page)
    BY <1>1, <2>1
  <2> HIDE DEF page
  <2> QED
    BY <2>2, <2>3
<1>7. ASSUME NEW n \in names
      PROVE  /\ n # EmptySegment
             /\ \/ /\ Append(Append(dir, n), EmptySegment) \in named
                   /\ [at |-> Append(dir, n), is |-> AsDirectory] \in Facts(objects)
                \/ /\ Append(Append(dir, n), EmptySegment) \notin named
                   /\ Append(dir, n) \in DOMAIN objects
                   /\ [at |-> Append(dir, n), is |-> AsFile(objects[Append(dir, n)])] \in Facts(objects)
  <2>1. PICK i \in named : n = NameOf(i, dir)
    OBVIOUS
  <2>2. i \in Items(dir) /\ n # EmptySegment
    BY <1>4, <2>1 DEF Named
  <2>3. CASE Append(Append(dir, n), EmptySegment) \in named
    <3> DEFINE d == Append(Append(dir, n), EmptySegment)
    <3>1. d \in Items(dir)
      BY <1>4, <2>3 DEF Named
    <3>2. NameOf(d, dir) = n
      <4>1. n \in Segment
        BY <1>3, <2>1, <2>2, ItemsAreKeys, ItemsOfKeys
      <4> QED
        BY <1>3, <4>1 DEF NameOf, Dir, EmptySegment, Segment
    <3>3. [at |-> Append(dir, n), is |-> AsDirectory] \in Facts(objects)
      <4> HIDE DEF dir, named, page, names
      <4> QED
        BY <1>3, <3>1, <3>2, ItemsAreFacts
    <3> QED
      BY <2>2, <2>3, <3>3
  <2>4. CASE Append(Append(dir, n), EmptySegment) \notin named
    <3>1. i # Append(Append(dir, n), EmptySegment)
      BY <2>1, <2>4
    <3>2. /\ Append(dir, n) \in DOMAIN objects
          /\ [at |-> Append(dir, n), is |-> AsFile(objects[Append(dir, n)])] \in Facts(objects)
      <4> HIDE DEF dir, named, page, names
      <4> QED
        BY <1>3, <2>1, <2>2, <3>1, ItemsAreFacts
    <3> QED
      BY <2>2, <2>4, <3>2
  <2> QED
    BY <2>3, <2>4
<1>8. /\ DOMAIN entries' = DOMAIN entries \cup names
      /\ \A n \in DOMAIN entries : entries'[n] = entries[n]
      /\ \A n \in names \ DOMAIN entries :
           entries'[n] = IF Append(Append(dir, n), EmptySegment) \in named THEN AsDirectory
                         ELSE AsFile(objects[Append(dir, n)])
  <2> HIDE DEF named, names
  <2> QED
    BY <1>1
<1> HIDE DEF dir, page, named, names
<1>9. Shapes'
  <2>1. \A n \in DOMAIN entries' : entries'[n] \in Entry
    <3>1. \A n \in DOMAIN entries : entries[n] \in Entry
      BY <1>3 DEF Shapes, TypeOK
    <3>2. \A k \in DOMAIN objects : objects[k] \in Object
      BY <1>3 DEF Shapes, TypeOK
    <3>3. AsDirectory \in Entry /\ \A o \in Object : AsFile(o) \in Entry
      BY DEF Entry, AsDirectory, AsFile
    <3> QED
      BY <1>7, <1>8, <3>1, <3>2, <3>3
  <2>2. after' \in Key
    BY <1>1, <1>3, <1>4, <1>6 DEF Shapes
  <2>3. /\ UNCHANGED <<objects, changes, mayRead, maxReadSize, request, size, got>>
        /\ pc' \in {"idle", "page"} /\ answer' \in {"none", "listed"}
        /\ pc' = "idle" <=> answer' = "listed"
    BY <1>1, <1>5 DEF settings
  <2>4. TypeOK'
    BY <1>3, <2>1, <2>3 DEF Shapes, TypeOK, Object, Entry
  <2>5. InCourse'
    BY <1>5, <2>3 DEF InCourse
  <2> QED
    BY <1>3, <2>2, <2>3, <2>4, <2>5 DEF Shapes
<1>10. Witnessed'
  BY <1>1, <1>2, <1>5 DEF Witnessed
<1>11. ListingHolds'
  <2>1. \A n \in DOMAIN entries' :
          n # EmptySegment /\ [at |-> Append(ToDir, n), is |-> entries'[n]] \in ever
    <3>1. \A n \in DOMAIN entries :
            n # EmptySegment /\ [at |-> Append(ToDir, n), is |-> entries'[n]] \in ever
      BY <1>1, <1>8 DEF IInv, ListingHolds
    <3>2. \A n \in names \ DOMAIN entries :
            n # EmptySegment /\ [at |-> Append(ToDir, n), is |-> entries'[n]] \in ever
      BY <1>5, <1>7, <1>8 DEF dir
    <3> QED
      BY <1>8, <3>1, <3>2
  <2>2. ASSUME NEW f \in always, Direct(f, ToDir)
        PROVE  \/ f.at[Len(f.at)] \in DOMAIN entries'
               \/ page # Items(dir) /\ KeyLess(after', ItemFor(f))
    <3>1. CASE f.at[Len(f.at)] \in DOMAIN entries
      BY <1>8, <3>1
    <3>2. CASE f.at[Len(f.at)] \notin DOMAIN entries
      <4>1. KeyLess(after, ItemFor(f))
        BY <1>1, <2>2, <3>2 DEF IInv, ListingHolds
      <4>2. /\ ItemFor(f) \in Items(dir)
            /\ NameOf(ItemFor(f), dir) = f.at[Len(f.at)]
            /\ f.at[Len(f.at)] # EmptySegment
        BY <1>3, <1>5, <2>2, <4>1, FactsAreItems DEF dir
      <4>3. CASE ItemFor(f) \in page
        <5>1. ItemFor(f) \in named
          BY <4>2, <4>3 DEF named, Named
        <5>2. f.at[Len(f.at)] \in names
          BY <4>2, <5>1 DEF names
        <5> QED
          BY <1>8, <5>2
      <4>4. CASE ItemFor(f) \notin page
        BY <1>4, <1>6, <4>2, <4>4
      <4> QED
        BY <4>3, <4>4
    <3> QED
      BY <3>1, <3>2
  <2>3. /\ answer' = "listed" => page = Items(dir)
        /\ pc' = "page" => page # Items(dir)
    BY <1>1, <1>5 DEF dir, page
  <2> QED
    BY <1>2, <2>1, <2>2, <2>3 DEF ListingHolds
<1>12. StatHolds'
  BY <1>1, <1>5 DEF StatHolds, StatIsFaithful
<1>13. DownloadHolds'
  <2>1. pc' # "read" /\ answer' # "end of file"
    BY <1>1, <1>5
  <2> QED
    BY <1>2, <1>5, <2>1 DEF IInv, DownloadHolds, DownloadIsFaithful
<1> QED
  BY <1>9, <1>10, <1>11, <1>12, <1>13 DEF IInv

-----------------------------------------------------------------------------
(* Stat. *)

LEMMA HeadHolds ==
  ASSUME IInv, HeadObject
  PROVE  IInv'
<1>1. /\ pc = "head"
      /\ UNCHANGED <<objects, changes, settings, request, after, size, got, witness>>
      /\ \/ /\ ToKey \in DOMAIN objects /\ pc' = "idle" /\ answer' = "file"
            /\ entries' = [n \in {EmptySegment} |-> AsFile(objects[ToKey])]
         \/ /\ ToKey \notin DOMAIN objects /\ pc' = "probe"
            /\ answer' = answer /\ entries' = entries
  BY DEF HeadObject, Reply
<1>2. UNCHANGED <<ToKey, ToDir, ever, always>>
  BY <1>1 DEF ToKey, ToDir, witness
<1>3. /\ Facts(objects) \subseteq ever /\ always \subseteq Facts(objects)
      /\ answer = "none" /\ request.method = "Stat" /\ request.rel # <<>>
  BY <1>1 DEF IInv, Witnessed, Shapes, InCourse
<1>4. TypeOK'
  <2>1. \A n \in DOMAIN entries' : entries'[n] \in Entry
    <3>1. ToKey \in DOMAIN objects => AsFile(objects[ToKey]) \in Entry
      BY DEF IInv, Shapes, TypeOK, Entry, AsFile
    <3>2. \A n \in DOMAIN entries : entries[n] \in Entry
      BY DEF IInv, Shapes, TypeOK
    <3> QED
      BY <1>1, <3>1, <3>2
  <2> QED
    BY <1>1, <1>3, <2>1 DEF IInv, Shapes, TypeOK, settings, Object, Entry
<1>5. Shapes'
  BY <1>1, <1>3, <1>4 DEF IInv, Shapes, InCourse
<1>6. Witnessed'
  BY <1>1, <1>2, <1>3 DEF Witnessed
<1>7. ListingHolds'
  BY <1>1, <1>3 DEF ListingHolds
<1>8. StatHolds'
  <2>1. CASE ToKey \in DOMAIN objects
    <3>1. [at |-> ToKey, is |-> AsFile(objects[ToKey])] \in ever
      BY <1>3, <2>1, FactsOfObjects
    <3>2. entries'[EmptySegment] = AsFile(objects[ToKey])
      BY <1>1, <2>1
    <3> QED
      BY <1>1, <1>2, <2>1, <3>1, <3>2 DEF StatHolds, StatIsFaithful
  <2>2. CASE ToKey \notin DOMAIN objects
    <3>1. [at |-> ToKey, is |-> SomeFile] \notin always
      <4>1. SUFFICES ASSUME [at |-> ToKey, is |-> SomeFile] \in Facts(objects)
                     PROVE  FALSE
        BY <1>3
      <4>2. [at |-> ToKey, is |-> SomeFile].at \in DOMAIN objects
        BY <4>1, FactsComeFromObjects
      <4> QED
        BY <2>2, <4>2
    <3> QED
      BY <1>1, <1>2, <1>3, <2>2, <3>1 DEF StatHolds, StatIsFaithful
  <2> QED
    BY <2>1, <2>2
<1>9. DownloadHolds'
  BY <1>1, <1>2, <1>3 DEF IInv, DownloadHolds, DownloadIsFaithful
<1> QED
  BY <1>5, <1>6, <1>7, <1>8, <1>9 DEF IInv

LEMMA ProbeHolds ==
  ASSUME IInv, ProbeEntries
  PROVE  IInv'
<1>1. /\ pc = "probe" /\ pc' = "idle"
      /\ answer' = IF HasBelow THEN "directory" ELSE "not found"
      /\ UNCHANGED <<objects, changes, settings, request, after, entries, size, got, witness>>
  BY DEF ProbeEntries, Reply
<1>2. UNCHANGED <<ToKey, ToDir, ever, always>>
  BY <1>1 DEF ToKey, ToDir, witness
<1>3. /\ Facts(objects) \subseteq ever /\ always \subseteq Facts(objects)
      /\ [at |-> ToKey, is |-> SomeFile] \notin always
  BY <1>1 DEF IInv, Witnessed, StatHolds
<1>4. /\ ToDir \in Dir /\ DOMAIN objects \subseteq Key
  BY RequestNames, NamesAssumption DEF IInv, Shapes, TypeOK, AnyRequest
<1>5. HasBelow => [at |-> ToDir, is |-> AsDirectory] \in Facts(objects)
  <2>1. SUFFICES ASSUME NEW k \in DOMAIN objects, InDir(k, ToDir)
                 PROVE  [at |-> ToDir, is |-> AsDirectory] \in Facts(objects)
    BY DEF HasBelow, HasEntries
  <2>2. Len(ToDir) \in 0 .. Len(k) - 1 /\ SubSeq(k, 1, Len(ToDir)) = ToDir
    BY <1>4, <2>1 DEF InDir, Key, Dir
  <2> QED
    BY <2>2, FactsOfObjects
<1>6. [at |-> ToDir, is |-> AsDirectory] \in Facts(objects) => HasBelow
  <2> DEFINE f == [at |-> ToDir, is |-> AsDirectory]
  <2>1. SUFFICES ASSUME f \in Facts(objects)
                 PROVE  HasBelow
    OBVIOUS
  <2>2. f.at = ToDir /\ f.is = AsDirectory
    OBVIOUS
  <2> HIDE DEF f
  <2>3. PICK k \in DOMAIN objects : \E n \in 0 .. Len(k) - 1 : ToDir = SubSeq(k, 1, n)
    BY <2>1, <2>2, FactsComeFromObjects
  <2>4. PICK n \in 0 .. Len(k) - 1 : ToDir = SubSeq(k, 1, n)
    BY <2>3
  <2>5. k \in Key /\ Len(k) \in Nat
    BY <1>4 DEF Key
  <2>6. Len(ToDir) = n /\ n < Len(k)
    BY <2>4, <2>5 DEF Key
  <2>7. InDir(k, ToDir)
    BY <2>4, <2>5, <2>6 DEF InDir
  <2> QED
    BY <2>7 DEF HasBelow, HasEntries
<1>7. TypeOK'
  BY <1>1 DEF IInv, Shapes, TypeOK, settings, Object, Entry
<1>8. Shapes'
  BY <1>1, <1>7 DEF IInv, Shapes, InCourse
<1>9. Witnessed' /\ ListingHolds'
  BY <1>1 DEF Witnessed, ListingHolds
<1>10. StatHolds'
  BY <1>1, <1>2, <1>3, <1>5, <1>6 DEF StatHolds, StatIsFaithful
<1>11. DownloadHolds'
  BY <1>1, <1>2 DEF IInv, DownloadHolds, DownloadIsFaithful
<1> QED
  BY <1>8, <1>9, <1>10, <1>11 DEF IInv
-----------------------------------------------------------------------------
(* Downloads. *)

LEMMA OpenHolds ==
  ASSUME IInv, OpenFile
  PROVE  IInv'
<1>1. /\ pc = "open" /\ got = <<>>
      /\ answer = "none" /\ request.method = "Get"
      /\ UNCHANGED <<objects, changes, settings, request, after, entries, got, witness>>
      /\ \/ /\ ToKey \in DOMAIN objects /\ pc' = "read" /\ size' = objects[ToKey].size
            /\ answer' = answer
         \/ /\ ToKey \notin DOMAIN objects /\ pc' = "idle" /\ answer' = "not found"
            /\ size' = size
  BY DEF OpenFile, Reply, IInv, Shapes, InCourse
<1>2. UNCHANGED <<ToKey, ToDir, ever, always>>
  BY <1>1 DEF ToKey, ToDir, witness
<1>3. Facts(objects) \subseteq ever /\ always \subseteq Facts(objects)
  BY <1>1 DEF IInv, Witnessed
<1>4. size' \in 0 .. MaxSize /\ Len(got') = 0
  <2>1. ASSUME NEW k \in DOMAIN objects
        PROVE  objects[k].size \in 0 .. MaxSize
    <3>1. objects[k] \in Object
      BY DEF IInv, Shapes, TypeOK
    <3>2. objects[k].size \in 1 .. MaxSize
      BY <3>1 DEF Object
    <3> QED
      BY <3>2, SizesAssumption
  <2>2. size \in 0 .. MaxSize
    BY DEF IInv, Shapes, TypeOK
  <2> QED
    BY <1>1, <2>1, <2>2
<1>5. TypeOK'
  <2>1. Len(got') <= size' /\ got' = got
    <3>1. size' \in Nat
      BY <1>4, SizesAssumption
    <3>2. 0 <= size'
      BY <3>1
    <3>3. got' = got
      BY <1>1, Zenon
    <3> QED
      BY <1>4, <3>2, <3>3, Zenon
  <2>2. /\ pc' \in {"idle", "read"} /\ answer' \in {"none", "not found"}
        /\ pc' = "idle" => answer' # "none"
    BY <1>1
  <2>3. UNCHANGED <<objects, changes, mayRead, maxReadSize, request, entries>>
    BY <1>1 DEF settings
  <2> QED
    BY <1>4, <2>1, <2>2, <2>3 DEF IInv, Shapes, TypeOK, Object, Entry
<1>6. Shapes'
  BY <1>1, <1>5 DEF IInv, Shapes, InCourse
<1>7. Witnessed'
  BY <1>1, <1>2, <1>3 DEF Witnessed
<1>8. ListingHolds'
  BY <1>1 DEF ListingHolds
<1>9. StatHolds'
  BY <1>1 DEF StatHolds, StatIsFaithful
<1>10. DownloadHolds'
  <2>1. 0 <= size' /\ \A i \in 1 .. 0 : FALSE
    BY <1>4, SizesAssumption
  <2>2. Len(got') <= size' /\ \A i \in 1 .. Len(got') : FALSE
    BY <1>4, <2>1, Zenon
  <2>3. DownloadIsFaithful'
    BY <1>1, <2>2, Zenon DEF DownloadIsFaithful
  <2>4. ASSUME NEW f \in always, f.at = ToKey, f.is.kind = "file", pc' = "read"
        PROVE  size' = f.is.object.size
    <3>1. f.is = AsFile(objects[ToKey])
      BY <1>3, <2>4, FactsComeFromObjects
    <3> QED
      BY <1>1, <2>4, <3>1, KindsDiffer
  <2> QED
    BY <1>2, <2>2, <2>3, <2>4, Zenon DEF DownloadHolds
<1> QED
  BY <1>6, <1>7, <1>8, <1>9, <1>10 DEF IInv


(* The end of a read of n parts is after what there is, and not after the  *)
(* end that was found.                                                     *)
LEMMA EndOfReadIsAhead ==
  ASSUME NEW n \in 1 .. MaxSize, Len(got) \in Nat, size \in Nat, Len(got) < size
  PROVE  EndOfRead(n) \in Nat /\ Len(got) < EndOfRead(n) /\ EndOfRead(n) <= size
<1>1. n \in Nat /\ n > 0
  BY SizesAssumption
<1>2. CASE Len(got) + n >= size
  BY <1>2 DEF EndOfRead
<1>3. CASE ~ (Len(got) + n >= size)
  <2>1. EndOfRead(n) = Len(got) + n
    BY <1>3 DEF EndOfRead
  <2> QED
    BY <1>1, <1>3, <2>1
<1> QED
  BY <1>2, <1>3

LEMMA EqualParts ==
  ASSUME NEW S, NEW v \in S, NEW m \in Nat
  PROVE  [i \in 1 .. m |-> v] \in Seq(S) /\ Len([i \in 1 .. m |-> v]) = m
  OBVIOUS

LEMMA ReadAtHolds ==
  ASSUME IInv, NEW n \in 1 .. MaxSize, ReadAt(n)
  PROVE  IInv'
<1>1. /\ pc = "read"
      /\ UNCHANGED <<objects, changes, settings, request, after, entries, size, witness>>
  BY DEF ReadAt
<1>2. UNCHANGED <<ToKey, ToDir, ever, always>>
  BY <1>1 DEF ToKey, ToDir, witness
<1>3. /\ Facts(objects) \subseteq ever /\ always \subseteq Facts(objects)
      /\ answer = "none" /\ request.method = "Get"
  BY <1>1 DEF IInv, Witnessed, Shapes, InCourse
<1>4. /\ TypeOK
      /\ got \in Seq(0 .. MaxChanges) /\ Len(got) \in Nat /\ size \in Nat /\ Len(got) <= size
  <2>1. TypeOK /\ got \in Seq(0 .. MaxChanges) /\ Len(got) <= size /\ size \in 0 .. MaxSize
    BY DEF IInv, Shapes, TypeOK
  <2> QED
    BY <2>1, SizesAssumption, LenProperties
<1>5. \A f \in always : (f.at = ToKey /\ f.is.kind = "file") =>
         /\ size = f.is.object.size
         /\ \A i \in 1 .. Len(got) : got[i] = f.is.object.version
  BY <1>1 DEF IInv, DownloadHolds
<1>6. \A i \in 1 .. Len(got) : \E f \in ever :
         /\ f.at = ToKey /\ f.is.kind = "file"
         /\ f.is.object.version = got[i] /\ i <= f.is.object.size
  BY DEF IInv, DownloadHolds, DownloadIsFaithful
<1>7. Witnessed'
  BY <1>1, <1>2, <1>3 DEF Witnessed
<1>8. CASE /\ got' = got /\ pc' = "idle"
           /\ answer' \in {"error", "end of file"}
           /\ answer' = "end of file" => AtEnd(n)
  <2>1. TypeOK'
    <3>1. UNCHANGED <<objects, changes, mayRead, maxReadSize, request, entries, size, got>>
      BY <1>1, <1>8 DEF settings
    <3>2. /\ pc' = "idle" /\ answer' \in {"error", "end of file"} /\ answer' # "none"
      BY <1>8
    <3> QED
      BY <1>4, <3>1, <3>2 DEF TypeOK, Object, Entry
  <2>2. Shapes'
    BY <1>1, <1>8, <2>1 DEF IInv, Shapes, InCourse
  <2>3. ListingHolds'
    BY <1>8 DEF ListingHolds
  <2>4. StatHolds'
    BY <1>1, <1>3, <1>8 DEF StatHolds, StatIsFaithful
  <2>5. ASSUME NEW f \in always, f.at = ToKey, f.is.kind = "file", answer' = "end of file"
        PROVE  got = [i \in 1 .. f.is.object.size |-> f.is.object.version]
    <3>1. Len(got) = size
      <4>1. Len(got) >= size
        BY <1>8, <2>5, Zenon DEF AtEnd
      <4>2. Len(got) \in Nat /\ size \in Nat /\ Len(got) <= size
        BY <1>4
      <4> QED
        BY <4>1, <4>2
    <3>2. got = [i \in 1 .. Len(got) |-> got[i]]
      BY <1>4
    <3>3. size = f.is.object.size /\ \A i \in 1 .. Len(got) : got[i] = f.is.object.version
      BY <1>5, <2>5
    <3>4. [i \in 1 .. Len(got) |-> got[i]] = [i \in 1 .. Len(got) |-> f.is.object.version]
      BY <3>3
    <3> QED
      BY <3>1, <3>2, <3>3, <3>4
  <2>6. DownloadHolds'
    <3>1. DownloadIsFaithful'
      <4>1. Len(got) <= size /\ got' = got /\ size' = size
        BY <1>1, <1>4, <1>8
      <4> QED
        BY <1>2, <1>6, <2>5, <4>1, Zenon DEF DownloadIsFaithful
    <3> QED
      BY <1>8, <3>1 DEF DownloadHolds
  <2> QED
    BY <1>7, <2>2, <2>3, <2>4, <2>6 DEF IInv
<1>9. CASE /\ ~ AtEnd(n) /\ ToKey \in DOMAIN objects /\ Len(got) < objects[ToKey].size
           /\ LET o   == objects[ToKey]
                  end == IF EndOfRead(n) < o.size THEN EndOfRead(n) ELSE o.size
              IN got' = got \o [i \in 1 .. end - Len(got) |-> o.version]
           /\ UNCHANGED <<pc, answer>>
  <2> DEFINE o    == objects[ToKey]
             end  == IF EndOfRead(n) < o.size THEN EndOfRead(n) ELSE o.size
             part == [i \in 1 .. end - Len(got) |-> o.version]
  <2>1. o \in Object /\ o.size \in Nat /\ o.version \in 0 .. MaxChanges
    <3>1. o \in Object
      BY <1>4, <1>9 DEF TypeOK
    <3>2. o.size \in 1 .. MaxSize /\ o.version \in 0 .. MaxChanges
      BY <3>1 DEF Object
    <3> QED
      BY <3>1, <3>2, SizesAssumption
  <2>2. end \in Nat /\ Len(got) < end /\ end <= size /\ end <= o.size
    <3>1. Len(got) < size
      BY <1>4, <1>9 DEF AtEnd
    <3>2. EndOfRead(n) \in Nat /\ Len(got) < EndOfRead(n) /\ EndOfRead(n) <= size
      BY <1>4, <3>1, EndOfReadIsAhead
    <3>3. Len(got) < o.size
      BY <1>9
    <3> HIDE DEF o
    <3> QED
      BY <1>4, <2>1, <3>2, <3>3
  <2>3. part \in Seq(0 .. MaxChanges) /\ Len(part) = end - Len(got)
    <3> HIDE DEF o, end
    <3>1. end - Len(got) \in Nat
      BY <1>4, <2>2
    <3> QED
      BY <2>1, <3>1, EqualParts
  <2>4. got' = got \o part
    BY <1>9
  <2> HIDE DEF part, end
  <2>5. /\ got' \in Seq(0 .. MaxChanges) /\ Len(got') = end
        /\ \A i \in 1 .. Len(got) : got'[i] = got[i]
        /\ \A i \in Len(got) + 1 .. end : got'[i] = o.version
    <3>1. /\ got' \in Seq(0 .. MaxChanges)
          /\ Len(got') = Len(got) + Len(part)
          /\ \A i \in 1 .. Len(got) : got'[i] = got[i]
          /\ \A i \in Len(got) + 1 .. Len(got) + Len(part) : got'[i] = part[i - Len(got)]
      <4> HIDE DEF o
      <4> QED
        BY <1>4, <2>3, <2>4, ConcatProperties
    <3>2. Len(got) + Len(part) = end
      BY <1>4, <2>2, <2>3
    <3>3. ASSUME NEW i \in Len(got) + 1 .. end
          PROVE  part[i - Len(got)] = o.version
      <4>1. i - Len(got) \in 1 .. end - Len(got)
        BY <1>4, <2>2
      <4> QED
        BY <4>1 DEF part
    <3> QED
      BY <3>1, <3>2, <3>3
  <2>6. TypeOK'
    <3>1. UNCHANGED <<objects, changes, mayRead, maxReadSize, request, entries, size, pc, answer>>
      BY <1>1, <1>9 DEF settings
    <3>2. got' \in Seq(0 .. MaxChanges) /\ Len(got') <= size
      BY <2>2, <2>5
    <3> QED
      BY <1>4, <3>1, <3>2 DEF TypeOK, Object, Entry
  <2>7. Shapes'
    BY <1>1, <1>3, <1>9, <2>6 DEF IInv, Shapes, InCourse
  <2>8. ListingHolds'
    BY <1>1, <1>3, <1>9 DEF ListingHolds
  <2>9. StatHolds'
    BY <1>1, <1>3, <1>9 DEF StatHolds, StatIsFaithful
  <2>10. [at |-> ToKey, is |-> AsFile(o)] \in ever
    BY <1>3, <1>9, FactsOfObjects
  <2>11. ASSUME NEW i \in 1 .. Len(got')
         PROVE  \E f \in ever :
                  /\ f.at = ToKey /\ f.is.kind = "file"
                  /\ f.is.object.version = got'[i] /\ i <= f.is.object.size
    <3>1. CASE i \in 1 .. Len(got)
      BY <1>6, <2>5, <3>1
    <3>2. CASE i \notin 1 .. Len(got)
      <4> DEFINE f == [at |-> ToKey, is |-> AsFile(o)]
      <4>1. i \in Len(got) + 1 .. end /\ i <= o.size
        <5> HIDE DEF o
        <5> QED
          BY <1>4, <2>1, <2>2, <2>5, <3>2
      <4>2. f.at = ToKey /\ f.is.kind = "file" /\ f.is.object = o
        BY KindsDiffer
      <4> QED
        BY <2>5, <2>10, <4>1, <4>2
    <3> QED
      BY <3>1, <3>2
  <2>12. ASSUME NEW f \in always, f.at = ToKey, f.is.kind = "file"
         PROVE  /\ size = f.is.object.size
                /\ \A i \in 1 .. Len(got') : got'[i] = f.is.object.version
    <3>1. f.is = AsFile(o)
      BY <1>3, <2>12, FactsComeFromObjects
    <3>2. f.is.object = o
      BY <3>1, KindsDiffer
    <3>3. /\ size = f.is.object.size
          /\ \A i \in 1 .. Len(got) : got[i] = f.is.object.version
      BY <1>5, <2>12
    <3>4. ASSUME NEW i \in 1 .. Len(got')
          PROVE  i \in 1 .. Len(got) \/ i \in Len(got) + 1 .. end
      BY <1>4, <2>2, <2>5
    <3> QED
      BY <2>5, <3>2, <3>3, <3>4
  <2>13. DownloadHolds'
    <3>1. DownloadIsFaithful'
      <4>1. Len(got') <= size' /\ answer' # "end of file"
        BY <1>1, <1>3, <1>9, <2>2, <2>5
      <4> QED
        BY <1>2, <2>11, <4>1, Zenon DEF DownloadIsFaithful
    <3>2. size' = size
      BY <1>1
    <3> QED
      BY <1>2, <2>12, <3>1, <3>2, Zenon DEF DownloadHolds
  <2> QED
    BY <1>7, <2>7, <2>8, <2>9, <2>13 DEF IInv
<1> QED
  BY <1>8, <1>9 DEF ReadAt, Reply

-----------------------------------------------------------------------------
(* The invariant of every behaviour. *)

LEMMA InitHolds ==
  ASSUME Init
  PROVE  IInv
<1>1. PICK S \in InitialKeys : objects = [k \in S |-> [version |-> 0, size |-> MaxSize]]
  BY DEF Init
<1>2. /\ request = [method |-> "none", rel |-> <<>>]
      /\ pc = "idle" /\ after = <<>> /\ entries = NoEntries
      /\ size = 0 /\ got = <<>> /\ answer = "none" /\ always = {}
      /\ changes = 0 /\ mayRead \in BOOLEAN /\ maxReadSize \in MaxReadSizes
  BY DEF Init
<1>3. /\ DOMAIN objects \subseteq Keys /\ IsFiniteSet(DOMAIN objects)
      /\ \A k \in DOMAIN objects : objects[k] \in Object
  <2>1. [version |-> 0, size |-> MaxSize] \in Object
    BY SizesAssumption DEF Object
  <2>2. S \subseteq Keys /\ IsFiniteSet(S)
    BY NamesAssumption
  <2> QED
    BY <1>1, <2>1, <2>2
<1>4. 0 \in 0 .. MaxSize /\ 0 \in 0 .. MaxChanges
  BY SizesAssumption
<1>5. 0 <= 0 /\ got \in Seq(0 .. MaxChanges) /\ Len(got) = 0 /\ \A i \in 1 .. 0 : FALSE
  BY <1>2
<1>6. Len(got) <= size /\ \A i \in 1 .. Len(got) : FALSE
  BY <1>2, <1>5, Zenon
<1>7. TypeOK
  <2>1. \A n \in DOMAIN entries : entries[n] \in Entry
    BY <1>2 DEF NoEntries
  <2>2. request.method = "none" /\ request \in AnyRequest
    BY <1>2 DEF AnyRequest
  <2> QED
    BY <1>2, <1>3, <1>4, <1>5, <1>6, <2>1, <2>2 DEF TypeOK, AnyRequest
<1>8. Shapes
  BY <1>2, <1>3, <1>7 DEF Shapes, InCourse, Key
<1>9. DownloadHolds
  BY <1>2, <1>6, Zenon DEF DownloadHolds, DownloadIsFaithful
<1>10. Witnessed /\ ListingHolds /\ StatHolds
  BY <1>2 DEF Witnessed, ListingHolds, StatHolds, StatIsFaithful
<1> QED
  BY <1>8, <1>9, <1>10 DEF IInv

LEMMA StutterHolds ==
  ASSUME IInv, UNCHANGED vars
  PROVE  IInv'
<1>1. /\ UNCHANGED <<objects, changes, mayRead, maxReadSize, request, pc, after>>
      /\ UNCHANGED <<entries, size, got, answer, ever, always>>
  BY DEF vars, settings, progress, witness
<1>2. UNCHANGED <<ToKey, ToDir>>
  BY <1>1 DEF ToKey, ToDir
<1>3. Shapes' /\ Witnessed'
  BY <1>1 DEF IInv, Shapes, TypeOK, InCourse, Witnessed, Object, Entry
<1>4. ListingHolds' /\ StatHolds'
  BY <1>1, <1>2 DEF IInv, ListingHolds, StatHolds, StatIsFaithful
<1>5. DownloadHolds'
  BY <1>1, <1>2 DEF IInv, DownloadHolds, DownloadIsFaithful
<1> QED
  BY <1>3, <1>4, <1>5 DEF IInv

LEMMA InvariantHolds == Spec => []IInv
<1>1. IInv /\ [Next]_vars => IInv'
  <2>1. SUFFICES ASSUME IInv, [Next]_vars
                 PROVE  IInv'
    OBVIOUS
  <2>2. CASE \E k \in Keys : Store(k) \/ Delete(k)
    BY <2>1, <2>2, ChangeByOthersHolds DEF ChangeByOthers
  <2>3. CASE \E q \in Requests : Start(q)
    BY <2>1, <2>3, StartHolds
  <2>4. CASE Fail
    BY <2>1, <2>4, FailHolds
  <2>5. CASE Call
    BY <2>1, <2>5, ListPageHolds, HeadHolds, ProbeHolds, OpenHolds DEF Call
  <2>6. CASE \E n \in 1 .. MaxSize : ReadAt(n)
    BY <2>1, <2>6, ReadAtHolds
  <2>7. CASE UNCHANGED vars
    BY <2>1, <2>7, StutterHolds
  <2> QED
    BY <2>1, <2>2, <2>3, <2>4, <2>5, <2>6, <2>7 DEF Next
<1> QED
  BY InitHolds, <1>1, PTL DEF Spec

(* What a request holds between its calls has its shape, and a download    *)
(* has no more parts than the file had when it was opened (TypeOK; the     *)
(* reader's fields and the answers of Filelist and Fileread).              *)
THEOREM ReadsTyped == Spec => []TypeOK
<1>1. IInv => TypeOK
  BY DEF IInv, Shapes
<1> QED
  BY <1>1, InvariantHolds, PTL

(* However many pages a listing takes, and whatever others store and       *)
(* delete between them, it has every entry that was there all the time,    *)
(* each under its name, and none that never was (listDirectory).           *)
THEOREM ListingsAreFaithful == Spec => []ListingIsFaithful
<1>1. IInv => ListingIsFaithful
  BY DEF IInv, ListingHolds, ListingIsFaithful, Direct
<1> QED
  BY <1>1, InvariantHolds, PTL

(* What a stat says was so at some time since it was asked, and it finds   *)
(* what was a file all the time and what was a directory all the time      *)
(* (statPath).                                                             *)
THEOREM StatsAreFaithful == Spec => []StatIsFaithful
<1>1. IInv => StatIsFaithful
  BY DEF IInv, StatHolds
<1> QED
  BY <1>1, InvariantHolds, PTL

(* A download to its end of a file that nobody replaced is that file,      *)
(* whole, and every part of any download is one that the file had          *)
(* (s3Reader.ReadAt).                                                      *)
THEOREM DownloadsAreFaithful == Spec => []DownloadIsFaithful
<1>1. IInv => DownloadIsFaithful
  BY DEF IInv, DownloadHolds
<1> QED
  BY <1>1, InvariantHolds, PTL
=============================================================================
