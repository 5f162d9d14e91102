--------------------------- MODULE MCFileCommands ---------------------------
(***************************************************************************)
(* Instances of FileCommands for TLC: two buckets, a backend on each, one  *)
(* of them with a prefix, users confined further, and the requests of each *)
(* run.                                                                    *)
(***************************************************************************)
EXTENDS FileCommands, Vfs

Rename(from, to) == [method |-> "Rename", from |-> from, to |-> to, content |-> Empty]
Copy(from, to)   == [method |-> "Copy", from |-> from, to |-> to, content |-> Empty]
Remove(path)     == [method |-> "Remove", from |-> path, to |-> RootPath, content |-> Empty]
Mkdir(path)      == [method |-> "Mkdir", from |-> path, to |-> RootPath, content |-> Empty]
Upload(path, c)  == [method |-> "Put", from |-> path, to |-> RootPath, content |-> c]

On(backend, rel) == [backend |-> backend, rel |-> rel]

(* Segments of keys and paths.  SrcX only looks like Src. *)
Home == 1
Src  == 2
SrcX == 3
Dst  == 4
FileA == 5
FileB == 6
Sub  == 7

(* The backend "disk" is the bucket "one" below Home; the backend "tape"   *)
(* is the whole bucket "two".                                              *)
TwoBackends == {"disk", "tape"}
TwoBuckets  == {"one", "two"}
OwnBucket   == [b \in TwoBackends |-> IF b = "disk" THEN "one" ELSE "two"]
ServerVFS   == [b \in TwoBackends |-> IF b = "disk" THEN <<Home>> ELSE <<>>]

AnyUser == [backends |-> {}, prefix |-> <<>>, backendPrefixes |-> NoPrefixes]

(* Users confined to "tape", or to a directory of "disk". *)
TapeUser == [AnyUser EXCEPT !.backends = {"tape"}]
MixedUser ==
  [AnyUser EXCEPT !.prefix = <<Dst>>,
                  !.backendPrefixes = [b \in {"disk", Wildcard} |->
                                         IF b = "disk" THEN <<Sub>> ELSE <<>>]]

Data == {"c1", "c2", "c3", "c4", "c5", "empty", "new"}

NoObjects == [k \in {} |-> "empty"]

(* A file, a directory of three objects (two pages), one of them in a      *)
(* directory of its own, and an object whose name only starts alike.       *)
Tree ==
  [c \in TwoBuckets |->
     IF c = "one"
     THEN [k \in { <<Home, Src, FileA>>, <<Home, Src, Sub, FileB>>,
                   <<Home, Src, 0>>, <<Home, SrcX>>, <<Home, FileA>> } |->
             CASE k = <<Home, Src, FileA>>      -> "c1"
               [] k = <<Home, Src, Sub, FileB>> -> "c2"
               [] k = <<Home, SrcX>>            -> "c3"
               [] OTHER                         -> "empty"]
     ELSE NoObjects]

(* "src" is a file and a directory at once; on "tape", an empty directory. *)
FileAndDir ==
  [c \in TwoBuckets |->
     IF c = "one"
     THEN [k \in { <<Home, Src>>, <<Home, Src, Sub, FileB>> } |->
             IF k = <<Home, Src>> THEN "c1" ELSE "c2"]
     ELSE [k \in { <<Src, 0>>, <<SrcX>> } |-> IF k = <<SrcX>> THEN "c3" ELSE "empty"]]

-----------------------------------------------------------------------------
(* One session with every permission; the source and the target of a       *)
(* command are apart.                                                      *)
OneSession    == {"s1"}
EverythingVFS == [t \in OneSession |-> SessionVFS(ServerVFS, AnyUser)]
AllAccess     == [t \in OneSession |-> ParsePermissions({})]
TreeStores    == {Tree, FileAndDir}

DiskRoot == On("disk", <<>>)
TapeRoot == On("tape", <<>>)
DiskSrc  == On("disk", <<Src>>)
TapeSrc  == On("tape", <<Src>>)
DiskDst  == On("disk", <<Dst>>)
TapeDst  == On("tape", <<Dst>>)

ApartRequests ==
  [t \in OneSession |->
    { Rename(DiskSrc, DiskDst), Rename(DiskSrc, TapeDst), Rename(TapeSrc, DiskDst),
      Rename(TapeSrc, TapeDst), Rename(DiskRoot, TapeDst), Rename(TapeRoot, DiskDst),
      Copy(DiskSrc, DiskDst), Copy(DiskSrc, TapeDst), Copy(TapeSrc, TapeDst),
      Remove(DiskSrc), Remove(TapeSrc), Remove(DiskRoot),
      Mkdir(DiskSrc), Mkdir(TapeRoot),
      Upload(DiskSrc, "new"), Upload(TapeRoot, "new") }]

(* Renames that overlap: a directory into itself, and out of itself.       *)
NestedRequests ==
  [t \in OneSession |->
    { Rename(DiskSrc, On("disk", <<Src, Sub>>)),
      Rename(On("disk", <<Src, Sub>>), DiskSrc) }]
-----------------------------------------------------------------------------
(* Three users.  mixed is confined to a directory of "disk", where it has  *)
(* a tree of its own; mover may not read, and also works in that tree;     *)
(* tape sees one backend only.                                             *)
Users == {"mixed", "mover", "tape"}

UserConfig(u) ==
  CASE u = "mixed" -> MixedUser
    [] u = "mover" -> AnyUser
    [] u = "tape"  -> TapeUser

UserVFS    == [u \in Users |-> SessionVFS(ServerVFS, UserConfig(u))]
UserAccess ==
  [u \in Users |-> ParsePermissions(
                     CASE u = "mixed" -> {"unknown"}
                       [] u = "mover" -> {"write", "delete"}
                       [] u = "tape"  -> {"read", "write"})]

(* The tree of mixed, as mover sees it. *)
MixedSrc == On("disk", <<Sub, Src>>)

UserRequests ==
  [u \in Users |->
     CASE u = "mixed" -> { Rename(DiskSrc, TapeDst), Rename(DiskSrc, DiskDst), Remove(DiskSrc) }
       [] u = "mover" -> { Rename(DiskSrc, DiskDst), Rename(DiskSrc, TapeSrc), Mkdir(DiskDst),
                           Rename(On("disk", <<SrcX>>), On("disk", <<Dst, SrcX>>)),
                           Rename(MixedSrc, DiskDst),
                           Remove(On("disk", <<Sub, Src, FileA>>)),
                           Upload(MixedSrc, "new"),
                           Upload(On("disk", <<Sub, Src, FileB>>), "new") }
       [] u = "tape"  -> { Copy(TapeSrc, DiskDst), Copy(TapeRoot, TapeDst),
                           Rename(TapeSrc, TapeDst),
                           Upload(On("tape", <<Dst, FileA>>), "new") }]

UserStore ==
  [c \in TwoBuckets |->
     IF c = "one"
     THEN [k \in { <<Home, Src, FileA>>, <<Home, Src, FileB>>, <<Home, SrcX>>,
                   <<Home, Sub, Src, FileA>>, <<Home, Sub, Src, FileB>> } |->
             CASE k = <<Home, Src, FileA>>      -> "c1"
               [] k = <<Home, SrcX>>            -> "c2"
               [] k = <<Home, Sub, Src, FileA>> -> "c3"
               [] k = <<Home, Src, FileB>>      -> "c4"
               [] k = <<Home, Sub, Src, FileB>> -> "c5"]
     ELSE [k \in { <<Src, 0>> } |-> "empty"]]

UserStores == {UserStore}
=============================================================================
