------------------------------- MODULE Bucket -------------------------------
(***************************************************************************)
(* S3 object keys and listings as the gateway uses them                    *)
(* (internal/storage).  A bucket is a partial function from keys to        *)
(* contents.  A key is split at its slashes into a sequence of segments;   *)
(* 0 is the empty segment, so that                                         *)
(*                                                                         *)
(*     "a/b" = <<a, b>>     "a/b/" = <<a, b, 0>>     "" = <<0>>            *)
(*                                                                         *)
(* A directory, the string "a/b/" used as a prefix of keys, is the         *)
(* sequence of the segments before its last slash: <<a, b>>.  The whole    *)
(* bucket is the directory <<>>.                                           *)
(*                                                                         *)
(* Here and in the other modules a definition headed "Variant" is a slip   *)
(* that the next definition could have had: the properties are tried       *)
(* against it, and no specification uses it.                               *)
(***************************************************************************)
EXTENDS Naturals, Sequences, FiniteSets

Segment == Nat
Key     == Seq(Segment)
Dir     == Seq(Segment)

EmptySegment == 0

(* A cleaned path has no empty segment. *)
Name == Segment \ {EmptySegment}

(* Backend.ObjectKey: the prefix "p/" followed by a relative path.  The    *)
(* empty relative path names the key "p/", or the key "" without a prefix. *)
ObjectKey(prefix, rel) ==
  prefix \o (IF rel = <<>> THEN <<EmptySegment>> ELSE rel)

(* Backend.DirPrefix. *)
DirPrefix(prefix, rel) == prefix \o rel

(* The key that DirPrefix is when it is used as the key of an object: the  *)
(* placeholder that marks an empty directory.                              *)
Placeholder(dir) == dir \o <<EmptySegment>>

(* The S3 client refuses a call whose key is the empty string. *)
ValidKey(key) == key # <<EmptySegment>>

(* The keys that have the string of dir as a prefix: "d/" itself, and      *)
(* everything below it, but not "d" nor "dx".                              *)
InDir(key, dir) ==
  /\ Len(key) > Len(dir)
  /\ SubSeq(key, 1, Len(dir)) = dir

(* The key is below dir, or is the name of dir itself without a slash.     *)
AtOrIn(key, dir) == Len(dir) <= Len(key) /\ SubSeq(key, 1, Len(dir)) = dir

(* strings.TrimPrefix(key, from), appended to the directory to. *)
Rebase(key, from, to) == to \o SubSeq(key, Len(from) + 1, Len(key))

-----------------------------------------------------------------------------
(* Listings return keys in order and in pages.  The order of two keys is   *)
(* the order of the first segments that differ; a key comes before the     *)
(* keys it is a prefix of.                                                 *)
KeyLess(a, b) ==
  \/ /\ Len(a) < Len(b)
     /\ SubSeq(b, 1, Len(a)) = a
  \/ \E i \in 1..Len(a) :
        /\ i <= Len(b)
        /\ a[i] < b[i]
        /\ SubSeq(a, 1, i - 1) = SubSeq(b, 1, i - 1)

(* The n first keys of the set S. *)
FirstKeys(S, n) == {k \in S : Cardinality({j \in S : KeyLess(j, k)}) < n}

IsLast(k, S) == k \in S /\ \A j \in S : ~ KeyLess(k, j)

(* Variant: the continuation is forgotten, and every page is the first. *)
RemainingFromStart(objects, dir, after) == {k \in DOMAIN objects : InDir(k, dir)}

(* Variant: the listing is not restricted to the directory. *)
RemainingAnywhere(objects, dir, after) == {k \in DOMAIN objects : KeyLess(after, k)}

(* ListObjectsV2 continued after the key `after` (<<>> for a first page):  *)
(* the keys of dir that are still to be listed.                            *)
Remaining(objects, dir, after) ==
  {k \in DOMAIN objects : InDir(k, dir) /\ KeyLess(after, k)}

(* Variant: objects are looked at, and common prefixes are not. *)
HasDirectEntries(objects, dir) ==
  \E k \in DOMAIN objects : InDir(k, dir) /\ Len(k) = Len(dir) + 1

(* Backend.PrefixHasEntries. *)
HasEntries(objects, dir) == \E k \in DOMAIN objects : InDir(k, dir)

PutObject(objects, key, content) ==
  [k \in DOMAIN objects \cup {key} |-> IF k = key THEN content ELSE objects[k]]

DeleteKeys(objects, keys) ==
  [k \in DOMAIN objects \ keys |-> objects[k]]
=============================================================================
