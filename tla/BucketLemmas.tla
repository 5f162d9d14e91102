----------------------------- MODULE BucketLemmas -----------------------------
(***************************************************************************)
(* What the operators of Bucket on keys return.                            *)
(***************************************************************************)
EXTENDS Bucket, SequenceTheorems, FiniteSetTheorems, WellFoundedInduction, TLAPS

(* A concatenation starts with its first part. *)
LEMMA ConcatStartsWith ==
  ASSUME NEW a \in Seq(Segment), NEW b \in Seq(Segment)
  PROVE  /\ a \o b \in Seq(Segment)
         /\ Len(a \o b) = Len(a) + Len(b)
         /\ AtOrIn(a \o b, a)
  BY DEF AtOrIn

(* The key of a path (ObjectKey) is at the place the path names. *)
LEMMA ObjectKeyIsAt ==
  ASSUME NEW prefix \in Seq(Segment), NEW rel \in Seq(Segment)
  PROVE  /\ ObjectKey(prefix, rel) \in Key
         /\ DirPrefix(prefix, rel) \in Dir
         /\ AtOrIn(ObjectKey(prefix, rel), prefix \o rel)
<1>1. CASE rel = <<>>
  <2>1. prefix \o rel = prefix
    BY <1>1
  <2>2. <<EmptySegment>> \in Seq(Segment)
    BY DEF EmptySegment, Segment
  <2> QED BY <1>1, <2>1, <2>2, ConcatStartsWith DEF ObjectKey, DirPrefix, Key, Dir
<1>2. CASE rel # <<>>
  <2>1. prefix \o rel \in Seq(Segment)
    BY ConcatStartsWith
  <2>2. AtOrIn(prefix \o rel, prefix \o rel)
    BY <2>1, SubSeqFull DEF AtOrIn
  <2> QED BY <1>2, <2>1, <2>2 DEF ObjectKey, DirPrefix, Key, Dir
<1> QED BY <1>1, <1>2

(* The key of a path that names something below the prefix is never empty  *)
(* (the `key == ""` checks before Put and Remove).                         *)
LEMMA ObjectKeyIsValid ==
  ASSUME NEW prefix \in Seq(Segment), NEW rel \in Seq(Name), rel # <<>>
  PROVE  ValidKey(ObjectKey(prefix, rel))
<1>1. rel \in Seq(Segment) /\ Len(rel) > 0 /\ rel[Len(rel)] # EmptySegment
  BY DEF Name
<1>2. (prefix \o rel)[Len(prefix \o rel)] = rel[Len(rel)]
  BY <1>1
<1>3. ObjectKey(prefix, rel) = prefix \o rel
  BY DEF ObjectKey
<1>4. ASSUME prefix \o rel = <<EmptySegment>>  PROVE FALSE
  <2>1. (prefix \o rel)[Len(prefix \o rel)] = EmptySegment
    BY <1>4
  <2> QED BY <1>1, <1>2, <2>1
<1> QED BY <1>3, <1>4 DEF ValidKey

(* The placeholder of a directory is a key in it; it is the empty key only *)
(* for the whole bucket.                                                   *)
LEMMA PlaceholderIsIn ==
  ASSUME NEW dir \in Dir
  PROVE  /\ Placeholder(dir) \in Key
         /\ InDir(Placeholder(dir), dir)
         /\ dir # <<>> => ValidKey(Placeholder(dir))
<1>1. <<EmptySegment>> \in Seq(Segment) /\ Len(<<EmptySegment>>) = 1
  BY DEF EmptySegment, Segment
<1>2. /\ Placeholder(dir) \in Seq(Segment)
      /\ Len(Placeholder(dir)) = Len(dir) + 1
      /\ AtOrIn(Placeholder(dir), dir)
  BY <1>1, ConcatStartsWith DEF Placeholder, Dir
<1> QED BY <1>1, <1>2 DEF AtOrIn, InDir, Key, Dir, ValidKey

(* What is in a directory is at or in the place that its name gives. *)
LEMMA InDirIsAtOrIn ==
  ASSUME NEW k \in Key, NEW dir \in Dir, InDir(k, dir)
  PROVE  AtOrIn(k, dir)
  BY DEF InDir, AtOrIn, Key, Dir

(* Rebase moves a key of one directory to a key of the other. *)
LEMMA RebaseIsIn ==
  ASSUME NEW k \in Key, NEW from \in Dir, NEW to \in Dir, InDir(k, from)
  PROVE  /\ Rebase(k, from, to) \in Key
         /\ InDir(Rebase(k, from, to), to)
<1> DEFINE suffix == SubSeq(k, Len(from) + 1, Len(k))
<1>1. suffix \in Seq(Segment) /\ Len(suffix) = Len(k) - Len(from) /\ Len(suffix) > 0
  BY DEF InDir, Key, Dir
<1>2. Len(to \o suffix) = Len(to) + Len(suffix) /\ AtOrIn(to \o suffix, to)
  BY <1>1, ConcatStartsWith DEF Dir
<1>3. to \o suffix \in Key
  BY <1>1, ConcatStartsWith DEF Dir, Key
<1> QED BY <1>1, <1>2, <1>3 DEF Rebase, InDir, AtOrIn, Dir

(* Two directories that have a key in common are one below the other. *)
LEMMA SharedKeys ==
  ASSUME NEW k \in Key, NEW d \in Dir, NEW e \in Dir, AtOrIn(k, d), AtOrIn(k, e)
  PROVE  AtOrIn(d, e) \/ AtOrIn(e, d)
<1>1. /\ k \in Seq(Nat) /\ d \in Seq(Nat) /\ e \in Seq(Nat)
      /\ Len(k) \in Nat /\ Len(d) \in Nat /\ Len(e) \in Nat /\ Len(d) <= Len(k) /\ Len(e) <= Len(k)
  BY DEF Key, Dir, Segment, AtOrIn
<1>2. /\ \A i \in 1 .. Len(d) : d[i] = k[i]
      /\ \A i \in 1 .. Len(e) : e[i] = k[i]
  <2>1. \A n \in Nat : n <= Len(k) => \A i \in 1 .. n : SubSeq(k, 1, n)[i] = k[i]
    BY <1>1
  <2> QED
    BY <1>1, <2>1 DEF AtOrIn
<1>3. ASSUME NEW a \in Seq(Nat), NEW b \in Seq(Nat), Len(a) <= Len(b),
             \A i \in 1 .. Len(a) : a[i] = b[i]
      PROVE  SubSeq(b, 1, Len(a)) = a
  <2> DEFINE t == SubSeq(b, 1, Len(a))
  <2>1. Len(a) \in Nat /\ Len(b) \in Nat
    BY <1>3
  <2>2. t \in Seq(Nat) /\ Len(t) = Len(a) /\ \A i \in 1 .. Len(a) : t[i] = b[i]
    BY <1>3, <2>1
  <2>3. \A i \in 1 .. Len(a) : t[i] = a[i]
    BY <1>3, <2>2
  <2> HIDE DEF t
  <2>4. t = a
    BY <1>3, <2>1, <2>2, <2>3, SeqEqual
  <2> QED
    BY <2>4 DEF t
<1>4. CASE Len(d) <= Len(e)
  <2>1. \A i \in 1 .. Len(d) : d[i] = e[i]
    BY <1>1, <1>2, <1>4
  <2> QED
    BY <1>1, <1>3, <1>4, <2>1 DEF AtOrIn
<1>5. CASE Len(e) <= Len(d)
  <2>1. \A i \in 1 .. Len(e) : e[i] = d[i]
    BY <1>1, <1>2, <1>5
  <2> QED
    BY <1>1, <1>3, <1>5, <2>1 DEF AtOrIn
<1> QED
  BY <1>1, <1>4, <1>5

LEMMA ConcatCancels ==
  ASSUME NEW to \in Seq(Nat), NEW a \in Seq(Nat), NEW b \in Seq(Nat), to \o a = to \o b
  PROVE  a = b
<1>1. Len(to) \in Nat /\ Len(a) \in Nat /\ Len(b) \in Nat
  OBVIOUS
<1>2. Len(to \o a) = Len(to) + Len(a) /\ Len(to \o b) = Len(to) + Len(b)
  OBVIOUS
<1>3. Len(a) = Len(b)
  BY <1>1, <1>2
<1>4. \A i \in 1 .. Len(a) : (to \o a)[Len(to) + i] = a[i]
  BY <1>1
<1>5. \A i \in 1 .. Len(b) : (to \o b)[Len(to) + i] = b[i]
  BY <1>1
<1>6. \A i \in 1 .. Len(a) : a[i] = b[i]
  BY <1>3, <1>4, <1>5
<1> QED
  BY <1>3, <1>6, SeqEqual

(* Different keys of a directory go to different keys of another. *)
LEMMA RebaseApart ==
  ASSUME NEW j \in Key, NEW k \in Key, NEW from \in Dir, NEW to \in Dir,
         InDir(j, from), InDir(k, from), Rebase(j, from, to) = Rebase(k, from, to)
  PROVE  j = k
<1>1. /\ j \in Seq(Nat) /\ k \in Seq(Nat) /\ from \in Seq(Nat) /\ to \in Seq(Nat)
      /\ Len(j) \in Nat /\ Len(k) \in Nat /\ Len(from) \in Nat /\ Len(to) \in Nat
      /\ Len(j) > Len(from) /\ Len(k) > Len(from)
  BY DEF Key, Dir, Segment, InDir
<1> DEFINE a == SubSeq(j, Len(from) + 1, Len(j))
           b == SubSeq(k, Len(from) + 1, Len(k))
<1>2. /\ a \in Seq(Nat) /\ Len(a) = Len(j) - Len(from)
      /\ \A i \in 1 .. Len(j) - Len(from) : a[i] = j[i + Len(from)]
  BY <1>1
<1>3. /\ b \in Seq(Nat) /\ Len(b) = Len(k) - Len(from)
      /\ \A i \in 1 .. Len(k) - Len(from) : b[i] = k[i + Len(from)]
  BY <1>1
<1>4. a = b
  <2>1. to \o a = to \o b
    BY DEF Rebase
  <2> HIDE DEF a, b
  <2> QED
    BY <1>1, <1>2, <1>3, <2>1, ConcatCancels
<1>5. \A i \in 1 .. Len(from) : j[i] = from[i] /\ k[i] = from[i]
  <2>1. SubSeq(j, 1, Len(from)) = from /\ SubSeq(k, 1, Len(from)) = from
    BY DEF InDir
  <2>2. \A i \in 1 .. Len(from) : SubSeq(j, 1, Len(from))[i] = j[i] /\ SubSeq(k, 1, Len(from))[i] = k[i]
    BY <1>1
  <2> QED
    BY <2>1, <2>2
<1> HIDE DEF a, b
<1>6. Len(j) = Len(k)
  BY <1>1, <1>2, <1>3, <1>4
<1>7. ASSUME NEW i \in 1 .. Len(j), ~ i <= Len(from) PROVE j[i] = k[i]
  <2>1. i - Len(from) \in 1 .. Len(j) - Len(from) /\ (i - Len(from)) + Len(from) = i
    BY <1>1, <1>7
  <2>2. a[i - Len(from)] = j[i] /\ b[i - Len(from)] = k[i]
    BY <1>2, <1>3, <1>6, <2>1
  <2> QED
    BY <1>4, <2>2
<1>8. ASSUME NEW i \in 1 .. Len(j), i <= Len(from) PROVE j[i] = k[i]
  <2>1. i \in 1 .. Len(from)
    BY <1>1, <1>8
  <2> QED
    BY <1>5, <2>1
<1>9. \A i \in 1 .. Len(j) : j[i] = k[i]
  BY <1>7, <1>8
<1> QED
  BY <1>1, <1>6, <1>9, SeqEqual

-----------------------------------------------------------------------------
(* The order of keys, and the pages of a listing. *)

(* a comes before b for what is at place i, where b goes on and a ends, or *)
(* has a smaller segment.                                                  *)
LessAt(a, b, i) ==
  /\ i \in 1 .. Len(a) + 1 /\ i <= Len(b)
  /\ \A j \in 1 .. i - 1 : a[j] = b[j]
  /\ i <= Len(a) => a[i] < b[i]

(* The order of keys compares them place by place. *)
LEMMA KeyLessIsSomewhere ==
  ASSUME NEW a \in Key, NEW b \in Key
  PROVE  KeyLess(a, b) <=> \E i \in Nat : LessAt(a, b, i)
<1> USE DEF Key, Segment
<1>1. Len(a) \in Nat /\ Len(b) \in Nat
  OBVIOUS
<1>2. ASSUME Len(a) < Len(b), SubSeq(b, 1, Len(a)) = a
      PROVE  LessAt(a, b, Len(a) + 1)
  <2>1. \A j \in 1 .. Len(a) : SubSeq(b, 1, Len(a))[j] = b[j]
    BY <1>1, <1>2
  <2> QED
    BY <1>1, <1>2, <2>1 DEF LessAt
<1>3. ASSUME NEW i \in 1 .. Len(a), i <= Len(b), a[i] < b[i],
             SubSeq(a, 1, i - 1) = SubSeq(b, 1, i - 1)
      PROVE  LessAt(a, b, i)
  <2>1. \A j \in 1 .. i - 1 : SubSeq(a, 1, i - 1)[j] = a[j] /\ SubSeq(b, 1, i - 1)[j] = b[j]
    BY <1>1, <1>3
  <2> QED
    BY <1>1, <1>3, <2>1 DEF LessAt
<1>4. ASSUME NEW i \in Nat, LessAt(a, b, i)
      PROVE  KeyLess(a, b)
  <2>1. /\ i \in 1 .. Len(a) + 1 /\ i <= Len(b)
        /\ \A j \in 1 .. i - 1 : a[j] = b[j]
        /\ i <= Len(a) => a[i] < b[i]
    BY <1>4 DEF LessAt
  <2>2. CASE i = Len(a) + 1
    <3>1. /\ SubSeq(b, 1, Len(a)) \in Seq(Nat) /\ Len(SubSeq(b, 1, Len(a))) = Len(a)
          /\ \A j \in 1 .. Len(a) : SubSeq(b, 1, Len(a))[j] = b[j]
      BY <1>1, <2>1, <2>2
    <3>2. SubSeq(b, 1, Len(a)) = a
      BY <1>1, <2>1, <2>2, <3>1, SeqEqual
    <3> QED
      BY <1>1, <2>1, <2>2, <3>2 DEF KeyLess
  <2>3. CASE i <= Len(a)
    <3>1. /\ SubSeq(a, 1, i - 1) \in Seq(Nat) /\ Len(SubSeq(a, 1, i - 1)) = i - 1
          /\ \A j \in 1 .. i - 1 : SubSeq(a, 1, i - 1)[j] = a[j]
      BY <1>1, <2>1, <2>3
    <3>2. /\ SubSeq(b, 1, i - 1) \in Seq(Nat) /\ Len(SubSeq(b, 1, i - 1)) = i - 1
          /\ \A j \in 1 .. i - 1 : SubSeq(b, 1, i - 1)[j] = b[j]
      BY <1>1, <2>1, <2>3
    <3>3. SubSeq(a, 1, i - 1) = SubSeq(b, 1, i - 1)
      BY <1>1, <2>1, <3>1, <3>2, SeqEqual
    <3> QED
      BY <1>1, <2>1, <2>3, <3>3 DEF KeyLess
  <2> QED
    BY <1>1, <2>1, <2>2, <2>3
<1>5. ASSUME KeyLess(a, b)
      PROVE  \E i \in Nat : LessAt(a, b, i)
  <2>1. CASE Len(a) < Len(b) /\ SubSeq(b, 1, Len(a)) = a
    BY <1>1, <1>2, <2>1
  <2>2. ASSUME NEW i \in 1 .. Len(a), i <= Len(b), a[i] < b[i],
               SubSeq(a, 1, i - 1) = SubSeq(b, 1, i - 1)
        PROVE  \E n \in Nat : LessAt(a, b, n)
    <3>1. LessAt(a, b, i) /\ i \in Nat
      BY <1>1, <1>3, <2>2
    <3> QED
      BY <3>1
  <2> QED
    BY <1>5, <2>1, <2>2 DEF KeyLess
<1> QED
  BY <1>4, <1>5

LEMMA KeyLessIrreflexive ==
  ASSUME NEW a \in Key
  PROVE  ~ KeyLess(a, a)
<1>1. ASSUME NEW i \in Nat, LessAt(a, a, i)
      PROVE  FALSE
  BY <1>1 DEF LessAt, Key, Segment
<1> QED
  BY <1>1, KeyLessIsSomewhere

LEMMA KeyLessTransitive ==
  ASSUME NEW a \in Key, NEW b \in Key, NEW c \in Key, KeyLess(a, b), KeyLess(b, c)
  PROVE  KeyLess(a, c)
<1>1. PICK i \in Nat : LessAt(a, b, i)
  BY KeyLessIsSomewhere
<1>2. PICK j \in Nat : LessAt(b, c, j)
  BY KeyLessIsSomewhere
<1>3. /\ Len(a) \in Nat /\ Len(b) \in Nat /\ Len(c) \in Nat
      /\ \A n \in 1 .. Len(a) : a[n] \in Nat
      /\ \A n \in 1 .. Len(b) : b[n] \in Nat
      /\ \A n \in 1 .. Len(c) : c[n] \in Nat
  BY DEF Key, Segment
<1>4. CASE i < j
  <2>1. LessAt(a, c, i)
    BY <1>1, <1>2, <1>3, <1>4 DEF LessAt
  <2> QED
    BY <2>1, KeyLessIsSomewhere
<1>5. CASE j < i
  <2>1. LessAt(a, c, j)
    BY <1>1, <1>2, <1>3, <1>5 DEF LessAt
  <2> QED
    BY <2>1, KeyLessIsSomewhere
<1>6. CASE i = j
  <2>1. LessAt(a, c, i)
    BY <1>1, <1>2, <1>3, <1>6 DEF LessAt
  <2> QED
    BY <2>1, KeyLessIsSomewhere
<1> QED
  BY <1>4, <1>5, <1>6


Less == {pair \in Nat \X Nat : pair[1] < pair[2]}

(* A set of numbers that is not empty has a least one. *)
LEMMA LeastOfNaturals ==
  ASSUME NEW S, S \subseteq Nat, S # {}
  PROVE  \E n \in S : \A m \in S : n <= m
<1>1. IsWellFoundedOn(Less, Nat)
  BY NatLessThanWellFounded DEF OpToRel, Less
<1>2. PICK n \in S : \A m \in S : ~ (<<m, n>> \in Less)
  BY <1>1, WFMin
<1>3. ASSUME NEW m \in S
      PROVE  n <= m
  <2>1. <<m, n>> \in Less <=> m < n
    BY DEF Less
  <2> QED
    BY <1>2, <2>1
<1> QED
  BY <1>3

(* Of two keys one comes first. *)
LEMMA KeyLessTotal ==
  ASSUME NEW a \in Key, NEW b \in Key, a # b
  PROVE  KeyLess(a, b) \/ KeyLess(b, a)
<1>1. /\ Len(a) \in Nat /\ Len(b) \in Nat
      /\ \A n \in 1 .. Len(a) : a[n] \in Nat
      /\ \A n \in 1 .. Len(b) : b[n] \in Nat
  BY DEF Key, Segment
<1> DEFINE D == {i \in Nat \ {0} : i > Len(a) \/ i > Len(b) \/ a[i] # b[i]}
<1>2. Len(a) + 1 \in D
  BY <1>1
<1>3. PICK i \in D : \A m \in D : i <= m
  <2>1. D # {} /\ D \subseteq Nat
    BY <1>2
  <2> HIDE DEF D
  <2> QED
    BY <2>1, LeastOfNaturals
<1>4. \A j \in 1 .. i - 1 : j <= Len(a) /\ j <= Len(b) /\ a[j] = b[j]
  BY <1>1, <1>3
<1>5. i \in Nat \ {0} /\ i <= Len(a) + 1 /\ i <= Len(b) + 1
  <2>1. i \in Nat \ {0}
    OBVIOUS
  <2>2. i > 1 => i - 1 \in 1 .. i - 1
    BY <2>1
  <2> QED
    BY <1>1, <1>4, <2>1, <2>2
<1>6. ~ (i > Len(a) /\ i > Len(b))
  <2>1. SUFFICES ASSUME i > Len(a), i > Len(b)
                 PROVE  FALSE
    OBVIOUS
  <2>2. Len(a) = Len(b) /\ i = Len(a) + 1
    BY <1>1, <1>5, <2>1
  <2>3. a = b
    BY <1>1, <1>4, <2>2, SeqEqual DEF Key
  <2> QED
    BY <2>3
<1>7. CASE i > Len(a)
  <2>1. LessAt(a, b, i)
    BY <1>1, <1>4, <1>5, <1>6, <1>7 DEF LessAt
  <2> QED
    BY <1>5, <2>1, KeyLessIsSomewhere
<1>8. CASE i > Len(b)
  <2>1. LessAt(b, a, i)
    BY <1>1, <1>4, <1>5, <1>6, <1>8 DEF LessAt
  <2> QED
    BY <1>5, <2>1, KeyLessIsSomewhere
<1>9. CASE i <= Len(a) /\ i <= Len(b)
  <2>1. a[i] # b[i] /\ a[i] \in Nat /\ b[i] \in Nat
    BY <1>1, <1>5, <1>9
  <2>2. a[i] < b[i] => LessAt(a, b, i)
    BY <1>1, <1>4, <1>5, <1>9 DEF LessAt
  <2>3. b[i] < a[i] => LessAt(b, a, i)
    BY <1>1, <1>4, <1>5, <1>9 DEF LessAt
  <2>4. a[i] < b[i] \/ b[i] < a[i]
    BY <2>1
  <2> QED
    BY <1>5, <2>2, <2>3, <2>4, KeyLessIsSomewhere
<1> QED
  BY <1>1, <1>5, <1>7, <1>8, <1>9


Before(S, k) == {j \in S : KeyLess(j, k)}
After(S, k)  == {j \in S : KeyLess(k, j)}

(* A finite set of keys has a first and a last one. *)
LEMMA FirstAndLastKey ==
  ASSUME NEW S, S \subseteq Key, IsFiniteSet(S), S # {}
  PROVE  /\ \E k \in S : Before(S, k) = {}
         /\ \E k \in S : IsLast(k, S)
<1>1. \A k \in S : /\ IsFiniteSet(Before(S, k)) /\ Cardinality(Before(S, k)) \in Nat
                   /\ IsFiniteSet(After(S, k)) /\ Cardinality(After(S, k)) \in Nat
  BY FS_Subset, FS_CardinalityType DEF Before, After
<1>2. \E k \in S : Before(S, k) = {}
  <2> DEFINE N == {Cardinality(Before(S, k)) : k \in S}
  <2>1. PICK n \in N : \A m \in N : n <= m
    <3>1. N \subseteq Nat /\ N # {}
      BY <1>1
    <3> HIDE DEF N
    <3> QED
      BY <3>1, LeastOfNaturals
  <2>2. PICK k \in S : n = Cardinality(Before(S, k))
    OBVIOUS
  <2>3. ASSUME NEW j \in Before(S, k)
        PROVE  FALSE
    <3>1. j \in S /\ j \in Key /\ k \in Key /\ KeyLess(j, k)
      BY <2>3 DEF Before
    <3>2. Before(S, j) \subseteq Before(S, k)
      BY <3>1, KeyLessTransitive DEF Before
    <3>3. j \notin Before(S, j)
      BY <3>1, KeyLessIrreflexive DEF Before
    <3>4. Cardinality(Before(S, j)) < Cardinality(Before(S, k))
      BY <1>1, <2>2, <2>3, <3>1, <3>2, <3>3, FS_Subset, FS_CardinalityType
    <3> QED
      BY <1>1, <2>1, <2>2, <3>1, <3>4
  <2> QED
    BY <2>3
<1>3. \E k \in S : IsLast(k, S)
  <2> DEFINE N == {Cardinality(After(S, k)) : k \in S}
  <2>1. PICK n \in N : \A m \in N : n <= m
    <3>1. N \subseteq Nat /\ N # {}
      BY <1>1
    <3> HIDE DEF N
    <3> QED
      BY <3>1, LeastOfNaturals
  <2>2. PICK k \in S : n = Cardinality(After(S, k))
    OBVIOUS
  <2>3. ASSUME NEW j \in After(S, k)
        PROVE  FALSE
    <3>1. j \in S /\ j \in Key /\ k \in Key /\ KeyLess(k, j)
      BY <2>3 DEF After
    <3>2. After(S, j) \subseteq After(S, k)
      BY <3>1, KeyLessTransitive DEF After
    <3>3. j \notin After(S, j)
      BY <3>1, KeyLessIrreflexive DEF After
    <3>4. Cardinality(After(S, j)) < Cardinality(After(S, k))
      BY <1>1, <2>2, <2>3, <3>1, <3>2, <3>3, FS_Subset, FS_CardinalityType
    <3> QED
      BY <1>1, <2>1, <2>2, <3>1, <3>4
  <2> QED
    BY <2>3 DEF After, IsLast
<1> QED
  BY <1>2, <1>3

(* A page of a finite set of keys has some of them, and its last key comes *)
(* before all that are left for the pages that follow.                     *)
LEMMA PageIsFirst ==
  ASSUME NEW S, S \subseteq Key, IsFiniteSet(S), NEW n \in Nat \ {0}
  PROVE  /\ FirstKeys(S, n) \subseteq S
         /\ S # {} => \E last \in FirstKeys(S, n) : IsLast(last, FirstKeys(S, n))
         /\ \A last : IsLast(last, FirstKeys(S, n)) =>
              \A k \in S \ FirstKeys(S, n) : KeyLess(last, k)
<1> DEFINE page == FirstKeys(S, n)
<1>1. page \subseteq S /\ page \subseteq Key /\ IsFiniteSet(page)
  BY FS_Subset DEF FirstKeys
<1>2. \A k \in S : k \in page <=> Cardinality(Before(S, k)) < n
  BY DEF FirstKeys, Before
<1>3. S # {} => page # {}
  <2>1. SUFFICES ASSUME S # {}
                 PROVE  page # {}
    OBVIOUS
  <2>2. PICK k \in S : Before(S, k) = {}
    BY <2>1, FirstAndLastKey
  <2>3. Cardinality(Before(S, k)) = 0
    BY <2>2, FS_EmptySet
  <2> QED
    BY <1>2, <2>3
<1>4. ASSUME NEW last \in page, IsLast(last, page), NEW k \in S \ page
      PROVE  KeyLess(last, k)
  <2>1. last \in Key /\ k \in Key /\ last # k /\ last \in S
    BY <1>1
  <2>2. ~ KeyLess(k, last)
    <3>1. SUFFICES ASSUME KeyLess(k, last)
                   PROVE  FALSE
      OBVIOUS
    <3>2. Before(S, k) \subseteq Before(S, last)
      BY <2>1, <3>1, KeyLessTransitive DEF Before
    <3>3. /\ Cardinality(Before(S, k)) <= Cardinality(Before(S, last))
          /\ Cardinality(Before(S, k)) \in Nat /\ Cardinality(Before(S, last)) \in Nat
      BY <3>2, FS_Subset, FS_CardinalityType DEF Before
    <3>4. Cardinality(Before(S, k)) < n
      BY <1>2, <2>1, <3>3
    <3> QED
      BY <1>2, <3>4
  <2> QED
    BY <2>1, <2>2, KeyLessTotal
<1>5. S # {} => \E last \in page : IsLast(last, page)
  <2> HIDE DEF page
  <2> QED
    BY <1>1, <1>3, FirstAndLastKey
<1>6. \A last : IsLast(last, page) => last \in page
  BY DEF IsLast
<1> QED
  BY <1>1, <1>4, <1>5, <1>6
=============================================================================
