-------------------------- MODULE AuthFailuresProofs --------------------------
(***************************************************************************)
(* Blocks are kept, are deserved and survive, for any remotes, thresholds, *)
(* windows and durations, and any number of trackers, saves, reloads and   *)
(* restarts.  Three invariants, each used by the next:                     *)
(*                                                                         *)
(* IInv: only callbacks that have found a remote not blocked, and savers   *)
(* that have found its block over, change an entry; and a tracker that has *)
(* not been built yet has none, so that building it drops nothing.         *)
(*                                                                         *)
(* TypedInv: types, and that whatever is in a list, in a place of one that *)
(* an encoder reads, in an image or in a file is a failure of the remote,  *)
(* there once unless an encoder has read it twice.                         *)
(*                                                                         *)
(* SavedInv: the way of what is kept through the steps of a save.          *)
(***************************************************************************)
EXTENDS AuthFailures, FiniteSetTheorems, WellFoundedInduction, TLAPS

(* The maps have their shape; what is in them is not needed. *)
Shapes ==
  /\ now \in Nat
  /\ newest \in Nat /\ current \in Nat
  /\ newest = current \/ newest = current + 1
  /\ conn \in [Remotes -> Nat]
  /\ blocked = [t \in Trackers |-> [r \in Remotes |-> blocked[t][r]]]

(* Connections have a tracker that was installed. *)
ConnsAreServed == \A r \in Remotes : conn[r] <= current

(* A tracker that is still to be built blocks nobody. *)
UnbuiltAreEmpty == \A t \in Trackers, r \in Remotes : newest < t => blocked[t][r] = 0

IInv == Shapes /\ ConnsAreServed /\ UnbuiltAreEmpty

(* What a step may do to the blocks. *)
BlocksStay ==
  \A t \in Trackers, r \in Remotes :
    (now < blocked[t][r] /\ running' /\ t <= newest') => blocked'[t][r] = blocked[t][r]

LEMMA InitHolds == Init => IInv
<1> SUFFICES ASSUME Init PROVE IInv
  OBVIOUS
<1>1. blocked = [t \in Trackers |-> [r \in Remotes |-> 0]]
  BY DEF Init, Nothing
<1>2. Shapes
  BY <1>1 DEF Init, Shapes
<1> QED
  BY <1>1, <1>2 DEF Init, IInv, ConnsAreServed, UnbuiltAreEmpty

(* Steps that leave the blocks and the connections' trackers alone. *)
LEMMA QuietStep ==
  ASSUME IInv, UNCHANGED <<blocked, conn>>, now' \in {now, now + 1},
         \/ UNCHANGED <<newest, current>>
         \/ newest' = newest /\ current' = newest
  PROVE  IInv' /\ BlocksStay
<1>1. Shapes' /\ ConnsAreServed' /\ UnbuiltAreEmpty'
  BY DEF IInv, Shapes, ConnsAreServed, UnbuiltAreEmpty
<1> QED
  BY <1>1 DEF IInv, BlocksStay

(* A connection is made, or is let in: its entry goes, which was over. *)
LEMMA AcceptStep ==
  ASSUME IInv, NEW r \in Remotes, Connect(r) \/ Accept(r)
  PROVE  IInv' /\ BlocksStay
<1>1. /\ UNCHANGED <<now, newest, current>>
      /\ conn' = [conn EXCEPT ![r] = current]
  BY DEF Connect, Accept, process
<1>2. conn' \in [Remotes -> Nat] /\ ConnsAreServed'
  BY <1>1 DEF IInv, Shapes, ConnsAreServed
<1>3. CASE Connect(r)
  <2>1. blocked' = blocked
    BY <1>3 DEF Connect, trackers
  <2> QED
    BY <1>1, <1>2, <2>1 DEF IInv, Shapes, UnbuiltAreEmpty, BlocksStay
<1>4. CASE Accept(r)
  <2>1. ~ now < blocked[conn[r]][r] /\ blocked' = [blocked EXCEPT ![conn[r]][r] = 0]
    BY <1>4 DEF Accept, IsBlocked
  <2>2. \A t \in Trackers, s \in Remotes :
          blocked'[t][s] = IF t = conn[r] /\ s = r THEN 0 ELSE blocked[t][s]
    BY <2>1 DEF IInv, Shapes
  <2>3. blocked' = [t \in Trackers |-> [s \in Remotes |-> blocked'[t][s]]]
    BY <2>1 DEF IInv, Shapes
  <2>4. Shapes' /\ UnbuiltAreEmpty'
    BY <1>1, <1>2, <2>2, <2>3 DEF IInv, Shapes, UnbuiltAreEmpty
  <2>5. BlocksStay
    BY <2>1, <2>2 DEF BlocksStay
  <2> QED
    BY <1>2, <2>4, <2>5 DEF IInv
<1> QED
  BY <1>3, <1>4

(* A rejected attempt sets the entry of a remote that was not blocked.     *)
LEMMA RejectStep ==
  ASSUME IInv, NEW r \in Remotes, Reject(r)
  PROVE  IInv' /\ BlocksStay
<1>1. /\ UNCHANGED <<now, newest, current, conn>> /\ ~ now < blocked[conn[r]][r]
      /\ \E x : blocked' = [blocked EXCEPT ![conn[r]][r] = x]
  BY DEF Reject, IsBlocked, process
<1>2. PICK x : blocked' = [blocked EXCEPT ![conn[r]][r] = x]
  BY <1>1
<1>3. /\ \A t \in Trackers, s \in Remotes :
           blocked'[t][s] = IF t = conn[r] /\ s = r THEN x ELSE blocked[t][s]
      /\ blocked' = [t \in Trackers |-> [s \in Remotes |-> blocked'[t][s]]]
  BY <1>2 DEF IInv, Shapes
<1>4. conn[r] \in Nat /\ conn[r] <= newest
  BY DEF IInv, Shapes, ConnsAreServed
<1>5. Shapes' /\ ConnsAreServed' /\ UnbuiltAreEmpty'
  <2>1. Shapes' /\ ConnsAreServed'
    BY <1>1, <1>3 DEF IInv, Shapes, ConnsAreServed
  <2>2. UnbuiltAreEmpty'
    BY <1>1, <1>3, <1>4 DEF IInv, Shapes, UnbuiltAreEmpty, Trackers
  <2> QED
    BY <2>1, <2>2
<1>6. BlocksStay
  BY <1>1, <1>3 DEF BlocksStay
<1> QED
  BY <1>5, <1>6 DEF IInv

(* A save drops the entries that are over. *)
LEMMA SaveStep ==
  ASSUME IInv, NEW u \in Trackers, BeginSave(u)
  PROVE  IInv' /\ BlocksStay
<1>1. /\ UNCHANGED <<now, newest, current, conn>>
      /\ blocked' = [blocked EXCEPT ![u] = [r \in Remotes |-> Unexpired(blocked[u][r])]]
  BY DEF BeginSave, process
<1>2. /\ \A t \in Trackers, r \in Remotes :
           blocked'[t][r] = IF t = u THEN Unexpired(blocked[t][r]) ELSE blocked[t][r]
      /\ blocked' = [t \in Trackers |-> [r \in Remotes |-> blocked'[t][r]]]
  BY <1>1 DEF IInv, Shapes
<1>3. \A t \in Trackers, r \in Remotes :
        /\ now < blocked[t][r] => blocked'[t][r] = blocked[t][r]
        /\ blocked[t][r] = 0 => blocked'[t][r] = 0
  BY <1>2 DEF Unexpired
<1>4. Shapes' /\ ConnsAreServed' /\ UnbuiltAreEmpty'
  BY <1>1, <1>2, <1>3 DEF IInv, Shapes, ConnsAreServed, UnbuiltAreEmpty
<1>5. BlocksStay
  BY <1>3 DEF BlocksStay
<1> QED
  BY <1>4, <1>5 DEF IInv

(* A tracker is built from the file, by a reload or a restart. *)
LEMMA BuildStep ==
  ASSUME IInv, newest < MaxTrackers, Build(newest + 1), now' = now,
         \/ newest = current /\ UNCHANGED <<current, conn>>
         \/ current' = newest + 1 /\ conn' = [r \in Remotes |-> newest + 1]
  PROVE  IInv' /\ BlocksStay
<1>1. newest' = newest + 1 /\ newest \in Nat /\ now \in Nat
  BY DEF Build, IInv, Shapes
<1>2. Loaded.blocked = [r \in Remotes |-> Loaded.blocked[r]]
  BY DEF Loaded, Nothing
<1>3. /\ \A t \in Trackers, r \in Remotes : t # newest + 1 => blocked'[t][r] = blocked[t][r]
      /\ blocked' = [t \in Trackers |-> [r \in Remotes |-> blocked'[t][r]]]
  <2> DEFINE B == Loaded.blocked
  <2>1. blocked' = [blocked EXCEPT ![newest + 1] = B] /\ B = [r \in Remotes |-> B[r]]
    BY <1>2 DEF Build
  <2> HIDE DEF B
  <2> QED
    BY <2>1 DEF IInv, Shapes
<1>4. Shapes' /\ ConnsAreServed'
  BY <1>1, <1>3 DEF IInv, Shapes, ConnsAreServed
<1>5. UnbuiltAreEmpty'
  BY <1>1, <1>3 DEF IInv, UnbuiltAreEmpty, Trackers
<1>6. BlocksStay
  <2>1. ASSUME NEW t \in Trackers, NEW r \in Remotes, now < blocked[t][r]
        PROVE  blocked'[t][r] = blocked[t][r]
    <3>1. t # newest + 1
      BY <1>1, <2>1 DEF IInv, UnbuiltAreEmpty
    <3> QED
      BY <1>3, <3>1
  <2> QED
    BY <2>1 DEF BlocksStay
<1> QED
  BY <1>4, <1>5, <1>6 DEF IInv

(* A tracker is dropped: by a build that fails, or with the process. *)
LEMMA DropStep ==
  ASSUME IInv, BuildFails \/ Die
  PROVE  IInv' /\ BlocksStay
<1>1. CASE BuildFails
  <2>1. UNCHANGED <<now, current, conn>> /\ newest' = current /\ newest # current
    BY <1>1 DEF BuildFails
  <2>2. newest = current + 1 /\ current \in Nat
    BY <2>1 DEF IInv, Shapes
  <2>3. blocked' = [t \in Trackers |-> IF t \in {newest} THEN Nothing.blocked ELSE blocked[t]]
    BY <1>1 DEF BuildFails, Discard
  <2>4. Nothing.blocked = [r \in Remotes |-> 0]
    BY DEF Nothing
  <2>5. \A t \in Trackers, r \in Remotes :
          blocked'[t][r] = IF t = newest THEN 0 ELSE blocked[t][r]
    BY <2>3, <2>4
  <2>6. blocked' = [t \in Trackers |-> [r \in Remotes |-> blocked'[t][r]]]
    BY <2>3, <2>4 DEF IInv, Shapes
  <2>7. Shapes' /\ ConnsAreServed'
    BY <2>1, <2>2, <2>6 DEF IInv, Shapes, ConnsAreServed
  <2>8. UnbuiltAreEmpty'
    BY <2>1, <2>2, <2>5 DEF IInv, UnbuiltAreEmpty, Trackers
  <2>9. BlocksStay
    BY <2>1, <2>2, <2>5 DEF BlocksStay, Trackers
  <2> QED
    BY <2>7, <2>8, <2>9 DEF IInv
<1>2. CASE Die
  <2>1. /\ UNCHANGED <<now, newest, current>> /\ running' = FALSE
        /\ conn' = [r \in Remotes |-> 0]
        /\ blocked' = [t \in Trackers |-> IF t \in Trackers THEN Nothing.blocked ELSE blocked[t]]
    BY <1>2 DEF Die, Discard, NoTracker
  <2>2. blocked' = [t \in Trackers |-> [r \in Remotes |-> 0]]
    BY <2>1 DEF Nothing
  <2> QED
    BY <2>1, <2>2 DEF IInv, Shapes, ConnsAreServed, UnbuiltAreEmpty, BlocksStay
<1> QED
  BY <1>1, <1>2

(* The other steps of the savers do not touch the maps. *)
LEMMA SaverStepIsQuiet ==
  ASSUME NEW t \in Trackers, SaverStep(t)
  PROVE  UNCHANGED <<now, newest, current, blocked, conn>>
<1>1. CASE TakeLists(t) \/ EncodeAndOpen(t)
  BY <1>1 DEF TakeLists, EncodeAndOpen, process, trackers
<1>2. CASE WriteTmp(t)
  BY <1>2 DEF WriteTmp, process, trackers
<1>3. CASE WriteFails(t) \/ RenameTmp(t) \/ RenameFails(t)
  <2>1. EndSave(t)
    BY <1>3 DEF WriteFails, RenameTmp, RenameFails
  <2> QED
    BY <2>1 DEF EndSave, process, trackers
<1> QED
  BY <1>1, <1>2, <1>3 DEF SaverStep

LEMMA NextStep ==
  ASSUME IInv, [Next]_vars
  PROVE  IInv' /\ BlocksStay
<1>1. CASE UNCHANGED vars
  <2>1. UNCHANGED <<now, newest, current, blocked, conn>>
    BY <1>1 DEF vars, process, trackers
  <2> QED
    BY <2>1, QuietStep
<1>2. CASE Tick
  <2>1. now' = now + 1 /\ UNCHANGED <<newest, current, blocked, conn>>
    BY <1>2 DEF Tick, process, trackers
  <2> QED
    BY <2>1, QuietStep
<1>3. ASSUME NEW r \in Remotes, Connect(r) \/ Accept(r) \/ Reject(r)
      PROVE  IInv' /\ BlocksStay
  BY <1>3, AcceptStep, RejectStep
<1>4. ASSUME NEW t \in Trackers, SaveNow(t) \/ SaveAtTheEnd(t)
      PROVE  IInv' /\ BlocksStay
  <2>1. BeginSave(t)
    BY <1>4 DEF SaveNow, SaveAtTheEnd
  <2> QED
    BY <2>1, SaveStep
<1>5. ASSUME NEW t \in Trackers, SaverStep(t)
      PROVE  IInv' /\ BlocksStay
  BY <1>5, SaverStepIsQuiet, QuietStep
<1>6. CASE BuildState
  <2>1. /\ newest < MaxTrackers /\ Build(newest + 1)
        /\ newest = current /\ UNCHANGED <<now, current, conn>>
    BY <1>6 DEF BuildState
  <2> QED
    BY <2>1, BuildStep
<1>7. CASE BuildFails \/ Die
  BY <1>7, DropStep
<1>8. CASE Install \/ Terminate
  <2>1. /\ UNCHANGED <<now, newest, blocked, conn>>
        /\ current' = newest \/ current' = current
    BY <1>8 DEF Install, Terminate, process, trackers
  <2> QED
    BY <2>1, QuietStep
<1>9. CASE Restart
  <2>1. /\ newest < MaxTrackers /\ Build(newest + 1) /\ now' = now
        /\ current' = newest + 1 /\ conn' = [r \in Remotes |-> newest + 1]
    BY <1>9 DEF Restart
  <2> QED
    BY <2>1, BuildStep
<1> QED
  BY <1>1, <1>2, <1>3, <1>4, <1>5, <1>6, <1>7, <1>8, <1>9 DEF Next

(* A tracker keeps a block that is in force until it is over, for as long  *)
(* as it exists, whatever other connections, its saver, reloads and        *)
(* restarts do: IsBlocked guards Record, and save drops what has expired   *)
(* (internal/auth/authfailures.go), and NewFailureTracker fills a map that *)
(* no connection has seen.                                                 *)
THEOREM BlocksAreKept == Spec => BlockIsKept
<1>1. Init => IInv
  BY InitHolds
<1>2. IInv /\ [Next]_vars => IInv'
  BY NextStep
<1>3. IInv /\ [Next]_vars => [BlocksStay]_vars
  BY NextStep
<1> QED
  BY <1>1, <1>2, <1>3, PTL DEF Spec, BlockIsKept, BlocksStay
-----------------------------------------------------------------------------
(* Types, and what a block takes.  Whatever a tracker, a saver or a file   *)
(* has of a remote goes back to failures of that remote.                   *)

(* The failures of H that counted at time x. *)
Counting(H, x) == {f \in H : f.when = x \/ (f.when <= x /\ x < f.when + Window)}

(* A list that a block has not come of: of failures in H, too few, and,    *)
(* where lists are clean, none of them twice.                              *)
Good(H, clean, list) ==
  /\ list \in Seq(H) /\ Len(list) < MaxAttempts
  /\ clean => \A i, j \in 1 .. Len(list) : list[i] = list[j] => i = j

(* The maps m know of failures in h only, of too few for a block, and what *)
(* they block has been deserved, but of those in d, who were encoded with  *)
(* a failure twice.                                                        *)
Sound(h, d, m) ==
  \A r \in Remotes :
    /\ Good(h[r], r \notin d, m.attempts[r])
    /\ (m.blocked[r] # 0 /\ r \notin d) =>
         Cardinality(Counting(h[r], m.blocked[r] - BlockDuration)) >= MaxAttempts

Maps(t) == [attempts |-> attempts[t], blocked |-> blocked[t]]

FlagsHold == running \in BOOLEAN /\ saves \in BOOLEAN /\ overlapped \in BOOLEAN

ProcessHolds ==
  /\ now \in 0 .. MaxTime
  /\ current \in Trackers /\ newest \in {current, current + 1} \cap Trackers
  /\ conn \in [Remotes -> 0 .. newest] /\ fired \in 0 .. MaxSaves

SaversHold ==
  /\ cancelled \subseteq Trackers /\ final \subseteq Trackers
  /\ saver \in [Trackers -> {"none", "idle", "encode", "read", "write", "rename", "ended"}]
  /\ fd \in [Trackers -> Files \cup {NoFile}]
  /\ \A t \in Trackers : fd[t] # NoFile => saver[t] = "write"
  /\ \A t \in Trackers : current < t => saver[t] = "none"
  /\ tmp \in Files \cup {NoFile} /\ stateFile \in Files \cup {NoFile}

HistoryHolds ==
  /\ history \in [Remotes -> SUBSET Failures]
  /\ \A r \in Remotes : IsFiniteSet(history[r])
  /\ \A r \in Remotes : \A f \in history[r] :
       f.when <= now /\ f.nth <= Cardinality(history[r])

MapsHold ==
  /\ attempts \in [Trackers -> [Remotes -> Seq(Failures)]]
  /\ blocked \in [Trackers -> [Remotes -> 0 .. MaxTime + BlockDuration]]
  /\ \A t \in Trackers : Sound(history, doubled, Maps(t))

(* What the places of a list have held while an encoder reads them. *)
PlacesIn(h, places) ==
  /\ places \in Seq(SUBSET Failures) /\ Len(places) < MaxAttempts
  /\ \A i \in 1 .. Len(places) : places[i] \subseteq h

EncodingHolds ==
  /\ reading \in [Trackers -> SUBSET Remotes] /\ doubled \subseteq Remotes
  /\ slots \in [Trackers -> [Remotes -> Seq(SUBSET Failures)]]
  /\ \A t \in Trackers, r \in Remotes : PlacesIn(history[r], slots[t][r])

ImagesHold ==
  /\ image \in [Trackers -> Image]
  /\ \A t \in Trackers : Sound(history, doubled, image[t])

FilesHold ==
  /\ content \in [Files -> Image \cup {Torn}]
  /\ \A f \in Files : content[f] # Torn => Sound(history, doubled, content[f])

KeptHolds == kept \in [Remotes -> 0 .. MaxTime + BlockDuration]

TypedInv ==
  /\ FlagsHold /\ ProcessHolds /\ SaversHold /\ HistoryHolds
  /\ MapsHold /\ EncodingHolds /\ ImagesHold /\ FilesHold /\ KeptHolds

(* Failures are not forgotten, nor that one was encoded twice. *)
Grows ==
  /\ \A r \in Remotes : history[r] \subseteq history'[r] /\ IsFiniteSet(history'[r])
  /\ doubled \subseteq doubled'

Less == {pair \in Nat \X Nat : pair[1] < pair[2]}

LEMMA MinOfNaturals ==
  ASSUME NEW S, S \subseteq Nat, S # {}
  PROVE  Min(S) \in S
<1>1. IsWellFoundedOn(Less, Nat)
  BY NatLessThanWellFounded DEF OpToRel, Less
<1>2. PICK x \in S : \A y \in S : ~ (<<y, x>> \in Less)
  BY <1>1, WFMin
<1>3. ASSUME NEW y \in S
      PROVE  x <= y
  <2>1. <<y, x>> \in Less <=> y < x
    BY DEF Less
  <2> QED
    BY <1>2, <2>1
<1> QED
  BY <1>3 DEF Min

LEMMA MaxOfTwo ==
  ASSUME NEW a \in Nat, NEW b \in Nat
  PROVE  Max({a, b}) = IF a >= b THEN a ELSE b
  BY DEF Max

UpTo(K, i) == {j \in K : j <= i}

(* Every element of part is one of list, at places in K that differ. *)
IsPlacing(place, part, list) ==
  /\ \A k \in 1 .. Len(part) : part[k] = list[place[k]]
  /\ \A k, l \in 1 .. Len(part) : place[k] = place[l] => k = l

PartAt(part, list, K) == \A k \in 1 .. Len(part) : \E i \in K : part[k] = list[i]

(* The k-th of a set of places. *)
LEMMA KthPlace ==
  ASSUME NEW n \in Nat, NEW K, K \subseteq 1 .. n, NEW k \in 1 .. Cardinality(K)
  PROVE  \E i \in K : Cardinality(UpTo(K, i)) = k
<1> DEFINE upto(i) == UpTo(K, i)
           S == {i \in Nat : Cardinality(upto(i)) >= k}
<1> USE DEF UpTo
<1>1. IsFiniteSet(K) /\ Cardinality(K) \in Nat
  <2>1. IsFiniteSet(1 .. n) /\ K \in SUBSET (1 .. n)
    BY FS_Interval
  <2>2. IsFiniteSet(K)
    BY <2>1, FS_Subset
  <2> QED
    BY <2>2, FS_CardinalityType
<1>2. ASSUME NEW i \in Nat
      PROVE  IsFiniteSet(upto(i)) /\ Cardinality(upto(i)) \in Nat
  <2>1. upto(i) \in SUBSET K
    OBVIOUS
  <2> HIDE DEF upto
  <2>2. IsFiniteSet(upto(i))
    BY <1>1, <2>1, FS_Subset
  <2> QED
    BY <2>2, FS_CardinalityType
<1>3. upto(n) = K
  <2>1. \A j \in K : j \in 1 .. n /\ j <= n
    OBVIOUS
  <2> QED
    BY <2>1
<1>4. upto(0) = {}
  <2>1. \A j \in K : ~ j <= 0
    OBVIOUS
  <2> QED
    BY <2>1
<1>5. ASSUME NEW i \in Nat, i + 1 \in K
      PROVE  upto(i + 1) = upto(i) \cup {i + 1} /\ i + 1 \notin upto(i)
  <2>1. \A j \in K : j <= i + 1 <=> j <= i \/ j = i + 1
    OBVIOUS
  <2>2. ~ i + 1 <= i
    OBVIOUS
  <2>3. \A j : j \in upto(i + 1) <=> j \in upto(i) \/ j = i + 1
    BY <1>5, <2>1
  <2> QED
    BY <2>2, <2>3
<1>6. ASSUME NEW i \in Nat, i + 1 \notin K
      PROVE  upto(i + 1) = upto(i)
  <2>1. \A j \in K : j \in Nat /\ j # i + 1 /\ (j <= i + 1 <=> j <= i)
    BY <1>6
  <2> QED
    BY <2>1
<1> HIDE DEF upto
<1>7. n \in S /\ S \subseteq Nat
  BY <1>1, <1>3
<1>8. PICK x \in S : \A y \in S : ~ (<<y, x>> \in Less)
  <2>1. IsWellFoundedOn(Less, Nat)
    BY NatLessThanWellFounded DEF OpToRel, Less
  <2> HIDE DEF S
  <2> QED
    BY <1>7, <2>1, WFMin
<1>9. x \in Nat /\ Cardinality(upto(x)) >= k
  OBVIOUS
<1>10. x # 0
  BY <1>4, <1>9, FS_EmptySet
<1>11. PICK i \in Nat : x = i + 1
  BY <1>9, <1>10
<1>12. ~ Cardinality(upto(i)) >= k
  <2>1. <<i, x>> \in Less
    BY <1>11 DEF Less
  <2> QED
    BY <1>8, <2>1
<1>13. x \in K
  BY <1>6, <1>9, <1>11, <1>12
<1>14. Cardinality(upto(x)) = Cardinality(upto(i)) + 1
  BY <1>2, <1>5, <1>11, <1>13, FS_AddElement
<1>15. Cardinality(upto(x)) = k
  BY <1>2, <1>9, <1>11, <1>12, <1>14
<1> QED
  BY <1>13, <1>15 DEF upto

(* A part of a list has elements at different places of it. *)
LEMMA SublistPlaces ==
  ASSUME NEW S, NEW list \in Seq(S), NEW K, K \subseteq 1 .. Len(list),
         NEW part, part = Sublist(list, K)
  PROVE  /\ part \in Seq(S) /\ Len(part) <= Len(list)
         /\ \E place \in [1 .. Len(part) -> K] : IsPlacing(place, part, list)
<1> DEFINE n == Cardinality(K)
           upto(i) == UpTo(K, i)
           place == [k \in 1 .. n |-> CHOOSE i \in K : Cardinality(upto(i)) = k]
<1>1. n \in Nat /\ n <= Len(list)
  <2>1. /\ IsFiniteSet(1 .. Len(list)) /\ Cardinality(1 .. Len(list)) = Len(list)
        /\ K \in SUBSET (1 .. Len(list)) /\ Len(list) \in Nat
    BY FS_Interval
  <2>2. IsFiniteSet(K) /\ Cardinality(K) <= Len(list)
    BY <2>1, FS_Subset
  <2> QED
    BY <2>2, FS_CardinalityType
<1>2. ASSUME NEW k \in 1 .. n
      PROVE  place[k] \in K /\ Cardinality(upto(place[k])) = k
  <2>1. \E i \in K : Cardinality(upto(i)) = k
    <3>1. Len(list) \in Nat /\ k \in 1 .. Cardinality(K)
      OBVIOUS
    <3> QED
      BY <3>1, KthPlace
  <2> HIDE DEF upto
  <2> QED
    BY <2>1
<1>3. part = [k \in 1 .. n |-> list[place[k]]]
  BY DEF Sublist, UpTo
<1> HIDE DEF n, upto
<1>4. place \in [1 .. n -> K]
  BY <1>2
<1> HIDE DEF place
<1>5. \A k, l \in 1 .. n : place[k] = place[l] => k = l
  BY <1>2
<1>6. \A i \in 1 .. Len(list) : list[i] \in S
  OBVIOUS
<1>7. \A k \in 1 .. n : list[place[k]] \in S
  BY <1>4, <1>6
<1>8. part \in [1 .. n -> S]
  BY <1>3, <1>7
<1>9. part \in Seq(S) /\ Len(part) = n
  BY <1>1, <1>8
<1>10. \A k \in 1 .. n : part[k] = list[place[k]]
  BY <1>3
<1> QED
  BY <1>1, <1>4, <1>5, <1>9, <1>10 DEF IsPlacing

LEMMA SublistIsGood ==
  ASSUME NEW H, NEW clean \in BOOLEAN, NEW list, Good(H, clean, list),
         NEW K, K \subseteq 1 .. Len(list), NEW part, part = Sublist(list, K)
  PROVE  Good(H, clean, part) /\ PartAt(part, list, K)
<1>1. list \in Seq(H) /\ Len(list) < MaxAttempts /\ Len(list) \in Nat
  BY DEF Good
<1>2. part \in Seq(H) /\ Len(part) <= Len(list)
  BY <1>1, SublistPlaces
<1>3. PICK place \in [1 .. Len(part) -> K] : IsPlacing(place, part, list)
  BY <1>1, SublistPlaces
<1>4. Len(part) < MaxAttempts
  BY <1>1, <1>2, ParametersAssumption
<1>5. ASSUME clean
      PROVE  \A k, l \in 1 .. Len(part) : part[k] = part[l] => k = l
  <2>1. \A i, j \in 1 .. Len(list) : list[i] = list[j] => i = j
    BY <1>5 DEF Good
  <2>2. \A k \in 1 .. Len(part) : place[k] \in 1 .. Len(list)
    OBVIOUS
  <2> QED
    BY <1>3, <2>1, <2>2 DEF IsPlacing
<1>6. Good(H, clean, part)
  BY <1>2, <1>4, <1>5 DEF Good
<1>7. PartAt(part, list, K)
  BY <1>3 DEF IsPlacing, PartAt
<1> QED
  BY <1>6, <1>7

LEMMA RecentIsGood ==
  ASSUME NEW H, NEW clean \in BOOLEAN, NEW list, Good(H, clean, list),
         NEW recent, recent = RecentFailures(list)
  PROVE  /\ Good(H, clean, recent)
         /\ \A k \in 1 .. Len(recent) : now < recent[k].when + Window
<1> DEFINE K == {i \in 1 .. Len(list) : now < list[i].when + Window}
<1>1. K \subseteq 1 .. Len(list) /\ recent = Sublist(list, K)
  BY DEF RecentFailures
<1>2. \A i \in K : now < list[i].when + Window
  OBVIOUS
<1> HIDE DEF K
<1>3. Good(H, clean, recent) /\ PartAt(recent, list, K)
  BY <1>1, SublistIsGood
<1> QED
  BY <1>2, <1>3 DEF PartAt

LEMMA ValidIsGood ==
  ASSUME NEW H, NEW clean \in BOOLEAN, NEW list, Good(H, clean, list)
  PROVE  Good(H, clean, StillValid(list))
<1> DEFINE K == {i \in 1 .. Len(list) : now <= list[i].when + Window}
<1>1. K \subseteq 1 .. Len(list) /\ StillValid(list) = Sublist(list, K)
  BY DEF StillValid
<1> HIDE DEF K
<1> QED
  BY <1>1, SublistIsGood

LEMMA GoodGrows ==
  ASSUME NEW H, NEW G, H \subseteq G, NEW clean, NEW cleaner, clean => cleaner,
         NEW list, Good(H, cleaner, list)
  PROVE  Good(G, clean, list)
<1>1. list \in Seq(G)
  BY DEF Good
<1> QED
  BY <1>1 DEF Good

(* What was deserved remains so when more failures come. *)
LEMMA SoundGrows ==
  ASSUME NEW h, NEW g, NEW d, NEW e, NEW m, Sound(h, d, m), d \subseteq e,
         \A r \in Remotes : h[r] \subseteq g[r] /\ IsFiniteSet(g[r])
  PROVE  Sound(g, e, m)
<1>1. ASSUME NEW r \in Remotes
      PROVE  Good(g[r], r \notin e, m.attempts[r])
  <2>1. Good(h[r], r \notin d, m.attempts[r])
    BY DEF Sound
  <2> QED
    BY <2>1, GoodGrows
<1>2. ASSUME NEW r \in Remotes, m.blocked[r] # 0, r \notin e
      PROVE  Cardinality(Counting(g[r], m.blocked[r] - BlockDuration)) >= MaxAttempts
  <2> DEFINE x == m.blocked[r] - BlockDuration
  <2>1. Counting(h[r], x) \subseteq Counting(g[r], x) /\ Counting(g[r], x) \subseteq g[r]
    BY DEF Counting
  <2>2. IsFiniteSet(Counting(g[r], x)) /\ IsFiniteSet(Counting(h[r], x))
    BY <2>1, FS_Subset
  <2>3. /\ Cardinality(Counting(h[r], x)) <= Cardinality(Counting(g[r], x))
        /\ Cardinality(Counting(h[r], x)) \in Nat /\ Cardinality(Counting(g[r], x)) \in Nat
    BY <2>1, <2>2, FS_Subset, FS_CardinalityType
  <2>4. Cardinality(Counting(h[r], x)) >= MaxAttempts
    BY <1>2 DEF Sound
  <2> QED
    BY <2>3, <2>4, ParametersAssumption
<1> QED
  BY <1>1, <1>2 DEF Sound

(* To forget blocks, and failures, is sound. *)
LEMMA SoundThins ==
  ASSUME NEW h, NEW e, NEW m, NEW d, Sound(h, e, m),
         \A r \in Remotes : /\ Good(h[r], r \notin e, d.attempts[r])
                            /\ d.blocked[r] \in {0, m.blocked[r]}
  PROVE  Sound(h, e, d)
  BY DEF Sound

LEMMA NothingIsSound ==
  ASSUME NEW h, NEW d
  PROVE  /\ Nothing \in Image /\ Sound(h, d, Nothing)
         /\ Nothing.attempts \in [Remotes -> Seq(Failures)]
         /\ \A r \in Remotes : Nothing.attempts[r] = <<>>
<1>1. /\ Nothing.attempts = [r \in Remotes |-> <<>>]
      /\ Nothing.blocked = [r \in Remotes |-> 0]
      /\ Nothing = [attempts |-> [r \in Remotes |-> <<>>], blocked |-> [r \in Remotes |-> 0]]
  BY DEF Nothing
<1>2. \A S : <<>> \in Seq(S) /\ Len(<<>>) = 0 /\ 0 < MaxAttempts
  BY ParametersAssumption
<1>3. Nothing \in Image
  BY <1>1, <1>2, ParametersAssumption DEF Image, Lists
<1>4. \A H, clean : Good(H, clean, <<>>)
  BY <1>2 DEF Good
<1>5. Nothing.attempts \in [Remotes -> Seq(Failures)]
  BY <1>1, <1>2
<1> QED
  BY <1>1, <1>3, <1>4, <1>5 DEF Sound

LEMMA InitIsTyped == Init => TypedInv
<1> SUFFICES ASSUME Init PROVE TypedInv
  OBVIOUS
<1>0. FlagsHold
  BY Zenon DEF Init, FlagsHold
<1>1. ProcessHolds
  BY ParametersAssumption DEF Init, ProcessHolds, Trackers
<1>2. SaversHold
  BY DEF Init, SaversHold, NoFile, Trackers
<1>3. HistoryHolds
  BY FS_EmptySet DEF Init, HistoryHolds
<1>4. \A t \in Trackers : Maps(t) = Nothing
  BY DEF Init, Maps, Nothing
<1>5. Nothing.blocked \in [Remotes -> 0 .. MaxTime + BlockDuration]
  BY ParametersAssumption DEF Nothing
<1>6. MapsHold
  BY <1>4, <1>5, NothingIsSound DEF Init, MapsHold
<1>7. EncodingHolds
  <2>1. \A h : PlacesIn(h, <<>>)
    BY ParametersAssumption DEF PlacesIn
  <2>2. Nothing.attempts = [r \in Remotes |-> <<>>] /\ <<>> \in Seq(SUBSET Failures)
    BY DEF Nothing
  <2> QED
    BY <2>1, <2>2 DEF Init, EncodingHolds
<1>8. ImagesHold
  BY NothingIsSound DEF Init, ImagesHold
<1>9. FilesHold
  BY DEF Init, FilesHold
<1> QED
  BY <1>0, <1>1, <1>2, <1>3, <1>5, <1>6, <1>7, <1>8, <1>9 DEF Init, TypedInv, KeptHolds

(* What the steps of a saver after its first leave alone. *)
LEMMA SaverStepFrame ==
  ASSUME NEW t \in Trackers, SaverStep(t)
  PROVE  UNCHANGED <<now, process, trackers, conn, fired, cancelled, history, overlapped>>
<1>1. CASE TakeLists(t) \/ EncodeAndOpen(t)
  BY <1>1 DEF TakeLists, EncodeAndOpen, record
<1>2. CASE WriteTmp(t)
  BY <1>2 DEF WriteTmp, record
<1>3. CASE WriteFails(t) \/ RenameTmp(t) \/ RenameFails(t)
  <2>1. EndSave(t)
    BY <1>3 DEF WriteFails, RenameTmp, RenameFails
  <2> QED
    BY <2>1 DEF EndSave
<1> QED
  BY <1>1, <1>2, <1>3 DEF SaverStep

LEMMA FlagsStep ==
  ASSUME FlagsHold, [Next]_vars
  PROVE  FlagsHold'
<1>1. ASSUME NEW t \in Trackers, SaverStep(t)
      PROVE  UNCHANGED <<running, saves, overlapped>>
  BY <1>1, SaverStepFrame DEF process
<1>2. ASSUME NEW t \in Trackers, BeginSave(t)
      PROVE  overlapped' \in {overlapped, TRUE}
  BY <1>2 DEF BeginSave, record
<1>3. running' \in {running, TRUE, FALSE} /\ saves' = saves
  BY <1>1 DEF Next, vars, process, Tick, Connect, Accept, Reject, SaveNow, SaveAtTheEnd,
     BeginSave, BuildState, BuildFails, Install, Terminate, Die, Restart
<1>4. overlapped' \in {overlapped, TRUE}
  BY <1>1, <1>2 DEF Next, vars, record, Tick, Connect, Accept, Reject, SaveNow,
     SaveAtTheEnd, BuildState, BuildFails, Install, Terminate, Die, Restart
<1> QED
  BY <1>3, <1>4 DEF FlagsHold

LEMMA ProcessStep ==
  ASSUME IInv, ProcessHolds, [Next]_vars
  PROVE  ProcessHolds'
<1> USE ParametersAssumption DEF ProcessHolds, Trackers
<1>1. CASE UNCHANGED vars
  BY <1>1 DEF vars, process, savers
<1>2. CASE Tick
  BY <1>2 DEF Tick, process, savers
<1>3. ASSUME NEW r \in Remotes, Connect(r) \/ Accept(r) \/ Reject(r)
      PROVE  ProcessHolds'
  <2>1. /\ UNCHANGED <<now, current, newest, fired>>
        /\ conn' = conn \/ conn' = [conn EXCEPT ![r] = current]
    BY <1>3 DEF Connect, Accept, Reject, process, savers
  <2> QED
    BY <2>1
<1>4. ASSUME NEW t \in Trackers, SaveNow(t) \/ SaveAtTheEnd(t) \/ SaverStep(t)
      PROVE  ProcessHolds'
  <2>1. UNCHANGED <<now, current, newest, conn>> /\ fired' \in 0 .. MaxSaves
    BY <1>4, SaverStepFrame DEF SaveNow, SaveAtTheEnd, BeginSave, process
  <2> QED
    BY <2>1
<1>5. CASE BuildState
  BY <1>5 DEF BuildState, Build, savers
<1>6. CASE BuildFails
  <2>1. UNCHANGED <<now, current, conn, fired>> /\ newest' = current
    BY <1>6 DEF BuildFails, savers
  <2>2. conn \in [Remotes -> 0 .. current]
    BY DEF IInv, ConnsAreServed
  <2> QED
    BY <2>1, <2>2
<1>7. CASE Install \/ Terminate
  BY <1>7 DEF Install, Terminate, process
<1>8. CASE Die
  BY <1>8 DEF Die, NoTracker
<1>9. CASE Restart
  BY <1>9 DEF Restart, Build
<1> QED
  BY <1>1, <1>2, <1>3, <1>4, <1>5, <1>6, <1>7, <1>8, <1>9 DEF Next

LEMMA HistoryStep ==
  ASSUME ProcessHolds, HistoryHolds, [Next]_vars
  PROVE  HistoryHolds' /\ \A r \in Remotes : history[r] \subseteq history'[r] /\ IsFiniteSet(history'[r])
<1>1. CASE UNCHANGED history
  <2>1. now' \in {now, now + 1}
    <3>1. ASSUME NEW t \in Trackers, SaverStep(t)
          PROVE  now' = now
      BY <3>1, SaverStepFrame
    <3> QED
      BY <3>1 DEF Next, vars, Tick, Connect, Accept, Reject, SaveNow, SaveAtTheEnd, BeginSave,
         BuildState, BuildFails, Install, Terminate, Die, Restart
  <2>2. \A r \in Remotes : \A f \in history[r] : f.when \in 0 .. MaxTime
    BY DEF HistoryHolds, Failures
  <2> QED
    BY <1>1, <2>1, <2>2, ParametersAssumption DEF ProcessHolds, HistoryHolds
<1>2. ASSUME NEW r \in Remotes, Reject(r)
      PROVE  /\ HistoryHolds'
             /\ \A s \in Remotes : history[s] \subseteq history'[s] /\ IsFiniteSet(history'[s])
  <2> DEFINE failure == [when |-> now, nth |-> Cardinality(history[r]) + 1]
             H == history[r] \cup {failure}
  <2>1. now' = now /\ history' = [history EXCEPT ![r] = H]
    BY <1>2 DEF Reject
  <2>2. Cardinality(history[r]) \in Nat /\ Cardinality(history[r]) < MaxFailures
    BY <1>2, FS_CardinalityType DEF Reject, HistoryHolds
  <2>3. failure \in Failures /\ failure.when <= now /\ failure.nth = Cardinality(history[r]) + 1
    BY <2>2, ParametersAssumption DEF Failures, ProcessHolds
  <2>4. \A f \in history[r] : f.nth <= Cardinality(history[r]) /\ f.nth \in Nat /\ f.when <= now
    BY ParametersAssumption DEF HistoryHolds, Failures
  <2>5. failure \notin history[r]
    BY <2>2, <2>3, <2>4
  <2> HIDE DEF failure
  <2>6. IsFiniteSet(H) /\ Cardinality(H) = Cardinality(history[r]) + 1
    BY <2>5, FS_AddElement DEF HistoryHolds
  <2>7. \A f \in H : f.when <= now /\ f.nth <= Cardinality(H)
    BY <2>2, <2>3, <2>4, <2>6
  <2>8. H \subseteq Failures /\ history[r] \subseteq H
    BY <2>3 DEF HistoryHolds
  <2> HIDE DEF H
  <2>9. history' \in [Remotes -> SUBSET Failures] /\ history'[r] = H
        /\ \A s \in Remotes : s # r => history'[s] = history[s]
    BY <2>1, <2>8 DEF HistoryHolds
  <2> QED
    BY <2>1, <2>6, <2>7, <2>8, <2>9 DEF HistoryHolds
<1>3. CASE \E r \in Remotes : Reject(r)
  BY <1>2, <1>3
<1>4. UNCHANGED history \/ \E r \in Remotes : Reject(r)
  <2>1. ASSUME NEW t \in Trackers, SaverStep(t)
        PROVE  history' = history
    BY <2>1, SaverStepFrame
  <2> QED
    BY <2>1 DEF Next, vars, Tick, Connect, Accept, SaveNow, SaveAtTheEnd, BeginSave,
       BuildState, BuildFails, Install, Terminate, Die, Restart
<1>5. CASE UNCHANGED history /\ HistoryHolds'
  BY <1>5 DEF HistoryHolds
<1> QED
  BY <1>1, <1>3, <1>4, <1>5

LEMMA DoubledStep ==
  ASSUME [Next]_vars
  PROVE  doubled \subseteq doubled'
<1>1. ASSUME NEW t \in Trackers, SaverStep(t)
      PROVE  doubled \subseteq doubled'
  <2>1. CASE EncodeAndOpen(t)
    BY <2>1 DEF EncodeAndOpen
  <2>2. CASE TakeLists(t) \/ WriteTmp(t)
    BY <2>2 DEF TakeLists, WriteTmp, encoding
  <2>3. CASE WriteFails(t) \/ RenameTmp(t) \/ RenameFails(t)
    BY <2>3 DEF WriteFails, RenameTmp, RenameFails, EndSave, encoding
  <2> QED
    BY <1>1, <2>1, <2>2, <2>3 DEF SaverStep
<1> QED
  BY <1>1 DEF Next, vars, encoding, Tick, Connect, Accept, Reject, SaveNow, SaveAtTheEnd, BeginSave,
     BuildState, BuildFails, Install, Terminate, Die, Restart

(* There is always a file that nobody has: at most one is the state file,  *)
(* and each saver has at most one open.                                    *)
LEMMA FreshFile ==
  ASSUME SaversHold, tmp = NoFile
  PROVE  Min(Files \ InUse) \in Files \ InUse
<1> DEFINE Others == Files \ {stateFile}
<1>1. IsFiniteSet(Trackers) /\ Cardinality(Trackers) = MaxTrackers
  BY FS_Interval, ParametersAssumption DEF Trackers
<1>2. IsFiniteSet(Files) /\ Cardinality(Files) = MaxTrackers + 2
  BY FS_Interval, ParametersAssumption DEF Files
<1>3. IsFiniteSet(Others) /\ Cardinality(Others) >= MaxTrackers + 1
  <2>1. Cardinality(Others) = IF stateFile \in Files THEN Cardinality(Files) - 1 ELSE Cardinality(Files)
    BY <1>2, FS_RemoveElement
  <2> QED
    BY <1>2, <2>1, FS_RemoveElement, ParametersAssumption
<1>4. Files \ InUse # {}
  <2> SUFFICES ASSUME Files \ InUse = {} PROVE FALSE
    OBVIOUS
  <2> DEFINE opener == [f \in Others |-> CHOOSE t \in Trackers : fd[t] = f]
  <2>1. ASSUME NEW f \in Others
        PROVE  opener[f] \in Trackers /\ fd[opener[f]] = f
    <3>1. f \in Files /\ f # stateFile /\ f # NoFile
      BY DEF Files, NoFile
    <3>2. \E t \in Trackers : fd[t] = f
      BY <3>1 DEF InUse
    <3> QED
      BY <3>2
  <2> HIDE DEF opener
  <2>2. opener \in [Others -> Trackers]
    BY <2>1 DEF opener
  <2>3. Cardinality(Trackers) < Cardinality(Others)
    BY <1>1, <1>3, FS_CardinalityType, ParametersAssumption
  <2>4. \E x, y \in Others : x # y /\ opener[x] = opener[y]
    BY <1>1, <1>3, <2>2, <2>3, FS_PigeonHole
  <2> QED
    BY <2>1, <2>4
<1>5. Files \ InUse \subseteq Nat
  BY ParametersAssumption DEF Files
<1> QED
  BY <1>4, <1>5, MinOfNaturals

LEMMA SaversStep ==
  ASSUME ProcessHolds, SaversHold, [Next]_vars
  PROVE  SaversHold'
<1> DEFINE places == {"none", "idle", "encode", "read", "write", "rename", "ended"}
<1>1. CASE UNCHANGED <<savers, tmp, stateFile, current>>
  BY <1>1 DEF savers, SaversHold
<1>2. ASSUME NEW t \in Trackers, SaveNow(t) \/ SaveAtTheEnd(t)
      PROVE  SaversHold'
  <2>1. /\ UNCHANGED <<cancelled, fd, tmp, stateFile, current>> /\ final' \subseteq Trackers
        /\ saver[t] = "idle" /\ saver' = [saver EXCEPT ![t] = "encode"]
    BY <1>2 DEF SaveNow, SaveAtTheEnd, BeginSave, Goto, disk, process, SaversHold
  <2> QED
    BY <2>1 DEF SaversHold
<1>10. ASSUME NEW t \in Trackers, TakeLists(t)
       PROVE  SaversHold'
  <2>1. /\ UNCHANGED <<cancelled, final, fd, tmp, stateFile, current>>
        /\ saver[t] = "encode" /\ saver' = [saver EXCEPT ![t] = "read"]
    BY <1>10 DEF TakeLists, Goto, disk, process
  <2> QED
    BY <2>1 DEF SaversHold
<1>3. ASSUME NEW t \in Trackers, EncodeAndOpen(t)
      PROVE  SaversHold'
  <2> DEFINE f == IF Target = NoFile THEN Min(Files \ InUse) ELSE Target
  <2>1. /\ UNCHANGED <<cancelled, final, stateFile, current>>
        /\ saver[t] = "read" /\ saver' = [saver EXCEPT ![t] = "write"]
        /\ fd' = [fd EXCEPT ![t] = f]
        /\ tmp' = tmp \/ tmp' = f
    BY <1>3 DEF EncodeAndOpen, Goto, process
  <2>2. f \in Files
    BY FreshFile DEF Target, SaversHold
  <2> HIDE DEF f
  <2> QED
    BY <2>1, <2>2 DEF SaversHold
<1>4. ASSUME NEW t \in Trackers, WriteTmp(t)
      PROVE  SaversHold'
  <2>1. /\ UNCHANGED <<cancelled, final, tmp, stateFile, current>>
        /\ saver[t] = "write" /\ saver' = [saver EXCEPT ![t] = "rename"]
        /\ fd' = [fd EXCEPT ![t] = NoFile]
    BY <1>4 DEF WriteTmp, Goto, process
  <2> QED
    BY <2>1 DEF SaversHold
<1>5. ASSUME NEW t \in Trackers, WriteFails(t) \/ RenameTmp(t) \/ RenameFails(t)
      PROVE  SaversHold'
  <2>1. /\ UNCHANGED <<cancelled, current>> /\ final' \subseteq final
        /\ \E pc \in {"ended", "idle"} : saver' = [saver EXCEPT ![t] = pc]
    BY <1>5 DEF WriteFails, RenameTmp, RenameFails, EndSave, Goto, AfterSave, process
  <2>2. /\ saver[t] \in {"write", "rename"}
        /\ (fd' = fd /\ saver[t] = "rename") \/ fd' = [fd EXCEPT ![t] = NoFile]
        /\ tmp' \in {tmp, NoFile} /\ stateFile' \in {stateFile, tmp}
    BY <1>5 DEF WriteFails, RenameTmp, RenameFails, disk
  <2>3. PICK pc \in {"ended", "idle"} : saver' = [saver EXCEPT ![t] = pc]
    BY <2>1
  <2>4. saver' \in [Trackers -> places] /\ fd' \in [Trackers -> Files \cup {NoFile}]
    BY <2>2, <2>3 DEF SaversHold
  <2>5. \A u \in Trackers : /\ fd'[u] # NoFile => saver'[u] = "write"
                            /\ current < u => saver'[u] = "none"
    BY <2>2, <2>3 DEF SaversHold
  <2> QED
    BY <2>1, <2>2, <2>4, <2>5 DEF SaversHold
<1>6. CASE Install
  <2>1. /\ UNCHANGED <<final, fd, tmp, stateFile>> /\ cancelled' = cancelled \cup {current}
        /\ newest # current /\ current' = newest
        /\ \E pc \in {"idle", "ended"} : saver' = [saver EXCEPT ![newest] = pc]
    BY <1>6 DEF Install, StartSaver, disk
  <2>2. newest \in Trackers /\ newest = current + 1 /\ current \in Trackers
    BY <2>1 DEF ProcessHolds
  <2>3. saver[newest] = "none"
    BY <2>2 DEF SaversHold, Trackers
  <2> QED
    BY <2>1, <2>2, <2>3 DEF SaversHold, Trackers
<1>7. CASE Terminate \/ Die
  BY <1>7 DEF Terminate, Die, process, disk, SaversHold, NoFile
<1>8. CASE Restart
  <2>1. /\ UNCHANGED <<cancelled, final, fd, tmp, stateFile>>
        /\ newest < MaxTrackers /\ current' = newest + 1
        /\ \E pc \in {"idle", "ended"} : saver' = [saver EXCEPT ![newest + 1] = pc]
    BY <1>8 DEF Restart, StartSaver, disk
  <2>2. newest + 1 \in Trackers /\ current \in Nat /\ current < newest + 1
    BY <2>1, ParametersAssumption DEF ProcessHolds, Trackers
  <2>3. saver[newest + 1] = "none"
    BY <2>2 DEF SaversHold
  <2> QED
    BY <2>1, <2>2, <2>3 DEF SaversHold, Trackers
<1>9. Tick \/ (\E r \in Remotes : Connect(r) \/ Accept(r) \/ Reject(r)) \/ BuildState \/ BuildFails
        \/ UNCHANGED vars => UNCHANGED <<savers, tmp, stateFile, current>>
  BY DEF Tick, Connect, Accept, Reject, BuildState, BuildFails, vars, disk, process
<1> QED
  BY <1>1, <1>2, <1>3, <1>4, <1>5, <1>6, <1>7, <1>8, <1>9, <1>10 DEF Next, SaverStep

(* What a tracker takes from the file. *)
LEMMA LoadedIsSound ==
  ASSUME SaversHold, HistoryHolds, FilesHold
  PROVE  /\ Loaded.attempts \in [Remotes -> Seq(Failures)]
         /\ Loaded.blocked \in [Remotes -> 0 .. MaxTime + BlockDuration]
         /\ Sound(history, doubled, Loaded)
<1>1. CASE stateFile = NoFile \/ content[stateFile] = Torn
  <2>1. Loaded = Nothing
    BY <1>1 DEF Loaded
  <2> QED
    BY <2>1, NothingIsSound DEF Image
<1>2. CASE ~ (stateFile = NoFile \/ content[stateFile] = Torn)
  <2> DEFINE file == content[stateFile]
  <2>1. file \in Image /\ Sound(history, doubled, file)
    BY <1>2 DEF SaversHold, FilesHold
  <2>2. Loaded = [attempts |-> [r \in Remotes |-> StillValid(file.attempts[r])],
                  blocked  |-> [r \in Remotes |-> Unexpired(file.blocked[r])]]
    BY <1>2 DEF Loaded
  <2> HIDE DEF file
  <2>3. /\ Loaded.attempts = [r \in Remotes |-> StillValid(file.attempts[r])]
        /\ Loaded.blocked = [r \in Remotes |-> Unexpired(file.blocked[r])]
    BY <2>2
  <2>4. ASSUME NEW r \in Remotes
        PROVE  /\ Good(history[r], r \notin doubled, Loaded.attempts[r])
               /\ Loaded.blocked[r] \in {0, file.blocked[r]}
               /\ Loaded.blocked[r] \in 0 .. MaxTime + BlockDuration
               /\ Loaded.attempts[r] \in Seq(Failures)
    <3>1. Good(history[r], r \notin doubled, file.attempts[r]) /\ (r \notin doubled) \in BOOLEAN
      BY <2>1 DEF Sound
    <3>2. Good(history[r], r \notin doubled, Loaded.attempts[r])
      <4> DEFINE clean == r \notin doubled
                 list == file.attempts[r]
      <4>1. Loaded.attempts[r] = StillValid(list)
        BY <2>3
      <4>2. Good(history[r], clean, list) /\ clean \in BOOLEAN
        BY <3>1
      <4> HIDE DEF clean, list
      <4>3. Good(history[r], clean, StillValid(list))
        BY <4>2, ValidIsGood
      <4> QED
        BY <4>1, <4>3 DEF clean
    <3>3. Loaded.attempts[r] \in Seq(Failures)
      BY <3>2 DEF Good, HistoryHolds
    <3>4. Loaded.blocked[r] \in {0, file.blocked[r]}
      BY <2>3 DEF Unexpired
    <3>5. file.blocked[r] \in 0 .. MaxTime + BlockDuration /\ 0 \in 0 .. MaxTime + BlockDuration
      BY <2>1, ParametersAssumption DEF Image
    <3> QED
      BY <3>2, <3>3, <3>4, <3>5
  <2>5. Sound(history, doubled, Loaded)
    BY <2>1, <2>4, SoundThins
  <2>6. /\ Loaded.attempts \in [Remotes -> Seq(Failures)]
        /\ Loaded.blocked \in [Remotes -> 0 .. MaxTime + BlockDuration]
    BY <2>3, <2>4
  <2> QED
    BY <2>5, <2>6
<1> QED
  BY <1>1, <1>2

(* The list of a remote after another failure. *)
Longer(H, clean, recent, f, list) ==
  /\ list \in Seq(H \cup {f}) /\ Len(list) \in Nat /\ Len(list) = Len(recent) + 1
  /\ \A i \in 1 .. Len(list) : list[i] = IF i \in 1 .. Len(recent) THEN recent[i] ELSE f
  /\ clean => \A i, j \in 1 .. Len(list) : list[i] = list[j] => i = j

LEMMA LongerIsClean ==
  ASSUME NEW H, NEW clean \in BOOLEAN, NEW recent, Good(H, clean, recent),
         NEW f, f \notin H, NEW list, list = Append(recent, f)
  PROVE  Longer(H, clean, recent, f, list)
<1>1. recent \in Seq(H) /\ recent \in Seq(H \cup {f}) /\ Len(recent) \in Nat
  BY DEF Good
<1>2. list \in Seq(H \cup {f}) /\ Len(list) \in Nat /\ Len(list) = Len(recent) + 1
  BY <1>1
<1>3. \A i \in 1 .. Len(list) : list[i] = IF i \in 1 .. Len(recent) THEN recent[i] ELSE f
  BY <1>1, <1>2
<1>4. \A i \in 1 .. Len(recent) : recent[i] \in H
  BY <1>1
<1>5. ASSUME clean, NEW i \in 1 .. Len(list), NEW j \in 1 .. Len(list), list[i] = list[j]
      PROVE  i = j
  <2>1. \A k, l \in 1 .. Len(recent) : recent[k] = recent[l] => k = l
    BY <1>5 DEF Good
  <2>2. \A k \in 1 .. Len(list) : k \in 1 .. Len(recent) \/ k = Len(recent) + 1
    BY <1>1, <1>2
  <2> QED
    BY <1>1, <1>3, <1>4, <1>5, <2>1, <2>2
<1> QED
  BY <1>2, <1>3, <1>5 DEF Longer

(* A list without repetition is no longer than what it is made of. *)
LEMMA CleanIsShort ==
  ASSUME NEW C, IsFiniteSet(C), NEW list \in Seq(C),
         \A i, j \in 1 .. Len(list) : list[i] = list[j] => i = j
  PROVE  Len(list) <= Cardinality(C)
<1>0. Len(list) \in Nat
  OBVIOUS
<1>1. Len(list) \in Nat /\ Cardinality(C) \in Nat
  BY <1>0, FS_CardinalityType
<1>2. IsFiniteSet(1 .. Len(list)) /\ Cardinality(1 .. Len(list)) = Len(list)
  <2>1. \A n \in Nat : IsFiniteSet(1 .. n) /\ Cardinality(1 .. n) = n
    BY FS_Interval
  <2> QED
    BY <1>1, <2>1
<1>3. SUFFICES ASSUME Cardinality(C) < Cardinality(1 .. Len(list)) PROVE FALSE
  BY <1>1, <1>2
<1>4. list \in [1 .. Len(list) -> C]
  OBVIOUS
<1>5. \E i, j \in 1 .. Len(list) : i # j /\ list[i] = list[j]
  BY <1>2, <1>3, <1>4, FS_PigeonHole
<1> QED
  BY <1>5

(* A rejected attempt: the block, if it comes to one, is deserved. *)
LEMMA RejectIsSound ==
  ASSUME ProcessHolds, HistoryHolds, HistoryHolds', MapsHold, Grows, NEW r \in Remotes, Reject(r)
  PROVE  MapsHold'
<1> DEFINE t == conn[r]
           recent == RecentFailures(attempts[t][r])
           failure == [when |-> now, nth |-> Cardinality(history[r]) + 1]
           list == Append(recent, failure)
<1>1. /\ history' = [history EXCEPT ![r] = @ \cup {failure}] /\ UNCHANGED doubled
      /\ attempts' = [attempts EXCEPT ![t][r] = IF Crosses(list) THEN <<>> ELSE list]
      /\ blocked' = [blocked EXCEPT ![t][r] = IF Crosses(list) THEN now + BlockDuration ELSE 0]
  BY DEF Reject
<1>2. ASSUME NEW u \in Trackers
      PROVE  Sound(history', doubled', Maps(u))
  BY SoundGrows DEF MapsHold, Grows
<1>3. CASE t \notin Trackers
  <2>1. UNCHANGED <<attempts, blocked>>
    BY <1>1, <1>3 DEF MapsHold
  <2> QED
    BY <1>2, <2>1 DEF MapsHold, Maps
<1>4. CASE t \in Trackers
  <2> DEFINE H == history[r]
             clean == r \notin doubled
  <2>1. /\ Good(H, clean, recent) /\ clean \in BOOLEAN
        /\ \A k \in 1 .. Len(recent) : now < recent[k].when + Window
    <3>1. Good(H, clean, attempts[t][r]) /\ clean \in BOOLEAN
      BY <1>4 DEF MapsHold, Sound, Maps
    <3> HIDE DEF clean, H
    <3> QED
      BY <3>1, RecentIsGood
  <2>2. /\ failure \notin H /\ failure.when = now /\ IsFiniteSet(H)
        /\ \A f \in H : f.when <= now
    <3>1. \A f \in H : f.nth <= Cardinality(H) /\ f.nth \in Nat /\ f.when <= now
      BY ParametersAssumption DEF HistoryHolds, Failures
    <3>2. Cardinality(H) \in Nat /\ IsFiniteSet(H)
      BY FS_CardinalityType DEF HistoryHolds
    <3> QED
      BY <3>1, <3>2
  <2>3. /\ list \in Seq(H \cup {failure}) /\ Len(list) \in Nat /\ Len(list) = Len(recent) + 1
        /\ \A i \in 1 .. Len(list) : list[i] = IF i \in 1 .. Len(recent) THEN recent[i] ELSE failure
        /\ clean => \A i, j \in 1 .. Len(list) : list[i] = list[j] => i = j
    <3>1. list = Append(recent, failure)
      OBVIOUS
    <3> HIDE DEF failure, recent, clean, H, list
    <3>2. Longer(H, clean, recent, failure, list)
      BY <2>1, <2>2, <3>1, LongerIsClean
    <3> QED
      BY <3>2 DEF Longer
  <2>4. history'[r] = H \cup {failure}
    BY <1>1 DEF HistoryHolds
  <2> HIDE DEF failure
  <2> DEFINE C == Counting(history'[r], now)
  <2>5. list \in Seq(C)
    <3>1. ASSUME NEW i \in 1 .. Len(list)
          PROVE  list[i] \in C
      <4>1. CASE i \in 1 .. Len(recent)
        <5>1. list[i] = recent[i] /\ recent[i] \in H
          BY <2>1, <2>3, <4>1 DEF Good
        <5> QED
          BY <2>1, <2>2, <2>4, <4>1, <5>1 DEF Counting
      <4>2. CASE i \notin 1 .. Len(recent)
        <5>1. list[i] = failure
          BY <2>3, <4>2
        <5> QED
          BY <2>2, <2>4, <5>1 DEF Counting
      <4> QED
        BY <4>1, <4>2
    <3> HIDE DEF list, C
    <3>2. list \in [1 .. Len(list) -> C] /\ Len(list) \in Nat
      BY <2>3, <3>1
    <3> QED
      BY <3>2
  <2>6. Crosses(list) /\ clean => Cardinality(C) >= MaxAttempts
    <3>1. IsFiniteSet(C)
      <4>1. C \in SUBSET history'[r] /\ IsFiniteSet(history'[r])
        BY DEF Counting, HistoryHolds
      <4> QED
        BY <4>1, FS_Subset
    <3> HIDE DEF list, C, clean
    <3>2. ASSUME clean
          PROVE  Len(list) <= Cardinality(C)
      BY <2>3, <2>5, <3>1, <3>2, CleanIsShort
    <3>3. Cardinality(C) \in Nat
      BY <3>1, FS_CardinalityType
    <3>4. ASSUME Crosses(list), clean
          PROVE  Cardinality(C) >= MaxAttempts
      <4>1. Len(list) >= MaxAttempts /\ Len(list) \in Nat
        BY <2>3, <3>4 DEF Crosses
      <4>2. Len(list) <= Cardinality(C)
        BY <3>2, <3>4
      <4> QED
        BY <3>3, <4>1, <4>2, ParametersAssumption
    <3> QED
      BY <3>4 DEF clean, C, list
  <2>7. ASSUME ~ Crosses(list)
        PROVE  Good(history'[r], r \notin doubled', list)
    <3> HIDE DEF list, recent, H
    <3>1. Len(list) < MaxAttempts
      BY <2>3, <2>7, ParametersAssumption DEF Crosses
    <3>2. list \in Seq(history'[r])
      BY <2>3, <2>4
    <3>3. r \notin doubled' => \A i, j \in 1 .. Len(list) : list[i] = list[j] => i = j
      BY <1>1, <2>3
    <3> QED
      BY <3>1, <3>2, <3>3 DEF Good
  <2>8. Good(history'[r], r \notin doubled', <<>>)
    BY ParametersAssumption DEF Good
  <2>9. list \in Seq(Failures)
    <3>1. H \cup {failure} \subseteq Failures
      BY <2>4 DEF HistoryHolds
    <3> QED
      BY <2>3, <3>1
  <2> HIDE DEF list, C, H, clean
  <2>10. /\ \A u \in Trackers, s \in Remotes :
             /\ attempts'[u][s] = IF u = t /\ s = r THEN IF Crosses(list) THEN <<>> ELSE list
                                  ELSE attempts[u][s]
             /\ blocked'[u][s] = IF u = t /\ s = r
                                 THEN IF Crosses(list) THEN now + BlockDuration ELSE 0
                                 ELSE blocked[u][s]
    BY <1>1, <1>4 DEF MapsHold
  <2>11. /\ attempts' \in [Trackers -> [Remotes -> Seq(Failures)]]
         /\ blocked' \in [Trackers -> [Remotes -> 0 .. MaxTime + BlockDuration]]
    <3>1. now + BlockDuration \in 0 .. MaxTime + BlockDuration
          /\ 0 \in 0 .. MaxTime + BlockDuration
      BY ParametersAssumption DEF ProcessHolds
    <3>2. (IF Crosses(list) THEN <<>> ELSE list) \in Seq(Failures)
      BY <2>9
    <3> QED
      BY <1>1, <1>4, <3>1, <3>2 DEF MapsHold
  <2>12. ASSUME NEW u \in Trackers
         PROVE  Sound(history', doubled', Maps(u)')
    <3> SUFFICES ASSUME NEW s \in Remotes
                 PROVE  /\ Good(history'[s], s \notin doubled', attempts'[u][s])
                        /\ (blocked'[u][s] # 0 /\ s \notin doubled') =>
                             Cardinality(Counting(history'[s], blocked'[u][s] - BlockDuration))
                               >= MaxAttempts
      BY DEF Sound, Maps
    <3>1. CASE u = t /\ s = r
      <4>1. CASE Crosses(list)
        <5>1. attempts'[u][s] = <<>> /\ blocked'[u][s] = now + BlockDuration
          BY <2>10, <3>1, <4>1
        <5>2. (now + BlockDuration) - BlockDuration = now
          BY ParametersAssumption DEF ProcessHolds
        <5>3. s \notin doubled' => Cardinality(Counting(history'[s], now)) >= MaxAttempts
          BY <1>1, <2>6, <3>1, <4>1 DEF C, clean
        <5> QED
          BY <2>8, <3>1, <5>1, <5>2, <5>3
      <4>2. CASE ~ Crosses(list)
        <5>1. attempts'[u][s] = list /\ blocked'[u][s] = 0
          BY <2>10, <3>1, <4>2
        <5> QED
          BY <2>7, <3>1, <4>2, <5>1
      <4> QED
        BY <4>1, <4>2
    <3>2. CASE ~ (u = t /\ s = r)
      <4>1. attempts'[u][s] = attempts[u][s] /\ blocked'[u][s] = blocked[u][s]
        BY <2>10, <3>2
      <4> QED
        BY <1>2, <4>1 DEF Sound, Maps
    <3> QED
      BY <3>1, <3>2
  <2> QED
    BY <2>11, <2>12 DEF MapsHold
<1> QED
  BY <1>3, <1>4

(* Other steps put in no more than was there, or what is in the file. *)
LEMMA MapsFrom ==
  ASSUME Grows,
         attempts' \in [Trackers -> [Remotes -> Seq(Failures)]],
         blocked' \in [Trackers -> [Remotes -> 0 .. MaxTime + BlockDuration]],
         \A t \in Trackers : Sound(history, doubled, Maps(t)')
  PROVE  MapsHold'
<1>1. \A t \in Trackers : Sound(history', doubled', Maps(t)')
  BY SoundGrows DEF Grows
<1> QED
  BY <1>1 DEF MapsHold

LEMMA ThinnerMaps ==
  ASSUME MapsHold, HistoryHolds,
         \A t \in Trackers, r \in Remotes :
           /\ Good(history[r], r \notin doubled, attempts'[t][r])
           /\ blocked'[t][r] \in {0, blocked[t][r]}
  PROVE  \A t \in Trackers : Sound(history, doubled, Maps(t)')
<1> SUFFICES ASSUME NEW t \in Trackers
             PROVE  Sound(history, doubled, [attempts |-> attempts'[t], blocked |-> blocked'[t]])
  BY DEF Maps
<1> DEFINE m == [attempts |-> attempts[t], blocked |-> blocked[t]]
           d == [attempts |-> attempts'[t], blocked |-> blocked'[t]]
<1>1. Sound(history, doubled, m)
  BY DEF MapsHold, Maps
<1>2. \A r \in Remotes : /\ Good(history[r], r \notin doubled, d.attempts[r])
                         /\ d.blocked[r] \in {0, m.blocked[r]}
  OBVIOUS
<1> HIDE DEF m, d
<1>3. Sound(history, doubled, d)
  BY <1>1, <1>2, SoundThins
<1> QED
  BY <1>3 DEF d

LEMMA MapsStep ==
  ASSUME TypedInv, HistoryHolds', Grows, [Next]_vars
  PROVE  MapsHold'
<1> USE DEF TypedInv
<1>1. CASE UNCHANGED trackers
  <2>1. UNCHANGED <<attempts, blocked>> /\ \A t \in Trackers : Maps(t)' = Maps(t)
    BY <1>1 DEF trackers, Maps
  <2> QED
    BY <2>1, MapsFrom DEF MapsHold
<1>2. ASSUME NEW r \in Remotes, Accept(r)
      PROVE  MapsHold'
  <2>1. attempts' = attempts /\ blocked' = [blocked EXCEPT ![conn[r]][r] = 0]
    BY <1>2 DEF Accept
  <2>2. /\ blocked' \in [Trackers -> [Remotes -> 0 .. MaxTime + BlockDuration]]
        /\ \A t \in Trackers, s \in Remotes : blocked'[t][s] \in {0, blocked[t][s]}
    <3>1. 0 \in 0 .. MaxTime + BlockDuration
      BY ParametersAssumption
    <3>2. \A t \in Trackers, s \in Remotes :
            blocked'[t][s] = IF t = conn[r] /\ s = r THEN 0 ELSE blocked[t][s]
      BY <2>1 DEF MapsHold
    <3>3. blocked' \in [Trackers -> [Remotes -> 0 .. MaxTime + BlockDuration]]
      BY <2>1, <3>1 DEF MapsHold
    <3> QED
      BY <3>2, <3>3
  <2>3. \A t \in Trackers : Sound(history, doubled, Maps(t)')
    <3>1. \A t \in Trackers, s \in Remotes : Good(history[s], s \notin doubled, attempts'[t][s])
      BY <2>1 DEF MapsHold, Sound, Maps
    <3> QED
      BY <2>2, <3>1, ThinnerMaps
  <2> QED
    BY <2>1, <2>2, <2>3, MapsFrom DEF MapsHold
<1>3. ASSUME NEW r \in Remotes, Reject(r)
      PROVE  MapsHold'
  BY <1>3, RejectIsSound
<1>4. ASSUME NEW u \in Trackers, BeginSave(u)
      PROVE  MapsHold'
  <2> DEFINE recent == [r \in Remotes |-> RecentFailures(attempts[u][r])]
             left == [r \in Remotes |-> Unexpired(blocked[u][r])]
  <2>1. attempts' = [attempts EXCEPT ![u] = recent] /\ blocked' = [blocked EXCEPT ![u] = left]
    BY <1>4 DEF BeginSave
  <2>2. ASSUME NEW r \in Remotes
        PROVE  Good(history[r], r \notin doubled, recent[r]) /\ left[r] \in {0, blocked[u][r]}
    <3> DEFINE clean == r \notin doubled
               list == attempts[u][r]
    <3>1. Good(history[r], clean, list) /\ clean \in BOOLEAN
      BY DEF MapsHold, Sound, Maps
    <3>2. recent[r] = RecentFailures(list)
      OBVIOUS
    <3>3. left[r] \in {0, blocked[u][r]}
      BY DEF Unexpired
    <3> HIDE DEF clean, list, recent, left
    <3>4. Good(history[r], clean, recent[r])
      BY <3>1, <3>2, RecentIsGood
    <3> QED
      BY <3>3, <3>4 DEF clean
  <2>3. /\ recent \in [Remotes -> Seq(Failures)]
        /\ left \in [Remotes -> 0 .. MaxTime + BlockDuration]
    <3>1. \A r \in Remotes : /\ recent[r] \in Seq(Failures)
                             /\ left[r] \in 0 .. MaxTime + BlockDuration
      <4>1. \A r \in Remotes : recent[r] \in Seq(history[r]) /\ history[r] \subseteq Failures
        BY <2>2 DEF Good, HistoryHolds
      <4>2. \A r \in Remotes : recent[r] \in Seq(Failures)
        BY <4>1
      <4>3. \A r \in Remotes : left[r] \in 0 .. MaxTime + BlockDuration
        BY <2>2, ParametersAssumption DEF MapsHold
      <4> QED
        BY <4>2, <4>3
    <3>2. recent = [r \in Remotes |-> recent[r]] /\ left = [r \in Remotes |-> left[r]]
      OBVIOUS
    <3> HIDE DEF recent, left
    <3> QED
      BY <3>1, <3>2
  <2> HIDE DEF recent, left
  <2>4. /\ attempts' \in [Trackers -> [Remotes -> Seq(Failures)]]
        /\ blocked' \in [Trackers -> [Remotes -> 0 .. MaxTime + BlockDuration]]
        /\ \A t \in Trackers, r \in Remotes :
             /\ attempts'[t][r] = IF t = u THEN recent[r] ELSE attempts[t][r]
             /\ blocked'[t][r] = IF t = u THEN left[r] ELSE blocked[t][r]
    BY <2>1, <2>3 DEF MapsHold
  <2>5. \A t \in Trackers : Sound(history, doubled, Maps(t)')
    <3>1. \A t \in Trackers, r \in Remotes : Good(history[r], r \notin doubled, attempts[t][r])
      BY DEF MapsHold, Sound, Maps
    <3>2. \A t \in Trackers, r \in Remotes :
            /\ Good(history[r], r \notin doubled, attempts'[t][r])
            /\ blocked'[t][r] \in {0, blocked[t][r]}
      BY <2>2, <2>4, <3>1
    <3> QED
      BY <3>2, ThinnerMaps
  <2> QED
    BY <2>4, <2>5, MapsFrom
<1>5. CASE Build(newest + 1)
  <2> DEFINE L == Loaded
  <2>1. attempts' = [attempts EXCEPT ![newest + 1] = L.attempts]
        /\ blocked' = [blocked EXCEPT ![newest + 1] = L.blocked]
    BY <1>5 DEF Build
  <2>2. /\ L.attempts \in [Remotes -> Seq(Failures)]
        /\ L.blocked \in [Remotes -> 0 .. MaxTime + BlockDuration]
        /\ Sound(history, doubled, L)
    BY LoadedIsSound
  <2> HIDE DEF L
  <2>3. /\ attempts' \in [Trackers -> [Remotes -> Seq(Failures)]]
        /\ blocked' \in [Trackers -> [Remotes -> 0 .. MaxTime + BlockDuration]]
    BY <2>1, <2>2 DEF MapsHold
  <2>4. ASSUME NEW t \in Trackers
        PROVE  Sound(history, doubled, Maps(t)')
    <3>1. CASE t = newest + 1
      <4>1. attempts'[t] = L.attempts /\ blocked'[t] = L.blocked
        BY <2>1, <3>1 DEF MapsHold
      <4> QED
        BY <2>2, <4>1 DEF Sound, Maps
    <3>2. CASE t # newest + 1
      <4>1. attempts'[t] = attempts[t] /\ blocked'[t] = blocked[t]
        BY <2>1, <3>2 DEF MapsHold
      <4> QED
        BY <4>1 DEF Sound, Maps, MapsHold
    <3> QED
      BY <3>1, <3>2
  <2> QED
    BY <2>3, <2>4, MapsFrom
<1>6. ASSUME NEW T, Discard(T)
      PROVE  MapsHold'
  <2> DEFINE N == Nothing
  <2>1. /\ attempts' = [t \in Trackers |-> IF t \in T THEN N.attempts ELSE attempts[t]]
        /\ blocked' = [t \in Trackers |-> IF t \in T THEN N.blocked ELSE blocked[t]]
    BY <1>6 DEF Discard
  <2>2. /\ N.attempts \in [Remotes -> Seq(Failures)]
        /\ N.blocked \in [Remotes -> 0 .. MaxTime + BlockDuration]
        /\ Sound(history, doubled, N)
    BY NothingIsSound DEF Image
  <2> HIDE DEF N
  <2>3. /\ attempts' \in [Trackers -> [Remotes -> Seq(Failures)]]
        /\ blocked' \in [Trackers -> [Remotes -> 0 .. MaxTime + BlockDuration]]
    BY <2>1, <2>2 DEF MapsHold
  <2>4. ASSUME NEW t \in Trackers
        PROVE  Sound(history, doubled, Maps(t)')
    BY <2>1, <2>2 DEF Sound, Maps, MapsHold
  <2> QED
    BY <2>3, <2>4, MapsFrom
<1>7. Tick \/ (\E r \in Remotes : Connect(r)) \/ Install \/ Terminate \/ UNCHANGED vars
        => UNCHANGED trackers
  BY DEF Tick, Connect, Install, Terminate, vars, trackers
<1>8. (\E t \in Trackers : SaverStep(t)) => UNCHANGED trackers
  BY SaverStepFrame DEF trackers
<1>9. /\ BuildState \/ Restart => Build(newest + 1)
      /\ BuildFails \/ Die => \E T : Discard(T)
      /\ (\E t \in Trackers : SaveNow(t) \/ SaveAtTheEnd(t)) => \E t \in Trackers : BeginSave(t)
  BY DEF BuildState, Restart, BuildFails, Die, SaveNow, SaveAtTheEnd
<1> QED
  BY <1>1, <1>2, <1>3, <1>4, <1>5, <1>6, <1>7, <1>8, <1>9 DEF Next

(* What an encoder reads is what was in the list, and what Record has put  *)
(* there since.                                                            *)
LEMMA RejectedList ==
  ASSUME HistoryHolds', MapsHold, Grows, NEW r \in Remotes, Reject(r), conn[r] \in Trackers,
         NEW list, list = Append(RecentFailures(attempts[conn[r]][r]),
                                 [when |-> now, nth |-> Cardinality(history[r]) + 1])
  PROVE  list \in Seq(history'[r])
<1> DEFINE recent == RecentFailures(attempts[conn[r]][r])
           failure == [when |-> now, nth |-> Cardinality(history[r]) + 1]
           clean == r \notin doubled
           H == history[r]
<1>1. history' = [history EXCEPT ![r] = @ \cup {failure}]
  BY DEF Reject
<1>2. failure \in history'[r]
  <2>1. r \in DOMAIN history
    <3>1. DOMAIN history' = Remotes
      BY DEF HistoryHolds
    <3> QED
      BY <1>1, <3>1
  <2> QED
    BY <1>1, <2>1
<1>3. Good(H, clean, attempts[conn[r]][r]) /\ clean \in BOOLEAN /\ H \subseteq history'[r]
  BY DEF MapsHold, Sound, Maps, Grows
<1>4. list = Append(recent, failure)
  OBVIOUS
<1> HIDE DEF clean, H, failure
<1>5. Good(H, clean, recent)
  BY <1>3, RecentIsGood
<1> HIDE DEF recent
<1>6. recent \in Seq(history'[r])
  BY <1>3, <1>5 DEF Good
<1>7. Append(recent, failure) \in Seq(history'[r])
  BY <1>2, <1>6
<1> QED
  BY <1>4, <1>7

LEMMA PlacesFrom ==
  ASSUME EncodingHolds, Grows, NEW t \in Trackers, reading' \in [Trackers -> SUBSET Remotes],
         doubled' \subseteq Remotes, NEW row \in [Remotes -> Seq(SUBSET Failures)],
         slots' = [slots EXCEPT ![t] = row],
         \A r \in Remotes : PlacesIn(history'[r], row[r])
  PROVE  EncodingHolds'
<1>1. \A u \in Trackers : slots'[u] = IF u = t THEN row ELSE slots[u]
  BY DEF EncodingHolds
<1>2. \A u \in Trackers, r \in Remotes : PlacesIn(history'[r], slots[u][r])
  BY DEF EncodingHolds, PlacesIn, Grows
<1>3. \A u \in Trackers, r \in Remotes : PlacesIn(history'[r], slots'[u][r])
  BY <1>1, <1>2
<1>4. slots' \in [Trackers -> [Remotes -> Seq(SUBSET Failures)]]
  BY DEF EncodingHolds
<1> QED
  BY <1>3, <1>4 DEF EncodingHolds

LEMMA EncodingStep ==
  ASSUME TypedInv, HistoryHolds', MapsHold', Grows, [Next]_vars
  PROVE  EncodingHolds'
<1> USE DEF TypedInv
<1>1. CASE UNCHANGED encoding
  BY <1>1 DEF encoding, EncodingHolds, PlacesIn, Grows
<1>2. ASSUME NEW r \in Remotes, Reject(r)
      PROVE  EncodingHolds'
  <2> DEFINE t == conn[r]
             recent == RecentFailures(attempts[t][r])
             list == Append(recent, [when |-> now, nth |-> Cardinality(history[r]) + 1])
             places == slots[t][r]
             after == [i \in 1 .. Len(places) |->
                         places[i] \cup {list[j] : j \in {i} \cap (1 .. Len(list))}]
  <2>1. Overwrite(t, r, recent, list) /\ doubled' = doubled
    BY <1>2 DEF Reject
  <2>2. \/ slots' = slots
        \/ slots' = [slots EXCEPT ![t][r] = after]
    BY <2>1 DEF Overwrite
  <2>3. reading' \in [Trackers -> SUBSET Remotes]
    <3>1. reading' = reading \/ reading' = [reading EXCEPT ![t] = @ \ {r}]
      BY <2>1 DEF Overwrite
    <3> QED
      BY <3>1 DEF EncodingHolds
  <2>4. CASE slots' = slots
    BY <2>1, <2>3, <2>4 DEF EncodingHolds, PlacesIn, Grows
  <2>5. CASE slots' = [slots EXCEPT ![t][r] = after] /\ t \in Trackers
    <3>1. list \in Seq(history'[r])
      BY <1>2, <2>5, RejectedList
    <3>2. PlacesIn(history[r], places) /\ history[r] \subseteq history'[r]
          /\ history'[r] \subseteq Failures
      BY <2>5 DEF EncodingHolds, Grows, HistoryHolds
    <3> HIDE DEF list, places
    <3>3. \A i \in 1 .. Len(places) :
            /\ after[i] = places[i] \cup {list[j] : j \in {i} \cap (1 .. Len(list))}
            /\ after[i] \subseteq history'[r]
      <4>1. \A j \in 1 .. Len(list) : list[j] \in history'[r]
        BY <3>1
      <4> QED
        BY <3>2, <4>1 DEF PlacesIn
    <3>4. Len(places) \in Nat /\ Len(places) < MaxAttempts
      BY <3>2 DEF PlacesIn
    <3>5. after \in [1 .. Len(places) -> SUBSET Failures]
      <4>1. \A i \in 1 .. Len(places) : after[i] \in SUBSET Failures
        BY <3>2, <3>3
      <4>2. after = [i \in 1 .. Len(places) |-> after[i]]
        OBVIOUS
      <4> HIDE DEF after
      <4> QED
        BY <4>1, <4>2
    <3> HIDE DEF after
    <3>6. after \in Seq(SUBSET Failures) /\ Len(after) = Len(places)
      BY <3>4, <3>5
    <3>7. PlacesIn(history'[r], after)
      BY <3>3, <3>4, <3>6 DEF PlacesIn
    <3> DEFINE row == [slots[t] EXCEPT ![r] = after]
    <3>8. /\ row \in [Remotes -> Seq(SUBSET Failures)]
          /\ \A q \in Remotes : row[q] = IF q = r THEN after ELSE slots[t][q]
      BY <2>5, <3>6 DEF EncodingHolds
    <3>9. \A q \in Remotes : PlacesIn(history'[q], slots[t][q])
      BY <2>5 DEF EncodingHolds, PlacesIn, Grows
    <3>10. slots' = [slots EXCEPT ![t] = row] /\ doubled' \subseteq Remotes
      BY <2>1, <2>5 DEF EncodingHolds
    <3> HIDE DEF row
    <3>11. \A q \in Remotes : PlacesIn(history'[q], row[q])
      BY <3>7, <3>8, <3>9
    <3> QED
      BY <2>3, <2>5, <3>8, <3>10, <3>11, PlacesFrom
  <2>6. CASE slots' = [slots EXCEPT ![t][r] = after] /\ t \notin Trackers
    <3>1. slots' = slots
      BY <2>6 DEF EncodingHolds
    <3> QED
      BY <2>4, <3>1
  <2> QED
    BY <2>2, <2>4, <2>5, <2>6
<1>3. ASSUME NEW t \in Trackers, TakeLists(t)
      PROVE  EncodingHolds'
  <2> DEFINE row == [r \in Remotes |-> [i \in 1 .. Len(attempts[t][r]) |-> {attempts[t][r][i]}]]
  <2>1. /\ slots' = [slots EXCEPT ![t] = row]
        /\ reading' = [reading EXCEPT ![t] = Remotes] /\ doubled' = doubled /\ history' = history
    BY <1>3 DEF TakeLists
  <2>2. ASSUME NEW r \in Remotes
        PROVE  row[r] \in Seq(SUBSET Failures) /\ PlacesIn(history'[r], row[r])
    <3> DEFINE list == attempts[t][r]
               places == [i \in 1 .. Len(list) |-> {list[i]}]
    <3>1. list \in Seq(history[r]) /\ Len(list) < MaxAttempts
      BY DEF MapsHold, Sound, Maps, Good
    <3>2. history[r] \subseteq Failures
      BY DEF HistoryHolds
    <3>3. row[r] = places
      OBVIOUS
    <3> HIDE DEF list, row
    <3>4. \A i \in 1 .. Len(list) : places[i] = {list[i]} /\ places[i] \subseteq history[r]
      BY <3>1
    <3>5. places \in [1 .. Len(list) -> SUBSET Failures] /\ Len(list) \in Nat
      BY <3>1, <3>2
    <3> HIDE DEF places
    <3>6. places \in Seq(SUBSET Failures) /\ Len(places) = Len(list)
      BY <3>5
    <3> QED
      BY <2>1, <3>1, <3>3, <3>4, <3>6 DEF PlacesIn
  <2>3. row = [r \in Remotes |-> row[r]]
    OBVIOUS
  <2> HIDE DEF row
  <2>4. row \in [Remotes -> Seq(SUBSET Failures)]
    BY <2>2, <2>3
  <2>5. reading' \in [Trackers -> SUBSET Remotes] /\ doubled' \subseteq Remotes
    BY <2>1 DEF EncodingHolds
  <2> QED
    BY <2>1, <2>2, <2>4, <2>5, PlacesFrom
<1>4. \A h : PlacesIn(h, <<>>)
  BY ParametersAssumption DEF PlacesIn
<1>5. /\ Nothing.attempts \in [Remotes -> Seq(SUBSET Failures)]
      /\ \A r \in Remotes : Nothing.attempts[r] = <<>>
  <2>1. Nothing.attempts = [r \in Remotes |-> <<>>] /\ <<>> \in Seq(SUBSET Failures)
    BY DEF Nothing
  <2> QED
    BY <2>1
<1>6. ASSUME NEW t \in Trackers, EncodeAndOpen(t)
      PROVE  EncodingHolds'
  <2>1. /\ slots' = [slots EXCEPT ![t] = Nothing.attempts]
        /\ reading' = [reading EXCEPT ![t] = {}] /\ doubled' \subseteq doubled \cup Remotes
    BY <1>6 DEF EncodeAndOpen
  <2>2. reading' \in [Trackers -> SUBSET Remotes] /\ doubled' \subseteq Remotes
    BY <2>1 DEF EncodingHolds
  <2> DEFINE row == Nothing.attempts
  <2>3. /\ row \in [Remotes -> Seq(SUBSET Failures)] /\ slots' = [slots EXCEPT ![t] = row]
        /\ \A r \in Remotes : PlacesIn(history'[r], row[r])
    BY <1>4, <1>5, <2>1
  <2> HIDE DEF row
  <2> QED
    BY <2>2, <2>3, PlacesFrom
<1>7. CASE Die
  <2>1. /\ slots' = [t \in Trackers |-> Nothing.attempts] /\ reading' = [t \in Trackers |-> {}]
        /\ doubled' = doubled
    BY <1>7 DEF Die
  <2> QED
    BY <1>4, <1>5, <2>1 DEF EncodingHolds
<1>8. Tick \/ (\E r \in Remotes : Connect(r) \/ Accept(r)) \/ BuildState \/ BuildFails \/ Install
        \/ Terminate \/ Restart \/ UNCHANGED vars => UNCHANGED encoding
  BY DEF Tick, Connect, Accept, BuildState, BuildFails, Install, Terminate, Restart, vars
<1>9. ASSUME NEW t \in Trackers, SaveNow(t) \/ SaveAtTheEnd(t) \/ SaverStep(t)
      PROVE  UNCHANGED encoding \/ TakeLists(t) \/ EncodeAndOpen(t)
  BY <1>9 DEF SaveNow, SaveAtTheEnd, BeginSave, SaverStep, WriteTmp, WriteFails, RenameTmp,
     RenameFails, EndSave
<1> QED
  BY <1>1, <1>2, <1>3, <1>6, <1>7, <1>8, <1>9 DEF Next

(* The list that an encoder makes of what it reads. *)
LEMMA PicksAreGood ==
  ASSUME NEW H, NEW clean, NEW places, PlacesIn(H, places), NEW list \in Picks(places),
         clean => ~ HasTwice(list)
  PROVE  Good(H, clean, list)
<1>1. DOMAIN places = 1 .. Len(places) /\ Len(places) \in Nat /\ Len(places) < MaxAttempts
  BY DEF PlacesIn
<1>2. \A i \in 1 .. Len(places) : list[i] \in H
  BY <1>1 DEF Picks, PlacesIn
<1>3. list = [i \in 1 .. Len(places) |-> list[i]]
  BY <1>1 DEF Picks
<1>4. list \in [1 .. Len(places) -> H]
  BY <1>2, <1>3
<1>5. list \in Seq(H) /\ Len(list) = Len(places)
  BY <1>1, <1>4
<1> QED
  BY <1>1, <1>5 DEF Good, HasTwice

LEMMA GoodIsList ==
  ASSUME NEW H, H \subseteq Failures, NEW clean, NEW list, Good(H, clean, list)
  PROVE  list \in Lists(Failures)
<1>1. list \in Seq(Failures)
  BY DEF Good
<1> QED
  BY <1>1 DEF Good, Lists

(* A saver encodes what its tracker knows. *)
LEMMA ImagesFrom ==
  ASSUME TypedInv, Grows, NEW t \in Trackers, NEW m \in Image, Sound(history', doubled', m),
         image' = [image EXCEPT ![t] = m]
  PROVE  ImagesHold'
<1>1. \A u \in Trackers : Sound(history', doubled', image[u])
  BY SoundGrows DEF TypedInv, ImagesHold, Grows
<1> QED
  BY <1>1 DEF TypedInv, ImagesHold

LEMMA ImagesStep ==
  ASSUME TypedInv, MapsHold', HistoryHolds', Grows, [Next]_vars
  PROVE  ImagesHold'
<1> USE DEF TypedInv
<1>1. CASE UNCHANGED image
  BY <1>1, SoundGrows DEF ImagesHold, Grows
<1>3. ASSUME NEW t \in Trackers, EncodeAndOpen(t)
      PROVE  ImagesHold'
  <2>1. /\ UNCHANGED <<history, blocked>>
        /\ \E lists \in Picks([r \in Remotes |-> Picks(slots[t][r])]) :
             /\ image' = [image EXCEPT ![t] = [attempts |-> lists, blocked |-> blocked[t]]]
             /\ doubled' = doubled \cup {r \in Remotes : HasTwice(lists[r])}
    BY <1>3 DEF EncodeAndOpen, trackers
  <2>2. PICK lists \in Picks([r \in Remotes |-> Picks(slots[t][r])]) :
             /\ image' = [image EXCEPT ![t] = [attempts |-> lists, blocked |-> blocked[t]]]
             /\ doubled' = doubled \cup {r \in Remotes : HasTwice(lists[r])}
    BY <2>1
  <2>3. lists = [r \in Remotes |-> lists[r]] /\ \A r \in Remotes : lists[r] \in Picks(slots[t][r])
    <3> DEFINE rows == [r \in Remotes |-> Picks(slots[t][r])]
    <3>1. DOMAIN rows = Remotes /\ \A r \in Remotes : rows[r] = Picks(slots[t][r])
      OBVIOUS
    <3> HIDE DEF rows
    <3>2. lists \in Picks(rows)
      BY DEF rows
    <3>3. lists \in [DOMAIN rows -> UNION {rows[x] : x \in DOMAIN rows}]
          /\ \A r \in DOMAIN rows : lists[r] \in rows[r]
      BY <3>2 DEF Picks
    <3> QED
      BY <3>1, <3>3
  <2>4. ASSUME NEW r \in Remotes
        PROVE  Good(history'[r], r \notin doubled', lists[r]) /\ lists[r] \in Lists(Failures)
    <3>1. PlacesIn(history[r], slots[t][r]) /\ history[r] \subseteq Failures
      BY DEF EncodingHolds, HistoryHolds
    <3>2. r \notin doubled' => ~ HasTwice(lists[r])
      BY <2>2
    <3>3. Good(history[r], r \notin doubled', lists[r])
      BY <2>3, <3>1, <3>2, PicksAreGood
    <3> QED
      BY <2>1, <3>1, <3>3, GoodIsList
  <2> DEFINE m == [attempts |-> lists, blocked |-> blocked[t]]
  <2>5. m \in Image
    <3>1. lists \in [Remotes -> Lists(Failures)]
      BY <2>3, <2>4
    <3>2. blocked[t] \in [Remotes -> 0 .. MaxTime + BlockDuration]
      BY DEF MapsHold
    <3> QED
      BY <3>1, <3>2 DEF Image
  <2>6. Sound(history', doubled', m)
    <3>1. \A r \in Remotes : (blocked[t][r] # 0 /\ r \notin doubled') =>
            Cardinality(Counting(history'[r], blocked[t][r] - BlockDuration)) >= MaxAttempts
      BY <2>1 DEF Sound, MapsHold, Maps
    <3> QED
      BY <2>4, <3>1 DEF Sound
  <2>7. image' = [image EXCEPT ![t] = m]
    BY <2>2
  <2> HIDE DEF m
  <2> QED
    BY <2>5, <2>6, <2>7, ImagesFrom
<1>4. ASSUME NEW t \in Trackers, EndSave(t)
      PROVE  ImagesHold'
  <2>1. image' = [image EXCEPT ![t] = Nothing]
    BY <1>4 DEF EndSave
  <2> QED
    BY <2>1, NothingIsSound, ImagesFrom
<1>5. CASE Die
  <2>1. image' = [t \in Trackers |-> Nothing]
    BY <1>5 DEF Die
  <2> QED
    BY <2>1, NothingIsSound DEF ImagesHold
<1>6. Tick \/ (\E r \in Remotes : Connect(r) \/ Accept(r) \/ Reject(r)) \/ BuildState
        \/ BuildFails \/ Install \/ Terminate \/ Restart \/ UNCHANGED vars => UNCHANGED image
  BY DEF Tick, Connect, Accept, Reject, BuildState, BuildFails, Install, Terminate, Restart,
     vars, savers
<1>7. (\E t \in Trackers : SaveNow(t) \/ SaveAtTheEnd(t)) => UNCHANGED image
  BY DEF SaveNow, SaveAtTheEnd, BeginSave
<1>8. ASSUME NEW t \in Trackers, SaverStep(t)
      PROVE  EncodeAndOpen(t) \/ UNCHANGED image \/ EndSave(t)
  BY <1>8 DEF SaverStep, TakeLists, WriteTmp, WriteFails, RenameTmp, RenameFails
<1> QED
  BY <1>1, <1>3, <1>4, <1>5, <1>6, <1>7, <1>8 DEF Next

(* Files are emptied, removed, or written with what a saver has encoded. *)
LEMMA FilesFrom ==
  ASSUME TypedInv, Grows,
         content' = [f \in Files |-> content'[f]],
         \A f \in Files : \/ content'[f] \in {content[f], Torn}
                          \/ \E t \in Trackers : content'[f] = image[t]
  PROVE  FilesHold'
<1>1. \A f \in Files : /\ content'[f] \in Image \cup {Torn}
                       /\ content'[f] # Torn => Sound(history, doubled, content'[f])
  BY DEF TypedInv, FilesHold, ImagesHold
<1>2. \A f \in Files : content'[f] # Torn => Sound(history', doubled', content'[f])
  BY <1>1, SoundGrows DEF Grows
<1> QED
  BY <1>1, <1>2 DEF FilesHold

LEMMA FilesStep ==
  ASSUME TypedInv, Grows, [Next]_vars
  PROVE  FilesHold'
<1>0. content = [f \in Files |-> content[f]]
  BY DEF TypedInv, FilesHold
<1>1. CASE UNCHANGED content
  BY <1>0, <1>1, FilesFrom
<1>2. ASSUME NEW t \in Trackers, SaverStep(t)
      PROVE  FilesHold' \/ UNCHANGED content
  <2>1. CASE EncodeAndOpen(t)
    <3>1. \E f : content' = [content EXCEPT ![f] = Torn]
      BY <2>1 DEF EncodeAndOpen
    <3>2. PICK f : content' = [content EXCEPT ![f] = Torn]
      BY <3>1
    <3>3. /\ content' = [g \in Files |-> content'[g]]
          /\ \A g \in Files : content'[g] \in {content[g], Torn}
      BY <1>0, <3>2
    <3> QED
      BY <3>3, FilesFrom
  <2>2. CASE WriteTmp(t)
    <3>1. content' = [content EXCEPT ![fd[t]] = image[t]]
      BY <2>2 DEF WriteTmp
    <3>2. /\ content' = [g \in Files |-> content'[g]]
          /\ \A g \in Files : content'[g] \in {content[g], image[t]}
      BY <1>0, <3>1
    <3> QED
      BY <3>2, FilesFrom
  <2>3. CASE RenameTmp(t)
    <3>1. content' = [f \in Files |-> IF f \in {tmp} \cup {fd[u] : u \in Trackers}
                                      THEN content[f] ELSE Torn]
      BY <2>3 DEF RenameTmp
    <3> DEFINE open == {tmp} \cup {fd[u] : u \in Trackers}
    <3> HIDE DEF open
    <3>2. content' = [f \in Files |-> IF f \in open THEN content[f] ELSE Torn]
      BY <3>1 DEF open
    <3>3. /\ content' = [g \in Files |-> content'[g]]
          /\ \A g \in Files : content'[g] \in {content[g], Torn}
      BY <3>2
    <3> QED
      BY <3>3, FilesFrom
  <2>4. CASE TakeLists(t) \/ WriteFails(t) \/ RenameFails(t)
    BY <2>4 DEF TakeLists, WriteFails, RenameFails, disk
  <2> QED
    BY <1>2, <2>1, <2>2, <2>3, <2>4 DEF SaverStep
<1>3. CASE Die
  <2>1. content' = [f \in Files |-> IF f = stateFile THEN content[f] ELSE Torn]
    BY <1>3 DEF Die
  <2>2. /\ content' = [g \in Files |-> content'[g]]
        /\ \A g \in Files : content'[g] \in {content[g], Torn}
    BY <2>1
  <2> QED
    BY <2>2, FilesFrom
<1> QED
  BY <1>1, <1>2, <1>3 DEF Next, Tick, Connect, Accept, Reject, SaveNow, SaveAtTheEnd, BeginSave,
     BuildState, BuildFails, Install, Terminate, Restart, vars, disk

LEMMA KeptStep ==
  ASSUME TypedInv, [Next]_vars
  PROVE  KeptHolds'
<1>1. CASE kept' = kept
  BY <1>1 DEF TypedInv, KeptHolds
<1>2. ASSUME NEW t \in Trackers, SaverStep(t)
      PROVE  KeptHolds'
  <2>1. CASE kept' = [r \in Remotes |-> Max({kept[r], image[t].blocked[r]})]
    <3>1. \A r \in Remotes : /\ kept[r] \in 0 .. MaxTime + BlockDuration
                             /\ image[t].blocked[r] \in 0 .. MaxTime + BlockDuration
      BY DEF TypedInv, KeptHolds, ImagesHold, Image
    <3>2. \A r \in Remotes : Max({kept[r], image[t].blocked[r]}) \in {kept[r], image[t].blocked[r]}
      BY <3>1, MaxOfTwo, ParametersAssumption
    <3>3. \A r \in Remotes : kept'[r] \in 0 .. MaxTime + BlockDuration
      BY <2>1, <3>1, <3>2
    <3> QED
      BY <2>1, <3>3 DEF KeptHolds
  <2>2. kept' = kept \/ kept' = [r \in Remotes |-> Max({kept[r], image[t].blocked[r]})]
    BY <1>2 DEF SaverStep, TakeLists, EncodeAndOpen, WriteTmp, WriteFails, RenameTmp, RenameFails, record
  <2> QED
    BY <1>1, <2>1, <2>2
<1>3. ASSUME NEW t \in Trackers, BeginSave(t)
      PROVE  KeptHolds'
  <2>1. kept' = kept \/ kept' = Nothing.blocked
    BY <1>3 DEF BeginSave, record
  <2> QED
    BY <1>1, <2>1, NothingIsSound DEF KeptHolds, Image
<1> QED
  BY <1>1, <1>2, <1>3 DEF Next, Tick, Connect, Accept, Reject, SaveNow, SaveAtTheEnd,
     BuildState, BuildFails, Install, Terminate, Die, Restart, vars, record

LEMMA TypedStep ==
  ASSUME IInv, TypedInv, [Next]_vars
  PROVE  TypedInv'
<1>1. FlagsHold' /\ ProcessHolds' /\ SaversHold'
  BY FlagsStep, ProcessStep, SaversStep DEF TypedInv
<1>2. HistoryHolds' /\ Grows
  BY HistoryStep, DoubledStep DEF TypedInv, Grows
<1>3. MapsHold'
  BY <1>2, MapsStep
<1>4. EncodingHolds' /\ ImagesHold'
  BY <1>2, <1>3, EncodingStep, ImagesStep
<1>5. FilesHold' /\ KeptHolds'
  BY <1>2, FilesStep, KeptStep
<1> QED
  BY <1>1, <1>2, <1>3, <1>4, <1>5 DEF TypedInv

LEMMA TypedIsTypeOK == TypedInv => TypeOK
<1> SUFFICES ASSUME TypedInv PROVE TypeOK
  OBVIOUS
<1>1. \A t \in Trackers : [attempts |-> attempts[t], blocked |-> blocked[t]] \in Image
  <2>1. \A t \in Trackers, r \in Remotes : attempts[t][r] \in Lists(Failures)
    <3>1. \A t \in Trackers, r \in Remotes : Good(history[r], r \notin doubled, attempts[t][r])
      BY DEF TypedInv, MapsHold, Sound, Maps
    <3>2. \A r \in Remotes : history[r] \subseteq Failures
      BY DEF TypedInv, HistoryHolds
    <3> QED
      BY <3>1, <3>2, GoodIsList
  <2> QED
    BY <2>1 DEF TypedInv, MapsHold, Image
<1>2. slots \in [Trackers -> [Remotes -> Lists(SUBSET Failures)]]
  <2>1. \A t \in Trackers, r \in Remotes : slots[t][r] \in Lists(SUBSET Failures)
    BY DEF TypedInv, EncodingHolds, PlacesIn, Lists
  <2> QED
    BY <2>1 DEF TypedInv, EncodingHolds
<1>3. {running, saves, overlapped} \subseteq BOOLEAN
  BY DEF TypedInv, FlagsHold
<1>4. {tmp, stateFile} \subseteq Files \cup {NoFile}
  BY DEF TypedInv, SaversHold
<1> QED
  BY <1>1, <1>2, <1>3, <1>4
     DEF TypedInv, TypeOK, ProcessHolds, SaversHold, HistoryHolds, EncodingHolds, ImagesHold,
         FilesHold, KeptHolds

LEMMA TypedIsDeserved == TypedInv => BlockedIsDeserved
<1>1. \A r, x : FailuresBy(r, x) = Counting(history[r], x)
  BY DEF FailuresBy, Counting
<1> QED
  BY <1>1 DEF TypedInv, MapsHold, Sound, Maps, BlockedIsDeserved

LEMMA TypedInvariant == Spec => [](IInv /\ TypedInv)
<1>1. Init => IInv /\ TypedInv
  BY InitHolds, InitIsTyped
<1>2. IInv /\ TypedInv /\ [Next]_vars => (IInv /\ TypedInv)'
  BY NextStep, TypedStep
<1> QED
  BY <1>1, <1>2, PTL DEF Spec

(* The tracker's maps, the savers and the files have their types, and no   *)
(* list of failures, in memory or on disk, is as long as a block takes:    *)
(* Record empties the one that comes to it.                                *)
THEOREM TrackerTyped == Spec => []TypeOK
  BY TypedInvariant, TypedIsTypeOK, PTL

(* Nobody is blocked who has not failed often enough within the window,    *)
(* though files are written while the lists change in place, loaded by a   *)
(* later process, and replaced by older ones: failures get around, but     *)
(* none is made up or counted for another remote (Record, save and load).  *)
(* One can be counted twice only if an encoder wrote it twice, which is    *)
(* all that a remote in `doubled` is excused for.                          *)
THEOREM BlocksAreDeserved == Spec => []BlockedIsDeserved
  BY TypedInvariant, TypedIsDeserved, PTL

-----------------------------------------------------------------------------
(* What has been saved survives. *)

Writing(t) == saver[t] \in {"write", "rename"}
Saving(t) == saver[t] \in {"encode", "read"} \/ Writing(t)

(* Nobody saves beside the savers of older trackers. *)
TurnsHold == \A t, u \in Trackers : Saving(t) /\ u < t => ~ Alive(u)

(* So the temporary file is that of the saver that writes it, and is not   *)
(* the state file.                                                         *)
TmpHolds ==
  /\ tmp = NoFile \/ tmp # stateFile
  /\ \A t \in Trackers : saver[t] = "write" => tmp # NoFile /\ fd[t] = tmp
  /\ \A t \in Trackers : saver[t] = "rename" => tmp # NoFile /\ content[tmp] = image[t]

(* A block that a saver has encoded is in its tracker until it is over,    *)
(* and what has been kept is among what it has encoded.                    *)
EncodedHolds ==
  \A t \in Trackers, r \in Remotes : Writing(t) =>
    /\ now < image[t].blocked[r] => blocked[t][r] = image[t].blocked[r]
    /\ now < kept[r] => image[t].blocked[r] = kept[r]

(* The state file has what is kept, ... *)
FileHolds ==
  \A r \in Remotes : now < kept[r] =>
    stateFile # NoFile /\ content[stateFile] # Torn /\ content[stateFile].blocked[r] = kept[r]

(* ... and so has every tracker that is used or will be saved. *)
TrackersHold ==
  \A t \in Trackers, r \in Remotes :
    (running /\ (t \in {current, newest} \/ Alive(t)) /\ now < kept[r]) => blocked[t][r] = kept[r]

Orderly == TurnsHold /\ TmpHolds /\ EncodedHolds /\ FileHolds /\ TrackersHold

(* All of it ends where savers overlap, and nothing counts as kept then. *)
SavedInv ==
  /\ ~ running => \A t \in Trackers : saver[t] = "none"
  /\ overlapped => kept = Nothing.blocked
  /\ ~ overlapped => Orderly

LEMMA InitIsSaved == Init => SavedInv
<1> SUFFICES ASSUME Init PROVE SavedInv
  OBVIOUS
<1>1. \A r \in Remotes : kept[r] = 0 /\ now = 0
  BY DEF Init, Nothing
<1>2. \A t \in Trackers : ~ Writing(t) /\ ~ Saving(t)
  BY DEF Init, Writing, Saving
<1>3. tmp = NoFile
  BY DEF Init
<1>4. Orderly
  BY <1>1, <1>2, <1>3 DEF Orderly, TurnsHold, TmpHolds, EncodedHolds, FileHolds, TrackersHold, Writing
<1> QED
  BY <1>4 DEF Init, SavedInv

(* With the process, the savers end. *)
LEMMA DownStep ==
  ASSUME ProcessHolds, SaversHold, SavedInv, [Next]_vars
  PROVE  ~ running' => \A t \in Trackers : saver'[t] = "none"
<1>1. ASSUME NEW t \in Trackers, BeginSave(t) \/ SaverStep(t)
      PROVE  running /\ running' = running
  <2>1. running' = running
    BY <1>1, SaverStepFrame DEF BeginSave, process
  <2>2. saver[t] # "none"
    BY <1>1 DEF BeginSave, SaverStep, TakeLists, EncodeAndOpen, WriteTmp, WriteFails, RenameTmp,
       RenameFails
  <2> QED
    BY <2>1, <2>2 DEF SavedInv
<1>2. CASE Die
  BY <1>2 DEF Die
<1>3. CASE ~ Die /\ ~ \E t \in Trackers : SaveNow(t) \/ SaveAtTheEnd(t) \/ SaverStep(t)
  <2>1. \/ running' = running /\ saver' = saver
        \/ running' = TRUE
        \/ running = TRUE /\ running' = running
    BY <1>3 DEF Next, Tick, Connect, Accept, Reject, BuildState, BuildFails, Install, Terminate,
       Restart, vars, process, savers
  <2> QED
    BY <2>1 DEF SavedInv
<1> QED
  BY <1>1, <1>2, <1>3 DEF SaveNow, SaveAtTheEnd

(* Nothing is kept where savers have overlapped. *)
LEMMA OverlapStep ==
  ASSUME SavedInv, [Next]_vars
  PROVE  /\ overlapped' => kept' = Nothing.blocked
         /\ overlapped => overlapped'
<1>1. ASSUME NEW t \in Trackers, BeginSave(t)
      PROVE  \/ overlapped' = TRUE /\ kept' = Nothing.blocked
             \/ UNCHANGED record
  BY <1>1 DEF BeginSave
<1>2. ASSUME NEW t \in Trackers, SaverStep(t)
      PROVE  overlapped' = overlapped /\ (overlapped => kept' = kept)
  <2>1. overlapped' = overlapped
    BY <1>2, SaverStepFrame
  <2>2. overlapped => kept' = kept
    BY <1>2 DEF SaverStep, TakeLists, EncodeAndOpen, WriteTmp, WriteFails, RenameTmp, RenameFails, record
  <2> QED
    BY <2>1, <2>2
<1>3. CASE UNCHANGED record
  BY <1>3 DEF record, SavedInv
<1>4. CASE \E t \in Trackers : BeginSave(t) \/ SaverStep(t)
  BY <1>1, <1>2, <1>3, <1>4 DEF SavedInv
<1>5. UNCHANGED record \/ \E t \in Trackers : BeginSave(t) \/ SaverStep(t)
  BY DEF Next, Tick, Connect, Accept, Reject, BuildState, BuildFails, Install, Terminate,
     Die, Restart, vars, SaveNow, SaveAtTheEnd
<1> QED
  BY <1>3, <1>4, <1>5

(* Steps that leave savers and files alone, and take no block in force. *)
LEMMA OrderlyQuiet ==
  ASSUME TypedInv, SavedInv, BlocksStay, Orderly,
         UNCHANGED <<running, saver, image, fd, disk, kept, current>>,
         now' \in {now, now + 1}, newest' \in {newest, current}
  PROVE  Orderly'
<1>1. /\ \A t \in Trackers : (t \in {current, newest} \/ Alive(t)) => t <= newest
      /\ \A t \in Trackers : (t \in {current, newest'} \/ Alive(t)) => t <= newest'
      /\ current <= newest'
  BY DEF TypedInv, ProcessHolds, SaversHold, Trackers, Alive
<1>2. \A x \in Nat : now' < x => now < x
  BY DEF TypedInv, ProcessHolds
<1>3. /\ \A r \in Remotes : kept[r] \in Nat
      /\ \A t \in Trackers, r \in Remotes : image[t].blocked[r] \in Nat
  <2>1. \A x \in 0 .. MaxTime + BlockDuration : x \in Nat
    BY ParametersAssumption
  <2> QED
    BY <2>1 DEF TypedInv, KeptHolds, ImagesHold, Image
<1>4. TurnsHold' /\ TmpHolds' /\ FileHolds'
  BY <1>2, <1>3 DEF Orderly, TurnsHold, TmpHolds, FileHolds, Saving, Writing, Alive, disk
<1>5. TrackersHold'
  BY <1>1, <1>2, <1>3 DEF Orderly, TrackersHold, BlocksStay, Alive, TypedInv, ProcessHolds
<1>6. EncodedHolds'
  <2> SUFFICES ASSUME NEW t \in Trackers, NEW r \in Remotes, Writing(t)
               PROVE  /\ now' < image[t].blocked[r] => blocked'[t][r] = image[t].blocked[r]
                      /\ now' < kept[r] => image[t].blocked[r] = kept[r]
    BY DEF EncodedHolds, Writing
  <2>1. running /\ t <= newest'
    BY <1>1 DEF Writing, Alive, SavedInv
  <2> QED
    BY <1>2, <1>3, <2>1 DEF Orderly, EncodedHolds, BlocksStay
<1> QED
  BY <1>4, <1>5, <1>6 DEF Orderly

(* A tracker that is built finds what is kept in the file. *)
LEMMA LoadedHasKept ==
  ASSUME FileHolds, NEW r \in Remotes, now < kept[r]
  PROVE  Loaded.blocked[r] = kept[r]
<1>1. stateFile # NoFile /\ content[stateFile] # Torn /\ content[stateFile].blocked[r] = kept[r]
  BY DEF FileHolds
<1>2. Loaded = [attempts |-> Loaded.attempts,
                blocked |-> [s \in Remotes |-> Unexpired(content[stateFile].blocked[s])]]
  BY <1>1 DEF Loaded
<1>3. Loaded.blocked[r] = Unexpired(content[stateFile].blocked[r])
  BY <1>2
<1> QED
  BY <1>1, <1>3 DEF Unexpired

LEMMA OrderlyBuild ==
  ASSUME TypedInv, SavedInv, Orderly, BuildState
  PROVE  Orderly'
<1>1. /\ UNCHANGED <<now, running, saver, image, fd, disk, kept, current>>
      /\ newest = current /\ newest' = newest + 1
      /\ blocked' = [blocked EXCEPT ![newest + 1] = Loaded.blocked]
  BY DEF BuildState, Build, savers, record
<1>2. \A t \in Trackers : Alive(t) => t <= newest
  BY <1>1 DEF TypedInv, ProcessHolds, SaversHold, Trackers, Alive
<1>3. newest \in Nat
  BY DEF TypedInv, ProcessHolds, Trackers
<1>4. /\ \A t \in Trackers : t <= newest => blocked'[t] = blocked[t]
      /\ newest + 1 \in Trackers => blocked'[newest + 1] = Loaded.blocked
  BY <1>1, <1>3 DEF TypedInv, MapsHold
<1>5. TurnsHold' /\ TmpHolds' /\ FileHolds'
  BY <1>1 DEF Orderly, TurnsHold, TmpHolds, FileHolds, Saving, Writing, Alive, disk
<1>6. EncodedHolds'
  BY <1>1, <1>2, <1>4 DEF Orderly, EncodedHolds, Writing, Alive
<1>7. TrackersHold'
  <2> SUFFICES ASSUME NEW t \in Trackers, NEW r \in Remotes, now < kept[r], running,
                      t \in {current, newest + 1} \/ Alive(t)
               PROVE  blocked'[t][r] = kept[r]
    BY <1>1 DEF TrackersHold, Alive
  <2>1. CASE t = newest + 1
    BY <1>4, <2>1, LoadedHasKept DEF Orderly
  <2>2. CASE t # newest + 1
    <3>1. t <= newest /\ (t \in {current, newest} \/ Alive(t))
      BY <1>1, <1>2, <1>3, <2>2
    <3> QED
      BY <1>4, <3>1 DEF Orderly, TrackersHold
  <2> QED
    BY <2>1, <2>2
<1> QED
  BY <1>5, <1>6, <1>7 DEF Orderly

LEMMA OrderlyInstall ==
  ASSUME TypedInv, SavedInv, Orderly, Install
  PROVE  Orderly'
<1>1. /\ UNCHANGED <<now, running, blocked, image, fd, disk, kept, newest>>
      /\ newest # current /\ current' = newest
      /\ \E pc \in {"idle", "ended"} : saver' = [saver EXCEPT ![newest] = pc]
  BY DEF Install, StartSaver, trackers, record
<1>2. newest \in Trackers /\ current \in Trackers /\ newest = current + 1
  BY <1>1 DEF TypedInv, ProcessHolds
<1>3. /\ saver[newest] = "none"
      /\ \A t \in Trackers : newest < t => saver[t] = "none"
  BY <1>2 DEF TypedInv, SaversHold, Trackers
<1>4. /\ saver'[newest] \in {"idle", "ended"}
      /\ \A t \in Trackers : t # newest => saver'[t] = saver[t]
  BY <1>1, <1>2 DEF TypedInv, SaversHold
<1>5. \A t \in Trackers : /\ Saving(t)' => Saving(t) /\ t # newest /\ saver'[t] = saver[t]
                          /\ Alive(t)' => Alive(t) \/ t = newest
  BY <1>3, <1>4 DEF Saving, Writing, Alive
<1>6. TurnsHold'
  <2> SUFFICES ASSUME NEW t \in Trackers, NEW u \in Trackers, Saving(t)', u < t, Alive(u)'
               PROVE  FALSE
    BY DEF TurnsHold
  <2>1. Saving(t) /\ u = newest
    BY <1>5 DEF Orderly, TurnsHold
  <2> QED
    BY <1>3, <2>1 DEF Saving, Writing
<1>7. TmpHolds' /\ FileHolds' /\ EncodedHolds'
  BY <1>1, <1>5 DEF Orderly, TmpHolds, FileHolds, EncodedHolds, Saving, Writing, disk
<1>8. TrackersHold'
  BY <1>1, <1>5 DEF Orderly, TrackersHold
<1> QED
  BY <1>6, <1>7, <1>8 DEF Orderly

(* The process dies: what was not renamed goes. *)
LEMMA OrderlyDie ==
  ASSUME TypedInv, SavedInv, Orderly, Die
  PROVE  Orderly'
<1>1. /\ UNCHANGED <<now, tmp, stateFile, kept>> /\ running' = FALSE
      /\ content' = [f \in Files |-> IF f = stateFile THEN content[f] ELSE Torn]
      /\ \A t \in Trackers : saver'[t] = "none"
  BY DEF Die, record
<1>2. TurnsHold' /\ EncodedHolds' /\ TrackersHold'
  BY <1>1 DEF TurnsHold, EncodedHolds, TrackersHold, Saving, Writing
<1>3. TmpHolds'
  BY <1>1 DEF Orderly, TmpHolds
<1>4. FileHolds'
  BY <1>1 DEF Orderly, FileHolds, TypedInv, SaversHold
<1> QED
  BY <1>2, <1>3, <1>4 DEF Orderly

LEMMA OrderlyRestart ==
  ASSUME TypedInv, SavedInv, Orderly, Restart
  PROVE  Orderly'
<1>1. /\ UNCHANGED <<now, image, fd, disk, kept>>
      /\ newest' = newest + 1 /\ current' = newest + 1 /\ ~ running /\ newest < MaxTrackers
      /\ blocked' = [blocked EXCEPT ![newest + 1] = Loaded.blocked]
      /\ \E pc \in {"idle", "ended"} : saver' = [saver EXCEPT ![newest + 1] = pc]
  BY DEF Restart, Build, StartSaver, record
<1>2. \A t \in Trackers : saver[t] = "none"
  BY <1>1 DEF SavedInv
<1>3. \A t \in Trackers : /\ saver'[t] \in {"none", "idle", "ended"}
                          /\ t # newest + 1 => saver'[t] = "none"
  BY <1>1, <1>2 DEF TypedInv, SaversHold
<1>4. TurnsHold' /\ EncodedHolds'
  BY <1>3 DEF TurnsHold, EncodedHolds, Saving, Writing
<1>5. TmpHolds' /\ FileHolds'
  BY <1>1, <1>3 DEF Orderly, TmpHolds, FileHolds, disk
<1>6. TrackersHold'
  <2> SUFFICES ASSUME NEW t \in Trackers, NEW r \in Remotes, now < kept[r],
                      t = newest + 1 \/ Alive(t)'
               PROVE  blocked'[t][r] = kept[r]
    BY <1>1 DEF TrackersHold
  <2>1. t = newest + 1
    BY <1>3 DEF Alive
  <2>2. blocked'[t] = Loaded.blocked
    BY <1>1, <2>1 DEF TypedInv, MapsHold
  <2> QED
    BY <2>2, LoadedHasKept DEF Orderly
<1> QED
  BY <1>4, <1>5, <1>6 DEF Orderly

LEMMA OneSaver ==
  ASSUME TurnsHold, NEW t \in Trackers, NEW u \in Trackers, Saving(t), Saving(u)
  PROVE  t = u
<1>1. Alive(t) /\ Alive(u)
  BY DEF Saving, Writing, Alive
<1>2. ~ u < t /\ ~ t < u
  BY <1>1 DEF TurnsHold
<1> QED
  BY <1>2, ParametersAssumption DEF Trackers

LEMMA OrderlyBegin ==
  ASSUME TypedInv, SavedInv, BlocksStay, Orderly, NEW t \in Trackers, BeginSave(t), ~ overlapped'
  PROVE  Orderly'
<1>1. /\ UNCHANGED <<now, running, newest, current, fd, disk, kept>>
      /\ saver[t] = "idle" /\ saver' = [saver EXCEPT ![t] = "encode"]
      /\ image' = image
      /\ ~ \E u \in Trackers : u < t /\ Alive(u)
  BY DEF BeginSave, Goto, process, record
<1>2. \A u \in Trackers : u # t => saver'[u] = saver[u] /\ image'[u] = image[u]
  BY <1>1 DEF TypedInv, SaversHold, ImagesHold
<1>3. saver'[t] = "encode" /\ running
  BY <1>1 DEF TypedInv, SaversHold, SavedInv
<1>4. \A u \in Trackers : /\ Alive(u)' <=> Alive(u)
                          /\ Writing(u)' => Writing(u) /\ u # t
                          /\ Saving(u)' => Saving(u) \/ u = t
  BY <1>1, <1>2, <1>3 DEF Alive, Writing, Saving
<1>5. TurnsHold'
  BY <1>1, <1>4 DEF Orderly, TurnsHold
<1>6. TmpHolds' /\ FileHolds'
  BY <1>1, <1>2, <1>3 DEF Orderly, TmpHolds, FileHolds, disk
<1>7. \A u \in Trackers : u \in {current, newest} \/ Alive(u) => u <= newest'
  BY <1>1 DEF TypedInv, ProcessHolds, SaversHold, Trackers, Alive
<1>8. TrackersHold'
  BY <1>1, <1>3, <1>4, <1>7 DEF Orderly, TrackersHold, BlocksStay
<1>9. EncodedHolds'
  <2> SUFFICES ASSUME NEW u \in Trackers, NEW r \in Remotes, Writing(u), u # t
               PROVE  /\ now < image[u].blocked[r] => blocked'[u][r] = image[u].blocked[r]
                      /\ now < kept[r] => image[u].blocked[r] = kept[r]
    BY <1>1, <1>2, <1>4 DEF EncodedHolds
  <2>1. u <= newest' /\ running'
    BY <1>1, <1>3, <1>7 DEF Writing, Alive
  <2> QED
    BY <2>1 DEF Orderly, EncodedHolds, BlocksStay
<1> QED
  BY <1>5, <1>6, <1>8, <1>9 DEF Orderly

(* The encoder takes the lists: nothing else happens. *)
LEMMA OrderlyTake ==
  ASSUME TypedInv, Orderly, NEW t \in Trackers, TakeLists(t)
  PROVE  Orderly'
<1>1. /\ UNCHANGED <<now, running, newest, current, blocked, image, fd, disk, kept>>
      /\ saver[t] = "encode" /\ saver' = [saver EXCEPT ![t] = "read"]
  BY DEF TakeLists, Goto, process, trackers, record
<1>2. saver'[t] = "read" /\ \A u \in Trackers : u # t => saver'[u] = saver[u]
  BY <1>1 DEF TypedInv, SaversHold
<1>3. \A u \in Trackers : /\ Alive(u)' <=> Alive(u)
                          /\ Writing(u)' => Writing(u) /\ u # t
                          /\ Saving(u)' <=> Saving(u)
  BY <1>1, <1>2 DEF Alive, Writing, Saving
<1>4. TurnsHold'
  BY <1>3 DEF Orderly, TurnsHold
<1>5. TmpHolds' /\ FileHolds'
  BY <1>1, <1>2 DEF Orderly, TmpHolds, FileHolds, disk
<1>6. EncodedHolds' /\ TrackersHold'
  BY <1>1, <1>3 DEF Orderly, EncodedHolds, TrackersHold
<1> QED
  BY <1>4, <1>5, <1>6 DEF Orderly

(* The blocks are encoded as they are, what is kept among them. *)
LEMMA OrderlyEncode ==
  ASSUME TypedInv, SavedInv, Orderly, NEW t \in Trackers, EncodeAndOpen(t)
  PROVE  Orderly'
<1> DEFINE f == IF Target = NoFile THEN Min(Files \ InUse) ELSE Target
<1>1. /\ UNCHANGED <<now, running, newest, current, blocked, stateFile, kept>>
      /\ saver[t] = "read" /\ saver' = [saver EXCEPT ![t] = "write"]
      /\ \E lists : image' = [image EXCEPT ![t] = [attempts |-> lists, blocked |-> blocked[t]]]
      /\ fd' = [fd EXCEPT ![t] = f]
      /\ tmp' = IF f = stateFile THEN tmp ELSE f
      /\ content' = [content EXCEPT ![f] = Torn]
  BY DEF EncodeAndOpen, Goto, process, trackers, record
<1>2. f \in Files /\ f # stateFile
  <2>1. CASE tmp = NoFile
    <3>1. f \in Files \ InUse /\ stateFile \in InUse
      BY <2>1, FreshFile DEF Target, TypedInv, InUse
    <3> QED
      BY <3>1
  <2>2. CASE tmp # NoFile
    BY <2>2 DEF Target, TypedInv, SaversHold, Orderly, TmpHolds
  <2> QED
    BY <2>1, <2>2
<1>3. f # NoFile /\ tmp' = f
  BY <1>1, <1>2, ParametersAssumption DEF Files, NoFile
<1> HIDE DEF f
<1>4. saver'[t] = "write" /\ fd'[t] = f /\ \A u \in Trackers : u # t => saver'[u] = saver[u]
  BY <1>1 DEF TypedInv, SaversHold
<1>5. \A u \in Trackers : Saving(u)' <=> u = t
  <2>1. Saving(t)
    BY <1>1 DEF Saving
  <2>2. \A u \in Trackers : Saving(u) => u = t
    BY <2>1, OneSaver DEF Orderly
  <2> QED
    BY <1>4, <2>2 DEF Saving, Writing
<1>6. \A u \in Trackers : Alive(u)' <=> Alive(u)
  BY <1>1, <1>4 DEF Alive
<1>7. image'[t].blocked = blocked[t]
  BY <1>1 DEF TypedInv, ImagesHold, Image
<1>8. TurnsHold'
  <2>1. Saving(t)
    BY <1>1 DEF Saving
  <2> QED
    BY <1>5, <1>6, <2>1 DEF Orderly, TurnsHold
<1>9. TmpHolds'
  BY <1>1, <1>2, <1>3, <1>4, <1>5 DEF TmpHolds, Saving, Writing
<1>10. FileHolds'
  BY <1>1, <1>2 DEF Orderly, FileHolds, TypedInv, FilesHold, SaversHold
<1>11. TrackersHold'
  BY <1>1, <1>6 DEF Orderly, TrackersHold
<1>12. EncodedHolds'
  <2> SUFFICES ASSUME NEW r \in Remotes
               PROVE  now < kept[r] => blocked[t][r] = kept[r]
    BY <1>1, <1>5, <1>7 DEF EncodedHolds, Saving
  <2>1. running /\ Alive(t)
    BY <1>1 DEF SavedInv, Alive
  <2> QED
    BY <2>1 DEF Orderly, TrackersHold
<1> QED
  BY <1>8, <1>9, <1>10, <1>11, <1>12 DEF Orderly

LEMMA OrderlyWrite ==
  ASSUME TypedInv, SavedInv, Orderly, NEW t \in Trackers, WriteTmp(t)
  PROVE  Orderly'
<1>1. /\ UNCHANGED <<now, running, newest, current, blocked, image, tmp, stateFile, kept>>
      /\ saver[t] = "write" /\ saver' = [saver EXCEPT ![t] = "rename"]
      /\ content' = [content EXCEPT ![fd[t]] = image[t]]
  BY DEF WriteTmp, Goto, process, trackers, record
<1>2. fd[t] = tmp /\ tmp # NoFile /\ tmp \in Files /\ tmp # stateFile
  BY <1>1 DEF Orderly, TmpHolds, TypedInv, SaversHold
<1>3. saver'[t] = "rename" /\ \A u \in Trackers : u # t => saver'[u] = saver[u]
  BY <1>1 DEF TypedInv, SaversHold
<1>4. Saving(t) /\ Writing(t)
  BY <1>1 DEF Saving, Writing
<1>5. \A u \in Trackers : /\ Saving(u)' => u = t
                          /\ Alive(u)' <=> Alive(u)
  <2>1. \A u \in Trackers : Saving(u) => u = t
    BY <1>4, OneSaver DEF Orderly
  <2> QED
    BY <1>1, <1>3, <2>1 DEF Saving, Writing, Alive
<1>6. TurnsHold'
  BY <1>4, <1>5 DEF Orderly, TurnsHold
<1>7. TmpHolds'
  <2>1. content'[tmp] = image[t]
    BY <1>1, <1>2 DEF TypedInv, FilesHold
  <2> QED
    BY <1>1, <1>2, <1>3, <1>5, <2>1 DEF TmpHolds, Saving, Writing
<1>8. FileHolds'
  BY <1>1, <1>2 DEF Orderly, FileHolds, TypedInv, FilesHold, SaversHold
<1>9. TrackersHold'
  BY <1>1, <1>5 DEF Orderly, TrackersHold
<1>10. EncodedHolds'
  BY <1>1, <1>4, <1>5 DEF Orderly, EncodedHolds, Saving
<1> QED
  BY <1>6, <1>7, <1>8, <1>9, <1>10 DEF Orderly

(* A save that fails changes nothing. *)
LEMMA OrderlyFail ==
  ASSUME TypedInv, SavedInv, Orderly, NEW t \in Trackers, WriteFails(t) \/ RenameFails(t)
  PROVE  Orderly'
<1>1. /\ UNCHANGED <<now, running, newest, current, blocked, disk, kept>>
      /\ saver[t] \in {"write", "rename"}
      /\ \E pc \in {"ended", "idle"} : saver' = [saver EXCEPT ![t] = pc]
  BY DEF WriteFails, RenameFails, EndSave, Goto, AfterSave, process, trackers
<1>2. saver'[t] \in {"ended", "idle"} /\ \A u \in Trackers : u # t => saver'[u] = saver[u]
  BY <1>1 DEF TypedInv, SaversHold
<1>3. Saving(t)
  BY <1>1 DEF Saving, Writing
<1>4. \A u \in Trackers : ~ Saving(u)' /\ (Alive(u)' => Alive(u))
  <2>1. \A u \in Trackers : Saving(u) => u = t
    BY <1>3, OneSaver DEF Orderly
  <2> QED
    BY <1>1, <1>2, <2>1 DEF Saving, Writing, Alive
<1>5. TurnsHold' /\ EncodedHolds'
  BY <1>4 DEF TurnsHold, EncodedHolds, Saving
<1>6. TmpHolds' /\ FileHolds'
  BY <1>1, <1>4 DEF Orderly, TmpHolds, FileHolds, Saving, Writing, disk
<1>7. TrackersHold'
  BY <1>1, <1>4 DEF Orderly, TrackersHold
<1> QED
  BY <1>5, <1>6, <1>7 DEF Orderly

(* The new file has what was kept, and what is kept from now on. *)
LEMMA OrderlyRename ==
  ASSUME TypedInv, SavedInv, Orderly, ~ overlapped, NEW t \in Trackers, RenameTmp(t)
  PROVE  Orderly'
<1>1. /\ UNCHANGED <<now, running, newest, current, blocked>>
      /\ saver[t] = "rename" /\ tmp # NoFile /\ stateFile' = tmp /\ tmp' = NoFile
      /\ \E pc \in {"ended", "idle"} : saver' = [saver EXCEPT ![t] = pc]
      /\ kept' = IF t = newest THEN [r \in Remotes |-> Max({kept[r], image[t].blocked[r]})] ELSE kept
  BY DEF RenameTmp, EndSave, Goto, AfterSave, process, trackers
<1>2. saver'[t] \in {"ended", "idle"} /\ \A u \in Trackers : u # t => saver'[u] = saver[u]
  BY <1>1 DEF TypedInv, SaversHold
<1>3. Saving(t) /\ Writing(t) /\ running
  BY <1>1 DEF Saving, Writing, SavedInv
<1>4. \A u \in Trackers : ~ Saving(u)' /\ (Alive(u)' => Alive(u))
  <2>1. \A u \in Trackers : Saving(u) => u = t
    BY <1>3, OneSaver DEF Orderly
  <2> QED
    BY <1>1, <1>2, <2>1 DEF Saving, Writing, Alive
<1>5. content'[tmp] = image[t]
  <2>1. tmp \in Files /\ content[tmp] = image[t]
    BY <1>1 DEF TypedInv, SaversHold, Orderly, TmpHolds
  <2>2. content' = [f \in Files |-> IF f \in {tmp} \cup {fd[u] : u \in Trackers}
                                    THEN content[f] ELSE Torn]
    BY DEF RenameTmp
  <2> DEFINE open == {tmp} \cup {fd[u] : u \in Trackers}
  <2>3. tmp \in open
    OBVIOUS
  <2>4. content' = [f \in Files |-> IF f \in open THEN content[f] ELSE Torn]
    BY <2>2
  <2> HIDE DEF open
  <2> QED
    BY <2>1, <2>3, <2>4
<1>6. \A r \in Remotes : /\ kept[r] \in Nat /\ image[t].blocked[r] \in Nat /\ kept'[r] \in Nat
                         /\ kept'[r] \in {kept[r], image[t].blocked[r]}
                         /\ t # newest => kept'[r] = kept[r]
                         /\ t = newest => kept'[r] >= kept[r] /\ kept'[r] >= image[t].blocked[r]
  <2>1. \A x \in 0 .. MaxTime + BlockDuration : x \in Nat
    BY ParametersAssumption
  <2>2. \A r \in Remotes : kept[r] \in Nat /\ image[t].blocked[r] \in Nat
    BY <2>1 DEF TypedInv, KeptHolds, ImagesHold, Image
  <2> QED
    BY <1>1, <2>2, MaxOfTwo
<1>7. \A r \in Remotes : now < kept'[r] => image[t].blocked[r] = kept'[r]
  <2>1. now \in Nat
    BY DEF TypedInv, ProcessHolds
  <2>2. \A r \in Remotes : now < kept[r] => image[t].blocked[r] = kept[r]
    BY <1>3 DEF Orderly, EncodedHolds
  <2> QED
    BY <1>6, <2>1, <2>2
<1>8. \A r \in Remotes : now < kept'[r] => blocked[t][r] = kept'[r]
  BY <1>3, <1>7 DEF Orderly, EncodedHolds
<1>9. TurnsHold' /\ EncodedHolds' /\ TmpHolds'
  BY <1>1, <1>4 DEF TurnsHold, EncodedHolds, TmpHolds, Saving, Writing
<1>10. FileHolds'
  <2>1. ASSUME NEW r \in Remotes
        PROVE  image[t] # Torn
    <3>1. DOMAIN image[t].blocked = Remotes
      BY DEF TypedInv, ImagesHold, Image
    <3>2. Torn.blocked = <<>> /\ DOMAIN <<>> = {}
      BY DEF Torn
    <3> QED
      BY <3>1, <3>2
  <2> QED
    BY <1>1, <1>5, <1>7, <2>1 DEF FileHolds
<1>11. TrackersHold'
  <2> SUFFICES ASSUME NEW u \in Trackers, NEW r \in Remotes, now < kept'[r],
                      u \in {current, newest} \/ Alive(u)
               PROVE  blocked[u][r] = kept'[r]
    BY <1>1, <1>4 DEF TrackersHold
  <2>1. CASE t = newest
    <3>1. t = current
      <4>1. newest = current \/ newest = current + 1
        BY DEF TypedInv, ProcessHolds
      <4>2. ~ current < t
        BY <1>1 DEF TypedInv, SaversHold
      <4> QED
        BY <2>1, <4>1, <4>2 DEF TypedInv, ProcessHolds, Trackers
    <3>2. u = t
      <4>1. CASE Alive(u)
        <5>1. ~ u < t /\ ~ current < u
          BY <1>3, <4>1 DEF Orderly, TurnsHold, TypedInv, SaversHold, Alive
        <5> QED
          BY <3>1, <5>1 DEF Trackers
      <4> QED
        BY <2>1, <3>1, <4>1
    <3> QED
      BY <1>8, <3>2
  <2>2. CASE t # newest
    BY <1>3, <1>6, <2>2 DEF Orderly, TrackersHold
  <2> QED
    BY <2>1, <2>2
<1> QED
  BY <1>9, <1>10, <1>11 DEF Orderly

LEMMA SavedStep ==
  ASSUME IInv, TypedInv, SavedInv, [Next]_vars
  PROVE  SavedInv'
<1>1. ~ running' => \A t \in Trackers : saver'[t] = "none"
  BY DownStep DEF TypedInv
<1>2. overlapped' => kept' = Nothing.blocked
  BY OverlapStep
<1>3. ASSUME ~ overlapped'
      PROVE  Orderly'
  <2>1. Orderly /\ ~ overlapped /\ BlocksStay
    BY <1>3, OverlapStep, NextStep DEF SavedInv
  <2>2. CASE \/ Tick \/ (\E r \in Remotes : Connect(r) \/ Accept(r) \/ Reject(r))
             \/ BuildFails \/ Terminate \/ UNCHANGED vars
    <3>1. /\ UNCHANGED <<running, saver, image, fd, disk, kept, current>>
          /\ now' \in {now, now + 1} /\ newest' \in {newest, current}
      BY <2>2 DEF Tick, Connect, Accept, Reject, BuildFails, Terminate, vars, process, savers, record
    <3> QED
      BY <2>1, <3>1, OrderlyQuiet
  <2>3. CASE BuildState \/ Install \/ Die \/ Restart
    BY <2>1, <2>3, OrderlyBuild, OrderlyInstall, OrderlyDie, OrderlyRestart
  <2>4. ASSUME NEW t \in Trackers, SaveNow(t) \/ SaveAtTheEnd(t)
        PROVE  Orderly'
    BY <1>3, <2>1, <2>4, OrderlyBegin DEF SaveNow, SaveAtTheEnd
  <2>5. ASSUME NEW t \in Trackers, SaverStep(t)
        PROVE  Orderly'
    BY <2>1, <2>5, OrderlyTake, OrderlyEncode, OrderlyWrite, OrderlyFail, OrderlyRename DEF SaverStep
  <2> QED
    BY <2>2, <2>3, <2>4, <2>5 DEF Next
<1> QED
  BY <1>1, <1>2, <1>3 DEF SavedInv

LEMMA SavedIsInForce == TypedInv /\ SavedInv => SavedBlocksHold
  BY DEF SavedInv, Orderly, TrackersHold, SavedBlocksHold, TypedInv, ProcessHolds

(* Blocks survive reloads and the end of the process, which may come       *)
(* between any two steps of a save: what has been renamed to the state     *)
(* file is loaded, still in force, by every later tracker, as long as the  *)
(* savers of two trackers did not meet (save, load and the reload in       *)
(* main).                                                                  *)
THEOREM BlocksSurvive == Spec => []SavedBlocksHold
<1>1. Init => SavedInv
  BY InitIsSaved
<1>2. IInv /\ TypedInv /\ SavedInv /\ [Next]_vars => SavedInv'
  BY SavedStep
<1> QED
  BY <1>1, <1>2, TypedInvariant, SavedIsInForce, PTL DEF Spec
=============================================================================
