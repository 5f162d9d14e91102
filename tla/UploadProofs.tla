---------------------------- MODULE UploadProofs ----------------------------
(***************************************************************************)
(* What is stored is what was written, for any number of uploads, keys,    *)
(* parts, writes, limits and faults: the safety properties of Upload.      *)
(***************************************************************************)
EXTENDS Upload, TLAPS

(* Only closed uploads are stored: from then on the client is not told of  *)
(* any other write.                                                        *)
StoredIsClosed ==
  \A k \in Keys : object[k] # NoObject => state[object[k].by] = "closed"

(* What is in a temporary file got past the limit, ... *)
FileWithinLimit ==
  \A h \in Uploads : maxFileSize > 0 =>
    \A p \in Parts : file[h][p] # {} => p <= maxFileSize

(* ... and is what the client was told of. *)
FileAreWrites == \A h \in Uploads : AreWrites(h, file[h])

(* A write is answered once, and comes before others only from then on. *)
AnswersHold ==
  \A h \in Uploads :
    /\ received[h] \cap Answered(h) = {}
    /\ \A v, w \in Writes : <<v, w>> \in order[h] => v \in Answered(h)

(* An upload that was never opened has no temporary file. *)
UnopenedHasNoTemp == \A h \in Uploads : state[h] = "none" => h \notin temp

IInv ==
  /\ TypeOK /\ StoredIsClosed /\ FileWithinLimit /\ FileAreWrites /\ AnswersHold
  /\ UnopenedHasNoTemp /\ StoredAreWrites /\ StoredWithinLimit /\ ClosedIsStored

Objects == [by : Uploads, parts : Bytes]

(* Stored objects have an upload and parts; NoObject is none of them. *)
LEMMA ObjectFacts ==
  ASSUME TypeOK, NEW k \in Keys, object[k] # NoObject
  PROVE  object[k].by \in Uploads /\ object[k].parts \in Bytes
BY DEF TypeOK

LEMMA InitHolds == Init => IInv
<1> SUFFICES ASSUME Init PROVE IInv
  OBVIOUS
<1>1. TypeOK
  <2>1. {rateLimited, connected, ctxDone} \subseteq BOOLEAN
    BY DEF Init
  <2>2. /\ maxFileSize \in MaxFileSizes /\ key \in [Uploads -> Keys]
        /\ faults \in 0 .. MaxFaults
    BY BoundAssumption DEF Init
  <2>3. /\ state \in [Uploads -> {"none", "open", "uploading", "closed"}]
        /\ answer \in [Uploads -> {"none", "ok", "error"}]
        /\ {received, accepted, refused} \subseteq [Uploads -> SUBSET Writes]
        /\ file \in [Uploads -> Bytes] /\ order \in [Uploads -> SUBSET (Writes \X Writes)]
    BY DEF Init, Bytes
  <2>4. /\ temp \subseteq Uploads /\ closing \subseteq Uploads /\ uploaded \subseteq Uploads
        /\ object \in [Keys -> {NoObject} \cup [by : Uploads, parts : Bytes]]
        /\ \A h \in Uploads : state[h] # "open" => received[h] = {}
    BY DEF Init
  <2> QED
    BY <2>1, <2>2, <2>3, <2>4 DEF TypeOK
<1>2. StoredIsClosed /\ FileWithinLimit /\ UnopenedHasNoTemp /\ AnswersHold
  BY DEF Init, StoredIsClosed, FileWithinLimit, UnopenedHasNoTemp, AnswersHold, Answered
<1>3. FileAreWrites
  BY DEF Init, FileAreWrites, AreWrites
<1>4. StoredAreWrites /\ StoredWithinLimit /\ ClosedIsStored
  BY DEF Init, StoredAreWrites, StoredWithinLimit, ClosedIsStored
<1> QED
  BY <1>1, <1>2, <1>3, <1>4 DEF IInv

(* The types. *)
LEMMA TypeStep == TypeOK /\ [Next]_vars => TypeOK'
<1> SUFFICES ASSUME TypeOK, [Next]_vars PROVE TypeOK'
  OBVIOUS
<1> USE BoundAssumption DEF TypeOK, settings, session, writes
<1>1. ASSUME NEW h \in Uploads, Open(h) PROVE TypeOK'
  BY <1>1 DEF Open
<1>2. ASSUME NEW h \in Uploads, OpenFails(h) PROVE TypeOK'
  <2>1. faults' \in 0 .. MaxFaults
    BY <1>2 DEF OpenFails, Fault
  <2>2. /\ state' \in [Uploads -> {"none", "open", "uploading", "closed"}]
        /\ answer' \in [Uploads -> {"none", "ok", "error"}]
        /\ \A i \in Uploads : state'[i] # "open" => received'[i] = {}
    BY <1>2 DEF OpenFails
  <2> QED
    BY <1>2, <2>1, <2>2 DEF OpenFails
<1>3. ASSUME NEW h \in Uploads, SendClose(h) PROVE TypeOK'
  BY <1>3 DEF SendClose
<1>4. ASSUME NEW h \in Uploads, NEW w \in Writes, SendWrite(h, w) PROVE TypeOK'
  BY <1>4 DEF SendWrite, Answered
<1>5. ASSUME NEW h \in Uploads, NEW w \in Writes, WriteAt(h, w) PROVE TypeOK'
  <2>1. \E bytes \in {Written(file[h], w), file[h]} \cup PartlyWritten(file[h], w) :
          file' = [file EXCEPT ![h] = bytes]
    BY <1>5 DEF WriteAt
  <2>2. /\ Written(file[h], w) \in Bytes
        /\ PartlyWritten(file[h], w) \subseteq Bytes
    BY DEF Written, PartlyWritten, Bytes, Writes
  <2>3. file' \in [Uploads -> Bytes]
    BY <2>1, <2>2
  <2>4. faults' \in 0 .. MaxFaults
    BY <1>5 DEF WriteAt, Fault
  <2>5. {received', accepted', refused'} \subseteq [Uploads -> SUBSET Writes]
    BY <1>5 DEF WriteAt
  <2>6. \A i \in Uploads : state[i] # "open" => received'[i] = {}
    BY <1>5 DEF WriteAt
  <2> QED
    BY <1>5, <2>3, <2>4, <2>5, <2>6 DEF WriteAt
<1>6. ASSUME NEW h \in Uploads, Close(h) \/ CloseNothing(h) PROVE TypeOK'
  BY <1>6 DEF Close, CloseNothing, Closable
<1>7. ASSUME NEW h \in Uploads, UploadSucceeds(h) PROVE TypeOK'
  BY <1>7 DEF UploadSucceeds, Finish, TempAfterClose, Store
<1>8. ASSUME NEW h \in Uploads, UploadFails(h) PROVE TypeOK'
  BY <1>8 DEF UploadFails, Finish, TempAfterClose, Store, Fault
<1>9. CASE Disconnect \/ CancelContext \/ UNCHANGED vars
  BY <1>9 DEF Disconnect, CancelContext, vars
<1> QED
  BY <1>1, <1>2, <1>3, <1>4, <1>5, <1>6, <1>7, <1>8, <1>9
  DEF Next, Client, Serve, Ended

(* The bytes of a file after a write: what was true of the old ones, and   *)
(* nothing was sent after the answer to this write yet.                    *)
LEMMA WriteStep ==
  ASSUME IInv, NEW h \in Uploads, NEW w \in Writes, WriteAt(h, w)
  PROVE  FileAreWrites' /\ AnswersHold'
<1> USE DEF IInv
<1>1. /\ UNCHANGED order /\ w \in received[h]
      /\ received' = [received EXCEPT ![h] = @ \ {w}]
      /\ \/ accepted' = [accepted EXCEPT ![h] = @ \cup {w}] /\ UNCHANGED refused
         \/ refused' = [refused EXCEPT ![h] = @ \cup {w}] /\ UNCHANGED accepted
  BY DEF WriteAt
<1>2. \A i \in Uploads : /\ Answered(i)' = Answered(i) \cup (IF i = h THEN {w} ELSE {})
                         /\ received'[i] = received[i] \ (IF i = h THEN {w} ELSE {})
  BY <1>1 DEF Answered, TypeOK
<1>3. AnswersHold'
  BY <1>1, <1>2 DEF AnswersHold
<1>4. \A u : <<w, u>> \notin order[h]
  BY <1>1 DEF AnswersHold, TypeOK
<1>5. ASSUME NEW i \in Uploads
      PROVE  AreWrites(i, file[i])
  BY DEF FileAreWrites
<1>6. ASSUME NEW i \in Uploads, i # h
      PROVE  AreWrites(i, file[i])'
  <2>1. /\ file'[i] = file[i] /\ Answered(i)' = Answered(i) /\ refused'[i] = refused[i]
        /\ accepted'[i] = accepted[i] /\ order'[i] = order[i]
    <3>1. \E bytes : file' = [file EXCEPT ![h] = bytes]
      BY DEF WriteAt, TypeOK
    <3>2. file'[i] = file[i]
      BY <1>6, <3>1 DEF TypeOK
    <3>3. refused'[i] = refused[i] /\ accepted'[i] = accepted[i] /\ order'[i] = order[i]
      BY <1>1, <1>6 DEF TypeOK
    <3>4. Answered(i)' = Answered(i)
      BY <3>3 DEF Answered
    <3> QED
      BY <3>2, <3>3, <3>4
  <2> DEFINE Writers(p) == {[part |-> p, nth |-> n] : n \in file[i][p]}
  <2>2. \A p \in Parts :
          /\ Writers(p) \subseteq Answered(i)
          /\ \A v, u \in Writers(p) \ refused[i] : v = u
          /\ \A u \in accepted[i] : u.part = p =>
               Writers(p) # {} /\ \A v \in Writers(p) : <<v, u>> \notin order[i]
    BY <1>5 DEF AreWrites
  <2>3. \A p \in Parts : Writers(p)' = Writers(p)
    BY <2>1
  <2> HIDE DEF Writers
  <2>4. \A p \in Parts :
          /\ Writers(p)' \subseteq Answered(i)'
          /\ \A v, u \in Writers(p)' \ refused'[i] : v = u
          /\ \A u \in accepted'[i] : u.part = p =>
               Writers(p)' # {} /\ \A v \in Writers(p)' : <<v, u>> \notin order'[i]
    BY <2>1, <2>2, <2>3
  <2> QED
    BY <2>4 DEF AreWrites, Writers
<1>7. AreWrites(h, file[h])'
  <2> SUFFICES ASSUME NEW p \in Parts
               PROVE  LET Writers == {[part |-> p, nth |-> n] : n \in file'[h][p]} IN
                      /\ Writers \subseteq Answered(h)'
                      /\ \A v, u \in Writers \ refused'[h] : v = u
                      /\ \A u \in accepted'[h] : u.part = p =>
                           Writers # {} /\ \A v \in Writers : <<v, u>> \notin order[h]
    BY <1>1 DEF AreWrites
  <2> DEFINE Old == {[part |-> p, nth |-> n] : n \in file[h][p]}
             New == {[part |-> p, nth |-> n] : n \in file'[h][p]}
  <2>1. /\ Old \subseteq Answered(h)
        /\ \A v, u \in Old \ refused[h] : v = u
        /\ \A u \in accepted[h] : u.part = p => Old # {} /\ \A v \in Old : <<v, u>> \notin order[h]
    BY <1>5 DEF AreWrites
  <2>2. w = [part |-> w.part, nth |-> w.nth] /\ file[h] \in Bytes
    BY DEF Writes, TypeOK
  <2>3. CASE file' = [file EXCEPT ![h] = Written(@, w)] /\ accepted' = [accepted EXCEPT ![h] = @ \cup {w}]
             /\ UNCHANGED refused
    <3>1. accepted'[h] = accepted[h] \cup {w} /\ refused'[h] = refused[h]
          /\ file'[h] = [file[h] EXCEPT ![w.part] = {w.nth}]
      BY <2>3 DEF Written, TypeOK
    <3>2. CASE p = w.part
      <4>1. New = {w}
        BY <2>2, <3>1, <3>2 DEF Bytes
      <4> QED
        BY <1>2, <1>4, <4>1
    <3>3. CASE p # w.part
      <4>1. New = Old
        BY <2>2, <3>1, <3>3 DEF Bytes
      <4> HIDE DEF Old, New
      <4>2. /\ New \subseteq Answered(h)'
            /\ \A v, u \in New \ refused'[h] : v = u
            /\ \A u \in accepted'[h] : u.part = p =>
                 New # {} /\ \A v \in New : <<v, u>> \notin order[h]
        BY <1>2, <2>1, <3>1, <3>3, <4>1
      <4> QED
        BY <4>2 DEF New
    <3> QED
      BY <3>2, <3>3
  <2>4. CASE /\ file'[h] \in PartlyWritten(file[h], w) /\ UNCHANGED accepted
             /\ refused' = [refused EXCEPT ![h] = @ \cup {w}]
    <3>1. New \in {Old, Old \cup {w}}
      <4>1. file'[h][p] = file[h][p] \/ (p = w.part /\ file'[h][p] = file[h][p] \cup {w.nth})
        BY <2>2, <2>4 DEF PartlyWritten, Bytes
      <4> QED
        BY <2>2, <4>1
    <3>2. refused'[h] = refused[h] \cup {w} /\ accepted'[h] = accepted[h]
      BY <2>4 DEF TypeOK
    <3> HIDE DEF Old, New
    <3>3. New \subseteq Answered(h)'
      BY <1>2, <2>1, <3>1
    <3>4. \A v, u \in New \ refused'[h] : v = u
      BY <2>1, <3>1, <3>2
    <3>5. \A u \in accepted'[h] : u.part = p => New # {} /\ \A v \in New : <<v, u>> \notin order[h]
      BY <1>4, <2>1, <3>1, <3>2
    <3> QED
      BY <3>3, <3>4, <3>5 DEF New
  <2>5. \/ file' = [file EXCEPT ![h] = Written(@, w)] /\ accepted' = [accepted EXCEPT ![h] = @ \cup {w}]
           /\ UNCHANGED refused
        \/ /\ file'[h] \in PartlyWritten(file[h], w) /\ UNCHANGED accepted
           /\ refused' = [refused EXCEPT ![h] = @ \cup {w}]
    BY DEF WriteAt, PartlyWritten, TypeOK
  <2> QED
    BY <2>3, <2>4, <2>5
<1> QED
  BY <1>3, <1>6, <1>7 DEF FileAreWrites

(* What is sent is not answered yet, and changes no file. *)
LEMMA SendStep ==
  ASSUME IInv, NEW h \in Uploads, NEW w \in Writes, SendWrite(h, w)
  PROVE  FileAreWrites' /\ AnswersHold'
<1> USE DEF IInv
<1>1. /\ UNCHANGED <<file, accepted, refused>> /\ w \notin received[h] \cup Answered(h)
      /\ received' = [received EXCEPT ![h] = @ \cup {w}]
      /\ order' = [order EXCEPT ![h] = @ \cup (Answered(h) \X {w})]
  BY DEF SendWrite
<1>2. \A i \in Uploads : Answered(i)' = Answered(i)
  BY <1>1 DEF Answered
<1>3. AnswersHold'
  BY <1>1, <1>2 DEF AnswersHold, TypeOK
<1>4. ASSUME NEW i \in Uploads
      PROVE  AreWrites(i, file[i])'
  <2>1. \A v, u : <<v, u>> \in order'[i] => <<v, u>> \in order[i] \/ (i = h /\ u = w)
    BY <1>1 DEF TypeOK
  <2>2. w \notin accepted[h]
    BY <1>1 DEF Answered
  <2>3. AreWrites(i, file[i])
    BY DEF FileAreWrites
  <2> QED
    BY <1>1, <1>2, <2>1, <2>2, <2>3 DEF AreWrites
<1> QED
  BY <1>3, <1>4 DEF FileAreWrites

(* Neither a write nor an answer. *)
LEMMA NoWriteStep ==
  ASSUME IInv, UNCHANGED writes
  PROVE  FileAreWrites' /\ AnswersHold'
BY DEF IInv, writes, FileAreWrites, AnswersHold, AreWrites, Answered

(* What is stored. *)
LEMMA StoreStep ==
  ASSUME IInv, TypeOK', NEW h \in Uploads, state[h] = "uploading",
         Store(h) \/ UNCHANGED <<object, uploaded>>,
         state' = [state EXCEPT ![h] = "closed"],
         UNCHANGED <<settings, key, writes>>
  PROVE  StoredIsClosed' /\ FileWithinLimit' /\ StoredAreWrites' /\ StoredWithinLimit'
<1> USE DEF IInv, settings
<1>1. FileWithinLimit'
  BY DEF FileWithinLimit, writes
<1>2. ASSUME NEW k \in Keys, object'[k] # object[k]
      PROVE object'[k] = [by |-> h, parts |-> file[h]]
  BY <1>2 DEF Store, TypeOK
<1>3. \A k \in Keys : object[k] # NoObject => object[k].by \in Uploads /\ object[k].by # h
  BY ObjectFacts DEF StoredIsClosed
<1>4. StoredIsClosed'
  BY <1>2, <1>3 DEF StoredIsClosed, TypeOK
<1>5. StoredAreWrites'
  <2> SUFFICES ASSUME NEW k \in Keys, object'[k] # NoObject
               PROVE  AreWrites(object'[k].by, object'[k].parts)
    BY DEF StoredAreWrites, AreWrites, Answered, writes
  <2>1. CASE object'[k] = object[k]
    BY <2>1 DEF StoredAreWrites
  <2>2. CASE object'[k] # object[k]
    BY <1>2, <2>2 DEF FileAreWrites
  <2> QED
    BY <2>1, <2>2
<1>6. StoredWithinLimit'
  <2> SUFFICES ASSUME NEW k \in Keys, object'[k] # NoObject, maxFileSize' > 0,
                      NEW p \in Parts, object'[k].parts[p] # {}
               PROVE  p <= maxFileSize'
    BY DEF StoredWithinLimit
  <2>1. CASE object'[k] = object[k]
    BY <2>1 DEF StoredWithinLimit
  <2>2. CASE object'[k] # object[k]
    BY <1>2, <2>2 DEF FileWithinLimit
  <2> QED
    BY <2>1, <2>2
<1> QED
  BY <1>1, <1>4, <1>5, <1>6

(* Steps that store nothing, and answer no write of a closed upload. *)
LEMMA QuietStep ==
  ASSUME IInv, UNCHANGED <<object, maxFileSize>>,
         \A h \in Uploads : state[h] = "closed" =>
            /\ state'[h] = "closed" /\ order'[h] = order[h]
            /\ accepted'[h] = accepted[h] /\ refused'[h] = refused[h]
  PROVE  StoredIsClosed' /\ StoredAreWrites' /\ StoredWithinLimit'
<1> USE DEF IInv
<1>1. \A k \in Keys : object[k] # NoObject =>
         object[k].by \in Uploads /\ state[object[k].by] = "closed"
  BY ObjectFacts DEF StoredIsClosed
<1>2. StoredIsClosed'
  BY <1>1 DEF StoredIsClosed
<1>3. StoredAreWrites'
  BY <1>1 DEF StoredAreWrites, AreWrites, Answered
<1>4. StoredWithinLimit'
  BY DEF StoredWithinLimit
<1> QED
  BY <1>2, <1>3, <1>4

LEMMA InvariantStep == IInv /\ [Next]_vars => IInv'
<1> SUFFICES ASSUME IInv, [Next]_vars PROVE IInv'
  OBVIOUS
<1>0. TypeOK /\ TypeOK'
  BY TypeStep DEF IInv
<1>w. FileAreWrites' /\ AnswersHold'
  <2>1. \/ UNCHANGED writes
        \/ \E h \in Uploads, w \in Writes : SendWrite(h, w) \/ WriteAt(h, w)
    BY DEF Next, Client, Serve, Ended, Open, OpenFails, SendClose, Close, CloseNothing,
           UploadSucceeds, UploadFails, Disconnect, CancelContext, vars
  <2> QED
    BY <2>1, NoWriteStep, SendStep, WriteStep
<1>1. ASSUME NEW h \in Uploads, Open(h) PROVE IInv'
  <2>1. StoredIsClosed' /\ StoredAreWrites' /\ StoredWithinLimit'
    BY <1>0, <1>1, QuietStep DEF Open, settings, writes, TypeOK
  <2>2. FileWithinLimit' /\ UnopenedHasNoTemp' /\ ClosedIsStored'
    BY <1>0, <1>1 DEF Open, settings, writes, IInv, TypeOK, FileWithinLimit, UnopenedHasNoTemp,
                      ClosedIsStored
  <2> QED
    BY <1>0, <1>w, <2>1, <2>2 DEF IInv
<1>2. ASSUME NEW h \in Uploads, OpenFails(h) PROVE IInv'
  <2>1. StoredIsClosed' /\ StoredAreWrites' /\ StoredWithinLimit'
    BY <1>0, <1>2, QuietStep DEF OpenFails, settings, writes, TypeOK
  <2>2. FileWithinLimit' /\ UnopenedHasNoTemp' /\ ClosedIsStored'
    BY <1>0, <1>2 DEF OpenFails, settings, writes, IInv, TypeOK, FileWithinLimit, UnopenedHasNoTemp,
                      ClosedIsStored
  <2> QED
    BY <1>0, <1>w, <2>1, <2>2 DEF IInv
<1>3. ASSUME NEW h \in Uploads, SendClose(h) PROVE IInv'
  <2>1. StoredIsClosed' /\ StoredAreWrites' /\ StoredWithinLimit'
    BY <1>3, QuietStep DEF SendClose, settings, writes
  <2>2. FileWithinLimit' /\ UnopenedHasNoTemp' /\ ClosedIsStored'
    BY <1>3 DEF SendClose, settings, writes, IInv, FileWithinLimit, UnopenedHasNoTemp, ClosedIsStored
  <2> QED
    BY <1>0, <1>w, <2>1, <2>2 DEF IInv
<1>4. ASSUME NEW h \in Uploads, NEW w \in Writes, SendWrite(h, w) PROVE IInv'
  <2>1. StoredIsClosed' /\ StoredAreWrites' /\ StoredWithinLimit'
    BY <1>0, <1>4, QuietStep DEF SendWrite, settings, writes, TypeOK
  <2>2. FileWithinLimit' /\ UnopenedHasNoTemp' /\ ClosedIsStored'
    BY <1>4 DEF SendWrite, settings, IInv, FileWithinLimit, UnopenedHasNoTemp, ClosedIsStored
  <2> QED
    BY <1>0, <1>w, <2>1, <2>2 DEF IInv
<1>5. ASSUME NEW h \in Uploads, NEW w \in Writes, WriteAt(h, w) PROVE IInv'
  <2>1. StoredIsClosed' /\ StoredAreWrites' /\ StoredWithinLimit'
    BY <1>0, <1>5, QuietStep DEF WriteAt, settings, writes, TypeOK
  <2>2. FileWithinLimit'
    <3>1. \A i \in Uploads, p \in Parts : file'[i][p] # {} => file[i][p] # {} \/ (p = w.part /\ Fits(p))
      <4>1. \/ UNCHANGED file
            \/ Fits(w.part) /\ file' = [file EXCEPT ![h] = Written(@, w)]
            \/ Fits(w.part) /\ \E bytes \in PartlyWritten(file[h], w) : file' = [file EXCEPT ![h] = bytes]
        BY <1>5 DEF WriteAt
      <4> QED
        BY <1>0, <4>1 DEF Written, PartlyWritten, Bytes, TypeOK
    <3> QED
      BY <1>5, <3>1 DEF WriteAt, Fits, settings, IInv, FileWithinLimit
  <2>3. UnopenedHasNoTemp' /\ ClosedIsStored'
    BY <1>5 DEF WriteAt, settings, IInv, UnopenedHasNoTemp, ClosedIsStored
  <2> QED
    BY <1>0, <1>w, <2>1, <2>2, <2>3 DEF IInv
<1>6. ASSUME NEW h \in Uploads, Close(h) \/ CloseNothing(h) PROVE IInv'
  <2>1. StoredIsClosed' /\ StoredAreWrites' /\ StoredWithinLimit'
    BY <1>0, <1>6, QuietStep DEF Close, CloseNothing, settings, writes, TypeOK
  <2>2. FileWithinLimit' /\ UnopenedHasNoTemp'
    BY <1>0, <1>6 DEF Close, CloseNothing, settings, writes, IInv, TypeOK, FileWithinLimit,
                      UnopenedHasNoTemp
  <2>3. ClosedIsStored'
    BY <1>0, <1>6 DEF Close, CloseNothing, CloseIsHidden, settings, writes, IInv, TypeOK, ClosedIsStored
  <2> QED
    BY <1>0, <1>w, <2>1, <2>2, <2>3 DEF IInv
<1>7. ASSUME NEW h \in Uploads, UploadSucceeds(h) PROVE IInv'
  <2>1. StoredIsClosed' /\ FileWithinLimit' /\ StoredAreWrites' /\ StoredWithinLimit'
    BY <1>0, <1>7, StoreStep DEF UploadSucceeds, Finish
  <2>2. UnopenedHasNoTemp'
    BY <1>0, <1>7 DEF UploadSucceeds, Finish, TempAfterClose, IInv, TypeOK, UnopenedHasNoTemp
  <2>3. object'[key[h]] # NoObject /\ h \in uploaded' /\ uploaded \subseteq uploaded'
    BY <1>0, <1>7, NoObjectAssumption DEF UploadSucceeds, Store, TypeOK, Parts, Bytes
  <2>4. \A k \in Keys : object[k] # NoObject => object'[k] # NoObject
    BY <1>0, <1>7, NoObjectAssumption DEF UploadSucceeds, Store, TypeOK, Parts, Bytes
  <2>5. ClosedIsStored'
    BY <1>0, <1>7, <2>3, <2>4
    DEF UploadSucceeds, Finish, TempAfterClose, settings, IInv, TypeOK, ClosedIsStored
  <2> QED
    BY <1>0, <1>w, <2>1, <2>2, <2>5 DEF IInv
<1>8. ASSUME NEW h \in Uploads, UploadFails(h) PROVE IInv'
  <2>1. StoredIsClosed' /\ FileWithinLimit' /\ StoredAreWrites' /\ StoredWithinLimit'
    BY <1>0, <1>8, StoreStep DEF UploadFails, Finish
  <2>2. UnopenedHasNoTemp'
    BY <1>0, <1>8 DEF UploadFails, Finish, TempAfterClose, IInv, TypeOK, UnopenedHasNoTemp
  <2>3. uploaded \subseteq uploaded'
    BY <1>8 DEF UploadFails, Store
  <2>4. \A k \in Keys : object[k] # NoObject => object'[k] # NoObject
    BY <1>0, <1>8, NoObjectAssumption DEF UploadFails, Store, TypeOK, Parts, Bytes
  <2>5. ClosedIsStored'
    BY <1>0, <1>8, <2>3, <2>4
    DEF UploadFails, Finish, TempAfterClose, settings, IInv, TypeOK, ClosedIsStored
  <2> QED
    BY <1>0, <1>w, <2>1, <2>2, <2>5 DEF IInv
<1>9. CASE Disconnect \/ CancelContext \/ UNCHANGED vars
  <2>1. StoredIsClosed' /\ StoredAreWrites' /\ StoredWithinLimit'
    BY <1>9, QuietStep DEF Disconnect, CancelContext, vars, settings, writes
  <2>2. FileWithinLimit' /\ UnopenedHasNoTemp' /\ ClosedIsStored'
    BY <1>9 DEF Disconnect, CancelContext, vars, settings, writes, IInv, FileWithinLimit,
                UnopenedHasNoTemp, ClosedIsStored
  <2> QED
    BY <1>0, <1>w, <2>1, <2>2 DEF IInv
<1> QED
  BY <1>1, <1>2, <1>3, <1>4, <1>5, <1>6, <1>7, <1>8, <1>9
  DEF Next, Client, Serve, Ended

LEMMA InvariantHolds == Spec => []IInv
  BY InitHolds, InvariantStep, PTL DEF Spec

(* Every object has, part by part, what the client wrote to the file it    *)
(* was stored for and was told of: no write that was answered with success *)
(* is missing, and none is undone by one that had been answered before it  *)
(* was sent, for any writes in any order (s3Writer.WriteAt and Close).     *)
THEOREM StoredAsWritten == Spec => []StoredAreWrites
<1>1. IInv => StoredAreWrites
  BY DEF IInv
<1> QED
  BY InvariantHolds, <1>1, PTL

(* Nothing that is stored, from however many writes in whatever order, is  *)
(* past the user's size limit (s3Writer.WriteAt).                          *)
THEOREM LimitedUploads == Spec => []StoredWithinLimit
<1>1. IInv => StoredWithinLimit
  BY DEF IInv
<1> QED
  BY InvariantHolds, <1>1, PTL

(* The types of the upload's state; a request that is still to be run      *)
(* belongs to a file that is open.                                         *)
THEOREM UploadsTyped == Spec => []TypeOK
<1>1. IInv => TypeOK
  BY DEF IInv
<1> QED
  BY InvariantHolds, <1>1, PTL

(* A file of a user without a rate limit that was closed with success was  *)
(* stored, and none that was closed leaves its temporary file behind       *)
(* (s3Writer.Close).                                                       *)
THEOREM ClosedUploadsAreStored == Spec => []ClosedIsStored
<1>1. IInv => ClosedIsStored
  BY DEF IInv
<1> QED
  BY InvariantHolds, <1>1, PTL
=============================================================================
