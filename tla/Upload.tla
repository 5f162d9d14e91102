------------------------------- MODULE Upload -------------------------------
(***************************************************************************)
(* Uploads (Filewrite and s3Writer in internal/sftphandlers, and the       *)
(* writer that throttles them in internal/ratelimit).  A client opens a    *)
(* file, writes parts of it in any order and closes it; the parts go to a  *)
(* temporary file, and closing it uploads that file in one piece.  The     *)
(* request server of pkg/sftp runs the writes of a file concurrently, lets *)
(* none of them overlap the closing, and closes what is still open when    *)
(* the session ends, whatever the reason.                                  *)
(*                                                                         *)
(* A client may write a part again, also before the first write is         *)
(* answered: writes of a part are told apart by numbers, and of each part  *)
(* of a file it is known which writes its bytes are from.                  *)
(***************************************************************************)
EXTENDS Naturals, FiniteSets

CONSTANTS
  Uploads,      \* the files that the client opens for writing
  Keys,         \* the object keys they are uploaded to
  NoObject,
  MaxParts,     \* bound: a file has parts 1..MaxParts, of equal size
  MaxWrites,    \* bound: writes of a file
  MaxFileSizes, \* the sizes to which files may be limited, in parts; 0 is no limit
  MaxFaults     \* bound: S3 calls and local writes that fail

ASSUME NoObjectAssumption ==
  NoObject \notin [by : Uploads, parts : [1 .. MaxParts -> SUBSET (1 .. MaxWrites)]]
ASSUME BoundAssumption ==
  MaxParts \in Nat /\ MaxWrites \in Nat /\ MaxFaults \in Nat /\ MaxFileSizes \subseteq Nat

VARIABLES
  maxFileSize,  \* the limit for this user
  rateLimited,  \* this user's transfers are throttled
  connected,    \* the session goes on
  ctxDone,      \* its context is cancelled: S3 calls fail
  state,        \* state[h]: "none", "open", "uploading", "closed"
  key,          \* key[h]: where h goes to
  received,     \* received[h]: the writes that were received and are to be run
  file,         \* file[h][p]: whose bytes part p of the temporary file has
  accepted,     \* accepted[h]: the writes answered with success
  refused,      \* refused[h]: the writes answered with an error
  order,        \* order[h]: <<v, w>> if v was answered before w was sent
  temp,         \* the uploads whose temporary file exists
  closing,      \* the uploads that the client asked to close
  answer,       \* answer[h]: how that was answered
  object,       \* object[k]: the upload and the parts stored under k
  uploaded,     \* the uploads that were stored at some time
  faults

settings == <<maxFileSize, rateLimited>>
session  == <<connected, ctxDone>>
writes   == <<received, file, accepted, refused, order>>
vars == <<settings, session, state, key, writes, temp, closing, answer, object, uploaded, faults>>

Parts == 1 .. MaxParts
Writes == [part : Parts, nth : 1 .. MaxWrites]
Bytes == [Parts -> SUBSET (1 .. MaxWrites)]

Answered(h) == accepted[h] \cup refused[h]

Init ==
  /\ maxFileSize \in MaxFileSizes
  /\ rateLimited \in BOOLEAN
  /\ connected = TRUE /\ ctxDone = FALSE
  /\ state = [h \in Uploads |-> "none"]
  /\ key \in [Uploads -> Keys]
  /\ received = [h \in Uploads |-> {}]
  /\ file = [h \in Uploads |-> [p \in Parts |-> {}]]
  /\ accepted = [h \in Uploads |-> {}]
  /\ refused = [h \in Uploads |-> {}]
  /\ order = [h \in Uploads |-> {}]
  /\ temp = {}
  /\ closing = {}
  /\ answer = [h \in Uploads |-> "none"]
  /\ object = [k \in Keys |-> NoObject]
  /\ uploaded = {}
  /\ faults = 0

Fault == faults < MaxFaults /\ faults' = faults + 1
-----------------------------------------------------------------------------
(* Filewrite.  (Whether the session may write there is a matter of         *)
(* FileCommands.)                                                          *)
Open(h) ==
  /\ connected /\ state[h] = "none"
  /\ state' = [state EXCEPT ![h] = "open"]
  /\ temp' = temp \cup {h}
  /\ UNCHANGED <<settings, session, key, writes, closing, answer,
                 object, uploaded, faults>>

(* The temporary file cannot be created. *)
OpenFails(h) ==
  /\ connected /\ state[h] = "none"
  /\ Fault
  /\ state' = [state EXCEPT ![h] = "closed"]
  /\ answer' = [answer EXCEPT ![h] = "error"]
  /\ UNCHANGED <<settings, session, key, writes, temp, closing,
                 object, uploaded>>

(* The client writes a part, for the first time or again; it may send      *)
(* several writes before an answer.                                        *)
SendWrite(h, w) ==
  /\ connected /\ state[h] = "open" /\ h \notin closing
  /\ LET sent == received[h] \cup Answered(h) IN
     w \notin sent /\ Cardinality(sent) < MaxWrites /\ \A n \in 1 .. w.nth - 1 : [w EXCEPT !.nth = n] \in sent
  /\ received' = [received EXCEPT ![h] = @ \cup {w}]
  /\ order' = [order EXCEPT ![h] = @ \cup (Answered(h) \X {w})]
  /\ UNCHANGED <<settings, session, state, key, file, accepted, refused, temp, closing, answer,
                 object, uploaded, faults>>

(* Variant: the part's own length is left out. *)
FitsWithItsStart(p) == maxFileSize > 0 => p - 1 <= maxFileSize

Fits(p) == maxFileSize > 0 => p <= maxFileSize

(* Variant: bytes are written where the last write ended, which is after   *)
(* the parts that are there.                                               *)
WrittenAtTheEnd(bytes, w) ==
  LET there == {p \in Parts : bytes[p] # {}} IN
  [bytes EXCEPT ![IF there = Parts THEN w.part ELSE Cardinality(there) + 1] = {w.nth}]

(* os.File.WriteAt: the bytes get to their place. *)
Written(bytes, w) == [bytes EXCEPT ![w.part] = {w.nth}]

(* It fails: none of them get there, or some, before an error.             *)
PartlyWritten(bytes, w) == {bytes, [bytes EXCEPT ![w.part] = @ \cup {w.nth}]}

(* s3Writer.WriteAt, under the writer's lock.  Of the writes received any  *)
(* may be the next.                                                        *)
WriteAt(h, w) ==
  /\ w \in received[h] /\ state[h] = "open"
  /\ received' = [received EXCEPT ![h] = @ \ {w}]
  /\ \/ /\ Fits(w.part)
        /\ file' = [file EXCEPT ![h] = Written(@, w)]
        /\ accepted' = [accepted EXCEPT ![h] = @ \cup {w}]
        /\ UNCHANGED <<refused, faults>>
     \/ /\ Fits(w.part) /\ Fault
        /\ \E bytes \in PartlyWritten(file[h], w) : file' = [file EXCEPT ![h] = bytes]
        /\ refused' = [refused EXCEPT ![h] = @ \cup {w}]
        /\ UNCHANGED accepted
     \/ /\ ~ Fits(w.part)
        /\ refused' = [refused EXCEPT ![h] = @ \cup {w}]
        /\ UNCHANGED <<file, accepted, faults>>
  /\ UNCHANGED <<settings, session, state, key, order, temp, closing, answer, object, uploaded>>
-----------------------------------------------------------------------------
(* The client asks to close. *)
SendClose(h) ==
  /\ connected /\ state[h] = "open" /\ h \notin closing
  /\ closing' = closing \cup {h}
  /\ UNCHANGED <<settings, session, state, key, writes, temp, answer,
                 object, uploaded, faults>>

(* The connection is lost, or the client ends the session. *)
Disconnect ==
  /\ connected
  /\ connected' = FALSE
  /\ UNCHANGED <<settings, ctxDone, state, key, writes, temp, closing,
                 answer, object, uploaded, faults>>

(* connCancel, as soon as the connection's end has been noticed. *)
CancelContext ==
  /\ ~ connected /\ ~ ctxDone
  /\ ctxDone' = TRUE
  /\ UNCHANGED <<settings, connected, state, key, writes, temp, closing,
                 answer, object, uploaded, faults>>

(* Variant: closing does not wait for the writes. *)
ClosableAtOnce(h) == h \in closing \/ ~ connected

(* Variant: a file that has lost a write stays open. *)
ClosableUnlessRefused(h) ==
  /\ received[h] = {} /\ refused[h] = {}
  /\ h \in closing \/ ~ connected

(* The request server closes a file after the writes it has received, when *)
(* the client asks for it or when the session has ended.                   *)
Closable(h) ==
  /\ received[h] = {}
  /\ h \in closing \/ ~ connected

(* RateLimitedWriter has no Close: the writer inside is never closed, and  *)
(* the request server has nothing to do.                                   *)
CloseIsHidden == rateLimited

CloseNothing(h) ==
  /\ state[h] = "open" /\ Closable(h) /\ CloseIsHidden
  /\ state' = [state EXCEPT ![h] = "closed"]
  /\ answer' = [answer EXCEPT ![h] = "ok"]
  /\ UNCHANGED <<settings, session, key, writes, temp, closing,
                 object, uploaded, faults>>

(* s3Writer.Close: the upload begins ... *)
Close(h) ==
  /\ state[h] = "open" /\ Closable(h) /\ ~ CloseIsHidden
  /\ state' = [state EXCEPT ![h] = "uploading"]
  /\ UNCHANGED <<settings, session, key, writes, temp, closing, answer,
                 object, uploaded, faults>>

Store(h) ==
  /\ object' = [object EXCEPT ![key[h]] = [by |-> h, parts |-> file[h]]]
  /\ uploaded' = uploaded \cup {h}

(* Variant: the temporary file is removed after a success. *)
RemoveTempOnSuccess(h, a) == IF a = "ok" THEN temp \ {h} ELSE temp

TempAfterClose(h, a) == temp \ {h}

Finish(h, a) ==
  /\ state' = [state EXCEPT ![h] = "closed"]
  /\ answer' = [answer EXCEPT ![h] = a]
  /\ temp' = TempAfterClose(h, a)

(* ... and succeeds, ... *)
UploadSucceeds(h) ==
  /\ state[h] = "uploading" /\ ~ ctxDone
  /\ Store(h)
  /\ Finish(h, "ok")
  /\ UNCHANGED <<settings, session, key, writes, closing, faults>>

(* ... or fails: an error, the backend's timeout, or the context.  S3 may  *)
(* have stored the object all the same.                                    *)
UploadFails(h) ==
  /\ state[h] = "uploading"
  /\ IF ctxDone THEN UNCHANGED faults ELSE Fault
  /\ Store(h) \/ UNCHANGED <<object, uploaded>>
  /\ Finish(h, "error")
  /\ UNCHANGED <<settings, session, key, writes, closing>>
-----------------------------------------------------------------------------
Serve(h) ==
  \/ \E w \in Writes : WriteAt(h, w)
  \/ Close(h) \/ CloseNothing(h)
  \/ UploadSucceeds(h) \/ UploadFails(h)

Client(h) ==
  \/ Open(h) \/ OpenFails(h) \/ SendClose(h)
  \/ \E w \in Writes : SendWrite(h, w)

Ended ==
  /\ ctxDone /\ \A h \in Uploads : state[h] \in {"none", "closed"}
  /\ UNCHANGED vars

Next ==
  \/ \E h \in Uploads : Client(h) \/ Serve(h)
  \/ Disconnect \/ CancelContext
  \/ Ended

Spec == Init /\ [][Next]_vars

(* Whatever the client does, the request server runs what it has received, *)
(* and an upload ends when the backend's timeout does.                     *)
FairSpec == Spec /\ \A h \in Uploads : WF_vars(Serve(h))
-----------------------------------------------------------------------------
(* Properties.                                                             *)

TypeOK ==
  /\ maxFileSize \in MaxFileSizes
  /\ {rateLimited, connected, ctxDone} \subseteq BOOLEAN
  /\ state \in [Uploads -> {"none", "open", "uploading", "closed"}]
  /\ key \in [Uploads -> Keys]
  /\ {received, accepted, refused} \subseteq [Uploads -> SUBSET Writes]
  /\ file \in [Uploads -> Bytes] /\ order \in [Uploads -> SUBSET (Writes \X Writes)]
  /\ temp \subseteq Uploads /\ closing \subseteq Uploads /\ uploaded \subseteq Uploads
  /\ answer \in [Uploads -> {"none", "ok", "error"}]
  /\ object \in [Keys -> {NoObject} \cup [by : Uploads, parts : Bytes]]
  /\ faults \in 0 .. MaxFaults
  /\ \A h \in Uploads : state[h] # "open" => received[h] = {}

(* Bytes of h, as to the client's writes and their answers.  A part has    *)
(* bytes of writes of that part, of one only or of failed ones too; where  *)
(* a write succeeded there are bytes, and none of a write that had been    *)
(* answered before that one was sent.                                      *)
AreWrites(h, bytes) ==
  \A p \in Parts :
    LET Writers == {[part |-> p, nth |-> n] : n \in bytes[p]} IN
    /\ Writers \subseteq Answered(h)
    /\ \A v, w \in Writers \ refused[h] : v = w
    /\ \A w \in accepted[h] : w.part = p =>
         Writers # {} /\ \A v \in Writers : <<v, w>> \notin order[h]

(* What is stored is what the client has written and been told of, its     *)
(* last word where it said several, although the writes of a file run in   *)
(* any order and closing uploads whatever is there (s3Writer).             *)
StoredAreWrites ==
  \A k \in Keys : object[k] # NoObject => AreWrites(object[k].by, object[k].parts)

(* No object is larger than its user's limit (s3Writer.WriteAt). *)
StoredWithinLimit ==
  \A k \in Keys : (object[k] # NoObject /\ maxFileSize > 0) =>
    \A p \in Parts : object[k].parts[p] # {} => p <= maxFileSize

(* A file that was closed with success, and not throttled, was stored, and *)
(* only a later upload can have taken its place; no upload leaves its      *)
(* temporary file behind, however it ended (the deferred os.Remove).       *)
ClosedIsStored ==
  \A h \in Uploads : (state[h] = "closed" /\ ~ rateLimited) =>
    /\ answer[h] = "ok" => h \in uploaded /\ object[key[h]] # NoObject
    /\ h \notin temp

(* "uploads the result to S3 on close" (handlers.go): what is closed with  *)
(* success was stored.                                                     *)
AcknowledgedIsStored ==
  \A h \in Uploads : (h \in closing /\ answer[h] = "ok") => h \in uploaded

(* Every file that was opened is closed, once the session ends or the      *)
(* client asks for it.                                                     *)
CloseIsAnswered ==
  \A h \in Uploads :
    (state[h] = "open" /\ (h \in closing \/ ~ connected)) ~> (state[h] = "closed")
=============================================================================
