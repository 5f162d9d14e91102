---------------------------- MODULE AuthFailures ----------------------------
(***************************************************************************)
(* The tracker of authentication failures (internal/auth/authfailures.go), *)
(* the callbacks that ask it (NewSSHServerConfig), the file that keeps its *)
(* state, and the life of the process: a reload makes a new tracker from   *)
(* the file while the old one still saves, and the process may die between *)
(* any two steps.                                                          *)
(*                                                                         *)
(* Trackers are numbered as they are built.  Each has a goroutine that     *)
(* saves it, from time to time and a last time when its context is done;   *)
(* all of them write the same temporary file and rename it.                *)
(*                                                                         *)
(* A save encodes the maps after it has released the lock, and the lists   *)
(* of failures are filtered in place meanwhile: a saved list may have one  *)
(* failure twice.  A failure is its time, with a number that tells it from *)
(* others of the same remote.                                              *)
(***************************************************************************)
EXTENDS Naturals, Sequences, FiniteSets, FiniteSetsExt

CONSTANTS
  Remotes,        \* the addresses, with ports, that connections come from
  MaxAttempts,    \* the failures that make a block
  Window,         \* how long a failure counts, in ticks
  BlockDuration,  \* how long a block lasts, in ticks
  MaxTrackers,    \* bound: trackers built in a behaviour
  MaxTime,        \* bound: ticks
  MaxFailures,    \* bound: failures of a remote in a behaviour
  MaxSaves        \* bound: times that a ticker fires in a behaviour

ASSUME ParametersAssumption ==
  /\ MaxAttempts \in Nat \ {0} /\ Window \in Nat /\ BlockDuration \in Nat
  /\ MaxTrackers \in Nat \ {0} /\ MaxTime \in Nat /\ MaxFailures \in Nat
  /\ MaxSaves \in Nat

VARIABLES
  now,
  running,    \* the process runs
  newest,     \* the tracker built last
  current,    \* the tracker of the State that connections are given
  attempts,   \* attempts[t][r]: the list of failures of r that t knows of
  blocked,    \* blocked[t][r]: until when r is blocked; 0 is not
  conn,       \* conn[r]: the tracker that the connection from r was given
  saves,      \* there is a state file, and an interval for saving it
  fired,      \* how often a ticker has fired
  cancelled,  \* the trackers whose context is done
  saver,      \* saver[t]: where the goroutine of t is
  final,      \* the trackers that save for the last time
  image,      \* image[t]: what t has encoded
  slots,      \* slots[t][r][i]: what the i-th place of the list of r has held, for the encoder of t
  reading,    \* reading[t]: the remotes whose list is still where the encoder of t reads
  fd,         \* fd[t]: the file t has open
  content,    \* content[f]: Torn, or an image
  tmp,        \* the file called state_file.tmp
  stateFile,  \* the file called state_file
  history,    \* history[r]: all failures of r
  doubled,    \* the remotes of which a list was encoded with one failure twice
  kept,       \* kept[r]: until when r is blocked by what has been saved
  overlapped  \* two trackers have saved at the same time

process == <<running, newest, current, saves>>
trackers == <<attempts, blocked>>
savers == <<fired, cancelled, saver, final, image, fd>>
encoding == <<slots, reading, doubled>>
disk == <<content, tmp, stateFile>>
record == <<kept, overlapped>>
vars == <<now, process, trackers, conn, savers, encoding, disk, history, record>>

Trackers == 1 .. MaxTrackers
NoTracker == 0
Files == 1 .. MaxTrackers + 2
NoFile == 0
Torn == [attempts |-> <<>>, blocked |-> <<>>]
Nothing == [attempts |-> [r \in Remotes |-> <<>>], blocked |-> [r \in Remotes |-> 0]]

(* Goroutines that have not returned. *)
Alive(t) == saver[t] \notin {"none", "ended"}
-----------------------------------------------------------------------------
(* The tracker. *)

(* The part of a list that is at the places in K, in its order. *)
Sublist(list, K) ==
  [k \in 1 .. Cardinality(K) |->
     list[CHOOSE i \in K : Cardinality({j \in K : j <= i}) = k]]

(* Variant: failures count for ever. *)
RecentFailuresAll(list) == list

(* pruneAttemptsLocked. *)
RecentFailures(list) == Sublist(list, {i \in 1 .. Len(list) : now < list[i].when + Window})

(* IsBlocked. *)
IsBlocked(t, r) == now < blocked[t][r]

(* Variant: the entry is compared the wrong way round. *)
UnexpiredInverted(until) == IF until <= now THEN until ELSE 0

Unexpired(until) == IF now < until THEN until ELSE 0

(* Variant: one failure more. *)
CrossesLater(list) == Len(list) > MaxAttempts

Crosses(list) == Len(list) >= MaxAttempts

StillValid(list) == Sublist(list, {i \in 1 .. Len(list) : now <= list[i].when + Window})

(* load: what a tracker starts with. *)
Loaded ==
  IF stateFile = NoFile \/ content[stateFile] = Torn THEN Nothing
  ELSE [attempts |-> [r \in Remotes |-> StillValid(content[stateFile].attempts[r])],
        blocked  |-> [r \in Remotes |-> Unexpired(content[stateFile].blocked[r])]]

(* NewFailureTracker, as number t. *)
Build(t) ==
  /\ attempts' = [attempts EXCEPT ![t] = Loaded.attempts]
  /\ blocked' = [blocked EXCEPT ![t] = Loaded.blocked]
  /\ newest' = t

Discard(T) ==
  /\ attempts' = [t \in Trackers |-> IF t \in T THEN Nothing.attempts ELSE attempts[t]]
  /\ blocked' = [t \in Trackers |-> IF t \in T THEN Nothing.blocked ELSE blocked[t]]

(* Start: without a file or an interval there is no goroutine, and nothing *)
(* is saved at the end either.                                             *)
StartSaver(t) == saver' = [saver EXCEPT ![t] = IF saves THEN "idle" ELSE "ended"]

Init ==
  /\ now = 0
  /\ running = TRUE /\ newest = 1 /\ current = 1
  /\ attempts = [t \in Trackers |-> Nothing.attempts]
  /\ blocked = [t \in Trackers |-> Nothing.blocked]
  /\ conn = [r \in Remotes |-> 1]
  /\ saves \in BOOLEAN
  /\ fired = 0 /\ cancelled = {}
  /\ saver = [t \in Trackers |-> IF t > 1 THEN "none" ELSE IF saves THEN "idle" ELSE "ended"]
  /\ final = {}
  /\ image = [t \in Trackers |-> Nothing]
  /\ slots = [t \in Trackers |-> Nothing.attempts]
  /\ reading = [t \in Trackers |-> {}] /\ doubled = {}
  /\ fd = [t \in Trackers |-> NoFile]
  /\ content = [f \in Files |-> Torn]
  /\ tmp = NoFile /\ stateFile = NoFile
  /\ history = [r \in Remotes |-> {}]
  /\ kept = Nothing.blocked
  /\ overlapped = FALSE

Tick ==
  /\ now < MaxTime
  /\ now' = now + 1
  /\ UNCHANGED <<process, trackers, conn, savers, encoding, disk, history, record>>
-----------------------------------------------------------------------------
(* Connections and the callbacks of NewSSHServerConfig. *)

(* A connection keeps the State, and its tracker, that it was given.  The  *)
(* one from r is over, and another comes.                                  *)
Connect(r) ==
  /\ running /\ conn[r] # current
  /\ conn' = [conn EXCEPT ![r] = current]
  /\ UNCHANGED <<now, process, trackers, savers, encoding, disk, history, record>>

(* The credentials match: an old block is forgotten. *)
Accept(r) ==
  LET t == conn[r] IN
  /\ running /\ ~ IsBlocked(t, r)
  /\ blocked' = [blocked EXCEPT ![t][r] = 0]
  /\ conn' = [conn EXCEPT ![r] = current]
  /\ UNCHANGED <<now, process, attempts, savers, encoding, disk, history, record>>

(* The array of r's list is overwritten, while t's encoder reads it: those *)
(* kept move to the front, and the new failure comes after them.  The next *)
(* list has another array once nothing was kept, or r was blocked, and may *)
(* have one when it gets longer.                                           *)
Overwrite(t, r, recent, list) ==
  IF r \notin reading[t] THEN UNCHANGED <<slots, reading>>
  ELSE
    /\ slots' = IF recent = <<>> THEN slots
                ELSE [slots EXCEPT ![t][r] =
                        [i \in 1 .. Len(@) |-> @[i] \cup {list[j] : j \in {i} \cap (1 .. Len(list))}]]
    /\ \E moved \in BOOLEAN :
         /\ recent = <<>> \/ Crosses(list) => moved
         /\ moved => recent = <<>> \/ Crosses(list) \/ Len(list) > Len(slots[t][r])
         /\ reading' = IF moved THEN [reading EXCEPT ![t] = @ \ {r}] ELSE reading

(* They do not: Record.  (A blocked remote is refused, after the tarpit's  *)
(* delay, and nothing changes.  A connection's attempts come one after the *)
(* other, and no other connection has its address and port: nobody else    *)
(* touches r's entries between IsBlocked and Record but a saver, who takes *)
(* away what counts no more.)                                              *)
Reject(r) ==
  LET t == conn[r]
      recent == RecentFailures(attempts[t][r])
      failure == [when |-> now, nth |-> Cardinality(history[r]) + 1]
      list == Append(recent, failure)
  IN
  /\ running /\ ~ IsBlocked(t, r)
  /\ Cardinality(history[r]) < MaxFailures
  /\ history' = [history EXCEPT ![r] = @ \cup {failure}]
  /\ attempts' = [attempts EXCEPT ![t][r] = IF Crosses(list) THEN <<>> ELSE list]
  /\ blocked' = [blocked EXCEPT ![t][r] = IF Crosses(list) THEN now + BlockDuration ELSE 0]
  /\ Overwrite(t, r, recent, list)
  /\ UNCHANGED <<now, process, conn, savers, doubled, disk, record>>
-----------------------------------------------------------------------------
(* save, called by the goroutine of tracker t. *)

Goto(t, pc) == saver' = [saver EXCEPT ![t] = pc]

(* With the lock, what is old goes. *)
BeginSave(t) ==
  /\ saver[t] = "idle" /\ Goto(t, "encode")
  /\ attempts' = [attempts EXCEPT ![t] = [r \in Remotes |-> RecentFailures(@[r])]]
  /\ blocked' = [blocked EXCEPT ![t] = [r \in Remotes |-> Unexpired(@[r])]]
  /\ IF \E u \in Trackers : u < t /\ Alive(u)
     THEN overlapped' = TRUE /\ kept' = Nothing.blocked
     ELSE UNCHANGED record
  /\ UNCHANGED <<now, process, conn, cancelled, image, encoding, fd, disk, history>>

(* The ticker fires ... *)
SaveNow(t) ==
  /\ fired < MaxSaves /\ fired' = fired + 1
  /\ BeginSave(t) /\ UNCHANGED final

(* ... or the context is done. *)
SaveAtTheEnd(t) ==
  /\ t \in cancelled /\ final' = final \cup {t}
  /\ BeginSave(t) /\ UNCHANGED fired

InUse == {tmp, stateFile} \cup {fd[t] : t \in Trackers}

(* Variant: the state file is written in place. *)
TargetInPlace == IF stateFile = NoFile THEN tmp ELSE stateFile

(* The file that os.WriteFile finds under the name, if there is one. *)
Target == tmp

(* Without the lock the maps are encoded, the attempts first: the encoder  *)
(* takes the lists, that is where they are and how long, ...               *)
TakeLists(t) ==
  /\ saver[t] = "encode" /\ Goto(t, "read")
  /\ slots' = [slots EXCEPT ![t] =
                 [r \in Remotes |-> [i \in 1 .. Len(attempts[t][r]) |-> {attempts[t][r][i]}]]]
  /\ reading' = [reading EXCEPT ![t] = Remotes]
  /\ UNCHANGED <<now, process, trackers, conn, fired, cancelled, final, image, fd, doubled, disk,
                 history, record>>

(* The functions that have an element of f[x] for every x. *)
Picks(f) ==
  {g \in [DOMAIN f -> UNION {f[x] : x \in DOMAIN f}] : \A x \in DOMAIN f : g[x] \in f[x]}

HasTwice(list) == \E i, j \in 1 .. Len(list) : i # j /\ list[i] = list[j]

(* ... reads each place of them at some moment, and the blocks as they are *)
(* by now: what other connections have changed meanwhile is among them.    *)
(* (The runtime may also notice, and end the process: Die.)  Then          *)
(* os.WriteFile opens the temporary file: it is emptied, or made, ...      *)
EncodeAndOpen(t) ==
  LET f == IF Target = NoFile THEN Min(Files \ InUse) ELSE Target IN
  /\ saver[t] = "read" /\ Goto(t, "write")
  /\ \E lists \in Picks([r \in Remotes |-> Picks(slots[t][r])]) :
       /\ image' = [image EXCEPT ![t] = [attempts |-> lists, blocked |-> blocked[t]]]
       /\ doubled' = doubled \cup {r \in Remotes : HasTwice(lists[r])}
  /\ slots' = [slots EXCEPT ![t] = Nothing.attempts]
  /\ reading' = [reading EXCEPT ![t] = {}]
  /\ fd' = [fd EXCEPT ![t] = f]
  /\ tmp' = IF f = stateFile THEN tmp ELSE f
  /\ content' = [content EXCEPT ![f] = Torn]
  /\ UNCHANGED <<now, process, trackers, conn, fired, cancelled, final, stateFile, history, record>>

(* ... and written, in one call.  JSON ends with its first value: what a   *)
(* longer text of another tracker leaves behind it is not read.            *)
WriteTmp(t) ==
  /\ saver[t] = "write" /\ Goto(t, "rename")
  /\ content' = [content EXCEPT ![fd[t]] = image[t]]
  /\ fd' = [fd EXCEPT ![t] = NoFile]
  /\ UNCHANGED <<now, process, trackers, conn, fired, cancelled, final, image, encoding, tmp, stateFile,
                 history, record>>

AfterSave(t) == IF t \in final THEN "ended" ELSE "idle"

EndSave(t) ==
  /\ Goto(t, AfterSave(t))
  /\ image' = [image EXCEPT ![t] = Nothing]
  /\ final' = final \ {t}
  /\ UNCHANGED <<now, process, trackers, conn, fired, cancelled, encoding, history, overlapped>>

(* The disk is full, say. *)
WriteFails(t) ==
  /\ saver[t] = "write"
  /\ EndSave(t)
  /\ fd' = [fd EXCEPT ![t] = NoFile]
  /\ UNCHANGED <<disk, kept>>

(* os.Rename. *)
RenameTmp(t) ==
  /\ saver[t] = "rename" /\ tmp # NoFile
  /\ stateFile' = tmp /\ tmp' = NoFile
  /\ kept' = IF t = newest /\ ~ overlapped
             THEN [r \in Remotes |-> Max({kept[r], image[t].blocked[r]})] ELSE kept
  /\ content' = [f \in Files |-> IF f \in {tmp} \cup {fd[u] : u \in Trackers}
                                 THEN content[f] ELSE Torn]
  /\ EndSave(t)
  /\ UNCHANGED fd

(* Another tracker has renamed the file already. *)
RenameFails(t) ==
  /\ saver[t] = "rename" /\ tmp = NoFile
  /\ EndSave(t)
  /\ UNCHANGED <<disk, fd, kept>>

SaverStep(t) ==
  \/ TakeLists(t) \/ EncodeAndOpen(t) \/ WriteTmp(t) \/ WriteFails(t) \/ RenameTmp(t) \/ RenameFails(t)
-----------------------------------------------------------------------------
(* The process. *)

(* SIGHUP: BuildState loads the file ... *)
BuildState ==
  /\ running /\ newest = current /\ newest < MaxTrackers
  /\ Build(newest + 1)
  /\ UNCHANGED <<now, running, current, saves, conn, savers, encoding, disk, history, record>>

(* ... and fails later (the keys of a user cannot be read), ... *)
BuildFails ==
  /\ running /\ newest # current
  /\ Discard({newest})
  /\ newest' = current
  /\ UNCHANGED <<now, running, current, saves, conn, savers, encoding, disk, history, record>>

(* ... or main ends the old goroutine, starts the new one and stores the   *)
(* State.  (A connection that comes in between is like one that had come   *)
(* before: it has the old State.)                                          *)
Install ==
  /\ running /\ newest # current
  /\ cancelled' = cancelled \cup {current}
  /\ StartSaver(newest)
  /\ current' = newest
  /\ UNCHANGED <<now, running, newest, saves, trackers, conn, fired, final, image, fd,
                 encoding, disk, history, record>>

(* SIGTERM: every context is done.  Nothing waits for the last save. *)
Terminate ==
  /\ running /\ ~ Trackers \subseteq cancelled
  /\ cancelled' = Trackers
  /\ UNCHANGED <<now, process, trackers, conn, fired, saver, final, image, fd, encoding, disk,
                 history, record>>

(* main returns, or the process is killed. *)
Die ==
  /\ running /\ running' = FALSE
  /\ Discard(Trackers)
  /\ conn' = [r \in Remotes |-> NoTracker]
  /\ cancelled' = {} /\ final' = {}
  /\ saver' = [t \in Trackers |-> "none"]
  /\ image' = [t \in Trackers |-> Nothing]
  /\ slots' = [t \in Trackers |-> Nothing.attempts] /\ reading' = [t \in Trackers |-> {}]
  /\ fd' = [t \in Trackers |-> NoFile]
  /\ content' = [f \in Files |-> IF f = stateFile THEN content[f] ELSE Torn]
  /\ UNCHANGED <<now, newest, current, saves, fired, doubled, tmp, stateFile, history, record>>

Restart ==
  /\ ~ running /\ newest < MaxTrackers
  /\ running' = TRUE
  /\ Build(newest + 1)
  /\ current' = newest + 1
  /\ StartSaver(newest + 1)
  /\ conn' = [r \in Remotes |-> newest + 1]
  /\ UNCHANGED <<now, saves, fired, cancelled, final, image, fd, encoding, disk, history, record>>
-----------------------------------------------------------------------------
Next ==
  \/ Tick
  \/ \E r \in Remotes : Connect(r) \/ Accept(r) \/ Reject(r)
  \/ \E t \in Trackers : SaveNow(t) \/ SaveAtTheEnd(t) \/ SaverStep(t)
  \/ BuildState \/ BuildFails \/ Install
  \/ Terminate \/ Die \/ Restart

Spec == Init /\ [][Next]_vars
-----------------------------------------------------------------------------
(* Properties.                                                             *)

Failures == [when : 0 .. MaxTime, nth : 1 .. MaxFailures]

Lists(S) == {list \in Seq(S) : Len(list) < MaxAttempts}

Image == [attempts : [Remotes -> Lists(Failures)],
          blocked : [Remotes -> 0 .. MaxTime + BlockDuration]]

TypeOK ==
  /\ now \in 0 .. MaxTime
  /\ {running, saves, overlapped} \subseteq BOOLEAN
  /\ current \in Trackers /\ newest \in {current, current + 1} \cap Trackers
  /\ \A t \in Trackers : [attempts |-> attempts[t], blocked |-> blocked[t]] \in Image
  /\ slots \in [Trackers -> [Remotes -> Lists(SUBSET Failures)]]
  /\ reading \in [Trackers -> SUBSET Remotes] /\ doubled \subseteq Remotes
  /\ conn \in [Remotes -> 0 .. newest]
  /\ fired \in 0 .. MaxSaves
  /\ cancelled \subseteq Trackers /\ final \subseteq Trackers
  /\ saver \in [Trackers -> {"none", "idle", "encode", "read", "write", "rename", "ended"}]
  /\ image \in [Trackers -> Image]
  /\ fd \in [Trackers -> Files \cup {NoFile}]
  /\ content \in [Files -> Image \cup {Torn}]
  /\ {tmp, stateFile} \subseteq Files \cup {NoFile}
  /\ history \in [Remotes -> SUBSET Failures]
  /\ kept \in [Remotes -> 0 .. MaxTime + BlockDuration]

(* The failures of r that counted at time x: one of that moment does, also *)
(* with a window of nothing.                                               *)
FailuresBy(r, x) ==
  {f \in history[r] : f.when = x \/ (f.when <= x /\ x < f.when + Window)}

(* No remote is blocked that has not failed as often as it takes, within   *)
(* the window, whichever trackers counted it and through whatever files:   *)
(* unless a file had one of its failures twice, which an encoder that runs *)
(* beside Record may have written.                                         *)
BlockedIsDeserved ==
  \A t \in Trackers, r \in Remotes : (blocked[t][r] # 0 /\ r \notin doubled) =>
    Cardinality(FailuresBy(r, blocked[t][r] - BlockDuration)) >= MaxAttempts

(* A tracker never drops, or shortens, a block that is in force. *)
BlockIsKept ==
  [][\A t \in Trackers, r \in Remotes :
       (now < blocked[t][r] /\ running' /\ t <= newest')
         => blocked'[t][r] = blocked[t][r]]_vars

(* "State is persisted ... so blocks survive restarts" (README), as far as *)
(* it goes: as long as no tracker began to save before those that it       *)
(* replaced were done, a block that the newest tracker of a time had saved *)
(* is in force in every later one, at whichever step the process died.     *)
SavedBlocksHold ==
  (running /\ ~ overlapped) =>
    \A r \in Remotes : now < kept[r] => blocked[newest][r] = kept[r]
=============================================================================
