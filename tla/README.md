# A TLA+ model of sftp2s3

sftp2s3 is an SFTP server whose files are objects in S3 buckets. This directory
models the parts of it whose correctness depends on order: commands made of many
S3 calls, listings and downloads of what changes meanwhile, connections that
meet reloads and a shutdown, uploads that are written by several requests at
once, blocks and cached keys that have to survive the process. The modules are translated from the Go source;
`PROJECT.json` maps each definition to the lines it stands for.

## 1. The system

| component | state it keeps | operations | interacts with |
|---|---|---|---|
| **File commands** `internal/sftphandlers/handlers.go` | none of its own but the progress of the command: what was listed, what is still to copy or delete | `Filecmd` (Rename, Copy, Remove/Rmdir, Mkdir, Setstat), `Filewrite` | one S3 call after another; every other session works on the same buckets |
| **Backends** `internal/storage` | name, bucket, prefix, timeout; the objects are S3's | `ObjectKey`, `DirPrefix`, `DeleteObject`, `DeletePrefix`, `ObjectExists`, `CopyObject`, `PrefixHasEntries` | S3 |
| **VFS, permissions** `internal/vfs`, `permissions.go` | the backends a session sees, each with its prefix; three booleans | `Filter`, `WithBackendPrefixes`, `Resolve`, `ParsePermissions` | made once for each connection, from the State it was given |
| **Uploads** `s3Writer`, `RateLimitedWriter` | temporary file, size, closed | `WriteAt`, `Close` | pkg/sftp's request server runs the writes of a file concurrently, and closes it |
| **Downloads, stat, listings** `s3Reader`, `Filelist`, `fileinfo.go` | the size found at open | `ReadAt`, `Filelist` | S3, read only |
| **Connection limiter** `UserConnLimiter` | limits and counts by user, under a mutex | `Acquire`, `Release`, `Update` | handlers of connections; the reload |
| **Rate registry** `UserRateRegistry` | a token bucket for each limited user | `Limiter`, `Update` | sessions keep the bucket they got; the reload |
| **Server** `internal/server/server.go` | current `State` (atomic), tracked connections, wait group | `Run`, `handleConn`, `handleChannel`, `connTracker` | all of the above |
| **Process** `cmd/sftp2s3/main.go` | context, reload goroutine | start, SIGHUP reload, SIGINT/SIGTERM | stores States, updates limiter and registry |
| **Auth failure tracker** `authfailures.go` | attempts and blocks by address, a state file | `Record`, `IsBlocked`, `Tarpit`, `save`, `load`, `Start` | authentication callbacks; the reload; a goroutine that saves |
| **Authentication** `auth.go`, `passhash.go`, `sshid.go`, `cache` | cached key files | checks, `Resolve` | start and reload |
| **Health monitor** `health.go`; **metrics** | last status; counters | `checkAll`; HTTP | the State of the start |
| **Configuration**, **host key** | none | load once | start and reload |

What makes it hard, and what has to be true all the same:

* *A command is many S3 calls.* Other sessions, failing calls, lost replies and
  retries come between any two of them. A rename must lose no content; a command
  that was answered with success must have had its whole effect; what fails must
  leave every object at its old key or its new one; and nothing may ever change
  outside the prefix, and without the permission, that a user has.
* *Facts go stale.* A rename copies what it listed a page at a time, asks again
  whether its source is a file, and then deletes by a listing of its own.
* *Connections have many ways to end*: refused in the handshake, refused by the
  limiter, hung up in any phase, closed by the shutdown. Each has to leave the
  limiter, the tracker and the wait group as it should.
* *A reload is three updates*, and a connection can come between any two of them.
* *A shutdown* must end although clients do nothing.
* *An upload* is acknowledged when its file is closed: from then on it must be in
  the bucket, whole, and within the size limit.
* *A listing, a stat and a download take several calls* while others store and
  delete: what may their answers be relied on for?
* *Two files outlive the process*: the failure tracker's state and the cached
  keys. The process may die at any step of writing them, and after a reload two
  trackers write the same file.
* *The health monitor* keeps the State of the start.

The full list, with lines, is under `hazards` in `PROJECT.json`.

## 2. The modules

```
Bucket ── Vfs ──────────────┐
   │                        │
   ├── FileCommands ── MCFileCommands ─┬ RenameHistory
   │        │                          └ NamespaceRefinement
   │        │                                  │ INSTANCE
   ├── Namespace ─────────────────────────────┘
   ├── Reads ── MCReads
   │     └───── ReadsProofs (EXTENDS BucketLemmas)
   └── BucketLemmas ── FileCommandsProofs (EXTENDS FileCommands)

ConnLimiter ── MCConnLimiter              Upload ── UploadProofs
   │    └───── ConnLimiterProofs
   └── INSTANCE in Server ── MCServer     AuthFailures ── AuthFailuresProofs
RateRegistry ── INSTANCE in Server
      Server ── ServerProofs

Keys, Health ── Reloads ── MCReloads
                   └────── KeysProofs
```

**Bucket.** A bucket is a partial function from keys to contents. Keys are
sequences of segments, with a segment 0 for what follows a last slash, so that
"a/b" and "a/b/" differ, prefixes with a slash are sequence prefixes, and "src"
is not a prefix of "srcx/". `ObjectKey` and `DirPrefix` are those of
`backend.go`, the empty relative path included. Listings return sorted pages
(`FirstKeys`, `Remaining`) of what the bucket holds at the time of the call.

**Vfs.** The VFS of a session as `handleConn` builds it: `Filter`, then
`WithBackendPrefixes` with the wildcard rule; and `ParsePermissions`.

**FileCommands.** One action for each S3 call of `Filecmd` and of the functions
below it; `pc[s]` names the next call.

| `pc` | action | code |
|---|---|---|
| `idle` | `Start` | the checks before the first call: permissions, `resolve`, the root |
| `exists` | `HeadSource` | `objectExists` of the source |
| `children` | `ProbeChildren` | `prefixHasEntries` |
| `placeholder` | `HeadPlaceholder` | the empty directory's placeholder |
| `list`, `copy` | `ListPage`, `CopyWithinBackend` | the loops of `sameBackendCopy` |
| `copy`, `upload` | `StreamGet`, `StreamPut` | `streamCopyObject`, between backends |
| `recheck` | `Recheck` | the second `objectExists` of a rename |
| `deleteObject` | `DeleteSource` | `deleteObject` |
| `deleteList`, `deleteBatch` | `DeleteList`, `DeleteBatch` | both loops of `DeletePrefix` |
| `put` | `Put` | Mkdir's placeholder; the upload of a closed file |

`Fail` is a call that had no effect (an S3 error, the backend's timeout, the
cancelled context); `LoseReply` is one that had, without the code knowing: the
S3 client repeats it or gives up. `RefuseKey` is S3's refusal of an empty key.
A session has one command at a time; the request server runs the commands of a
session one after the other. Contents are values, and the concatenations and
trims of strings are operations on sequences. Copying an object to itself may be
refused or accepted, as stores differ.

**Namespace** is the promise of the commands to a session that is alone on its
trees: a command is one step; success is the whole effect, an error a part of it
in which nothing is lost. **NamespaceRefinement** maps FileCommands to it, with
a history variable `before`, the buckets when the running command was sent.

**RenameHistory** adds to FileCommands, run by several sessions, what the others
have done to a session's trees: `touched[s]`, the objects that other sessions
stored, replaced or deleted since the running command of `s` was sent. It is what
a rename is judged by when others work in the directory that it moves.

**Reads** is one session that lists, asks for the status of paths, and
downloads, while others store and delete objects. `ListPage` is one page of
`listDirectory`, with its common prefixes and its `seen` map (`entries`);
`HeadObject` and `ProbeEntries` are the two calls of `statPath`; `OpenFile` is
`Fileread`, and `ReadAt` is `s3Reader.ReadAt`, which gets its range from the
object as it is now and cuts it off at the size found at the opening. A stored
object is a version and a number of parts. `ever` and `always` are history: what
was the case at some time, or all the time, since the request was sent; they are
what the answers are compared with.

**ConnLimiter** and **RateRegistry** are the two shared structures of
`ratelimit.go`. `holders`, the connections admitted and not released, is no
variable of the code: it is what the counts stand for. Buckets of the registry
are numbers, so that sharing one can be seen; tokens and time are left out.

**Server** composes both with the accept loop, the handlers, the goroutine that
closes the connections, and the reload. `phase[c]` follows a connection through
`handleConn`: `backlog`, `accepted`, `handshake`, `admit` (before `Acquire`),
`setup` (before `rateRegistry.Limiter`), `serving`, `leaving` (its deferred
calls). `servers[c]` counts the SFTP request servers of a connection, which
nobody waits for. A slot of `Conns` is used again once its connection is over, so
the number of connections in a behaviour is not bounded. `configs` is the
sequence of configurations loaded, and `current`, `limited` and `rated` say which
one the State, the limits and the rates are of; the reload moves them in the
order of `main.go`: limits, rates, State. The SSH handshake and authentication
are one nondeterministic step.

**Upload** has the files that one session writes. Parts 1..n of a file are
written in any order, several at a time, and again: a write is a part and a
number, and the temporary file has for each part the writes its bytes are from
(those of more than one only where a write failed half-way). `received` are the
writes that the request server has got and not run, `accepted` and `refused` those
it has answered, and `order` remembers which were answered before which others
were sent: that is all a client knows of its writes. `Closable` is what pkg/sftp guarantees about
closing (after the writes it has received; at the end of the session too);
`CloseIsHidden` is the effect of `RateLimitedWriter`, which has no `Close`.

**AuthFailures** has every failure tracker of a process, and of the processes
after it, with the files they save to. Trackers are numbered as `BuildState`
makes them; `current` is the one of the State, and a connection keeps the one it
was given. A remote is an address with its port, which is what the callbacks
pass on (`server.go:143`). An attempt is a record of its time and a number, which
keeps those of one moment apart. `Accept` and `Reject` are the callbacks of
`NewSSHServerConfig` with `IsBlocked` and `Record`; time is `now`, a few ticks.
`save` is `BeginSave` (pruning, with the lock held), `TakeLists` and
`EncodeAndOpen` (the encoding of both maps after the lock was released, and the
opening of the temporary file), `WriteTmp` and `RenameTmp`; files are objects of
their own with names that move, so that two savers with one `.tmp` meet as they
do on a disk. The attempts of a remote are a list, which `pruneAttemptsLocked`
filters in place and `append` extends in the same array: an encoder that has
taken a list reads an array that changes. `slots` has what each place of it has
held since, `Overwrite` is what `Record` does to it, and `EncodeAndOpen` picks any
of them for each place, so that a list may be written with one failure twice and
another not at all. The lists of all remotes are taken at one moment (no property
relates two remotes), and a time is read whole.
`BuildState`, `BuildFails` and `Install` are a reload: the new
tracker loads the file before the old one has saved for the last time. `Die` may
come at any step, and `Restart` after it. The history variables are `history`
(all failures), `doubled` (the remotes of which a failure was written twice),
`kept` (which blocks a finished save of the newest tracker holds) and
`overlapped` (a tracker began to save before those it replaced were done).

**Keys** is how `BuildState` comes to the keys of users with a name at sshid.io:
for one user after the other `ReadCache`, `Fetch` or `FetchFails`, and
`writeCache` in three steps. What sshid.io serves is a version, which may be
replaced (`Publish`). **Health** is the monitor: rounds (`BeginRound`, `Check` of
each backend in any order, `EndRound`), `/healthz` (`AllHealthy`) and the gauge.
**Reloads** composes the two with the life of the process: the first State
starts the monitor, a reload replaces the State and leaves the monitor alone,
and the process may die at any time and be started again.

A definition headed *Variant* is a slip that the definition after it could have
had. No specification uses it; the mutants of `PROJECT.json` put it in place of
the real one, and every property is shown to notice.

## 3. The runs

Runs that pass:

| run | instance | properties |
|---|---|---|
| `commands_faults` | one session, two commands out of 16 in a row, up to two faults, pages and batches of 2 keys, two initial trees (3 keys in the tree that is renamed, a file that is also a directory, an empty directory, a name that only starts alike) | `TypeOK`; `RemovedIsGone`; `RenameKeepsContent`; `Answered`; `ImplementsNamespace` |
| `commands_users` | three users on the same buckets at once, pages of one key, three commands, one fault, batches of which single keys may fail: one user confined by prefixes; one without read permission, who renames, deletes and uploads in the first one's tree; one that sees one backend only, and uploads to where the first one's files go | `WorkFitsCommand`: no key left over from an earlier phase; `ContentsHaveNames`; `ConfinedToGrant`; `UntouchedIsMoved`: what others left alone is at the target when a rename deletes it |
| `connlimiter` | two users, four connections, limits 0 to 2, any number of reloads | `TypeOK`; `CountsCovered`: no count is above the connections, so that no place is lost for ever; `CapForLimited` |
| `server_reload` | two slots, three configurations, two reloads | `PlacesAreSessions`; `SessionsWithinLimit`; `NewStateNewLimits`; `OneBucket` |
| `server_shutdown` | two slots, channels, a shutdown at any time | `TypeOK`; `DrainedIsEmpty`: when `Run` returns in time no handler runs, or will; `ShutdownEnds`; `PlacesComeBack` |
| `uploads` | two files to one key, two parts each, two writes each to the same part or to both, limits none and 1, one fault, the end of the session at any time, throttled and not | `TypeOK`; `StoredAreWrites`: what is stored agrees with what the client was answered; `StoredWithinLimit`; `ClosedIsStored`; `CloseIsAnswered` |
| `reads` | a directory in a prefix whose names are files, directories and both; pages of one entry; two stores or deletions by others; objects of up to two parts; read limits none and 1 | `TypeOK`; `ListingIsFaithful`: what stayed is listed, what is listed was there, nothing twice; `StatIsFaithful`; `DownloadIsFaithful`; `Answered` |
| `auth_failures` | one remote that fails up to five times, a block after four, two trackers (one reload or restart), a window of two ticks and a block of one, two ticks, a ticker that fires once besides the last saves, failing writes | `TypeOK`; `BlockedIsDeserved`: whichever trackers and files a block came through, the remote failed often enough for it, unless a failure was written twice; `SavedBlocksHold`; `BlockIsKept` |
| `reloads` | one name, a configuration with it twice and another with a backend more, two starts or reloads, a cache fresh for one tick of two, one change of the keys, one change of what is reachable, with and without a cache directory | `TypeOK`; `KeysWereServed`; `StaleOnlyIfFetchFailed`; `CacheSavesBuild`; `HealthSettles` |

Runs that are violated, each by what the code does:

| run | property | what it shows |
|---|---|---|
| `rename_nested` | `RenameKeepsContent` | a directory renamed into itself is copied and then deleted with its copies; the client is told that it went well |
| `shutdown_cuts` | `SessionsFinish` | README.md:298 says that a shutdown waits for sessions to finish; it closes their connections first |
| `upload_throttled` | `AcknowledgedIsStored` | a throttled user's upload is closed with success, and never stored: the writer that throttles hides `Close` |

**What the passing runs presuppose.** In `commands_faults` the source and the
target of a command are apart, S3 reports no errors for single keys, and one
session is alone. `commands_users` moves no file to the root of a backend (which
would give it the name of the prefix itself, with a slash at its end:
`ContentsHaveNames`), and source and target of each of its renames are apart.
`UntouchedIsMoved` excuses a rename for an object that another session has
touched since the command was sent: itself, its copy, or the object with the
directory's own name. Each of the three is needed, and happens in the run.
`server_reload` has no shutdown and `server_shutdown` no reload.
`ClosedIsStored` speaks of users who are not throttled. `SessionsWithinLimit`,
`CapForLimited` and `OneBucket` speak of users that every configuration limits,
or throttles: one whose limit was lifted for a time has connections that were
never counted, and can be admitted above it. `SavedBlocksHold` ends where a
tracker begins to save before those it replaced are done: what the old one saves
last is not in the new one, and may replace a newer file. `BlockedIsDeserved`
excuses remotes of which a save wrote a failure twice. In `reloads` each name
has a cache file of its own (`safeFileName` could give two names one file), a
file that is there can be read, and a tick is longer than the writing of a
file.

**Where code and documentation differ, without a run of their own.** These are
consequences of the code as modelled that the properties above step around:

* A file uploaded into a directory that is being renamed, after the last page was
  listed (`handlers.go:552`), is deleted by the listing of `DeletePrefix`
  without having been copied, although `handleRename` is to move the path
  (`handlers.go:493`). Where the path is a file and a directory at once, and
  another session removes the file before the rename asks for the second time
  (`handlers.go:545`), the whole directory is deleted and only the file was copied.
* `DeletePrefix` says that it removes all objects under a prefix
  (`operations.go:23`); `DeleteObjects` may succeed with errors for single keys,
  which are not looked at (`operations.go:46`).
* README.md:157 says that a user's connections share one throttle; after a
  reload without the rate (`ratelimit.go:111`) and one with it they do not.
* README.md:273 says that failures are tracked per source IP, and saved on
  shutdown: the address has its port (`server.go:143`), and `main` does not wait
  for the last save. With a save interval of 0 or less there is none
  (`authfailures.go:92`).
* README.md:273 says that a remote is blocked after `max_attempts` failures. The
  save encodes the lists after it has released the lock (`authfailures.go:226`),
  while `Record` filters them in place (`authfailures.go:156`). With four failures
  for a block: of the failures a, b, c in a list a and b become too old when d is
  recorded, which leaves c, d in the array and c at its third place; an encoder
  that had taken the list of three writes c, d, c. The process that loads it
  blocks the remote at its next failure, the third that counts. Without its
  exception for such remotes `BlockedIsDeserved` is violated at the bounds of
  `auth_failures`.
* README.md:101 says that keys are refreshed on startup and on SIGHUP: a fresh
  cache is used instead (`sshid.go:66`). `StaleOnlyIfFetchFailed` is the bound
  that the code keeps to.
* health.go:16-17 says that checks see the latest State after a reload; the
  monitor is given the State of the start (`main.go:169`). `HealthSettles` says
  what holds.

**Bounds.** All are named in the modules (`MaxCommands`, `MaxFaults`,
`MaxReloads`, `MaxChannels`, `MaxParts`, `MaxWrites`, `Stops`; `MaxSize`, `MaxChanges`;
`MaxTrackers`, `MaxTime`, `MaxFailures`, `MaxSaves`; `MaxVersions`, `MaxBuilds`,
`MaxFlips`) and bound steps of the environment only, clocks and tickers
included: what the code does once a step was taken is never cut off. Two
commands in a row are needed to see state left over from the first; two faults,
one after the other, in one command or in two; pages of one or two keys make a
tree of three span pages, with the last one full or not; two reloads are what it
takes to lift a limit and set it again, and to overtake a connection twice; two
connections and limits of 1 and 2 are a full limiter and one with room. Two
changes by others are a name that is replaced by another, or becomes a directory
after it was a file, between two pages or two reads. Three commands are a rename
and two others in its tree, of one user or of two. Two writes of a file are one
part written twice, or two parts of it. Two trackers are a replaced one that
still saves and one that saves with it, or one that loads what a process left;
that there may be more is a matter of the theorems. Four attempts are the least
of which three that were written, two of them the same one, and one more make a
block, and two ticks let some failures of a list become old while others count.
Remotes do not interact but through the moment at which a file is written.
Two builds are one that fills the cache and one that relies on it.

**Fairness.** `FileCommands`: weak fairness of each session's `Call`, since every
S3 call has a context with a timeout; `Reads`: the same, and a client need not
go on reading. `Upload`: of `Serve`, for the same reason and because the request
server runs what it has received. `Server`: of the accept loop (with `TimeOut`:
`time.After` fires), of the goroutine that closes, and of each handler, except
that a handshake is obliged to end only after its connection was closed: the
code sets no deadline for it. `Reloads`: of the monitor, whose ticker fires and
whose checks have timeouts; nobody needs to reload. Nothing is assumed of
clients and operators: they need not dial, hang up, write, close or signal.
`EndChannel` is not fair either, for the handlers do not depend on it.
AuthFailures has safety properties only, and no fairness.

Deadlock is checked but in `auth_failures` and `reloads`, where the process may
be down with all bounds used up.

Symmetry (`ConnsAreAlike`) is used in `connlimiter` and `server_reload`, which
check no liveness; nothing in those modules tells connections apart.

## 4. The proofs

Proved with TLAPS for all values of the constants that satisfy the assumptions
named in the modules (types of the parameters; `Conns`, and the users that a
configuration knows, finite; a bucket has a finite number of objects; page sizes
positive; the words that say how a build ended are no names). The bounds are
constants like the others: the theorems hold for all of them. Every invariant
that a run checks is proved, and every action property but `UntouchedIsMoved`;
three of them under the conditions that are said below, which the runs that check them have too.

Each theorem has the same argument: the initial states, one lemma for each action
or kind of action, and PTL. They differ in the strengthening that makes the
invariant inductive.

**FileCommandsProofs** (any sessions, users, trees, requests and failures)

* `NoEmptyKeys` (`TypeOK`) and `WorkIsInTree` (`WorkFitsCommand`). The
  conjunction is inductive, `TypeOK` alone is not: that no object gets an empty
  key, when a tree is copied, rests on the listed keys being strictly below the
  source directory.
* `Confinement` (`ConfinedToGrant`). From the invariant: keys to delete are the
  source key or below the source directory (`DeleteIsInside`), targets are
  at or below the target (`TargetIsAt`, from `RebaseIsIn`), and `Accepted` of the
  running command gives the permissions (`PermissionsHeld`). It holds for any
  prefixes, also for backends that share a bucket, and for per-key errors.
* `NamesArePreserved` (`ContentsHaveNames`), if no command renames or copies to
  the root of a backend, and every content has a name at first. Both are needed:
  a file that is moved to a root gets the name of the prefix, and what is copied
  keeps the end of its key. The invariant `NamesInv` adds that a command is one
  that was sent, and that what is about to be uploaded gets a name, or is empty.
* `RemovesAreComplete` (`RemovedIsGone`), if there is one session and a
  successful `DeleteObjects` deletes what it was given. Another session may store
  into the directory after it was listed, and a key that was kept is not looked
  at. `RemoveInv` says what a Remove knows at each of its calls: every key that
  is still below its directory is on the list, or comes after the last page
  (`PageIsFirst`).
* `RenamesLoseNothing` (`RenameKeepsContent`), if there is one session and the
  source and the target of each rename are apart (`RenamesApart`: neither is the
  other, or below it, in one bucket; `rename_nested` is what happens otherwise).
  Per-key errors, failures and repeated calls are allowed. `MoveInv`: the
  source stays what it was found to be until it is deleted, and each of its keys
  has its copy at its target, is on the page that is being copied, or comes after
  it. The lemmas `TargetApart`, `CopyingMoves` (a copy neither changes the source
  nor replaces another copy, from `RebaseApart`) and `DeletingMoves` carry it.

**ReadsProofs** (any directory, requests and changes by others)

* `ListingsAreFaithful`, `StatsAreFaithful`, `DownloadsAreFaithful` and
  `ReadsTyped`. The invariant ties the history to the bucket (`Witnessed`: what is
  the case now was so at some time, and what was so all the time is) and says of a
  listing that what stayed is named already, or comes after the last item of the
  page; of a stat, that what was not a file at the first call was not one all the
  time; of a download, that what is read of a file that stayed is its own.

**ConnLimiterProofs, ServerProofs**

* `CountsHold` (`CountsCovered`), `LimiterTyped` (`TypeOK`) and `LimitIsKept`
  (`CapForLimited`). A count that is covered does not bound the connections; the
  strengthening `CountsExact` says that the count of a user who is always limited
  is the number of his connections, and from it and `HasRoom` the cap follows.
* `PlacesHold` (`PlacesAreSessions`), `DrainHolds` (`DrainedIsEmpty`),
  `NewLimitsHold` (`NewStateNewLimits`) and `ServerTyped` (`TypeOK`), from one
  invariant: the wait group counts the running handlers, which are the tracked
  connections; the loop holds the accepted connection, so that draining cannot
  begin before it has a handler; and State, rates and limits are put in force in
  the order `current <= rated <= limited`, with what a handler was given below
  `current`.
* `LimitHolds` (`SessionsWithinLimit`) and `OneBucketHolds` (`OneBucket`), on top
  of it. The first needs that the count of an always limited user is exact and
  within some configuration's limit; the second that the registry gives each
  throttled user a bucket of his own, at his rate (`RegistryHolds`), and that an
  update keeps the bucket of who is still throttled (`RegistryUpdate`).

**UploadProofs**

* `StoredAsWritten` (`StoredAreWrites`), `LimitedUploads` (`StoredWithinLimit`),
  `UploadsTyped` (`TypeOK`) and `ClosedUploadsAreStored` (`ClosedIsStored`). The
  strengthening says of the temporary file what `StoredAreWrites` says of the
  object, after every write; that a write which is still to be run has not been
  answered, and so was not answered before any other was sent; that an object is of an
  upload that was closed, so that no later write or answer can change what it
  should contain; that every part in a temporary file got past the limit; and
  that an upload that was never opened has no temporary file.

**AuthFailuresProofs** (any remotes, windows, thresholds, trackers and deaths)

* `BlocksAreKept` (`BlockIsKept`): only callbacks that have found a remote not
  blocked, and savers that have found its block over, change an entry; and the
  trackers that are still to be built, whose maps a build fills, block nobody.
* `BlocksAreDeserved` (`BlockedIsDeserved`) and `TrackerTyped` (`TypeOK`), from
  `TypedInv`: whatever is in a list, in the image of a saver or in a file is
  `Sound`, that is, lists are of failures in the history only (each of them once,
  but for remotes in `doubled`) and too short for a block, and what is blocked was
  deserved at the moment of the last failure. What the encoder of a tracker may
  read from a place is in the history too (`EncodingHolds`), so that whatever it
  picks is sound (`PicksAreGood`). Soundness survives more failures and
  forgetting, which is what a save, a load and a death do; that filtering a list
  keeps it so is by the places its elements come from (`SublistPlaces`,
  `SublistIsGood`). A block is set at the moment of a failure, which counts also
  with a window of 0.
* `BlocksSurvive` (`SavedBlocksHold`), from `SavedInv`: as long as no tracker
  began to save before those it replaced were done, one saver at a time writes,
  through the temporary file it opened; what it encoded is in its tracker until
  it is over; and the state file, and every tracker that is used or will be
  saved, has what is kept.

**KeysProofs** (Keys and Health as Reloads runs them)

* `ServedKeysOnly` (`KeysWereServed`), `StaleKeysAreBounded`
  (`StaleOnlyIfFetchFailed`) and `CachedNamesResolve` (`CacheSavesBuild`). The
  invariant behind them: a cached file is a version that was being served when the
  file was written, which `mtime` tells; a temporary file that is about to be
  renamed has, whole, what was fetched; and nothing removes a file from the cache.
* `ProcessTyped` (`TypeOK`), with the invariant `TInv`: the monitor runs only
  once there is a State, and outside a round it has nothing left to check.

**BucketLemmas** states what the proofs need of keys: where `ObjectKey`,
`Placeholder` and `Rebase` lead, when a key is not empty, that two keys of a
directory stay different when they are rebased, and that `KeyLess` is a total
order in which every finite set has a first and a last key, so that a page is
what comes first (`PageIsFirst`). The order is by the first segment that differs;
that there is one is the least number principle, from `NatLessThanWellFounded`.

Model-checked only:

* liveness (`Answered` of both modules, `ShutdownEnds`, `PlacesComeBack`,
  `CloseIsAnswered`, `HealthSettles`), which is out of the reach of the prover's
  backends;
* the refinement `ImplementsNamespace`: its steps are safety and could be proved
  (`MoveInv` and `RemoveInv` are parts of the invariant it takes); that has not
  been done;
* `UntouchedIsMoved`, which is about several sessions in one tree;
  `RenamesLoseNothing` is about one.

## 5. What is not modelled

* The listing of the virtual root, which names the session's backends without a
  call, and `ListAt`, which copies slices of a finished listing.
* Passwords, key formats, hashes, metrics, logging, host keys, configuration
  parsing: sequential, and either cryptography or I/O. (`HasAnyPassword` looks at
  `password` and not at `password_hash`, `auth.go:72-80`: who may log in is not
  modelled.) What follows from an attempt that was accepted or rejected is.
* The tarpit's delay, and the throttling of reads, which only delay answers.
* Time, but for ticks in AuthFailures and Keys. Timeouts are failures that may
  come at any call; token buckets have an identity and a rate and no tokens; the
  shutdown timeout may expire at any time.
* The names of cache files, and the filter of keys by algorithm.
* S3 is strongly consistent, as AWS's is; a multipart upload takes effect at
  once. What a failed upload leaves in multipart storage is not visible in keys.
* `path.Clean` is not modelled: paths are what it produces, and names are never
  "..". The virtual root is a path of no backend.
* The fake S3 of the tests, which is no part of the program.

## 6. What could follow

1. *Backends in one bucket*: runs of FileCommands in which two prefixes of one
   bucket overlap, renames to the root, and renames of a file to itself where
   the store accepts such a copy.
2. *Refinements*: the steps of `ImplementsNamespace`, proved from an invariant
   that relates the buckets to those at the start of the command and to what is
   still pending; and that Server's limiter behaves as ConnLimiter.
3. *Tokens*: a bucket's burst against the sizes of reads and writes.
4. *Authentication with Reloads*: which keys a connection is let in by, with the
   State it was given.
