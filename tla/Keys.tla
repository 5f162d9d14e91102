--------------------------------- MODULE Keys ---------------------------------
(***************************************************************************)
(* How the server comes to a State (BuildState in internal/server), at the *)
(* start and at a reload, and to the keys of users that have them at       *)
(* sshid.io (internal/auth/sshid.go): a cache on disk that is used while   *)
(* it is fresh, a fetch when it is not, and the old cache when the fetch   *)
(* fails.  The process may die between any two steps.                      *)
(*                                                                         *)
(* What sshid.io serves for a name is a version, told from all others; the *)
(* empty list that stands for "not found" is one too.  Keys of the         *)
(* configuration itself, and the filter by algorithm, add to or select     *)
(* from a version and are left out.                                        *)
(***************************************************************************)
EXTENDS Naturals, Sequences

CONSTANTS
  Names,        \* names at sshid.io; each has a file of its own
  Configs,      \* what config.Load may return: records whose field users is
                \* the sequence of the names of the users that have one
  NoConfig,
  Ttl,          \* how long a cache is fresh, in ticks
  MaxTime,      \* bound: ticks
  MaxVersions,  \* bound: changes of what sshid.io serves for a name
  MaxBuilds     \* bound: starts and reloads in a behaviour

ASSUME KeysAssumption ==
  /\ \A c \in Configs : c.users \in Seq(Names)
  /\ NoConfig \notin Configs
  /\ Ttl \in Nat /\ MaxTime \in Nat /\ MaxVersions \in Nat /\ MaxBuilds \in Nat

(* What `outcome` may be besides a name is none. *)
ASSUME NamesAssumption == Names \cap {"none", "built", "other"} = {}

VARIABLES
  now,
  replaced,   \* replaced[n][v + 1]: when version v of n was replaced
  caching,    \* there is a cache_dir
  phase,      \* what the process does: "down", "serving", or a step of a build
  builds,
  config,     \* the configuration of the build
  keys,       \* what has been found for the first users of config
  data,       \* the version that was fetched
  state,      \* the State: a configuration and the keys of its users
  cache,      \* cache[n]: the file of n
  tmp,        \* tmp[n]: the file that will replace it
  cachedOnce, \* the names that have had a file
  outcome     \* how the last build ended: "none", "built", "other", or the
              \* name whose keys it could not have

internet == <<now, replaced>>
build == <<caching, phase, builds, config, keys, data, state, outcome>>
files == <<cache, tmp, cachedOnce>>
keysVars == <<internet, build, files>>

Torn == MaxVersions + 1
Version(n) == Len(replaced[n])
Versions == 0 .. MaxVersions
File == [data : Versions \cup {Torn}, mtime : 0 .. MaxTime]
NoFile == [data |-> Torn, mtime |-> MaxTime + 1]
NoState == [config |-> NoConfig, keys |-> <<>>]
Found == [data : Versions \cup {Torn}, at : 0 .. MaxTime, failed : BOOLEAN]

KeysInit ==
  /\ now = 0 /\ replaced = [n \in Names |-> <<>>]
  /\ caching \in BOOLEAN
  /\ phase = "down" /\ builds = 0
  /\ config = NoConfig /\ keys = <<>> /\ data = 0
  /\ state = NoState /\ outcome = "none"
  /\ cache = [n \in Names |-> NoFile] /\ tmp = [n \in Names |-> NoFile]
  /\ cachedOnce = {}
-----------------------------------------------------------------------------
(* The world. *)

(* A tick is long: a fetch that was answered is done with within one. *)
Tick ==
  /\ now < MaxTime /\ phase \notin {"open", "write", "rename"}
  /\ now' = now + 1
  /\ UNCHANGED <<replaced, build, files>>

Publish(n) ==
  /\ Version(n) < MaxVersions
  /\ replaced' = [replaced EXCEPT ![n] = Append(@, now)]
  /\ UNCHANGED <<now, build, files>>
-----------------------------------------------------------------------------
(* BuildState. *)

(* main at the start, or when it gets SIGHUP.  (If config.Load fails,      *)
(* nothing has changed.)                                                   *)
Begin(c) ==
  /\ phase \in {"down", "serving"}
  /\ builds < MaxBuilds /\ builds' = builds + 1
  /\ phase' = "resolve" /\ config' = c /\ outcome' = "none"
  /\ UNCHANGED <<internet, caching, keys, data, state, files>>

(* Variant: main goes on without a State. *)
PhaseAfterFailureServing == "serving"

(* The first build ends the process, another leaves it with the old State. *)
PhaseAfterFailure == IF state = NoState THEN "down" ELSE "serving"

GiveUp(why) ==
  /\ phase' = PhaseAfterFailure
  /\ keys' = <<>> /\ data' = 0 /\ config' = NoConfig /\ outcome' = why
  /\ UNCHANGED <<internet, caching, builds, state, files>>

(* What is done before the keys and after them: the host key, the          *)
(* backends, the file of the failure tracker, the SSH configuration.       *)
OtherFailure ==
  /\ phase = "resolve" /\ Len(keys) \in {0, Len(config.users)}
  /\ GiveUp("other")

Complete ==
  /\ phase = "resolve" /\ Len(keys) = Len(config.users)
  /\ state' = [config |-> config, keys |-> keys]
  /\ phase' = "serving" /\ outcome' = "built"
  /\ keys' = <<>> /\ data' = 0 /\ config' = NoConfig
  /\ UNCHANGED <<internet, caching, builds, files>>

Die ==
  /\ phase # "down"
  /\ phase' = "down" /\ state' = NoState
  /\ keys' = <<>> /\ data' = 0 /\ config' = NoConfig /\ outcome' = "none"
  /\ UNCHANGED <<internet, caching, builds, files>>
-----------------------------------------------------------------------------
(* Resolve, for one user after the other. *)

Name == config.users[Len(keys) + 1]

(* The next user has keys: those of version v. *)
Take(v, fetchFailed) ==
  /\ keys' = Append(keys, [data |-> v, at |-> now, failed |-> fetchFailed])
  /\ phase' = "resolve" /\ data' = 0
  /\ UNCHANGED <<internet, caching, builds, config, state, outcome>>

(* Variant: a file is good for ever. *)
FreshAlways(n) == caching /\ cache[n] # NoFile

Fresh(n) == caching /\ cache[n] # NoFile /\ now <= cache[n].mtime + Ttl

(* Variant: what is no longer fresh is removed. *)
CacheAfterMissRemoved(n) == [cache EXCEPT ![n] = NoFile]

CacheAfterMiss(n) == cache

(* readCache.  (A file that is there can be read.) *)
ReadCache ==
  /\ phase = "resolve" /\ Len(keys) < Len(config.users)
  /\ \/ Fresh(Name) /\ Take(cache[Name].data, FALSE) /\ UNCHANGED files
     \/ /\ ~ Fresh(Name)
        /\ phase' = "fetch" /\ cache' = CacheAfterMiss(Name)
        /\ UNCHANGED <<internet, caching, builds, config, keys, data, state, outcome, tmp, cachedOnce>>

Fetch ==
  /\ phase = "fetch"
  /\ \/ ~ caching /\ Take(Version(Name), FALSE) /\ UNCHANGED files
     \/ /\ caching
        /\ phase' = "open" /\ data' = Version(Name)
        /\ UNCHANGED <<internet, caching, builds, config, keys, state, outcome, files>>

(* readCacheStale, or the end of the build. *)
FetchFails ==
  /\ phase = "fetch"
  /\ \/ /\ caching /\ cache[Name] # NoFile
        /\ Take(cache[Name].data, TRUE) /\ UNCHANGED files
     \/ /\ ~ caching \/ cache[Name] = NoFile
        /\ GiveUp(Name)

(* Variant: the file is written in place. *)
CacheAfterOpenInPlace(n) == [cache EXCEPT ![n] = [data |-> Torn, mtime |-> now]]

CacheAfterOpen(n) == cache

(* writeCache: os.WriteFile empties the temporary file, or makes it, ... *)
OpenTmp ==
  /\ phase = "open" /\ phase' = "write"
  /\ tmp' = [tmp EXCEPT ![Name] = [data |-> Torn, mtime |-> now]]
  /\ cache' = CacheAfterOpen(Name)
  /\ UNCHANGED <<internet, caching, builds, config, keys, data, state, outcome, cachedOnce>>

(* ... and writes it. *)
WriteTmp ==
  /\ phase = "write" /\ phase' = "rename"
  /\ tmp' = [tmp EXCEPT ![Name] = [data |-> data, mtime |-> now]]
  /\ UNCHANGED <<internet, caching, builds, config, keys, data, state, outcome, cache, cachedOnce>>

RenameTmp ==
  /\ phase = "rename"
  /\ cache' = [cache EXCEPT ![Name] = tmp[Name]]
  /\ tmp' = [tmp EXCEPT ![Name] = NoFile]
  /\ cachedOnce' = cachedOnce \cup {Name}
  /\ Take(data, FALSE)

(* Any of them fails: the keys are used all the same. *)
WriteFails ==
  /\ phase \in {"open", "write", "rename"}
  /\ Take(data, FALSE)
  /\ UNCHANGED files

Resolve == ReadCache \/ Fetch \/ FetchFails \/ OpenTmp \/ WriteTmp \/ RenameTmp \/ WriteFails
-----------------------------------------------------------------------------
(* Properties.                                                             *)

KeysTypeOK ==
  /\ now \in 0 .. MaxTime
  /\ \A n \in Names : replaced[n] \in Seq(0 .. MaxTime) /\ Version(n) \in Versions
  /\ caching \in BOOLEAN /\ builds \in 0 .. MaxBuilds
  /\ phase \in {"down", "serving", "resolve", "fetch", "open", "write", "rename"}
  /\ config \in Configs \cup {NoConfig} /\ (config = NoConfig <=> phase \in {"down", "serving"})
  /\ keys \in Seq(Found) /\ data \in Versions
  /\ config # NoConfig => Len(keys) <= Len(config.users)
  /\ state.config \in Configs \cup {NoConfig} /\ state.keys \in Seq(Found)
  /\ state # NoState => Len(state.keys) = Len(state.config.users)
  /\ phase = "serving" => state # NoState
  /\ cache \in [Names -> File \cup {NoFile}] /\ tmp \in [Names -> File \cup {NoFile}]
  /\ cachedOnce \subseteq Names
  /\ outcome \in Names \cup {"none", "built", "other"}

(* The time until which version v of n was served. *)
ServedUntil(n, v) == IF v < Version(n) THEN replaced[n][v + 1] ELSE now

(* Whoever is given a State finds in it, for each user, a list of keys     *)
(* that sshid.io has served for that user's name, and has served whole: by *)
(* whatever failures of writes and ends of the process the cache came to   *)
(* be what it is.                                                          *)
KeysWereServed ==
  \A i \in 1 .. Len(state.keys) :
    state.keys[i].data \in 0 .. Version(state.config.users[i])

(* A build that could fetch the keys of a user uses none that had been     *)
(* replaced for longer than a cache is fresh.                              *)
StaleOnlyIfFetchFailed ==
  \A i \in 1 .. Len(state.keys) :
    state.keys[i].failed
      \/ state.keys[i].at <= ServedUntil(state.config.users[i], state.keys[i].data) + Ttl

(* "falls back to a cached copy when the remote endpoint is unreachable"   *)
(* (Resolve): a name that was cached once never makes a start or a reload  *)
(* fail again, however old its file, and at whichever step the process     *)
(* died since.                                                             *)
CacheSavesBuild == caching => outcome \notin cachedOnce
=============================================================================
