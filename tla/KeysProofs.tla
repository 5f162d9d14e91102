------------------------------ MODULE KeysProofs ------------------------------
(***************************************************************************)
(* The keys of sshid.io, for any names, configurations and times, and any  *)
(* number of starts, reloads and deaths of the process.                    *)
(*                                                                         *)
(* A cached file is a version that was served, and still was at the time   *)
(* of the file: nothing else is ever renamed to it.  From that follow what *)
(* a State may hold and when the cache may be missing.                     *)
(*                                                                         *)
(* The types of the process come last: they rest on what is known of the   *)
(* build, and those of the monitor on its being off while there is no      *)
(* State.                                                                  *)
(***************************************************************************)
EXTENDS Reloads, SequenceTheorems, TLAPS

Served(n, v) == v \in 0 .. Version(n)

InternetTypes ==
  /\ now \in 0 .. MaxTime
  /\ replaced \in [Names -> Seq(Nat)]

IsFile(f) == f \in [data : Nat, mtime : Nat]

(* What is cached was served when it was written, and what was once cached *)
(* is there.                                                               *)
FilesHold ==
  /\ cache \in [Names -> [data : Nat, mtime : Nat]]
  /\ tmp \in [Names -> [data : Nat, mtime : Nat]]
  /\ \A n \in Names : cache[n] # NoFile =>
       Served(n, cache[n].data) /\ cache[n].mtime <= ServedUntil(n, cache[n].data)
  /\ cachedOnce \subseteq {n \in Names : cache[n] # NoFile}

(* Keys that a State may hold for name n. *)
GoodFor(n, k) ==
  /\ k \in [data : Nat, at : Nat, failed : BOOLEAN]
  /\ Served(n, k.data)
  /\ k.failed \/ k.at <= ServedUntil(n, k.data) + Ttl

GoodKeys(c, ks) ==
  /\ ks \in Seq([data : Nat, at : Nat, failed : BOOLEAN])
  /\ Len(ks) <= Len(c.users)
  /\ \A i \in 1 .. Len(ks) : GoodFor(c.users[i], ks[i])

Writing == phase \in {"open", "write", "rename"}
Working == Writing \/ phase \in {"resolve", "fetch"}

(* The build, and the version it has fetched and is about to cache.        *)
BuildHolds ==
  /\ Working => /\ config \in Configs /\ GoodKeys(config, keys)
                /\ outcome = "none"
  /\ Working /\ phase # "resolve" => Len(keys) < Len(config.users)
  /\ Writing => Served(Name, data) /\ now <= ServedUntil(Name, data)
  /\ phase = "rename" => tmp[Name] = [data |-> data, mtime |-> now]
  /\ ~ Working => keys = <<>>

StateHolds == state = NoState \/ (state.config \in Configs /\ GoodKeys(state.config, state.keys))

IInv == InternetTypes /\ FilesHold /\ BuildHolds /\ StateHolds /\ CacheSavesBuild
-----------------------------------------------------------------------------
LEMMA UsersAreNames ==
  ASSUME NEW c \in Configs
  PROVE  /\ c.users \in Seq(Names) /\ Len(c.users) \in Nat
         /\ \A i \in 1 .. Len(c.users) : c.users[i] \in Names
<1>1. c.users \in Seq(Names)
  BY KeysAssumption
<1> QED
  BY <1>1, LenProperties, ElementOfSeq

LEMMA InitHolds == Init => IInv
<1> SUFFICES ASSUME Init PROVE IInv
  OBVIOUS
<1> USE DEF Init, KeysInit
<1>1. MaxTime \in Nat /\ MaxVersions \in Nat
  BY KeysAssumption
<1>2. InternetTypes
  <2>1. <<>> \in Seq(Nat)
    OBVIOUS
  <2> QED
    BY <1>1, <2>1 DEF InternetTypes
<1>3. FilesHold
  BY <1>1 DEF FilesHold, NoFile, Torn
<1>4. BuildHolds /\ StateHolds
  BY DEF BuildHolds, StateHolds, Working, Writing
<1>5. CacheSavesBuild
  BY DEF CacheSavesBuild
<1> QED
  BY <1>2, <1>3, <1>4, <1>5 DEF IInv
-----------------------------------------------------------------------------
(* Time goes on and new versions are served: what was served was served,   *)
(* and for no shorter time.                                                *)
LEMMA ServedLonger ==
  ASSUME InternetTypes, Tick \/ \E n \in Names : Publish(n)
  PROVE  /\ InternetTypes'
         /\ \A n \in Names, v \in Nat : Served(n, v) =>
              /\ Served(n, v)'
              /\ ServedUntil(n, v) \in Nat /\ ServedUntil(n, v)' \in Nat
              /\ ServedUntil(n, v) <= ServedUntil(n, v)'
<1>0. MaxTime \in Nat /\ now \in Nat
  BY KeysAssumption DEF InternetTypes
<1>1. CASE Tick
  <2>1. now' = now + 1 /\ now < MaxTime /\ replaced' = replaced
    BY <1>1 DEF Tick
  <2>2. InternetTypes'
    BY <1>0, <2>1 DEF InternetTypes
  <2>3. ASSUME NEW n \in Names, NEW v \in Nat, Served(n, v)
        PROVE  /\ Served(n, v)'
               /\ ServedUntil(n, v) \in Nat /\ ServedUntil(n, v)' \in Nat
               /\ ServedUntil(n, v) <= ServedUntil(n, v)'
    <3>1. replaced[n] \in Seq(Nat) /\ Len(replaced[n]) \in Nat
      BY LenProperties DEF InternetTypes
    <3>2. v < Len(replaced[n]) => replaced[n][v + 1] \in Nat
      BY <3>1, ElementOfSeq
    <3> QED
      BY <1>0, <2>1, <2>3, <3>1, <3>2 DEF Served, ServedUntil, Version
  <2> QED
    BY <2>2, <2>3
<1>2. ASSUME NEW m \in Names, Publish(m)
      PROVE  /\ InternetTypes'
             /\ \A n \in Names, v \in Nat : Served(n, v) =>
                  /\ Served(n, v)'
                  /\ ServedUntil(n, v) \in Nat /\ ServedUntil(n, v)' \in Nat
                  /\ ServedUntil(n, v) <= ServedUntil(n, v)'
  <2>1. now' = now /\ replaced' = [replaced EXCEPT ![m] = Append(@, now)]
    BY <1>2 DEF Publish
  <2>2. replaced[m] \in Seq(Nat)
    BY DEF InternetTypes
  <2>3. /\ Append(replaced[m], now) \in Seq(Nat)
        /\ Len(replaced[m]) \in Nat
        /\ Len(Append(replaced[m], now)) = Len(replaced[m]) + 1
        /\ \A i \in 1 .. Len(replaced[m]) : Append(replaced[m], now)[i] = replaced[m][i]
        /\ Append(replaced[m], now)[Len(replaced[m]) + 1] = now
    BY <1>0, <2>2, AppendProperties, LenProperties
  <2>4. InternetTypes'
    BY <2>1, <2>3 DEF InternetTypes
  <2>5. ASSUME NEW n \in Names, NEW v \in Nat, Served(n, v)
        PROVE  /\ Served(n, v)'
               /\ ServedUntil(n, v) \in Nat /\ ServedUntil(n, v)' \in Nat
               /\ ServedUntil(n, v) <= ServedUntil(n, v)'
    <3>1. replaced[n] \in Seq(Nat) /\ Len(replaced[n]) \in Nat
      BY LenProperties DEF InternetTypes
    <3>2. v < Len(replaced[n]) => replaced[n][v + 1] \in Nat
      BY <3>1, ElementOfSeq
    <3>3. replaced'[n] = IF n = m THEN Append(replaced[m], now) ELSE replaced[n]
      BY <2>1 DEF InternetTypes
    <3>4. v <= Len(replaced[n])
      BY <2>5, <3>1 DEF Served, Version
    <3>5. v < Len(replaced[n]) => replaced'[n][v + 1] = replaced[n][v + 1]
      BY <2>3, <3>1, <3>3
    <3>6. v < Len(replaced[n]) => v < Len(replaced'[n])
      BY <2>3, <3>1, <3>3
    <3>7. v = Len(replaced[n]) /\ n = m => v < Len(replaced'[n]) /\ replaced'[n][v + 1] = now
      BY <2>3, <3>1, <3>3
    <3>8. v <= Len(replaced'[n]) /\ Len(replaced'[n]) \in Nat
      BY <2>3, <3>1, <3>3, <3>4
    <3> QED
      BY <1>0, <2>1, <3>1, <3>2, <3>3, <3>4, <3>5, <3>6, <3>7, <3>8
         DEF Served, ServedUntil, Version
  <2> QED
    BY <2>4, <2>5
<1> QED
  BY <1>1, <1>2

(* So what was good for a user still is. *)
LEMMA GoodForLonger ==
  ASSUME InternetTypes, Tick \/ \E n \in Names : Publish(n),
         NEW c \in Configs, NEW ks, GoodKeys(c, ks)
  PROVE  GoodKeys(c, ks)'
<1>1. Ttl \in Nat
  BY KeysAssumption
<1>2. ks \in Seq([data : Nat, at : Nat, failed : BOOLEAN]) /\ Len(ks) \in Nat /\ Len(ks) <= Len(c.users)
  BY LenProperties DEF GoodKeys
<1>3. SUFFICES ASSUME NEW i \in 1 .. Len(ks) PROVE GoodFor(c.users[i], ks[i])'
  BY <1>2 DEF GoodKeys
<1>4. c.users[i] \in Names
  BY <1>2, UsersAreNames
<1>5. GoodFor(c.users[i], ks[i])
  BY DEF GoodKeys
<1>6. ks[i].data \in Nat /\ ks[i].at \in Nat /\ Served(c.users[i], ks[i].data)
  BY <1>5 DEF GoodFor
<1>7. /\ Served(c.users[i], ks[i].data)'
      /\ ServedUntil(c.users[i], ks[i].data) \in Nat
      /\ ServedUntil(c.users[i], ks[i].data)' \in Nat
      /\ ServedUntil(c.users[i], ks[i].data) <= ServedUntil(c.users[i], ks[i].data)'
  BY <1>4, <1>6, ServedLonger
<1> QED
  BY <1>1, <1>5, <1>6, <1>7 DEF GoodFor

LEMMA InternetStep ==
  ASSUME IInv, Tick \/ \E n \in Names : Publish(n)
  PROVE  IInv'
<1>1. /\ UNCHANGED <<caching, phase, builds, config, keys, data, state, outcome>>
      /\ UNCHANGED <<cache, tmp, cachedOnce>>
      /\ Writing => now' = now
  BY DEF Tick, Publish, build, files, Writing
<1>2. InternetTypes
  BY DEF IInv
<1>3. InternetTypes'
  BY <1>2, ServedLonger
<1>4. FilesHold'
  <2>1. ASSUME NEW n \in Names, cache[n] # NoFile
        PROVE  Served(n, cache[n].data)' /\ cache[n].mtime <= ServedUntil(n, cache[n].data)'
    <3>1. /\ cache[n].data \in Nat /\ cache[n].mtime \in Nat
          /\ Served(n, cache[n].data) /\ cache[n].mtime <= ServedUntil(n, cache[n].data)
      BY <2>1 DEF IInv, FilesHold
    <3>2. /\ Served(n, cache[n].data)'
          /\ ServedUntil(n, cache[n].data) \in Nat /\ ServedUntil(n, cache[n].data)' \in Nat
          /\ ServedUntil(n, cache[n].data) <= ServedUntil(n, cache[n].data)'
      <4> DEFINE v == cache[n].data
      <4>1. v \in Nat /\ Served(n, v) /\ v' = v
        BY <1>1, <3>1
      <4> HIDE DEF v
      <4> QED
        BY <1>1, <1>2, <3>1, ServedLonger DEF ServedUntil, Served, Version
    <3> QED
      BY <1>1, <3>1, <3>2
  <2> QED
    BY <1>1, <2>1 DEF IInv, FilesHold, NoFile
<1>5. BuildHolds'
  <2>1. Working => GoodKeys(config, keys)'
    <3> SUFFICES ASSUME Working PROVE GoodKeys(config, keys)'
      OBVIOUS
    <3>1. config \in Configs /\ GoodKeys(config, keys)
      BY DEF IInv, BuildHolds
    <3> QED
      BY <1>1, <1>2, <3>1, GoodForLonger DEF GoodKeys, GoodFor, Served, ServedUntil, Version
  <2>2. Writing => Served(Name, data)' /\ now' <= ServedUntil(Name, data)'
    <3> SUFFICES ASSUME Writing PROVE Served(Name, data)' /\ now' <= ServedUntil(Name, data)'
      OBVIOUS
    <3>1. /\ Served(Name, data) /\ now <= ServedUntil(Name, data) /\ now \in Nat
          /\ Name \in Names /\ data \in Nat
      <4>1. /\ Working /\ phase # "resolve" /\ config \in Configs /\ keys \in Seq([data : Nat, at : Nat, failed : BOOLEAN])
            /\ Len(keys) < Len(config.users)
        BY DEF IInv, BuildHolds, Working, Writing, GoodKeys
      <4>2. Len(keys) \in Nat
        BY <4>1, LenProperties
      <4>3. Name \in Names
        BY <4>1, <4>2, UsersAreNames DEF Name
      <4>4. Served(Name, data) /\ now <= ServedUntil(Name, data) /\ now \in Nat
        BY DEF IInv, BuildHolds, InternetTypes
      <4>5. data \in Nat
        BY <4>4 DEF Served
      <4> QED
        BY <4>3, <4>4, <4>5
    <3>2. Name' = Name
      BY <1>1 DEF Name
    <3>3. /\ Served(Name, data)'
          /\ ServedUntil(Name, data) \in Nat /\ ServedUntil(Name, data)' \in Nat
          /\ ServedUntil(Name, data) <= ServedUntil(Name, data)'
      <4> DEFINE n == Name
                 v == data
      <4>1. n \in Names /\ v \in Nat /\ Served(n, v) /\ n' = n /\ v' = v
        BY <1>1, <3>1, <3>2
      <4> HIDE DEF n, v
      <4> QED
        BY <1>1, <1>2, <3>1, <3>2, ServedLonger DEF ServedUntil, Served, Version
    <3> QED
      BY <1>1, <3>1, <3>3
  <2>3. phase = "rename" => tmp[Name] = [data |-> data, mtime |-> now']
    BY <1>1 DEF IInv, BuildHolds, Writing
  <2>4. Working' = Working /\ Writing' = Writing /\ Name' = Name
    BY <1>1 DEF Working, Writing, Name
  <2>5. /\ Working => config \in Configs /\ outcome = "none"
        /\ Working /\ phase # "resolve" => Len(keys) < Len(config.users)
        /\ ~ Working => keys = <<>>
    BY DEF IInv, BuildHolds
  <2> QED
    BY <1>1, <2>1, <2>2, <2>3, <2>4, <2>5 DEF BuildHolds
<1>6. StateHolds'
  <2>1. CASE state = NoState
    BY <1>1, <2>1 DEF StateHolds
  <2>2. CASE state # NoState
    <3>1. state.config \in Configs /\ GoodKeys(state.config, state.keys)
      BY <2>2 DEF IInv, StateHolds
    <3>2. GoodKeys(state.config, state.keys)'
      BY <1>1, <1>2, <3>1, GoodForLonger DEF GoodKeys, GoodFor, Served, ServedUntil, Version
    <3> QED
      BY <1>1, <3>1, <3>2 DEF StateHolds
  <2> QED
    BY <2>1, <2>2
<1>7. CacheSavesBuild'
  BY <1>1 DEF IInv, CacheSavesBuild
<1> QED
  BY <1>3, <1>4, <1>5, <1>6, <1>7 DEF IInv
-----------------------------------------------------------------------------
LEMMA WorkFacts ==
  ASSUME IInv, Working, Len(keys) < Len(config.users)
  PROVE  /\ config \in Configs /\ GoodKeys(config, keys) /\ Len(keys) \in Nat
         /\ Name \in Names /\ Name = config.users[Len(keys) + 1]
         /\ now \in Nat /\ now <= MaxTime /\ outcome = "none"
<1>1. config \in Configs /\ GoodKeys(config, keys) /\ outcome = "none"
  BY DEF IInv, BuildHolds
<1>2. Len(keys) \in Nat
  BY <1>1, LenProperties DEF GoodKeys
<1>3. Len(config.users) \in Nat
  BY <1>1, UsersAreNames
<1>4. Name \in Names
  BY <1>1, <1>2, <1>3, UsersAreNames DEF Name
<1>5. now \in Nat /\ now <= MaxTime
  BY KeysAssumption DEF IInv, InternetTypes
<1> QED
  BY <1>1, <1>2, <1>4, <1>5 DEF Name

(* While there is no outcome, the cache cannot be blamed for it. *)
LEMMA NoOutcome == cachedOnce' \subseteq Names /\ outcome' = "none" => CacheSavesBuild'
BY NamesAssumption DEF CacheSavesBuild

(* Keys that a State may hold are taken for the next user. *)
LEMMA TakeStep ==
  ASSUME IInv, Working, Len(keys) < Len(config.users), NEW v \in Nat, NEW f \in BOOLEAN, Take(v, f),
         Served(Name, v), f \/ now <= ServedUntil(Name, v) + Ttl, FilesHold'
  PROVE  IInv'
<1>1. /\ config \in Configs /\ GoodKeys(config, keys) /\ Len(keys) \in Nat
      /\ Name \in Names /\ Name = config.users[Len(keys) + 1]
      /\ now \in Nat /\ outcome = "none"
  BY WorkFacts
<1>2. /\ keys' = Append(keys, [data |-> v, at |-> now, failed |-> f]) /\ phase' = "resolve"
      /\ UNCHANGED <<now, replaced, config, state, outcome>>
  BY DEF Take, internet
<1> DEFINE k == [data |-> v, at |-> now, failed |-> f]
           Key == [data : Nat, at : Nat, failed : BOOLEAN]
<1>3. k \in Key /\ GoodFor(Name, k)
  BY <1>1 DEF GoodFor
<1>4. keys \in Seq(Key)
  BY <1>1 DEF GoodKeys
<1>5. /\ keys' \in Seq(Key) /\ Len(keys') = Len(keys) + 1
      /\ \A i \in 1 .. Len(keys) : keys'[i] = keys[i]
      /\ keys'[Len(keys) + 1] = k
  <2> HIDE DEF Key
  <2> QED
    BY <1>2, <1>3, <1>4, AppendProperties
<1>6. GoodKeys(config, keys')
  <2> SUFFICES ASSUME NEW i \in 1 .. Len(keys') PROVE GoodFor(config.users[i], keys'[i])
    <3>1. Len(config.users) \in Nat
      BY <1>1, UsersAreNames
    <3>2. Len(keys') <= Len(config.users)
      BY <1>1, <1>5, <3>1
    <3> QED
      BY <1>5, <3>2 DEF GoodKeys
  <2>1. CASE i \in 1 .. Len(keys)
    BY <1>1, <1>5, <2>1 DEF GoodKeys
  <2>2. CASE i = Len(keys) + 1
    <3> HIDE DEF k
    <3> QED
      BY <1>1, <1>3, <1>5, <2>2
  <2> QED
    BY <1>1, <1>5, <2>1, <2>2
<1>7. GoodKeys(config, keys)'
  BY <1>2, <1>6 DEF GoodKeys, GoodFor, Served, ServedUntil, Version
<1>8. BuildHolds'
  BY <1>1, <1>2, <1>7 DEF BuildHolds, Working, Writing
<1>9. InternetTypes' /\ StateHolds'
  BY <1>2 DEF IInv, InternetTypes, StateHolds, GoodKeys, GoodFor, Served, ServedUntil, Version
<1>10. CacheSavesBuild'
  BY <1>1, <1>2, NoOutcome DEF FilesHold
<1> QED
  BY <1>8, <1>9, <1>10 DEF IInv

(* The process has no build, and has what State it had or none. *)
LEMMA IdleStep ==
  ASSUME IInv, UNCHANGED <<internet, files>>, phase' \in {"down", "serving"}, keys' = <<>>,
         UNCHANGED state \/ state' = NoState, caching' => outcome' \notin cachedOnce
  PROVE  IInv'
<1>1. UNCHANGED <<now, replaced, cache, tmp, cachedOnce>>
  BY DEF internet, files
<1>2. InternetTypes' /\ FilesHold' /\ StateHolds'
  BY <1>1 DEF IInv, InternetTypes, FilesHold, StateHolds, GoodKeys, GoodFor, Served, ServedUntil,
              Version
<1>3. BuildHolds'
  BY DEF BuildHolds, Working, Writing
<1>4. CacheSavesBuild'
  BY <1>1 DEF CacheSavesBuild
<1> QED
  BY <1>2, <1>3, <1>4 DEF IInv

LEMMA GiveUpStep ==
  ASSUME IInv, NEW why, GiveUp(why), caching => why \notin cachedOnce
  PROVE  IInv'
<1>1. /\ phase' \in {"down", "serving"} /\ keys' = <<>> /\ outcome' = why
      /\ UNCHANGED <<internet, files>> /\ UNCHANGED state /\ caching' = caching
  BY DEF GiveUp, PhaseAfterFailure
<1> QED
  BY <1>1, IdleStep

(* A build begins; nothing is known yet of its outcome. *)
LEMMA BeginStep ==
  ASSUME IInv, NEW c \in Configs, Begin(c)
  PROVE  IInv'
<1>1. /\ phase' = "resolve" /\ config' = c /\ outcome' = "none" /\ ~ Working
      /\ UNCHANGED <<now, replaced, keys, state, cache, tmp, cachedOnce>>
  BY DEF Begin, internet, files, Working, Writing
<1>2. keys = <<>>
  BY <1>1 DEF IInv, BuildHolds
<1>3. GoodKeys(c, <<>>)'
  <2>1. <<>> \in Seq([data : Nat, at : Nat, failed : BOOLEAN]) /\ Len(<<>>) = 0
    OBVIOUS
  <2>2. Len(c.users) \in Nat
    BY UsersAreNames
  <2> QED
    BY <2>1, <2>2 DEF GoodKeys
<1>4. GoodKeys(config, keys)'
  BY <1>1, <1>2, <1>3 DEF GoodKeys, GoodFor, Served, ServedUntil, Version
<1>5. BuildHolds'
  BY <1>1, <1>4 DEF BuildHolds, Working, Writing
<1>6. InternetTypes' /\ FilesHold' /\ StateHolds'
  BY <1>1 DEF IInv, InternetTypes, FilesHold, StateHolds, GoodKeys, GoodFor, Served, ServedUntil,
              Version
<1>7. CacheSavesBuild'
  BY <1>1, <1>6, NoOutcome DEF FilesHold
<1> QED
  BY <1>5, <1>6, <1>7 DEF IInv

(* The State is made of what was found. *)
LEMMA CompleteStep ==
  ASSUME IInv, Complete
  PROVE  IInv'
<1>1. /\ phase = "resolve" /\ phase' = "serving" /\ keys' = <<>> /\ outcome' = "built"
      /\ state' = [config |-> config, keys |-> keys]
      /\ UNCHANGED <<now, replaced, cache, tmp, cachedOnce>>
  BY DEF Complete, internet, files
<1>2. config \in Configs /\ GoodKeys(config, keys)
  BY <1>1 DEF IInv, BuildHolds, Working
<1>3. StateHolds'
  BY <1>1, <1>2 DEF StateHolds, GoodKeys, GoodFor, Served, ServedUntil, Version
<1>4. InternetTypes' /\ FilesHold'
  BY <1>1 DEF IInv, InternetTypes, FilesHold, Served, ServedUntil, Version
<1>5. BuildHolds'
  BY <1>1 DEF BuildHolds, Working, Writing
<1>6. CacheSavesBuild'
  BY <1>1, <1>4, NamesAssumption DEF CacheSavesBuild, FilesHold
<1> QED
  BY <1>3, <1>4, <1>5, <1>6 DEF IInv
-----------------------------------------------------------------------------
LEMMA FilesUnchanged ==
  ASSUME IInv, UNCHANGED <<internet, files>>
  PROVE  FilesHold' /\ InternetTypes'
BY DEF IInv, FilesHold, InternetTypes, internet, files, Served, ServedUntil, Version

(* What is cached for the name that is being resolved is good to be taken. *)
LEMMA CachedIsServed ==
  ASSUME IInv, NEW n \in Names, cache[n] # NoFile
  PROVE  /\ cache[n].data \in Nat /\ cache[n].mtime \in Nat /\ Served(n, cache[n].data)
         /\ ServedUntil(n, cache[n].data) \in Nat
         /\ cache[n].mtime <= ServedUntil(n, cache[n].data)
<1>1. /\ cache[n].data \in Nat /\ cache[n].mtime \in Nat /\ Served(n, cache[n].data)
      /\ cache[n].mtime <= ServedUntil(n, cache[n].data)
  BY DEF IInv, FilesHold
<1>2. replaced[n] \in Seq(Nat) /\ Len(replaced[n]) \in Nat /\ now \in Nat
  BY LenProperties DEF IInv, InternetTypes
<1>3. cache[n].data < Len(replaced[n]) => replaced[n][cache[n].data + 1] \in Nat
  BY <1>1, <1>2, ElementOfSeq
<1>4. ServedUntil(n, cache[n].data) \in Nat
  BY <1>2, <1>3 DEF ServedUntil, Version
<1> QED
  BY <1>1, <1>4

(* A build goes on to another step with the same keys found. *)
LEMMA WorkGoesOn ==
  ASSUME IInv, Working, Len(keys) < Len(config.users),
         UNCHANGED <<internet, caching, builds, config, keys, state, outcome>>,
         phase' \in {"fetch", "open", "write", "rename"}, FilesHold',
         phase' # "fetch" => Served(Name, data') /\ now <= ServedUntil(Name, data'),
         phase' = "rename" => tmp'[Name] = [data |-> data', mtime |-> now]
  PROVE  IInv'
<1>1. /\ config \in Configs /\ GoodKeys(config, keys) /\ outcome = "none"
      /\ UNCHANGED <<now, replaced, config, keys, state, outcome>>
  BY WorkFacts DEF internet
<1>2. GoodKeys(config, keys)' /\ Name' = Name
  BY <1>1 DEF GoodKeys, GoodFor, Served, ServedUntil, Version, Name
<1>3. Writing' => Served(Name, data)' /\ now' <= ServedUntil(Name, data)'
  BY <1>1, <1>2 DEF Writing, Served, ServedUntil, Version
<1>4. phase' = "rename" => tmp'[Name'] = [data |-> data', mtime |-> now']
  BY <1>1, <1>2
<1>5. Working'
  BY DEF Working, Writing
<1>6. BuildHolds'
  BY <1>1, <1>2, <1>3, <1>4, <1>5 DEF BuildHolds
<1>7. InternetTypes' /\ StateHolds'
  BY <1>1 DEF IInv, InternetTypes, StateHolds, GoodKeys, GoodFor, Served, ServedUntil, Version
<1>8. CacheSavesBuild'
  BY <1>1, NoOutcome DEF FilesHold
<1> QED
  BY <1>6, <1>7, <1>8 DEF IInv

(* The version served now is good to be taken. *)
LEMMA NewestIsServed ==
  ASSUME IInv, NEW n \in Names
  PROVE  /\ Version(n) \in Nat /\ Served(n, Version(n)) /\ ServedUntil(n, Version(n)) = now
<1>1. Len(replaced[n]) \in Nat
  BY LenProperties DEF IInv, InternetTypes
<1> QED
  BY <1>1 DEF Version, Served, ServedUntil

LEMMA ReadCacheStep ==
  ASSUME IInv, ReadCache
  PROVE  IInv'
<1>1. Working /\ Len(keys) < Len(config.users)
  BY DEF ReadCache, Working
<1>2. Name \in Names /\ now \in Nat
  BY <1>1, WorkFacts
<1>3. Ttl \in Nat
  BY KeysAssumption
<1>4. CASE Fresh(Name) /\ Take(cache[Name].data, FALSE) /\ UNCHANGED files
  <2>1. cache[Name] # NoFile /\ now <= cache[Name].mtime + Ttl
    BY <1>4 DEF Fresh
  <2>2. /\ cache[Name].data \in Nat /\ Served(Name, cache[Name].data)
        /\ now <= ServedUntil(Name, cache[Name].data) + Ttl
    BY <1>2, <1>3, <2>1, CachedIsServed
  <2>3. FilesHold'
    BY <1>4, FilesUnchanged DEF Take
  <2> QED
    BY <1>1, <1>4, <2>2, <2>3, TakeStep
<1>5. CASE /\ phase' = "fetch" /\ cache' = CacheAfterMiss(Name)
           /\ UNCHANGED <<internet, caching, builds, config, keys, data, state, outcome, tmp, cachedOnce>>
  <2>1. FilesHold'
    BY <1>5, FilesUnchanged DEF CacheAfterMiss, files
  <2> QED
    BY <1>1, <1>5, <2>1, WorkGoesOn
<1> QED
  BY <1>4, <1>5 DEF ReadCache

LEMMA FetchStep ==
  ASSUME IInv, Fetch
  PROVE  IInv'
<1>1. Working /\ Len(keys) < Len(config.users)
  BY DEF Fetch, Working, IInv, BuildHolds
<1>2. Name \in Names /\ now \in Nat
  BY <1>1, WorkFacts
<1>3. /\ Version(Name) \in Nat /\ Served(Name, Version(Name))
      /\ ServedUntil(Name, Version(Name)) = now
  BY <1>2, NewestIsServed
<1>4. CASE ~ caching /\ Take(Version(Name), FALSE) /\ UNCHANGED files
  <2>1. FilesHold'
    BY <1>4, FilesUnchanged DEF Take
  <2>2. now <= ServedUntil(Name, Version(Name)) + Ttl
    BY <1>2, <1>3, KeysAssumption
  <2> QED
    BY <1>1, <1>3, <1>4, <2>1, <2>2, TakeStep
<1>5. CASE /\ phase' = "open" /\ data' = Version(Name)
           /\ UNCHANGED <<internet, caching, builds, config, keys, state, outcome, files>>
  <2>1. FilesHold'
    BY <1>5, FilesUnchanged
  <2>2. now <= ServedUntil(Name, data')
    BY <1>2, <1>3, <1>5
  <2> QED
    BY <1>1, <1>3, <1>5, <2>1, <2>2, WorkGoesOn
<1> QED
  BY <1>4, <1>5 DEF Fetch

LEMMA FetchFailsStep ==
  ASSUME IInv, FetchFails
  PROVE  IInv'
<1>1. Working /\ Len(keys) < Len(config.users)
  BY DEF FetchFails, Working, IInv, BuildHolds
<1>2. Name \in Names
  BY <1>1, WorkFacts
<1>3. CASE cache[Name] # NoFile /\ Take(cache[Name].data, TRUE) /\ UNCHANGED files
  <2>1. FilesHold'
    BY <1>3, FilesUnchanged DEF Take
  <2>2. cache[Name].data \in Nat /\ Served(Name, cache[Name].data)
    BY <1>2, <1>3, CachedIsServed
  <2> QED
    BY <1>1, <1>3, <2>1, <2>2, TakeStep
<1>4. CASE (~ caching \/ cache[Name] = NoFile) /\ GiveUp(Name)
  <2>1. caching => Name \notin cachedOnce
    BY <1>4 DEF IInv, FilesHold
  <2> QED
    BY <1>4, <2>1, GiveUpStep
<1> QED
  BY <1>3, <1>4 DEF FetchFails

(* The temporary file is made, written and renamed, or is left behind. *)
LEMMA WriteStep ==
  ASSUME IInv, OpenTmp \/ WriteTmp \/ RenameTmp \/ WriteFails
  PROVE  IInv'
<1>1. Writing /\ Working /\ Len(keys) < Len(config.users)
  BY DEF OpenTmp, WriteTmp, RenameTmp, WriteFails, Working, Writing, IInv, BuildHolds
<1>2. Name \in Names /\ now \in Nat /\ now <= MaxTime
  BY <1>1, WorkFacts
<1>3. Served(Name, data) /\ now <= ServedUntil(Name, data) /\ data \in Nat
  BY <1>1 DEF IInv, BuildHolds, Served
<1>4. /\ MaxVersions \in Nat /\ MaxTime \in Nat /\ Ttl \in Nat
      /\ ServedUntil(Name, data) \in Nat
  <2>1. Len(replaced[Name]) \in Nat /\ replaced[Name] \in Seq(Nat)
    BY <1>2, LenProperties DEF IInv, InternetTypes
  <2>2. data < Len(replaced[Name]) => replaced[Name][data + 1] \in Nat
    BY <1>3, <2>1, ElementOfSeq
  <2> QED
    BY <1>2, <2>1, <2>2, KeysAssumption DEF ServedUntil, Version
<1>5. now <= ServedUntil(Name, data) + Ttl
  BY <1>2, <1>3, <1>4
<1>6. ASSUME NEW f \in [data : Nat, mtime : Nat], tmp' = [tmp EXCEPT ![Name] = f],
             UNCHANGED <<internet, cache, cachedOnce>>
      PROVE  FilesHold'
  BY <1>6 DEF IInv, FilesHold, internet, Served, ServedUntil, Version
<1>7. CASE OpenTmp
  <2>1. [data |-> Torn, mtime |-> now] \in [data : Nat, mtime : Nat]
    BY <1>2, <1>4 DEF Torn
  <2>2. FilesHold'
    BY <1>6, <1>7, <2>1 DEF OpenTmp, CacheAfterOpen
  <2> QED
    BY <1>1, <1>3, <1>7, <2>2, WorkGoesOn DEF OpenTmp
<1>8. CASE WriteTmp
  <2>1. [data |-> data, mtime |-> now] \in [data : Nat, mtime : Nat]
    BY <1>2, <1>3
  <2>2. FilesHold'
    BY <1>6, <1>8, <2>1 DEF WriteTmp
  <2>3. tmp'[Name] = [data |-> data, mtime |-> now]
    BY <1>2, <1>8 DEF WriteTmp, IInv, FilesHold
  <2> QED
    BY <1>1, <1>3, <1>8, <2>2, <2>3, WorkGoesOn DEF WriteTmp
<1>9. CASE RenameTmp
  <2>1. /\ tmp[Name] = [data |-> data, mtime |-> now]
        /\ cache' = [cache EXCEPT ![Name] = tmp[Name]] /\ tmp' = [tmp EXCEPT ![Name] = NoFile]
        /\ cachedOnce' = cachedOnce \cup {Name} /\ Take(data, FALSE)
        /\ UNCHANGED <<now, replaced>>
    BY <1>9 DEF RenameTmp, IInv, BuildHolds, Take, internet
  <2>2. NoFile \in [data : Nat, mtime : Nat] /\ tmp[Name] # NoFile
    BY <1>2, <1>4, <2>1 DEF NoFile, Torn
  <2>3. /\ cache' \in [Names -> [data : Nat, mtime : Nat]]
        /\ tmp' \in [Names -> [data : Nat, mtime : Nat]]
    BY <1>2, <1>3, <2>1, <2>2 DEF IInv, FilesHold
  <2>4. \A n \in Names : cache'[n] = IF n = Name THEN [data |-> data, mtime |-> now] ELSE cache[n]
    BY <2>1 DEF IInv, FilesHold
  <2>5. \A n \in Names : cache'[n] # NoFile =>
          Served(n, cache'[n].data) /\ cache'[n].mtime <= ServedUntil(n, cache'[n].data)
    BY <1>3, <2>4 DEF IInv, FilesHold
  <2>6. FilesHold'
    <3>1. cachedOnce' \subseteq {n \in Names : cache'[n] # NoFile}
      BY <1>2, <2>1, <2>2, <2>4 DEF IInv, FilesHold
    <3> QED
      BY <2>1, <2>3, <2>5, <3>1 DEF FilesHold, NoFile, Served, ServedUntil, Version
  <2> QED
    BY <1>1, <1>3, <1>5, <2>1, <2>6, TakeStep
<1>10. CASE WriteFails
  <2>1. Take(data, FALSE) /\ UNCHANGED files /\ UNCHANGED internet
    BY <1>10 DEF WriteFails, Take
  <2>2. FilesHold'
    BY <2>1, FilesUnchanged
  <2> QED
    BY <1>1, <1>3, <1>5, <2>1, <2>2, TakeStep
<1> QED
  BY <1>7, <1>8, <1>9, <1>10
-----------------------------------------------------------------------------
LEMMA NextStep == IInv /\ [Next]_vars => IInv'
<1> SUFFICES ASSUME IInv, [Next]_vars PROVE IInv'
  OBVIOUS
<1>1. CASE UNCHANGED keysVars
  <2>1. UNCHANGED <<now, replaced, caching, phase, builds, config, keys, data, state, outcome,
                    cache, tmp, cachedOnce>>
    BY <1>1 DEF keysVars, internet, build, files
  <2>2. InternetTypes' /\ FilesHold' /\ StateHolds' /\ CacheSavesBuild'
    BY <2>1 DEF IInv, InternetTypes, FilesHold, StateHolds, CacheSavesBuild, GoodKeys, GoodFor,
                Served, ServedUntil, Version
  <2>3. BuildHolds'
    BY <2>1 DEF IInv, BuildHolds, Working, Writing, GoodKeys, GoodFor, Served, ServedUntil,
                Version, Name
  <2> QED
    BY <2>2, <2>3 DEF IInv
<1>2. CASE Tick \/ \E n \in Names : Publish(n)
  BY <1>2, InternetStep
<1>3. CASE \E c \in Configs : Begin(c)
  BY <1>3, BeginStep
<1>4. CASE Complete
  BY <1>4, CompleteStep
<1>5. CASE Resolve
  BY <1>5, ReadCacheStep, FetchStep, FetchFailsStep, WriteStep DEF Resolve
<1>6. CASE OtherFailure
  <2>1. "other" \notin cachedOnce
    BY NamesAssumption DEF IInv, FilesHold
  <2> QED
    BY <1>6, <2>1, GiveUpStep DEF OtherFailure
<1>7. CASE Die
  <2>1. "none" \notin cachedOnce
    BY NamesAssumption DEF IInv, FilesHold
  <2>2. /\ phase' = "down" /\ state' = NoState /\ keys' = <<>> /\ outcome' = "none"
        /\ UNCHANGED <<internet, files>>
    BY <1>7 DEF Die
  <2> QED
    BY <2>1, <2>2, IdleStep
<1> QED
  BY <1>1, <1>2, <1>3, <1>4, <1>5, <1>6, <1>7
     DEF Next, Process, StartUp, Reloaded, ProcessDies, vars

LEMMA Inductive == Spec => []IInv
<1>1. Init => IInv
  BY InitHolds
<1>2. IInv /\ [Next]_vars => IInv'
  BY NextStep
<1> QED
  BY <1>1, <1>2, PTL DEF Spec
-----------------------------------------------------------------------------
(* Whoever is given a State finds in it keys that sshid.io has served      *)
(* whole for the user's name: a torn file is never renamed into the cache, *)
(* nor read from anywhere else (writeCache).                               *)
THEOREM ServedKeysOnly == Spec => []KeysWereServed
<1>1. IInv => KeysWereServed
  <2> SUFFICES ASSUME IInv, NEW i \in 1 .. Len(state.keys)
               PROVE  state.keys[i].data \in 0 .. Version(state.config.users[i])
    BY DEF KeysWereServed
  <2>1. state # NoState
    BY DEF NoState
  <2> QED
    BY <2>1 DEF IInv, StateHolds, GoodKeys, GoodFor, Served
<1> QED
  BY <1>1, Inductive, PTL

(* Keys that were not taken for want of a fetch had been replaced for no   *)
(* longer than a cache is fresh (readCache and its ttl).                   *)
THEOREM StaleKeysAreBounded == Spec => []StaleOnlyIfFetchFailed
<1>1. IInv => StaleOnlyIfFetchFailed
  <2> SUFFICES ASSUME IInv, NEW i \in 1 .. Len(state.keys)
               PROVE  state.keys[i].failed
                        \/ state.keys[i].at
                             <= ServedUntil(state.config.users[i], state.keys[i].data) + Ttl
    BY DEF StaleOnlyIfFetchFailed
  <2>1. state # NoState
    BY DEF NoState
  <2> QED
    BY <2>1 DEF IInv, StateHolds, GoodKeys, GoodFor
<1> QED
  BY <1>1, Inductive, PTL

(* A name that was cached once never makes a start or a reload fail again: *)
(* Resolve falls back to the file, however old, and nothing removes it.    *)
THEOREM CachedNamesResolve == Spec => []CacheSavesBuild
<1>1. IInv => CacheSavesBuild
  BY DEF IInv
<1> QED
  BY <1>1, Inductive, PTL

-----------------------------------------------------------------------------
(* The types of the process, which rest on what is known of the build.     *)

NetTypes ==
  /\ now \in 0 .. MaxTime
  /\ \A n \in Names : replaced[n] \in Seq(0 .. MaxTime) /\ Version(n) \in Versions

PhaseTypes ==
  /\ caching \in BOOLEAN /\ builds \in 0 .. MaxBuilds
  /\ phase \in {"down", "serving", "resolve", "fetch", "open", "write", "rename"}
  /\ config \in Configs \cup {NoConfig} /\ (config = NoConfig <=> phase \in {"down", "serving"})
  /\ outcome \in Names \cup {"none", "built", "other"}

KeyTypes ==
  /\ keys \in Seq(Found) /\ data \in Versions
  /\ config # NoConfig => Len(keys) <= Len(config.users)

StateTypes ==
  /\ state.config \in Configs \cup {NoConfig} /\ state.keys \in Seq(Found)
  /\ state # NoState => Len(state.keys) = Len(state.config.users)
  /\ phase = "serving" => state # NoState

FileTypes ==
  /\ cache \in [Names -> File \cup {NoFile}] /\ tmp \in [Names -> File \cup {NoFile}]
  /\ cachedOnce \subseteq Names

(* While there is no State there is no monitor, and while there is none    *)
(* there is nothing it has found.                                          *)
MonitorTypes ==
  /\ HealthTypeOK
  /\ state = NoState => monitor = "off"
  /\ monitor # "round" => todo = {}
  /\ monitor = "off" => DOMAIN status = {} /\ DOMAIN gauge = {}

TInv == NetTypes /\ PhaseTypes /\ KeyTypes /\ StateTypes /\ FileTypes /\ MonitorTypes

LEMMA TypesAreThese == KeysTypeOK <=> NetTypes /\ PhaseTypes /\ KeyTypes /\ StateTypes /\ FileTypes
BY DEF KeysTypeOK, NetTypes, PhaseTypes, KeyTypes, StateTypes, FileTypes

LEMMA Bounds ==
  /\ MaxTime \in Nat /\ MaxVersions \in Nat /\ MaxBuilds \in Nat /\ MaxFlips \in Nat
  /\ Versions \subseteq Nat /\ 0 \in Versions /\ NoConfig \notin Configs
  /\ NoState.config = NoConfig /\ NoState.keys = <<>>
BY KeysAssumption, HealthAssumption DEF Versions, NoState

LEMMA InitTypes == Init => TInv
<1> SUFFICES ASSUME Init PROVE TInv
  OBVIOUS
<1> USE DEF Init, KeysInit, HealthInit, Stopped
<1>1. NetTypes
  <2>1. <<>> \in Seq(0 .. MaxTime) /\ Len(<<>>) = 0
    OBVIOUS
  <2> QED
    BY <2>1, Bounds DEF NetTypes, Version
<1>2. PhaseTypes
  BY Bounds DEF PhaseTypes
<1>3. KeyTypes /\ StateTypes
  <2>1. <<>> \in Seq(Found)
    OBVIOUS
  <2> QED
    BY <2>1, Bounds DEF KeyTypes, StateTypes
<1>4. FileTypes
  BY DEF FileTypes
<1>5. MonitorTypes
  <2>1. DOMAIN NoStatus = {}
    BY DEF NoStatus
  <2>2. reachable \subseteq AllBackends
    BY HealthAssumption
  <2> QED
    BY <2>1, <2>2, Bounds DEF MonitorTypes, HealthTypeOK
<1> QED
  BY <1>1, <1>2, <1>3, <1>4, <1>5 DEF TInv
-----------------------------------------------------------------------------
(* The next name has keys: they are of a version, or torn. *)
LEMMA TakeTypes ==
  ASSUME IInv, TInv, Working, Len(keys) < Len(config.users),
         NEW v \in Versions \cup {Torn}, NEW f \in BOOLEAN, Take(v, f)
  PROVE  NetTypes' /\ PhaseTypes' /\ KeyTypes' /\ StateTypes'
<1>1. UNCHANGED <<now, replaced, caching, builds, config, state, outcome>> /\ phase' = "resolve" /\ data' = 0
  BY DEF Take, internet
<1>2. config \in Configs /\ Len(keys) \in Nat /\ Len(config.users) \in Nat
  BY WorkFacts, UsersAreNames
<1>3. NetTypes'
  BY <1>1 DEF TInv, NetTypes, Version
<1>4. PhaseTypes'
  BY <1>1, <1>2, Bounds DEF TInv, PhaseTypes
<1>5. StateTypes'
  BY <1>1 DEF TInv, StateTypes
<1>6. KeyTypes'
  <2> DEFINE k == [data |-> v, at |-> now, failed |-> f]
  <2>1. k \in Found
    BY DEF Found, TInv, NetTypes
  <2>2. keys \in Seq(Found) /\ keys' = Append(keys, k)
    BY DEF Take, TInv, KeyTypes
  <2> HIDE DEF k
  <2>3. keys' \in Seq(Found) /\ Len(keys') = Len(keys) + 1
    BY <2>1, <2>2, AppendProperties
  <2> QED
    BY <1>1, <1>2, <2>3, Bounds DEF KeyTypes
<1> QED
  BY <1>3, <1>4, <1>5, <1>6

(* The build is over without a new State. *)
LEMMA GiveUpTypes ==
  ASSUME TInv, NEW why \in Names \cup {"other"}, GiveUp(why)
  PROVE  NetTypes' /\ PhaseTypes' /\ KeyTypes' /\ StateTypes' /\ FileTypes'
<1>1. /\ phase' = (IF state = NoState THEN "down" ELSE "serving")
      /\ keys' = <<>> /\ data' = 0 /\ config' = NoConfig /\ outcome' = why
      /\ UNCHANGED <<now, replaced, caching, builds, state, cache, tmp, cachedOnce>>
  BY DEF GiveUp, PhaseAfterFailure, internet, files
<1>2. NetTypes' /\ FileTypes'
  BY <1>1 DEF TInv, NetTypes, FileTypes, Version
<1>3. PhaseTypes'
  BY <1>1 DEF TInv, PhaseTypes
<1>4. StateTypes'
  BY <1>1 DEF TInv, StateTypes
<1>5. KeyTypes'
  <2>1. <<>> \in Seq(Found)
    OBVIOUS
  <2> QED
    BY <1>1, <2>1, Bounds DEF KeyTypes
<1> QED
  BY <1>2, <1>3, <1>4, <1>5

(* A step of a build that finds no keys yet. *)
LEMMA GoesOnTypes ==
  ASSUME TInv, config \in Configs,
         UNCHANGED <<internet, caching, builds, config, keys, state, outcome>>,
         phase' \in {"resolve", "fetch", "open", "write", "rename"}, data' \in Versions
  PROVE  NetTypes' /\ PhaseTypes' /\ KeyTypes' /\ StateTypes'
<1>1. UNCHANGED <<now, replaced, caching, builds, config, keys, state, outcome>>
  BY DEF internet
<1>2. NetTypes' /\ KeyTypes'
  BY <1>1 DEF TInv, NetTypes, KeyTypes, Version
<1>3. PhaseTypes'
  BY <1>1, Bounds DEF TInv, PhaseTypes
<1>4. StateTypes'
  BY <1>1 DEF TInv, StateTypes
<1> QED
  BY <1>2, <1>3, <1>4


ProcessTypes == NetTypes /\ PhaseTypes /\ KeyTypes /\ StateTypes /\ FileTypes

LEMMA FilesAsTheyWere == TInv /\ UNCHANGED files => FileTypes'
BY DEF TInv, FileTypes, files

LEMMA WorldTypes ==
  ASSUME IInv, TInv, Tick \/ \E n \in Names : Publish(n)
  PROVE  ProcessTypes'
<1>1. UNCHANGED <<caching, phase, builds, config, keys, data, state, outcome, cache, tmp, cachedOnce>>
  BY DEF Tick, Publish, build, files
<1>2. PhaseTypes' /\ KeyTypes' /\ StateTypes' /\ FileTypes'
  BY <1>1 DEF TInv, PhaseTypes, KeyTypes, StateTypes, FileTypes
<1>3. CASE Tick
  <2>1. now' = now + 1 /\ now < MaxTime /\ replaced' = replaced
    BY <1>3 DEF Tick
  <2>2. NetTypes'
    BY <2>1, Bounds DEF TInv, NetTypes, Version
  <2> QED
    BY <1>2, <2>2 DEF ProcessTypes
<1>4. ASSUME NEW m \in Names, Publish(m) PROVE ProcessTypes'
  <2>1. /\ now' = now /\ replaced' = [replaced EXCEPT ![m] = Append(@, now)]
        /\ Len(replaced[m]) < MaxVersions
    BY <1>4 DEF Publish, Version
  <2>2. \A n \in Names : replaced'[n] = IF n = m THEN Append(replaced[m], now) ELSE replaced[n]
    BY <2>1 DEF IInv, InternetTypes
  <2>3. replaced[m] \in Seq(0 .. MaxTime) /\ now \in 0 .. MaxTime
    BY DEF TInv, NetTypes
  <2>4. /\ Append(replaced[m], now) \in Seq(0 .. MaxTime)
        /\ Len(Append(replaced[m], now)) = Len(replaced[m]) + 1 /\ Len(replaced[m]) \in Nat
    BY <2>3, AppendProperties, LenProperties
  <2>5. Len(Append(replaced[m], now)) \in Versions
    BY <2>1, <2>4, Bounds DEF Versions
  <2>6. NetTypes'
    BY <2>1, <2>2, <2>4, <2>5 DEF TInv, NetTypes, Version
  <2> QED
    BY <1>2, <2>6 DEF ProcessTypes
<1> QED
  BY <1>3, <1>4

LEMMA BeginTypes ==
  ASSUME IInv, TInv, NEW c \in Configs, Begin(c)
  PROVE  ProcessTypes'
<1>1. /\ phase' = "resolve" /\ config' = c /\ outcome' = "none" /\ builds' = builds + 1
      /\ builds < MaxBuilds /\ ~ Working
      /\ UNCHANGED <<now, replaced, caching, keys, data, state, cache, tmp, cachedOnce>>
  BY DEF Begin, internet, files, Working, Writing
<1>2. NetTypes' /\ FileTypes' /\ StateTypes'
  BY <1>1 DEF TInv, NetTypes, FileTypes, StateTypes, Version
<1>3. PhaseTypes'
  BY <1>1, Bounds DEF TInv, PhaseTypes
<1>4. keys = <<>> /\ Len(keys) = 0 /\ Len(c.users) \in Nat
  BY <1>1, UsersAreNames DEF IInv, BuildHolds
<1>5. KeyTypes'
  BY <1>1, <1>4 DEF TInv, KeyTypes
<1> QED
  BY <1>2, <1>3, <1>5 DEF ProcessTypes

LEMMA CompleteTypes ==
  ASSUME IInv, TInv, Complete
  PROVE  ProcessTypes' /\ state' # NoState /\ config \in Configs
<1>1. /\ phase = "resolve" /\ Len(keys) = Len(config.users)
      /\ phase' = "serving" /\ keys' = <<>> /\ data' = 0 /\ config' = NoConfig /\ outcome' = "built"
      /\ state' = [config |-> config, keys |-> keys]
      /\ UNCHANGED <<now, replaced, caching, builds, cache, tmp, cachedOnce>>
  BY DEF Complete, internet, files
<1>2. config \in Configs
  BY <1>1 DEF IInv, BuildHolds, Working
<1>3. state'.config = config /\ state'.keys = keys /\ state' # NoState
  BY <1>1, <1>2, Bounds
<1>4. NetTypes' /\ FileTypes'
  BY <1>1 DEF TInv, NetTypes, FileTypes, Version
<1>5. PhaseTypes'
  BY <1>1 DEF TInv, PhaseTypes
<1>6. StateTypes'
  BY <1>1, <1>2, <1>3 DEF TInv, KeyTypes, StateTypes
<1>7. KeyTypes'
  <2>1. <<>> \in Seq(Found)
    OBVIOUS
  <2> QED
    BY <1>1, <2>1, Bounds DEF KeyTypes
<1> QED
  BY <1>2, <1>3, <1>4, <1>5, <1>6, <1>7 DEF ProcessTypes

LEMMA DieTypes ==
  ASSUME TInv, Die
  PROVE  ProcessTypes'
<1>1. /\ phase' = "down" /\ state' = NoState
      /\ keys' = <<>> /\ data' = 0 /\ config' = NoConfig /\ outcome' = "none"
      /\ UNCHANGED <<now, replaced, caching, builds, cache, tmp, cachedOnce>>
  BY DEF Die, internet, files
<1>2. NetTypes' /\ FileTypes'
  BY <1>1 DEF TInv, NetTypes, FileTypes, Version
<1>3. PhaseTypes'
  BY <1>1 DEF TInv, PhaseTypes
<1>4. <<>> \in Seq(Found)
  OBVIOUS
<1>5. KeyTypes' /\ StateTypes'
  BY <1>1, <1>4, Bounds DEF KeyTypes, StateTypes
<1> QED
  BY <1>2, <1>3, <1>5 DEF ProcessTypes

(* What Resolve does to the keys and to the files. *)
LEMMA ResolveTypes ==
  ASSUME IInv, TInv, Resolve
  PROVE  ProcessTypes' /\ UNCHANGED state
<1>1. Working /\ Len(keys) < Len(config.users)
  BY DEF Resolve, ReadCache, Fetch, FetchFails, OpenTmp, WriteTmp, RenameTmp, WriteFails,
         Working, Writing, IInv, BuildHolds
<1>2. Name \in Names /\ config \in Configs
  BY <1>1, WorkFacts
<1>3. /\ now \in 0 .. MaxTime /\ data \in Versions /\ Version(Name) \in Versions
      /\ cache \in [Names -> File \cup {NoFile}] /\ tmp \in [Names -> File \cup {NoFile}]
      /\ cachedOnce \subseteq Names
  BY <1>2 DEF TInv, NetTypes, KeyTypes, FileTypes
<1>4. ASSUME NEW v \in Versions \cup {Torn}, NEW f \in BOOLEAN, Take(v, f), FileTypes'
      PROVE  ProcessTypes' /\ UNCHANGED state
  <2>1. NetTypes' /\ PhaseTypes' /\ KeyTypes' /\ StateTypes'
    BY <1>1, <1>4, TakeTypes
  <2>2. UNCHANGED state
    BY <1>4 DEF Take
  <2> QED
    BY <1>4, <2>1, <2>2 DEF ProcessTypes
<1>5. ASSUME UNCHANGED <<internet, caching, builds, config, keys, state, outcome>>,
             phase' \in {"fetch", "open", "write", "rename"}, data' \in Versions, FileTypes'
      PROVE  ProcessTypes' /\ UNCHANGED state
  <2>1. NetTypes' /\ PhaseTypes' /\ KeyTypes' /\ StateTypes'
    BY <1>2, <1>5, GoesOnTypes
  <2> QED
    BY <1>5, <2>1 DEF ProcessTypes
<1>6. cache[Name] # NoFile => cache[Name].data \in Versions \cup {Torn}
  BY <1>2, <1>3 DEF File
<1>7. FALSE \in BOOLEAN /\ TRUE \in BOOLEAN
  OBVIOUS
<1>8. CASE ReadCache
  <2>1. CASE Fresh(Name) /\ Take(cache[Name].data, FALSE) /\ UNCHANGED files
    <3>1. cache[Name].data \in Versions \cup {Torn}
      BY <1>6, <2>1 DEF Fresh
    <3>2. FileTypes'
      BY <2>1, FilesAsTheyWere
    <3> QED
      BY <1>4, <1>7, <2>1, <3>1, <3>2
  <2>2. CASE /\ phase' = "fetch" /\ cache' = CacheAfterMiss(Name)
             /\ UNCHANGED <<internet, caching, builds, config, keys, data, state, outcome, tmp, cachedOnce>>
    <3>1. FileTypes'
      BY <2>2, FilesAsTheyWere DEF CacheAfterMiss, files
    <3> QED
      BY <1>3, <1>5, <2>2, <3>1
  <2> QED
    BY <1>8, <2>1, <2>2 DEF ReadCache
<1>9. CASE Fetch
  <2>1. CASE ~ caching /\ Take(Version(Name), FALSE) /\ UNCHANGED files
    <3>1. FileTypes'
      BY <2>1, FilesAsTheyWere
    <3> QED
      BY <1>3, <1>4, <1>7, <2>1, <3>1
  <2>2. CASE /\ phase' = "open" /\ data' = Version(Name)
             /\ UNCHANGED <<internet, caching, builds, config, keys, state, outcome, files>>
    <3>1. FileTypes'
      BY <2>2, FilesAsTheyWere
    <3> QED
      BY <1>3, <1>5, <2>2, <3>1
  <2> QED
    BY <1>9, <2>1, <2>2 DEF Fetch
<1>10. CASE FetchFails
  <2>1. CASE cache[Name] # NoFile /\ Take(cache[Name].data, TRUE) /\ UNCHANGED files
    <3>1. FileTypes'
      BY <2>1, FilesAsTheyWere
    <3> QED
      BY <1>4, <1>6, <1>7, <2>1, <3>1
  <2>2. CASE GiveUp(Name)
    <3>1. Name \in Names \cup {"other"}
      BY <1>2
    <3>2. ProcessTypes'
      BY <2>2, <3>1, GiveUpTypes DEF ProcessTypes
    <3>3. UNCHANGED state
      BY <2>2 DEF GiveUp
    <3> QED
      BY <3>2, <3>3
  <2> QED
    BY <1>10, <2>1, <2>2 DEF FetchFails
<1>11. ASSUME NEW d \in Versions \cup {Torn}, tmp' = [tmp EXCEPT ![Name] = [data |-> d, mtime |-> now]],
              UNCHANGED <<cache, cachedOnce>>
       PROVE  FileTypes'
  <2>1. [data |-> d, mtime |-> now] \in File
    BY <1>3 DEF File
  <2> QED
    BY <1>3, <1>11, <2>1 DEF FileTypes
<1>12. CASE OpenTmp
  <2>1. FileTypes'
    BY <1>11, <1>12 DEF OpenTmp, CacheAfterOpen
  <2> QED
    BY <1>3, <1>5, <1>12, <2>1 DEF OpenTmp
<1>13. CASE WriteTmp
  <2>1. FileTypes'
    BY <1>3, <1>11, <1>13 DEF WriteTmp
  <2> QED
    BY <1>3, <1>5, <1>13, <2>1 DEF WriteTmp
<1>14. CASE RenameTmp
  <2>1. FileTypes'
    BY <1>2, <1>3, <1>14 DEF RenameTmp, FileTypes
  <2> QED
    BY <1>3, <1>4, <1>7, <1>14, <2>1 DEF RenameTmp
<1>15. CASE WriteFails
  <2>1. FileTypes'
    BY <1>15, FilesAsTheyWere DEF WriteFails
  <2> QED
    BY <1>3, <1>4, <1>7, <1>15, <2>1 DEF WriteFails
<1> QED
  BY <1>8, <1>9, <1>10, <1>12, <1>13, <1>14, <1>15 DEF Resolve
-----------------------------------------------------------------------------
(* The monitor. *)

LEMMA NotedTypes ==
  ASSUME NEW W, NEW f, NEW b \in W, NEW v \in BOOLEAN, DOMAIN f \subseteq W,
         \A x \in DOMAIN f : f[x] \in BOOLEAN
  PROVE  /\ DOMAIN Noted(f, b, v) = DOMAIN f \cup {b} /\ DOMAIN Noted(f, b, v) \subseteq W
         /\ \A x \in DOMAIN Noted(f, b, v) : Noted(f, b, v)[x] \in BOOLEAN
<1>1. DOMAIN Noted(f, b, v) = DOMAIN f \cup {b}
  BY DEF Noted
<1>2. \A x \in DOMAIN f \cup {b} : Noted(f, b, v)[x] = IF x = b THEN v ELSE f[x]
  BY DEF Noted
<1>3. ASSUME NEW x \in DOMAIN f \cup {b} PROVE Noted(f, b, v)[x] \in BOOLEAN
  <2>1. CASE x = b
    BY <1>2, <2>1, Zenon
  <2>2. CASE x # b
    BY <1>2, <2>2, Zenon
  <2> QED
    BY <2>1, <2>2
<1> QED
  BY <1>1, <1>3

LEMMA MonitorStep ==
  ASSUME TInv, Monitor \/ \E b \in AllBackends : Flip(b), UNCHANGED keysVars
  PROVE  MonitorTypes'
<1>1. state' = state /\ HealthTypeOK
  BY DEF keysVars, build, TInv, MonitorTypes
<1>2. /\ state = NoState => monitor = "off"
      /\ monitor # "round" => todo = {}
      /\ monitor = "off" => DOMAIN status = {} /\ DOMAIN gauge = {}
  BY DEF TInv, MonitorTypes
<1>3. DOMAIN NoStatus = {}
  BY DEF NoStatus
<1>4. CASE \E b \in AllBackends : Flip(b)
  <2>1. PICK b \in AllBackends : Flip(b)
    BY <1>4
  <2>2. /\ flips' = flips + 1 /\ flips < MaxFlips /\ reachable' \subseteq reachable \cup {b}
        /\ UNCHANGED <<monitor, watched, todo, newStatus, status, gauge>>
    BY <2>1 DEF Flip
  <2>3. reachable' \subseteq AllBackends /\ flips' \in 0 .. MaxFlips
    BY <1>1, <2>2, Bounds DEF HealthTypeOK
  <2> QED
    BY <1>1, <1>2, <2>2, <2>3 DEF MonitorTypes, HealthTypeOK
<1>5. CASE BeginRound
  BY <1>1, <1>2, <1>3, <1>5 DEF BeginRound, world, MonitorTypes, HealthTypeOK
<1>6. CASE \E b \in AllBackends : Check(b)
  <2>1. PICK b \in AllBackends : Check(b)
    BY <1>6
  <2>2. /\ b \in todo /\ todo' = todo \ {b}
        /\ newStatus' = Noted(newStatus, b, b \in reachable)
        /\ gauge' = Noted(gauge, b, b \in reachable)
        /\ UNCHANGED <<reachable, flips, monitor, watched, status>>
    BY <2>1 DEF Check, world
  <2>3. monitor = "round" /\ b \in watched /\ todo \subseteq watched
    BY <1>1, <1>2, <2>2 DEF HealthTypeOK
  <2>4. (b \in reachable) \in BOOLEAN
    OBVIOUS
  <2>5. /\ DOMAIN newStatus = watched \ todo
        /\ \A f \in {newStatus, status, gauge} :
             DOMAIN f \subseteq watched /\ \A x \in DOMAIN f : f[x] \in BOOLEAN
    BY <1>1, <2>3 DEF HealthTypeOK
  <2> DEFINE v == b \in reachable
  <2>6. v \in BOOLEAN /\ newStatus' = Noted(newStatus, b, v) /\ gauge' = Noted(gauge, b, v)
    BY <2>2, <2>4
  <2> HIDE DEF v
  <2>7. /\ DOMAIN newStatus \subseteq watched /\ \A x \in DOMAIN newStatus : newStatus[x] \in BOOLEAN
        /\ DOMAIN gauge \subseteq watched /\ \A x \in DOMAIN gauge : gauge[x] \in BOOLEAN
    BY <2>5, Zenon
  <2>8. /\ DOMAIN newStatus' = DOMAIN newStatus \cup {b} /\ DOMAIN newStatus' \subseteq watched
        /\ \A x \in DOMAIN newStatus' : newStatus'[x] \in BOOLEAN
    BY <2>3, <2>6, <2>7, NotedTypes, Zenon
  <2>9. /\ DOMAIN gauge' \subseteq watched
        /\ \A x \in DOMAIN gauge' : gauge'[x] \in BOOLEAN
    BY <2>3, <2>6, <2>7, NotedTypes, Zenon
  <2>10. DOMAIN newStatus' = watched \ todo'
    BY <2>2, <2>3, <2>5, <2>8
  <2>11. \A f \in {newStatus', status', gauge'} :
          DOMAIN f \subseteq watched' /\ \A x \in DOMAIN f : f[x] \in BOOLEAN
    BY <2>2, <2>5, <2>8, <2>9
  <2>12. HealthTypeOK'
    BY <1>1, <2>2, <2>3, <2>10, <2>11 DEF HealthTypeOK
  <2> QED
    BY <1>1, <1>2, <2>2, <2>3, <2>12 DEF MonitorTypes
<1>7. CASE EndRound
  BY <1>1, <1>2, <1>3, <1>7 DEF EndRound, StatusAfterRound, world, MonitorTypes, HealthTypeOK
<1> QED
  BY <1>4, <1>5, <1>6, <1>7 DEF Monitor

LEMMA StartUpMonitor ==
  ASSUME IInv, TInv, StartUp
  PROVE  MonitorTypes'
<1>1. /\ state' # NoState /\ config.backends \subseteq AllBackends
      /\ config.interval \in Nat
  BY CompleteTypes, ConfigsAssumption DEF StartUp
<1>2. /\ monitor = "off" /\ todo = {} /\ DOMAIN status = {} /\ DOMAIN gauge = {} /\ DOMAIN newStatus = {}
      /\ HealthTypeOK
  BY DEF StartUp, TInv, MonitorTypes, HealthTypeOK
<1>3. /\ monitor' \in {"idle", "off"} /\ watched' = config.backends
      /\ UNCHANGED <<todo, newStatus, status, gauge, reachable, flips>>
  BY DEF StartUp, StartMonitor, world
<1>4. HealthTypeOK'
  BY <1>1, <1>2, <1>3 DEF HealthTypeOK
<1> QED
  BY <1>1, <1>2, <1>3, <1>4 DEF MonitorTypes

LEMMA StopTypes == ASSUME TInv, ProcessDies PROVE MonitorTypes'
<1>1. DOMAIN NoStatus = {}
  BY DEF NoStatus
<1>2. /\ monitor' = "off" /\ watched' = {} /\ todo' = {}
      /\ newStatus' = NoStatus /\ status' = NoStatus /\ gauge' = NoStatus
      /\ UNCHANGED <<reachable, flips>>
  BY DEF ProcessDies, StopMonitor, Stopped, world
<1>3. HealthTypeOK'
  BY <1>1, <1>2 DEF HealthTypeOK, TInv, MonitorTypes
<1> QED
  BY <1>1, <1>2, <1>3 DEF MonitorTypes

LEMMA MonitorAsItWas ==
  ASSUME TInv, UNCHANGED healthVars, state' = NoState => state = NoState
  PROVE  MonitorTypes'
BY DEF TInv, MonitorTypes, HealthTypeOK, healthVars, world

LEMMA TypesStep == IInv /\ TInv /\ [Next]_vars => TInv'
<1> SUFFICES ASSUME IInv, TInv, [Next]_vars PROVE TInv'
  OBVIOUS
<1>1. CASE StartUp
  BY <1>1, CompleteTypes, StartUpMonitor DEF StartUp, ProcessTypes, TInv
<1>2. CASE Reloaded
  BY <1>2, CompleteTypes, MonitorAsItWas DEF Reloaded, ProcessTypes, TInv
<1>3. CASE Resolve /\ UNCHANGED healthVars
  BY <1>3, ResolveTypes, MonitorAsItWas DEF ProcessTypes, TInv
<1>4. CASE OtherFailure /\ UNCHANGED healthVars
  <2>1. GiveUp("other") /\ UNCHANGED state
    BY <1>4 DEF OtherFailure, GiveUp
  <2>2. "other" \in Names \cup {"other"}
    OBVIOUS
  <2> QED
    BY <1>4, <2>1, <2>2, GiveUpTypes, MonitorAsItWas DEF TInv
<1>5. CASE ProcessDies
  BY <1>5, DieTypes, StopTypes DEF ProcessDies, ProcessTypes, TInv
<1>6. CASE (Tick \/ \E n \in Names : Publish(n)) /\ UNCHANGED healthVars
  <2>1. UNCHANGED state
    BY <1>6 DEF Tick, Publish, build
  <2> QED
    BY <1>6, <2>1, WorldTypes, MonitorAsItWas DEF ProcessTypes, TInv
<1>7. CASE (\E c \in Configs : Begin(c)) /\ UNCHANGED healthVars
  <2>1. UNCHANGED state
    BY <1>7 DEF Begin
  <2> QED
    BY <1>7, <2>1, BeginTypes, MonitorAsItWas DEF ProcessTypes, TInv
<1>8. ASSUME UNCHANGED keysVars PROVE ProcessTypes' /\ UNCHANGED state
  <2>1. UNCHANGED <<now, replaced, caching, phase, builds, config, keys, data, state, outcome,
                    cache, tmp, cachedOnce>>
    BY <1>8 DEF keysVars, internet, build, files
  <2> QED
    BY <2>1 DEF ProcessTypes, TInv, NetTypes, PhaseTypes, KeyTypes, StateTypes, FileTypes, Version
<1>9. CASE (Monitor \/ \E b \in AllBackends : Flip(b)) /\ UNCHANGED keysVars
  BY <1>8, <1>9, MonitorStep DEF ProcessTypes, TInv
<1>10. CASE UNCHANGED vars
  BY <1>8, <1>10, MonitorAsItWas DEF vars, ProcessTypes, TInv
<1> QED
  BY <1>1, <1>2, <1>3, <1>4, <1>5, <1>6, <1>7, <1>9, <1>10 DEF Next, Process

(* Every build, cache file and State has the shape the code gives it at    *)
(* every step of the process, and the monitor of the first State says      *)
(* nothing of a backend it was not given: /healthz and the gauge are about *)
(* the backends of the start, all of them or, before the first round, none.*)
THEOREM ProcessTyped == Spec => []TypeOK
<1>1. Init => TInv
  BY InitTypes
<1>2. IInv /\ TInv /\ [Next]_vars => TInv'
  BY TypesStep
<1>3. TInv => TypeOK
  BY TypesAreThese DEF TInv, MonitorTypes, TypeOK
<1> QED
  BY <1>1, <1>2, <1>3, Inductive, PTL DEF Spec
=============================================================================
