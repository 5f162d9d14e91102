----------------------------- MODULE ServerProofs -----------------------------
(***************************************************************************)
(* The server, for any users, configurations, connections and reloads: the *)
(* limiter's places are those of the running sessions, a Run that returns  *)
(* in time leaves nothing behind, a connection with a new State is not     *)
(* held to older limits, a user that every configuration limits has no     *)
(* more sessions than one of them allows, and the sessions of a user that  *)
(* every configuration throttles share one token bucket.                   *)
(*                                                                         *)
(* The wait group counts the handlers that run, which are the tracked      *)
(* connections; an accepted connection has no handler yet and is in the    *)
(* hands of the accept loop, so that draining cannot begin before it has   *)
(* one.                                                                    *)
(***************************************************************************)
EXTENDS Server, FiniteSetTheorems, SequenceTheorems, TLAPS

Phases == {"none", "backlog", "accepted", "handshake", "admit", "setup", "serving", "leaving"}

(* The types of what the proofs are about. *)
CoreTypes ==
  /\ configs \in Seq(Configs)
  /\ current \in Nat /\ limited \in Nat /\ rated \in Nat
  /\ holders \in [Users -> SUBSET Conns]
  /\ phase \in [Conns -> Phases]
  /\ user \in [Conns -> Users \cup {NoUser}]
  /\ seen \in [Conns -> Nat]
  /\ loop \in [at : {"accept", "wait", "spawn", "drain", "drained", "timed out"},
               conn : SUBSET Conns]

(* A reload moves the limits first, then the rates, then the State; what a *)
(* running handler was given was the State at some time.                   *)
InOrder ==
  /\ 1 <= current /\ current <= rated /\ rated <= limited /\ limited <= Len(configs)
  /\ \A c \in Running : 1 <= seen[c] /\ seen[c] <= current

(* Who is past the handshake is a user. *)
KnownUsers == \A c \in Conns : phase[c] \in {"admit", "setup", "serving"} => user[c] \in Users

(* The accept loop has in its hands the connection it has just accepted.   *)
LoopHoldsAccepted ==
  /\ loop.conn = {c \in Conns : phase[c] = "accepted"}
  /\ IF loop.at \in {"wait", "spawn"} THEN \E c \in Conns : loop.conn = {c}
     ELSE loop.conn = {}

HandlersAreCounted == tracked = Running /\ wg = Cardinality(Running)

NothingRunsAfterDrain == loop.at = "drained" => Running = {}

IInv ==
  /\ CoreTypes /\ InOrder /\ KnownUsers /\ LoopHoldsAccepted
  /\ HandlersAreCounted /\ NothingRunsAfterDrain /\ PlacesAreSessions

core == <<configs, current, limited, rated, holders, phase, user, seen, loop, tracked, wg>>
-----------------------------------------------------------------------------
LEMMA RunningIsFinite == IsFiniteSet(Running) /\ Cardinality(Running) \in Nat
<1>1. Running \in SUBSET Conns
  BY DEF Running
<1> QED
  BY <1>1, ConnsAssumption, FS_Subset, FS_CardinalityType

(* A loaded configuration has its users among Users. *)
LEMMA ConfigFacts ==
  ASSUME CoreTypes, NEW i \in Nat, 1 <= i, i <= Len(configs)
  PROVE  configs[i] \in Configs /\ configs[i].known \subseteq Users
<1>1. configs[i] \in Configs
  <2>1. configs \in Seq(Configs)
    BY DEF CoreTypes
  <2>2. Len(configs) \in Nat
    BY <2>1, LenProperties
  <2>3. i \in 1 .. Len(configs)
    BY <2>2
  <2> QED
    BY <2>1, <2>3, ElementOfSeq
<1> QED
  BY <1>1, ConfigsAssumption

LEMMA InitHolds == Init => IInv
<1> SUFFICES ASSUME Init PROVE IInv
  OBVIOUS
<1>1. Running = {} /\ Admitted = {}
  BY DEF Init, Running, Admitted
<1>2. CoreTypes
  <2>1. configs \in Seq(Configs)
    BY DEF Init
  <2>2. /\ current \in Nat /\ limited \in Nat /\ rated \in Nat
        /\ loop \in [at : {"accept", "wait", "spawn", "drain", "drained", "timed out"},
                     conn : SUBSET Conns]
    BY DEF Init
  <2>3. /\ phase \in [Conns -> Phases] /\ user \in [Conns -> Users \cup {NoUser}]
        /\ seen \in [Conns -> Nat] /\ holders \in [Users -> SUBSET Conns]
    BY DEF Init, Phases
  <2> QED
    BY <2>1, <2>2, <2>3 DEF CoreTypes
<1>3. InOrder
  BY <1>1 DEF Init, InOrder
<1>4. KnownUsers /\ LoopHoldsAccepted
  BY DEF Init, KnownUsers, LoopHoldsAccepted
<1>5. HandlersAreCounted /\ NothingRunsAfterDrain
  BY <1>1, FS_EmptySet DEF Init, HandlersAreCounted, NothingRunsAfterDrain
<1>6. PlacesAreSessions
  BY <1>1 DEF Init, PlacesAreSessions, SessionsOf
<1> QED
  BY <1>2, <1>3, <1>4, <1>5, <1>6 DEF IInv
-----------------------------------------------------------------------------
(* Steps that change nothing of the above. *)
LEMMA QuietStep ==
  ASSUME IInv, UNCHANGED core
  PROVE  IInv'
BY DEF IInv, core, CoreTypes, InOrder, KnownUsers, LoopHoldsAccepted, HandlersAreCounted,
       NothingRunsAfterDrain, PlacesAreSessions, SessionsOf, Running, Admitted

(* The steps of a reload. *)
LEMMA ReloadStep ==
  ASSUME IInv, Reload
  PROVE  IInv'
<1> USE DEF limiterVars, registryVars, loopVars, connVars
<1> DEFINE Kept == UNCHANGED <<holders, phase, user, seen, loop, tracked, wg>>
           Ordered == /\ configs' \in Seq(Configs)
                      /\ current' \in Nat /\ limited' \in Nat /\ rated' \in Nat
                      /\ current <= current' /\ current' <= rated' /\ rated' <= limited'
                      /\ limited' <= Len(configs')
<1>0. /\ configs \in Seq(Configs) /\ Len(configs) \in Nat
      /\ current \in Nat /\ limited \in Nat /\ rated \in Nat
      /\ current <= rated /\ rated <= limited /\ limited <= Len(configs)
  BY LenProperties DEF IInv, CoreTypes, InOrder
<1>1. ASSUME Load PROVE Kept /\ Ordered
  <2> PICK g \in Configs : configs' = Append(configs, g)
    BY <1>1 DEF Load
  <2>1. configs' \in Seq(Configs) /\ Len(configs') = Len(configs) + 1
    BY <1>0, AppendProperties
  <2> QED
    BY <1>0, <1>1, <2>1 DEF Load
<1>2. ASSUME UpdateLimits PROVE Kept /\ Ordered
  BY <1>0, <1>2 DEF UpdateLimits, Limiter!UpdateTo
<1>3. ASSUME UpdateRates PROVE Kept /\ Ordered
  BY <1>0, <1>3 DEF UpdateRates
<1>4. ASSUME StoreState PROVE Kept /\ Ordered
  BY <1>0, <1>4 DEF StoreState, Storable
<1>5. Kept /\ Ordered
  BY <1>1, <1>2, <1>3, <1>4 DEF Reload
<1>6. CoreTypes' /\ KnownUsers' /\ LoopHoldsAccepted'
  BY <1>5 DEF IInv, CoreTypes, KnownUsers, LoopHoldsAccepted
<1>7. InOrder'
  <2>1. 1 <= current /\ \A c \in Running : seen[c] \in Nat /\ 1 <= seen[c] /\ seen[c] <= current
    BY DEF IInv, CoreTypes, InOrder, Running
  <2>2. Running' = Running /\ seen' = seen
    BY <1>5 DEF Running
  <2> QED
    BY <1>0, <1>5, <2>1, <2>2 DEF InOrder
<1>8. HandlersAreCounted' /\ NothingRunsAfterDrain' /\ PlacesAreSessions'
  BY <1>5 DEF IInv, HandlersAreCounted, NothingRunsAfterDrain, PlacesAreSessions, SessionsOf,
              Running, Admitted
<1> QED
  BY <1>6, <1>7, <1>8 DEF IInv
-----------------------------------------------------------------------------
RunningPhases == {"handshake", "admit", "setup", "serving", "leaving"}

(* No new handler, or one with the current State. *)
LEMMA OrderKept ==
  ASSUME IInv, UNCHANGED <<configs, current, limited, rated>>,
         \A c \in Running' : (c \in Running /\ seen'[c] = seen[c]) \/ seen'[c] = current
  PROVE  InOrder'
<1>1. current \in Nat
  BY DEF IInv, CoreTypes
<1> QED
  BY <1>1 DEF IInv, InOrder

(* A handler goes from one of its phases to another. *)
LEMMA HandlerMoves ==
  ASSUME IInv, NEW c \in Conns, NEW p \in RunningPhases, phase[c] \in RunningPhases, Enter(c, p),
         UNCHANGED <<configVars, loop, seen, tracked, wg>>
  PROVE  /\ InOrder' /\ LoopHoldsAccepted' /\ HandlersAreCounted' /\ NothingRunsAfterDrain'
         /\ phase' \in [Conns -> Phases]
         /\ \A d \in Conns : phase'[d] = IF d = c THEN p ELSE phase[d]
<1>1. phase \in [Conns -> Phases]
  BY DEF IInv, CoreTypes
<1>2. \A d \in Conns : phase'[d] = IF d = c THEN p ELSE phase[d]
  BY <1>1 DEF Enter
<1>3. phase' \in [Conns -> Phases]
  BY <1>1 DEF Enter, RunningPhases, Phases
<1>4. Running' = Running
  BY <1>2 DEF Running, RunningPhases
<1>5. InOrder'
  BY <1>4, OrderKept DEF configVars
<1>6. \A d \in Conns : phase'[d] = "accepted" <=> phase[d] = "accepted"
  BY <1>2 DEF RunningPhases
<1>7. LoopHoldsAccepted'
  BY <1>6 DEF IInv, LoopHoldsAccepted
<1>8. HandlersAreCounted' /\ NothingRunsAfterDrain'
  BY <1>4 DEF IInv, HandlersAreCounted, NothingRunsAfterDrain
<1> QED
  BY <1>2, <1>3, <1>5, <1>7, <1>8

(* The handshake, its failure, a refusal, and the choice of a bucket. *)
LEMMA HandshakeStep ==
  ASSUME IInv, NEW c \in Conns, Handshake(c) \/ HandshakeFails(c) \/ Refuse(c) \/ TakeBucket(c)
  PROVE  IInv'
<1>1. /\ UNCHANGED <<configVars, loop, seen, tracked, wg, holders>>
      /\ phase[c] \in RunningPhases
  BY DEF Handshake, HandshakeFails, Refuse, TakeBucket, limiterVars, loopVars, RunningPhases
<1>2. PICK q \in RunningPhases : Enter(c, q) /\ (q \in {"setup", "serving"} <=> phase[c] \in {"setup", "serving"})
  BY DEF Handshake, HandshakeFails, Refuse, TakeBucket, RunningPhases
<1>3. /\ InOrder' /\ LoopHoldsAccepted' /\ HandlersAreCounted' /\ NothingRunsAfterDrain'
      /\ phase' \in [Conns -> Phases]
      /\ \A d \in Conns : phase'[d] = IF d = c THEN q ELSE phase[d]
  BY <1>1, <1>2, HandlerMoves
<1>4. /\ user' \in [Conns -> Users \cup {NoUser}]
      /\ q \in {"admit", "setup", "serving"} => user'[c] \in Users
      /\ \A d \in Conns : d # c \/ phase[d] # "handshake" => user'[d] = user[d]
  <2>1. user \in [Conns -> Users \cup {NoUser}]
    BY DEF IInv, CoreTypes
  <2>2. ASSUME Handshake(c) PROVE \E u \in Users : user' = [user EXCEPT ![c] = u]
    <3>1. c \in Running
      BY <2>2 DEF Handshake, Running
    <3>2. seen[c] \in Nat /\ 1 <= seen[c] /\ seen[c] <= Len(configs)
      <4>1. Len(configs) \in Nat
        BY LenProperties DEF IInv, CoreTypes
      <4>2. /\ current \in Nat /\ rated \in Nat /\ limited \in Nat
            /\ current <= rated /\ rated <= limited /\ limited <= Len(configs)
        BY DEF IInv, CoreTypes, InOrder
      <4>3. seen[c] \in Nat /\ 1 <= seen[c] /\ seen[c] <= current
        BY <3>1 DEF IInv, CoreTypes, InOrder
      <4> QED
        BY <4>1, <4>2, <4>3
    <3>3. configs[seen[c]].known \subseteq Users
      BY <3>2, ConfigFacts DEF IInv
    <3> QED
      BY <2>2, <3>3 DEF Handshake
  <2>3. ASSUME HandshakeFails(c) \/ Refuse(c) \/ TakeBucket(c)
        PROVE  user' = user /\ (q = "serving" \/ q = "leaving") /\ (q = "serving" => phase[c] = "setup")
    BY <1>3, <2>3 DEF HandshakeFails, Refuse, TakeBucket, Enter, IInv, CoreTypes
  <2>4. CASE Handshake(c)
    <3>1. phase[c] = "handshake"
      BY <2>4 DEF Handshake
    <3> QED
      BY <2>1, <2>2, <2>4, <3>1
  <2>5. CASE HandshakeFails(c) \/ Refuse(c) \/ TakeBucket(c)
    BY <2>1, <2>3, <2>5 DEF IInv, KnownUsers
  <2> QED
    BY <2>4, <2>5
<1>5. CoreTypes'
  BY <1>1, <1>3, <1>4 DEF IInv, CoreTypes, configVars
<1>6. KnownUsers'
  BY <1>3, <1>4 DEF IInv, KnownUsers
<1>7. PlacesAreSessions'
  <2>1. \A u \in Users : SessionsOf(u)' = SessionsOf(u)
    BY <1>2, <1>3, <1>4 DEF SessionsOf, Admitted
  <2> QED
    BY <1>1, <2>1 DEF IInv, PlacesAreSessions
<1> QED
  BY <1>3, <1>5, <1>6, <1>7 DEF IInv

(* The limiter admits a connection: a place for a session. *)
LEMMA AdmitStep ==
  ASSUME IInv, NEW c \in Conns, Admit(c)
  PROVE  IInv'
<1>1. /\ UNCHANGED <<configVars, loop, seen, tracked, wg, user>>
      /\ phase[c] = "admit" /\ Enter(c, "setup")
      /\ holders' = [holders EXCEPT ![user[c]] = @ \cup {c}]
  BY DEF Admit, Limiter!Acquire, loopVars
<1>2. phase[c] \in RunningPhases /\ "setup" \in RunningPhases
  BY <1>1 DEF RunningPhases
<1>3. /\ InOrder' /\ LoopHoldsAccepted' /\ HandlersAreCounted' /\ NothingRunsAfterDrain'
      /\ phase' \in [Conns -> Phases]
      /\ \A d \in Conns : phase'[d] = IF d = c THEN "setup" ELSE phase[d]
  BY <1>1, <1>2, HandlerMoves
<1>4. user[c] \in Users
  BY <1>1 DEF IInv, KnownUsers
<1>5. holders' \in [Users -> SUBSET Conns]
  BY <1>1, <1>4 DEF IInv, CoreTypes
<1>6. CoreTypes'
  BY <1>1, <1>3, <1>5 DEF IInv, CoreTypes, configVars
<1>7. KnownUsers'
  BY <1>1, <1>3, <1>4 DEF IInv, KnownUsers
<1>8. PlacesAreSessions'
  <2> SUFFICES ASSUME NEW u \in Users PROVE holders'[u] = SessionsOf(u)'
    BY DEF PlacesAreSessions
  <2>1. holders[u] = SessionsOf(u)
    BY DEF IInv, PlacesAreSessions
  <2>2. holders'[u] = IF u = user[c] THEN holders[u] \cup {c} ELSE holders[u]
    BY <1>1 DEF IInv, CoreTypes
  <2> QED
    BY <1>1, <1>3, <2>1, <2>2 DEF SessionsOf, Admitted
<1> QED
  BY <1>3, <1>6, <1>7, <1>8 DEF IInv

(* A session ends, and gives its place back. *)
LEMMA EndSessionStep ==
  ASSUME IInv, NEW c \in Conns, EndSession(c)
  PROVE  IInv'
<1>1. /\ UNCHANGED <<configVars, loop, seen, tracked, wg, user>>
      /\ phase[c] = "serving" /\ Enter(c, "leaving")
      /\ holders' = [holders EXCEPT ![user[c]] = @ \ {c}]
  BY DEF EndSession, Limiter!Release, loopVars
<1>2. phase[c] \in RunningPhases /\ "leaving" \in RunningPhases
  BY <1>1 DEF RunningPhases
<1>3. /\ InOrder' /\ LoopHoldsAccepted' /\ HandlersAreCounted' /\ NothingRunsAfterDrain'
      /\ phase' \in [Conns -> Phases]
      /\ \A d \in Conns : phase'[d] = IF d = c THEN "leaving" ELSE phase[d]
  BY <1>1, <1>2, HandlerMoves
<1>4. user[c] \in Users
  BY <1>1 DEF IInv, KnownUsers
<1>5. holders' \in [Users -> SUBSET Conns]
  BY <1>1, <1>4 DEF IInv, CoreTypes
<1>6. CoreTypes'
  BY <1>1, <1>3, <1>5 DEF IInv, CoreTypes, configVars
<1>7. KnownUsers'
  BY <1>1, <1>3, <1>4 DEF IInv, KnownUsers
<1>8. PlacesAreSessions'
  <2> SUFFICES ASSUME NEW u \in Users PROVE holders'[u] = SessionsOf(u)'
    BY DEF PlacesAreSessions
  <2>1. holders[u] = SessionsOf(u)
    BY DEF IInv, PlacesAreSessions
  <2>2. holders'[u] = IF u = user[c] THEN holders[u] \ {c} ELSE holders[u]
    BY <1>1 DEF IInv, CoreTypes
  <2> QED
    BY <1>1, <1>3, <2>1, <2>2 DEF SessionsOf, Admitted
<1> QED
  BY <1>3, <1>6, <1>7, <1>8 DEF IInv

(* Connections without a session are forgotten. *)
LEMMA ForgetStep ==
  ASSUME IInv, NEW S \in SUBSET Conns, Forget(S), \A c \in S : c \notin Admitted,
         UNCHANGED <<configVars, holders>>, loop' \in [at : {"accept", "wait", "spawn", "drain",
            "drained", "timed out"}, conn : SUBSET Conns]
  PROVE  /\ CoreTypes' /\ InOrder' /\ KnownUsers' /\ PlacesAreSessions'
         /\ \A d \in Conns : phase'[d] = IF d \in S THEN "none" ELSE phase[d]
         /\ Running' = Running \ S
<1>1. /\ \A d \in Conns : phase'[d] = IF d \in S THEN "none" ELSE phase[d]
      /\ \A d \in Conns : d \notin S => user'[d] = user[d] /\ seen'[d] = seen[d]
  BY DEF Forget
<1>2. /\ phase' \in [Conns -> Phases] /\ user' \in [Conns -> Users \cup {NoUser}]
      /\ seen' \in [Conns -> Nat]
  BY DEF Forget, IInv, CoreTypes, Phases
<1>3. Running' = Running \ S
  BY <1>1 DEF Running
<1>4. CoreTypes'
  BY <1>2 DEF IInv, CoreTypes, configVars
<1>5. InOrder'
  <2>1. \A c \in Running' : c \in Running /\ seen'[c] = seen[c]
    BY <1>1, <1>3 DEF Running
  <2> QED
    BY <2>1, OrderKept DEF configVars
<1>6. KnownUsers'
  BY <1>1 DEF IInv, KnownUsers
<1>7. PlacesAreSessions'
  <2>1. \A u \in Users : SessionsOf(u)' = SessionsOf(u)
    BY <1>1 DEF SessionsOf, Admitted
  <2> QED
    BY <2>1 DEF IInv, PlacesAreSessions
<1> QED
  BY <1>1, <1>3, <1>4, <1>5, <1>6, <1>7

(* The handler ends. *)
LEMMA LeaveStep ==
  ASSUME IInv, NEW c \in Conns, Leave(c)
  PROVE  IInv'
<1>1. /\ phase[c] = "leaving" /\ Forget({c}) /\ tracked' = tracked \ {c} /\ wg' = wg - 1
      /\ UNCHANGED <<configVars, holders, loop>>
  BY DEF Leave, limiterVars, loopVars
<1>2. c \in Running /\ c \notin Admitted
  BY <1>1 DEF Running, Admitted
<1>3. /\ CoreTypes' /\ InOrder' /\ KnownUsers' /\ PlacesAreSessions'
      /\ \A d \in Conns : phase'[d] = IF d \in {c} THEN "none" ELSE phase[d]
      /\ Running' = Running \ {c}
  <2>1. loop' \in [at : {"accept", "wait", "spawn", "drain", "drained", "timed out"},
                   conn : SUBSET Conns]
    BY <1>1 DEF IInv, CoreTypes
  <2> QED
    BY <1>1, <1>2, <2>1, ForgetStep
<1>4. Cardinality(Running \ {c}) = Cardinality(Running) - 1
  BY <1>2, RunningIsFinite, FS_RemoveElement
<1>5. HandlersAreCounted'
  BY <1>1, <1>3, <1>4 DEF IInv, HandlersAreCounted
<1>6. LoopHoldsAccepted' /\ NothingRunsAfterDrain'
  BY <1>1, <1>3 DEF IInv, LoopHoldsAccepted, NothingRunsAfterDrain
<1> QED
  BY <1>3, <1>5, <1>6 DEF IInv
-----------------------------------------------------------------------------
LoopTypes == [at : {"accept", "wait", "spawn", "drain", "drained", "timed out"},
              conn : SUBSET Conns]

(* A connection without a handler becomes another one without a handler.   *)
LEMMA ArrivalMoves ==
  ASSUME IInv, NEW c \in Conns, NEW p \in {"backlog", "accepted"}, phase[c] \in {"none", "backlog"},
         Enter(c, p), loop' \in LoopTypes, UNCHANGED <<configVars, holders, user, seen, tracked, wg>>
  PROVE  /\ CoreTypes' /\ InOrder' /\ KnownUsers' /\ HandlersAreCounted' /\ PlacesAreSessions'
         /\ \A d \in Conns : phase'[d] = IF d = c THEN p ELSE phase[d]
         /\ Running' = Running
<1>1. phase \in [Conns -> Phases]
  BY DEF IInv, CoreTypes
<1>2. /\ \A d \in Conns : phase'[d] = IF d = c THEN p ELSE phase[d]
      /\ phase' \in [Conns -> Phases]
  BY <1>1 DEF Enter, Phases
<1>3. Running' = Running
  BY <1>2 DEF Running
<1>4. CoreTypes'
  BY <1>2 DEF IInv, CoreTypes, configVars, LoopTypes
<1>5. InOrder'
  BY <1>3, OrderKept DEF configVars
<1>6. KnownUsers'
  BY <1>2 DEF IInv, KnownUsers
<1>7. HandlersAreCounted'
  BY <1>3 DEF IInv, HandlersAreCounted
<1>8. PlacesAreSessions'
  <2>1. \A u \in Users : SessionsOf(u)' = SessionsOf(u)
    BY <1>2 DEF SessionsOf, Admitted
  <2> QED
    BY <2>1 DEF IInv, PlacesAreSessions
<1> QED
  BY <1>2, <1>3, <1>4, <1>5, <1>6, <1>7, <1>8

(* A client dials: the connection waits in the backlog. *)
LEMMA DialStep ==
  ASSUME IInv, NEW c \in Conns, Dial(c)
  PROVE  IInv'
<1>1. /\ phase[c] = "none" /\ Enter(c, "backlog")
      /\ UNCHANGED <<configVars, holders, user, seen, tracked, wg, loop>>
  BY DEF Dial, limiterVars, loopVars
<1>2. loop' \in LoopTypes
  BY <1>1 DEF IInv, CoreTypes, LoopTypes
<1>3. /\ CoreTypes' /\ InOrder' /\ KnownUsers' /\ HandlersAreCounted' /\ PlacesAreSessions'
      /\ \A d \in Conns : phase'[d] = IF d = c THEN "backlog" ELSE phase[d]
      /\ Running' = Running
  BY <1>1, <1>2, ArrivalMoves
<1>4. LoopHoldsAccepted' /\ NothingRunsAfterDrain'
  BY <1>1, <1>3 DEF IInv, LoopHoldsAccepted, NothingRunsAfterDrain
<1> QED
  BY <1>3, <1>4 DEF IInv

(* The loop accepts a connection: it holds no other. *)
LEMMA AcceptStep ==
  ASSUME IInv, NEW c \in Conns, Accept(c)
  PROVE  IInv'
<1>1. /\ phase[c] = "backlog" /\ Enter(c, "accepted") /\ loop.at = "accept"
      /\ UNCHANGED <<configVars, holders, user, seen, tracked, wg>>
  BY DEF Accept, limiterVars
<1>2. loop'.at \in {"wait", "spawn"} /\ loop'.conn = {c} /\ loop' \in LoopTypes
  BY DEF Accept, Goto, LoopTypes
<1>3. /\ CoreTypes' /\ InOrder' /\ KnownUsers' /\ HandlersAreCounted' /\ PlacesAreSessions'
      /\ \A d \in Conns : phase'[d] = IF d = c THEN "accepted" ELSE phase[d]
  BY <1>1, <1>2, ArrivalMoves
<1>4. {d \in Conns : phase[d] = "accepted"} = {}
  BY <1>1 DEF IInv, LoopHoldsAccepted
<1>5. {d \in Conns : phase'[d] = "accepted"} = {c}
  BY <1>3, <1>4
<1>6. LoopHoldsAccepted'
  BY <1>2, <1>5 DEF LoopHoldsAccepted
<1>7. NothingRunsAfterDrain'
  BY <1>2 DEF NothingRunsAfterDrain
<1> QED
  BY <1>3, <1>6, <1>7 DEF IInv

(* The throttle lets the accepted connection through, or drops it.         *)
LEMMA ThrottleStep ==
  ASSUME IInv, PassThrottle \/ FailThrottle
  PROVE  IInv'
<1>1. CASE PassThrottle
  <2>1. /\ loop.at = "wait" /\ loop' = [at |-> "spawn", conn |-> loop.conn]
        /\ UNCHANGED <<configs, current, limited, rated, holders, phase, user, seen, tracked, wg>>
    BY <1>1 DEF PassThrottle, Goto, configVars, limiterVars, connVars
  <2>2. loop.conn \in SUBSET Conns
    BY DEF IInv, CoreTypes
  <2>3. CoreTypes'
    BY <2>1, <2>2 DEF IInv, CoreTypes
  <2>4. LoopHoldsAccepted' /\ NothingRunsAfterDrain'
    BY <2>1 DEF IInv, LoopHoldsAccepted, NothingRunsAfterDrain
  <2>5. InOrder' /\ KnownUsers' /\ HandlersAreCounted' /\ PlacesAreSessions'
    BY <2>1 DEF IInv, InOrder, KnownUsers, HandlersAreCounted, PlacesAreSessions, SessionsOf,
                Running, Admitted
  <2> QED
    BY <2>3, <2>4, <2>5 DEF IInv
<1>2. CASE FailThrottle
  <2>1. /\ Forget(loop.conn) /\ loop' = [at |-> "accept", conn |-> {}]
        /\ UNCHANGED <<configVars, holders, tracked, wg>>
    BY <1>2 DEF FailThrottle, Goto, limiterVars
  <2>2. loop.conn \in SUBSET Conns /\ loop.conn = {c \in Conns : phase[c] = "accepted"}
    BY DEF IInv, CoreTypes, LoopHoldsAccepted
  <2>3. /\ CoreTypes' /\ InOrder' /\ KnownUsers' /\ PlacesAreSessions'
        /\ \A d \in Conns : phase'[d] = IF d \in loop.conn THEN "none" ELSE phase[d]
        /\ Running' = Running \ loop.conn
    <3>1. \A c \in loop.conn : c \notin Admitted
      BY <2>2 DEF Admitted
    <3>2. loop' \in [at : {"accept", "wait", "spawn", "drain", "drained", "timed out"},
                     conn : SUBSET Conns]
      BY <2>1
    <3> QED
      BY <2>1, <2>2, <3>1, <3>2, ForgetStep
  <2>4. Running' = Running
    BY <2>2, <2>3 DEF Running
  <2>5. HandlersAreCounted' /\ NothingRunsAfterDrain'
    BY <2>1, <2>4 DEF IInv, HandlersAreCounted, NothingRunsAfterDrain
  <2>6. LoopHoldsAccepted'
    BY <2>1, <2>2, <2>3 DEF LoopHoldsAccepted
  <2> QED
    BY <2>3, <2>5, <2>6 DEF IInv
<1> QED
  BY <1>1, <1>2

(* The accepted connection gets the current State and a handler.           *)
LEMMA SpawnStep ==
  ASSUME IInv, Spawn
  PROVE  IInv'
<1>1. /\ loop.at = "spawn" /\ loop' = [at |-> "accept", conn |-> {}]
      /\ tracked' = tracked \cup loop.conn /\ wg' = wg + 1
      /\ UNCHANGED <<configVars, holders, user>>
  BY DEF Spawn, Goto, WaitGroupAfterSpawn, limiterVars
<1>2. PICK c \in Conns : loop.conn = {c}
  BY <1>1 DEF IInv, LoopHoldsAccepted
<1>3. {d \in Conns : phase[d] = "accepted"} = {c} /\ phase[c] = "accepted"
  BY <1>2 DEF IInv, LoopHoldsAccepted
<1>4. /\ \A d \in Conns : phase'[d] = IF d = c THEN "handshake" ELSE phase[d]
      /\ \A d \in Conns : seen'[d] = IF d = c THEN current ELSE seen[d]
  BY <1>2 DEF Spawn
<1>5. /\ phase' \in [Conns -> Phases] /\ seen' \in [Conns -> Nat]
  BY DEF Spawn, IInv, CoreTypes, Phases
<1>6. Running' = Running \cup {c} /\ c \notin Running
  BY <1>3, <1>4 DEF Running
<1>7. CoreTypes'
  BY <1>1, <1>5 DEF IInv, CoreTypes, configVars
<1>8. InOrder'
  <2>1. \A d \in Running' : (d \in Running /\ seen'[d] = seen[d]) \/ seen'[d] = current
    BY <1>4, <1>6 DEF Running
  <2> QED
    BY <1>1, <2>1, OrderKept DEF configVars
<1>9. KnownUsers'
  BY <1>1, <1>4 DEF IInv, KnownUsers
<1>10. LoopHoldsAccepted'
  BY <1>1, <1>3, <1>4 DEF LoopHoldsAccepted
<1>11. HandlersAreCounted'
  <2>1. Cardinality(Running \cup {c}) = Cardinality(Running) + 1
    BY <1>6, RunningIsFinite, FS_AddElement
  <2> QED
    BY <1>1, <1>2, <1>6, <2>1 DEF IInv, HandlersAreCounted
<1>12. NothingRunsAfterDrain'
  BY <1>1 DEF NothingRunsAfterDrain
<1>13. PlacesAreSessions'
  <2>1. \A u \in Users : SessionsOf(u)' = SessionsOf(u)
    BY <1>1, <1>3, <1>4 DEF SessionsOf, Admitted
  <2> QED
    BY <1>1, <2>1 DEF IInv, PlacesAreSessions
<1> QED
  BY <1>7, <1>8, <1>9, <1>10, <1>11, <1>12, <1>13 DEF IInv

(* The loop, which holds no connection, begins to drain or returns; it     *)
(* returns in time when no handler is counted any more.                    *)
LEMMA DrainStep ==
  ASSUME IInv, BeginDrain \/ Drained \/ TimeOut
  PROVE  IInv'
<1>1. /\ UNCHANGED <<configs, current, limited, rated, holders, phase, user, seen, tracked, wg>>
      /\ loop.at \in {"accept", "drain"}
  BY DEF BeginDrain, Drained, TimeOut, Return, Goto, configVars, limiterVars, connVars
<1>2. PICK at \in {"drain", "drained", "timed out"} :
        loop' = [at |-> at, conn |-> {}] /\ (at = "drained" => wg = 0)
  BY DEF BeginDrain, Drained, TimeOut, Return, Goto
<1>3. loop' \in [at : {"accept", "wait", "spawn", "drain", "drained", "timed out"},
                 conn : SUBSET Conns]
  BY <1>2
<1>4. loop'.at = at /\ loop'.conn = {}
  BY <1>2
<1>5. CoreTypes'
  BY <1>1, <1>3 DEF IInv, CoreTypes
<1>6. InOrder' /\ KnownUsers' /\ HandlersAreCounted' /\ PlacesAreSessions' /\ Running' = Running
  BY <1>1 DEF IInv, InOrder, KnownUsers, HandlersAreCounted, PlacesAreSessions, SessionsOf,
              Running, Admitted
<1>7. LoopHoldsAccepted'
  <2>1. {c \in Conns : phase[c] = "accepted"} = {}
    BY <1>1 DEF IInv, LoopHoldsAccepted
  <2> QED
    BY <1>1, <1>4, <2>1 DEF LoopHoldsAccepted
<1>8. NothingRunsAfterDrain'
  <2>1. wg = 0 => Running = {}
    BY RunningIsFinite, FS_EmptySet DEF IInv, HandlersAreCounted
  <2> QED
    BY <1>2, <1>4, <1>6, <2>1 DEF NothingRunsAfterDrain
<1> QED
  BY <1>5, <1>6, <1>7, <1>8 DEF IInv

(* The listener is closed: the connections in the backlog are reset.       *)
LEMMA CloseListenerStep ==
  ASSUME IInv, CloseListener
  PROVE  IInv'
<1> DEFINE B == {c \in Conns : phase[c] = "backlog"}
<1>1. Forget(B) /\ UNCHANGED <<configVars, holders, tracked, wg, loop>>
  BY DEF CloseListener, limiterVars, loopVars
<1>2. /\ CoreTypes' /\ InOrder' /\ KnownUsers' /\ PlacesAreSessions'
      /\ \A d \in Conns : phase'[d] = IF d \in B THEN "none" ELSE phase[d]
      /\ Running' = Running \ B
  <2>1. B \in SUBSET Conns /\ \A c \in B : c \notin Admitted
    BY DEF Admitted
  <2>2. loop' \in [at : {"accept", "wait", "spawn", "drain", "drained", "timed out"},
                   conn : SUBSET Conns]
    BY <1>1 DEF IInv, CoreTypes
  <2> HIDE DEF B
  <2> QED
    BY <1>1, <2>1, <2>2, ForgetStep
<1>3. Running' = Running
  BY <1>2 DEF Running
<1>4. HandlersAreCounted' /\ NothingRunsAfterDrain'
  BY <1>1, <1>3 DEF IInv, HandlersAreCounted, NothingRunsAfterDrain
<1>5. LoopHoldsAccepted'
  BY <1>1, <1>2 DEF IInv, LoopHoldsAccepted
<1> QED
  BY <1>2, <1>4, <1>5 DEF IInv

LEMMA NextStep == IInv /\ [Next]_vars => IInv'
<1> SUFFICES ASSUME IInv, [Next]_vars PROVE IInv'
  OBVIOUS
<1>1. CASE UNCHANGED vars \/ Exited
  <2>1. UNCHANGED core
    BY <1>1 DEF Exited, vars, core, configVars, limiterVars, loopVars, connVars
  <2> QED
    BY <2>1, QuietStep
<1>2. CASE Reload
  BY <1>2, ReloadStep
<1>3. CASE Cancel \/ CloseTracked
  <2>1. UNCHANGED core
    BY <1>3 DEF Cancel, CloseTracked, core, configVars, limiterVars, loopVars, connVars
  <2> QED
    BY <2>1, QuietStep
<1>4. CASE CloseListener
  BY <1>4, CloseListenerStep
<1>5. CASE Loop \/ AcceptError
  BY <1>5, ThrottleStep, SpawnStep, DrainStep DEF Loop, AcceptError, AcceptFails
<1>6. ASSUME NEW c \in Conns, Connection(c) PROVE IInv'
  <2>1. CASE HangUp(c) \/ OpenChannel(c) \/ EndChannel(c)
    <3>1. UNCHANGED core
      BY <2>1 DEF HangUp, OpenChannel, EndChannel, core, configVars, limiterVars, loopVars
    <3> QED
      BY <3>1, QuietStep
  <2>2. CASE Handshake(c) \/ HandshakeFails(c) \/ Refuse(c) \/ TakeBucket(c)
    BY <2>2, HandshakeStep
  <2>3. CASE Dial(c) \/ Accept(c)
    BY <2>3, DialStep, AcceptStep
  <2>4. CASE Admit(c) \/ EndSession(c) \/ Leave(c)
    BY <2>4, AdmitStep, EndSessionStep, LeaveStep
  <2> QED
    BY <1>6, <2>1, <2>2, <2>3, <2>4 DEF Connection, Handler
<1> QED
  BY <1>1, <1>2, <1>3, <1>4, <1>5, <1>6 DEF Next, Closer

LEMMA Inductive == Spec => []IInv
<1>1. Init => IInv
  BY InitHolds
<1>2. IInv /\ [Next]_vars => IInv'
  BY NextStep
<1> QED
  BY <1>1, <1>2, PTL DEF Spec
-----------------------------------------------------------------------------
(* A place with the limiter is held exactly by the sessions that run: no   *)
(* way through handleConn leaks one or gives back what it never had.       *)
THEOREM PlacesHold == Spec => []PlacesAreSessions
<1>1. IInv => PlacesAreSessions
  BY DEF IInv
<1> QED
  BY <1>1, Inductive, PTL

(* If Run returns before its time is over, no handler runs, and no place,  *)
(* tracked connection or accepted connection is left: the wait group is    *)
(* raised before the handler's goroutine starts, by the loop itself.       *)
THEOREM DrainHolds == Spec => []DrainedIsEmpty
<1>1. IInv => DrainedIsEmpty
  <2> SUFFICES ASSUME IInv, loop.at = "drained"
               PROVE  /\ Running = {} /\ tracked = {}
                      /\ \A u \in Users : holders[u] = {}
                      /\ ~ \E c \in Conns : phase[c] = "accepted"
    BY DEF DrainedIsEmpty
  <2>1. Running = {} /\ tracked = {}
    BY DEF IInv, NothingRunsAfterDrain, HandlersAreCounted
  <2>2. \A u \in Users : holders[u] = {}
    BY <2>1 DEF IInv, PlacesAreSessions, SessionsOf, Admitted, Running
  <2>3. ~ \E c \in Conns : phase[c] = "accepted"
    BY DEF IInv, LoopHoldsAccepted
  <2> QED
    BY <2>1, <2>2, <2>3
<1> QED
  BY <1>1, Inductive, PTL

(* A connection with the State of a new configuration is never held to the *)
(* limits, or the rates, of an older one: main's reload updates the        *)
(* limiter and the registry before it stores the State.                    *)
THEOREM NewLimitsHold == Spec => NewStateNewLimits
<1>1. IInv => \A c \in Running : seen[c] <= limited /\ seen[c] <= rated
  <2> SUFFICES ASSUME IInv, NEW c \in Running PROVE seen[c] <= limited /\ seen[c] <= rated
    OBVIOUS
  <2>1. /\ seen[c] \in Nat /\ current \in Nat /\ rated \in Nat /\ limited \in Nat
        /\ seen[c] <= current /\ current <= rated /\ rated <= limited
    BY DEF IInv, CoreTypes, InOrder, Running
  <2> QED
    BY <2>1
<1>2. IInv => \A c \in Conns :
         /\ phase[c] = "admit" /\ phase'[c] # "admit" => seen[c] <= limited
         /\ phase[c] = "setup" /\ phase'[c] # "setup" => seen[c] <= rated
  BY <1>1 DEF Running
<1> QED
  BY <1>2, Inductive, PTL DEF NewStateNewLimits
-----------------------------------------------------------------------------
(* The limits of users.  The limiter's count of a user that every          *)
(* configuration limits is exact: it is the number of places held, which   *)
(* are those of the running sessions.  For a user whose limit was lifted   *)
(* for a time it is not.  An update of the registry keeps the bucket of a  *)
(* user that is still throttled, so that it remains the one that his       *)
(* sessions were given.                                                    *)

(* The limiter goes by the configuration that it was last updated to, and  *)
(* counts the users that are always limited right.                         *)
LimiterHolds ==
  /\ limits = configs[limited].limit
  /\ counts \in [Users -> Nat]
  /\ \A u \in Users : AlwaysLimited(u) =>
       counts[u] = Cardinality(holders[u]) /\ WithinSomeLimit(u, counts[u])

limiterState == <<configs, limited, limits, counts, holders>>

(* The position in force is one of the configurations loaded. *)
LEMMA PositionsAreLoaded ==
  ASSUME IInv
  PROVE  /\ configs \in Seq(Configs) /\ Len(configs) \in Nat
         /\ limited \in 1 .. Len(configs) /\ rated \in 1 .. Len(configs)
<1>1. /\ configs \in Seq(Configs) /\ current \in Nat /\ limited \in Nat /\ rated \in Nat
      /\ 1 <= current /\ current <= rated /\ rated <= limited /\ limited <= Len(configs)
  BY DEF IInv, CoreTypes, InOrder
<1>2. Len(configs) \in Nat
  BY <1>1, LenProperties
<1> QED
  BY <1>1, <1>2

(* Limits and rates are natural numbers. *)
LEMMA ConfigLimits ==
  ASSUME IInv, NEW i \in 1 .. Len(configs), NEW u \in Users
  PROVE  configs[i].limit[u] \in Nat /\ configs[i].rate[u] \in Nat
<1>1. configs[i] \in Configs
  BY PositionsAreLoaded, ElementOfSeq
<1> QED
  BY <1>1, ConfigsAssumption

(* What held of all the configurations holds of those loaded before.       *)
LEMMA LoadFacts ==
  ASSUME IInv, NEW g \in Configs, configs' = Append(configs, g)
  PROVE  /\ Len(configs') = Len(configs) + 1
         /\ \A i \in 1 .. Len(configs) : i \in 1 .. Len(configs') /\ configs'[i] = configs[i]
BY PositionsAreLoaded, AppendProperties

LEMMA InitLimiter == Init => LimiterHolds
<1> SUFFICES ASSUME Init PROVE LimiterHolds
  OBVIOUS
<1> PICK g \in Configs : configs = <<g>> /\ limits = g.limit
  BY DEF Init
<1>1. /\ limited = 1 /\ counts = [u \in Users |-> 0]
      /\ \A u \in Users : holders[u] = {}
  BY DEF Init
<1>2. Len(configs) = 1 /\ configs[1] = g
  OBVIOUS
<1>3. ASSUME NEW u \in Users
      PROVE  counts[u] = Cardinality(holders[u]) /\ WithinSomeLimit(u, counts[u])
  <2>1. g.limit[u] \in Nat /\ 0 <= configs[1].limit[u]
    BY <1>2, ConfigsAssumption
  <2>2. counts[u] = 0 /\ Cardinality(holders[u]) = 0
    BY <1>1, FS_EmptySet
  <2> QED
    BY <1>2, <2>1, <2>2 DEF WithinSomeLimit
<1> QED
  BY <1>1, <1>2, <1>3 DEF LimiterHolds

(* A configuration is loaded, or its limits are put in force. *)
LEMMA ReloadKeepsLimiter ==
  ASSUME IInv, LimiterHolds, Load \/ UpdateLimits
  PROVE  LimiterHolds'
<1>1. CASE Load
  <2>1. UNCHANGED <<limited, limits, counts, holders>>
    BY <1>1 DEF Load, limiterVars
  <2> PICK g \in Configs : configs' = Append(configs, g)
    BY <1>1 DEF Load
  <2>2. limited \in 1 .. Len(configs) /\ configs'[limited] = configs[limited]
    BY LoadFacts, PositionsAreLoaded
  <2>3. ASSUME NEW u \in Users, AlwaysLimited(u)'
        PROVE  counts[u] = Cardinality(holders[u]) /\ WithinSomeLimit(u, counts[u])'
    <3>1. AlwaysLimited(u)
      BY <2>3, LoadFacts DEF AlwaysLimited
    <3>2. counts[u] = Cardinality(holders[u]) /\ WithinSomeLimit(u, counts[u])
      BY <3>1 DEF LimiterHolds
    <3>3. PICK i \in 1 .. Len(configs) : counts[u] <= configs[i].limit[u]
      BY <3>2 DEF WithinSomeLimit
    <3> QED
      BY <2>1, <3>2, <3>3, LoadFacts DEF WithinSomeLimit
  <2> QED
    BY <2>1, <2>2, <2>3 DEF LimiterHolds
<1>2. CASE UpdateLimits
  BY <1>2 DEF UpdateLimits, Limiter!UpdateTo, LimiterHolds, AlwaysLimited, WithinSomeLimit
<1> QED
  BY <1>1, <1>2

(* A session is admitted: there was room below the limit in force. *)
LEMMA AdmitKeepsLimiter ==
  ASSUME IInv, LimiterHolds, NEW c \in Conns, Admit(c)
  PROVE  LimiterHolds'
<1> DEFINE u == user[c]
<1>1. u \in Users /\ UNCHANGED <<configs, limited, limits>>
  BY DEF Admit, Limiter!Acquire, IInv, KnownUsers, configVars
<1> HIDE DEF u
<1>2. /\ c \notin holders[u] /\ (limits[u] = 0 \/ counts[u] < limits[u])
      /\ counts' = IF limits[u] = 0 THEN counts ELSE [counts EXCEPT ![u] = counts[u] + 1]
      /\ holders' = [holders EXCEPT ![u] = holders[u] \cup {c}]
  BY <1>1 DEF u, Admit, Limiter!Acquire, Limiter!HasRoom, Limiter!Unlimited
<1>3. /\ counts' \in [Users -> Nat]
      /\ \A v \in Users : v # u => counts'[v] = counts[v] /\ holders'[v] = holders[v]
  <2>1. counts \in [Users -> Nat] /\ counts[u] + 1 \in Nat
    BY <1>1 DEF LimiterHolds
  <2>2. holders \in [Users -> SUBSET Conns]
    BY DEF IInv, CoreTypes
  <2>3. \A v \in Users : v # u => holders'[v] = holders[v]
    BY <1>2, <2>2
  <2>4. counts' \in [Users -> Nat]
    BY <1>1, <1>2, <2>1
  <2>5. \A v \in Users : v # u => counts'[v] = counts[v]
    BY <1>2, <2>1
  <2> QED
    BY <2>3, <2>4, <2>5
<1>4. ASSUME AlwaysLimited(u)
      PROVE  counts'[u] = Cardinality(holders'[u]) /\ WithinSomeLimit(u, counts'[u])
  <2>1. limits[u] = configs[limited].limit[u] /\ limited \in 1 .. Len(configs)
    BY PositionsAreLoaded DEF LimiterHolds
  <2>2. limits[u] > 0 /\ limits[u] \in Nat
    BY <1>1, <1>4, <2>1, ConfigLimits DEF AlwaysLimited
  <2>3. counts[u] \in Nat /\ counts'[u] = counts[u] + 1 /\ counts[u] < limits[u]
    BY <1>1, <1>2, <2>2 DEF LimiterHolds
  <2>4. holders[u] \in SUBSET Conns /\ holders'[u] = holders[u] \cup {c}
    BY <1>1, <1>2 DEF IInv, CoreTypes
  <2>5. Cardinality(holders'[u]) = Cardinality(holders[u]) + 1
    BY <1>2, <2>4, ConnsAssumption, FS_Subset, FS_AddElement
  <2>6. counts[u] = Cardinality(holders[u])
    BY <1>1, <1>4 DEF LimiterHolds
  <2>7. counts'[u] <= configs[limited].limit[u]
    BY <2>1, <2>2, <2>3
  <2> QED
    BY <2>1, <2>3, <2>5, <2>6, <2>7 DEF WithinSomeLimit
<1> QED
  BY <1>1, <1>3, <1>4 DEF LimiterHolds, AlwaysLimited, WithinSomeLimit

(* A session ends: its place was counted. *)
LEMMA EndSessionKeepsLimiter ==
  ASSUME IInv, LimiterHolds, NEW c \in Conns, EndSession(c)
  PROVE  LimiterHolds'
<1> DEFINE u == user[c]
<1>1. u \in Users /\ UNCHANGED <<configs, limited, limits>>
  BY DEF EndSession, Limiter!Release, IInv, KnownUsers, configVars
<1> HIDE DEF u
<1>2. /\ c \in holders[u]
      /\ counts' = [counts EXCEPT ![u] = IF counts[u] > 0 THEN counts[u] - 1 ELSE 0]
      /\ holders' = [holders EXCEPT ![u] = holders[u] \ {c}]
  BY <1>1 DEF u, EndSession, Limiter!Release, Limiter!CountAfterRelease
<1>3. /\ counts' \in [Users -> Nat]
      /\ counts'[u] = IF counts[u] > 0 THEN counts[u] - 1 ELSE 0
      /\ \A v \in Users : v # u => counts'[v] = counts[v] /\ holders'[v] = holders[v]
  <2> DEFINE n == IF counts[u] > 0 THEN counts[u] - 1 ELSE 0
  <2>1. counts \in [Users -> Nat] /\ n \in Nat
    BY <1>1 DEF LimiterHolds
  <2>2. holders \in [Users -> SUBSET Conns]
    BY DEF IInv, CoreTypes
  <2>3. counts' = [counts EXCEPT ![u] = n]
    BY <1>2
  <2> HIDE DEF n
  <2>4. /\ counts' \in [Users -> Nat] /\ counts'[u] = n
        /\ \A v \in Users : v # u => counts'[v] = counts[v]
    BY <1>1, <2>1, <2>3
  <2>5. \A v \in Users : v # u => holders'[v] = holders[v]
    BY <1>2, <2>2
  <2> QED
    BY <2>4, <2>5 DEF n
<1>4. ASSUME AlwaysLimited(u)
      PROVE  counts'[u] = Cardinality(holders'[u]) /\ WithinSomeLimit(u, counts'[u])
  <2>1. holders[u] \in SUBSET Conns /\ holders'[u] = holders[u] \ {c}
    BY <1>1, <1>2 DEF IInv, CoreTypes
  <2>2. /\ Cardinality(holders'[u]) = Cardinality(holders[u]) - 1
        /\ Cardinality(holders'[u]) \in Nat
    BY <1>2, <2>1, ConnsAssumption, FS_Subset, FS_RemoveElement, FS_CardinalityType
  <2>3. counts[u] \in Nat /\ counts[u] = Cardinality(holders[u])
    BY <1>1, <1>4 DEF LimiterHolds
  <2>4. PICK i \in 1 .. Len(configs) : counts[u] <= configs[i].limit[u]
    BY <1>1, <1>4 DEF LimiterHolds, WithinSomeLimit
  <2>5. counts'[u] = Cardinality(holders'[u]) /\ counts'[u] \in Nat /\ counts'[u] <= counts[u]
    BY <1>3, <2>2, <2>3
  <2>6. counts'[u] <= configs[i].limit[u]
    BY <1>1, <2>3, <2>4, <2>5, ConfigLimits
  <2> QED
    BY <2>4, <2>5, <2>6 DEF WithinSomeLimit
<1> QED
  BY <1>1, <1>3, <1>4 DEF LimiterHolds, AlwaysLimited, WithinSomeLimit

(* All other steps leave the limiter alone. *)
LEMMA LimiterStep ==
  ASSUME IInv, LimiterHolds, [Next]_vars
  PROVE  LimiterHolds'
<1>1. ASSUME UNCHANGED limiterState PROVE LimiterHolds'
  BY <1>1 DEF limiterState, LimiterHolds, AlwaysLimited, WithinSomeLimit
<1>2. CASE UNCHANGED vars \/ Exited
  BY <1>1, <1>2 DEF Exited, vars, limiterState, configVars, limiterVars
<1>3. CASE Load \/ UpdateLimits
  BY <1>3, ReloadKeepsLimiter
<1>4. CASE UpdateRates \/ StoreState \/ Cancel \/ Closer
  BY <1>1, <1>4 DEF UpdateRates, StoreState, Cancel, Closer, CloseTracked, CloseListener,
                    limiterState, configVars, limiterVars
<1>5. CASE Loop \/ AcceptError
  BY <1>1, <1>5 DEF Loop, AcceptError, AcceptFails, PassThrottle, FailThrottle, Spawn, BeginDrain,
                    Drained, TimeOut, Return, limiterState, configVars, limiterVars
<1>6. ASSUME NEW c \in Conns, Connection(c) PROVE LimiterHolds'
  <2>1. CASE Admit(c) \/ EndSession(c)
    BY <2>1, AdmitKeepsLimiter, EndSessionKeepsLimiter
  <2>2. CASE Dial(c) \/ HangUp(c) \/ Accept(c) \/ OpenChannel(c) \/ EndChannel(c)
    BY <1>1, <2>2 DEF Dial, HangUp, Accept, OpenChannel, EndChannel, limiterState, configVars,
                      limiterVars
  <2>3. CASE HandshakeFails(c) \/ Handshake(c) \/ Refuse(c) \/ TakeBucket(c) \/ Leave(c)
    BY <1>1, <2>3 DEF HandshakeFails, Handshake, Refuse, TakeBucket, Leave, CountsAfterRefusal,
                      limiterState, configVars, limiterVars
  <2> QED
    BY <1>6, <2>1, <2>2, <2>3 DEF Connection, Handler
<1> QED
  BY <1>2, <1>3, <1>4, <1>5, <1>6 DEF Next, Reload

LEMMA LimiterInvariant == Spec => []LimiterHolds
  BY Inductive, InitLimiter, LimiterStep, PTL DEF Spec

(* A user that every configuration so far limits has no more sessions than *)
(* one of them allows, however reloads come between the steps of           *)
(* handshakes: Acquire is asked before the session is set up, and Release  *)
(* called once, by those only that were admitted (handleConn).             *)
THEOREM LimitHolds == Spec => []SessionsWithinLimit
<1>1. IInv /\ LimiterHolds => SessionsWithinLimit
  <2> SUFFICES ASSUME IInv, LimiterHolds, NEW u \in Users, AlwaysLimited(u)
               PROVE  WithinSomeLimit(u, Cardinality(SessionsOf(u)))
    BY DEF SessionsWithinLimit
  <2>1. holders[u] = SessionsOf(u)
    BY DEF IInv, PlacesAreSessions
  <2> QED
    BY <2>1 DEF LimiterHolds
<1> QED
  BY <1>1, Inductive, LimiterInvariant, PTL
-----------------------------------------------------------------------------
(* The registry, once it was updated to the rates `rate`: who is throttled *)
(* has a bucket of his own, which runs at his rate.                        *)
RegistryHolds(rate) ==
  /\ Len(speeds) \in Nat /\ limiters \in [Users -> 0 .. Len(speeds)]
  /\ \A u, v \in Users : (limiters[u] # 0 /\ limiters[u] = limiters[v]) => u = v
  /\ \A u \in Users : limiters[u] # 0 => rate[u] > 0 /\ speeds[limiters[u]] = rate[u]
  /\ \A u \in Users : rate[u] > 0 => limiters[u] # 0

(* A sequence given by its values has the length that was given.           *)
LEMMA LengthOfTable ==
  ASSUME NEW k \in Nat, NEW S, NEW s \in [1 .. k -> S]
  PROVE  Len(s) = k
<1>1. s \in Seq(S)
  BY SeqDef
<1>2. Len(s) \in Nat /\ 1 .. Len(s) = 1 .. k
  BY <1>1, LenProperties
<1> QED
  BY <1>2

(* The bucket that runs at a user's rate is his. *)
LEMMA RateOfOwner ==
  ASSUME NEW rate, NEW buckets, NEW u \in Users,
         \A v \in Users : buckets[v] = buckets[u] => v = u
  PROVE  Registry!RateOf(rate, buckets, buckets[u]) = rate[u]
BY DEF Registry!RateOf

(* The instance has an operator of its own for the number of elements.     *)
LEMMA RegistryCounts == \A S : Registry!Cardinality(S) = Cardinality(S)
  BY DEF Registry!Cardinality, Cardinality

(* An update makes the registry fit the new rates, and keeps the buckets   *)
(* of those that still have one.                                           *)
LEMMA RegistryUpdate ==
  ASSUME NEW old, RegistryHolds(old), NEW rate \in [Users -> Nat],
         IsFiniteSet({u \in Users : rate[u] > 0}), Registry!UpdateTo(rate)
  PROVE  /\ RegistryHolds(rate)'
         /\ \A u \in Users : (limiters[u] # 0 /\ rate[u] > 0) => limiters'[u] = limiters[u]
<1> DEFINE new == {u \in Users : rate[u] > 0 /\ limiters[u] = 0}
           from == Len(speeds)
           size == Cardinality(new)
<1>1. from \in Nat /\ size \in Nat /\ limiters \in [Users -> 0 .. from]
  <2>1. new \in SUBSET {u \in Users : rate[u] > 0}
    OBVIOUS
  <2>2. size \in Nat
    BY <2>1, FS_Subset, FS_CardinalityType
  <2> QED
    BY <2>2 DEF RegistryHolds
<1>2. PICK number \in [new -> from + 1 .. from + size] :
        /\ \A u, v \in new : u # v => number[u] # number[v]
        /\ limiters' = [u \in Users |-> IF rate[u] = 0 THEN 0
                                        ELSE IF u \in new THEN number[u] ELSE limiters[u]]
        /\ speeds' = [n \in 1 .. from + size |->
                        IF \E u \in Users : limiters'[u] = n
                        THEN Registry!RateOf(rate, limiters', n) ELSE speeds[n]]
  BY RegistryCounts DEF Registry!UpdateTo, Registry!Newcomers, Registry!NoBucket, Registry!Numbering
<1>3. \A u \in new : u \in Users /\ rate[u] > 0 /\ limiters[u] = 0
  OBVIOUS
<1>4. \A u \in Users : rate[u] > 0 => u \in new \/ limiters[u] # 0
  OBVIOUS
<1> HIDE DEF new, from, size
<1>5. \A u \in new : number[u] \in Nat /\ number[u] > from /\ number[u] <= from + size
  BY <1>1, <1>2
<1>6. \A u \in Users : limiters[u] \in Nat /\ limiters[u] <= from
  BY <1>1
<1>7. \A u \in Users : limiters'[u] = IF rate[u] = 0 THEN 0
                                      ELSE IF u \in new THEN number[u] ELSE limiters[u]
  BY <1>2
<1>8. limiters' \in [Users -> 0 .. from + size]
  <2>1. \A u \in Users : limiters'[u] \in 0 .. from + size
    BY <1>1, <1>5, <1>6, <1>7
  <2> QED
    BY <1>2, <2>1
<1>9. \A u \in Users : (rate[u] > 0 <=> limiters'[u] # 0)
  BY <1>1, <1>4, <1>5, <1>7
<1>10. \A u, v \in Users : (limiters'[u] # 0 /\ limiters'[u] = limiters'[v]) => u = v
  <2> SUFFICES ASSUME NEW u \in Users, NEW v \in Users, limiters'[u] # 0,
                      limiters'[u] = limiters'[v]
               PROVE  u = v
    OBVIOUS
  <2>1. rate[u] > 0 /\ rate[v] > 0
    BY <1>9
  <2>2. CASE u \in new /\ v \in new
    BY <1>2, <1>7, <2>1, <2>2
  <2>3. CASE u \in new /\ v \notin new
    BY <1>1, <1>5, <1>6, <1>7, <2>1, <2>3
  <2>4. CASE u \notin new /\ v \in new
    BY <1>1, <1>5, <1>6, <1>7, <2>1, <2>4
  <2>5. CASE u \notin new /\ v \notin new
    <3>1. limiters[u] = limiters[v] /\ limiters[u] # 0
      BY <1>4, <1>7, <2>1, <2>5
    <3> QED
      BY <3>1 DEF RegistryHolds
  <2> QED
    BY <2>2, <2>3, <2>4, <2>5
<1>11. \A u \in Users : limiters'[u] # 0 => speeds'[limiters'[u]] = rate[u]
  <2> SUFFICES ASSUME NEW u \in Users, limiters'[u] # 0 PROVE speeds'[limiters'[u]] = rate[u]
    OBVIOUS
  <2>1. limiters'[u] \in 1 .. from + size
    BY <1>1, <1>8
  <2>2. speeds'[limiters'[u]] = Registry!RateOf(rate, limiters', limiters'[u])
    BY <1>2, <2>1
  <2> QED
    BY <1>10, <2>2, RateOfOwner
<1>12. Len(speeds') = from + size
  <2>1. speeds' \in [1 .. from + size -> {speeds'[n] : n \in 1 .. from + size}]
    BY <1>2
  <2> QED
    BY <1>1, <2>1, LengthOfTable
<1>13. \A u \in Users : (limiters[u] # 0 /\ rate[u] > 0) => limiters'[u] = limiters[u]
  BY <1>3, <1>7
<1> QED
  BY <1>1, <1>8, <1>9, <1>10, <1>11, <1>12, <1>13 DEF RegistryHolds

(* The users that a configuration throttles are finitely many. *)
LEMMA FewAreThrottled ==
  ASSUME NEW g \in Configs
  PROVE  g.rate \in [Users -> Nat] /\ IsFiniteSet({u \in Users : g.rate[u] > 0})
<1>1. {u \in Users : g.rate[u] > 0} \in SUBSET g.known
  BY ConfigsAssumption
<1> QED
  BY <1>1, KnownAssumption, ConfigsAssumption, FS_Subset

LEMMA InitRegistry ==
  ASSUME Init
  PROVE  RegistryHolds(configs[rated].rate)
<1> PICK g \in Configs : configs = <<g>> /\ Registry!Init(g.rate)
  BY DEF Init
<1> DEFINE new == {u \in Users : g.rate[u] > 0}
           size == Cardinality(new)
<1>1. size \in Nat /\ g.rate \in [Users -> Nat]
  BY FewAreThrottled, FS_CardinalityType
<1>2. configs[rated].rate = g.rate
  BY DEF Init
<1>3. PICK number \in [new -> 0 + 1 .. 0 + size] :
        /\ \A u, v \in new : u # v => number[u] # number[v]
        /\ limiters = [u \in Users |-> IF u \in new THEN number[u] ELSE 0]
        /\ speeds = [n \in 1 .. size |-> Registry!RateOf(g.rate, limiters, n)]
  BY RegistryCounts DEF Registry!Init, Registry!NoBucket, Registry!Numbering
<1>4. \A u \in Users : u \in new <=> g.rate[u] > 0
  OBVIOUS
<1> HIDE DEF new, size
<1>5. \A u \in new : number[u] \in 1 .. size
  BY <1>1, <1>3
<1>6. limiters \in [Users -> 0 .. size]
  BY <1>1, <1>3, <1>5
<1>7. \A u \in Users : g.rate[u] > 0 <=> limiters[u] # 0
  BY <1>1, <1>3, <1>4, <1>5
<1>8. \A u, v \in Users : (limiters[u] # 0 /\ limiters[u] = limiters[v]) => u = v
  BY <1>3, <1>4, <1>7
<1>9. \A u \in Users : limiters[u] # 0 => speeds[limiters[u]] = g.rate[u]
  <2> SUFFICES ASSUME NEW u \in Users, limiters[u] # 0 PROVE speeds[limiters[u]] = g.rate[u]
    OBVIOUS
  <2>1. limiters[u] \in 1 .. size
    BY <1>1, <1>6
  <2>2. speeds[limiters[u]] = Registry!RateOf(g.rate, limiters, limiters[u])
    BY <1>3, <2>1
  <2> QED
    BY <1>8, <2>2, RateOfOwner
<1>10. Len(speeds) = size
  <2>1. speeds \in [1 .. size -> {speeds[n] : n \in 1 .. size}]
    BY <1>3
  <2> QED
    BY <1>1, <2>1, LengthOfTable
<1> QED
  BY <1>1, <1>2, <1>6, <1>7, <1>8, <1>9, <1>10 DEF RegistryHolds

(* The sessions of a user that was always throttled share his bucket. *)
BucketsShared ==
  \A c \in Conns : (phase[c] = "serving" /\ AlwaysRated(user[c])) => bucket[c] = limiters[user[c]]

RegistryInv ==
  RegistryHolds(configs[rated].rate) /\ DOMAIN bucket = Conns /\ BucketsShared

(* No session begins, and those that go on are those of before. *)
LEMMA SessionsGoOn ==
  ASSUME RegistryInv, UNCHANGED <<configs, rated, limiters, speeds>>,
         DOMAIN bucket' = Conns,
         \A c \in Conns : phase'[c] = "serving" =>
           phase[c] = "serving" /\ user'[c] = user[c] /\ bucket'[c] = bucket[c]
  PROVE  RegistryInv'
<1>1. RegistryHolds(configs[rated].rate)'
  BY DEF RegistryInv, RegistryHolds
<1>2. BucketsShared'
  BY DEF RegistryInv, BucketsShared, AlwaysRated
<1> QED
  BY <1>1, <1>2 DEF RegistryInv

(* A configuration is loaded: fewer users were always throttled. *)
LEMMA LoadKeepsRegistry ==
  ASSUME IInv, RegistryInv, Load
  PROVE  RegistryInv'
<1>1. UNCHANGED <<rated, limiters, speeds, phase, user, bucket>>
  BY DEF Load, registryVars, connVars
<1> PICK g \in Configs : configs' = Append(configs, g)
  BY DEF Load
<1>2. configs'[rated] = configs[rated]
  BY LoadFacts, PositionsAreLoaded
<1>3. RegistryHolds(configs[rated].rate)'
  BY <1>1, <1>2 DEF RegistryInv, RegistryHolds
<1>4. \A u : AlwaysRated(u)' => AlwaysRated(u)
  BY LoadFacts DEF AlwaysRated
<1>5. BucketsShared'
  BY <1>1, <1>4 DEF RegistryInv, BucketsShared
<1> QED
  BY <1>1, <1>3, <1>5 DEF RegistryInv

(* Rates are put in force: who is still throttled keeps the bucket.        *)
LEMMA UpdateRatesKeepsRegistry ==
  ASSUME IInv, RegistryInv, UpdateRates
  PROVE  RegistryInv'
<1>1. /\ rated' = limited /\ UNCHANGED <<configs, phase, user, bucket>>
      /\ Registry!UpdateTo(configs[limited].rate)
  BY DEF UpdateRates, connVars
<1> DEFINE rate == configs[limited].rate
<1>2. configs[limited] \in Configs
  BY PositionsAreLoaded, ElementOfSeq
<1>3. rate \in [Users -> Nat] /\ IsFiniteSet({u \in Users : rate[u] > 0})
  BY <1>2, FewAreThrottled
<1>4. RegistryHolds(configs[rated].rate)
  BY DEF RegistryInv
<1>5. Registry!UpdateTo(rate) /\ configs'[rated'].rate = rate /\ rate' = rate
  <2>1. limited' = limited
    BY DEF UpdateRates
  <2> QED
    BY <1>1, <2>1
<1>6. \A u \in Users : AlwaysRated(u) => rate[u] > 0 /\ configs[rated].rate[u] > 0
  BY PositionsAreLoaded DEF AlwaysRated
<1> HIDE DEF rate
<1>7. /\ RegistryHolds(rate)'
      /\ \A u \in Users : (limiters[u] # 0 /\ rate[u] > 0) => limiters'[u] = limiters[u]
  BY <1>3, <1>4, <1>5, RegistryUpdate
<1>8. RegistryHolds(configs[rated].rate)'
  BY <1>5, <1>7 DEF RegistryHolds
<1>9. BucketsShared'
  <2> SUFFICES ASSUME NEW c \in Conns, phase'[c] = "serving", AlwaysRated(user[c])'
               PROVE  bucket'[c] = limiters'[user'[c]]
    BY DEF BucketsShared
  <2>1. AlwaysRated(user[c]) /\ phase[c] = "serving" /\ user'[c] = user[c]
    BY <1>1 DEF AlwaysRated
  <2>2. user[c] \in Users /\ bucket'[c] = limiters[user[c]]
    BY <1>1, <2>1 DEF IInv, KnownUsers, RegistryInv, BucketsShared
  <2>3. rate[user[c]] > 0 /\ limiters[user[c]] # 0
    BY <1>4, <1>6, <2>1, <2>2 DEF RegistryHolds
  <2> QED
    BY <1>7, <2>1, <2>2, <2>3
<1> QED
  BY <1>1, <1>8, <1>9 DEF RegistryInv

(* A session begins, with the bucket that its user has. *)
LEMMA TakeBucketKeepsRegistry ==
  ASSUME IInv, RegistryInv, NEW c \in Conns, TakeBucket(c)
  PROVE  RegistryInv'
<1>1. /\ UNCHANGED <<configs, rated, limiters, speeds, user>>
      /\ bucket' = [bucket EXCEPT ![c] = limiters[user[c]]]
      /\ phase' = [phase EXCEPT ![c] = "serving"]
  BY DEF TakeBucket, Enter, configVars, registryVars
<1>2. RegistryHolds(configs[rated].rate)'
  BY <1>1 DEF RegistryInv, RegistryHolds
<1>3. /\ \A d \in Conns : d # c => phase'[d] = phase[d] /\ bucket'[d] = bucket[d]
      /\ bucket'[c] = limiters[user[c]] /\ DOMAIN bucket' = Conns
  BY <1>1 DEF IInv, CoreTypes, RegistryInv
<1>4. BucketsShared'
  BY <1>1, <1>3 DEF RegistryInv, BucketsShared, AlwaysRated
<1> QED
  BY <1>2, <1>3, <1>4 DEF RegistryInv

(* The other steps begin no session. *)
LEMMA RegistryStep ==
  ASSUME IInv, RegistryInv, [Next]_vars
  PROVE  RegistryInv'
<1>0. DOMAIN bucket = Conns
  BY DEF RegistryInv
<1>1. ASSUME UNCHANGED <<configs, rated, limiters, speeds, phase, user, bucket>>
      PROVE  RegistryInv'
  BY <1>0, <1>1, SessionsGoOn
<1>2. ASSUME NEW c \in Conns, NEW p, p # "serving", Enter(c, p),
             UNCHANGED <<configs, rated, limiters, speeds, bucket>>,
             \A d \in Conns : d # c => user'[d] = user[d]
      PROVE  RegistryInv'
  <2>1. \A d \in Conns : phase'[d] = IF d = c THEN p ELSE phase[d]
    BY <1>2 DEF Enter, IInv, CoreTypes
  <2> QED
    BY <1>0, <1>2, <2>1, SessionsGoOn
<1>3. ASSUME NEW S, Forget(S), UNCHANGED <<configs, rated, limiters, speeds>>
      PROVE  RegistryInv'
  <2>1. /\ DOMAIN bucket' = Conns
        /\ \A d \in Conns : phase'[d] = "serving" =>
              phase[d] = "serving" /\ user'[d] = user[d] /\ bucket'[d] = bucket[d]
    BY <1>3 DEF Forget
  <2> QED
    BY <1>3, <2>1, SessionsGoOn
<1>4. CASE UNCHANGED vars \/ Exited
  BY <1>1, <1>4 DEF Exited, vars, configVars, registryVars, connVars
<1>5. CASE Reload
  <2>1. CASE UpdateLimits \/ StoreState
    BY <1>1, <2>1 DEF UpdateLimits, StoreState, registryVars, connVars
  <2> QED
    BY <1>5, <2>1, LoadKeepsRegistry, UpdateRatesKeepsRegistry DEF Reload
<1>6. CASE Cancel \/ CloseTracked \/ PassThrottle \/ BeginDrain \/ Drained \/ TimeOut
  BY <1>1, <1>6 DEF Cancel, CloseTracked, PassThrottle, BeginDrain, Drained, TimeOut, Return,
                    configVars, registryVars, connVars
<1>7. CASE FailThrottle \/ CloseListener
  BY <1>3, <1>7 DEF FailThrottle, CloseListener, configVars, registryVars
<1>8. CASE Spawn
  <2>1. /\ phase' = [c \in Conns |-> IF c \in loop.conn THEN "handshake" ELSE phase[c]]
        /\ UNCHANGED <<configs, rated, limiters, speeds, user, bucket>>
    BY <1>8 DEF Spawn, configVars, registryVars
  <2> QED
    BY <1>0, <2>1, SessionsGoOn
<1>9. ASSUME NEW c \in Conns, Connection(c) PROVE RegistryInv'
  <2>1. CASE HangUp(c) \/ OpenChannel(c) \/ EndChannel(c)
    BY <1>1, <2>1 DEF HangUp, OpenChannel, EndChannel, configVars, registryVars
  <2>2. CASE TakeBucket(c)
    BY <2>2, TakeBucketKeepsRegistry
  <2>3. CASE Leave(c)
    BY <1>3, <2>3 DEF Leave, configVars, registryVars
  <2>4. CASE Handshake(c)
    <3>1. Enter(c, "admit") /\ UNCHANGED <<configs, rated, limiters, speeds, bucket>>
      BY <2>4 DEF Handshake, configVars, registryVars
    <3>2. \A d \in Conns : d # c => user'[d] = user[d]
      BY <2>4 DEF Handshake, IInv, CoreTypes
    <3> QED
      BY <1>2, <3>1, <3>2
  <2>5. ASSUME Dial(c) \/ Accept(c) \/ HandshakeFails(c) \/ Admit(c) \/ Refuse(c) \/ EndSession(c)
        PROVE  RegistryInv'
    <3>1. UNCHANGED <<configs, rated, limiters, speeds, bucket, user>>
      BY <2>5 DEF Dial, Accept, HandshakeFails, Admit, Refuse, EndSession, configVars, registryVars
    <3>2. \E p \in {"backlog", "accepted", "setup", "leaving"} : Enter(c, p)
      BY <2>5 DEF Dial, Accept, HandshakeFails, Admit, Refuse, EndSession
    <3> QED
      BY <1>2, <3>1, <3>2
  <2> QED
    BY <1>9, <2>1, <2>2, <2>3, <2>4, <2>5 DEF Connection, Handler
<1> QED
  BY <1>4, <1>5, <1>6, <1>7, <1>8, <1>9 DEF Next, Loop, Closer, AcceptError, AcceptFails

LEMMA InitRegistryInv == Init => RegistryInv
<1> SUFFICES ASSUME Init PROVE RegistryInv
  OBVIOUS
<1>1. DOMAIN bucket = Conns /\ BucketsShared
  BY DEF Init, BucketsShared
<1> QED
  BY <1>1, InitRegistry DEF RegistryInv

LEMMA RegistryInvariant == Spec => []RegistryInv
  BY Inductive, InitRegistryInv, RegistryStep, PTL DEF Spec

(* The sessions of a user that every configuration so far throttles share  *)
(* one bucket, and it runs at the rate in force, after any reloads:        *)
(* UserRateRegistry.Update changes the limiters in place.                  *)
THEOREM OneBucketHolds == Spec => []OneBucket
<1>1. IInv /\ RegistryInv => OneBucket
  <2> SUFFICES ASSUME IInv, RegistryInv, NEW u \in Users, AlwaysRated(u)
               PROVE  /\ \A c \in SessionsOf(u) : phase[c] = "serving" => bucket[c] = limiters[u]
                      /\ speeds[limiters[u]] = configs[rated].rate[u]
    BY DEF OneBucket
  <2>1. configs[rated].rate[u] > 0
    BY PositionsAreLoaded DEF AlwaysRated
  <2>2. speeds[limiters[u]] = configs[rated].rate[u]
    BY <2>1 DEF RegistryInv, RegistryHolds
  <2>3. \A c \in SessionsOf(u) : phase[c] = "serving" => bucket[c] = limiters[u]
    BY DEF SessionsOf, Admitted, RegistryInv, BucketsShared
  <2> QED
    BY <2>2, <2>3
<1> QED
  BY <1>1, Inductive, RegistryInvariant, PTL

-----------------------------------------------------------------------------
(* The types of the rest of the state.  A number that an update gives out  *)
(* is some newcomer's: no bucket is left without a rate.                   *)
OtherTypes ==
  /\ Len(configs) <= MaxReloads + 1
  /\ speeds \in Seq(Nat)
  /\ ctxDone \in BOOLEAN /\ throttled \in BOOLEAN /\ listening \in BOOLEAN
  /\ closer \in {"nothing", "connections", "listener"}
  /\ closedBy \in [Conns -> {"nobody", "client", "server"}]
  /\ seen \in [Conns -> 0 .. Len(configs)]
  /\ bucket \in [Conns -> 0 .. Len(speeds)]
  /\ servers \in [Conns -> 0 .. MaxChannels]

LEMMA NumbersAreUsed ==
  ASSUME NEW S, IsFiniteSet(S), NEW from \in Nat,
         NEW number \in [S -> from + 1 .. from + Cardinality(S)],
         \A u, v \in S : u # v => number[u] # number[v]
  PROVE  \A n \in from + 1 .. from + Cardinality(S) : \E u \in S : number[u] = n
<1> DEFINE T == from + 1 .. from + Cardinality(S)
<1>1. Cardinality(S) \in Nat
  BY FS_CardinalityType
<1>2. IsFiniteSet(T) /\ Cardinality(T) = Cardinality(S)
  <2> DEFINE low  == from + 1
             high == from + Cardinality(S)
  <2>1. low \in Int /\ high \in Int
    BY <1>1
  <2>2. (IF low > high THEN 0 ELSE high - low + 1) = Cardinality(S)
    BY <1>1
  <2>3. T = low .. high
    OBVIOUS
  <2> HIDE DEF low, high, T
  <2>4. /\ IsFiniteSet(low .. high)
        /\ Cardinality(low .. high) = IF low > high THEN 0 ELSE high - low + 1
    BY <2>1, FS_Interval
  <2> QED
    BY <2>2, <2>3, <2>4
<1> HIDE DEF T
<1>3. number \in Injection(S, T)
  BY DEF Injection, IsInjective, T
<1>4. number \in Surjection(S, T)
  BY <1>2, <1>3, FS_Injection
<1> QED
  BY <1>4 DEF Surjection, T

LEMMA RateIsNumber ==
  ASSUME NEW rate \in [Users -> Nat], NEW buckets, NEW n, \E u \in Users : buckets[u] = n
  PROVE  Registry!RateOf(rate, buckets, n) \in Nat
BY DEF Registry!RateOf

LEMMA UpdateKeepsSpeeds ==
  ASSUME NEW old, RegistryHolds(old), speeds \in Seq(Nat), NEW rate \in [Users -> Nat],
         IsFiniteSet({u \in Users : rate[u] > 0}), Registry!UpdateTo(rate)
  PROVE  speeds' \in Seq(Nat) /\ Len(speeds') \in Nat /\ Len(speeds) <= Len(speeds')
<1> DEFINE new == {u \in Users : rate[u] > 0 /\ limiters[u] = 0}
           from == Len(speeds)
           size == Cardinality(new)
<1>1. from \in Nat /\ size \in Nat /\ IsFiniteSet(new)
  <2>1. new \in SUBSET {u \in Users : rate[u] > 0}
    OBVIOUS
  <2>2. IsFiniteSet(new) /\ size \in Nat
    BY <2>1, FS_Subset, FS_CardinalityType
  <2> QED
    BY <2>2 DEF RegistryHolds
<1>2. PICK number \in [new -> from + 1 .. from + size] :
        /\ \A u, v \in new : u # v => number[u] # number[v]
        /\ limiters' = [u \in Users |-> IF rate[u] = 0 THEN 0
                                        ELSE IF u \in new THEN number[u] ELSE limiters[u]]
        /\ speeds' = [n \in 1 .. from + size |->
                        IF \E u \in Users : limiters'[u] = n
                        THEN Registry!RateOf(rate, limiters', n) ELSE speeds[n]]
  BY RegistryCounts DEF Registry!UpdateTo, Registry!Newcomers, Registry!NoBucket, Registry!Numbering
<1>3. \A u \in new : limiters'[u] = number[u] /\ u \in Users
  BY <1>2
<1>4. \A n \in from + 1 .. from + size : \E u \in new : number[u] = n
  <2> HIDE DEF new, from
  <2> QED
    BY <1>1, <1>2, NumbersAreUsed DEF size
<1>5. \A n \in 1 .. from : speeds[n] \in Nat
  OBVIOUS
<1> HIDE DEF new, from, size
<1>6. ASSUME NEW n \in 1 .. from + size
      PROVE  speeds'[n] \in Nat
  <2>1. CASE \E u \in Users : limiters'[u] = n
    BY <1>2, <2>1, RateIsNumber
  <2>2. CASE ~ \E u \in Users : limiters'[u] = n
    <3>1. n \notin from + 1 .. from + size
      BY <1>3, <1>4, <2>2
    <3>2. n \in 1 .. from
      BY <1>1, <3>1
    <3> QED
      BY <1>2, <1>5, <2>2, <3>2
  <2> QED
    BY <2>1, <2>2
<1>7. speeds' \in [1 .. from + size -> Nat]
  BY <1>2, <1>6
<1>8. from + size \in Nat
  BY <1>1
<1>9. speeds' \in Seq(Nat) /\ Len(speeds') = from + size
  BY <1>7, <1>8, SeqDef, LengthOfTable
<1> QED
  BY <1>1, <1>9 DEF from

LEMMA InitSpeeds ==
  ASSUME Init
  PROVE  speeds \in Seq(Nat)
<1> PICK g \in Configs : configs = <<g>> /\ Registry!Init(g.rate)
  BY DEF Init
<1> DEFINE new == {u \in Users : g.rate[u] > 0}
           size == Cardinality(new)
<1>1. size \in Nat /\ g.rate \in [Users -> Nat] /\ IsFiniteSet(new)
  BY FewAreThrottled, FS_CardinalityType
<1> DEFINE from == 0
<1>2. PICK number \in [new -> from + 1 .. from + size] :
        /\ \A u, v \in new : u # v => number[u] # number[v]
        /\ limiters = [u \in Users |-> IF u \in new THEN number[u] ELSE 0]
        /\ speeds = [n \in 1 .. size |-> Registry!RateOf(g.rate, limiters, n)]
  BY RegistryCounts DEF Registry!Init, Registry!NoBucket, Registry!Numbering
<1>3. \A u \in new : limiters[u] = number[u] /\ u \in Users
  BY <1>2
<1>4. \A n \in from + 1 .. from + size : \E u \in new : number[u] = n
  <2>1. from \in Nat
    OBVIOUS
  <2> HIDE DEF new, from
  <2> QED
    BY <1>1, <1>2, <2>1, NumbersAreUsed DEF size
<1> HIDE DEF new, size
<1>5. ASSUME NEW n \in 1 .. size
      PROVE  speeds[n] \in Nat
  <2>1. \E u \in Users : limiters[u] = n
    BY <1>1, <1>3, <1>4
  <2> QED
    BY <1>1, <1>2, <2>1, RateIsNumber
<1>6. speeds \in [1 .. size -> Nat]
  BY <1>2, <1>5
<1> QED
  BY <1>1, <1>6, SeqDef


LEMMA InitOtherTypes ==
  ASSUME Init
  PROVE  OtherTypes
<1>1. speeds \in Seq(Nat) /\ Len(speeds) \in Nat
  BY InitSpeeds, LenProperties
<1>2. Len(configs) = 1
  BY DEF Init
<1>3. /\ ctxDone \in BOOLEAN /\ throttled \in BOOLEAN /\ listening \in BOOLEAN
      /\ closer \in {"nothing", "connections", "listener"}
  BY DEF Init
<1>4. /\ closedBy \in [Conns -> {"nobody", "client", "server"}]
      /\ seen \in [Conns -> 0 .. Len(configs)]
      /\ bucket \in [Conns -> 0 .. Len(speeds)]
      /\ servers \in [Conns -> 0 .. MaxChannels]
  BY <1>1, <1>2, BoundAssumption DEF Init, NoBucket
<1> QED
  BY <1>1, <1>2, <1>3, <1>4, BoundAssumption DEF OtherTypes

LEMMA StateIsLoaded ==
  ASSUME IInv
  PROVE  current \in 1 .. Len(configs)
<1>1. /\ current \in Nat /\ rated \in Nat /\ limited \in Nat
      /\ 1 <= current /\ current <= rated /\ rated <= limited
  BY DEF IInv, CoreTypes, InOrder
<1>2. limited \in 1 .. Len(configs) /\ Len(configs) \in Nat
  BY PositionsAreLoaded
<1> QED
  BY <1>1, <1>2

connStates == <<closedBy, seen, bucket, servers>>
flags == <<ctxDone, throttled, listening, closer>>

LEMMA OtherTypesStep ==
  ASSUME IInv, RegistryInv, OtherTypes, [Next]_vars
  PROVE  OtherTypes'
<1>0. /\ Len(configs) \in Nat /\ Len(speeds) \in Nat
      /\ current \in 0 .. Len(configs)
      /\ limiters \in [Users -> 0 .. Len(speeds)]
  <2>1. Len(configs) \in Nat /\ current \in 1 .. Len(configs)
    BY StateIsLoaded, PositionsAreLoaded
  <2>2. Len(speeds) \in Nat /\ limiters \in [Users -> 0 .. Len(speeds)]
    BY DEF RegistryInv, RegistryHolds
  <2> QED
    BY <2>1, <2>2
<1>1. ASSUME UNCHANGED <<configs, speeds, flags, connStates>>
      PROVE  OtherTypes'
  BY <1>1 DEF OtherTypes, flags, connStates
<1>2. ASSUME NEW S, Forget(S), UNCHANGED <<configs, speeds, ctxDone, throttled, servers>>,
             listening' \in BOOLEAN, closer' \in {"nothing", "connections", "listener"}
      PROVE  OtherTypes'
  <2>1. /\ closedBy' \in [Conns -> {"nobody", "client", "server"}]
        /\ seen' \in [Conns -> 0 .. Len(configs)]
        /\ bucket' \in [Conns -> 0 .. Len(speeds)]
    BY <1>0, <1>2 DEF Forget, OtherTypes, NoBucket
  <2> QED
    BY <1>2, <2>1 DEF OtherTypes
<1>3. ASSUME NEW S, NEW who \in {"client", "server"}, CloseAll(S, who),
             UNCHANGED <<configs, speeds, ctxDone, throttled, listening, seen, bucket, servers>>,
             closer' \in {"nothing", "connections", "listener"}
      PROVE  OtherTypes'
  <2>1. closedBy' \in [Conns -> {"nobody", "client", "server"}]
    BY <1>3 DEF CloseAll, OtherTypes
  <2> QED
    BY <1>3, <2>1 DEF OtherTypes
<1>4. CASE UNCHANGED vars \/ Exited
  BY <1>1, <1>4 DEF Exited, vars, configVars, registryVars, loopVars, connVars, flags, connStates
<1>5. CASE Load
  <2>1. /\ UNCHANGED <<speeds, flags, connStates>>
        /\ Len(configs') = Len(configs) + 1 /\ Len(configs) <= MaxReloads
    BY <1>5, LoadFacts DEF Load, registryVars, loopVars, connVars, flags, connStates
  <2>2. seen' \in [Conns -> 0 .. Len(configs')]
    BY <1>0, <2>1 DEF OtherTypes, connStates
  <2>3. Len(configs') <= MaxReloads + 1
    BY <1>0, <2>1, BoundAssumption
  <2> QED
    BY <2>1, <2>2, <2>3 DEF OtherTypes, flags, connStates
<1>6. CASE UpdateRates
  <2>1. /\ UNCHANGED <<configs, flags, connStates>>
        /\ Registry!UpdateTo(configs[limited].rate)
    BY <1>6 DEF UpdateRates, loopVars, connVars, flags, connStates
  <2>2. /\ configs[limited].rate \in [Users -> Nat]
        /\ IsFiniteSet({u \in Users : configs[limited].rate[u] > 0})
    BY PositionsAreLoaded, ElementOfSeq, FewAreThrottled
  <2>3. speeds' \in Seq(Nat) /\ Len(speeds') \in Nat /\ Len(speeds) <= Len(speeds')
    BY <2>1, <2>2, UpdateKeepsSpeeds DEF RegistryInv, OtherTypes
  <2>4. bucket' \in [Conns -> 0 .. Len(speeds')]
    BY <1>0, <2>1, <2>3 DEF OtherTypes, connStates
  <2> QED
    BY <2>1, <2>3, <2>4 DEF OtherTypes, flags, connStates
<1>7. CASE UpdateLimits \/ StoreState
  BY <1>1, <1>7 DEF UpdateLimits, StoreState, registryVars, loopVars, connVars, flags, connStates
<1>8. CASE PassThrottle \/ BeginDrain \/ Drained \/ TimeOut
  BY <1>1, <1>8 DEF PassThrottle, BeginDrain, Drained, TimeOut, Return, Goto,
                    configVars, registryVars, connVars, flags, connStates
<1>9. CASE Cancel
  BY <1>9 DEF Cancel, OtherTypes, configVars, registryVars, loopVars, connVars
<1>10. CASE CloseTracked
  BY <1>3, <1>10 DEF CloseTracked, configVars, registryVars, loopVars
<1>11. CASE FailThrottle
  BY <1>2, <1>11 DEF FailThrottle, Goto, OtherTypes, configVars, registryVars
<1>12. CASE CloseListener
  BY <1>2, <1>12 DEF CloseListener, ListenerAfterShutdown, OtherTypes, configVars, registryVars,
                     loopVars
<1>13. CASE Spawn
  <2>1. /\ UNCHANGED <<configs, speeds, flags, closedBy, bucket, servers>>
        /\ seen' = [c \in Conns |-> IF c \in loop.conn THEN current ELSE seen[c]]
    BY <1>13 DEF Spawn, Goto, configVars, registryVars, flags
  <2>2. seen' \in [Conns -> 0 .. Len(configs)]
    BY <1>0, <2>1 DEF OtherTypes
  <2> QED
    BY <2>1, <2>2 DEF OtherTypes, flags
<1>14. ASSUME NEW c \in Conns, Connection(c)
       PROVE  OtherTypes'
  <2>1. CASE Dial(c) \/ Accept(c) \/ HandshakeFails(c) \/ Handshake(c)
    BY <1>1, <2>1 DEF Dial, Accept, HandshakeFails, Handshake, Goto,
                      configVars, registryVars, loopVars, flags, connStates
  <2>2. CASE Admit(c) \/ Refuse(c) \/ EndSession(c)
    BY <1>1, <2>2 DEF Admit, Refuse, EndSession, configVars, registryVars, loopVars, flags, connStates
  <2>3. CASE HangUp(c)
    BY <1>3, <2>3 DEF HangUp, OtherTypes, configVars, registryVars, loopVars
  <2>4. CASE TakeBucket(c)
    <3>1. /\ UNCHANGED <<configs, speeds, flags, closedBy, seen, servers>>
          /\ bucket' = [bucket EXCEPT ![c] = limiters[user[c]]]
          /\ user[c] \in Users
      BY <2>4 DEF TakeBucket, IInv, KnownUsers, configVars, registryVars, loopVars, flags
    <3>2. bucket' \in [Conns -> 0 .. Len(speeds)]
      BY <1>0, <3>1 DEF OtherTypes
    <3> QED
      BY <3>1, <3>2 DEF OtherTypes, flags
  <2>5. CASE OpenChannel(c) \/ EndChannel(c)
    <3>1. /\ UNCHANGED <<configs, speeds, flags, closedBy, seen, bucket>>
          /\ \/ servers[c] < MaxChannels /\ servers' = [servers EXCEPT ![c] = servers[c] + 1]
             \/ servers[c] > 0 /\ servers' = [servers EXCEPT ![c] = servers[c] - 1]
      BY <2>5 DEF OpenChannel, EndChannel, configVars, registryVars, loopVars, flags
    <3>2. servers \in [Conns -> 0 .. MaxChannels]
      BY DEF OtherTypes
    <3>3. servers' \in [Conns -> 0 .. MaxChannels]
      BY <3>1, <3>2, BoundAssumption
    <3> QED
      BY <3>1, <3>3 DEF OtherTypes, flags
  <2>6. CASE Leave(c)
    BY <1>2, <2>6 DEF Leave, OtherTypes, configVars, registryVars, loopVars
  <2> QED
    BY <1>14, <2>1, <2>2, <2>3, <2>4, <2>5, <2>6 DEF Connection, Handler
<1> QED
  BY <1>4, <1>5, <1>6, <1>7, <1>8, <1>9, <1>10, <1>11, <1>12, <1>13, <1>14
     DEF Next, Loop, Closer, Reload, AcceptError, AcceptFails

(* The state of the server has its shape: the wait group never goes below  *)
(* zero (Done is called once by each handler), every place in a table of   *)
(* configurations or of buckets is one that exists (Run, handleConn, the   *)
(* limiter and the registry under any reloads).                            *)
THEOREM ServerTyped == Spec => []TypeOK
<1>1. IInv /\ LimiterHolds /\ RegistryInv /\ OtherTypes => TypeOK
  <2> SUFFICES ASSUME IInv, LimiterHolds, RegistryInv, OtherTypes
               PROVE  TypeOK
    OBVIOUS
  <2>1. /\ configs \in Seq(Configs) /\ Len(configs) \in 1 .. MaxReloads + 1
        /\ {current, limited, rated} \subseteq 1 .. Len(configs)
    <3>1. /\ configs \in Seq(Configs) /\ Len(configs) \in Nat
          /\ current \in 1 .. Len(configs) /\ limited \in 1 .. Len(configs)
          /\ rated \in 1 .. Len(configs)
      BY PositionsAreLoaded, StateIsLoaded
    <3>2. Len(configs) <= MaxReloads + 1
      BY DEF OtherTypes
    <3> QED
      BY <3>1, <3>2, BoundAssumption
  <2>2. /\ limits = configs[limited].limit
        /\ counts \in [Users -> Nat] /\ holders \in [Users -> SUBSET Conns]
    BY DEF LimiterHolds, IInv, CoreTypes
  <2>3. speeds \in Seq(Nat) /\ limiters \in [Users -> 0 .. Len(speeds)]
    BY DEF OtherTypes, RegistryInv, RegistryHolds
  <2>4. {ctxDone, throttled, listening} \subseteq BOOLEAN
    BY DEF OtherTypes
  <2>5. tracked \subseteq Conns /\ wg \in Nat
    BY RunningIsFinite DEF IInv, HandlersAreCounted, Running
  <2> QED
    BY <2>1, <2>2, <2>3, <2>4, <2>5 DEF TypeOK, OtherTypes, IInv, CoreTypes, Phases
<1>2. Spec => []OtherTypes
  BY InitOtherTypes, OtherTypesStep, Inductive, RegistryInvariant, PTL DEF Spec
<1> QED
  BY <1>1, <1>2, Inductive, LimiterInvariant, RegistryInvariant, PTL
=============================================================================
