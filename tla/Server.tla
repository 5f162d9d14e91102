------------------------------- MODULE Server -------------------------------
(***************************************************************************)
(* The life of the server process (internal/server's Run and handleConn,   *)
(* and the reload in cmd/sftp2s3): the accept loop, one handler for each   *)
(* connection, the goroutine that reloads the configuration on SIGHUP and  *)
(* the one that shuts down.  They share the current State, the connection  *)
(* limiter, the rate registry, the set of tracked connections and the wait *)
(* group, each behind its own lock or atomic.                              *)
(***************************************************************************)
EXTENDS Integers, Sequences, FiniteSets

CONSTANTS
  Users,
  Conns,         \* the TCP connections that may exist at once
  Configs,       \* the contents that the configuration file may have
  NoUser,        \* the user of a connection that has not authenticated
  Stops,         \* bound: may the process be told to stop?
  MaxReloads,    \* bound: reloads in a behaviour
  MaxChannels    \* bound: SFTP channels open at once on a connection

ASSUME ConfigsAssumption ==
  /\ Configs # {}
  /\ \A g \in Configs : /\ g.known \subseteq Users
                        /\ g.limit \in [Users -> Nat]
                        /\ g.rate \in [Users -> Nat]
                        /\ \A u \in Users \ g.known : g.limit[u] = 0 /\ g.rate[u] = 0
ASSUME KnownAssumption == \A g \in Configs : IsFiniteSet(g.known)
ASSUME ConnsAssumption == IsFiniteSet(Conns)
ASSUME NoUserAssumption == NoUser \notin Users
ASSUME BoundAssumption == MaxReloads \in Nat /\ MaxChannels \in Nat /\ Stops \in BOOLEAN

VARIABLES
  configs,    \* the configurations loaded so far, the oldest first
  current,    \* which of them is the State that new connections get
  limited,    \* which of them the connection limits are of
  rated,      \* which of them the rates are of
  limits, counts, holders,   \* the connection limiter
  limiters, speeds,          \* the rate registry
  ctxDone,    \* SIGINT or SIGTERM has cancelled the context
  throttled,  \* there is a limit on connections per second
  loop,       \* where Run is
  listening,  \* the listener is open
  closer,     \* what the goroutine that waits for the context has closed
  tracked,    \* connTracker.conns
  wg,         \* the wait group
  phase,      \* phase[c]: where connection c is
  closedBy,   \* closedBy[c]: who closed c first
  seen,       \* seen[c]: which configuration the State given to c is of
  user,       \* user[c]: the user that c authenticated as
  bucket,     \* bucket[c]: the rate bucket of c's session
  servers     \* servers[c]: the SFTP request servers running for c

limiterVars  == <<limits, counts, holders>>
registryVars == <<limiters, speeds>>
configVars   == <<configs, current, limited, rated>>
loopVars     == <<loop, throttled>>
connVars     == <<phase, closedBy, seen, user, bucket, servers>>

vars == <<configVars, limiterVars, registryVars, ctxDone, loopVars, listening,
          closer, tracked, wg, connVars>>

Limiter  == INSTANCE ConnLimiter WITH Limits <- {g.limit : g \in Configs}
Registry == INSTANCE RateRegistry

NoBucket == 0

(* Connections whose handler runs; sessions that the limiter has admitted. *)
Running  == {c \in Conns : phase[c] \in {"handshake", "admit", "setup", "serving", "leaving"}}
Admitted == {c \in Conns : phase[c] \in {"setup", "serving"}}
SessionsOf(u) == {c \in Admitted : user[c] = u}

Enter(c, p) == phase' = [phase EXCEPT ![c] = p]

(* The first to close a connection closes it for both sides. *)
CloseAll(S, who) ==
  closedBy' = [c \in Conns |->
                 IF c \in S /\ closedBy[c] = "nobody" THEN who ELSE closedBy[c]]

(* The connections of S are over; another may take the place of each. *)
Forget(S) ==
  /\ phase' = [c \in Conns |-> IF c \in S THEN "none" ELSE phase[c]]
  /\ closedBy' = [c \in Conns |-> IF c \in S THEN "nobody" ELSE closedBy[c]]
  /\ seen' = [c \in Conns |-> IF c \in S THEN 0 ELSE seen[c]]
  /\ user' = [c \in Conns |-> IF c \in S THEN NoUser ELSE user[c]]
  /\ bucket' = [c \in Conns |-> IF c \in S THEN NoBucket ELSE bucket[c]]

Init ==
  /\ \E g \in Configs : /\ configs = <<g>>
                        /\ limits = g.limit
                        /\ Registry!Init(g.rate)
  /\ current = 1 /\ limited = 1 /\ rated = 1
  /\ counts = [u \in Users |-> 0]
  /\ holders = [u \in Users |-> {}]
  /\ ctxDone = FALSE
  /\ throttled \in BOOLEAN
  /\ loop = [at |-> "accept", conn |-> {}]
  /\ listening = TRUE
  /\ closer = "nothing"
  /\ tracked = {}
  /\ wg = 0
  /\ phase = [c \in Conns |-> "none"]
  /\ closedBy = [c \in Conns |-> "nobody"]
  /\ seen = [c \in Conns |-> 0]
  /\ user = [c \in Conns |-> NoUser]
  /\ bucket = [c \in Conns |-> NoBucket]
  /\ servers = [c \in Conns |-> 0]
-----------------------------------------------------------------------------
(* Clients. *)

Dial(c) ==
  /\ phase[c] = "none" /\ servers[c] = 0 /\ listening
  /\ Enter(c, "backlog")
  /\ UNCHANGED <<configVars, limiterVars, registryVars, ctxDone, loopVars, listening,
                 closer, tracked, wg, closedBy, seen, user, bucket, servers>>

(* The client, or the network, ends the connection. *)
HangUp(c) ==
  /\ phase[c] # "none" /\ closedBy[c] = "nobody"
  /\ CloseAll({c}, "client")
  /\ UNCHANGED <<configVars, limiterVars, registryVars, ctxDone, loopVars, listening,
                 closer, tracked, wg, phase, seen, user, bucket, servers>>
-----------------------------------------------------------------------------
(* The accept loop of Run; loop.conn holds the connection just accepted.   *)

Goto(at, S) == loop' = [at |-> at, conn |-> S] /\ UNCHANGED throttled

Accept(c) ==
  /\ loop.at = "accept" /\ listening /\ phase[c] = "backlog"
  /\ Goto(IF throttled THEN "wait" ELSE "spawn", {c})
  /\ Enter(c, "accepted")
  /\ UNCHANGED <<configVars, limiterVars, registryVars, ctxDone, listening,
                 closer, tracked, wg, closedBy, seen, user, bucket, servers>>

(* acceptLimiter.Wait lets the connection through ... *)
PassThrottle ==
  /\ loop.at = "wait" /\ ~ ctxDone
  /\ Goto("spawn", loop.conn)
  /\ UNCHANGED <<configVars, limiterVars, registryVars, ctxDone, listening,
                 closer, tracked, wg, connVars>>

(* ... or fails, when the context ends. *)
FailThrottle ==
  /\ loop.at = "wait" /\ ctxDone
  /\ Goto("accept", {})
  /\ Forget(loop.conn)
  /\ UNCHANGED <<configVars, limiterVars, registryVars, ctxDone, listening,
                 closer, tracked, wg, servers>>

(* Variant: the handler adds itself to the wait group, later. *)
WaitGroupAfterLateAdd == wg

WaitGroupAfterSpawn == wg + 1

(* currentState.Load, tracker.add, wg.Add and the handler's goroutine. *)
Spawn ==
  /\ loop.at = "spawn"
  /\ Goto("accept", {})
  /\ seen' = [c \in Conns |-> IF c \in loop.conn THEN current ELSE seen[c]]
  /\ phase' = [c \in Conns |-> IF c \in loop.conn THEN "handshake" ELSE phase[c]]
  /\ tracked' = tracked \cup loop.conn
  /\ wg' = WaitGroupAfterSpawn
  /\ UNCHANGED <<configVars, limiterVars, registryVars, ctxDone, listening,
                 closer, closedBy, user, bucket, servers>>

(* Accept fails once the listener is closed; after the end of the context  *)
(* any other error has the same effect.  (Before it, the loop goes on.)    *)
BeginDrain ==
  /\ loop.at = "accept" /\ ctxDone
  /\ Goto("drain", {})
  /\ UNCHANGED <<configVars, limiterVars, registryVars, ctxDone, listening,
                 closer, tracked, wg, connVars>>

AcceptFails == ~ listening /\ BeginDrain
AcceptError == listening /\ BeginDrain

(* Run returns: every handler is done, or the time is over. *)
Return(how) ==
  /\ loop.at = "drain"
  /\ Goto(how, {})
  /\ UNCHANGED <<configVars, limiterVars, registryVars, ctxDone, listening,
                 closer, tracked, wg, connVars>>

Drained == wg = 0 /\ Return("drained")
TimeOut == Return("timed out")
Returned == loop.at \in {"drained", "timed out"}
-----------------------------------------------------------------------------
(* Shutdown. *)

Cancel ==
  /\ Stops /\ ~ ctxDone
  /\ ctxDone' = TRUE
  /\ UNCHANGED <<configVars, limiterVars, registryVars, loopVars, listening,
                 closer, tracked, wg, connVars>>

CloseTracked ==
  /\ closer = "nothing" /\ ctxDone
  /\ closer' = "connections"
  /\ CloseAll(tracked, "server")
  /\ UNCHANGED <<configVars, limiterVars, registryVars, ctxDone, loopVars, listening,
                 tracked, wg, phase, seen, user, bucket, servers>>

(* Variant: the listener is left open. *)
ListenerStaysOpen == TRUE

ListenerAfterShutdown == FALSE

(* The connections that nobody has accepted are reset. *)
CloseListener ==
  /\ closer = "connections"
  /\ closer' = "listener"
  /\ listening' = ListenerAfterShutdown
  /\ Forget({c \in Conns : phase[c] = "backlog"})
  /\ UNCHANGED <<configVars, limiterVars, registryVars, ctxDone, loopVars,
                 tracked, wg, servers>>
-----------------------------------------------------------------------------
(* handleConn. *)

HandshakeFails(c) ==
  /\ phase[c] = "handshake"
  /\ Enter(c, "leaving")
  /\ UNCHANGED <<configVars, limiterVars, registryVars, ctxDone, loopVars, listening,
                 closer, tracked, wg, closedBy, seen, user, bucket, servers>>

(* A user of the configuration that the connection started with. *)
Handshake(c) ==
  /\ phase[c] = "handshake" /\ closedBy[c] = "nobody"
  /\ \E u \in configs[seen[c]].known : user' = [user EXCEPT ![c] = u]
  /\ Enter(c, "admit")
  /\ UNCHANGED <<configVars, limiterVars, registryVars, ctxDone, loopVars, listening,
                 closer, tracked, wg, closedBy, seen, bucket, servers>>

(* Variant: the handler notices that the connection was closed before it   *)
(* has made sure that the place is given back.                             *)
AdmitAndNotice(c) ==
  /\ phase[c] = "admit"
  /\ Limiter!Acquire(user[c], c)
  /\ Enter(c, IF closedBy[c] = "nobody" THEN "setup" ELSE "leaving")
  /\ UNCHANGED <<configVars, registryVars, ctxDone, loopVars, listening,
                 closer, tracked, wg, closedBy, seen, user, bucket, servers>>

(* The connection may have been closed meanwhile: nothing looks at that    *)
(* before the session is served.                                           *)
Admit(c) ==
  /\ phase[c] = "admit"
  /\ Limiter!Acquire(user[c], c)
  /\ Enter(c, "setup")
  /\ UNCHANGED <<configVars, registryVars, ctxDone, loopVars, listening,
                 closer, tracked, wg, closedBy, seen, user, bucket, servers>>

(* Variant: the place is given back on every way out of the handler. *)
CountsAfterReleaseOnRefusal(c) ==
  [counts EXCEPT ![user[c]] = Limiter!CountAfterRelease(user[c])]

CountsAfterRefusal(c) == counts

Refuse(c) ==
  /\ phase[c] = "admit"
  /\ ~ Limiter!HasRoom(user[c])
  /\ counts' = CountsAfterRefusal(c)
  /\ Enter(c, "leaving")
  /\ UNCHANGED <<configVars, limits, holders, registryVars, ctxDone, loopVars, listening,
                 closer, tracked, wg, closedBy, seen, user, bucket, servers>>

(* rateRegistry.Limiter, once for the session. *)
TakeBucket(c) ==
  /\ phase[c] = "setup"
  /\ bucket' = [bucket EXCEPT ![c] = limiters[user[c]]]
  /\ Enter(c, "serving")
  /\ UNCHANGED <<configVars, limiterVars, registryVars, ctxDone, loopVars, listening,
                 closer, tracked, wg, closedBy, seen, user, servers>>

(* Every session channel gets a request server, which nobody waits for.    *)
OpenChannel(c) ==
  /\ phase[c] = "serving" /\ closedBy[c] = "nobody"
  /\ servers[c] < MaxChannels
  /\ servers' = [servers EXCEPT ![c] = @ + 1]
  /\ UNCHANGED <<configVars, limiterVars, registryVars, ctxDone, loopVars, listening,
                 closer, tracked, wg, phase, closedBy, seen, user, bucket>>

(* A request server ends with its channel, after the command it runs. *)
EndChannel(c) ==
  /\ servers[c] > 0
  /\ servers' = [servers EXCEPT ![c] = @ - 1]
  /\ UNCHANGED <<configVars, limiterVars, registryVars, ctxDone, loopVars, listening,
                 closer, tracked, wg, phase, closedBy, seen, user, bucket>>

(* Variant: the handler waits for its request servers. *)
NoMoreChannelsNorServers(c) == closedBy[c] # "nobody" /\ servers[c] = 0

NoMoreChannels(c) == closedBy[c] # "nobody"

(* The connection is closed: the loop over its channels ends.              *)
EndSession(c) ==
  /\ phase[c] = "serving" /\ NoMoreChannels(c)
  /\ Limiter!Release(user[c], c)
  /\ Enter(c, "leaving")
  /\ UNCHANGED <<configVars, registryVars, ctxDone, loopVars, listening,
                 closer, tracked, wg, closedBy, seen, user, bucket, servers>>

(* tcpConn.Close, tracker.remove, wg.Done. *)
Leave(c) ==
  /\ phase[c] = "leaving"
  /\ Forget({c})
  /\ tracked' = tracked \ {c}
  /\ wg' = wg - 1
  /\ UNCHANGED <<configVars, limiterVars, registryVars, ctxDone, loopVars, listening,
                 closer, servers>>
-----------------------------------------------------------------------------
(* The reload.  A configuration that cannot be loaded or whose State       *)
(* cannot be built changes nothing.                                        *)

Load ==
  /\ current = Len(configs) /\ Len(configs) <= MaxReloads
  /\ \E g \in Configs : configs' = Append(configs, g)
  /\ UNCHANGED <<current, limited, rated, limiterVars, registryVars, ctxDone, loopVars,
                 listening, closer, tracked, wg, connVars>>

UpdateLimits ==
  /\ limited < Len(configs)
  /\ limited' = Len(configs)
  /\ Limiter!UpdateTo(configs[Len(configs)].limit)
  /\ UNCHANGED <<configs, current, rated, registryVars, ctxDone, loopVars, listening,
                 closer, tracked, wg, connVars>>

UpdateRates ==
  /\ rated < limited
  /\ rated' = limited
  /\ Registry!UpdateTo(configs[limited].rate)
  /\ UNCHANGED <<configs, current, limited, limiterVars, ctxDone, loopVars, listening,
                 closer, tracked, wg, connVars>>

(* Variant: the State is stored before the limits are updated. *)
StorableAtOnce == Len(configs)

Storable == rated

StoreState ==
  /\ current < Storable
  /\ current' = Storable
  /\ UNCHANGED <<configs, limited, rated, limiterVars, registryVars, ctxDone, loopVars,
                 listening, closer, tracked, wg, connVars>>
-----------------------------------------------------------------------------
Loop == PassThrottle \/ FailThrottle \/ Spawn \/ AcceptFails \/ Drained \/ TimeOut

Closer == CloseTracked \/ CloseListener

(* What a handler does by itself; the handshake has no deadline. *)
Handler(c) ==
  \/ phase[c] = "handshake" /\ closedBy[c] # "nobody" /\ HandshakeFails(c)
  \/ Admit(c) \/ Refuse(c) \/ TakeBucket(c) \/ EndSession(c) \/ Leave(c)

Connection(c) ==
  \/ Dial(c) \/ HangUp(c) \/ Accept(c)
  \/ HandshakeFails(c) \/ Handshake(c) \/ Handler(c)
  \/ OpenChannel(c) \/ EndChannel(c)

Reload == Load \/ UpdateLimits \/ UpdateRates \/ StoreState

(* When Run returns, so does main, and every goroutine ends. *)
Exited == Returned /\ UNCHANGED vars

Next ==
  \/ /\ ~ Returned
     /\ \/ \E c \in Conns : Connection(c)
        \/ Loop \/ AcceptError
        \/ Cancel \/ Closer
        \/ Reload
  \/ Exited

Spec == Init /\ [][Next]_vars

(* The goroutines of the process run.  Nothing obliges a client or an      *)
(* operator to do anything.                                                *)
FairSpec ==
  /\ Spec
  /\ WF_vars(~ Returned /\ Loop)
  /\ WF_vars(~ Returned /\ Closer)
  /\ \A c \in Conns : WF_vars(~ Returned /\ Handler(c))
-----------------------------------------------------------------------------
(* Properties.                                                             *)

TypeOK ==
  /\ configs \in Seq(Configs) /\ Len(configs) \in 1 .. MaxReloads + 1
  /\ {current, limited, rated} \subseteq 1 .. Len(configs)
  /\ limits = configs[limited].limit
  /\ counts \in [Users -> Nat]
  /\ holders \in [Users -> SUBSET Conns]
  /\ speeds \in Seq(Nat)
  /\ limiters \in [Users -> 0 .. Len(speeds)]
  /\ {ctxDone, throttled, listening} \subseteq BOOLEAN
  /\ loop \in [at : {"accept", "wait", "spawn", "drain", "drained", "timed out"},
               conn : SUBSET Conns]
  /\ closer \in {"nothing", "connections", "listener"}
  /\ tracked \subseteq Conns
  /\ wg \in Nat
  /\ phase \in [Conns -> {"none", "backlog", "accepted", "handshake", "admit",
                          "setup", "serving", "leaving"}]
  /\ closedBy \in [Conns -> {"nobody", "client", "server"}]
  /\ seen \in [Conns -> 0 .. Len(configs)]
  /\ user \in [Conns -> Users \cup {NoUser}]
  /\ bucket \in [Conns -> 0 .. Len(speeds)]
  /\ servers \in [Conns -> 0 .. MaxChannels]

(* A place with the limiter is held exactly by the sessions that run: no   *)
(* way out of handleConn leaks one, or gives back what it never had.       *)
PlacesAreSessions == \A u \in Users : holders[u] = SessionsOf(u)

(* The largest limit that any configuration loaded so far gives. *)
WithinSomeLimit(u, n) == \E i \in 1 .. Len(configs) : n <= configs[i].limit[u]

AlwaysLimited(u) == \A i \in 1 .. Len(configs) : configs[i].limit[u] > 0

(* A user that every configuration so far limits has no more sessions than *)
(* one of them allows, though reloads come between any two steps of a      *)
(* handshake, and refused connections end as admitted ones do.             *)
SessionsWithinLimit ==
  \A u \in Users : AlwaysLimited(u) => WithinSomeLimit(u, Cardinality(SessionsOf(u)))

(* A connection that got the State of a new configuration is never held    *)
(* to the limits, or the rates, of an older one: main updates both before  *)
(* it stores the State.                                                    *)
NewStateNewLimits ==
  [][\A c \in Conns :
       /\ phase[c] = "admit" /\ phase'[c] # "admit" => seen[c] <= limited
       /\ phase[c] = "setup" /\ phase'[c] # "setup" => seen[c] <= rated]_vars

AlwaysRated(u) == \A i \in 1 .. Len(configs) : configs[i].rate[u] > 0

(* The sessions of a user that every configuration so far has throttled    *)
(* share one bucket, which runs at the rate last put in force: reloads     *)
(* neither reset it nor leave a session behind with an older one           *)
(* (UserRateRegistry.Update reuses the limiters).                          *)
OneBucket ==
  \A u \in Users : AlwaysRated(u) =>
    /\ \A c \in SessionsOf(u) : phase[c] = "serving" => bucket[c] = limiters[u]
    /\ speeds[limiters[u]] = configs[rated].rate[u]

(* If Run returns before its time is over, no handler runs, none will ever *)
(* start, and no place, tracked connection or accepted connection is left. *)
DrainedIsEmpty ==
  loop.at = "drained" =>
    /\ Running = {} /\ tracked = {}
    /\ \A u \in Users : holders[u] = {}
    /\ ~ \E c \in Conns : phase[c] = "accepted"

(* Shutting down ends: Run returns whatever the clients do. *)
ShutdownEnds == ctxDone ~> Returned

(* A session whose connection was closed gives its place back. *)
PlacesComeBack ==
  \A c \in Conns :
    (closedBy[c] # "nobody" /\ c \in Admitted) ~> (c \notin Admitted \/ Returned)

(* "waits for existing SFTP sessions to finish" (README): the server does  *)
(* not close the connection of a session that is being served.             *)
SessionsFinish ==
  \A c \in Conns : phase[c] = "serving" => closedBy[c] # "server"
=============================================================================
