--------------------------------- MODULE Vfs ---------------------------------
(***************************************************************************)
(* The view of the backends one session gets (internal/vfs and the         *)
(* construction of a session's VFS in internal/server).  A VFS is a        *)
(* function from the names of the visible backends to the prefix that is   *)
(* prepended to every relative path; prefixes and paths are sequences of   *)
(* segments, as in Bucket.                                                 *)
(***************************************************************************)
EXTENDS Bucket

Wildcard == "*"

(* VFS.Filter: an empty list of names leaves the VFS unchanged, and names  *)
(* that are not configured are dropped.                                    *)
Filter(vfs, names) ==
  IF names = {} THEN vfs ELSE [b \in DOMAIN vfs \cap names |-> vfs[b]]

(* The entry of `prefixes` that applies to backend b: its own, else the    *)
(* wildcard's, else none.  An empty entry extends nothing.                 *)
PrefixFor(prefixes, b) ==
  IF b \in DOMAIN prefixes THEN prefixes[b]
  ELSE IF Wildcard \in DOMAIN prefixes THEN prefixes[Wildcard] ELSE <<>>

(* VFS.WithBackendPrefixes. *)
WithBackendPrefixes(vfs, prefixes) ==
  [b \in DOMAIN vfs |-> vfs[b] \o PrefixFor(prefixes, b)]

(* userBackendPrefixes: a per-backend map hides the user's global prefix.  *)
NoPrefixes == [b \in {} |-> <<>>]

UserBackendPrefixes(user) ==
  IF user.backendPrefixes # NoPrefixes THEN user.backendPrefixes
  ELSE IF user.prefix # <<>> THEN [b \in {Wildcard} |-> user.prefix]
  ELSE NoPrefixes

(* handleConn: the VFS of a session of this user. *)
SessionVFS(vfs, user) ==
  WithBackendPrefixes(Filter(vfs, user.backends), UserBackendPrefixes(user))

(* ParsePermissions: a list without a recognised entry grants everything.  *)
AllPermissions == {"read", "write", "delete"}

ParsePermissions(list) ==
  LET granted == list \cap AllPermissions
  IN  IF granted = {} THEN AllPermissions ELSE granted
=============================================================================
