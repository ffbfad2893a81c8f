---------------------------- MODULE SftpSessions ----------------------------
(***************************************************************************)
(* The store of SFTP credentials: apps/wings/internal/sftp/store.go.  Two    *)
(* maps, usernames to sessions and servers to usernames, are kept in step by *)
(* the minting, the revocation, the expiry and the sweep.  Every operation   *)
(* runs under the store's mutex and is a step; the panel's part is a call of *)
(* each (apps/panel/src/server/sftp/index.ts).                              *)
(***************************************************************************)
CONSTANTS
  Boxes,       \* server ids
  Usernames,   \* random: each is minted once
  None         \* no session, no user, no server

ASSUME SftpAssumption == None \notin Boxes \cup Usernames

VARIABLES
  byUser,     \* [Usernames -> Boxes or None]: the server of a user's session
  byServer,   \* [Boxes -> Usernames or None]
  overdue,    \* usernames whose expiresAt has passed
  issued,     \* history: usernames that were minted
  answer      \* history: what the last Authenticate or Active answered

sftpVars == <<byUser, byServer, overdue, issued, answer>>

SftpInit ==
  /\ byUser = [u \in Usernames |-> None]
  /\ byServer = [b \in Boxes |-> None]
  /\ overdue = {}
  /\ issued = {}
  /\ answer = <<"status", None, TRUE, None>>

NotDeleted(U) == byUser   \* mutation: users are never deleted

\* delete(s.byUser, ...) of a set of usernames.
Deleted(U) == [u \in Usernames |-> IF u \in U THEN None ELSE byUser[u]]

\* removeLocked, of users with their sessions' servers.
RemoveLocked(U) ==
  /\ byUser' = Deleted(U)
  /\ byServer' = [b \in Boxes |-> IF \E u \in U : byUser[u] = b THEN None ELSE byServer[b]]

Mint(b, u) ==
  /\ u \notin issued
  /\ byUser' = [Deleted({byServer[b]}) EXCEPT ![u] = b]
  /\ byServer' = [byServer EXCEPT ![b] = u]
  /\ issued' = issued \cup {u}
  /\ UNCHANGED <<overdue, answer>>

\* Authenticate, with the session's password or another one.
Authenticate(u, right) ==
  /\ IF byUser[u] # None /\ u \in overdue
       THEN RemoveLocked({u})
       ELSE UNCHANGED <<byUser, byServer>>
  /\ answer' = <<"login", u, right, IF u \notin overdue /\ right THEN byUser[u] ELSE None>>
  /\ UNCHANGED <<overdue, issued>>

\* Active reads byServer first, and removes both entries of a session that
\* has expired or is missing.
Current(b) ==
  byServer[b] # None /\ byUser[byServer[b]] # None /\ byServer[b] \notin overdue

Active(b) ==
  /\ IF Current(b)
       THEN UNCHANGED <<byUser, byServer>>
       ELSE byUser' = Deleted({byServer[b]}) /\ byServer' = [byServer EXCEPT ![b] = None]
  /\ answer' = <<"status", IF Current(b) THEN byServer[b] ELSE None, TRUE, b>>
  /\ UNCHANGED <<overdue, issued>>

Revoke(b) ==
  /\ byUser' = Deleted({byServer[b]})
  /\ byServer' = [byServer EXCEPT ![b] = None]
  /\ UNCHANGED <<overdue, issued, answer>>

SweepSessions ==
  /\ RemoveLocked({u \in overdue : byUser[u] # None})
  /\ UNCHANGED <<overdue, issued, answer>>

Expires(u) ==
  /\ byUser[u] # None
  /\ overdue' = overdue \cup {u}
  /\ UNCHANGED <<byUser, byServer, issued, answer>>

\* The maps are in memory only.
StoreRestarts ==
  /\ byUser' = [u \in Usernames |-> None]
  /\ byServer' = [b \in Boxes |-> None]
  /\ UNCHANGED <<overdue, issued, answer>>

SftpNext ==
  \/ \E u \in Usernames : \/ Expires(u) \/ \E b \in Boxes : Mint(b, u)
                          \/ \E right \in BOOLEAN : Authenticate(u, right)
  \/ \E b \in Boxes : Active(b) \/ Revoke(b)
  \/ SweepSessions \/ StoreRestarts

SftpSpec == SftpInit /\ [][SftpNext]_sftpVars

SftpTypeOK ==
  /\ byUser \in [Usernames -> Boxes \cup {None}]
  /\ byServer \in [Boxes -> Usernames \cup {None}]
  /\ overdue \subseteq issued /\ issued \subseteq Usernames
  /\ answer \in {"login", "status"} \X (Usernames \cup {None}) \X BOOLEAN \X (Boxes \cup {None})

\* The two maps are each other's inverse.
InStep == \A u \in Usernames, b \in Boxes : byUser[u] = b <=> byServer[b] = u

(***************************************************************************)
(* The store implements CredentialSlot (store.go:41-42: "At most one session *)
(* per server: minting a new one revokes the old"): the credential of a      *)
(* server is the user by whom a login would be taken as this server's.      *)
(***************************************************************************)
Good(b) == {u \in Usernames : byUser[u] = b /\ u \notin overdue}
Credential == INSTANCE CredentialSlot WITH
  slot <- [b \in Boxes |-> IF Good(b) = {} THEN None ELSE CHOOSE u \in Good(b) : TRUE]

OneCredential == Credential!SlotSpec
=============================================================================
