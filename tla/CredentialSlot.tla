--------------------------- MODULE CredentialSlot ---------------------------
(***************************************************************************)
(* What the daemon's SFTP credentials promise, without the maps that keep    *)
(* them: a server has one credential at most, the last one minted for it,    *)
(* until it ends; a login is answered with the server whose credential it    *)
(* is, and a status with the credential that a login would be taken by.     *)
(***************************************************************************)
CONSTANTS Boxes, Usernames, None

VARIABLES
  slot,     \* [Boxes -> Usernames or None]: the credential that is good
  issued,   \* usernames that were minted
  answer    \* what the last login or status was answered, or was found to be

slotVars == <<slot, issued, answer>>

SlotInit ==
  /\ slot = [b \in Boxes |-> None]
  /\ issued = {}
  /\ answer = <<"status", None, TRUE, None>>

Issue(b, u) ==
  /\ u \notin issued
  /\ issued' = issued \cup {u}
  /\ slot' = [slot EXCEPT ![b] = u]
  /\ UNCHANGED answer

\* A credential expires or is revoked, or the daemon is restarted.
End(B) ==
  /\ slot' = [b \in Boxes |-> IF b \in B THEN None ELSE slot[b]]
  /\ UNCHANGED <<issued, answer>>

\* A login by the right password, or a wrong one.
Login(u, right) ==
  /\ \E b \in Boxes \cup {None} :
       /\ answer' = <<"login", u, right, b>>
       /\ IF right /\ \E c \in Boxes : slot[c] = u THEN b \in Boxes /\ slot[b] = u ELSE b = None
  /\ UNCHANGED <<slot, issued>>

Status(b) ==
  /\ answer' = <<"status", slot[b], TRUE, b>>
  /\ UNCHANGED <<slot, issued>>

SlotNext ==
  \/ \E B \in SUBSET Boxes : End(B)
  \/ \E b \in Boxes : Status(b) \/ \E u \in Usernames : Issue(b, u)
  \/ \E u \in Usernames, right \in BOOLEAN : Login(u, right)

SlotSpec == SlotInit /\ [][SlotNext]_slotVars
=============================================================================
