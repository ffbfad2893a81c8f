------------------------------- MODULE MCLink -------------------------------
(***************************************************************************)
(* Small instances of Link for TLC.  A behaviour uses the calls of one      *)
(* scope only, so that one run covers several mixes of calls (a request     *)
(* and a stream, two streams contending for one slot, ...) without their    *)
(* product.                                                                 *)
(***************************************************************************)
EXTENDS Link

CONSTANT Scopes   \* sets of calls a behaviour may use together

VARIABLE scope

InScope ==
  /\ \A c \in Calls \ scope : call'[c] = "new"
  /\ \A c \in Streams \ scope : relay'[c] = "idle"

MCInit == Init /\ scope \in Scopes
MCNext == Next /\ InScope /\ UNCHANGED scope

SafetySpec == MCInit /\ [][MCNext]_<<vars, scope>>
=============================================================================
