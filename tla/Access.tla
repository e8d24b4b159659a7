------------------------------- MODULE Access -------------------------------
(***************************************************************************)
(* What the login of a control connection promises: commands run for a     *)
(* user who has proven who he is on this very connection, and they go on   *)
(* running for that user until he is logged out.  The one exception is a   *)
(* connection on which two login attempts have overlapped: there the later *)
(* of two proven identities may take the place of the earlier.             *)
(***************************************************************************)
CONSTANT Users

VARIABLES
  proven,    \* users the authenticator has accepted on this connection
  active,    \* the user for whom commands run: at most one
  overlap    \* two login attempts have been outstanding at the same time

accessVars == <<proven, active, overlap>>

Init == proven = {} /\ active = {} /\ overlap = FALSE

\* The authenticator accepts a user, who may get access in the same step.
Prove(u) ==
  /\ proven' = proven \union {u}
  /\ active' = active \/ (active = {} /\ active' = {u})
  /\ UNCHANGED overlap

Grant(u) ==
  /\ u \in proven
  /\ active = {} \/ overlap
  /\ active' = {u}
  /\ UNCHANGED <<proven, overlap>>

Revoke == active' = {} /\ UNCHANGED <<proven, overlap>>

Overlap == overlap' = TRUE /\ UNCHANGED <<proven, active>>

Next ==
  \/ \E u \in Users : Prove(u) \/ Grant(u)
  \/ Revoke
  \/ Overlap

Spec == Init /\ [][Next]_accessVars
=============================================================================
