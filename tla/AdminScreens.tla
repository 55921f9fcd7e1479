---------------------------- MODULE AdminScreens ----------------------------
(***************************************************************************)
(* The two management screens of one signed-in manager, one at a time:     *)
(* leaving a screen forgets its state.  A screen is not left while one of  *)
(* its requests is pending.                                                *)
(***************************************************************************)
EXTENDS ResourceManager, UsersPage

VARIABLE screen

vars == <<screen, managerVars, usersVars>>

Init == ManagerInit /\ UsersInit /\ screen = "resources"

OpenUsers ==
  /\ screen = "resources" /\ save.phase = "idle"
  /\ screen' = "users"
  /\ list' = NoList /\ fetch' = NoFetch /\ form' = Closed
  /\ UNCHANGED <<rows, lastId, writes, save, usersVars>>

OpenResources ==
  /\ screen = "users" /\ busy = {}
  /\ screen' = "resources"
  /\ fetch' = Ask
  /\ creating' = [open |-> FALSE, draft |-> FALSE]
  /\ reset' = NoReset /\ alert' = FALSE
  /\ UNCHANGED <<rows, lastId, writes, list, form, save, busy, password>>

Next ==
  \/ screen = "resources" /\ ManagerNext /\ UNCHANGED <<screen, usersVars>>
  \/ screen = "users" /\ UsersNext /\ UNCHANGED <<screen, managerVars>>
  \/ OpenUsers \/ OpenResources

Spec == Init /\ [][Next]_vars

TypeOK == ManagerTypeOK /\ UsersTypeOK /\ screen \in {"resources", "users"}

=============================================================================
