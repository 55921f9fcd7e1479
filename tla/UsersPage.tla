----------------------------- MODULE UsersPage -----------------------------
(***************************************************************************)
(* The user management screen (features/admin/UsersPage.tsx) of one        *)
(* superadmin: the create form, the password form, and the row buttons.    *)
(* UsersService has the API's side; here a request succeeds or fails.      *)
(***************************************************************************)
EXTENDS Integers, FiniteSets

CONSTANTS Users, Self, NoUser

ASSUME UsersPageAssumption == Self \in Users /\ NoUser \notin Users

VARIABLES
  creating,  \* the create form is open, and holds a draft
  reset,     \* the password form: for whom, and in whose form it was typed
  alert,     \* the error above the list
  busy,      \* the kinds of requests the screen waits for
  password   \* the password request, as reset was when it was sent

usersVars == <<creating, reset, alert, busy, password>>

Kinds == {"create", "patch", "remove", "reset"}
Password == [for : Users \cup {NoUser}, typedFor : Users \cup {NoUser}, switched : BOOLEAN]
NoReset == [for |-> NoUser, typedFor |-> NoUser, switched |-> FALSE]

UsersTypeOK ==
  /\ creating \in [open : BOOLEAN, draft : BOOLEAN]
  /\ reset \in Password /\ password \in Password
  /\ alert \in BOOLEAN
  /\ busy \subseteq Kinds
  /\ "reset" \in busy <=> password # NoReset

UsersInit ==
  /\ creating = [open |-> FALSE, draft |-> FALSE]
  /\ reset = NoReset /\ password = NoReset
  /\ alert = FALSE
  /\ busy = {}

Send(k) == k \notin busy /\ busy' = busy \cup {k}
Ends(k) == k \in busy /\ busy' = busy \ {k}

\* The draft survives closing the form.
ToggleCreate ==
  /\ creating' = [creating EXCEPT !.open = ~@]
  /\ UNCHANGED <<reset, alert, busy, password>>

TypeDraft ==
  /\ creating.open
  /\ creating' = [creating EXCEPT !.draft = TRUE]
  /\ UNCHANGED <<reset, alert, busy, password>>

Create ==
  /\ creating.open /\ creating.draft
  /\ Send("create")
  /\ UNCHANGED <<creating, reset, alert, password>>

\* Success closes the form and clears the draft, also one begun meanwhile.
CreateEnds(ok) ==
  /\ Ends("create")
  /\ creating' = IF ok THEN [open |-> FALSE, draft |-> FALSE] ELSE creating
  /\ UNCHANGED <<reset, alert, password>>

\* Opening a row's form keeps what was typed in another row's.
OpenReset(u) ==
  /\ reset' = [reset EXCEPT !.for = u, !.switched = @ \/ (reset.for \notin {u, NoUser})]
  /\ UNCHANGED <<creating, alert, busy, password>>

TypePassword ==
  /\ reset.for # NoUser
  /\ reset' = [reset EXCEPT !.typedFor = reset.for, !.switched = FALSE]
  /\ UNCHANGED <<creating, alert, busy, password>>

\* Mutant: the password stays.
CancelReset_Keeps ==
  /\ reset.for # NoUser
  /\ reset' = [reset EXCEPT !.for = NoUser]
  /\ UNCHANGED <<creating, alert, busy, password>>
CancelReset ==
  /\ reset.for # NoUser
  /\ reset' = NoReset
  /\ UNCHANGED <<creating, alert, busy, password>>

SubmitReset ==
  /\ reset.for # NoUser /\ reset.typedFor # NoUser
  /\ Send("reset")
  /\ password' = reset
  /\ UNCHANGED <<creating, reset, alert>>

\* Closes whichever password form is open by now.
ResetEnds(ok) ==
  /\ Ends("reset")
  /\ reset' = IF ok THEN NoReset ELSE reset
  /\ password' = NoReset
  /\ alert' = ~ok
  /\ UNCHANGED creating

\* Disabled for one's own row: the API refuses these.
Patch(u)  == u # Self /\ Send("patch") /\ UNCHANGED <<creating, reset, alert, password>>
Remove(u) == u # Self /\ Send("remove") /\ UNCHANGED <<creating, reset, alert, password>>

RowRequestEnds(k, ok) ==
  /\ Ends(k)
  /\ alert' = ~ok
  /\ UNCHANGED <<creating, reset, password>>

Dismiss == alert /\ alert' = FALSE /\ UNCHANGED <<creating, reset, busy, password>>

UsersNext ==
  \/ ToggleCreate \/ TypeDraft \/ Create \/ TypePassword \/ CancelReset \/ SubmitReset \/ Dismiss
  \/ \E u \in Users : OpenReset(u) \/ Patch(u) \/ Remove(u)
  \/ \E ok \in BOOLEAN : \/ CreateEnds(ok) \/ ResetEnds(ok)
                         \/ \E k \in {"patch", "remove"} : RowRequestEnds(k, ok)

---------------------------------------------------------------------------
\* The password set for an account was typed in that account's form, unless
\* the form was switched from another account's while it held one.
PasswordExplained ==
  password.typedFor # password.for => password.switched

=============================================================================
