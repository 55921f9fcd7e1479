------------------------------ MODULE Sessions ------------------------------
(***************************************************************************)
(* The API process: authentication and user-management requests running    *)
(* side by side on one database, with time passing (tokens expire) and     *)
(* requests dying between two statements.                                  *)
(***************************************************************************)
EXTENDS UsersService

CONSTANT MaxAborts   \* bound: requests that die half way

ASSUME SessionsAssumption == MaxAborts \in Nat

VARIABLE aborts      \* requests that died half way so far

vars == <<tables, authVars, usersVars, aborts>>

TypeOK ==
  /\ TablesTypeOK
  /\ AuthTypeOK
  /\ UsersTypeOK
  /\ aborts \in Nat

Init == TablesInit /\ AuthInit /\ UsersInit /\ aborts = 0

\* A refresh token passes its expires_at.  Every token has the same lifetime
\* and a family's tokens are created one after the other, so a family's rows
\* expire in the order they were created.
Expire(t) ==
  /\ t \in rows \ expired
  /\ \A s \in rows \ expired : minted[s].family = minted[t].family => t <= s
  /\ expired' = expired \cup {t}
  /\ UNCHANGED <<status, role, minted, rows, revoked, links, epoch, interrupted,
                 authVars, usersVars, aborts>>

ExpireAccess(token) ==
  /\ access' = access \ {token}
  /\ UNCHANGED <<tables, auth, overtaken, late, known, usersVars, aborts>>

\* The process dies, a statement fails, or the response is lost: what the
\* request has written stays, what it had left to do is never done.
AbortCaller(c) ==
  /\ auth[c].pc # "idle"
  /\ aborts < MaxAborts
  /\ aborts' = aborts + 1
  /\ Finish(c)
  /\ UNCHANGED <<tables, late, known, access, usersVars>>

AbortManager(m) ==
  /\ admin[m].pc # "idle"
  /\ aborts < MaxAborts
  /\ aborts' = aborts + 1
  /\ interrupted' = IF admin[m].pc = "revoke"
                    THEN interrupted \cup {admin[m].target} ELSE interrupted
  /\ Answer(m)
  /\ UNCHANGED <<status, role, minted, rows, revoked, expired, links, epoch,
                 authVars, managed>>

CallerAction(c) ==
  (CallerStep(c) \/ CallerStart(c)) /\ UNCHANGED <<usersVars, aborts>>

ManagerAction(m) ==
  (ManagerStep(m) \/ ManagerStart(m)) /\ UNCHANGED aborts

Next ==
  \/ \E c \in Callers : CallerAction(c) \/ AbortCaller(c)
  \/ \E m \in Managers : ManagerAction(m) \/ AbortManager(m)
  \/ \E t \in rows : Expire(t)
  \/ \E token \in access : ExpireAccess(token)

Spec == Init /\ [][Next]_vars

\* Every statement a request waits for settles, so a request in flight is
\* never abandoned by the event loop.  New requests need not arrive.
Fairness ==
  /\ \A c \in Callers : WF_vars(CallerStep(c) /\ UNCHANGED <<usersVars, aborts>>)
  /\ \A m \in Managers : WF_vars(ManagerStep(m) /\ UNCHANGED aborts)

FairSpec == Spec /\ Fairness

-----------------------------------------------------------------------------
(* Rotation *)

\* Callers between the claim of a token and the INSERT of its replacement.
Renewing == {c \in Callers : auth[c].pc = "create" /\ auth[c].prev # NoToken}

FamilyOf(t) == minted[t].family

(***************************************************************************)
(* However many refreshes present one token, and wherever logins, logouts, *)
(* revocations and prunes fall between their statements, a login never has *)
(* two usable refresh tokens, nor one beside a replacement on its way      *)
(* (auth.service.ts 109-118; README 348-349).                              *)
(***************************************************************************)
OneLivePerFamily ==
  /\ \A s, t \in Live : FamilyOf(s) = FamilyOf(t) => s = t
  /\ \A c \in Renewing, t \in Live : FamilyOf(t) # FamilyOf(auth[c].prev)
  /\ \A c, d \in Renewing : FamilyOf(auth[c].prev) = FamilyOf(auth[d].prev) => c = d

(***************************************************************************)
(* One presented token is exchanged for at most one new token, ever: not   *)
(* even after its row has been pruned or its user's sessions revoked.      *)
(***************************************************************************)
OneSuccessor ==
  \A s, t \in Tokens : minted[s].parent = minted[t].parent
                         /\ minted[s].parent # NoToken => s = t

(***************************************************************************)
(* A row goes only when its token has expired or its account was removed,  *)
(* so a replayed token is still recognised for as long as it could be      *)
(* presented, and no row outlives its account (auth.service.ts 232-238,    *)
(* schema.prisma 46-49).                                                   *)
(***************************************************************************)
ReplayRecognised ==
  /\ \A t \in Tokens \ expired : t \in rows \/ ~Exists(minted[t].owner)
  /\ \A t \in rows : Exists(minted[t].owner)

(***************************************************************************)
(* replaced_by_id records the exchange truthfully, and while requests run  *)
(* to their end every exchange whose old row is still there is recorded    *)
(* (auth.service.ts 217-225, "so the family stays traceable").             *)
(***************************************************************************)
FamilyTraceable ==
  /\ \A p \in links : minted[p[2]].parent = p[1] /\ p[1] \in revoked
  /\ aborts = 0 => \A t \in Tokens :
       LET p == minted[t].parent
       IN p \in rows => \/ <<p, t>> \in links
                        \/ \E c \in Callers : auth[c].pc = "link" /\ auth[c].made = t

(***************************************************************************)
(* While requests run to their end, a usable token that no client got      *)
(* (and no request is about to deliver) comes from one cause: the row it   *)
(* replaced was pruned before replaced_by_id was set, so the handler threw *)
(* after its INSERT.                                                       *)
(***************************************************************************)
OrphanOnlyAfterPrune ==
  aborts = 0 => \A t \in Live \ known :
    \/ \E c \in Callers : auth[c].made = t
    \/ minted[t].parent # NoToken /\ minted[t].parent \in expired \ rows

\* The promise of rotation, over the rows and the requests that renew one.
Lineage == INSTANCE SessionLineage WITH
  accepted <- {<<FamilyOf(t), t>> : t \in Live},
  renewing <- {FamilyOf(auth[c].prev) : c \in Renewing},
  last     <- Len(minted)

(***************************************************************************)
(* Rotation implements SessionLineage: tokens are spent before they are    *)
(* replaced, only a login opens a family, and a closed family stays closed.*)
(***************************************************************************)
ImplementsLineage == Lineage!Spec

-----------------------------------------------------------------------------
(* Accounts *)

(***************************************************************************)
(* Somebody can always manage users (users.service.ts 194-198).            *)
(***************************************************************************)
SuperadminRemains == ActiveSuperadmins # {}

(***************************************************************************)
(* A session older than its account's last password change, role change    *)
(* or deactivation is usable only while the revocation is still to come,   *)
(* or was cut off by a failure, or when the update compared the new role   *)
(* with one another request had changed since, or when its own login or    *)
(* refresh was between reading the account and inserting the row as the    *)
(* revocation ran (users.service.ts 134-151, auth.service.ts 205-238).     *)
(***************************************************************************)
StaleSessionsExplained ==
  \A t \in Live :
    LET u == minted[t].owner
    IN \/ minted[t].since = epoch[u]
       \/ RevocationPending(u)
       \/ u \in interrupted
       \/ FamilyOf(t) \in late

(***************************************************************************)
(* Once a revocation is due, every older session of the account ends       *)
(* (users.service.ts 135-137, 148-151; auth.service.ts 94-99, 123-128).    *)
(***************************************************************************)
RevocationTakesEffect ==
  \A t \in 1 .. MaxTokens :
    (/\ t \in Live
     /\ \/ RevocationPending(minted[t].owner)
        \/ \E c \in Callers : auth[c].pc = "revokeAll" /\ auth[c].user = minted[t].owner)
    ~> t \notin Live

-----------------------------------------------------------------------------
(* What the documentation promises and the code does not always keep.      *)

(***************************************************************************)
(* auth.service.ts 78-81: presenting a rotated token "revokes the entire   *)
(* session family", so no refresh puts a usable token into that family     *)
(* afterwards.  Checked without managers and with two tokens, where only a *)
(* replay of the token being exchanged can overtake its exchange.          *)
(***************************************************************************)
ReuseEndsFamily ==
  \A t \in Live : minted[t].parent # NoToken => FamilyOf(t) \notin late

(***************************************************************************)
(* README 351-352: resetting a password, closing an account or changing a  *)
(* role revokes that user's refresh tokens.                                *)
(***************************************************************************)
AccountChangeEndsSessions ==
  \A t \in Live : \/ minted[t].since = epoch[minted[t].owner]
                   \/ RevocationPending(minted[t].owner)

(***************************************************************************)
(* README 351-352 again: when an update that carries a role answers 200    *)
(* with nothing left to revoke, no session of that account which got its   *)
(* access token under another role goes on.                                *)
(***************************************************************************)
AnsweredRoleUpdateIsComplete ==
  [][\A m \in Managers :
       LET u == admin[m].target
       IN /\ admin[m].pc = "write" /\ admin'[m].pc = "idle" /\ UNCHANGED aborts
          /\ admin[m].dto.role # NoRole /\ Exists(u)
          => \A t \in LiveOf(u) : minted[t].role = role'[u] \/ FamilyOf(t) \in late]_vars

=============================================================================
