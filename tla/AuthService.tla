----------------------------- MODULE AuthService ----------------------------
(***************************************************************************)
(* apps/api/src/auth: login, refresh and logout as the statements          *)
(* auth.service.ts awaits one after another.  A caller is a request in     *)
(* flight; between two of its steps any other request may take steps, and  *)
(* what it read at an earlier await is kept in its frame.                  *)
(***************************************************************************)
EXTENDS AuthTables

CONSTANTS
  Callers,    \* slots for login, refresh and logout requests in flight
  MaxTokens   \* bound: refresh tokens ever created

ASSUME AuthAssumption == MaxTokens \in Nat

VARIABLES
  auth,      \* auth[c]: the frame of the request in slot c
  overtaken, \* history: callers whose user had all sessions revoked after
             \* they read the account and before they create a row
  late,      \* history: families that got a token from an overtaken caller
  known,     \* refresh tokens whose plain text reached a client
  access     \* access tokens handed out and not yet expired

authVars == <<auth, overtaken, late, known, access>>

Idle == [pc |-> "idle", user |-> NoUser, role |-> NoRole,
         prev |-> NoToken, made |-> NoToken, since |-> 0]

AuthPCs == {"idle", "touch", "claim", "create", "link", "prune", "reply",
            "revokeAll"}

AuthFrame == [pc : AuthPCs, user : Users \cup {NoUser},
              role : Roles \cup {NoRole}, prev : Nat, made : Nat, since : Nat]

\* The payload of an access token: the role travels in it, jwt.strategy.ts
\* trusts it and never asks the database again.
AccessToken == [sub : Users, role : Roles \cup {NoRole}]

AuthTypeOK ==
  /\ auth \in [Callers -> AuthFrame]
  /\ \A c \in Callers : auth[c].pc # "idle" => auth[c].user \in Users
  /\ \A c \in Callers : auth[c].prev \in Tokens \cup {NoToken}
  /\ \A c \in Callers : auth[c].made \in Tokens \cup {NoToken}
  /\ \A c \in Callers : auth[c].pc = "touch" => auth[c].prev = NoToken
  /\ \A c \in Callers : auth[c].pc = "claim" => auth[c].prev # NoToken
  /\ \A c \in Callers : auth[c].pc \in {"link", "prune", "reply"} => auth[c].made # NoToken
  /\ \A c \in Callers : auth[c].pc = "link" => auth[c].prev # NoToken
  /\ overtaken \subseteq Callers
  /\ late \subseteq Nat \ {0}
  /\ known \subseteq Tokens
  /\ access \subseteq AccessToken

AuthInit ==
  /\ auth = [c \in Callers |-> Idle]
  /\ overtaken = {} /\ late = {} /\ known = {} /\ access = {}

\* Requests that may still create a row.
Issuing == {c \in Callers : auth[c].pc \in {"touch", "claim", "create"}}

TokensLeft == Len(minted) + Cardinality(Issuing) < MaxTokens

Goto(c, label) ==
  /\ auth' = [auth EXCEPT ![c].pc = label]
  /\ UNCHANGED overtaken

\* The handler returns or throws: its slot is free again.
Finish(c) ==
  /\ auth' = [auth EXCEPT ![c] = Idle]
  /\ overtaken' = overtaken \ {c}

-----------------------------------------------------------------------------
(* revokeAllSessions: one UPDATE over the user's rows.                     *)

\* Callers for u past their read of the account and before their INSERT: this
\* UPDATE does not see the row they are about to create.
InFlight(u) ==
  {c \in Callers : auth[c].user = u /\ auth[c].pc \in {"touch", "create"}}

\* Ends only the newest session.
RevokeAllSessions_LastOnly(u) ==
  /\ revoked' = revoked \cup {t \in RowsOf(u) : \A s \in RowsOf(u) : s <= t}
  /\ interrupted' = interrupted \ {u}

RevokeAllSessions(u) ==
  /\ revoked' = revoked \cup RowsOf(u)
  /\ interrupted' = interrupted \ {u}

-----------------------------------------------------------------------------
(* login *)

\* validateUser found an active account and the password matched what it read.
LoginFind(c, u) ==
  /\ auth[c].pc = "idle"
  /\ TokensLeft
  /\ status[u] = "active"
  /\ auth' = [auth EXCEPT ![c] = [Idle EXCEPT !.pc = "touch", !.user = u,
                                              !.role = role[u], !.since = epoch[u]]]
  /\ UNCHANGED <<tables, overtaken, late, known, access>>

\* Unknown name, inactive account or wrong password: 401.
LoginRejected(c) ==
  /\ auth[c].pc = "idle"
  /\ UNCHANGED <<tables, authVars>>

\* adminUser.update of lastLogin; throws when the account is gone.
LoginTouch(c) ==
  /\ auth[c].pc = "touch"
  /\ IF Exists(auth[c].user) THEN Goto(c, "create") ELSE Finish(c)
  /\ UNCHANGED <<tables, late, known, access>>

-----------------------------------------------------------------------------
(* issueTokenPair *)

\* The foreign key to admin_users refuses the row when the account is gone.
IssueCreate(c) ==
  LET f      == auth[c]
      id     == Len(minted) + 1
      family == IF f.prev = NoToken THEN id ELSE minted[f.prev].family
  IN /\ f.pc = "create"
     /\ IF Exists(f.user)
        THEN /\ minted' = Append(minted, [owner |-> f.user, role |-> f.role,
                                          parent |-> f.prev, family |-> family,
                                          since |-> f.since])
             /\ rows' = rows \cup {id}
             /\ late' = IF c \in overtaken THEN late \cup {family} ELSE late
             /\ auth' = [auth EXCEPT ![c].made = id,
                           ![c].pc = IF f.prev = NoToken THEN "prune" ELSE "link"]
             /\ overtaken' = overtaken \ {c}
        ELSE /\ Finish(c)
             /\ UNCHANGED <<minted, rows, late>>
     /\ UNCHANGED <<status, role, revoked, expired, links, epoch, interrupted,
                    known, access>>

\* The pair recorded the wrong way round.
IssueLink_Swapped(c) ==
  LET f == auth[c]
  IN /\ f.pc = "link"
     /\ IF f.prev \in rows
        THEN links' = links \cup {<<f.made, f.prev>>} /\ Goto(c, "prune")
        ELSE Finish(c) /\ UNCHANGED links
     /\ UNCHANGED <<status, role, minted, rows, revoked, expired, epoch,
                    interrupted, late, known, access>>

\* The row of the token just exchanged may have been pruned meanwhile: the
\* update throws, the new row stays and the client gets an error.
IssueLink(c) ==
  LET f == auth[c]
  IN /\ f.pc = "link"
     /\ IF f.prev \in rows
        THEN links' = links \cup {<<f.prev, f.made>>} /\ Goto(c, "prune")
        ELSE Finish(c) /\ UNCHANGED links
     /\ UNCHANGED <<status, role, minted, rows, revoked, expired, epoch,
                    interrupted, late, known, access>>

\* A prune that also takes revoked rows, to keep the table small.
PruneExpiredTokens_Revoked(u) == rows \ {t \in RowsOf(u) : t \in expired \cup revoked}

PruneExpiredTokens(u) == rows \ {t \in RowsOf(u) : t \in expired}

IssuePrune(c) ==
  /\ auth[c].pc = "prune"
  /\ rows' = PruneExpiredTokens(auth[c].user)
  /\ Goto(c, "reply")
  /\ UNCHANGED <<status, role, minted, revoked, expired, links, epoch,
                 interrupted, late, known, access>>

\* The response reaches the client: the cookie and the access token in it.
Reply(c) ==
  /\ auth[c].pc = "reply"
  /\ known' = known \cup {auth[c].made}
  /\ access' = access \cup {[sub |-> auth[c].user, role |-> auth[c].role]}
  /\ Finish(c)
  /\ UNCHANGED <<tables, late>>

-----------------------------------------------------------------------------
(* refresh *)

\* The presented token's id is not carried along.
Refreshing_WithoutToken(c, t, label) ==
  auth' = [auth EXCEPT ![c] = [Idle EXCEPT !.pc = label,
                                 !.user = minted[t].owner,
                                 !.role = role[minted[t].owner],
                                 !.since = minted[t].since]]

Refreshing(c, t, label) ==
  auth' = [auth EXCEPT ![c] = [Idle EXCEPT !.pc = label, !.prev = t,
                                 !.user = minted[t].owner,
                                 !.role = role[minted[t].owner],
                                 !.since = minted[t].since]]

\* The row is there, unrevoked, unexpired, and its account is active.
RefreshFind(c, t) ==
  /\ auth[c].pc = "idle"
  /\ TokensLeft
  /\ t \in Live \ expired
  /\ status[minted[t].owner] = "active"
  /\ Refreshing(c, t, "claim")
  /\ UNCHANGED <<tables, overtaken, late, known, access>>

\* The row was already rotated or revoked: a replay.
RefreshReused(c, t) ==
  /\ auth[c].pc = "idle"
  /\ t \in rows \cap revoked
  /\ Refreshing(c, t, "revokeAll")
  /\ UNCHANGED <<tables, overtaken, late, known, access>>

\* No such row, or expired, or a deactivated account: 401.
RefreshRejected(c, t) ==
  /\ auth[c].pc = "idle"
  /\ t \notin rows \cap revoked
  /\ t \notin Live \ expired \/ status[minted[t].owner] # "active"
  /\ UNCHANGED <<tables, authVars>>

\* Revokes by id alone, so every caller wins the claim.
RefreshClaim_Unconditional(c) ==
  /\ auth[c].pc = "claim"
  /\ revoked' = revoked \cup {auth[c].prev}
  /\ Goto(c, "create")
  /\ UNCHANGED <<status, role, minted, rows, expired, links, epoch, interrupted,
                 late, known, access>>

\* Leaves the revocation to the end of the rotation.
RefreshClaim_Deferred(c) ==
  /\ auth[c].pc = "claim"
  /\ IF auth[c].prev \in Live THEN Goto(c, "create") ELSE Goto(c, "revokeAll")
  /\ UNCHANGED <<tables, late, known, access>>

\* The conditional UPDATE: exactly one caller moves revoked_at away from null.
RefreshClaim(c) ==
  /\ auth[c].pc = "claim"
  /\ IF auth[c].prev \in Live
     THEN revoked' = revoked \cup {auth[c].prev} /\ Goto(c, "create")
     ELSE Goto(c, "revokeAll") /\ UNCHANGED revoked
  /\ UNCHANGED <<status, role, minted, rows, expired, links, epoch, interrupted,
                 late, known, access>>

RefreshRevokeAll(c) ==
  /\ auth[c].pc = "revokeAll"
  /\ RevokeAllSessions(auth[c].user)
  /\ auth' = [auth EXCEPT ![c] = Idle]
  /\ overtaken' = overtaken \cup InFlight(auth[c].user)
  /\ UNCHANGED <<status, role, minted, rows, expired, links, epoch, late, known,
                 access>>

-----------------------------------------------------------------------------
(* logout: one conditional UPDATE by token hash; a token without a row, or *)
(* already revoked, matches nothing.                                       *)

Logout(c, t) ==
  /\ auth[c].pc = "idle"
  /\ revoked' = revoked \cup ({t} \cap rows)
  /\ UNCHANGED <<status, role, minted, rows, expired, links, epoch, interrupted,
                 authVars>>

-----------------------------------------------------------------------------
\* Steps of a request in flight, and the arrival of a new one.
CallerStep(c) ==
  \/ LoginTouch(c)
  \/ IssueCreate(c) \/ IssueLink(c) \/ IssuePrune(c) \/ Reply(c)
  \/ RefreshClaim(c) \/ RefreshRevokeAll(c)

CallerStart(c) ==
  \/ LoginRejected(c)
  \/ \E u \in Users : LoginFind(c, u)
  \/ \E t \in known : \/ RefreshFind(c, t) \/ RefreshReused(c, t)
                      \/ RefreshRejected(c, t) \/ Logout(c, t)

=============================================================================
