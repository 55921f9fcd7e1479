----------------------------- MODULE AuthTables -----------------------------
(***************************************************************************)
(* The two tables the authentication and user-management code shares:      *)
(* admin_users and refresh_tokens (apps/api/prisma/schema.prisma).  Every  *)
(* Prisma call is one SQL statement, so it is atomic; a request handler is *)
(* a sequence of such statements with an await between each two.           *)
(***************************************************************************)
EXTENDS Integers, Sequences, FiniteSets

CONSTANTS
  Users,    \* account ids that may ever exist
  Roles,    \* the roles an instance uses, a subset of RoleEnum
  NoUser    \* no account: the value of an empty slot

RoleEnum == {"SUPERADMIN", "ADMIN", "ANALYST"}

NoRole  == "none"   \* a role left out of a DTO, or an empty slot
NoToken == 0

ASSUME TablesAssumption ==
  /\ NoUser \notin Users
  /\ Roles \subseteq RoleEnum
  /\ "SUPERADMIN" \in Roles

VARIABLES
  status,     \* status[u]: "none" before the account is created, "active",
              \* "inactive", or "deleted"; ids are never reused
  role,       \* role[u]: the role column, NoRole until the account exists
  minted,     \* every refresh token ever created, by id; see Minted
  rows,       \* ids of the rows that are in refresh_tokens now
  revoked,    \* rows whose revoked_at was set (ids of removed rows stay in)
  expired,    \* tokens past their expires_at
  links,      \* replaced_by_id: pairs <<previous, replacement>>
  epoch,      \* history: epoch[u] counts the changes to u that must end u's
              \* sessions (new password, new role, deactivation)
  interrupted \* history: accounts with such a change whose revocation never
              \* ran: the request died first, or overlooked the change

tables == <<status, role, minted, rows, revoked, expired, links, epoch,
            interrupted>>

Statuses == {"none", "active", "inactive", "deleted"}

Tokens == DOMAIN minted

\* What is fixed when a row is created.  All but owner is history: the role in
\* the access token signed with it, the token it was exchanged for, the login
\* it descends from, and its owner's epoch when that login read the account.
Minted == [owner : Users, role : Roles \cup {NoRole}, parent : Nat,
           family : Nat \ {0}, since : Nat]

TablesTypeOK ==
  /\ status \in [Users -> Statuses]
  /\ role \in [Users -> Roles \cup {NoRole}]
  /\ minted \in Seq(Minted)
  /\ rows \subseteq Tokens
  /\ revoked \subseteq Tokens
  /\ expired \subseteq Tokens
  /\ links \subseteq Tokens \X Tokens
  /\ epoch \in [Users -> Nat]
  /\ interrupted \subseteq Users

Exists(u) == status[u] \in {"active", "inactive"}

RowsOf(u) == {t \in rows : minted[t].owner = u}

\* The rows a refresh would still accept but for their expiry.
Live      == rows \ revoked
LiveOf(u) == {t \in Live : minted[t].owner = u}

ActiveSuperadmins == {u \in Users : status[u] = "active" /\ role[u] = "SUPERADMIN"}

\* prisma/seed.ts leaves one superadmin; the rest of the accounts an instance
\* starts with are any others an administrator has created since.
TablesInit ==
  /\ status \in [Users -> {"none", "active"}]
  /\ role \in [Users -> Roles \cup {NoRole}]
  /\ \A u \in Users : role[u] = NoRole <=> status[u] = "none"
  /\ ActiveSuperadmins # {}
  /\ minted = << >>
  /\ rows = {} /\ revoked = {} /\ expired = {} /\ links = {}
  /\ epoch = [u \in Users |-> 0]
  /\ interrupted = {}

=============================================================================
