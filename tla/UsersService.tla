---------------------------- MODULE UsersService ----------------------------
(***************************************************************************)
(* apps/api/src/users: account management as the statements                *)
(* users.service.ts awaits one after another.  A manager is a management   *)
(* request in flight.  Who may send one is decided from the role inside    *)
(* the access token (users.controller.ts, roles.guard.ts).                 *)
(***************************************************************************)
EXTENDS AuthService

CONSTANTS
  Managers,    \* slots for management requests in flight
  MaxManaged   \* bound: management requests ever admitted

ASSUME UsersAssumption == MaxManaged \in Nat

VARIABLES
  admin,   \* admin[m]: the frame of the request in slot m
  managed  \* management requests admitted so far

usersVars == <<admin, managed>>

AdminPCs == {"idle", "countUpdate", "write", "setPassword", "revoke",
             "countRemove", "delete"}

Flags == {"absent", "true", "false"}

\* UpdateUserDto, its fields optional: NoRole and "absent" are left out.
Dtos == [role : Roles \cup {NoRole}, isActive : Flags]

\* seen is the role column the request read first: target.role in the code.
AdminFrame == [pc : AdminPCs, target : Users \cup {NoUser},
               seen : Roles \cup {NoRole}, dto : Dtos]

EmptyDto == [role |-> NoRole, isActive |-> "absent"]

IdleAdmin == [pc |-> "idle", target |-> NoUser, seen |-> NoRole, dto |-> EmptyDto]

UsersTypeOK ==
  /\ admin \in [Managers -> AdminFrame]
  /\ \A m \in Managers : admin[m].pc # "idle" => admin[m].target \in Users
  /\ managed \in Nat

UsersInit ==
  /\ admin = [m \in Managers |-> IdleAdmin]
  /\ managed = 0

Proceed(m, label) == admin' = [admin EXCEPT ![m].pc = label]

Answer(m) == admin' = [admin EXCEPT ![m] = IdleAdmin]

\* A new request takes the slot.
Admit(m, label, target, seen, dto) ==
  /\ admin' = [admin EXCEPT ![m] = [pc |-> label, target |-> target,
                                    seen |-> seen, dto |-> dto]]
  /\ managed' = managed + 1

Free(m) == admin[m].pc = "idle" /\ managed < MaxManaged

\* The actor holds an access token minted with the SUPERADMIN role.
Authorised(a) == [sub |-> a, role |-> "SUPERADMIN"] \in access

SignedIn(a) == \E token \in access : token.sub = a

\* Sessions of u are about to be revoked by some management request.
RevocationPending(u) ==
  \E m \in Managers : admin[m].pc = "revoke" /\ admin[m].target = u

-----------------------------------------------------------------------------
(* create *)

CreateUser(m, a, u, r, flag) ==
  /\ Free(m) /\ Authorised(a)
  /\ status[u] = "none"
  /\ status' = [status EXCEPT ![u] = IF flag = "false" THEN "inactive" ELSE "active"]
  /\ role' = [role EXCEPT ![u] = r]
  /\ managed' = managed + 1
  /\ UNCHANGED <<minted, rows, revoked, expired, links, epoch, interrupted,
                 authVars, admin>>

-----------------------------------------------------------------------------
(* update *)

LosesSuperadmin(seen, dto) ==
  /\ seen = "SUPERADMIN"
  /\ \/ dto.role # NoRole /\ dto.role # "SUPERADMIN"
     \/ dto.isActive = "false"

\* Deactivating oneself, or giving oneself another role: 400.
ForbiddenOnSelf(dto, seen) ==
  dto.isActive = "false" \/ (dto.role # NoRole /\ dto.role # seen)

UpdateFind(m, a, u, dto) ==
  /\ Free(m) /\ Authorised(a)
  /\ Exists(u)
  /\ ~(u = a /\ ForbiddenOnSelf(dto, role[u]))
  /\ Admit(m, IF LosesSuperadmin(role[u], dto) THEN "countUpdate" ELSE "write",
           u, role[u], dto)
  /\ UNCHANGED <<tables, authVars>>

\* Counts deactivated superadmins too.
OthersRemain_CountingInactive(u) ==
  \E v \in Users \ {u} : Exists(v) /\ role[v] = "SUPERADMIN"

\* assertNotLastSuperadmin's count; it throws when nobody else remains.
OthersRemain(u) == ActiveSuperadmins \ {u} # {}

UpdateCount(m) ==
  /\ admin[m].pc = "countUpdate"
  /\ IF OthersRemain(admin[m].target) THEN Proceed(m, "write") ELSE Answer(m)
  /\ UNCHANGED <<tables, authVars, managed>>

Given(r, old)    == IF r = NoRole THEN old ELSE r
Switched(f, old) == CASE f = "true" -> "active" [] f = "false" -> "inactive"
                      [] OTHER -> old

\* A change of the stored row that must end the account's sessions.
MustEndSessions(u, dto) ==
  \/ Given(dto.role, role[u]) # role[u]
  \/ dto.isActive = "false" /\ status[u] = "active"

\* Forgets that a deactivation ends sessions.
RevokesSessions_RoleOnly(f) == f.dto.role # NoRole /\ f.dto.role # f.seen

\* roleChanged in the code compares with the role read at the start.
RevokesSessions(f) ==
  \/ f.dto.isActive = "false"
  \/ f.dto.role # NoRole /\ f.dto.role # f.seen

\* Another request gave the account a role since this one read it; taking that
\* back looks like no change.
Overlooks(f) ==
  f.dto.role # NoRole /\ f.dto.role = f.seen /\ f.seen # role[f.target]

UpdateWrite(m) ==
  LET f == admin[m]
      u == f.target
  IN /\ f.pc = "write"
     /\ IF Exists(u)
        THEN /\ role' = [role EXCEPT ![u] = Given(f.dto.role, @)]
             /\ status' = [status EXCEPT ![u] = Switched(f.dto.isActive, @)]
             /\ epoch' = IF MustEndSessions(u, f.dto)
                         THEN [epoch EXCEPT ![u] = @ + 1] ELSE epoch
             /\ interrupted' = IF Overlooks(f) /\ ~RevokesSessions(f)
                               THEN interrupted \cup {u} ELSE interrupted
             /\ IF RevokesSessions(f) THEN Proceed(m, "revoke") ELSE Answer(m)
        ELSE /\ Answer(m)
             /\ UNCHANGED <<role, status, epoch, interrupted>>
     /\ UNCHANGED <<minted, rows, revoked, expired, links, authVars, managed>>

\* The revocation that ends update, setPassword and changeOwnPassword.
RevokeTarget(m) ==
  /\ admin[m].pc = "revoke"
  /\ RevokeAllSessions(admin[m].target)
  /\ overtaken' = overtaken \cup InFlight(admin[m].target)
  /\ Answer(m)
  /\ UNCHANGED <<status, role, minted, rows, expired, links, epoch, auth, late,
                 known, access, managed>>

-----------------------------------------------------------------------------
(* setPassword and changeOwnPassword *)

StorePassword(u) ==
  /\ epoch' = [epoch EXCEPT ![u] = @ + 1]
  /\ UNCHANGED <<status, role, minted, rows, revoked, expired, links,
                 interrupted, authVars>>

\* An administrator sets u's password; no row is read before the UPDATE.
SetPassword(m, a, u) ==
  /\ Free(m) /\ Authorised(a)
  /\ Exists(u)
  /\ Admit(m, "revoke", u, NoRole, EmptyDto)
  /\ StorePassword(u)

\* The current password given matched the hash that was read.
OwnPasswordFind(m, a) ==
  /\ Free(m) /\ SignedIn(a)
  /\ Exists(a)
  /\ Admit(m, "setPassword", a, NoRole, EmptyDto)
  /\ UNCHANGED <<tables, authVars>>

OwnPasswordWrite(m) ==
  /\ admin[m].pc = "setPassword"
  /\ IF Exists(admin[m].target)
     THEN Proceed(m, "revoke") /\ StorePassword(admin[m].target)
     ELSE Answer(m) /\ UNCHANGED <<tables, authVars>>
  /\ UNCHANGED managed

-----------------------------------------------------------------------------
(* remove *)

RemoveFind(m, a, u) ==
  /\ Free(m) /\ Authorised(a)
  /\ u # a
  /\ Exists(u)
  /\ Admit(m, IF role[u] = "SUPERADMIN" THEN "countRemove" ELSE "delete",
           u, role[u], EmptyDto)
  /\ UNCHANGED <<tables, authVars>>

RemoveCount(m) ==
  /\ admin[m].pc = "countRemove"
  /\ IF OthersRemain(admin[m].target) THEN Proceed(m, "delete") ELSE Answer(m)
  /\ UNCHANGED <<tables, authVars, managed>>

\* The sessions go with the account (onDelete: Cascade).
RemoveDelete(m) ==
  LET u == admin[m].target
  IN /\ admin[m].pc = "delete"
     /\ Answer(m)
     /\ IF Exists(u)
        THEN /\ status' = [status EXCEPT ![u] = "deleted"]
             /\ rows' = rows \ RowsOf(u)
        ELSE UNCHANGED <<status, rows>>
     /\ UNCHANGED <<role, minted, revoked, expired, links, epoch, interrupted,
                    authVars, managed>>

-----------------------------------------------------------------------------
\* Unknown account, self-harm, taken username or failed check: an error answer.
ManagerRejected(m) ==
  /\ admin[m].pc = "idle"
  /\ UNCHANGED <<tables, authVars, usersVars>>

ManagerStep(m) ==
  \/ UpdateCount(m) \/ UpdateWrite(m) \/ RevokeTarget(m)
  \/ OwnPasswordWrite(m)
  \/ RemoveCount(m) \/ RemoveDelete(m)

ManagerStart(m) ==
  \/ ManagerRejected(m)
  \/ \E a \in Users :
       \/ OwnPasswordFind(m, a)
       \/ \E u \in Users :
            \/ SetPassword(m, a, u) \/ RemoveFind(m, a, u)
            \/ \E dto \in Dtos : UpdateFind(m, a, u, dto)
            \/ \E r \in Roles, flag \in Flags : CreateUser(m, a, u, r, flag)

=============================================================================
