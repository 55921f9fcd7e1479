--------------------------- MODULE SessionsProofs ---------------------------
(***************************************************************************)
(* Theorems about Sessions for every set of users, callers and managers    *)
(* and every bound: the tables keep their types, the links replaced_by_id  *)
(* tell where a token went, a replay is recognised, a session older than   *)
(* its account's last change has its reason, and one management request at *)
(* a time keeps a superadmin.                                              *)
(***************************************************************************)
EXTENDS Sessions, TLAPS

USE TablesAssumption

\* Types of the frames a request writes.
LEMMA IdleType == Idle \in AuthFrame
  BY DEF Idle, AuthFrame, AuthPCs, NoToken

LEMMA FrameType ==
  ASSUME NEW pc \in AuthPCs, NEW u \in Users, NEW r \in Roles \cup {NoRole},
         NEW t \in Nat, NEW n \in Nat
  PROVE  /\ [Idle EXCEPT !.pc = pc, !.user = u, !.role = r, !.since = n] \in AuthFrame
         /\ [Idle EXCEPT !.pc = pc, !.prev = t, !.user = u, !.role = r, !.since = n]
              \in AuthFrame
  BY DEF Idle, AuthFrame, AuthPCs, NoToken

LEMMA TokensFacts ==
  ASSUME TablesTypeOK
  PROVE  /\ Len(minted) \in Nat
         /\ Tokens = 1 .. Len(minted)
         /\ \A t \in Tokens : /\ t \in Nat \ {0}
                              /\ minted[t] \in Minted
                              /\ minted[t].owner \in Users
                              /\ minted[t].family \in Nat \ {0}
                              /\ minted[t].since \in Nat
  <1>1. minted \in Seq(Minted) BY DEF TablesTypeOK
  <1>2. Len(minted) \in Nat /\ Tokens = 1 .. Len(minted) BY <1>1 DEF Tokens
  <1>3. \A t \in Tokens : t \in Nat \ {0} /\ minted[t] \in Minted BY <1>1, <1>2
  <1>4. QED BY <1>2, <1>3 DEF Minted

LEMMA InitType == Init => TypeOK
  BY IdleType DEF Init, TypeOK, TablesInit, TablesTypeOK, AuthInit, AuthTypeOK, UsersInit, UsersTypeOK,
         Idle, Tokens, Statuses, IdleAdmin, AdminFrame, AdminPCs, EmptyDto, Dtos, Flags, NoToken

\* A step of the request in slot c moves only that slot's program counter.
LEMMA GotoType ==
  ASSUME TypeOK, NEW c \in Callers, NEW label \in AuthPCs,
         auth[c].pc # "idle", label # "touch",
         label = "claim" => auth[c].prev # NoToken,
         label \in {"link", "prune", "reply"} => auth[c].made # NoToken,
         label = "link" => auth[c].prev # NoToken,
         Goto(c, label), UNCHANGED <<minted, late, known, access>>
  PROVE  AuthTypeOK'
  BY DEF TypeOK, AuthTypeOK, AuthFrame, Goto, Tokens, AccessToken

LEMMA FinishType ==
  ASSUME TypeOK, NEW c \in Callers, Finish(c), UNCHANGED <<minted, late>>,
         known' \subseteq Tokens, access' \subseteq AccessToken
  PROVE  AuthTypeOK'
  BY IdleType DEF TypeOK, AuthTypeOK, Finish, Tokens, Idle, NoToken, AccessToken

\* Appending a row that has the right type.
LEMMA MintType ==
  ASSUME TypeOK, NEW c \in Callers, IssueCreate(c), Exists(auth[c].user)
  PROVE  /\ minted' \in Seq(Minted)
         /\ Tokens' = Tokens \cup {Len(minted) + 1}
         /\ Len(minted) + 1 \in Nat \ {0}
         /\ Len(minted') = Len(minted) + 1
         /\ \A t \in Tokens : minted'[t] = minted[t]
         /\ auth[c].prev = NoToken => minted'[Len(minted) + 1].family = Len(minted) + 1
         /\ auth[c].prev # NoToken => /\ auth[c].prev \in Tokens
                                      /\ minted'[Len(minted) + 1].family
                                           = minted[auth[c].prev].family
         /\ minted'[Len(minted) + 1].owner = auth[c].user
         /\ minted'[Len(minted) + 1].parent = auth[c].prev
         /\ minted'[Len(minted) + 1].since = auth[c].since
         /\ minted'[Len(minted) + 1].family \in Nat \ {0}
  <1> DEFINE id == Len(minted) + 1
             fam == IF auth[c].prev = NoToken THEN id ELSE minted[auth[c].prev].family
             rec == [owner |-> auth[c].user, role |-> auth[c].role,
                     parent |-> auth[c].prev, family |-> fam, since |-> auth[c].since]
  <1>1. minted \in Seq(Minted) BY DEF TypeOK, TablesTypeOK
  <1>2. Len(minted) \in Nat /\ Tokens = 1 .. Len(minted) BY TokensFacts DEF TypeOK
  <1>3. auth[c] \in AuthFrame /\ auth[c].user \in Users
        /\ auth[c].prev \in Tokens \cup {NoToken}
    BY DEF TypeOK, AuthTypeOK, IssueCreate
  <1>4. fam \in Nat \ {0}
    BY <1>2, <1>3, TokensFacts DEF TypeOK
  <1>5. rec \in Minted
    BY <1>3, <1>4 DEF AuthFrame, Minted
  <1>6. minted' = Append(minted, rec)
    BY DEF IssueCreate
  <1> HIDE DEF rec
  <1>7. minted' \in Seq(Minted) /\ Len(minted') = id /\ minted'[id] = rec
    BY <1>1, <1>2, <1>5, <1>6
  <1>8. \A t \in Tokens : minted'[t] = minted[t]
    BY <1>1, <1>2, <1>5, <1>6
  <1>9. Tokens' = Tokens \cup {id}
    BY <1>2, <1>7 DEF Tokens
  <1>10. QED
    BY <1>2, <1>3, <1>4, <1>7, <1>8, <1>9 DEF rec

-----------------------------------------------------------------------------
(* Type correctness, one lemma per kind of step.                           *)

LEMMA CallerStartType ==
  ASSUME TypeOK, NEW c \in Callers, CallerStart(c)
  PROVE  TablesTypeOK' /\ AuthTypeOK'
  <1>1. /\ TablesTypeOK /\ AuthTypeOK
        /\ \A t \in Tokens : t \in Nat \ {0} /\ minted[t].owner \in Users
                             /\ minted[t].since \in Nat
    BY TokensFacts DEF TypeOK
  <1>2. CASE LoginRejected(c)
    BY <1>1, <1>2 DEF LoginRejected, tables, authVars, TablesTypeOK, AuthTypeOK, Tokens
  <1>3. ASSUME NEW u \in Users, LoginFind(c, u) PROVE TablesTypeOK' /\ AuthTypeOK'
    <2>1. TablesTypeOK' BY <1>1, <1>3 DEF LoginFind, tables, TablesTypeOK, Tokens
    <2>2. [Idle EXCEPT !.pc = "touch", !.user = u, !.role = role[u], !.since = epoch[u]]
            \in AuthFrame
      BY <1>1, FrameType DEF TablesTypeOK, AuthPCs, NoToken
    <2>3. AuthTypeOK'
      BY <1>1, <1>3, <2>2 DEF LoginFind, tables, AuthTypeOK, Tokens, Idle, NoToken
    <2>4. QED BY <2>1, <2>3
  <1>4. ASSUME NEW t \in known, RefreshFind(c, t) PROVE TablesTypeOK' /\ AuthTypeOK'
    <2>1. TablesTypeOK' BY <1>1, <1>4 DEF RefreshFind, tables, TablesTypeOK, Tokens
    <2>2. t \in Tokens BY <1>1 DEF AuthTypeOK
    <2>3. [Idle EXCEPT !.pc = "claim", !.prev = t, !.user = minted[t].owner,
                       !.role = role[minted[t].owner], !.since = minted[t].since]
            \in AuthFrame
      BY <1>1, <2>2, FrameType DEF TablesTypeOK, AuthPCs
    <2>4. AuthTypeOK'
      BY <1>1, <1>4, <2>2, <2>3 DEF RefreshFind, Refreshing, tables, AuthTypeOK, Tokens,
                                    Idle, NoToken
    <2>5. QED BY <2>1, <2>4
  <1>5. ASSUME NEW t \in known, RefreshReused(c, t) PROVE TablesTypeOK' /\ AuthTypeOK'
    <2>1. TablesTypeOK' BY <1>1, <1>5 DEF RefreshReused, tables, TablesTypeOK, Tokens
    <2>2. t \in Tokens BY <1>1 DEF AuthTypeOK
    <2>3. [Idle EXCEPT !.pc = "revokeAll", !.prev = t, !.user = minted[t].owner,
                       !.role = role[minted[t].owner], !.since = minted[t].since]
            \in AuthFrame
      BY <1>1, <2>2, FrameType DEF TablesTypeOK, AuthPCs
    <2>4. AuthTypeOK'
      BY <1>1, <1>5, <2>2, <2>3 DEF RefreshReused, Refreshing, tables, AuthTypeOK, Tokens,
                                    Idle, NoToken
    <2>5. QED BY <2>1, <2>4
  <1>6. ASSUME NEW t \in known, RefreshRejected(c, t) PROVE TablesTypeOK' /\ AuthTypeOK'
    BY <1>1, <1>6 DEF RefreshRejected, tables, authVars, TablesTypeOK, AuthTypeOK, Tokens
  <1>7. ASSUME NEW t \in known, Logout(c, t) PROVE TablesTypeOK' /\ AuthTypeOK'
    BY <1>1, <1>7 DEF Logout, authVars, TablesTypeOK, AuthTypeOK, Tokens
  <1>8. QED BY <1>2, <1>3, <1>4, <1>5, <1>6, <1>7 DEF CallerStart

LEMMA CallerStepType ==
  ASSUME TypeOK, NEW c \in Callers, CallerStep(c)
  PROVE  TablesTypeOK' /\ AuthTypeOK'
  <1>1. TablesTypeOK /\ AuthTypeOK BY DEF TypeOK
  <1>2. CASE LoginTouch(c)
    <2>1. TablesTypeOK' BY <1>1, <1>2 DEF LoginTouch, tables, TablesTypeOK, Tokens
    <2>2. CASE Exists(auth[c].user)
      BY <1>1, <1>2, <2>1, <2>2, GotoType DEF LoginTouch, tables, AuthPCs
    <2>3. CASE ~Exists(auth[c].user)
      BY <1>1, <1>2, <2>1, <2>3, FinishType DEF LoginTouch, tables, AuthTypeOK
    <2>4. QED BY <2>2, <2>3
  <1>3. CASE IssueCreate(c)
    <2>1. CASE Exists(auth[c].user)
      <3>1. /\ minted' \in Seq(Minted)
            /\ Tokens' = Tokens \cup {Len(minted) + 1}
            /\ Len(minted) + 1 \in Nat \ {0}
            /\ minted'[Len(minted) + 1].family \in Nat \ {0}
        BY <1>3, <2>1, MintType
      <3>2. TablesTypeOK'
        BY <1>1, <1>3, <2>1, <3>1 DEF IssueCreate, TablesTypeOK
      <3>3. (IF auth[c].prev = NoToken THEN Len(minted) + 1
             ELSE minted[auth[c].prev].family) \in Nat \ {0}
        BY <1>1, <1>3, <3>1, TokensFacts DEF AuthTypeOK, IssueCreate
      <3>4. late' \subseteq Nat \ {0}
        BY <1>1, <1>3, <2>1, <3>3 DEF IssueCreate, AuthTypeOK
      <3>5. auth' \in [Callers -> AuthFrame]
        <4> DEFINE next == IF auth[c].prev = NoToken THEN "prune" ELSE "link"
                   frame == [auth[c] EXCEPT !.made = Len(minted) + 1, !.pc = next]
        <4>1. auth[c] \in AuthFrame /\ next \in AuthPCs BY <1>1 DEF AuthTypeOK, AuthPCs
        <4>2. frame \in AuthFrame BY <3>1, <4>1 DEF AuthFrame
        <4>3. auth' = [auth EXCEPT ![c] = frame]
          BY <1>1, <1>3, <2>1, <4>1 DEF IssueCreate, AuthTypeOK, AuthFrame
        <4>4. QED BY <1>1, <4>2, <4>3 DEF AuthTypeOK
      <3>6. /\ \A d \in Callers : d # c => auth'[d] = auth[d]
            /\ auth'[c].user = auth[c].user /\ auth'[c].prev = auth[c].prev
            /\ auth'[c].made = Len(minted) + 1
            /\ auth'[c].pc = IF auth[c].prev = NoToken THEN "prune" ELSE "link"
        BY <1>1, <1>3, <2>1 DEF IssueCreate, AuthTypeOK, AuthFrame
      <3>7. AuthTypeOK'
        BY <1>1, <1>3, <2>1, <3>1, <3>4, <3>5, <3>6 DEF IssueCreate, AuthTypeOK, NoToken
      <3>8. QED BY <3>2, <3>7
    <2>2. CASE ~Exists(auth[c].user)
      <3>1. TablesTypeOK' BY <1>1, <1>3, <2>2 DEF IssueCreate, TablesTypeOK, Tokens
      <3>2. AuthTypeOK' BY <1>1, <1>3, <2>2, FinishType DEF IssueCreate, AuthTypeOK
      <3>3. QED BY <3>1, <3>2
    <2>3. QED BY <2>1, <2>2
  <1>4. CASE IssueLink(c)
    <2>1. auth[c].prev \in Tokens /\ auth[c].made \in Tokens
      BY <1>1, <1>4 DEF IssueLink, AuthTypeOK
    <2>2. TablesTypeOK' BY <1>1, <1>4, <2>1 DEF IssueLink, TablesTypeOK, Tokens
    <2>3. CASE auth[c].prev \in rows
      <3>1. AuthTypeOK'
        BY <1>1, <1>4, <2>3, GotoType DEF IssueLink, AuthPCs, AuthTypeOK
      <3>2. QED BY <2>2, <3>1
    <2>4. CASE auth[c].prev \notin rows
      BY <1>1, <1>4, <2>2, <2>4, FinishType DEF IssueLink, AuthTypeOK
    <2>5. QED BY <2>3, <2>4
  <1>5. CASE IssuePrune(c)
    <2>1. TablesTypeOK'
      BY <1>1, <1>5 DEF IssuePrune, PruneExpiredTokens, TablesTypeOK, Tokens
    <2>2. AuthTypeOK'
      BY <1>1, <1>5, GotoType DEF IssuePrune, AuthPCs, AuthTypeOK
    <2>3. QED BY <2>1, <2>2
  <1>6. CASE Reply(c)
    <2>1. TablesTypeOK' BY <1>1, <1>6 DEF Reply, tables, TablesTypeOK, Tokens
    <2>2. /\ auth[c] \in AuthFrame /\ auth[c].user \in Users
          /\ auth[c].made \in Tokens
      BY <1>1, <1>6 DEF Reply, AuthTypeOK
    <2>3. [sub |-> auth[c].user, role |-> auth[c].role] \in AccessToken
      BY <2>2 DEF AuthFrame, AccessToken
    <2>4. AuthTypeOK'
      BY <1>1, <1>6, <2>2, <2>3, FinishType DEF Reply, tables, AuthTypeOK
    <2>5. QED BY <2>1, <2>4
  <1>7. CASE RefreshClaim(c)
    <2>1. auth[c].prev \in Tokens BY <1>1, <1>7 DEF RefreshClaim, AuthTypeOK
    <2>2. TablesTypeOK' BY <1>1, <1>7, <2>1 DEF RefreshClaim, TablesTypeOK, Tokens
    <2>3. CASE auth[c].prev \in Live
      <3>1. AuthTypeOK'
        BY <1>1, <1>7, <2>3, GotoType DEF RefreshClaim, AuthPCs
      <3>2. QED BY <2>2, <3>1
    <2>4. CASE auth[c].prev \notin Live
      <3>1. AuthTypeOK'
        BY <1>1, <1>7, <2>4, GotoType DEF RefreshClaim, AuthPCs
      <3>2. QED BY <2>2, <3>1
    <2>5. QED BY <2>3, <2>4
  <1>8. CASE RefreshRevokeAll(c)
    <2>1. TablesTypeOK'
      BY <1>1, <1>8 DEF RefreshRevokeAll, RevokeAllSessions, RowsOf, TablesTypeOK, Tokens
    <2>2. AuthTypeOK'
      BY <1>1, <1>8, IdleType DEF RefreshRevokeAll, AuthTypeOK, InFlight, Tokens, Idle, NoToken
    <2>3. QED BY <2>1, <2>2
  <1>9. QED BY <1>2, <1>3, <1>4, <1>5, <1>6, <1>7, <1>8 DEF CallerStep

\* What a management request writes to its own slot.
LEMMA ManagerSlotType ==
  ASSUME UsersTypeOK, NEW m \in Managers
  PROVE  /\ Answer(m) /\ managed' \in Nat => UsersTypeOK'
         /\ \A label \in AdminPCs :
              admin[m].pc # "idle" /\ Proceed(m, label) /\ managed' \in Nat => UsersTypeOK'
         /\ \A label \in AdminPCs, u \in Users, r \in Roles \cup {NoRole}, dto \in Dtos :
              Admit(m, label, u, r, dto) => UsersTypeOK'
  <1>1. IdleAdmin \in AdminFrame
    BY DEF IdleAdmin, AdminFrame, AdminPCs, EmptyDto, Dtos, Flags
  <1>2. Answer(m) /\ managed' \in Nat => UsersTypeOK'
    BY <1>1 DEF Answer, UsersTypeOK, IdleAdmin
  <1>3. ASSUME NEW label \in AdminPCs, admin[m].pc # "idle", Proceed(m, label),
               managed' \in Nat
        PROVE  UsersTypeOK'
    BY <1>3 DEF Proceed, UsersTypeOK, AdminFrame
  <1>4. ASSUME NEW label \in AdminPCs, NEW u \in Users, NEW r \in Roles \cup {NoRole},
               NEW dto \in Dtos, Admit(m, label, u, r, dto)
        PROVE  UsersTypeOK'
    <2>1. [pc |-> label, target |-> u, seen |-> r, dto |-> dto] \in AdminFrame
      BY DEF AdminFrame
    <2>2. QED BY <1>4, <2>1 DEF Admit, UsersTypeOK
  <1>5. QED BY <1>2, <1>3, <1>4

\* authVars unchanged, minted unchanged: nothing in AuthTypeOK moves.
LEMMA AuthUnchanged ==
  ASSUME AuthTypeOK, UNCHANGED <<minted, authVars>>
  PROVE  AuthTypeOK'
  BY DEF AuthTypeOK, authVars, Tokens

LEMMA TablesUnchanged ==
  ASSUME TablesTypeOK, UNCHANGED tables
  PROVE  TablesTypeOK'
  BY DEF TablesTypeOK, tables, Tokens

LEMMA StorePasswordType ==
  ASSUME TablesTypeOK, AuthTypeOK, NEW u \in Users, StorePassword(u)
  PROVE  TablesTypeOK' /\ AuthTypeOK'
  <1>1. TablesTypeOK' BY DEF StorePassword, TablesTypeOK, Tokens
  <1>2. AuthTypeOK' BY AuthUnchanged DEF StorePassword
  <1>3. QED BY <1>1, <1>2

LEMMA ManagerStartType ==
  ASSUME TypeOK, NEW m \in Managers, ManagerStart(m)
  PROVE  TablesTypeOK' /\ AuthTypeOK' /\ UsersTypeOK'
  <1> DEFINE Goal == TablesTypeOK' /\ AuthTypeOK' /\ UsersTypeOK'
  <1>1. TablesTypeOK /\ AuthTypeOK /\ UsersTypeOK BY DEF TypeOK
  <1>2. EmptyDto \in Dtos BY DEF EmptyDto, Dtos, Flags
  <1>3. CASE ManagerRejected(m)
    BY <1>1, <1>3, TablesUnchanged, AuthUnchanged
    DEF ManagerRejected, tables, usersVars, UsersTypeOK
  <1>4. ASSUME NEW a \in Users, OwnPasswordFind(m, a) PROVE Goal
    BY <1>1, <1>2, <1>4, TablesUnchanged, AuthUnchanged, ManagerSlotType
    DEF OwnPasswordFind, tables, AdminPCs
  <1>5. ASSUME NEW a \in Users, NEW u \in Users, SetPassword(m, a, u) PROVE Goal
    BY <1>1, <1>2, <1>5, StorePasswordType, ManagerSlotType DEF SetPassword, AdminPCs
  <1>6. ASSUME NEW a \in Users, NEW u \in Users, RemoveFind(m, a, u) PROVE Goal
    <2>1. role[u] \in Roles \cup {NoRole} BY <1>1 DEF TablesTypeOK
    <2>2. QED
      BY <1>1, <1>2, <1>6, <2>1, TablesUnchanged, AuthUnchanged, ManagerSlotType
      DEF RemoveFind, tables, AdminPCs
  <1>7. ASSUME NEW a \in Users, NEW u \in Users, NEW dto \in Dtos,
               UpdateFind(m, a, u, dto)
        PROVE  Goal
    <2>1. role[u] \in Roles \cup {NoRole} BY <1>1 DEF TablesTypeOK
    <2>2. QED
      BY <1>1, <1>7, <2>1, TablesUnchanged, AuthUnchanged, ManagerSlotType
      DEF UpdateFind, tables, AdminPCs
  <1>8. ASSUME NEW a \in Users, NEW u \in Users, NEW r \in Roles, NEW flag \in Flags,
               CreateUser(m, a, u, r, flag)
        PROVE  Goal
    <2>1. TablesTypeOK' BY <1>1, <1>8 DEF CreateUser, TablesTypeOK, Tokens, Statuses
    <2>2. AuthTypeOK' BY <1>1, <1>8, AuthUnchanged DEF CreateUser
    <2>3. UsersTypeOK' BY <1>1, <1>8 DEF CreateUser, UsersTypeOK
    <2>4. QED BY <2>1, <2>2, <2>3
  <1>9. QED BY <1>3, <1>4, <1>5, <1>6, <1>7, <1>8 DEF ManagerStart

LEMMA ManagerStepType ==
  ASSUME TypeOK, NEW m \in Managers, ManagerStep(m)
  PROVE  TablesTypeOK' /\ AuthTypeOK' /\ UsersTypeOK'
  <1>1. TablesTypeOK /\ AuthTypeOK /\ UsersTypeOK BY DEF TypeOK
  <1>2. managed \in Nat /\ admin[m] \in AdminFrame BY <1>1 DEF UsersTypeOK
  <1>3. CASE UpdateCount(m)
    BY <1>1, <1>2, <1>3, TablesUnchanged, AuthUnchanged, ManagerSlotType
    DEF UpdateCount, tables, AdminPCs
  <1>4. CASE UpdateWrite(m)
    <2>1. admin[m].target \in Users /\ admin[m].dto \in Dtos
      BY <1>1, <1>2, <1>4 DEF UpdateWrite, UsersTypeOK, AdminFrame
    <2>2. /\ Given(admin[m].dto.role, role[admin[m].target]) \in Roles \cup {NoRole}
          /\ Switched(admin[m].dto.isActive, status[admin[m].target]) \in Statuses
      BY <1>1, <2>1 DEF Given, Switched, Dtos, Flags, TablesTypeOK, Statuses
    <2>3. TablesTypeOK'
      <3>1. role' \in [Users -> Roles \cup {NoRole}]
        BY <1>1, <1>4, <2>1, <2>2 DEF UpdateWrite, TablesTypeOK
      <3>2. status' \in [Users -> Statuses]
        BY <1>1, <1>4, <2>1, <2>2 DEF UpdateWrite, TablesTypeOK
      <3>3. epoch' \in [Users -> Nat]
        BY <1>1, <1>4, <2>1 DEF UpdateWrite, TablesTypeOK
      <3>4. interrupted' \subseteq Users
        BY <1>1, <1>4, <2>1 DEF UpdateWrite, TablesTypeOK
      <3>5. QED BY <1>1, <1>4, <3>1, <3>2, <3>3, <3>4 DEF UpdateWrite, TablesTypeOK, Tokens
    <2>4. AuthTypeOK' BY <1>1, <1>4, AuthUnchanged DEF UpdateWrite
    <2>5. UsersTypeOK'
      BY <1>1, <1>2, <1>4, ManagerSlotType DEF UpdateWrite, AdminPCs
    <2>6. QED BY <2>3, <2>4, <2>5
  <1>5. CASE RevokeTarget(m)
    <2>1. TablesTypeOK'
      BY <1>1, <1>5 DEF RevokeTarget, RevokeAllSessions, RowsOf, TablesTypeOK, Tokens
    <2>2. AuthTypeOK'
      BY <1>1, <1>5 DEF RevokeTarget, AuthTypeOK, InFlight, Tokens
    <2>3. UsersTypeOK' BY <1>1, <1>2, <1>5, ManagerSlotType DEF RevokeTarget
    <2>4. QED BY <2>1, <2>2, <2>3
  <1>6. CASE OwnPasswordWrite(m)
    <2>1. admin[m].target \in Users BY <1>1, <1>6 DEF OwnPasswordWrite, UsersTypeOK
    <2>2. CASE Exists(admin[m].target)
      BY <1>1, <1>2, <1>6, <2>1, <2>2, StorePasswordType, ManagerSlotType
      DEF OwnPasswordWrite, AdminPCs
    <2>3. CASE ~Exists(admin[m].target)
      BY <1>1, <1>2, <1>6, <2>3, TablesUnchanged, AuthUnchanged, ManagerSlotType
      DEF OwnPasswordWrite, tables
    <2>4. QED BY <2>2, <2>3
  <1>7. CASE RemoveCount(m)
    BY <1>1, <1>2, <1>7, TablesUnchanged, AuthUnchanged, ManagerSlotType
    DEF RemoveCount, tables, AdminPCs
  <1>8. CASE RemoveDelete(m)
    <2>1. TablesTypeOK'
      BY <1>1, <1>8 DEF RemoveDelete, RowsOf, TablesTypeOK, Tokens, Statuses
    <2>2. AuthTypeOK' BY <1>1, <1>8, AuthUnchanged DEF RemoveDelete
    <2>3. UsersTypeOK' BY <1>1, <1>2, <1>8, ManagerSlotType DEF RemoveDelete
    <2>4. QED BY <2>1, <2>2, <2>3
  <1>9. QED BY <1>3, <1>4, <1>5, <1>6, <1>7, <1>8 DEF ManagerStep

LEMMA NextType == TypeOK /\ [Next]_vars => TypeOK'
  <1> SUFFICES ASSUME TypeOK, [Next]_vars PROVE TypeOK'
    OBVIOUS
  <1>1. /\ TablesTypeOK /\ AuthTypeOK /\ UsersTypeOK /\ aborts \in Nat
        /\ aborts + 1 \in Nat
    BY DEF TypeOK
  <1>2. UNCHANGED usersVars => UsersTypeOK' BY <1>1 DEF usersVars, UsersTypeOK
  <1>3. ASSUME NEW c \in Callers, CallerAction(c) PROVE TypeOK'
    BY <1>1, <1>2, <1>3, CallerStepType, CallerStartType DEF CallerAction, TypeOK, usersVars
  <1>4. ASSUME NEW c \in Callers, AbortCaller(c) PROVE TypeOK'
    <2>1. TablesTypeOK' BY <1>1, <1>4, TablesUnchanged DEF AbortCaller
    <2>2. AuthTypeOK'
      BY <1>1, <1>4, FinishType DEF AbortCaller, tables, AuthTypeOK
    <2>3. QED BY <1>1, <1>2, <1>4, <2>1, <2>2 DEF AbortCaller, TypeOK, usersVars
  <1>5. ASSUME NEW m \in Managers, ManagerAction(m) PROVE TypeOK'
    BY <1>1, <1>5, ManagerStepType, ManagerStartType DEF ManagerAction, TypeOK
  <1>6. ASSUME NEW m \in Managers, AbortManager(m) PROVE TypeOK'
    <2>1. admin[m].target \in Users BY <1>1, <1>6 DEF AbortManager, UsersTypeOK
    <2>2. TablesTypeOK' BY <1>1, <1>6, <2>1 DEF AbortManager, TablesTypeOK, Tokens
    <2>3. AuthTypeOK' BY <1>1, <1>6, AuthUnchanged DEF AbortManager
    <2>4. managed \in Nat BY <1>1 DEF UsersTypeOK
    <2>5. UsersTypeOK' BY <1>1, <1>6, <2>4, ManagerSlotType DEF AbortManager
    <2>6. QED BY <1>1, <1>6, <2>2, <2>3, <2>5 DEF AbortManager, TypeOK
  <1>7. ASSUME NEW t \in rows, Expire(t) PROVE TypeOK'
    <2>1. TablesTypeOK' BY <1>1, <1>7 DEF Expire, TablesTypeOK, Tokens
    <2>2. AuthTypeOK' BY <1>1, <1>7, AuthUnchanged DEF Expire
    <2>3. QED BY <1>1, <1>2, <1>7, <2>1, <2>2 DEF Expire, TypeOK, usersVars
  <1>8. ASSUME NEW token \in access, ExpireAccess(token) PROVE TypeOK'
    <2>1. TablesTypeOK' BY <1>1, <1>8, TablesUnchanged DEF ExpireAccess
    <2>2. AuthTypeOK' BY <1>1, <1>8 DEF ExpireAccess, AuthTypeOK, tables, Tokens
    <2>3. QED BY <1>1, <1>2, <1>8, <2>1, <2>2 DEF ExpireAccess, TypeOK, usersVars
  <1>9. CASE UNCHANGED vars
    BY <1>1, <1>2, <1>9, TablesUnchanged, AuthUnchanged DEF vars, TypeOK, tables, authVars, usersVars
  <1>10. QED BY <1>3, <1>4, <1>5, <1>6, <1>7, <1>8, <1>9 DEF Next

(***************************************************************************)
(* Every reachable state of Sessions is well typed.                        *)
(***************************************************************************)
THEOREM TypeCorrect == Spec => []TypeOK
  BY InitType, NextType, PTL DEF Spec

-----------------------------------------------------------------------------
(* Rotation.  Seen from the rows and the renewing requests, every step is  *)
(* one of three: nothing is gained, a token is spent, or one is minted.    *)

SamePrev == \A d \in Renewing' : auth'[d].prev = auth[d].prev

QuietStep ==
  /\ minted' = minted
  /\ Live' \subseteq Live
  /\ Renewing' \subseteq Renewing
  /\ SamePrev

SpendStep(c) ==
  /\ minted' = minted
  /\ auth[c].prev \in Live
  /\ Live' = Live \ {auth[c].prev}
  /\ Renewing' = Renewing \cup {c}
  /\ SamePrev

MintStep(c) ==
  LET id == Len(minted) + 1
  IN /\ auth[c].pc = "create"
     /\ Tokens' = Tokens \cup {id}
     /\ Len(minted') = id
     /\ \A t \in Tokens : minted'[t] = minted[t]
     /\ minted'[id].parent = auth[c].prev
     /\ auth[c].prev = NoToken => minted'[id].family = id
     /\ auth[c].prev # NoToken => /\ auth[c].prev \in Tokens
                                  /\ minted'[id].family = minted[auth[c].prev].family
     /\ Live' = Live \cup {id}
     /\ Renewing' = Renewing \ {c}
     /\ SamePrev

\* Rows are only lost, revocations only gained, and no request but c's moves
\* anywhere near "create".
LEMMA QuietTables ==
  ASSUME minted' = minted, rows' \subseteq rows, revoked \subseteq revoked',
         \A d \in Renewing' : d \in Renewing /\ auth'[d].prev = auth[d].prev
  PROVE  QuietStep
  BY DEF QuietStep, Live, SamePrev

LEMMA CallerShape ==
  ASSUME TypeOK, NEW c \in Callers, CallerStart(c) \/ CallerStep(c)
  PROVE  QuietStep \/ SpendStep(c) \/ MintStep(c)
  <1>1. /\ auth \in [Callers -> AuthFrame]
        /\ auth[c].pc = "touch" => auth[c].prev = NoToken
        /\ rows \subseteq Tokens /\ revoked \subseteq Tokens
    BY DEF TypeOK, AuthTypeOK, TablesTypeOK
  <1>2. ASSUME NEW f, auth' = [auth EXCEPT ![c] = f],
               f.pc = "create" => f.prev = NoToken
        PROVE  \A d \in Renewing' : d \in Renewing /\ auth'[d].prev = auth[d].prev
    BY <1>1, <1>2 DEF Renewing
  <1>3. ASSUME NEW label, Goto(c, label), label = "create" => auth[c].prev = NoToken
        PROVE  \A d \in Renewing' : d \in Renewing /\ auth'[d].prev = auth[d].prev
    BY <1>1, <1>3 DEF Renewing, Goto, AuthFrame
  <1>4. Finish(c) => \A d \in Renewing' : d \in Renewing /\ auth'[d].prev = auth[d].prev
    BY <1>2 DEF Finish, Idle, NoToken
  <1>5. CASE LoginRejected(c)
    BY <1>5, QuietTables DEF LoginRejected, tables, authVars, Renewing
  <1>6. ASSUME NEW u \in Users, LoginFind(c, u) PROVE QuietStep
    BY <1>2, <1>6, QuietTables DEF LoginFind, tables, Idle, NoToken
  <1>7. ASSUME NEW t \in known,
               RefreshFind(c, t) \/ RefreshReused(c, t)
        PROVE  QuietStep
    BY <1>2, <1>7, QuietTables DEF RefreshFind, RefreshReused, Refreshing, tables, Idle, NoToken
  <1>8. ASSUME NEW t \in known, RefreshRejected(c, t) PROVE QuietStep
    BY <1>8, QuietTables DEF RefreshRejected, tables, authVars, Renewing
  <1>9. ASSUME NEW t \in known, Logout(c, t) PROVE QuietStep
    BY <1>9, QuietTables DEF Logout, authVars, Renewing
  <1>10. CASE LoginTouch(c)
    BY <1>1, <1>3, <1>4, <1>10, QuietTables DEF LoginTouch, tables
  <1>11. CASE IssueCreate(c)
    <2>1. CASE Exists(auth[c].user)
      <3> DEFINE id == Len(minted) + 1
      <3>1. /\ auth[c].pc = "create" /\ rows' = rows \cup {id} /\ revoked' = revoked
        BY <1>11, <2>1 DEF IssueCreate
      <3>2. id \notin Tokens BY TokensFacts DEF TypeOK
      <3>3. Live' = Live \cup {id} BY <1>1, <3>1, <3>2 DEF Live
      <3>4. /\ \A d \in Callers : d # c => auth'[d] = auth[d]
            /\ auth'[c].pc # "create"
        BY <1>1, <1>11, <2>1 DEF IssueCreate, AuthFrame
      <3>5. Renewing' = Renewing \ {c} /\ SamePrev
        BY <3>4 DEF Renewing, SamePrev
      <3>6. QED BY <1>11, <2>1, <3>1, <3>3, <3>5, MintType DEF MintStep
    <2>2. CASE ~Exists(auth[c].user)
      BY <1>4, <1>11, <2>2, QuietTables DEF IssueCreate
    <2>3. QED BY <2>1, <2>2
  <1>12. CASE IssueLink(c)
    BY <1>3, <1>4, <1>12, QuietTables DEF IssueLink
  <1>13. CASE IssuePrune(c)
    BY <1>3, <1>13, QuietTables DEF IssuePrune, PruneExpiredTokens
  <1>14. CASE Reply(c)
    BY <1>4, <1>14, QuietTables DEF Reply, tables
  <1>15. CASE RefreshClaim(c)
    <2>1. CASE auth[c].prev \in Live
      <3>1. /\ rows' = rows /\ minted' = minted /\ revoked' = revoked \cup {auth[c].prev}
            /\ Goto(c, "create") /\ auth[c].prev # NoToken
        BY <1>15, <2>1 DEF RefreshClaim, TypeOK, AuthTypeOK
      <3>2. Live' = Live \ {auth[c].prev} BY <3>1 DEF Live
      <3>3. Renewing' = Renewing \cup {c} /\ SamePrev
        BY <1>1, <3>1 DEF Renewing, SamePrev, Goto, AuthFrame
      <3>4. QED BY <2>1, <3>1, <3>2, <3>3 DEF SpendStep
    <2>2. CASE auth[c].prev \notin Live
      BY <1>3, <1>15, <2>2, QuietTables DEF RefreshClaim
    <2>3. QED BY <2>1, <2>2
  <1>16. CASE RefreshRevokeAll(c)
    BY <1>2, <1>16, QuietTables DEF RefreshRevokeAll, RevokeAllSessions, Idle, NoToken
  <1>17. QED
    BY <1>5, <1>6, <1>7, <1>8, <1>9, <1>10, <1>11, <1>12, <1>13, <1>14, <1>15, <1>16
    DEF CallerStart, CallerStep

LEMMA StepShape ==
  ASSUME TypeOK, [Next]_vars
  PROVE  QuietStep \/ \E c \in Callers : SpendStep(c) \/ MintStep(c)
  <1>1. ASSUME UNCHANGED auth
        PROVE  \A d \in Renewing' : d \in Renewing /\ auth'[d].prev = auth[d].prev
    BY <1>1 DEF Renewing
  <1>2. ASSUME NEW c \in Callers, CallerAction(c)
        PROVE  QuietStep \/ SpendStep(c) \/ MintStep(c)
    BY <1>2, CallerShape DEF CallerAction
  <1>3. ASSUME NEW c \in Callers, AbortCaller(c) PROVE QuietStep
    BY <1>3, QuietTables DEF AbortCaller, Finish, tables, Renewing, Idle, TypeOK, AuthTypeOK
  <1>4. ASSUME NEW m \in Managers, ManagerStart(m) PROVE QuietStep
    BY <1>1, <1>4, QuietTables DEF ManagerStart, ManagerRejected, OwnPasswordFind, SetPassword,
       StorePassword, RemoveFind, UpdateFind, CreateUser, tables, authVars
  <1>5. ASSUME NEW m \in Managers, ManagerStep(m) PROVE QuietStep
    BY <1>1, <1>5, QuietTables DEF ManagerStep, UpdateCount, UpdateWrite, RevokeTarget,
       RevokeAllSessions, OwnPasswordWrite, StorePassword, RemoveCount, RemoveDelete,
       tables, authVars
  <1>6. ASSUME NEW m \in Managers, AbortManager(m) PROVE QuietStep
    BY <1>1, <1>6, QuietTables DEF AbortManager, authVars
  <1>7. ASSUME NEW t \in rows, Expire(t) PROVE QuietStep
    BY <1>1, <1>7, QuietTables DEF Expire, authVars
  <1>8. ASSUME NEW token \in access, ExpireAccess(token) PROVE QuietStep
    BY <1>1, <1>8, QuietTables DEF ExpireAccess, tables
  <1>9. CASE UNCHANGED vars
    BY <1>1, <1>9, QuietTables DEF vars, tables, authVars
  <1>10. QED
    BY <1>2, <1>3, <1>4, <1>5, <1>6, <1>7, <1>8, <1>9 DEF Next, ManagerAction

-----------------------------------------------------------------------------
(* The rotation invariants.  OneLivePerFamily needs a new family to be one *)
(* no row has; OneSuccessor needs that a token still usable, or just       *)
(* spent, has no successor yet.                                            *)

NumbersGrow ==
  \A t \in Tokens : minted[t].family <= t /\ minted[t].parent < t

Unreplaced ==
  /\ \A t \in Live, s \in Tokens : minted[s].parent # t
  /\ \A c \in Renewing, s \in Tokens : minted[s].parent # auth[c].prev

RotationInv == OneLivePerFamily /\ NumbersGrow /\ Unreplaced /\ OneSuccessor

LEMMA TypeFacts ==
  ASSUME TypeOK
  PROVE  /\ Len(minted) \in Nat
         /\ Tokens = 1 .. Len(minted)
         /\ \A t \in Tokens : t \in Nat /\ minted[t].family \in Nat \ {0}
                              /\ minted[t].parent \in Nat
         /\ Live \subseteq Tokens
         /\ \A c \in Renewing : /\ c \in Callers /\ auth[c].prev \in Tokens
                                /\ auth[c].pc = "create"
  <1>1. TablesTypeOK /\ AuthTypeOK BY DEF TypeOK
  <1>2. \A t \in Tokens : minted[t].parent \in Nat BY <1>1, TokensFacts DEF Minted
  <1>3. QED BY <1>1, <1>2, TokensFacts DEF TablesTypeOK, AuthTypeOK, Live, Renewing

LEMMA RotationInit == Init => RotationInv
  BY DEF Init, TablesInit, AuthInit, RotationInv, OneLivePerFamily, NumbersGrow, Unreplaced,
         OneSuccessor, Live, Renewing, Tokens, Idle

LEMMA RotationQuiet ==
  ASSUME TypeOK, RotationInv, QuietStep
  PROVE  RotationInv'
  <1>1. Tokens' = Tokens /\ \A t \in Tokens : minted'[t] = minted[t]
    BY DEF QuietStep, Tokens
  <1>2. OneLivePerFamily'
    BY <1>1, TypeFacts DEF RotationInv, OneLivePerFamily, QuietStep, SamePrev, FamilyOf
  <1>3. NumbersGrow' /\ OneSuccessor'
    BY <1>1 DEF RotationInv, NumbersGrow, OneSuccessor
  <1>4. Unreplaced'
    BY <1>1 DEF RotationInv, Unreplaced, QuietStep, SamePrev
  <1>5. QED BY <1>2, <1>3, <1>4 DEF RotationInv

LEMMA RotationSpend ==
  ASSUME TypeOK, RotationInv, NEW c \in Callers, SpendStep(c)
  PROVE  RotationInv'
  <1>1. Tokens' = Tokens /\ \A t \in Tokens : minted'[t] = minted[t]
    BY DEF SpendStep, Tokens
  <1>2. auth'[c].prev = auth[c].prev /\ auth[c].prev \in Live
    BY DEF SpendStep, SamePrev
  <1>3. OneLivePerFamily'
    BY <1>1, <1>2, TypeFacts DEF RotationInv, OneLivePerFamily, SpendStep, SamePrev, FamilyOf
  <1>4. NumbersGrow' /\ OneSuccessor'
    BY <1>1 DEF RotationInv, NumbersGrow, OneSuccessor
  <1>5. Unreplaced'
    BY <1>1, <1>2 DEF RotationInv, Unreplaced, SpendStep, SamePrev
  <1>6. QED BY <1>3, <1>4, <1>5 DEF RotationInv

LEMMA RotationMint ==
  ASSUME TypeOK, RotationInv, NEW c \in Callers, MintStep(c)
  PROVE  RotationInv'
  <1> DEFINE id == Len(minted) + 1
  <1>1. /\ Tokens' = Tokens \cup {id} /\ \A t \in Tokens : minted'[t] = minted[t]
        /\ Live' = Live \cup {id} /\ Renewing' = Renewing \ {c}
        /\ minted'[id].parent = auth[c].prev
        /\ auth[c].prev = NoToken => minted'[id].family = id
        /\ auth[c].prev # NoToken => /\ auth[c].prev \in Tokens
                                     /\ minted'[id].family = minted[auth[c].prev].family
    BY DEF MintStep
  <1>2. \A d \in Renewing' : d \in Renewing /\ d # c /\ auth'[d].prev = auth[d].prev
    BY <1>1 DEF MintStep, SamePrev
  <1>3. auth[c].prev # NoToken => c \in Renewing
    BY DEF MintStep, Renewing
  <1>4. id \notin Tokens /\ id \in Nat /\ \A t \in Tokens : t \in Nat /\ t < id
    BY TypeFacts
  <1>5. \A t \in Tokens : minted[t].family # id /\ minted[t].parent # id
    BY <1>4, TypeFacts DEF RotationInv, NumbersGrow
  <1>6. OneLivePerFamily'
    <2>1. \A t \in Live : minted[t].family # minted'[id].family
      BY <1>1, <1>3, <1>5, TypeFacts DEF RotationInv, OneLivePerFamily, FamilyOf
    <2>2. \A d \in Renewing' : minted[auth[d].prev].family # minted'[id].family
      BY <1>1, <1>2, <1>3, <1>5, TypeFacts DEF RotationInv, OneLivePerFamily, FamilyOf
    <2>3. (\A s, t \in Live : FamilyOf(s) = FamilyOf(t) => s = t)'
      BY <1>1, <2>1, TypeFacts DEF RotationInv, OneLivePerFamily, FamilyOf
    <2>4. (\A d \in Renewing, t \in Live : FamilyOf(t) # FamilyOf(auth[d].prev))'
      BY <1>1, <1>2, <2>2, TypeFacts DEF RotationInv, OneLivePerFamily, FamilyOf
    <2>5. (\A d, e \in Renewing :
             FamilyOf(auth[d].prev) = FamilyOf(auth[e].prev) => d = e)'
      BY <1>1, <1>2, TypeFacts DEF RotationInv, OneLivePerFamily, FamilyOf
    <2>6. QED BY <2>3, <2>4, <2>5 DEF OneLivePerFamily
  <1>7. NumbersGrow'
    <2>1. minted'[id].family <= id /\ minted'[id].parent < id
      BY <1>1, <1>4, TypeFacts DEF RotationInv, NumbersGrow, NoToken
    <2>2. QED BY <1>1, <2>1 DEF RotationInv, NumbersGrow
  <1>8. Unreplaced'
    <2>1. auth[c].prev # NoToken => \A d \in Renewing' : auth[d].prev # auth[c].prev
      BY <1>2, <1>3 DEF RotationInv, OneLivePerFamily
    <2>2. auth[c].prev \notin Live
      BY <1>3, TypeFacts DEF RotationInv, OneLivePerFamily, NoToken
    <2>3. \A d \in Renewing' : auth[d].prev # minted'[id].parent
      BY <1>1, <1>2, <2>1, TypeFacts DEF NoToken
    <2>4. (\A t \in Live, s \in Tokens : minted[s].parent # t)'
      BY <1>1, <1>4, <1>5, <2>2, TypeFacts DEF RotationInv, Unreplaced, NoToken
    <2>5. (\A d \in Renewing, s \in Tokens : minted[s].parent # auth[d].prev)'
      BY <1>1, <1>2, <2>3 DEF RotationInv, Unreplaced
    <2>6. QED BY <2>4, <2>5 DEF Unreplaced
  <1>9. OneSuccessor'
    <2>1. auth[c].prev # NoToken => \A s \in Tokens : minted[s].parent # auth[c].prev
      BY <1>3 DEF RotationInv, Unreplaced
    <2>2. QED BY <1>1, <1>4, <2>1 DEF RotationInv, OneSuccessor
  <1>10. QED BY <1>6, <1>7, <1>8, <1>9 DEF RotationInv

(***************************************************************************)
(* The rotation invariants hold in every reachable state, whatever the     *)
(* number of concurrent logins, refreshes, logouts and management requests.*)
(***************************************************************************)
THEOREM RotationCorrect == Spec => [](OneLivePerFamily /\ OneSuccessor)
  <1>1. TypeOK /\ RotationInv /\ [Next]_vars => RotationInv'
    BY StepShape, RotationQuiet, RotationSpend, RotationMint
  <1>2. RotationInv => OneLivePerFamily /\ OneSuccessor BY DEF RotationInv
  <1>3. QED BY TypeCorrect, RotationInit, <1>1, <1>2, PTL DEF Spec

-----------------------------------------------------------------------------
(* Rotation implements SessionLineage.                                     *)

LEMMA LineageInit == Init => Lineage!Init
  BY DEF Init, TablesInit, AuthInit, Lineage!Init, Live, Renewing, Idle

LEMMA LineageStep ==
  ASSUME TypeOK, RotationInv, [Next]_vars
  PROVE  [Lineage!Next]_(Lineage!lineage)
  <1> DEFINE accepted == {<<FamilyOf(t), t>> : t \in Live}
             renewing == {FamilyOf(auth[c].prev) : c \in Renewing}
  <1>1. CASE QuietStep
    <2>1. Len(minted') = Len(minted) /\ accepted' \subseteq accepted
          /\ renewing' \subseteq renewing
      BY <1>1 DEF QuietStep, SamePrev, FamilyOf
    <2>2. Lineage!Close BY <2>1 DEF Lineage!Close
    <2>3. QED BY <2>2 DEF Lineage!Next
  <1>2. ASSUME NEW c \in Callers, SpendStep(c) PROVE [Lineage!Next]_(Lineage!lineage)
    <2> DEFINE t == auth[c].prev
    <2>1. t \in Live /\ minted' = minted /\ auth'[c].prev = t
          /\ Live' = Live \ {t} /\ Renewing' = Renewing \cup {c} /\ SamePrev
      BY <1>2 DEF SpendStep, SamePrev
    <2>2. accepted' = accepted \ {<<FamilyOf(t), t>>}
      BY <2>1 DEF FamilyOf
    <2>3. renewing' = renewing \cup {FamilyOf(t)}
      BY <2>1 DEF FamilyOf, SamePrev
    <2>4. <<FamilyOf(t), t>> \in accepted BY <2>1
    <2> HIDE DEF accepted, renewing
    <2>5. \E p \in accepted : /\ <<p[1], p[2]>> \in accepted
                              /\ accepted' = accepted \ {<<p[1], p[2]>>}
                              /\ renewing' = renewing \cup {p[1]}
                              /\ Len(minted') = Len(minted)
      <3> WITNESS <<FamilyOf(t), t>> \in accepted
      <3>1. <<FamilyOf(t), t>>[1] = FamilyOf(t) /\ <<FamilyOf(t), t>>[2] = t OBVIOUS
      <3>2. QED BY <2>1, <2>2, <2>3, <2>4, <3>1
    <2> USE DEF accepted, renewing
    <2>6. QED BY <2>5 DEF Lineage!Next, Lineage!Spend
  <1>3. ASSUME NEW c \in Callers, MintStep(c) PROVE [Lineage!Next]_(Lineage!lineage)
    <2> DEFINE id == Len(minted) + 1
    <2>1. /\ Live' = Live \cup {id} /\ Renewing' = Renewing \ {c} /\ SamePrev
          /\ Len(minted') = id
          /\ \A t \in Tokens : minted'[t] = minted[t]
          /\ auth[c].prev = NoToken => minted'[id].family = id
          /\ auth[c].prev # NoToken => minted'[id].family = FamilyOf(auth[c].prev)
      BY <1>3 DEF MintStep, FamilyOf
    <2>2. accepted' = accepted \cup {<<minted'[id].family, id>>}
      BY <2>1, TypeFacts DEF FamilyOf
    <2>3. renewing' = {FamilyOf(auth[d].prev) : d \in Renewing \ {c}}
      BY <2>1, TypeFacts DEF FamilyOf, SamePrev
    <2>4. CASE auth[c].prev = NoToken
      <3>1. renewing' = renewing BY <2>3, <2>4 DEF Renewing
      <3>2. Lineage!Open BY <2>1, <2>2, <2>4, <3>1 DEF Lineage!Open
      <3>3. QED BY <3>2 DEF Lineage!Next
    <2>5. CASE auth[c].prev # NoToken
      <3> DEFINE f == FamilyOf(auth[c].prev)
      <3>1. c \in Renewing BY <1>3, <2>5 DEF MintStep, Renewing
      <3>2. f \in renewing BY <3>1
      <3>3. renewing' = renewing \ {f}
        BY <2>3, <3>1 DEF RotationInv, OneLivePerFamily
      <3>4. accepted' = accepted \cup {<<f, Len(minted) + 1>>}
        BY <2>1, <2>2, <2>5
      <3>5. Len(minted') = Len(minted) + 1 BY <2>1
      <3> HIDE DEF accepted, renewing, f
      <3>6. \E g \in renewing :
              /\ g \in renewing
              /\ Len(minted') = Len(minted) + 1
              /\ accepted' = accepted \cup {<<g, Len(minted) + 1>>}
              /\ renewing' = renewing \ {g}
        BY <3>2, <3>3, <3>4, <3>5
      <3> USE DEF accepted, renewing
      <3>7. QED BY <3>6 DEF Lineage!Next, Lineage!Replace
    <2>6. QED BY <2>4, <2>5
  <1>4. QED BY <1>1, <1>2, <1>3, StepShape

(***************************************************************************)
(* Every behaviour of Sessions is a behaviour of SessionLineage: a closed  *)
(* family stays closed and a spent token is never accepted again.          *)
(***************************************************************************)
THEOREM RotationImplementsLineage == Spec => ImplementsLineage
  <1>1. TypeOK /\ RotationInv /\ [Next]_vars => RotationInv'
    BY StepShape, RotationQuiet, RotationSpend, RotationMint
  <1>2. TypeOK /\ RotationInv /\ [Next]_vars => [Lineage!Next]_(Lineage!lineage)
    BY LineageStep
  <1>3. QED
    BY TypeCorrect, RotationInit, LineageInit, <1>1, <1>2, PTL
    DEF Spec, ImplementsLineage, Lineage!Spec

-----------------------------------------------------------------------------
(* What the abstract specification is worth: over any variables, a family  *)
(* never has two accepted tokens.                                          *)

VARIABLES held, open, given

Promise == INSTANCE SessionLineage WITH accepted <- held, renewing <- open, last <- given

\* Families are numbered by the token that opened them, so a new one is new.
Numbered ==
  /\ given \in Nat
  /\ held \subseteq (1 .. given) \X (1 .. given)
  /\ open \subseteq 1 .. given

PromiseInv == Numbered /\ Promise!SingleUse

LEMMA PromiseStep == PromiseInv /\ [Promise!Next]_(Promise!lineage) => PromiseInv'
  <1> SUFFICES ASSUME PromiseInv, [Promise!Next]_(Promise!lineage) PROVE PromiseInv'
    OBVIOUS
  <1> USE DEF PromiseInv, Numbered, Promise!SingleUse
  <1>1. CASE Promise!Open
    <2>1. Numbered' BY <1>1 DEF Promise!Open
    <2>2. Promise!SingleUse' BY <1>1 DEF Promise!Open
    <2>3. QED BY <2>1, <2>2
  <1>2. ASSUME NEW p \in held, Promise!Spend(p[1], p[2]) PROVE PromiseInv'
    <2>1. Numbered' BY <1>2 DEF Promise!Spend
    <2>2. Promise!SingleUse' BY <1>2 DEF Promise!Spend
    <2>3. QED BY <2>1, <2>2
  <1>3. ASSUME NEW f \in open, Promise!Replace(f) PROVE PromiseInv'
    <2>1. Numbered' BY <1>3 DEF Promise!Replace
    <2>2. Promise!SingleUse' BY <1>3 DEF Promise!Replace
    <2>3. QED BY <2>1, <2>2
  <1>4. CASE Promise!Close BY <1>4 DEF Promise!Close
  <1>5. CASE UNCHANGED Promise!lineage BY <1>5 DEF Promise!lineage
  <1>6. QED BY <1>1, <1>2, <1>3, <1>4, <1>5 DEF Promise!Next

\* Spending before replacing is enough: a family never has two accepted
\* tokens, and none while its replacement is on the way (SessionLineage).
THEOREM LineageSingleUse == Promise!Spec => []Promise!SingleUse
  <1>1. Promise!Init => PromiseInv
    BY DEF Promise!Init, PromiseInv, Numbered, Promise!SingleUse
  <1>2. PromiseInv /\ [Promise!Next]_(Promise!lineage) => PromiseInv' BY PromiseStep
  <1>3. PromiseInv => Promise!SingleUse BY DEF PromiseInv
  <1>4. QED BY <1>1, <1>2, <1>3, PTL DEF Promise!Spec


-----------------------------------------------------------------------------
(* ReplayRecognised.  Inductive once it is known that no account without a *)
(* row yet owns a token, so that creating an account revives no session.   *)

ReplayInv ==
  /\ ReplayRecognised
  /\ \A t \in Tokens : status[minted[t].owner] # "none"

\* No account appears or disappears, except that one may be created.
AccountsKept ==
  \A u \in Users : /\ status[u] # "none" => status'[u] # "none"
                   /\ status[u] # "none" => (Exists(u) <=> Exists(u)')

LEMMA ReplayInit == Init => ReplayInv
  BY DEF Init, TablesInit, ReplayInv, ReplayRecognised, Tokens

LEMMA ReplayKept ==
  ASSUME TypeOK, ReplayInv, AccountsKept, UNCHANGED <<minted, rows>>,
         expired \subseteq expired'
  PROVE  ReplayInv'
  <1>1. Tokens' = Tokens /\ rows \subseteq Tokens
        /\ \A t \in Tokens : minted[t].owner \in Users
    BY TokensFacts DEF TypeOK, TablesTypeOK, Tokens
  <1>2. QED
    BY <1>1 DEF ReplayInv, ReplayRecognised, AccountsKept

LEMMA ReplayCaller ==
  ASSUME TypeOK, ReplayInv, NEW c \in Callers, CallerStep(c) \/ CallerStart(c)
  PROVE  ReplayInv'
  <1>1. CASE UNCHANGED <<status, minted, rows, expired>>
    BY <1>1, ReplayKept DEF AccountsKept, Exists
  <1>2. CASE IssueCreate(c) /\ Exists(auth[c].user)
    <2> DEFINE id == Len(minted) + 1
    <2>1. /\ Tokens' = Tokens \cup {id} /\ minted'[id].owner = auth[c].user
          /\ \A t \in Tokens : minted'[t] = minted[t]
      BY <1>2, MintType
    <2>2. rows' = rows \cup {id} /\ UNCHANGED <<status, expired>>
      BY <1>2 DEF IssueCreate
    <2>3. rows \subseteq Tokens BY DEF TypeOK, TablesTypeOK
    <2>4. QED
      BY <1>2, <2>1, <2>2, <2>3 DEF ReplayInv, ReplayRecognised, Exists
  <1>3. CASE IssuePrune(c)
    <2>1. rows' = rows \ {t \in RowsOf(auth[c].user) : t \in expired}
          /\ UNCHANGED <<status, minted, expired>>
      BY <1>3 DEF IssuePrune, PruneExpiredTokens
    <2>2. QED
      BY <2>1 DEF ReplayInv, ReplayRecognised, Exists, Tokens
  <1>4. QED
    BY <1>1, <1>2, <1>3
    DEF CallerStep, CallerStart, LoginTouch, IssueCreate, IssueLink, Reply, RefreshClaim,
        RefreshRevokeAll, LoginRejected, LoginFind, RefreshFind, RefreshReused,
        RefreshRejected, Logout, tables

LEMMA ReplayManager ==
  ASSUME TypeOK, ReplayInv, NEW m \in Managers, ManagerStep(m) \/ ManagerStart(m)
  PROVE  ReplayInv'
  <1> DEFINE u == admin[m].target
  <1>1. CASE UNCHANGED <<status, minted, rows, expired>>
    BY <1>1, ReplayKept DEF AccountsKept, Exists
  <1>2. CASE UpdateWrite(m) /\ Exists(u)
    <2>1. /\ status' = [status EXCEPT ![u] = Switched(admin[m].dto.isActive, @)]
          /\ UNCHANGED <<minted, rows, expired>>
      BY <1>2 DEF UpdateWrite
    <2>2. Switched(admin[m].dto.isActive, status[u]) \in {"active", "inactive"}
      BY <1>2 DEF Switched, Exists
    <2>3. status \in [Users -> Statuses] BY DEF TypeOK, TablesTypeOK
    <2>4. AccountsKept
      BY <1>2, <2>1, <2>2, <2>3 DEF AccountsKept, Exists
    <2>5. QED BY <2>1, <2>4, ReplayKept
  <1>3. CASE RemoveDelete(m) /\ Exists(u)
    <2>1. /\ status' = [status EXCEPT ![u] = "deleted"]
          /\ rows' = rows \ {t \in rows : minted[t].owner = u}
          /\ UNCHANGED <<minted, expired>>
      BY <1>3 DEF RemoveDelete, RowsOf
    <2>2. status \in [Users -> Statuses] /\ u \in Users
          /\ \A t \in Tokens : minted[t].owner \in Users
      BY <1>3, TokensFacts DEF TypeOK, TablesTypeOK, UsersTypeOK, RemoveDelete
    <2>3. rows \subseteq Tokens BY DEF TypeOK, TablesTypeOK
    <2>4. QED
      BY <2>1, <2>2, <2>3 DEF ReplayInv, ReplayRecognised, Exists, Tokens
  <1>4. ASSUME NEW a \in Users, NEW v \in Users, NEW r \in Roles, NEW flag \in Flags,
               CreateUser(m, a, v, r, flag)
        PROVE  ReplayInv'
    <2>1. status \in [Users -> Statuses] BY DEF TypeOK, TablesTypeOK
    <2>2. AccountsKept
      BY <1>4, <2>1 DEF CreateUser, AccountsKept, Exists
    <2>3. QED BY <1>4, <2>2, ReplayKept DEF CreateUser
  <1>5. QED
    BY <1>1, <1>2, <1>3, <1>4
    DEF ManagerStep, ManagerStart, ManagerRejected, OwnPasswordFind, SetPassword,
        StorePassword, RemoveFind, UpdateFind, UpdateCount, UpdateWrite, RevokeTarget,
        OwnPasswordWrite, RemoveCount, RemoveDelete, tables

LEMMA ReplayStep == TypeOK /\ ReplayInv /\ [Next]_vars => ReplayInv'
  <1> SUFFICES ASSUME TypeOK, ReplayInv, [Next]_vars PROVE ReplayInv'
    OBVIOUS
  <1>1. ASSUME NEW c \in Callers, CallerAction(c) PROVE ReplayInv'
    BY <1>1, ReplayCaller DEF CallerAction
  <1>2. ASSUME NEW m \in Managers, ManagerAction(m) PROVE ReplayInv'
    BY <1>2, ReplayManager DEF ManagerAction
  <1>3. CASE UNCHANGED <<status, minted, rows>> /\ expired \subseteq expired'
    BY <1>3, ReplayKept DEF AccountsKept, Exists
  <1>4. QED
    BY <1>1, <1>2, <1>3
    DEF Next, AbortCaller, AbortManager, Expire, ExpireAccess, vars, tables

(***************************************************************************)
(* For every set of accounts and any number of requests: a token whose row *)
(* is gone has expired or lost its account, and no row outlives its        *)
(* account.                                                                *)
(***************************************************************************)
THEOREM ReplayAlwaysRecognised == Spec => []ReplayRecognised
  <1>1. ReplayInv => ReplayRecognised BY DEF ReplayInv
  <1>2. QED BY TypeCorrect, ReplayInit, ReplayStep, <1>1, PTL DEF Spec

-----------------------------------------------------------------------------
(* What a request carries between its statements.                          *)

\* c's frame agrees with the rows it names: nothing is made before the INSERT,
\* a refresh carries its token's owner and login, and has spent that token by
\* the time it creates or links the replacement.
FrameOK(c) ==
  LET f == auth[c]
  IN /\ f.pc \in {"idle", "touch", "claim", "create", "revokeAll"} => f.made = NoToken
     /\ f.prev # NoToken => /\ f.user = minted[f.prev].owner
                            /\ f.since = minted[f.prev].since
     /\ f.made # NoToken => /\ minted[f.made].parent = f.prev
                            /\ minted[f.made].owner = f.user
     /\ f.pc \in {"create", "link"} /\ f.prev # NoToken => f.prev \in revoked

FrameInv == \A c \in Callers : FrameOK(c)

LEMMA FrameInit == Init => FrameInv
  BY DEF Init, AuthInit, FrameInv, FrameOK, Idle, NoToken

\* Rows are fixed once they exist and stay revoked, so a frame that does not
\* move still agrees.
LEMMA FrameKept ==
  ASSUME TypeOK, FrameInv, NEW c \in Callers,
         \A t \in Tokens : minted'[t] = minted[t], revoked \subseteq revoked',
         \A d \in Callers : d # c => auth'[d] = auth[d],
         FrameOK(c)'
  PROVE  FrameInv'
  <1>1. ASSUME NEW d \in Callers, d # c PROVE FrameOK(d)'
    <2>1. auth'[d] = auth[d] /\ FrameOK(d) BY <1>1 DEF FrameInv
    <2>2. auth[d].prev \in Tokens \cup {NoToken} /\ auth[d].made \in Tokens \cup {NoToken}
      BY DEF TypeOK, AuthTypeOK
    <2>3. QED BY <2>1, <2>2 DEF FrameOK
  <1>2. QED BY <1>1 DEF FrameInv

LEMMA FrameUnmoved ==
  ASSUME TypeOK, FrameInv, UNCHANGED <<minted, auth>>, revoked \subseteq revoked'
  PROVE  FrameInv'
  BY DEF FrameInv, FrameOK

LEMMA FrameGoto ==
  ASSUME TypeOK, FrameInv, NEW c \in Callers, NEW label \in AuthPCs,
         Goto(c, label), minted' = minted, revoked \subseteq revoked',
         label \in {"idle", "touch", "claim", "create", "revokeAll"}
           => auth[c].made = NoToken,
         label \in {"create", "link"} /\ auth[c].prev # NoToken
           => auth[c].prev \in revoked'
  PROVE  FrameInv'
  <1>1. auth \in [Callers -> AuthFrame] BY DEF TypeOK, AuthTypeOK
  <1>2. /\ \A d \in Callers : d # c => auth'[d] = auth[d]
        /\ auth'[c] = [auth[c] EXCEPT !.pc = label]
    BY <1>1 DEF Goto
  <1>3. /\ auth'[c].pc = label /\ auth'[c].user = auth[c].user
        /\ auth'[c].prev = auth[c].prev /\ auth'[c].made = auth[c].made
        /\ auth'[c].since = auth[c].since
    BY <1>1, <1>2 DEF AuthFrame
  <1>4. FrameOK(c)' BY <1>3 DEF FrameInv, FrameOK
  <1>5. QED BY <1>2, <1>4, FrameKept

LEMMA FrameFinish ==
  ASSUME TypeOK, FrameInv, NEW c \in Callers, auth' = [auth EXCEPT ![c] = Idle],
         minted' = minted, revoked \subseteq revoked'
  PROVE  FrameInv'
  <1>1. auth \in [Callers -> AuthFrame] BY DEF TypeOK, AuthTypeOK
  <1>2. /\ \A d \in Callers : d # c => auth'[d] = auth[d]
        /\ auth'[c] = Idle
    BY <1>1
  <1>3. FrameOK(c)' BY <1>2 DEF FrameOK, Idle, NoToken
  <1>4. QED BY <1>2, <1>3, FrameKept

LEMMA FrameStart ==
  ASSUME TypeOK, FrameInv, NEW c \in Callers, CallerStart(c)
  PROVE  FrameInv'
  <1>1. auth \in [Callers -> AuthFrame] BY DEF TypeOK, AuthTypeOK
  <1>2. CASE LoginRejected(c)
    BY <1>2, FrameUnmoved DEF LoginRejected, tables, authVars
  <1>3. ASSUME NEW u \in Users, LoginFind(c, u) PROVE FrameInv'
    <2>1. /\ \A d \in Callers : d # c => auth'[d] = auth[d]
          /\ auth'[c] = [Idle EXCEPT !.pc = "touch", !.user = u, !.role = role[u],
                                     !.since = epoch[u]]
      BY <1>1, <1>3 DEF LoginFind
    <2>2. FrameOK(c)' BY <2>1 DEF FrameOK, Idle, NoToken
    <2>3. QED BY <1>3, <2>1, <2>2, FrameKept DEF LoginFind, tables
  <1>4. ASSUME NEW t \in known, NEW label \in {"claim", "revokeAll"},
               Refreshing(c, t, label), UNCHANGED tables
        PROVE  FrameInv'
    <2>1. /\ \A d \in Callers : d # c => auth'[d] = auth[d]
          /\ auth'[c] = [Idle EXCEPT !.pc = label, !.prev = t,
                           !.user = minted[t].owner, !.role = role[minted[t].owner],
                           !.since = minted[t].since]
      BY <1>1, <1>4 DEF Refreshing
    <2>2. FrameOK(c)' BY <1>4, <2>1 DEF FrameOK, Idle, NoToken, tables
    <2>3. QED BY <1>4, <2>1, <2>2, FrameKept DEF tables
  <1>5. ASSUME NEW t \in known, RefreshFind(c, t) \/ RefreshReused(c, t) PROVE FrameInv'
    BY <1>4, <1>5 DEF RefreshFind, RefreshReused
  <1>6. ASSUME NEW t \in known, RefreshRejected(c, t) \/ Logout(c, t) PROVE FrameInv'
    BY <1>6, FrameUnmoved DEF RefreshRejected, Logout, tables, authVars
  <1>7. QED BY <1>2, <1>3, <1>5, <1>6 DEF CallerStart

LEMMA FrameStep ==
  ASSUME TypeOK, FrameInv, NEW c \in Callers, CallerStep(c)
  PROVE  FrameInv'
  <1>1. /\ auth \in [Callers -> AuthFrame] /\ FrameOK(c)
        /\ auth[c].pc = "touch" => auth[c].prev = NoToken
    BY DEF TypeOK, AuthTypeOK, FrameInv
  <1>2. CASE LoginTouch(c)
    BY <1>1, <1>2, FrameGoto, FrameFinish DEF LoginTouch, FrameOK, Finish, AuthPCs, tables
  <1>3. CASE IssueCreate(c) /\ Exists(auth[c].user)
    <2> DEFINE id == Len(minted) + 1
    <2>1. /\ \A t \in Tokens : minted'[t] = minted[t]
          /\ minted'[id].owner = auth[c].user /\ minted'[id].parent = auth[c].prev
          /\ auth[c].prev # NoToken => auth[c].prev \in Tokens
      BY <1>3, MintType
    <2>2. /\ \A d \in Callers : d # c => auth'[d] = auth[d]
          /\ auth'[c].user = auth[c].user /\ auth'[c].prev = auth[c].prev
          /\ auth'[c].since = auth[c].since /\ auth'[c].made = id
          /\ auth'[c].pc = IF auth[c].prev = NoToken THEN "prune" ELSE "link"
          /\ auth[c].pc = "create" /\ revoked' = revoked
      BY <1>1, <1>3 DEF IssueCreate, AuthFrame
    <2>3. FrameOK(c)' BY <1>1, <2>1, <2>2 DEF FrameOK
    <2>4. QED BY <2>1, <2>2, <2>3, FrameKept
  <1>4. CASE IssueCreate(c) /\ ~Exists(auth[c].user)
    BY <1>4, FrameFinish DEF IssueCreate, Finish
  <1>5. CASE IssueLink(c)
    BY <1>5, FrameGoto, FrameFinish DEF IssueLink, Finish, AuthPCs
  <1>6. CASE IssuePrune(c) BY <1>6, FrameGoto DEF IssuePrune, AuthPCs
  <1>7. CASE Reply(c) BY <1>7, FrameFinish DEF Reply, Finish, tables
  <1>8. CASE RefreshClaim(c)
    BY <1>1, <1>8, FrameGoto DEF RefreshClaim, FrameOK, AuthPCs
  <1>9. CASE RefreshRevokeAll(c)
    BY <1>9, FrameFinish DEF RefreshRevokeAll, RevokeAllSessions
  <1>10. QED BY <1>2, <1>3, <1>4, <1>5, <1>6, <1>7, <1>8, <1>9 DEF CallerStep

LEMMA FrameNext == TypeOK /\ FrameInv /\ [Next]_vars => FrameInv'
  <1> SUFFICES ASSUME TypeOK, FrameInv, [Next]_vars PROVE FrameInv'
    OBVIOUS
  <1>1. ASSUME NEW c \in Callers, CallerAction(c) PROVE FrameInv'
    BY <1>1, FrameStart, FrameStep DEF CallerAction
  <1>2. ASSUME NEW c \in Callers, AbortCaller(c) PROVE FrameInv'
    BY <1>2, FrameFinish DEF AbortCaller, Finish, tables
  <1>3. ASSUME NEW m \in Managers, ManagerAction(m) PROVE FrameInv'
    BY <1>3, FrameUnmoved
    DEF ManagerAction, ManagerStep, ManagerStart, ManagerRejected, OwnPasswordFind,
        SetPassword, StorePassword, RemoveFind, UpdateFind, CreateUser, UpdateCount,
        UpdateWrite, RevokeTarget, RevokeAllSessions, OwnPasswordWrite, RemoveCount,
        RemoveDelete, tables, authVars
  <1>4. QED
    BY <1>1, <1>2, <1>3, FrameUnmoved
    DEF Next, AbortManager, Expire, ExpireAccess, vars, tables, authVars

-----------------------------------------------------------------------------
(* FamilyTraceable and OrphanOnlyAfterPrune.  Both follow the one request  *)
(* that has created a row and not yet linked or delivered it; the latter   *)
(* also needs that a row missing when it is to be linked has expired.      *)

TraceInv == FamilyTraceable /\ OrphanOnlyAfterPrune

\* No row is created, linked or lost sight of: whoever has made one goes on.
TraceQuiet ==
  /\ UNCHANGED <<minted, links>>
  /\ rows' \subseteq rows /\ revoked \subseteq revoked'
  /\ expired \subseteq expired' /\ known \subseteq known'
  /\ aborts' = 0 =>
       /\ aborts = 0
       /\ \A d \in Callers : auth[d].made # NoToken =>
            /\ auth'[d].made = auth[d].made
            /\ auth[d].pc = "link" => auth'[d].pc = "link"

LEMMA TraceInit == Init => TraceInv
  BY DEF Init, TablesInit, AuthInit, TraceInv, FamilyTraceable, OrphanOnlyAfterPrune,
         Tokens, Live

LEMMA TraceFacts ==
  ASSUME TypeOK
  PROVE  /\ Tokens = 1 .. Len(minted) /\ Len(minted) \in Nat
         /\ rows \subseteq Tokens /\ revoked \subseteq Tokens /\ Live \subseteq rows
         /\ links \subseteq Tokens \X Tokens
         /\ NoToken \notin Tokens /\ Len(minted) + 1 \notin Tokens
         /\ auth \in [Callers -> AuthFrame]
  BY TokensFacts DEF TypeOK, TablesTypeOK, AuthTypeOK, Live, NoToken

LEMMA TraceKept ==
  ASSUME TypeOK, TraceInv, TraceQuiet
  PROVE  TraceInv'
  <1>1. Tokens' = Tokens /\ Live' \subseteq Live /\ NoToken \notin Tokens
        /\ links \subseteq Tokens \X Tokens
    BY TraceFacts DEF TraceQuiet, Tokens, Live
  <1>2. FamilyTraceable'
    <2>1. (\A p \in links : minted[p[2]].parent = p[1] /\ p[1] \in revoked)'
      BY DEF TraceInv, FamilyTraceable, TraceQuiet
    <2>2. ASSUME aborts' = 0, NEW t \in Tokens, minted[t].parent \in rows'
          PROVE  \/ <<minted[t].parent, t>> \in links'
                 \/ \E c \in Callers : auth'[c].pc = "link" /\ auth'[c].made = t
      BY <1>1, <2>2 DEF TraceInv, FamilyTraceable, TraceQuiet
    <2>3. QED BY <1>1, <2>1, <2>2 DEF FamilyTraceable, TraceQuiet
  <1>3. OrphanOnlyAfterPrune'
    <2>1. ASSUME aborts' = 0, NEW t \in Live', t \notin known'
          PROVE  \/ \E c \in Callers : auth'[c].made = t
                 \/ /\ minted[t].parent # NoToken
                    /\ minted[t].parent \in expired' \ rows'
      <3>1. t \in Live \ known /\ aborts = 0 /\ t # NoToken
        BY <1>1, <2>1, TraceFacts DEF TraceQuiet
      <3>2. \/ \E c \in Callers : auth[c].made = t
            \/ minted[t].parent # NoToken /\ minted[t].parent \in expired \ rows
        BY <3>1 DEF TraceInv, OrphanOnlyAfterPrune
      <3>3. QED BY <2>1, <3>1, <3>2 DEF TraceQuiet
    <2>2. QED BY <2>1 DEF OrphanOnlyAfterPrune, TraceQuiet
  <1>4. QED BY <1>2, <1>3 DEF TraceInv

\* A request that has made nothing may go anywhere, and no other moves.
LEMMA TraceEmptyHanded ==
  ASSUME TypeOK, TraceInv, NEW c \in Callers, auth[c].made = NoToken,
         \A d \in Callers : d # c => auth'[d] = auth[d],
         UNCHANGED <<minted, links, expired, known, aborts>>,
         rows' \subseteq rows, revoked \subseteq revoked'
  PROVE  TraceInv'
  BY TraceKept DEF TraceQuiet

LEMMA TraceCreate ==
  ASSUME TypeOK, FrameInv, RotationInv, TraceInv,
         NEW c \in Callers, IssueCreate(c), Exists(auth[c].user), UNCHANGED aborts
  PROVE  TraceInv'
  <1> DEFINE id == Len(minted) + 1
             p  == auth[c].prev
  <1>1. /\ Tokens' = Tokens \cup {id} /\ \A t \in Tokens : minted'[t] = minted[t]
        /\ minted'[id].parent = p
    BY MintType
  <1>2. /\ UNCHANGED <<links, expired, known, revoked>> /\ rows' = rows \cup {id}
        /\ auth[c].pc = "create" /\ auth[c].made = NoToken
    BY DEF IssueCreate, FrameInv, FrameOK
  <1>3. /\ \A d \in Callers : d # c => auth'[d] = auth[d]
        /\ auth'[c].made = id
        /\ p # NoToken => auth'[c].pc = "link"
    BY TraceFacts DEF IssueCreate, AuthFrame
  <1>4. /\ \A t \in Tokens : minted[t].parent # id /\ minted[t].parent < t
        /\ NoToken \notin Tokens /\ id \notin Tokens /\ NoToken # id
    BY TypeFacts DEF RotationInv, NumbersGrow, NoToken
  <1>5. \A d \in Callers : auth[d].made # NoToken
          => d # c /\ auth'[d].made = auth[d].made /\ auth'[d].pc = auth[d].pc
    BY <1>2, <1>3
  <1>6. FamilyTraceable'
    <2>1. (\A q \in links : minted[q[2]].parent = q[1] /\ q[1] \in revoked)'
      BY <1>1, <1>2, TraceFacts DEF TraceInv, FamilyTraceable
    <2>2. ASSUME aborts' = 0, NEW t \in Tokens', minted'[t].parent \in rows'
          PROVE  \/ <<minted'[t].parent, t>> \in links'
                 \/ \E d \in Callers : auth'[d].pc = "link" /\ auth'[d].made = t
      <3>1. CASE t = id
        BY <1>1, <1>2, <1>3, <1>4, <2>2, <3>1, TraceFacts
      <3>2. CASE t \in Tokens
        <4>1. minted[t].parent \in rows /\ aborts = 0 /\ t # NoToken
          BY <1>1, <1>2, <1>4, <2>2, <3>2
        <4>2. \/ <<minted[t].parent, t>> \in links
              \/ \E d \in Callers : auth[d].pc = "link" /\ auth[d].made = t
          BY <3>2, <4>1 DEF TraceInv, FamilyTraceable
        <4>3. QED BY <1>1, <1>2, <1>5, <3>2, <4>1, <4>2
      <3>3. QED BY <1>1, <2>2, <3>1, <3>2
    <2>3. QED BY <2>1, <2>2 DEF FamilyTraceable
  <1>7. OrphanOnlyAfterPrune'
    <2>1. Live' = Live \cup {id}
      BY <1>2, <1>4, TraceFacts DEF Live
    <2>2. ASSUME aborts' = 0, NEW t \in Live' \ known'
          PROVE  \/ \E d \in Callers : auth'[d].made = t
                 \/ /\ minted'[t].parent # NoToken
                    /\ minted'[t].parent \in expired' \ rows'
      <3>1. CASE t = id BY <1>3, <3>1
      <3>2. CASE t \in Live
        <4>1. t \in Live \ known /\ aborts = 0 /\ t \in Tokens /\ t # NoToken
          BY <1>2, <1>4, <2>2, <3>2, TraceFacts
        <4>2. \/ \E d \in Callers : auth[d].made = t
              \/ minted[t].parent # NoToken /\ minted[t].parent \in expired \ rows
          BY <4>1 DEF TraceInv, OrphanOnlyAfterPrune
        <4>3. QED BY <1>1, <1>2, <1>4, <1>5, <4>1, <4>2
      <3>3. QED BY <2>1, <2>2, <3>1, <3>2
    <2>3. QED BY <2>2 DEF OrphanOnlyAfterPrune
  <1>8. QED BY <1>6, <1>7 DEF TraceInv

LEMMA TraceLink ==
  ASSUME TypeOK, FrameInv, ReplayInv, TraceInv, NEW c \in Callers, IssueLink(c),
         UNCHANGED aborts
  PROVE  TraceInv'
  <1> DEFINE p == auth[c].prev
             n == auth[c].made
  <1>1. /\ p \in Tokens /\ n \in Tokens
        /\ minted[n].parent = p /\ minted[n].owner = auth[c].user
        /\ minted[p].owner = auth[c].user /\ p \in revoked
        /\ p # NoToken /\ n # NoToken
    BY TraceFacts DEF IssueLink, TypeOK, AuthTypeOK, FrameInv, FrameOK
  <1>2. UNCHANGED <<minted, rows, revoked, expired, known>> /\ Tokens' = Tokens
        /\ Live' = Live
    BY DEF IssueLink, Tokens, Live
  <1>3. CASE p \in rows
    <2>1. links' = links \cup {<<p, n>>} /\ Goto(c, "prune") BY <1>3 DEF IssueLink
    <2>2. \A d \in Callers : /\ d # c => auth'[d] = auth[d]
                             /\ auth'[d].made = auth[d].made
      BY <2>1, TraceFacts DEF Goto, AuthFrame
    <2>3. (\A q \in links : minted[q[2]].parent = q[1] /\ q[1] \in revoked)'
      BY <1>1, <1>2, <2>1 DEF TraceInv, FamilyTraceable
    <2>4. ASSUME aborts' = 0, NEW t \in Tokens, minted[t].parent \in rows
          PROVE  \/ <<minted[t].parent, t>> \in links'
                 \/ \E d \in Callers : auth'[d].pc = "link" /\ auth'[d].made = t
      <3>1. \/ <<minted[t].parent, t>> \in links
            \/ \E d \in Callers : auth[d].pc = "link" /\ auth[d].made = t
        BY <2>4 DEF TraceInv, FamilyTraceable
      <3>2. QED BY <1>1, <2>1, <2>2, <3>1
    <2>5. FamilyTraceable' BY <1>2, <2>3, <2>4 DEF FamilyTraceable
    <2>6. OrphanOnlyAfterPrune'
      BY <1>2, <2>2 DEF TraceInv, OrphanOnlyAfterPrune
    <2>7. QED BY <2>5, <2>6 DEF TraceInv
  <1>4. CASE p \notin rows
    <2>1. links' = links /\ \A d \in Callers : d # c => auth'[d] = auth[d]
      BY <1>4, TraceFacts DEF IssueLink, Finish
    <2>2. n \in rows => p \in expired
      BY <1>1, <1>4 DEF ReplayInv, ReplayRecognised
    <2>3. FamilyTraceable'
      <3>1. ASSUME aborts' = 0, NEW t \in Tokens, minted[t].parent \in rows
            PROVE  \/ <<minted[t].parent, t>> \in links
                   \/ \E d \in Callers : auth'[d].pc = "link" /\ auth'[d].made = t
        BY <1>1, <1>4, <2>1, <3>1 DEF TraceInv, FamilyTraceable
      <3>2. QED BY <1>2, <2>1, <3>1 DEF TraceInv, FamilyTraceable
    <2>4. OrphanOnlyAfterPrune'
      <3>1. ASSUME aborts' = 0, NEW t \in Live \ known
            PROVE  \/ \E d \in Callers : auth'[d].made = t
                   \/ minted[t].parent # NoToken /\ minted[t].parent \in expired \ rows
        <4>1. CASE t = n BY <1>1, <1>4, <2>2, <3>1, <4>1, TraceFacts
        <4>2. CASE t # n
          BY <2>1, <3>1, <4>2 DEF TraceInv, OrphanOnlyAfterPrune
        <4>3. QED BY <4>1, <4>2
      <3>2. QED BY <1>2, <3>1 DEF OrphanOnlyAfterPrune
    <2>5. QED BY <2>3, <2>4 DEF TraceInv
  <1>5. QED BY <1>3, <1>4

LEMMA TraceReply ==
  ASSUME TypeOK, TraceInv, NEW c \in Callers, Reply(c), UNCHANGED aborts
  PROVE  TraceInv'
  <1>1. /\ UNCHANGED <<minted, rows, revoked, expired, links>> /\ Tokens' = Tokens
        /\ Live' = Live /\ known' = known \cup {auth[c].made}
        /\ auth[c].pc = "reply"
        /\ \A d \in Callers : d # c => auth'[d] = auth[d]
    BY DEF Reply, Finish, tables, Tokens, Live
  <1>2. FamilyTraceable'
    BY <1>1 DEF TraceInv, FamilyTraceable
  <1>3. OrphanOnlyAfterPrune'
    BY <1>1 DEF TraceInv, OrphanOnlyAfterPrune
  <1>4. QED BY <1>2, <1>3 DEF TraceInv

LEMMA TraceCaller ==
  ASSUME TypeOK, FrameInv, RotationInv, ReplayInv, TraceInv,
         NEW c \in Callers, CallerStep(c) \/ CallerStart(c), UNCHANGED aborts
  PROVE  TraceInv'
  <1>1. auth[c].pc \in {"idle", "touch", "claim", "create", "revokeAll"}
          => auth[c].made = NoToken
    BY DEF FrameInv, FrameOK
  <1>2. CASE LoginTouch(c) \/ RefreshClaim(c) \/ RefreshRevokeAll(c)
             \/ (IssueCreate(c) /\ ~Exists(auth[c].user))
    BY <1>1, <1>2, TraceEmptyHanded, TraceFacts
    DEF LoginTouch, RefreshClaim, RefreshRevokeAll, RevokeAllSessions, IssueCreate, Goto,
        Finish, tables
  <1>3. CASE IssueCreate(c) /\ Exists(auth[c].user) BY <1>3, TraceCreate
  <1>4. CASE IssueLink(c) BY <1>4, TraceLink
  <1>5. CASE IssuePrune(c)
    <2>1. \A d \in Callers : /\ auth'[d].made = auth[d].made
                             /\ auth[d].pc = "link" => auth'[d].pc = "link"
      BY <1>5, TraceFacts DEF IssuePrune, Goto, AuthFrame
    <2>2. QED
      BY <1>5, <2>1, TraceKept DEF IssuePrune, PruneExpiredTokens, TraceQuiet
  <1>6. CASE Reply(c) BY <1>6, TraceReply
  <1>7. CASE LoginRejected(c)
    BY <1>7, TraceKept DEF LoginRejected, TraceQuiet, tables, authVars
  <1>8. ASSUME NEW u \in Users, LoginFind(c, u) PROVE TraceInv'
    BY <1>1, <1>8, TraceEmptyHanded DEF LoginFind, tables
  <1>9. ASSUME NEW t \in known, RefreshFind(c, t) \/ RefreshReused(c, t) PROVE TraceInv'
    BY <1>1, <1>9, TraceEmptyHanded, TraceFacts
    DEF RefreshFind, RefreshReused, Refreshing, tables
  <1>10. ASSUME NEW t \in known, RefreshRejected(c, t) \/ Logout(c, t) PROVE TraceInv'
    BY <1>10, TraceKept DEF RefreshRejected, Logout, TraceQuiet, tables, authVars
  <1>11. QED
    BY <1>2, <1>3, <1>4, <1>5, <1>6, <1>7, <1>8, <1>9, <1>10 DEF CallerStep, CallerStart

LEMMA TraceNext ==
  TypeOK /\ FrameInv /\ RotationInv /\ ReplayInv /\ TraceInv /\ [Next]_vars => TraceInv'
  <1> SUFFICES ASSUME TypeOK, FrameInv, RotationInv, ReplayInv, TraceInv, [Next]_vars
               PROVE  TraceInv'
    OBVIOUS
  <1>1. ASSUME NEW c \in Callers, CallerAction(c) PROVE TraceInv'
    BY <1>1, TraceCaller DEF CallerAction
  <1>2. ASSUME NEW c \in Callers, AbortCaller(c) PROVE TraceInv'
    <2>1. aborts' # 0 BY <1>2 DEF AbortCaller, TypeOK
    <2>2. QED BY <1>2, <2>1, TraceKept DEF AbortCaller, TraceQuiet, tables
  <1>3. ASSUME NEW m \in Managers, ManagerAction(m) PROVE TraceInv'
    BY <1>3, TraceKept
    DEF ManagerAction, ManagerStep, ManagerStart, ManagerRejected, OwnPasswordFind,
        SetPassword, StorePassword, RemoveFind, UpdateFind, CreateUser, UpdateCount,
        UpdateWrite, RevokeTarget, RevokeAllSessions, OwnPasswordWrite, RemoveCount,
        RemoveDelete, TraceQuiet, tables, authVars
  <1>4. ASSUME NEW m \in Managers, AbortManager(m) PROVE TraceInv'
    <2>1. aborts' # 0 BY <1>4 DEF AbortManager, TypeOK
    <2>2. QED BY <1>4, <2>1, TraceKept DEF AbortManager, TraceQuiet, authVars
  <1>5. QED
    BY <1>1, <1>2, <1>3, <1>4, TraceKept
    DEF Next, Expire, ExpireAccess, TraceQuiet, vars, tables, authVars

LEMMA RotationNext == TypeOK /\ RotationInv /\ [Next]_vars => RotationInv'
  BY StepShape, RotationQuiet, RotationSpend, RotationMint

LEMMA TraceCorrect == Spec => []TraceInv
  BY TypeCorrect, FrameInit, FrameNext, RotationInit, RotationNext, ReplayInit, ReplayStep,
     TraceInit, TraceNext, PTL
  DEF Spec

(***************************************************************************)
(* For any number of requests: replaced_by_id is truthful, and complete    *)
(* while none of them dies.                                                *)
(***************************************************************************)
THEOREM FamiliesAlwaysTraceable == Spec => []FamilyTraceable
  <1>1. TraceInv => FamilyTraceable BY DEF TraceInv
  <1>2. QED BY TraceCorrect, <1>1, PTL

(***************************************************************************)
(* For any number of requests none of which dies: a usable token that      *)
(* reaches nobody replaces one that had expired and was pruned.            *)
(***************************************************************************)
THEOREM OrphansAlwaysExplained == Spec => []OrphanOnlyAfterPrune
  <1>1. TraceInv => OrphanOnlyAfterPrune BY DEF TraceInv
  <1>2. QED BY TraceCorrect, <1>1, PTL

-----------------------------------------------------------------------------
(* StaleSessionsExplained.  A request that is about to create a row needs  *)
(* the same explanation as a row; a refresh inherits its token's.          *)

Settled(u, n) == n = epoch[u] \/ RevocationPending(u) \/ u \in interrupted

ExplainedToken(t) == Settled(minted[t].owner, minted[t].since) \/ FamilyOf(t) \in late

ExplainedCaller(c) ==
  auth[c].pc \in {"touch", "create"} =>
    \/ Settled(auth[c].user, auth[c].since)
    \/ c \in overtaken
    \/ auth[c].prev # NoToken /\ FamilyOf(auth[c].prev) \in late

StaleInv == /\ \A t \in Live : ExplainedToken(t)
            /\ \A c \in Callers : ExplainedCaller(c)

LEMMA StaleInit == Init => StaleInv
  BY DEF Init, TablesInit, AuthInit, StaleInv, ExplainedCaller, Live, Idle

\* A caller that keeps its place, or reaches one where it creates nothing.
SameCaller(d) ==
  auth'[d].pc \in {"touch", "create"} =>
    /\ auth[d].pc \in {"touch", "create"}
    /\ auth'[d].user = auth[d].user /\ auth'[d].since = auth[d].since
    /\ auth'[d].prev = auth[d].prev
    /\ d \in overtaken => d \in overtaken'

LEMMA StaleFacts ==
  ASSUME TypeOK
  PROVE  /\ Live \subseteq Tokens /\ auth \in [Callers -> AuthFrame]
         /\ \A t \in Tokens : minted[t].owner \in Users
         /\ \A c \in Callers : /\ auth[c].prev \in Tokens \cup {NoToken}
                               /\ auth[c].pc # "idle" => auth[c].user \in Users
         /\ \A m \in Managers : admin[m].pc # "idle" => admin[m].target \in Users
         /\ admin \in [Managers -> AdminFrame] /\ epoch \in [Users -> Nat]
  BY TokensFacts DEF TypeOK, TablesTypeOK, AuthTypeOK, UsersTypeOK, Live

\* Nothing is created and no explanation is withdrawn.
LEMMA StaleKept ==
  ASSUME TypeOK, StaleInv, minted' = minted, Live' \subseteq Live, late' = late,
         \A u \in Users : RevocationPending(u) => RevocationPending(u)' \/ u \in interrupted',
         \A u \in Users : u \in interrupted => u \in interrupted',
         \A u \in Users : epoch'[u] = epoch[u] \/ RevocationPending(u)'
                            \/ u \in interrupted',
         \A d \in Callers : SameCaller(d)
  PROVE  StaleInv'
  <1>1. ASSUME NEW u \in Users, NEW n, Settled(u, n) PROVE Settled(u, n)'
    BY <1>1 DEF Settled
  <1>2. ASSUME NEW t \in Live' PROVE ExplainedToken(t)'
    <2>1. t \in Live /\ minted[t].owner \in Users /\ ExplainedToken(t)
      BY <1>2, StaleFacts DEF StaleInv
    <2>2. CASE Settled(minted[t].owner, minted[t].since)
      BY <1>1, <2>1, <2>2 DEF ExplainedToken, Settled
    <2>3. CASE FamilyOf(t) \in late BY <2>3 DEF ExplainedToken, FamilyOf
    <2>4. QED BY <2>1, <2>2, <2>3 DEF ExplainedToken
  <1>3. ASSUME NEW d \in Callers, auth'[d].pc \in {"touch", "create"}
        PROVE  ExplainedCaller(d)'
    <2>1. /\ auth[d].pc \in {"touch", "create"} /\ auth[d].user \in Users
          /\ ExplainedCaller(d)
      BY <1>3, StaleFacts DEF SameCaller, StaleInv
    <2>2. CASE Settled(auth[d].user, auth[d].since)
      <3>1. Settled(auth[d].user, auth[d].since)'
        BY <1>1, <1>3, <2>1, <2>2 DEF SameCaller, Settled
      <3>2. QED BY <3>1 DEF ExplainedCaller
    <2>3. QED
      BY <1>3, <2>1, <2>2 DEF SameCaller, ExplainedCaller, FamilyOf
  <1>4. QED BY <1>2, <1>3 DEF StaleInv, ExplainedCaller

\* revokeAllSessions(u): u's rows are spent, and u's callers that create one
\* afterwards are on record as overtaken.
LEMMA StaleRevoke ==
  ASSUME TypeOK, StaleInv, NEW u \in Users, RevokeAllSessions(u),
         UNCHANGED <<minted, rows, late, epoch>>,
         overtaken' = overtaken \cup InFlight(u),
         \A v \in Users \ {u} : RevocationPending(v) => RevocationPending(v)',
         \A d \in Callers : auth'[d].pc \in {"touch", "create"} => auth'[d] = auth[d]
  PROVE  StaleInv'
  <1>1. ASSUME NEW v \in Users \ {u}, NEW n, Settled(v, n) PROVE Settled(v, n)'
    BY <1>1 DEF Settled, RevokeAllSessions
  <1>2. ASSUME NEW t \in Live' PROVE ExplainedToken(t)'
    <2>1. /\ t \in Live /\ minted[t].owner \in Users \ {u} /\ ExplainedToken(t)
      BY <1>2, StaleFacts DEF StaleInv, RevokeAllSessions, RowsOf, Live
    <2>2. CASE Settled(minted[t].owner, minted[t].since)
      BY <1>1, <2>1, <2>2 DEF ExplainedToken, Settled
    <2>3. CASE FamilyOf(t) \in late BY <2>3 DEF ExplainedToken, FamilyOf
    <2>4. QED BY <2>1, <2>2, <2>3 DEF ExplainedToken
  <1>3. ASSUME NEW d \in Callers, auth'[d].pc \in {"touch", "create"}
        PROVE  ExplainedCaller(d)'
    <2>1. /\ auth'[d] = auth[d] /\ auth[d].user \in Users /\ ExplainedCaller(d)
      BY <1>3, StaleFacts DEF StaleInv
    <2>2. CASE auth[d].user = u
      BY <1>3, <2>1, <2>2 DEF InFlight, ExplainedCaller
    <2>3. CASE auth[d].user # u /\ Settled(auth[d].user, auth[d].since)
      <3>1. Settled(auth[d].user, auth[d].since)'
        BY <1>1, <2>1, <2>3 DEF Settled
      <3>2. QED BY <3>1 DEF ExplainedCaller
    <2>4. CASE auth[d].user # u /\ ~Settled(auth[d].user, auth[d].since)
      BY <1>3, <2>1, <2>4 DEF ExplainedCaller, FamilyOf
    <2>5. QED BY <2>2, <2>3, <2>4
  <1>4. QED BY <1>2, <1>3 DEF StaleInv, ExplainedCaller

LEMMA StaleCreate ==
  ASSUME TypeOK, StaleInv, NEW c \in Callers, IssueCreate(c), Exists(auth[c].user),
         UNCHANGED usersVars
  PROVE  StaleInv'
  <1> DEFINE id == Len(minted) + 1
             p  == auth[c].prev
  <1>1. /\ Tokens' = Tokens \cup {id} /\ \A t \in Tokens : minted'[t] = minted[t]
        /\ minted'[id].owner = auth[c].user /\ minted'[id].since = auth[c].since
        /\ p = NoToken => minted'[id].family = id
        /\ p # NoToken => p \in Tokens /\ minted'[id].family = minted[p].family
    BY MintType
  <1>2. /\ UNCHANGED <<revoked, epoch, interrupted>> /\ rows' = rows \cup {id}
        /\ auth[c].pc = "create" /\ overtaken' = overtaken \ {c}
        /\ late \subseteq late'
        /\ c \in overtaken => minted'[id].family \in late'
    BY <1>1 DEF IssueCreate
  <1>3. /\ \A d \in Callers : d # c => auth'[d] = auth[d]
        /\ auth'[c].pc \notin {"touch", "create"}
    BY StaleFacts DEF IssueCreate, AuthFrame
  <1>4. Live' \subseteq Live \cup {id} BY <1>2 DEF Live
  <1>5. ASSUME NEW t, t = id PROVE ExplainedToken(t)'
    <2>1. ExplainedCaller(c) BY DEF StaleInv
    <2>2. CASE Settled(auth[c].user, auth[c].since)
      BY <1>1, <1>2, <1>5, <2>2 DEF ExplainedToken, Settled, RevocationPending, usersVars
    <2>3. CASE c \in overtaken BY <1>2, <1>5, <2>3 DEF ExplainedToken, FamilyOf
    <2>4. CASE p # NoToken /\ FamilyOf(p) \in late
      BY <1>1, <1>2, <1>5, <2>4 DEF ExplainedToken, FamilyOf
    <2>5. QED BY <1>2, <2>1, <2>2, <2>3, <2>4 DEF ExplainedCaller
  <1>6. ASSUME NEW t \in Live PROVE ExplainedToken(t)'
    <2>1. minted'[t] = minted[t] /\ ExplainedToken(t)
      BY <1>1, StaleFacts DEF StaleInv
    <2>2. QED
      BY <1>2, <2>1 DEF ExplainedToken, FamilyOf, Settled, RevocationPending, usersVars
  <1>7. ASSUME NEW d \in Callers, auth'[d].pc \in {"touch", "create"}
        PROVE  ExplainedCaller(d)'
    <2>1. d # c /\ auth'[d] = auth[d] /\ ExplainedCaller(d)
          /\ auth[d].prev \in Tokens \cup {NoToken}
      BY <1>3, <1>7, StaleFacts DEF StaleInv
    <2>2. QED
      BY <1>1, <1>2, <1>7, <2>1
      DEF ExplainedCaller, FamilyOf, Settled, RevocationPending, usersVars
  <1>8. QED BY <1>4, <1>5, <1>6, <1>7 DEF StaleInv, ExplainedCaller

\* Only c moves, nothing else does, and c has an explanation where it goes.
LEMMA StaleMoved ==
  ASSUME TypeOK, StaleInv, NEW c \in Callers,
         UNCHANGED <<minted, late, epoch, interrupted, usersVars>>, Live' \subseteq Live,
         \A d \in Callers : d # c => auth'[d] = auth[d],
         \A d \in Callers : d # c /\ d \in overtaken => d \in overtaken',
         ExplainedCaller(c)'
  PROVE  StaleInv'
  <1>1. ASSUME NEW t \in Live' PROVE ExplainedToken(t)'
    <2>1. ExplainedToken(t) BY <1>1 DEF StaleInv
    <2>2. QED
      BY <2>1 DEF ExplainedToken, FamilyOf, Settled, RevocationPending, usersVars
  <1>2. ASSUME NEW d \in Callers, d # c PROVE ExplainedCaller(d)'
    <2>1. auth'[d] = auth[d] /\ ExplainedCaller(d) BY <1>2 DEF StaleInv
    <2>2. QED
      BY <1>2, <2>1 DEF ExplainedCaller, FamilyOf, Settled, RevocationPending, usersVars
  <1>3. QED BY <1>1, <1>2 DEF StaleInv

LEMMA StaleCaller ==
  ASSUME TypeOK, FrameInv, StaleInv, NEW c \in Callers, CallerStep(c) \/ CallerStart(c),
         UNCHANGED usersVars
  PROVE  StaleInv'
  <1>1. auth \in [Callers -> AuthFrame] /\ FrameOK(c) /\ ExplainedCaller(c)
    BY StaleFacts DEF FrameInv, StaleInv
  <1>2. ASSUME UNCHANGED <<minted, late, epoch, interrupted>>, Live' \subseteq Live,
               \A d \in Callers : d # c => auth'[d] = auth[d],
               \A d \in Callers : d # c /\ d \in overtaken => d \in overtaken',
               auth'[c].pc \notin {"touch", "create"}
        PROVE  StaleInv'
    BY <1>2, StaleMoved DEF ExplainedCaller
  <1>3. CASE LoginTouch(c)
    <2>1. CASE Exists(auth[c].user)
      <3>1. /\ auth[c].pc = "touch" /\ UNCHANGED <<tables, late, overtaken>>
            /\ auth' = [auth EXCEPT ![c].pc = "create"]
        BY <1>3, <2>1 DEF LoginTouch, Goto
      <3>2. /\ \A d \in Callers : d # c => auth'[d] = auth[d]
            /\ auth'[c].user = auth[c].user /\ auth'[c].prev = auth[c].prev
            /\ auth'[c].since = auth[c].since
        BY <1>1, <3>1 DEF AuthFrame
      <3>3. ExplainedCaller(c)'
        BY <1>1, <3>1, <3>2
        DEF ExplainedCaller, FamilyOf, Settled, RevocationPending, usersVars, tables
      <3>4. QED BY <3>1, <3>2, <3>3, StaleMoved DEF tables, Live
    <2>2. CASE ~Exists(auth[c].user)
      BY <1>1, <1>2, <1>3, <2>2 DEF LoginTouch, Finish, Idle, tables, Live
    <2>3. QED BY <2>1, <2>2
  <1>4. CASE IssueCreate(c) /\ Exists(auth[c].user) BY <1>4, StaleCreate
  <1>5. CASE IssueCreate(c) /\ ~Exists(auth[c].user)
    BY <1>1, <1>2, <1>5 DEF IssueCreate, Finish, Idle, Live
  <1>6. CASE IssueLink(c)
    <2>1. Goto(c, "prune") \/ Finish(c) BY <1>6 DEF IssueLink
    <2>2. /\ \A d \in Callers : d # c => auth'[d] = auth[d]
          /\ auth'[c].pc \notin {"touch", "create"}
      BY <1>1, <2>1 DEF Goto, Finish, Idle, AuthFrame
    <2>3. QED BY <1>2, <1>6, <2>1, <2>2 DEF IssueLink, Goto, Finish, Live
  <1>7. CASE IssuePrune(c)
    <2>1. /\ \A d \in Callers : d # c => auth'[d] = auth[d]
          /\ auth'[c].pc \notin {"touch", "create"}
      BY <1>1, <1>7 DEF IssuePrune, Goto, AuthFrame
    <2>2. QED BY <1>2, <1>7, <2>1 DEF IssuePrune, PruneExpiredTokens, Goto, Live
  <1>8. CASE Reply(c)
    BY <1>1, <1>2, <1>8 DEF Reply, Finish, Idle, tables, Live
  <1>9. CASE RefreshClaim(c)
    <2>1. CASE auth[c].prev \in Live
      <3>1. /\ auth[c].pc = "claim" /\ Live' \subseteq Live
            /\ UNCHANGED <<minted, late, epoch, interrupted, overtaken>>
            /\ auth' = [auth EXCEPT ![c].pc = "create"]
        BY <1>9, <2>1 DEF RefreshClaim, Goto, Live
      <3>2. /\ \A d \in Callers : d # c => auth'[d] = auth[d]
            /\ auth'[c].user = auth[c].user /\ auth'[c].prev = auth[c].prev
            /\ auth'[c].since = auth[c].since
        BY <1>1, <3>1 DEF AuthFrame
      <3>3. /\ ExplainedToken(auth[c].prev) /\ auth[c].prev # NoToken
            /\ auth[c].user = minted[auth[c].prev].owner
            /\ auth[c].since = minted[auth[c].prev].since
        BY <1>1, <2>1, <3>1 DEF StaleInv, FrameOK, TypeOK, AuthTypeOK
      <3>4. ExplainedCaller(c)'
        BY <3>1, <3>2, <3>3
        DEF ExplainedCaller, ExplainedToken, FamilyOf, Settled, RevocationPending, usersVars
      <3>5. QED BY <3>1, <3>2, <3>4, StaleMoved
    <2>2. CASE auth[c].prev \notin Live
      <3>1. /\ \A d \in Callers : d # c => auth'[d] = auth[d]
            /\ auth'[c].pc \notin {"touch", "create"}
        BY <1>1, <1>9, <2>2 DEF RefreshClaim, Goto, AuthFrame
      <3>2. QED BY <1>2, <1>9, <2>2, <3>1 DEF RefreshClaim, Goto, Live
    <2>3. QED BY <2>1, <2>2
  <1>10. CASE RefreshRevokeAll(c)
    <2>1. auth[c].user \in Users BY <1>10, StaleFacts DEF RefreshRevokeAll
    <2>2. \A d \in Callers : auth'[d].pc \in {"touch", "create"} => auth'[d] = auth[d]
      BY <1>1, <1>10 DEF RefreshRevokeAll, Idle
    <2>3. QED
      BY <1>10, <2>1, <2>2, StaleRevoke
      DEF RefreshRevokeAll, RevocationPending, usersVars
  <1>11. CASE LoginRejected(c)
    BY <1>11, StaleMoved, <1>1
    DEF LoginRejected, tables, authVars, Live, ExplainedCaller, FamilyOf, Settled,
        RevocationPending, usersVars
  <1>12. ASSUME NEW u \in Users, LoginFind(c, u) PROVE StaleInv'
    <2>1. /\ \A d \in Callers : d # c => auth'[d] = auth[d]
          /\ auth'[c].user = u /\ auth'[c].since = epoch[u]
          /\ UNCHANGED <<tables, overtaken, late>>
      BY <1>1, <1>12 DEF LoginFind, Idle
    <2>2. ExplainedCaller(c)' BY <2>1 DEF ExplainedCaller, Settled, tables
    <2>3. QED BY <2>1, <2>2, StaleMoved DEF tables, Live
  <1>13. ASSUME NEW t \in known, RefreshFind(c, t) \/ RefreshReused(c, t) PROVE StaleInv'
    BY <1>1, <1>2, <1>13 DEF RefreshFind, RefreshReused, Refreshing, Idle, tables, Live
  <1>14. ASSUME NEW t \in known, RefreshRejected(c, t) \/ Logout(c, t) PROVE StaleInv'
    BY <1>1, <1>14, StaleMoved
    DEF RefreshRejected, Logout, tables, authVars, Live, ExplainedCaller, FamilyOf,
        Settled, RevocationPending, usersVars
  <1>15. QED
    BY <1>3, <1>4, <1>5, <1>6, <1>7, <1>8, <1>9, <1>10, <1>11, <1>12, <1>13, <1>14
    DEF CallerStep, CallerStart

\* A change of the account either has its revocation to come, or took back a
\* role that was given since the request read the account.
LEMMA StaleWrite ==
  ASSUME TypeOK, StaleInv, NEW m \in Managers, UpdateWrite(m), UNCHANGED aborts
  PROVE  StaleInv'
  <1> DEFINE f == admin[m]
             u == f.target
  <1>1. /\ u \in Users /\ f \in AdminFrame /\ admin \in [Managers -> AdminFrame]
        /\ f.pc = "write" /\ epoch \in [Users -> Nat]
    BY StaleFacts DEF UpdateWrite
  <1>2. UNCHANGED <<minted, rows, revoked, late, auth, overtaken>>
    BY DEF UpdateWrite, authVars
  <1>3. \A n \in Managers : n # m => admin'[n] = admin[n]
    BY <1>1 DEF UpdateWrite, Proceed, Answer
  <1>4. \A v \in Users : RevocationPending(v) => RevocationPending(v)'
    BY <1>1, <1>3 DEF RevocationPending
  <1>5. \A v \in Users : v \in interrupted => v \in interrupted'
    BY DEF UpdateWrite
  <1>6. \A v \in Users : epoch'[v] = epoch[v] \/ RevocationPending(v)'
                           \/ v \in interrupted'
    <2>1. CASE Exists(u) /\ MustEndSessions(u, f.dto) /\ RevokesSessions(f)
      <3>1. admin' = [admin EXCEPT ![m].pc = "revoke"]
            /\ epoch' = [epoch EXCEPT ![u] = @ + 1]
        BY <2>1 DEF UpdateWrite, Proceed
      <3>2. admin'[m].pc = "revoke" /\ admin'[m].target = u
        BY <1>1, <3>1 DEF AdminFrame
      <3>3. QED BY <1>1, <3>1, <3>2 DEF RevocationPending
    <2>2. CASE Exists(u) /\ MustEndSessions(u, f.dto) /\ ~RevokesSessions(f)
      <3>1. Overlooks(f)
        BY <2>2 DEF MustEndSessions, RevokesSessions, Overlooks, Given
      <3>2. u \in interrupted' /\ epoch' = [epoch EXCEPT ![u] = @ + 1]
        BY <2>2, <3>1 DEF UpdateWrite
      <3>3. QED BY <1>1, <3>2
    <2>3. CASE ~Exists(u) \/ ~MustEndSessions(u, f.dto)
      BY <2>3 DEF UpdateWrite
    <2>4. QED BY <2>1, <2>2, <2>3
  <1>7. \A d \in Callers : SameCaller(d) BY <1>2 DEF SameCaller
  <1>8. QED BY <1>2, <1>4, <1>5, <1>6, <1>7, StaleKept DEF Live

\* A request that moves on without writing to an account or to a session.
LEMMA StaleIdle ==
  ASSUME TypeOK, StaleInv, NEW m \in Managers, admin[m].pc # "revoke",
         \A n \in Managers : n # m => admin'[n] = admin[n],
         UNCHANGED <<minted, revoked, late, auth, overtaken, epoch, interrupted>>,
         rows' \subseteq rows
  PROVE  StaleInv'
  <1>1. \A u \in Users : RevocationPending(u) => RevocationPending(u)'
    BY DEF RevocationPending
  <1>2. \A d \in Callers : SameCaller(d) BY DEF SameCaller
  <1>3. QED BY <1>1, <1>2, StaleKept DEF Live

\* A new password, its revocation next.
LEMMA StalePassword ==
  ASSUME TypeOK, StaleInv, NEW m \in Managers, NEW u \in Users, StorePassword(u),
         admin[m].pc # "revoke", \A n \in Managers : n # m => admin'[n] = admin[n],
         admin'[m].pc = "revoke", admin'[m].target = u
  PROVE  StaleInv'
  <1>1. \A v \in Users : RevocationPending(v) => RevocationPending(v)'
    BY DEF RevocationPending
  <1>2. \A v \in Users : epoch'[v] = epoch[v] \/ RevocationPending(v)'
    BY StaleFacts DEF StorePassword, RevocationPending
  <1>3. /\ UNCHANGED <<minted, rows, revoked, late, interrupted>>
        /\ \A d \in Callers : SameCaller(d)
    BY DEF StorePassword, authVars, SameCaller
  <1>4. QED BY <1>1, <1>2, <1>3, StaleKept DEF Live

LEMMA StaleManager ==
  ASSUME TypeOK, StaleInv, NEW m \in Managers, ManagerStep(m) \/ ManagerStart(m),
         UNCHANGED aborts
  PROVE  StaleInv'
  <1>1. admin \in [Managers -> AdminFrame] BY StaleFacts
  <1>2. CASE UpdateWrite(m) BY <1>2, StaleWrite
  <1>3. CASE RevokeTarget(m)
    <2> DEFINE u == admin[m].target
    <2>1. u \in Users BY <1>3, StaleFacts DEF RevokeTarget
    <2>2. \A n \in Managers : n # m => admin'[n] = admin[n]
      BY <1>1, <1>3 DEF RevokeTarget, Answer
    <2>3. \A v \in Users \ {u} : RevocationPending(v) => RevocationPending(v)'
      BY <2>2 DEF RevocationPending
    <2>4. QED BY <1>3, <2>1, <2>3, StaleRevoke DEF RevokeTarget
  <1>4. CASE UpdateCount(m) \/ RemoveCount(m)
    BY <1>1, <1>4, StaleIdle
    DEF UpdateCount, RemoveCount, Proceed, Answer, tables, authVars
  <1>5. CASE RemoveDelete(m)
    BY <1>1, <1>5, StaleIdle DEF RemoveDelete, Answer, authVars
  <1>6. CASE OwnPasswordWrite(m) /\ Exists(admin[m].target)
    <2>1. admin[m].pc = "setPassword" /\ admin[m].target \in Users
      BY <1>6, StaleFacts DEF OwnPasswordWrite
    <2>2. /\ StorePassword(admin[m].target)
          /\ \A n \in Managers : n # m => admin'[n] = admin[n]
          /\ admin'[m].pc = "revoke" /\ admin'[m].target = admin[m].target
      BY <1>1, <1>6 DEF OwnPasswordWrite, Proceed, AdminFrame
    <2>3. QED BY <2>1, <2>2, StalePassword
  <1>7. CASE OwnPasswordWrite(m) /\ ~Exists(admin[m].target)
    BY <1>1, <1>7, StaleIdle DEF OwnPasswordWrite, Answer, tables, authVars
  <1>8. CASE ManagerRejected(m)
    BY <1>8, StaleIdle DEF ManagerRejected, tables, authVars, usersVars
  <1>9. ASSUME NEW a \in Users, OwnPasswordFind(m, a) PROVE StaleInv'
    BY <1>1, <1>9, StaleIdle DEF OwnPasswordFind, Free, Admit, tables, authVars
  <1>10. ASSUME NEW a \in Users, NEW u \in Users, SetPassword(m, a, u) PROVE StaleInv'
    <2>1. /\ admin[m].pc # "revoke" /\ StorePassword(u)
          /\ \A n \in Managers : n # m => admin'[n] = admin[n]
          /\ admin'[m].pc = "revoke" /\ admin'[m].target = u
      BY <1>1, <1>10 DEF SetPassword, Free, Admit
    <2>2. QED BY <2>1, StalePassword
  <1>11. ASSUME NEW a \in Users, NEW u \in Users, RemoveFind(m, a, u) PROVE StaleInv'
    BY <1>1, <1>11, StaleIdle DEF RemoveFind, Free, Admit, tables, authVars
  <1>12. ASSUME NEW a \in Users, NEW u \in Users, NEW dto \in Dtos,
                UpdateFind(m, a, u, dto)
         PROVE  StaleInv'
    BY <1>1, <1>12, StaleIdle DEF UpdateFind, Free, Admit, tables, authVars
  <1>13. ASSUME NEW a \in Users, NEW u \in Users, NEW r \in Roles, NEW flag \in Flags,
                CreateUser(m, a, u, r, flag)
         PROVE  StaleInv'
    BY <1>13, StaleIdle DEF CreateUser, Free, authVars
  <1>14. QED
    BY <1>2, <1>3, <1>4, <1>5, <1>6, <1>7, <1>8, <1>9, <1>10, <1>11, <1>12, <1>13
    DEF ManagerStep, ManagerStart

LEMMA StaleNext == TypeOK /\ FrameInv /\ StaleInv /\ [Next]_vars => StaleInv'
  <1> SUFFICES ASSUME TypeOK, FrameInv, StaleInv, [Next]_vars PROVE StaleInv'
    OBVIOUS
  <1>1. ASSUME NEW c \in Callers, CallerAction(c) PROVE StaleInv'
    BY <1>1, StaleCaller DEF CallerAction
  <1>2. ASSUME NEW c \in Callers, AbortCaller(c) PROVE StaleInv'
    <2>1. /\ \A d \in Callers : d # c => auth'[d] = auth[d]
          /\ auth'[c].pc \notin {"touch", "create"}
      BY <1>2, StaleFacts DEF AbortCaller, Finish, Idle
    <2>2. ExplainedCaller(c)' BY <2>1 DEF ExplainedCaller
    <2>3. QED BY <1>2, <2>1, <2>2, StaleMoved DEF AbortCaller, Finish, tables, Live
  <1>3. ASSUME NEW m \in Managers, ManagerAction(m) PROVE StaleInv'
    BY <1>3, StaleManager DEF ManagerAction
  <1>4. ASSUME NEW m \in Managers, AbortManager(m) PROVE StaleInv'
    <2>1. \A n \in Managers : n # m => admin'[n] = admin[n]
      BY <1>4, StaleFacts DEF AbortManager, Answer
    <2>2. \A u \in Users : RevocationPending(u)
            => RevocationPending(u)' \/ u \in interrupted'
      BY <1>4, <2>1 DEF AbortManager, RevocationPending
    <2>3. /\ UNCHANGED <<minted, rows, revoked, late, epoch>>
          /\ \A u \in Users : u \in interrupted => u \in interrupted'
          /\ \A d \in Callers : SameCaller(d)
      BY <1>4 DEF AbortManager, authVars, SameCaller
    <2>4. QED BY <2>2, <2>3, StaleKept DEF Live
  <1>5. CASE UNCHANGED <<minted, rows, revoked, late, epoch, interrupted, auth,
                         overtaken, usersVars>>
    BY <1>5, StaleKept DEF Live, SameCaller, RevocationPending, usersVars
  <1>6. QED
    BY <1>1, <1>2, <1>3, <1>4, <1>5
    DEF Next, Expire, ExpireAccess, vars, tables, authVars

(***************************************************************************)
(* For any number of requests of either kind and any set of accounts: a    *)
(* session older than its account's last password, role or activity change *)
(* is usable only for one of the four reasons StaleSessionsExplained names.*)
(***************************************************************************)
THEOREM StaleSessionsAlwaysExplained == Spec => []StaleSessionsExplained
  <1>1. StaleInv => StaleSessionsExplained
    BY DEF StaleInv, StaleSessionsExplained, ExplainedToken, Settled
  <1>2. QED
    BY TypeCorrect, FrameInit, FrameNext, StaleInit, StaleNext, <1>1, PTL DEF Spec

-----------------------------------------------------------------------------
(* SuperadminRemains, when management requests run one at a time.  The     *)
(* check in assertNotLastSuperadmin is then still true at the write it     *)
(* guards; with two slots it is not, and the model checker shows it.       *)

OneAtATime == \A m, n \in Managers : m = n

\* What a request has established about its target when it comes to write.
Vouched(m) ==
  LET f == admin[m]
  IN /\ f.pc \in {"countUpdate", "write"} => f.seen = role[f.target]
     /\ f.pc = "write" /\ LosesSuperadmin(f.seen, f.dto) => OthersRemain(f.target)
     /\ f.pc = "delete" /\ role[f.target] = "SUPERADMIN" => OthersRemain(f.target)

StaffInv == SuperadminRemains /\ \A m \in Managers : Vouched(m)

LEMMA StaffInit == Init => StaffInv
  BY DEF Init, TablesInit, UsersInit, IdleAdmin, StaffInv, SuperadminRemains, Vouched

\* Nothing about accounts or management requests moves.
LEMMA StaffKept ==
  ASSUME StaffInv, UNCHANGED <<status, role, admin>>
  PROVE  StaffInv'
  BY DEF StaffInv, SuperadminRemains, Vouched, ActiveSuperadmins, OthersRemain

\* The only slot is idle, or was just given back.
LEMMA StaffAnswered ==
  ASSUME OneAtATime, NEW m \in Managers, SuperadminRemains',
         admin' = [admin EXCEPT ![m] = IdleAdmin], TypeOK
  PROVE  StaffInv'
  <1>1. admin'[m] = IdleAdmin BY DEF TypeOK, UsersTypeOK
  <1>2. \A n \in Managers : n = m BY DEF OneAtATime
  <1>3. QED BY <1>1, <1>2 DEF StaffInv, Vouched, IdleAdmin

LEMMA StaffStart ==
  ASSUME TypeOK, StaffInv, OneAtATime, NEW m \in Managers, ManagerStart(m)
  PROVE  StaffInv'
  <1>1. /\ admin \in [Managers -> AdminFrame] /\ \A n \in Managers : n = m
        /\ role \in [Users -> Roles \cup {NoRole}] /\ status \in [Users -> Statuses]
    BY DEF TypeOK, UsersTypeOK, TablesTypeOK, OneAtATime
  <1>2. CASE ManagerRejected(m)
    BY <1>2, StaffKept DEF ManagerRejected, tables, usersVars
  <1>3. ASSUME UNCHANGED <<status, role>>, NEW label \in AdminPCs, NEW u \in Users,
               NEW r, NEW dto, Admit(m, label, u, r, dto),
               label \in {"countUpdate", "write"} => r = role[u],
               label = "write" => ~LosesSuperadmin(r, dto),
               label = "delete" => role[u] # "SUPERADMIN"
        PROVE  StaffInv'
    <2>1. admin'[m] = [pc |-> label, target |-> u, seen |-> r, dto |-> dto]
      BY <1>1, <1>3 DEF Admit
    <2>2. SuperadminRemains'
      BY <1>3 DEF StaffInv, SuperadminRemains, ActiveSuperadmins
    <2>3. QED BY <1>1, <1>3, <2>1, <2>2 DEF StaffInv, Vouched
  <1>4. ASSUME NEW a \in Users, OwnPasswordFind(m, a) PROVE StaffInv'
    BY <1>3, <1>4 DEF OwnPasswordFind, tables, AdminPCs
  <1>5. ASSUME NEW a \in Users, NEW u \in Users, SetPassword(m, a, u) PROVE StaffInv'
    BY <1>3, <1>5 DEF SetPassword, StorePassword, AdminPCs
  <1>6. ASSUME NEW a \in Users, NEW u \in Users, RemoveFind(m, a, u) PROVE StaffInv'
    BY <1>3, <1>6 DEF RemoveFind, tables, AdminPCs
  <1>7. ASSUME NEW a \in Users, NEW u \in Users, NEW dto \in Dtos,
               UpdateFind(m, a, u, dto)
        PROVE  StaffInv'
    BY <1>3, <1>7 DEF UpdateFind, tables, AdminPCs
  <1>8. ASSUME NEW a \in Users, NEW u \in Users, NEW r \in Roles, NEW flag \in Flags,
               CreateUser(m, a, u, r, flag)
        PROVE  StaffInv'
    <2>1. /\ status[u] = "none" /\ admin' = admin /\ admin[m].pc = "idle"
          /\ \A v \in Users \ {u} : status'[v] = status[v] /\ role'[v] = role[v]
      BY <1>1, <1>8 DEF CreateUser, Free
    <2>2. ActiveSuperadmins \subseteq ActiveSuperadmins'
      BY <2>1 DEF ActiveSuperadmins
    <2>3. QED
      BY <1>1, <2>1, <2>2 DEF StaffInv, SuperadminRemains, Vouched
  <1>9. QED BY <1>2, <1>4, <1>5, <1>6, <1>7, <1>8 DEF ManagerStart

LEMMA StaffWrite ==
  ASSUME TypeOK, StaffInv, OneAtATime, NEW m \in Managers, UpdateWrite(m)
  PROVE  SuperadminRemains'
  <1> DEFINE f == admin[m]
             u == f.target
  <1>1. /\ u \in Users /\ f.seen = role[u] /\ f.pc = "write"
        /\ f.dto \in Dtos
        /\ LosesSuperadmin(f.seen, f.dto) => OthersRemain(u)
        /\ role \in [Users -> Roles \cup {NoRole}] /\ status \in [Users -> Statuses]
    BY DEF UpdateWrite, StaffInv, Vouched, TypeOK, UsersTypeOK, AdminFrame, TablesTypeOK
  <1>2. \A v \in Users \ {u} : status'[v] = status[v] /\ role'[v] = role[v]
    BY <1>1 DEF UpdateWrite
  <1>3. CASE OthersRemain(u)
    BY <1>2, <1>3 DEF OthersRemain, SuperadminRemains, ActiveSuperadmins
  <1>4. CASE ~OthersRemain(u)
    <2>1. u \in ActiveSuperadmins /\ ~LosesSuperadmin(f.seen, f.dto)
      BY <1>1, <1>4 DEF StaffInv, SuperadminRemains, OthersRemain, ActiveSuperadmins
    <2>2. f.dto.role \in {NoRole, "SUPERADMIN"} /\ f.dto.isActive # "false"
      BY <1>1, <2>1 DEF LosesSuperadmin, ActiveSuperadmins
    <2>3. /\ Given(f.dto.role, role[u]) = "SUPERADMIN"
          /\ Switched(f.dto.isActive, status[u]) = "active"
      BY <1>1, <2>1, <2>2 DEF Given, Switched, ActiveSuperadmins, Dtos, Flags
    <2>4. role'[u] = "SUPERADMIN" /\ status'[u] = "active"
      BY <1>1, <2>1, <2>3 DEF UpdateWrite, Exists, ActiveSuperadmins
    <2>5. QED BY <1>1, <2>4 DEF SuperadminRemains, ActiveSuperadmins
  <1>5. QED BY <1>3, <1>4

LEMMA StaffStep ==
  ASSUME TypeOK, StaffInv, OneAtATime, NEW m \in Managers, ManagerStep(m)
  PROVE  StaffInv'
  <1> DEFINE f == admin[m]
             u == f.target
  <1>1. /\ admin \in [Managers -> AdminFrame] /\ \A n \in Managers : n = m
        /\ role \in [Users -> Roles \cup {NoRole}] /\ status \in [Users -> Statuses]
        /\ f.pc # "idle" => u \in Users
    BY DEF TypeOK, UsersTypeOK, TablesTypeOK, OneAtATime
  <1>2. UNCHANGED <<status, role>> => SuperadminRemains'
    BY DEF StaffInv, SuperadminRemains, ActiveSuperadmins
  <1>3. \A label \in AdminPCs : Proceed(m, label) => admin'[m] = [f EXCEPT !.pc = label]
    BY <1>1 DEF Proceed
  <1>4. CASE UpdateCount(m)
    <2>1. CASE OthersRemain(u)
      <3>1. admin'[m] = [f EXCEPT !.pc = "write"] /\ UNCHANGED <<status, role>>
        BY <1>3, <1>4, <2>1 DEF UpdateCount, AdminPCs, tables
      <3>2. admin'[m].pc = "write" /\ admin'[m].target = u
            /\ admin'[m].seen = role[u]
        BY <1>1, <1>4, <3>1 DEF AdminFrame, StaffInv, Vouched, UpdateCount
      <3>3. OthersRemain(u)' BY <2>1, <3>1 DEF OthersRemain, ActiveSuperadmins
      <3>4. QED BY <1>1, <1>2, <2>1, <3>1, <3>2, <3>3 DEF StaffInv, Vouched, OthersRemain, ActiveSuperadmins
    <2>2. CASE ~OthersRemain(u)
      BY <1>2, <1>4, <2>2, StaffAnswered DEF UpdateCount, Answer, tables
    <2>3. QED BY <2>1, <2>2
  <1>5. CASE UpdateWrite(m)
    <2>1. SuperadminRemains' BY <1>5, StaffWrite
    <2>2. CASE Answer(m) BY <2>1, <2>2, StaffAnswered DEF Answer
    <2>3. CASE Proceed(m, "revoke")
      <3>1. admin'[m].pc = "revoke" BY <1>1, <1>3, <2>3 DEF AdminPCs, AdminFrame
      <3>2. QED BY <1>1, <2>1, <3>1 DEF StaffInv, Vouched
    <2>4. QED BY <1>5, <2>2, <2>3 DEF UpdateWrite
  <1>6. CASE RevokeTarget(m)
    BY <1>2, <1>6, StaffAnswered DEF RevokeTarget, Answer
  <1>7. CASE OwnPasswordWrite(m)
    <2>1. SuperadminRemains'
      BY <1>2, <1>7 DEF OwnPasswordWrite, StorePassword, tables
    <2>2. CASE Answer(m) BY <2>1, <2>2, StaffAnswered DEF Answer
    <2>3. CASE Proceed(m, "revoke")
      <3>1. admin'[m].pc = "revoke" BY <1>1, <1>3, <2>3 DEF AdminPCs, AdminFrame
      <3>2. QED BY <1>1, <2>1, <3>1 DEF StaffInv, Vouched
    <2>4. QED BY <1>7, <2>2, <2>3 DEF OwnPasswordWrite
  <1>8. CASE RemoveCount(m)
    <2>1. CASE OthersRemain(u)
      <3>1. admin'[m] = [f EXCEPT !.pc = "delete"] /\ UNCHANGED <<status, role>>
        BY <1>3, <1>8, <2>1 DEF RemoveCount, AdminPCs, tables
      <3>2. admin'[m].pc = "delete" /\ admin'[m].target = u
        BY <1>1, <3>1 DEF AdminFrame
      <3>3. QED
        BY <1>1, <1>2, <2>1, <3>1, <3>2
        DEF StaffInv, Vouched, OthersRemain, ActiveSuperadmins
    <2>2. CASE ~OthersRemain(u)
      BY <1>2, <1>8, <2>2, StaffAnswered DEF RemoveCount, Answer, tables
    <2>3. QED BY <2>1, <2>2
  <1>9. CASE RemoveDelete(m)
    <2>1. /\ \A v \in Users \ {u} : status'[v] = status[v]
          /\ role' = role /\ Answer(m)
      BY <1>1, <1>9 DEF RemoveDelete
    <2>2. \E v \in ActiveSuperadmins : v # u
      BY <1>9 DEF RemoveDelete, StaffInv, Vouched, SuperadminRemains, OthersRemain,
                  ActiveSuperadmins
    <2>3. SuperadminRemains'
      BY <2>1, <2>2 DEF SuperadminRemains, ActiveSuperadmins
    <2>4. QED BY <2>1, <2>3, StaffAnswered DEF Answer
  <1>10. QED
    BY <1>4, <1>5, <1>6, <1>7, <1>8, <1>9 DEF ManagerStep

LEMMA StaffNext ==
  TypeOK /\ StaffInv /\ OneAtATime /\ [Next]_vars => StaffInv'
  <1> SUFFICES ASSUME TypeOK, StaffInv, OneAtATime, [Next]_vars PROVE StaffInv'
    OBVIOUS
  <1>1. ASSUME NEW m \in Managers, ManagerAction(m) PROVE StaffInv'
    BY <1>1, StaffStep, StaffStart DEF ManagerAction
  <1>2. ASSUME NEW m \in Managers, AbortManager(m) PROVE StaffInv'
    <2>1. SuperadminRemains'
      BY <1>2 DEF AbortManager, StaffInv, SuperadminRemains, ActiveSuperadmins
    <2>2. QED BY <1>2, <2>1, StaffAnswered DEF AbortManager, Answer
  <1>3. CASE UNCHANGED <<status, role, admin>> BY <1>3, StaffKept
  <1>4. ASSUME NEW c \in Callers, CallerAction(c) PROVE StaffInv'
    BY <1>4, StaffKept
    DEF CallerAction, CallerStep, CallerStart, LoginTouch, IssueCreate, IssueLink,
        IssuePrune, Reply, RefreshClaim, RefreshRevokeAll, LoginRejected, LoginFind,
        RefreshFind, RefreshReused, RefreshRejected, Logout, tables, usersVars
  <1>5. QED
    BY <1>1, <1>2, <1>3, <1>4
    DEF Next, AbortCaller, Expire, ExpireAccess, vars, tables, usersVars

(***************************************************************************)
(* With one management request in flight at a time there is always an      *)
(* active superadmin, whatever the accounts and the requests.              *)
(***************************************************************************)
THEOREM SuperadminAlwaysRemains == OneAtATime /\ Spec => []SuperadminRemains
  <1> SUFFICES ASSUME OneAtATime PROVE Spec => []SuperadminRemains
    OBVIOUS
  <1>1. TypeOK /\ StaffInv /\ [Next]_vars => StaffInv'
    BY StaffNext
  <1>2. StaffInv => SuperadminRemains BY DEF StaffInv
  <1>3. QED BY TypeCorrect, StaffInit, <1>1, <1>2, PTL DEF Spec

=============================================================================
