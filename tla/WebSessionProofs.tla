-------------------------- MODULE WebSessionProofs --------------------------
(***************************************************************************)
(* Theorems about WebSession for any number of API requests, accounts and  *)
(* tokens: the types for any number of pages, the rest for one.            *)
(***************************************************************************)
EXTENDS WebSession, TLAPS

USE WebAssumption

NetType  == [Tabs -> [Kinds -> Exchange]]
CallType == [Tabs -> [Calls -> Request]]
Events   == {"lost", "logouts", "loads", "stale", "replays"}

-----------------------------------------------------------------------------
(* What the updates of one slot of net, call and counts do.                *)

\* Slot k of page w is written and no other.
Only(w, k, slot) ==
  /\ net'[w][k] = slot
  /\ \A v \in Tabs, j \in Kinds : v # w \/ j # k => net'[v][j] = net[v][j]

LEMMA SlotFacts ==
  ASSUME net \in NetType, NEW w \in Tabs, NEW k \in Kinds, NEW slot,
         net' = [net EXCEPT ![w][k] = slot]
  PROVE  /\ Only(w, k, slot)
         /\ slot \in Exchange => net' \in NetType
  <1>1. /\ net'[w] = [net[w] EXCEPT ![k] = slot]
        /\ \A v \in Tabs : v # w => net'[v] = net[v]
        /\ net[w] \in [Kinds -> Exchange]
    BY DEF NetType
  <1>2. Only(w, k, slot) BY <1>1 DEF Only
  <1>3. slot \in Exchange => net' \in NetType BY <1>1 DEF NetType
  <1>4. QED BY <1>2, <1>3

LEMMA RespondFacts ==
  ASSUME net \in NetType, NEW w \in Tabs, NEW k \in Kinds, NEW ok \in BOOLEAN,
         NEW set \in Nat \cup {Keep}, NEW user \in Users \cup {NoUser},
         Respond(w, k, ok, set, user)
  PROVE  /\ \A v \in Tabs, j \in Kinds : v # w \/ j # k => net'[v][j] = net[v][j]
         /\ net'[w][k].phase = "back" /\ net'[w][k].ok = ok /\ net'[w][k].set = set
         /\ net'[w][k].user = user /\ net'[w][k].presented = net[w][k].presented
         /\ net' \in NetType
  <1> DEFINE slot == [net[w][k] EXCEPT !.phase = "back", !.ok = ok, !.set = set,
                                       !.user = user]
  <1>1. net[w][k] \in Exchange BY DEF NetType
  <1>2. net' = [net EXCEPT ![w][k] = slot] BY DEF Respond
  <1>3. slot \in Exchange BY <1>1 DEF Exchange
  <1>4. /\ slot.phase = "back" /\ slot.ok = ok /\ slot.set = set /\ slot.user = user
        /\ slot.presented = net[w][k].presented
    BY <1>1 DEF Exchange
  <1> HIDE DEF slot
  <1>5. Only(w, k, slot) /\ net' \in NetType BY <1>2, <1>3, SlotFacts
  <1>6. QED BY <1>4, <1>5 DEF Only, slot

LEMMA TokenFacts ==
  ASSUME TypeOK
  PROVE  /\ Tokens = 1 .. Len(issued) /\ Len(issued) \in Nat /\ Tokens \subseteq Nat
         /\ NoCookie \notin Tokens /\ Keep \notin Tokens /\ Keep # NoCookie
         /\ Len(issued) + 1 \notin Tokens /\ Len(issued) + 1 \in Nat
         /\ \A t \in Tokens : issued[t] \in Users
  <1>1. issued \in Seq(Users) BY DEF TypeOK
  <1>2. QED BY <1>1 DEF Tokens, NoCookie, Keep

LEMMA SentFacts ==
  ASSUME TypeOK, NEW user \in Users \cup {NoUser}
  PROVE  /\ Sent(user) \in Exchange /\ Sent(user).phase = "sent"
         /\ Sent(user).presented = cookie /\ Sent(user).user = user
         /\ Sent(user).set = Keep /\ ~Sent(user).ok
         /\ ~Silent.ok /\ Silent \in Exchange /\ Silent.phase = "none"
         /\ Silent.presented = NoCookie /\ Silent.set = Keep
  <1>1. cookie \in Nat
    <2>1. Tokens \subseteq Nat BY TokenFacts
    <2>2. QED BY <2>1 DEF TypeOK, NoCookie
  <1>2. QED BY <1>1 DEF Sent, Silent, Exchange, NoCookie, Keep

LEMMA CountFacts ==
  ASSUME TypeOK, NEW event \in Events, Count(event)
  PROVE  /\ counts' \in [Events -> Nat] /\ counts'[event] # 0
         /\ \A e \in Events : e # event => counts'[e] = counts[e]
  BY DEF TypeOK, Count, Events

LEMMA CallFacts ==
  ASSUME call \in CallType, NEW w \in Tabs, NEW i \in Calls, NEW r \in Request,
         call' = [call EXCEPT ![w][i] = r]
  PROVE  /\ call' \in CallType /\ call'[w][i] = r
         /\ \A v \in Tabs, j \in Calls : v # w \/ j # i => call'[v][j] = call[v][j]
  <1>1. /\ call'[w] = [call[w] EXCEPT ![i] = r]
        /\ \A v \in Tabs : v # w => call'[v] = call[v]
        /\ call[w] \in [Calls -> Request]
    BY DEF CallType
  <1>2. QED BY <1>1 DEF CallType

LEMMA RowFacts ==
  ASSUME call \in CallType, NEW w \in Tabs, NEW f \in [Calls -> Request],
         call' = [call EXCEPT ![w] = f]
  PROVE  /\ call' \in CallType /\ \A i \in Calls : call'[w][i] = f[i]
         /\ \A v \in Tabs \ {w}, j \in Calls : call'[v][j] = call[v][j]
  BY DEF CallType

-----------------------------------------------------------------------------
(* Types.  A refresh is in flight exactly while somebody waits for it.     *)

\* A good access token names its account.
Named ==
  \A w \in Tabs : /\ tab[w].fresh => tab[w].access \in Users
                  /\ \A i \in Calls : call[w][i].good => call[w][i].user \in Users

Waits(w) == tab[w].state = "loading" \/ \E i \in Calls : call[w][i].phase = "waiting"

LEMMA InitType == Init => TypeOK
  <1> SUFFICES ASSUME Init PROVE TypeOK
    OBVIOUS
  <1>1. issued \in Seq(Users) /\ (issued = << >> \/ \E u \in Users : issued = <<u>>)
    <2>1. CASE issued = << >> BY <2>1
    <2>2. ASSUME NEW u \in Users, issued = <<u>> PROVE issued \in Seq(Users)
      BY <2>2
    <2>3. QED BY <2>1, <2>2 DEF Init
  <1>2. Tokens = 1 .. Len(issued) /\ Len(issued) \in {0, 1}
    BY <1>1 DEF Tokens
  <1>3. live \subseteq Tokens /\ expired \subseteq Tokens /\ cookie \in Tokens \cup {NoCookie}
    BY <1>2 DEF Init, NoCookie
  <1>4. Silent \in Exchange /\ Silent.phase = "none" /\ Silent.presented = NoCookie
        /\ Silent.set = Keep /\ ~Silent.ok
    BY DEF Silent, Exchange, NoCookie, Keep
  <1>5. Blank \in Page /\ Blank.state # "loading" /\ ~Blank.fresh
        /\ NoCall \in Request /\ NoCall.phase # "waiting" /\ ~NoCall.good
    BY DEF Blank, Page, NoCall, Request
  <1>6. \A w \in Tabs : tab[w] = Blank /\ net[w] = [k \in Kinds |-> Silent]
    BY DEF Init
  <1>7. \A w \in Tabs, k \in Kinds : net[w][k] = Silent BY <1>6
  <1>8. \A w \in Tabs, i \in Calls : call[w][i] = NoCall BY DEF Init
  <1>9. "refresh" \in Kinds /\ "login" \in Kinds BY DEF Kinds
  <1>10. /\ tab \in [Tabs -> Page] /\ net \in [Tabs -> [Kinds -> Exchange]]
         /\ call \in [Tabs -> [Calls -> Request]]
         /\ counts \in [{"lost", "logouts", "loads", "stale", "replays"} -> Nat]
    BY <1>4, <1>5 DEF Init
  <1>11. QED
    BY <1>1, <1>3, <1>4, <1>5, <1>6, <1>7, <1>8, <1>9, <1>10 DEF TypeOK

\* An answer is written into a slot that waits for one; the page sees nothing.
LEMMA RespondType ==
  ASSUME TypeOK, NEW w \in Tabs, NEW k \in Kinds, NEW ok \in BOOLEAN,
         NEW set \in Tokens' \cup {NoCookie, Keep}, NEW user \in Users \cup {NoUser},
         Respond(w, k, ok, set, user), net[w][k].phase # "none",
         ok /\ k # "logout" => user \in Users,
         Tokens \subseteq Tokens', issued' \in Seq(Users), live' \subseteq Tokens',
         expired' \subseteq Tokens', UNCHANGED <<cookie, tab, call>>,
         counts' \in [Events -> Nat]
  PROVE  TypeOK'
  <1>1. net \in NetType /\ "refresh" \in Kinds /\ "login" \in Kinds
    BY DEF TypeOK, NetType, Kinds
  <1>2. Tokens' \subseteq Nat BY DEF Tokens
  <1>3. set \in Nat \cup {Keep} BY <1>2 DEF NoCookie
  <1>4. /\ \A v \in Tabs, j \in Kinds : v # w \/ j # k => net'[v][j] = net[v][j]
        /\ net'[w][k].phase = "back" /\ net'[w][k].set = set
        /\ net'[w][k].ok = ok /\ net'[w][k].user = user
        /\ net'[w][k].presented = net[w][k].presented
        /\ net' \in NetType
    BY <1>1, <1>3, RespondFacts
  <1>5. (\A v \in Tabs, j \in Kinds : /\ net[v][j].presented \in Tokens \cup {NoCookie}
                                      /\ net[v][j].set \in Tokens \cup {NoCookie, Keep})'
    BY <1>4 DEF TypeOK
  <1>6. (\A v \in Tabs :
           /\ net[v]["login"].phase = "sent" => net[v]["login"].user \in Users
           /\ \A j \in {"refresh", "login"} : net[v][j].ok => net[v][j].user \in Users)'
    BY <1>1, <1>4 DEF TypeOK
  <1>7. \A v \in Tabs : net'[v]["refresh"].phase # "none" <=> net[v]["refresh"].phase # "none"
    BY <1>1, <1>4
  <1>8. (\A v \in Tabs : (tab[v].state = "loading"
                            \/ \E i \in Calls : call[v][i].phase = "waiting")
                           <=> net[v]["refresh"].phase # "none")'
    BY <1>7 DEF TypeOK
  <1>9. Named' BY DEF TypeOK, Named
  <1>10. QED BY <1>4, <1>5, <1>6, <1>8, <1>9 DEF TypeOK, NetType, Events, Named

\* A request is put into a free slot, or an answer is taken out of one.
LEMMA SlotType ==
  ASSUME TypeOK, NEW w \in Tabs, NEW k \in Kinds,
         NEW slot \in Exchange, net' = [net EXCEPT ![w][k] = slot],
         slot.presented \in Tokens \cup {NoCookie}, slot.set = Keep, ~slot.ok,
         k = "login" /\ slot.phase = "sent" => slot.user \in Users,
         UNCHANGED <<issued, live, expired>>, cookie' \in Tokens \cup {NoCookie},
         tab' \in [Tabs -> Page], call' \in CallType, Named',
         counts' \in [Events -> Nat],
         \A v \in Tabs : v # w => (Waits(v)' <=> Waits(v)),
         k # "refresh" => (Waits(w)' <=> Waits(w)),
         k = "refresh" => (Waits(w)' <=> slot.phase # "none")
  PROVE  TypeOK'
  <1>1. net \in NetType /\ "refresh" \in Kinds /\ "login" \in Kinds /\ Tokens' = Tokens
    BY DEF TypeOK, NetType, Kinds, Tokens
  <1>2. net' \in NetType /\ Only(w, k, slot) BY <1>1, SlotFacts
  <1>3. (\A v \in Tabs, j \in Kinds : /\ net[v][j].presented \in Tokens \cup {NoCookie}
                                      /\ net[v][j].set \in Tokens \cup {NoCookie, Keep})'
    BY <1>1, <1>2 DEF TypeOK, Only
  <1>4. (\A v \in Tabs :
           /\ net[v]["login"].phase = "sent" => net[v]["login"].user \in Users
           /\ \A j \in {"refresh", "login"} : net[v][j].ok => net[v][j].user \in Users)'
    BY <1>1, <1>2 DEF TypeOK, Only
  <1>5. ASSUME NEW v \in Tabs PROVE Waits(v)' <=> net'[v]["refresh"].phase # "none"
    <2>1. Waits(v) <=> net[v]["refresh"].phase # "none" BY DEF TypeOK, Waits
    <2>2. QED BY <1>1, <1>2, <2>1 DEF Only
  <1>6. issued' \in Seq(Users) /\ live' \subseteq Tokens' /\ expired' \subseteq Tokens'
    BY <1>1 DEF TypeOK
  <1>7. QED
    BY <1>1, <1>2, <1>3, <1>4, <1>5, <1>6
    DEF TypeOK, NetType, CallType, Events, Waits, Named

\* No request is sent or received: who waits goes on waiting.
LEMMA PageType ==
  ASSUME TypeOK, UNCHANGED <<issued, net>>, live' \subseteq Tokens, expired' \subseteq Tokens,
         cookie' = cookie, tab' \in [Tabs -> Page], call' \in CallType, Named',
         counts' \in [Events -> Nat], \A v \in Tabs : Waits(v)' <=> Waits(v)
  PROVE  TypeOK'
  <1>1. Tokens' = Tokens BY DEF Tokens
  <1>2. \A v \in Tabs : Waits(v)' <=> net'[v]["refresh"].phase # "none"
    BY DEF TypeOK, Waits
  <1>3. issued' \in Seq(Users) /\ live' \subseteq Tokens' /\ expired' \subseteq Tokens'
        /\ cookie' \in Tokens' \cup {NoCookie} /\ net' \in [Tabs -> [Kinds -> Exchange]]
    BY <1>1 DEF TypeOK
  <1>4. (\A v \in Tabs, j \in Kinds : /\ net[v][j].presented \in Tokens \cup {NoCookie}
                                      /\ net[v][j].set \in Tokens \cup {NoCookie, Keep})'
    BY <1>1 DEF TypeOK
  <1>5. (\A v \in Tabs :
           /\ net[v]["login"].phase = "sent" => net[v]["login"].user \in Users
           /\ \A j \in {"refresh", "login"} : net[v][j].ok => net[v][j].user \in Users)'
    BY DEF TypeOK
  <1>6. QED BY <1>2, <1>3, <1>4, <1>5 DEF TypeOK, CallType, Events, Waits, Named

LEMMA TabFacts ==
  ASSUME TypeOK, NEW w \in Tabs, NEW page \in Page, tab' = [tab EXCEPT ![w] = page]
  PROVE  /\ tab' \in [Tabs -> Page] /\ tab'[w] = page
         /\ \A v \in Tabs : v # w => tab'[v] = tab[v]
  BY DEF TypeOK

\* What an answer makes of a page.
LEMMA Pages ==
  ASSUME NEW page \in Page, NEW u \in Users \cup {NoUser}, NEW c \in SUBSET Users
  PROVE  /\ SignedIn(page, u) \in Page
         /\ SignedIn(page, u).state = page.state /\ SignedIn(page, u).user = u
         /\ SignedIn(page, u).access = u
         /\ [SignedIn(page, u) EXCEPT !.state = "ready"] \in Page
         /\ [SignedIn(page, u) EXCEPT !.state = "ready"].state = "ready"
         /\ [SignedIn(page, u) EXCEPT !.state = "ready"].user = u
         /\ [SignedIn(page, u) EXCEPT !.state = "ready"].access = u
         /\ [SignedIn(page, u) EXCEPT !.cached = {}] \in Page
         /\ [SignedIn(page, u) EXCEPT !.cached = {}].state = page.state
         /\ [SignedIn(page, u) EXCEPT !.cached = {}].user = u
         /\ [SignedIn(page, u) EXCEPT !.cached = {}].access = u
         /\ EndSession(page) \in Page /\ EndSession(page).user = NoUser
         /\ EndSession(page).state = page.state /\ ~EndSession(page).fresh
         /\ [EndSession(page) EXCEPT !.state = "ready", !.cached = c] \in Page
         /\ [EndSession(page) EXCEPT !.state = "ready", !.cached = c].state = "ready"
         /\ [EndSession(page) EXCEPT !.state = "ready", !.cached = c].user = NoUser
         /\ ~[EndSession(page) EXCEPT !.state = "ready", !.cached = c].fresh
         /\ [page EXCEPT !.cached = c] \in Page
         /\ [page EXCEPT !.cached = c].state = page.state
         /\ [page EXCEPT !.cached = c].user = page.user
         /\ [page EXCEPT !.cached = c].fresh = page.fresh
         /\ [page EXCEPT !.cached = c].access = page.access
         /\ [page EXCEPT !.fresh = FALSE] \in Page
         /\ [page EXCEPT !.fresh = FALSE].state = page.state
         /\ [page EXCEPT !.fresh = FALSE].user = page.user
         /\ ~[page EXCEPT !.fresh = FALSE].fresh
  BY DEF Page, SignedIn, EndSession

LEMMA FreshPage ==
  LET page == [Blank EXCEPT !.state = "loading"]
  IN page \in Page /\ page.state = "loading" /\ page.user = NoUser /\ ~page.fresh
  BY DEF Page, Blank

LEMMA DroppedFacts ==
  ASSUME TypeOK, NEW w \in Tabs
  PROVE  /\ Dropped(w) \in [Calls -> Request]
         /\ \A i \in Calls : /\ Dropped(w)[i].phase = call[w][i].phase
                            /\ Dropped(w)[i].good = call[w][i].good
                            /\ Dropped(w)[i].user = call[w][i].user
  <1>1. \A i \in Calls : call[w][i] \in Request BY DEF TypeOK
  <1>2. \A i \in Calls : /\ [call[w][i] EXCEPT !.kept = FALSE] \in Request
                         /\ [call[w][i] EXCEPT !.kept = FALSE].phase = call[w][i].phase
                         /\ [call[w][i] EXCEPT !.kept = FALSE].good = call[w][i].good
                         /\ [call[w][i] EXCEPT !.kept = FALSE].user = call[w][i].user
    BY <1>1 DEF Request
  <1>3. QED BY <1>2 DEF Dropped

-----------------------------------------------------------------------------
(* Every step keeps the types.                                             *)

LEMMA LoadType ==
  ASSUME TypeOK, NEW w \in Tabs, Load(w) PROVE TypeOK'
  <1> DEFINE page == [Blank EXCEPT !.state = "loading"]
             slot == Sent(NoUser)
  <1>1. /\ "refresh" \in Kinds /\ slot \in Exchange /\ slot.phase = "sent" /\ slot.set = Keep
        /\ ~slot.ok /\ slot.presented \in Tokens \cup {NoCookie}
    BY SentFacts DEF TypeOK, Kinds
  <1>2. page \in Page /\ page.state = "loading" /\ ~page.fresh BY FreshPage
  <1>3. /\ net' = [net EXCEPT ![w]["refresh"] = slot] /\ tab' = [tab EXCEPT ![w] = page]
        /\ UNCHANGED <<issued, live, expired, cookie, call>> /\ Count("loads")
    BY <1>1 DEF Load, RefreshOnce
  <1> HIDE DEF page, slot
  <1>4. /\ tab' \in [Tabs -> Page] /\ tab'[w] = page
        /\ \A v \in Tabs : v # w => tab'[v] = tab[v]
    BY <1>2, <1>3, TabFacts
  <1>5. Waits(w)' /\ (\A v \in Tabs : v # w => (Waits(v)' <=> Waits(v)))
    BY <1>2, <1>3, <1>4 DEF Waits
  <1>6. Named' BY <1>2, <1>3, <1>4 DEF Named, TypeOK
  <1>7. /\ cookie' \in Tokens \cup {NoCookie} /\ call' \in CallType
        /\ counts' \in [Events -> Nat]
    BY <1>3, CountFacts DEF TypeOK, CallType, Events
  <1>8. QED BY <1>1, <1>3, <1>4, <1>5, <1>6, <1>7, SlotType

LEMMA StartLoginType ==
  ASSUME TypeOK, NEW w \in Tabs, NEW u \in Users, StartLogin(w, u) PROVE TypeOK'
  <1> DEFINE slot == Sent(u)
  <1>1. /\ "login" \in Kinds /\ slot \in Exchange /\ slot.phase = "sent" /\ slot.set = Keep
        /\ ~slot.ok /\ slot.presented \in Tokens \cup {NoCookie} /\ slot.user = u
    BY SentFacts DEF TypeOK, Kinds
  <1>2. /\ net' = [net EXCEPT ![w]["login"] = slot]
        /\ UNCHANGED <<issued, live, expired, cookie, tab, call, counts>>
    BY DEF StartLogin
  <1> HIDE DEF slot
  <1>3. \A v \in Tabs : Waits(v)' <=> Waits(v) BY <1>2 DEF Waits
  <1>4. Named' BY <1>2 DEF Named, TypeOK
  <1>5. /\ cookie' \in Tokens \cup {NoCookie} /\ call' \in CallType
        /\ tab' \in [Tabs -> Page] /\ counts' \in [Events -> Nat]
    BY <1>2 DEF TypeOK, CallType, Events
  <1>6. QED BY <1>1, <1>2, <1>3, <1>4, <1>5, SlotType

LEMMA StartLogoutType ==
  ASSUME TypeOK, NEW w \in Tabs, StartLogout(w) PROVE TypeOK'
  <1> DEFINE slot == Sent(NoUser)
  <1>1. /\ "logout" \in Kinds /\ slot \in Exchange /\ slot.phase = "sent" /\ slot.set = Keep
        /\ ~slot.ok /\ slot.presented \in Tokens \cup {NoCookie}
    BY SentFacts DEF TypeOK, Kinds
  <1>2. /\ net' = [net EXCEPT ![w]["logout"] = slot] /\ Count("logouts")
        /\ UNCHANGED <<issued, live, expired, cookie, tab, call>>
    BY DEF StartLogout
  <1> HIDE DEF slot
  <1>3. \A v \in Tabs : Waits(v)' <=> Waits(v) BY <1>2 DEF Waits
  <1>4. Named' BY <1>2 DEF Named, TypeOK
  <1>5. /\ cookie' \in Tokens \cup {NoCookie} /\ call' \in CallType
        /\ tab' \in [Tabs -> Page] /\ counts' \in [Events -> Nat]
    BY <1>2, CountFacts DEF TypeOK, CallType, Events
  <1>6. QED BY <1>1, <1>2, <1>3, <1>4, <1>5, SlotType

LEMMA StartCallType ==
  ASSUME TypeOK, NEW w \in Tabs, NEW i \in Calls, StartCall(w, i) PROVE TypeOK'
  <1> DEFINE r == [phase |-> "sent", good |-> tab[w].fresh, user |-> tab[w].access,
                   kept |-> TRUE]
  <1>1. tab[w] \in Page /\ (tab[w].fresh => tab[w].access \in Users) BY DEF TypeOK
  <1>2. r \in Request /\ r.phase = "sent" /\ (r.good => r.user \in Users)
    BY <1>1 DEF Page, Request
  <1>3. /\ call' = [call EXCEPT ![w][i] = r] /\ call[w][i].phase = "idle"
        /\ UNCHANGED <<issued, live, expired, cookie, tab, net, counts>>
    BY DEF StartCall
  <1> HIDE DEF r
  <1>4. call \in CallType BY DEF TypeOK, CallType
  <1>5. /\ call' \in CallType /\ call'[w][i] = r
        /\ \A v \in Tabs, j \in Calls : v # w \/ j # i => call'[v][j] = call[v][j]
    BY <1>2, <1>3, <1>4, CallFacts
  <1>6. \A v \in Tabs : Waits(v)' <=> Waits(v) BY <1>2, <1>3, <1>5 DEF Waits
  <1>7. Named' BY <1>2, <1>3, <1>5 DEF Named, TypeOK
  <1>8. /\ live' \subseteq Tokens /\ expired' \subseteq Tokens
        /\ tab' \in [Tabs -> Page] /\ counts' \in [Events -> Nat]
    BY <1>3 DEF TypeOK, Events
  <1>9. QED BY <1>3, <1>5, <1>6, <1>7, <1>8, PageType

LEMMA AccessExpiresType ==
  ASSUME TypeOK, NEW w \in Tabs, AccessExpires(w) PROVE TypeOK'
  <1> DEFINE page == [tab[w] EXCEPT !.fresh = FALSE]
             f == [i \in Calls |-> [call[w][i] EXCEPT !.good = FALSE]]
  <1>1. tab[w] \in Page /\ call \in CallType BY DEF TypeOK, CallType
  <1>2. page \in Page /\ page.state = tab[w].state /\ ~page.fresh
    BY <1>1 DEF Page
  <1>3. \A i \in Calls : call[w][i] \in Request BY DEF TypeOK
  <1>4. \A i \in Calls : /\ [call[w][i] EXCEPT !.good = FALSE] \in Request
                         /\ [call[w][i] EXCEPT !.good = FALSE].phase = call[w][i].phase
                         /\ ~[call[w][i] EXCEPT !.good = FALSE].good
    BY <1>3 DEF Request
  <1>5. f \in [Calls -> Request] /\ \A i \in Calls : f[i].phase = call[w][i].phase /\ ~f[i].good
    BY <1>4
  <1>6. /\ tab' = [tab EXCEPT ![w] = page] /\ call' = [call EXCEPT ![w] = f]
        /\ UNCHANGED <<issued, live, expired, cookie, net>> /\ Count("stale")
    BY <1>1 DEF AccessExpires, CallType, TypeOK
  <1> HIDE DEF page, f
  <1>7. /\ tab' \in [Tabs -> Page] /\ tab'[w] = page
        /\ \A v \in Tabs : v # w => tab'[v] = tab[v]
    BY <1>2, <1>6, TabFacts
  <1>8. /\ call' \in CallType /\ \A i \in Calls : call'[w][i] = f[i]
        /\ \A v \in Tabs \ {w}, j \in Calls : call'[v][j] = call[v][j]
    BY <1>1, <1>5, <1>6, RowFacts
  <1>9. \A v \in Tabs : Waits(v)' <=> Waits(v) BY <1>2, <1>5, <1>7, <1>8 DEF Waits
  <1>10. Named' BY <1>2, <1>5, <1>7, <1>8 DEF Named, TypeOK
  <1>11. counts' \in [Events -> Nat] BY <1>6, CountFacts DEF Events
  <1>12. live' \subseteq Tokens /\ expired' \subseteq Tokens BY <1>6 DEF TypeOK
  <1>13. QED BY <1>6, <1>7, <1>8, <1>9, <1>10, <1>11, <1>12, PageType


LEMMA ApiAnswersType ==
  ASSUME TypeOK, NEW w \in Tabs, NEW i \in Calls, ApiAnswers(w, i) PROVE TypeOK'
  <1> DEFINE r == call[w][i]
  <1>1. /\ tab[w] \in Page /\ r \in Request /\ call \in CallType
        /\ r.good => r.user \in Users
    BY DEF TypeOK, CallType
  <1>2. NoCall \in Request /\ NoCall.phase = "idle" /\ ~NoCall.good
    BY DEF NoCall, Request
  <1>3. UNCHANGED <<issued, live, expired, cookie, counts>> BY DEF ApiAnswers
  <1>4. /\ live' \subseteq Tokens /\ expired' \subseteq Tokens
        /\ counts' \in [Events -> Nat] /\ cookie' \in Tokens \cup {NoCookie}
    BY <1>3 DEF TypeOK, Events
  <1>5. CASE r.phase \in {"sent", "again"} /\ r.good
    <2> DEFINE c == IF r.kept THEN tab[w].cached \cup {r.user} ELSE tab[w].cached
               page == [tab[w] EXCEPT !.cached = c]
    <2>1. c \in SUBSET Users BY <1>1, <1>5 DEF Page
    <2>2. page \in Page /\ page.state = tab[w].state /\ page.fresh = tab[w].fresh
          /\ page.access = tab[w].access
      BY <1>1, <2>1 DEF Page
    <2>3. tab' = [tab EXCEPT ![w] = page] /\ call' = [call EXCEPT ![w][i] = NoCall]
          /\ net' = net
      BY <1>1, <1>5 DEF ApiAnswers, AnswerCall, TypeOK
    <2> HIDE DEF page, c
    <2>4. /\ tab' \in [Tabs -> Page] /\ tab'[w] = page
          /\ \A v \in Tabs : v # w => tab'[v] = tab[v]
      BY <2>2, <2>3, TabFacts
    <2>5. /\ call' \in CallType /\ call'[w][i] = NoCall
          /\ \A v \in Tabs, j \in Calls : v # w \/ j # i => call'[v][j] = call[v][j]
      BY <1>1, <1>2, <2>3, CallFacts
    <2>6. \A v \in Tabs : Waits(v)' <=> Waits(v)
      BY <1>2, <1>5, <2>2, <2>4, <2>5 DEF Waits
    <2>7. Named' BY <1>2, <2>2, <2>4, <2>5 DEF Named, TypeOK
    <2>8. QED BY <1>3, <1>4, <2>3, <2>4, <2>5, <2>6, <2>7, PageType
  <1>6. CASE r.phase = "sent" /\ ~r.good
    <2> DEFINE s == [r EXCEPT !.phase = "waiting"]
               slot == Sent(NoUser)
    <2>1. s \in Request /\ s.phase = "waiting" /\ ~s.good BY <1>1, <1>6 DEF Request
    <2>2. /\ "refresh" \in Kinds /\ slot \in Exchange /\ slot.phase = "sent"
          /\ slot.set = Keep /\ ~slot.ok /\ slot.presented \in Tokens \cup {NoCookie}
      BY SentFacts DEF TypeOK, Kinds
    <2>3. call' = [call EXCEPT ![w][i] = s] /\ net' = RefreshOnce(w) /\ tab' = tab
      BY <1>1, <1>6 DEF ApiAnswers, AnswerCall, CallType
    <2> HIDE DEF s, slot
    <2>4. /\ call' \in CallType /\ call'[w][i] = s
          /\ \A v \in Tabs, j \in Calls : v # w \/ j # i => call'[v][j] = call[v][j]
      BY <1>1, <2>1, <2>3, CallFacts
    <2>5. Waits(w)' /\ (\A v \in Tabs : v # w => (Waits(v)' <=> Waits(v)))
      BY <2>1, <2>3, <2>4 DEF Waits
    <2>6. Named' BY <2>1, <2>3, <2>4 DEF Named, TypeOK
    <2>7. tab' \in [Tabs -> Page] BY <2>3 DEF TypeOK
    <2>8. CASE net[w]["refresh"].phase = "none"
      <3>1. net' = [net EXCEPT ![w]["refresh"] = slot] BY <2>3, <2>8 DEF RefreshOnce, slot
      <3>2. QED BY <1>3, <1>4, <2>2, <2>4, <2>5, <2>6, <2>7, <3>1, SlotType
    <2>9. CASE net[w]["refresh"].phase # "none"
      <3>1. net' = net BY <2>3, <2>9 DEF RefreshOnce
      <3>2. Waits(w) BY <2>9 DEF Waits, TypeOK
      <3>3. \A v \in Tabs : Waits(v)' <=> Waits(v) BY <2>5, <3>2
      <3>4. QED BY <1>3, <1>4, <2>4, <2>6, <2>7, <3>1, <3>3, PageType
    <2>10. QED BY <2>8, <2>9
  <1>7. CASE r.phase = "again" /\ ~r.good
    <2>1. call' = [call EXCEPT ![w][i] = NoCall] /\ UNCHANGED <<tab, net>>
      BY <1>7 DEF ApiAnswers, AnswerCall
    <2>2. /\ call' \in CallType /\ call'[w][i] = NoCall
          /\ \A v \in Tabs, j \in Calls : v # w \/ j # i => call'[v][j] = call[v][j]
      BY <1>1, <1>2, <2>1, CallFacts
    <2>3. \A v \in Tabs : Waits(v)' <=> Waits(v) BY <1>2, <1>7, <2>1, <2>2 DEF Waits
    <2>4. Named' BY <1>2, <2>1, <2>2 DEF Named, TypeOK
    <2>5. tab' \in [Tabs -> Page] BY <2>1 DEF TypeOK
    <2>6. QED BY <1>3, <1>4, <2>1, <2>2, <2>3, <2>4, <2>5, PageType
  <1>8. QED BY <1>5, <1>6, <1>7 DEF ApiAnswers, AnswerCall

LEMMA IssueFacts ==
  ASSUME TypeOK, NEW u \in Users, NEW spent, Issue(u, spent)
  PROVE  /\ issued' \in Seq(Users) /\ Tokens' = Tokens \cup {Len(issued) + 1}
         /\ live' \subseteq Tokens' /\ issued'[Len(issued) + 1] = u
         /\ \A t \in Tokens : issued'[t] = issued[t]
  <1>1. issued \in Seq(Users) /\ issued' = Append(issued, u) BY DEF TypeOK, Issue
  <1>2. /\ Len(issued) \in Nat /\ Tokens = 1 .. Len(issued)
        /\ Tokens' = 1 .. (Len(issued) + 1)
    BY <1>1 DEF Tokens
  <1>3. /\ issued' \in Seq(Users) /\ issued'[Len(issued) + 1] = u
        /\ \A t \in 1 .. Len(issued) : issued'[t] = issued[t]
    BY <1>1
  <1>4. Tokens' = Tokens \cup {Len(issued) + 1} BY <1>2
  <1>5. live' \subseteq Tokens' BY <1>4 DEF TypeOK, Issue
  <1>6. QED BY <1>2, <1>3, <1>4, <1>5

LEMMA ServeRefreshType ==
  ASSUME TypeOK, NEW w \in Tabs, ServeRefresh(w) PROVE TypeOK'
  <1> DEFINE t == net[w]["refresh"].presented
  <1>1. /\ "refresh" \in Kinds /\ net[w]["refresh"].phase # "none"
        /\ UNCHANGED <<cookie, tab, call>>
    BY DEF ServeRefresh, Kinds
  <1>2. issued \in Seq(Users) /\ live \subseteq Tokens /\ expired \subseteq Tokens
        /\ counts \in [Events -> Nat]
    BY DEF TypeOK, Events
  <1>3. CASE t = NoCookie /\ Respond(w, "refresh", FALSE, Keep, NoUser)
             /\ UNCHANGED <<issued, live, expired, counts>>
    <2>1. Tokens' = Tokens BY <1>3 DEF Tokens
    <2>2. QED BY <1>1, <1>2, <1>3, <2>1, RespondType
  <1>4. CASE t \in live /\ Issue(issued[t], {t}) /\ UNCHANGED <<expired, counts>>
             /\ Respond(w, "refresh", TRUE, Len(issued) + 1, issued[t])
    <2>1. issued[t] \in Users BY <1>2, <1>4, TokenFacts
    <2>2. /\ issued' \in Seq(Users) /\ Tokens' = Tokens \cup {Len(issued) + 1}
          /\ live' \subseteq Tokens'
      BY <1>4, <2>1, IssueFacts
    <2>3. expired' \subseteq Tokens' /\ counts' \in [Events -> Nat] BY <1>2, <1>4, <2>2
    <2>4. QED BY <1>1, <1>4, <2>1, <2>2, <2>3, RespondType
  <1>5. CASE Respond(w, "refresh", FALSE, NoCookie, NoUser)
             /\ UNCHANGED <<issued, live, expired, counts>>
    <2>1. Tokens' = Tokens BY <1>5 DEF Tokens
    <2>2. QED BY <1>1, <1>2, <1>5, <2>1, RespondType
  <1>6. CASE /\ live' = {s \in live : issued[s] # issued[t]}
             /\ expired' = {s \in expired : issued[s] # issued[t]}
             /\ Count("replays") /\ issued' = issued
             /\ Respond(w, "refresh", FALSE, NoCookie, NoUser)
    <2>1. Tokens' = Tokens BY <1>6 DEF Tokens
    <2>2. live' \subseteq Tokens' /\ expired' \subseteq Tokens' BY <1>2, <1>6, <2>1
    <2>3. counts' \in [Events -> Nat] BY <1>6, CountFacts DEF Events
    <2>4. QED BY <1>1, <1>2, <1>6, <2>1, <2>2, <2>3, RespondType
  <1>7. QED BY <1>3, <1>4, <1>5, <1>6 DEF ServeRefresh

LEMMA ServeLoginType ==
  ASSUME TypeOK, NEW w \in Tabs, ServeLogin(w) PROVE TypeOK'
  <1> DEFINE u == net[w]["login"].user
  <1>1. /\ "login" \in Kinds /\ net[w]["login"].phase # "none" /\ u \in Users
        /\ UNCHANGED <<expired, cookie, tab, call, counts>>
    BY DEF ServeLogin, Kinds, TypeOK
  <1>2. issued \in Seq(Users) /\ live \subseteq Tokens /\ expired \subseteq Tokens
        /\ counts' \in [Events -> Nat]
    BY <1>1 DEF TypeOK, Events
  <1>3. CASE Issue(u, {}) /\ Respond(w, "login", TRUE, Len(issued) + 1, u)
    <2>1. /\ issued' \in Seq(Users) /\ Tokens' = Tokens \cup {Len(issued) + 1}
          /\ live' \subseteq Tokens'
      BY <1>1, <1>3, IssueFacts
    <2>2. QED BY <1>1, <1>2, <1>3, <2>1, RespondType
  <1>4. CASE Respond(w, "login", FALSE, Keep, NoUser) /\ UNCHANGED <<issued, live>>
    <2>1. Tokens' = Tokens BY <1>4 DEF Tokens
    <2>2. QED BY <1>1, <1>2, <1>4, <2>1, RespondType
  <1>5. QED BY <1>3, <1>4 DEF ServeLogin

\* The server's other answers issue nothing.
LEMMA AnswerType ==
  ASSUME TypeOK, NEW w \in Tabs
  PROVE  /\ ServeLogout(w) => TypeOK'
         /\ RefreshFails(w) => TypeOK'
         /\ \A k \in Kinds : Throttle(w, k) \/ Lose(w, k) => TypeOK'
  <1>1. issued \in Seq(Users) /\ live \subseteq Tokens /\ expired \subseteq Tokens
        /\ counts \in [Events -> Nat] /\ "refresh" \in Kinds /\ "logout" \in Kinds
    BY DEF TypeOK, Events, Kinds
  <1>2. issued' = issued => Tokens' = Tokens BY DEF Tokens
  <1>3. ASSUME ServeLogout(w) PROVE TypeOK'
    <2>1. /\ net[w]["logout"].phase # "none" /\ Respond(w, "logout", TRUE, NoCookie, NoUser)
          /\ live' \subseteq live /\ expired' \subseteq expired
          /\ UNCHANGED <<issued, cookie, tab, call, counts>>
      BY <1>3 DEF ServeLogout
    <2>2. QED BY <1>1, <1>2, <2>1, RespondType
  <1>4. ASSUME RefreshFails(w) PROVE TypeOK'
    <2>1. /\ net[w]["refresh"].phase # "none" /\ live' \subseteq live
          /\ Respond(w, "refresh", FALSE, NoCookie, NoUser) /\ Count("lost")
          /\ UNCHANGED <<issued, expired, cookie, tab, call>>
      BY <1>4 DEF RefreshFails
    <2>2. counts' \in [Events -> Nat] BY <2>1, CountFacts DEF Events
    <2>3. QED BY <1>1, <1>2, <2>1, <2>2, RespondType
  <1>5. ASSUME NEW k \in Kinds, Throttle(w, k) PROVE TypeOK'
    <2>1. /\ net[w][k].phase # "none" /\ Respond(w, k, FALSE, Keep, NoUser)
          /\ UNCHANGED <<issued, live, expired, cookie, tab, call, counts>>
      BY <1>5 DEF Throttle
    <2>2. QED BY <1>1, <1>2, <2>1, RespondType
  <1>6. ASSUME NEW k \in Kinds, Lose(w, k) PROVE TypeOK'
    <2>1. /\ net[w][k].phase # "none" /\ Respond(w, k, FALSE, Keep, NoUser)
          /\ UNCHANGED <<issued, live, expired, cookie, tab, call>> /\ Count("lost")
      BY <1>6 DEF Lose
    <2>2. counts' \in [Events -> Nat] BY <2>1, CountFacts DEF Events
    <2>3. QED BY <1>1, <1>2, <2>1, <2>2, RespondType
  <1>7. QED BY <1>3, <1>4, <1>5, <1>6

LEMMA ExpireType == ASSUME TypeOK, NEW t \in live, Expire(t) PROVE TypeOK'
  <1>1. /\ UNCHANGED <<issued, cookie, tab, net, call, counts>>
        /\ live' \subseteq Tokens /\ expired' \subseteq Tokens
    BY DEF Expire, TypeOK
  <1>2. \A v \in Tabs : Waits(v)' <=> Waits(v) BY <1>1 DEF Waits
  <1>3. /\ Named' /\ tab' \in [Tabs -> Page] /\ call' \in CallType
        /\ counts' \in [Events -> Nat]
    BY <1>1 DEF Named, TypeOK, CallType, Events
  <1>4. QED BY <1>1, <1>2, <1>3, PageType


\* What the page does with an answer, for any slot k it takes the answer from.
LEMMA ReceivedType ==
  ASSUME TypeOK, NEW w \in Tabs, NEW k \in Kinds, NEW page \in Page,
         NEW f \in [Calls -> Request],
         net' = [net EXCEPT ![w][k] = Silent], cookie' = Stored(net[w][k].set),
         tab' = [tab EXCEPT ![w] = page], call' = [call EXCEPT ![w] = f],
         UNCHANGED <<issued, live, expired, counts>>,
         page.fresh => page.access \in Users,
         \A i \in Calls : f[i].good => f[i].user \in Users,
         k # "refresh" => /\ page.state = tab[w].state
                          /\ \A i \in Calls : f[i].phase = call[w][i].phase,
         k = "refresh" => /\ page.state # "loading"
                          /\ \A i \in Calls : f[i].phase # "waiting"
  PROVE  TypeOK'
  <1>1. /\ Silent \in Exchange /\ Silent.phase = "none" /\ Silent.set = Keep /\ ~Silent.ok
        /\ Silent.presented \in Tokens \cup {NoCookie} /\ Silent.phase # "sent"
    BY SentFacts
  <1>2. cookie' \in Tokens \cup {NoCookie}
    <2>1. net[w][k].set \in Tokens \cup {NoCookie, Keep} BY DEF TypeOK
    <2>2. QED BY <2>1 DEF Stored, TypeOK
  <1>3. /\ tab' \in [Tabs -> Page] /\ tab'[w] = page
        /\ \A v \in Tabs : v # w => tab'[v] = tab[v]
    BY TabFacts
  <1>4. /\ call' \in CallType /\ \A i \in Calls : call'[w][i] = f[i]
        /\ \A v \in Tabs \ {w}, j \in Calls : call'[v][j] = call[v][j]
    BY RowFacts DEF TypeOK, CallType
  <1>5. \A v \in Tabs : v # w => (Waits(v)' <=> Waits(v)) BY <1>3, <1>4 DEF Waits
  <1>6. k # "refresh" => (Waits(w)' <=> Waits(w)) BY <1>3, <1>4 DEF Waits
  <1>7. k = "refresh" => ~Waits(w)' BY <1>3, <1>4 DEF Waits
  <1>8. Named' BY <1>3, <1>4 DEF Named, TypeOK
  <1>9. counts' \in [Events -> Nat] BY DEF TypeOK, Events
  <1>10. QED
    BY <1>1, <1>2, <1>3, <1>4, <1>5, <1>6, <1>7, <1>8, <1>9, SlotType

LEMMA ReceiveLogoutType == ASSUME TypeOK, NEW w \in Tabs, ReceiveLogout(w) PROVE TypeOK'
  <1> DEFINE page == EndSession(tab[w])
  <1>1. tab[w] \in Page /\ "logout" \in Kinds BY DEF TypeOK, Kinds
  <1>2. page \in Page /\ page.state = tab[w].state /\ ~page.fresh
    BY <1>1, Pages
  <1>3. /\ Dropped(w) \in [Calls -> Request]
        /\ \A i \in Calls : /\ Dropped(w)[i].phase = call[w][i].phase
                            /\ Dropped(w)[i].good => Dropped(w)[i].user \in Users
    BY DroppedFacts DEF TypeOK
  <1>4. /\ net' = [net EXCEPT ![w]["logout"] = Silent] /\ cookie' = Stored(net[w]["logout"].set)
        /\ tab' = [tab EXCEPT ![w] = page] /\ call' = [call EXCEPT ![w] = Dropped(w)]
        /\ UNCHANGED <<issued, live, expired, counts>>
    BY DEF ReceiveLogout, TypeOK
  <1> HIDE DEF page
  <1>5. QED BY <1>1, <1>2, <1>3, <1>4, ReceivedType

LEMMA ReceiveLoginType == ASSUME TypeOK, NEW w \in Tabs, ReceiveLogin(w) PROVE TypeOK'
  <1> DEFINE r == net[w]["login"]
             page == [SignedIn(tab[w], r.user) EXCEPT !.cached = {}]
  <1>1. /\ tab[w] \in Page /\ "login" \in Kinds /\ r.user \in Users \cup {NoUser}
        /\ r.ok => r.user \in Users
    BY DEF TypeOK, Kinds, Exchange
  <1>2. /\ net' = [net EXCEPT ![w]["login"] = Silent] /\ cookie' = Stored(r.set)
        /\ UNCHANGED <<issued, live, expired, counts>>
    BY DEF ReceiveLogin
  <1>3. CASE r.ok
    <2>1. page \in Page /\ page.state = tab[w].state /\ page.access = r.user
      BY <1>1, Pages
    <2>2. /\ Dropped(w) \in [Calls -> Request]
          /\ \A i \in Calls : /\ Dropped(w)[i].phase = call[w][i].phase
                              /\ Dropped(w)[i].good => Dropped(w)[i].user \in Users
      BY DroppedFacts DEF TypeOK
    <2>3. tab' = [tab EXCEPT ![w] = page] /\ call' = [call EXCEPT ![w] = Dropped(w)]
      BY <1>3 DEF ReceiveLogin, TypeOK
    <2> HIDE DEF page
    <2>4. QED BY <1>1, <1>2, <1>3, <2>1, <2>2, <2>3, ReceivedType
  <1>4. CASE ~r.ok
    <2>1. /\ tab' = [tab EXCEPT ![w] = tab[w]] /\ call' = [call EXCEPT ![w] = call[w]]
          /\ call[w] \in [Calls -> Request]
      BY <1>4 DEF ReceiveLogin, TypeOK
    <2>2. /\ tab[w].fresh => tab[w].access \in Users
          /\ \A i \in Calls : call[w][i].good => call[w][i].user \in Users
      BY DEF TypeOK
    <2>3. QED BY <1>1, <1>2, <2>1, <2>2, ReceivedType
  <1>5. QED BY <1>3, <1>4

LEMMA ReceiveRefreshType == ASSUME TypeOK, NEW w \in Tabs, ReceiveRefresh(w) PROVE TypeOK'
  <1> DEFINE r == net[w]["refresh"]
             waiting == {i \in Calls : call[w][i].phase = "waiting"}
  <1>1. /\ tab[w] \in Page /\ "refresh" \in Kinds /\ r.user \in Users \cup {NoUser}
        /\ r.ok => r.user \in Users
    BY DEF TypeOK, Kinds, Exchange
  <1>2. /\ net' = [net EXCEPT ![w]["refresh"] = Silent] /\ cookie' = Stored(r.set)
        /\ UNCHANGED <<issued, live, expired, counts>>
    BY DEF ReceiveRefresh
  <1>3. \A i \in Calls : /\ call[w][i] \in Request
                         /\ call[w][i].good => call[w][i].user \in Users
    BY DEF TypeOK
  <1>4. NoCall \in Request /\ NoCall.phase = "idle" /\ ~NoCall.good
    BY DEF NoCall, Request
  <1>5. CASE r.ok
    <2> DEFINE page == [SignedIn(tab[w], r.user) EXCEPT !.state = "ready"]
               s(i) == [call[w][i] EXCEPT !.phase = "again", !.good = TRUE, !.user = r.user]
               f == [i \in Calls |-> IF i \in waiting THEN s(i) ELSE call[w][i]]
    <2>1. page \in Page /\ page.state = "ready" /\ page.access = r.user
      BY <1>1, Pages
    <2>2. \A i \in Calls : /\ s(i) \in Request /\ s(i).phase = "again" /\ s(i).good
                           /\ s(i).user = r.user
      BY <1>1, <1>3 DEF Request
    <2>3. /\ f \in [Calls -> Request]
          /\ \A i \in Calls : f[i].phase # "waiting" /\ (f[i].good => f[i].user \in Users)
      <3> HIDE DEF s
      <3>1. QED BY <1>1, <1>3, <1>5, <2>2
    <2>4. tab' = [tab EXCEPT ![w] = page] /\ call' = [call EXCEPT ![w] = f]
      BY <1>5 DEF ReceiveRefresh, TypeOK
    <2> HIDE DEF page, f
    <2>5. QED BY <1>1, <1>2, <1>5, <2>1, <2>3, <2>4, ReceivedType
  <1>6. CASE ~r.ok
    <2> DEFINE c == IF waiting = {} THEN tab[w].cached ELSE {}
               page == [EndSession(tab[w]) EXCEPT !.state = "ready", !.cached = c]
               f == [i \in Calls |->
                       IF i \in waiting THEN NoCall
                       ELSE IF waiting = {} THEN call[w][i] ELSE Dropped(w)[i]]
    <2>1. c \in SUBSET Users BY <1>1 DEF Page
    <2>2. page \in Page /\ page.state = "ready" /\ ~page.fresh
      <3> HIDE DEF c
      <3>1. QED BY <1>1, <2>1, Pages
    <2>3. /\ f \in [Calls -> Request]
          /\ \A i \in Calls : f[i].phase # "waiting" /\ (f[i].good => f[i].user \in Users)
      BY <1>3, <1>4, DroppedFacts
    <2>4. tab' = [tab EXCEPT ![w] = page] /\ call' = [call EXCEPT ![w] = f]
      BY <1>6 DEF ReceiveRefresh, TypeOK
    <2> HIDE DEF page, f, c
    <2>5. QED BY <1>1, <1>2, <2>2, <2>3, <2>4, ReceivedType
  <1>7. QED BY <1>5, <1>6

LEMMA StepType == TypeOK /\ [Next]_vars => TypeOK'
  <1> SUFFICES ASSUME TypeOK, [Next]_vars PROVE TypeOK'
    OBVIOUS
  <1>1. ASSUME NEW w \in Tabs, Load(w) \/ StartLogout(w) \/ AccessExpires(w)
        PROVE  TypeOK'
    BY <1>1, LoadType, StartLogoutType, AccessExpiresType
  <1>2. ASSUME NEW w \in Tabs, NEW u \in Users, StartLogin(w, u) PROVE TypeOK'
    BY <1>2, StartLoginType
  <1>3. ASSUME NEW w \in Tabs, NEW i \in Calls, StartCall(w, i) \/ ApiAnswers(w, i)
        PROVE  TypeOK'
    BY <1>3, StartCallType, ApiAnswersType
  <1>4. ASSUME NEW w \in Tabs, Serve(w) \/ Receive(w) \/ RefreshFails(w)
        PROVE  TypeOK'
    BY <1>4, ServeRefreshType, ServeLoginType, AnswerType, ReceiveRefreshType,
       ReceiveLoginType, ReceiveLogoutType DEF Serve, Receive
  <1>5. ASSUME NEW w \in Tabs, NEW k \in Kinds, Lose(w, k) PROVE TypeOK'
    BY <1>5, AnswerType
  <1>6. ASSUME NEW t \in live, Expire(t) PROVE TypeOK'
    BY <1>6, ExpireType
  <1>7. CASE UNCHANGED vars BY <1>7 DEF vars, TypeOK, Tokens
  <1>8. QED BY <1>1, <1>2, <1>3, <1>4, <1>5, <1>6, <1>7 DEF Next

(***************************************************************************)
(* Every reachable state of any number of pages is well typed, and a page  *)
(* waits for a refresh exactly while one is in flight (api-client.ts       *)
(* 29-63): no waiter is left behind by the answer it waits for.            *)
(***************************************************************************)
THEOREM WebTypeCorrect == Spec => []TypeOK
  <1>1. QED BY InitType, StepType, PTL DEF Spec


-----------------------------------------------------------------------------
(* One page: what it holds, presents and is about to receive.              *)

\* Tokens a page could still renew a session with, or has let run out.
Unspent == live \cup expired

\* A token is on its way to page w.
Arriving(w, k) ==
  k \in {"refresh", "login"} /\ net[w][k].phase = "back" /\ net[w][k].ok

\* What brings no token leaves the cookie alone or, unless it is a refused
\* login, clears it.
Harmless(w) ==
  \A k \in Kinds : Arriving(w, k) \/ net[w][k].set = Keep
                     \/ (k # "login" /\ net[w][k].set = NoCookie)

\* A token on its way is its user's and unspent, and nobody holds or presents
\* it yet.
TokensApart(w) ==
  \A k \in Kinds : Arriving(w, k) =>
    LET t == net[w][k].set
    IN /\ t \in Unspent /\ issued[t] = net[w][k].user /\ t # cookie
       /\ \A j \in Kinds : /\ net[w][j].phase = "sent" => net[w][j].presented # t
                           /\ j # k /\ Arriving(w, j) => net[w][j].set # t

\* Unless a refresh or a logout is on its way, the cookie is the user's.
Renewable(w) ==
  /\ net[w]["refresh"].phase = "none" /\ net[w]["logout"].phase = "none"
  /\ tab[w].user # NoUser
  => cookie \in Unspent /\ issued[cookie] = tab[w].user

\* What is presented is unspent, and so is the cookie unless the answer to a
\* refresh is about to replace it.
Honest(w) ==
  /\ net[w]["logout"].phase = "none"
  /\ Arriving(w, "refresh") \/ cookie \in Unspent \cup {NoCookie}
  /\ net[w]["refresh"].phase = "sent"
       => net[w]["refresh"].presented \in Unspent \cup {NoCookie}

Undisturbed == counts["lost"] = 0 /\ counts["logouts"] = 0

PageInv(w) ==
  /\ Harmless(w)
  /\ counts["replays"] = 0 => TokensApart(w) /\ Renewable(w)
  /\ Undisturbed => Honest(w)

SessionInv ==
  /\ Undisturbed => counts["replays"] = 0
  /\ \A w \in Tabs : PageInv(w)

\* What happened has happened.
Counted == \A e \in Events : counts[e] # 0 => counts'[e] # 0

LEMMA CountedFacts ==
  ASSUME TypeOK
  PROVE  /\ UNCHANGED counts => Counted
         /\ \A e \in Events : Count(e) => Counted /\ counts'[e] # 0
  <1>1. UNCHANGED counts => Counted BY DEF Counted
  <1>2. ASSUME NEW e \in Events, Count(e) PROVE Counted /\ counts'[e] # 0
    <2>1. counts'[e] # 0 /\ \A d \in Events : d # e => counts'[d] = counts[d]
      BY <1>2, CountFacts
    <2>2. QED BY <2>1 DEF Counted
  <1>3. QED BY <1>1, <1>2

\* Events of the invariant's premises.
LEMMA EventFacts ==
  ASSUME Counted
  PROVE  /\ counts'["replays"] = 0 => counts["replays"] = 0
         /\ Undisturbed' => Undisturbed
  BY DEF Counted, Undisturbed, Events

\* The browser and the server leave the session alone.
LEMMA CalmKeeps ==
  ASSUME TypeOK, NEW w \in Tabs, PageInv(w), Counted,
         UNCHANGED <<issued, cookie, net>>, Unspent' = Unspent,
         tab'[w].user = tab[w].user
  PROVE  PageInv(w)'
  <1>1. /\ counts'["replays"] = 0 => counts["replays"] = 0
        /\ Undisturbed' => Undisturbed
    BY EventFacts
  <1>2. Harmless(w)' BY DEF PageInv, Harmless, Arriving
  <1>3. TokensApart(w) => TokensApart(w)' BY DEF TokensApart, Arriving
  <1>4. Renewable(w) => Renewable(w)' BY DEF Renewable
  <1>5. Honest(w) => Honest(w)' BY DEF Honest, Arriving
  <1>6. QED BY <1>1, <1>2, <1>3, <1>4, <1>5 DEF PageInv

\* A request takes the cookie with it.
LEMMA SendKeeps ==
  ASSUME TypeOK, NEW w \in Tabs, PageInv(w), Counted, NEW k \in Kinds,
         NEW u \in Users \cup {NoUser}, net[w][k].phase = "none",
         net' = [net EXCEPT ![w][k] = Sent(u)],
         UNCHANGED <<issued, live, expired, cookie>>,
         k = "logout" => counts'["logouts"] # 0,
         k = "login" => tab'[w].user = tab[w].user
  PROVE  PageInv(w)'
  <1> DEFINE slot == Sent(u)
  <1>1. /\ slot.phase = "sent" /\ slot.presented = cookie /\ slot.set = Keep
    BY SentFacts
  <1>2. Only(w, k, slot) BY SlotFacts DEF TypeOK, NetType
  <1> HIDE DEF slot
  <1>3. /\ net'[w][k] = slot /\ \A j \in Kinds : j # k => net'[w][j] = net[w][j]
        /\ Unspent' = Unspent
    BY <1>2 DEF Only, Unspent
  <1>4. /\ ~Arriving(w, k) /\ ~Arriving(w, k)'
        /\ \A j \in Kinds : Arriving(w, j)' <=> Arriving(w, j)
    BY <1>1, <1>3 DEF Arriving
  <1>5. /\ counts'["replays"] = 0 => counts["replays"] = 0
        /\ Undisturbed' => Undisturbed
    BY EventFacts
  <1>6. Harmless(w)' BY <1>1, <1>3, <1>4 DEF PageInv, Harmless
  <1>7. ASSUME TokensApart(w) PROVE TokensApart(w)'
    <2> SUFFICES ASSUME NEW j \in Kinds, Arriving(w, j)'
        PROVE  LET t == net'[w][j].set
               IN /\ t \in Unspent' /\ issued'[t] = net'[w][j].user /\ t # cookie'
                  /\ \A i \in Kinds :
                       /\ net'[w][i].phase = "sent" => net'[w][i].presented # t
                       /\ i # j /\ Arriving(w, i)' => net'[w][i].set # t
      BY DEF TokensApart
    <2>1. Arriving(w, j) /\ j # k /\ net'[w][j] = net[w][j] BY <1>3, <1>4
    <2>2. QED BY <1>1, <1>3, <1>4, <1>7, <2>1 DEF TokensApart
  <1>8. ASSUME Renewable(w) PROVE Renewable(w)'
    BY <1>1, <1>3, <1>8 DEF Renewable, Kinds
  <1>9. ASSUME Undisturbed', Honest(w) PROVE Honest(w)'
    <2>1. k # "logout" BY <1>9 DEF Undisturbed
    <2>2. "logout" \in Kinds /\ "refresh" \in Kinds BY DEF Kinds
    <2>3. Arriving(w, "refresh")' \/ cookie' \in Unspent' \cup {NoCookie}
      BY <1>3, <1>4, <1>9, <2>2 DEF Honest
    <2>4. net'[w]["refresh"].phase = "sent"
            => net'[w]["refresh"].presented \in Unspent' \cup {NoCookie}
      BY <1>1, <1>3, <1>4, <1>9, <2>2 DEF Honest
    <2>5. QED BY <1>3, <1>9, <2>1, <2>2, <2>3, <2>4 DEF Honest
  <1>10. QED BY <1>5, <1>6, <1>7, <1>8, <1>9 DEF PageInv

\* An answer that brings no token; only the token it was given may be spent.
LEMMA RefuseKeeps ==
  ASSUME TypeOK, NEW w \in Tabs, PageInv(w), Counted, NEW k \in Kinds,
         NEW ok \in BOOLEAN, NEW set \in {NoCookie, Keep},
         Respond(w, k, ok, set, NoUser), ok => k = "logout",
         k = "login" => set = Keep, UNCHANGED <<issued, cookie, tab>>,
         net[w][k].phase # "none",
         \/ Unspent' = Unspent
         \/ /\ net[w][k].phase = "sent" /\ k # "login"
            /\ Unspent \ {net[w][k].presented} \subseteq Unspent',
         Undisturbed' => net[w][k].phase = "sent" /\ Unspent' = Unspent
  PROVE  PageInv(w)'
  <1>1. net \in NetType /\ set \in Nat \cup {Keep}
    BY DEF TypeOK, NetType, NoCookie
  <1>2. /\ \A j \in Kinds : j # k => net'[w][j] = net[w][j]
        /\ net'[w][k].phase = "back" /\ net'[w][k].ok = ok /\ net'[w][k].set = set
    <2>1. /\ \A v \in Tabs, j \in Kinds : v # w \/ j # k => net'[v][j] = net[v][j]
          /\ net'[w][k].phase = "back" /\ net'[w][k].ok = ok /\ net'[w][k].set = set
      BY <1>1, Respond(w, k, ok, set, NoUser), NoUser \in Users \cup {NoUser}, RespondFacts
    <2>2. QED BY <2>1
  <1>3. /\ ~Arriving(w, k)'
        /\ \A j \in Kinds : Arriving(w, j)' => Arriving(w, j) /\ j # k
        /\ \A j \in Kinds : j # k /\ Arriving(w, j) => Arriving(w, j)'
    BY <1>2 DEF Arriving
  <1>4. /\ counts'["replays"] = 0 => counts["replays"] = 0
        /\ Undisturbed' => Undisturbed
    BY EventFacts
  <1>5. Harmless(w)' BY <1>2, <1>3 DEF PageInv, Harmless
  <1>6. ASSUME TokensApart(w) PROVE TokensApart(w)'
    <2> SUFFICES ASSUME NEW j \in Kinds, Arriving(w, j)'
        PROVE  LET t == net'[w][j].set
               IN /\ t \in Unspent' /\ issued'[t] = net'[w][j].user /\ t # cookie'
                  /\ \A i \in Kinds :
                       /\ net'[w][i].phase = "sent" => net'[w][i].presented # t
                       /\ i # j /\ Arriving(w, i)' => net'[w][i].set # t
      BY DEF TokensApart
    <2>1. Arriving(w, j) /\ j # k /\ net'[w][j] = net[w][j] BY <1>2, <1>3
    <2>2. QED BY <1>2, <1>3, <1>6, <2>1 DEF TokensApart
  <1>7. ASSUME Renewable(w) PROVE Renewable(w)'
    <2>1. "logout" \in Kinds /\ "refresh" \in Kinds BY DEF Kinds
    <2>2. k \in {"logout", "refresh"} => Renewable(w)' BY <1>2 DEF Renewable
    <2>3. CASE k = "login" BY <1>2, <1>7, <2>1, <2>3 DEF Renewable
    <2>4. QED BY <2>2, <2>3 DEF Kinds
  <1>8. ASSUME Undisturbed', Honest(w) PROVE Honest(w)'
    <2>1. "logout" \in Kinds /\ "refresh" \in Kinds /\ k # "logout" /\ Unspent' = Unspent
          /\ net[w][k].phase = "sent"
      BY <1>8 DEF Kinds, Honest
    <2>2. ~Arriving(w, k) BY <2>1 DEF Arriving
    <2>3. QED BY <1>2, <1>3, <1>8, <2>1, <2>2 DEF Honest
  <1>9. QED BY <1>4, <1>5, <1>6, <1>7, <1>8 DEF PageInv


\* An answer that brings a new token, in exchange for the one presented or for
\* none.
LEMMA IssueKeeps ==
  ASSUME TypeOK, NEW w \in Tabs, PageInv(w), NEW k \in {"refresh", "login"},
         NEW u \in Users, NEW spent, net[w][k].phase = "sent",
         spent = {} \/ (k = "refresh" /\ spent = {net[w][k].presented}),
         Issue(u, spent), Respond(w, k, TRUE, Len(issued) + 1, u),
         UNCHANGED <<expired, cookie, tab, counts>>
  PROVE  PageInv(w)'
  <1> DEFINE n == Len(issued) + 1
  <1>1. /\ "refresh" \in Kinds /\ "logout" \in Kinds /\ "login" \in Kinds /\ k \in Kinds
        /\ k # "logout"
    BY DEF Kinds
  <1>2. /\ n \notin Tokens /\ n # NoCookie /\ n # Keep /\ n \in Nat
        /\ Unspent \subseteq Tokens /\ cookie \in Tokens \cup {NoCookie}
        /\ \A j \in Kinds : /\ net[w][j].presented \in Tokens \cup {NoCookie}
                            /\ net[w][j].set \in Tokens \cup {NoCookie, Keep}
    <2>1. n \notin Tokens /\ n \in Nat BY TokenFacts
    <2>2. QED BY <2>1 DEF TypeOK, Unspent, NoCookie, Keep
  <1>3. /\ n \in Unspent' /\ issued'[n] = u /\ \A t \in Tokens : issued'[t] = issued[t]
        /\ Unspent \ spent \subseteq Unspent'
    <2>1. issued'[n] = u /\ \A t \in Tokens : issued'[t] = issued[t] BY IssueFacts
    <2>2. live' = (live \ spent) \cup {n} BY DEF Issue
    <2>3. QED BY <2>1, <2>2 DEF Unspent
  <1>4. /\ \A j \in Kinds : j # k => net'[w][j] = net[w][j]
        /\ net'[w][k].phase = "back" /\ net'[w][k].ok /\ net'[w][k].set = n
        /\ net'[w][k].user = u
    <2>1. net \in NetType /\ n \in Nat \cup {Keep} BY <1>2 DEF TypeOK, NetType
    <2> HIDE DEF n
    <2>2. ASSUME NEW ok \in BOOLEAN, Respond(w, k, ok, n, u)
          PROVE  /\ \A v \in Tabs, j \in Kinds : v # w \/ j # k => net'[v][j] = net[v][j]
                 /\ net'[w][k].phase = "back" /\ net'[w][k].ok = ok
                 /\ net'[w][k].set = n /\ net'[w][k].user = u
      BY <1>1, <2>1, <2>2, u \in Users \cup {NoUser}, RespondFacts
    <2>3. Respond(w, k, TRUE, n, u) BY DEF n
    <2>4. QED BY <2>2, <2>3
  <1> HIDE DEF n
  <1>5. /\ Arriving(w, k)' /\ ~Arriving(w, k)
        /\ \A j \in Kinds : j # k => (Arriving(w, j)' <=> Arriving(w, j))
    BY <1>4 DEF Arriving
  <1>6. Harmless(w)' BY <1>4, <1>5 DEF PageInv, Harmless
  <1>7. ASSUME TokensApart(w) PROVE TokensApart(w)'
    <2> SUFFICES ASSUME NEW j \in Kinds, Arriving(w, j)'
        PROVE  LET t == net'[w][j].set
               IN /\ t \in Unspent' /\ issued'[t] = net'[w][j].user /\ t # cookie'
                  /\ \A i \in Kinds :
                       /\ net'[w][i].phase = "sent" => net'[w][i].presented # t
                       /\ i # j /\ Arriving(w, i)' => net'[w][i].set # t
      BY DEF TokensApart
    <2>1. CASE j = k
      <3>1. \A i \in Kinds : /\ net'[w][i].phase = "sent" => net'[w][i].presented # n
                             /\ i # j /\ Arriving(w, i)' => net'[w][i].set # n
        BY <1>2, <1>4, <2>1
      <3>2. QED BY <1>2, <1>3, <1>4, <2>1, <3>1
    <2>2. CASE j # k
      <3> DEFINE t == net[w][j].set
      <3>1. Arriving(w, j) /\ net'[w][j] = net[w][j] BY <1>4, <1>5, <2>2
      <3>2. /\ t \in Unspent /\ issued[t] = net[w][j].user /\ t # cookie
            /\ \A i \in Kinds : /\ net[w][i].phase = "sent" => net[w][i].presented # t
                                /\ i # j /\ Arriving(w, i) => net[w][i].set # t
        BY <1>7, <3>1 DEF TokensApart
      <3>3. t # net[w][k].presented /\ t \in Tokens /\ t # n BY <1>1, <1>2, <3>2
      <3>4. t \in Unspent' /\ issued'[t] = issued[t] BY <1>3, <3>2, <3>3
      <3>5. \A i \in Kinds : /\ net'[w][i].phase = "sent" => net'[w][i].presented # t
                             /\ i # j /\ Arriving(w, i)' => net'[w][i].set # t
        BY <1>4, <1>5, <3>2, <3>3
      <3> HIDE DEF t
      <3>6. QED BY <3>1, <3>2, <3>4, <3>5 DEF t
    <2>3. QED BY <2>1, <2>2
  <1>8. ASSUME Renewable(w) PROVE Renewable(w)'
    <2>1. CASE k = "refresh" BY <1>4, <2>1 DEF Renewable
    <2>2. CASE k = "login" /\ spent = {}
      BY <1>1, <1>2, <1>3, <1>4, <1>8, <2>2 DEF Renewable
    <2>3. QED BY <2>1, <2>2
  <1>9. ASSUME Honest(w) PROVE Honest(w)'
    <2>1. CASE k = "refresh" BY <1>1, <1>4, <1>5, <1>9, <2>1 DEF Honest
    <2>2. CASE k = "login" /\ spent = {}
      BY <1>1, <1>3, <1>4, <1>5, <1>9, <2>2 DEF Honest
    <2>3. QED BY <2>1, <2>2
  <1>10. QED BY <1>6, <1>7, <1>8, <1>9 DEF PageInv, Undisturbed

\* The slot an answer was taken from.
LEMMA TakenFacts ==
  ASSUME TypeOK, NEW w \in Tabs, NEW k \in Kinds, net' = [net EXCEPT ![w][k] = Silent],
         UNCHANGED <<live, expired>>
  PROVE  /\ \A j \in Kinds : j # k => net'[w][j] = net[w][j]
         /\ net'[w][k].phase = "none" /\ net'[w][k].set = Keep
         /\ ~Arriving(w, k)' /\ Unspent' = Unspent
         /\ \A j \in Kinds : j # k => (Arriving(w, j)' <=> Arriving(w, j))
  <1>1. Silent.phase = "none" /\ Silent.set = Keep BY SentFacts
  <1>2. Only(w, k, Silent) BY SlotFacts DEF TypeOK, NetType
  <1>3. QED BY <1>1, <1>2 DEF Only, Arriving, Unspent

\* The page takes the token an answer brings.
LEMMA TakeKeeps ==
  ASSUME TypeOK, NEW w \in Tabs, PageInv(w), SessionInv, NEW k \in {"refresh", "login"},
         Arriving(w, k), net' = [net EXCEPT ![w][k] = Silent],
         cookie' = Stored(net[w][k].set), tab'[w].user = net[w][k].user,
         UNCHANGED <<issued, live, expired, counts>>
  PROVE  PageInv(w)'
  <1> DEFINE t == net[w][k].set
  <1>1. "refresh" \in Kinds /\ "logout" \in Kinds /\ "login" \in Kinds /\ k \in Kinds
        /\ k # "logout"
    BY DEF Kinds
  <1>2. /\ \A j \in Kinds : j # k => net'[w][j] = net[w][j]
        /\ net'[w][k].phase = "none" /\ net'[w][k].set = Keep
        /\ ~Arriving(w, k)' /\ Unspent' = Unspent
        /\ \A j \in Kinds : j # k => (Arriving(w, j)' <=> Arriving(w, j))
    BY <1>1, TakenFacts
  <1>3. ASSUME TokensApart(w)
        PROVE  /\ cookie' = t /\ t \in Unspent /\ issued[t] = net[w][k].user
               /\ \A j \in Kinds : j # k /\ Arriving(w, j) => net[w][j].set # t
    <2>1. /\ t \in Unspent /\ issued[t] = net[w][k].user
          /\ \A j \in Kinds : j # k /\ Arriving(w, j) => net[w][j].set # t
      BY <1>1, <1>3 DEF TokensApart
    <2>2. t # Keep
      <3>1. Keep \notin Tokens BY TokenFacts
      <3>2. Unspent \subseteq Tokens BY DEF TypeOK, Unspent
      <3>3. QED BY <2>1, <3>1, <3>2
    <2>3. QED BY <2>1, <2>2 DEF Stored
  <1>4. Harmless(w)' BY <1>2 DEF PageInv, Harmless
  <1>5. ASSUME TokensApart(w) PROVE TokensApart(w)'
    <2> SUFFICES ASSUME NEW j \in Kinds, Arriving(w, j)'
        PROVE  LET s == net'[w][j].set
               IN /\ s \in Unspent' /\ issued'[s] = net'[w][j].user /\ s # cookie'
                  /\ \A i \in Kinds :
                       /\ net'[w][i].phase = "sent" => net'[w][i].presented # s
                       /\ i # j /\ Arriving(w, i)' => net'[w][i].set # s
      BY DEF TokensApart
    <2>1. Arriving(w, j) /\ j # k /\ net'[w][j] = net[w][j] BY <1>2
    <2>2. QED BY <1>2, <1>3, <1>5, <2>1 DEF TokensApart
  <1>6. ASSUME TokensApart(w) PROVE Renewable(w)'
    BY <1>2, <1>3, <1>6 DEF Renewable
  <1>7. ASSUME Undisturbed PROVE Honest(w)'
    <2>1. TokensApart(w) /\ Honest(w) BY <1>7 DEF SessionInv, PageInv
    <2>2. cookie' \in Unspent' BY <1>2, <1>3, <2>1
    <2>3. QED BY <1>1, <1>2, <2>1, <2>2 DEF Honest
  <1>8. QED BY <1>4, <1>5, <1>6, <1>7 DEF PageInv, Undisturbed

\* The page takes an answer without a token.
LEMMA FailKeeps ==
  ASSUME TypeOK, NEW w \in Tabs, PageInv(w), NEW k \in Kinds, net[w][k].phase = "back",
         ~Arriving(w, k), net' = [net EXCEPT ![w][k] = Silent],
         cookie' = Stored(net[w][k].set),
         tab'[w].user = IF k = "login" THEN tab[w].user ELSE NoUser,
         UNCHANGED <<issued, live, expired, counts>>
  PROVE  PageInv(w)'
  <1>1. "refresh" \in Kinds /\ "logout" \in Kinds /\ "login" \in Kinds BY DEF Kinds
  <1>2. /\ \A j \in Kinds : j # k => net'[w][j] = net[w][j]
        /\ net'[w][k].phase = "none" /\ net'[w][k].set = Keep
        /\ ~Arriving(w, k)' /\ Unspent' = Unspent
        /\ \A j \in Kinds : j # k => (Arriving(w, j)' <=> Arriving(w, j))
    BY TakenFacts
  <1>3. cookie' = cookie \/ (k # "login" /\ cookie' = NoCookie)
    <2>1. net[w][k].set = Keep \/ (k # "login" /\ net[w][k].set = NoCookie)
      BY DEF PageInv, Harmless
    <2>2. QED BY <2>1 DEF Stored
  <1>4. Unspent \subseteq Tokens /\ NoCookie \notin Tokens
    BY TokenFacts DEF TypeOK, Unspent
  <1>5. Harmless(w)' BY <1>2 DEF PageInv, Harmless
  <1>6. ASSUME TokensApart(w) PROVE TokensApart(w)'
    <2> SUFFICES ASSUME NEW j \in Kinds, Arriving(w, j)'
        PROVE  LET s == net'[w][j].set
               IN /\ s \in Unspent' /\ issued'[s] = net'[w][j].user /\ s # cookie'
                  /\ \A i \in Kinds :
                       /\ net'[w][i].phase = "sent" => net'[w][i].presented # s
                       /\ i # j /\ Arriving(w, i)' => net'[w][i].set # s
      BY DEF TokensApart
    <2>1. Arriving(w, j) /\ j # k /\ net'[w][j] = net[w][j] BY <1>2
    <2>2. QED BY <1>2, <1>3, <1>4, <1>6, <2>1 DEF TokensApart
  <1>7. ASSUME Renewable(w) PROVE Renewable(w)'
    BY <1>1, <1>2, <1>3, <1>7 DEF Renewable
  <1>8. ASSUME Honest(w) PROVE Honest(w)'
    BY <1>1, <1>2, <1>3, <1>8 DEF Honest
  <1>9. QED BY <1>5, <1>6, <1>7, <1>8 DEF PageInv, Undisturbed


-----------------------------------------------------------------------------
(* Every step of the only page, and of the server it talks to.             *)

LEMMA SessionInit == Init => SessionInv
  <1> SUFFICES ASSUME Init PROVE SessionInv
    OBVIOUS
  <1>1. TypeOK BY InitType
  <1>2. /\ Silent.phase = "none" /\ ~Silent.ok /\ Silent.set = Keep BY <1>1, SentFacts
  <1>3. \A w \in Tabs : net[w] = [k \in Kinds |-> Silent] BY DEF Init
  <1>4. \A w \in Tabs, k \in Kinds : net[w][k] = Silent BY <1>3
  <1>5. \A w \in Tabs, k \in Kinds : ~Arriving(w, k) BY <1>2, <1>4 DEF Arriving
  <1>6. counts["replays"] = 0 BY DEF Init
  <1>7. cookie \in Unspent \cup {NoCookie}
    <2>1. issued \in Seq(Users) /\ (issued = << >> \/ \E u \in Users : issued = <<u>>)
      BY <1>1 DEF Init, TypeOK
    <2>2. Len(issued) \in {0, 1} BY <2>1
    <2>3. Tokens = 1 .. Len(issued) BY <2>1 DEF Tokens
    <2>4. QED BY <2>2, <2>3 DEF Init, Unspent, NoCookie
  <1>8. \A w \in Tabs : tab[w].user = NoUser BY DEF Init, Blank
  <1>9. "refresh" \in Kinds /\ "logout" \in Kinds BY DEF Kinds
  <1>10. ASSUME NEW w \in Tabs PROVE PageInv(w)
    <2>1. Harmless(w) BY <1>2, <1>4 DEF Harmless
    <2>2. TokensApart(w) BY <1>5 DEF TokensApart
    <2>3. Renewable(w) BY <1>8 DEF Renewable
    <2>4. Honest(w) BY <1>2, <1>4, <1>7, <1>9 DEF Honest
    <2>5. QED BY <2>1, <2>2, <2>3, <2>4 DEF PageInv
  <1>11. QED BY <1>6, <1>10 DEF SessionInv

LEMMA AskKeeps ==
  ASSUME TypeOK, NEW w \in Tabs, PageInv(w),
         \/ Load(w) \/ StartLogout(w) \/ AccessExpires(w)
         \/ \E u \in Users : StartLogin(w, u)
         \/ \E i \in Calls : StartCall(w, i) \/ ApiAnswers(w, i)
  PROVE  PageInv(w)' /\ Counted /\ counts'["replays"] = counts["replays"]
  <1>1. /\ "refresh" \in Kinds /\ "logout" \in Kinds /\ "login" \in Kinds
        /\ NoUser \in Users \cup {NoUser} /\ tab[w] \in Page
    BY DEF Kinds, TypeOK
  <1>2. ASSUME Load(w)
        PROVE  PageInv(w)' /\ Counted /\ counts'["replays"] = counts["replays"]
    <2>1. Counted /\ counts'["replays"] = counts["replays"]
      BY <1>2, CountFacts, CountedFacts DEF Load, Events
    <2>2. /\ net[w]["refresh"].phase = "none"
          /\ net' = [net EXCEPT ![w]["refresh"] = Sent(NoUser)]
          /\ UNCHANGED <<issued, live, expired, cookie>>
      BY <1>1, <1>2 DEF Load, RefreshOnce
    <2>3. QED BY <1>1, <2>1, <2>2, SendKeeps
  <1>3. ASSUME StartLogout(w)
        PROVE  PageInv(w)' /\ Counted /\ counts'["replays"] = counts["replays"]
    <2>1. Counted /\ counts'["logouts"] # 0 /\ counts'["replays"] = counts["replays"]
      BY <1>3, CountFacts, CountedFacts DEF StartLogout, Events
    <2>2. /\ net[w]["logout"].phase = "none"
          /\ net' = [net EXCEPT ![w]["logout"] = Sent(NoUser)]
          /\ UNCHANGED <<issued, live, expired, cookie>>
      BY <1>3 DEF StartLogout
    <2>3. QED BY <1>1, <2>1, <2>2, SendKeeps
  <1>4. ASSUME AccessExpires(w)
        PROVE  PageInv(w)' /\ Counted /\ counts'["replays"] = counts["replays"]
    <2>1. Counted /\ counts'["replays"] = counts["replays"]
      BY <1>4, CountFacts, CountedFacts DEF AccessExpires, Events
    <2>2. tab' = [tab EXCEPT ![w] = [tab[w] EXCEPT !.fresh = FALSE]]
      BY <1>4 DEF AccessExpires, TypeOK
    <2>3. /\ [tab[w] EXCEPT !.fresh = FALSE] \in Page
          /\ [tab[w] EXCEPT !.fresh = FALSE].user = tab[w].user
      BY <1>1 DEF Page
    <2>4. tab'[w].user = tab[w].user BY <2>2, <2>3, TabFacts
    <2>5. UNCHANGED <<issued, cookie, net>> /\ Unspent' = Unspent
      BY <1>4 DEF AccessExpires, Unspent
    <2>6. QED BY <2>1, <2>4, <2>5, CalmKeeps
  <1>5. ASSUME NEW u \in Users, StartLogin(w, u)
        PROVE  PageInv(w)' /\ Counted /\ counts'["replays"] = counts["replays"]
    <2>1. Counted /\ counts' = counts BY <1>5, CountedFacts DEF StartLogin
    <2>2. /\ net[w]["login"].phase = "none"
          /\ net' = [net EXCEPT ![w]["login"] = Sent(u)]
          /\ UNCHANGED <<issued, live, expired, cookie, tab>>
      BY <1>5 DEF StartLogin
    <2>3. QED BY <1>1, <2>1, <2>2, SendKeeps
  <1>6. ASSUME NEW i \in Calls, StartCall(w, i)
        PROVE  PageInv(w)' /\ Counted /\ counts'["replays"] = counts["replays"]
    <2>1. Counted /\ counts' = counts BY <1>6, CountedFacts DEF StartCall
    <2>2. UNCHANGED <<issued, cookie, tab, net>> /\ Unspent' = Unspent
      BY <1>6 DEF StartCall, Unspent
    <2>3. QED BY <2>1, <2>2, CalmKeeps
  <1>7. ASSUME NEW i \in Calls, ApiAnswers(w, i)
        PROVE  PageInv(w)' /\ Counted /\ counts'["replays"] = counts["replays"]
    <2>1. Counted /\ counts' = counts BY <1>7, CountedFacts DEF ApiAnswers
    <2>2. UNCHANGED <<issued, live, expired, cookie>> /\ Unspent' = Unspent
      BY <1>7 DEF ApiAnswers, Unspent
    <2>3. tab'[w].user = tab[w].user
      <3>1. CASE tab' = tab BY <3>1
      <3>2. CASE tab' = [tab EXCEPT ![w].cached = IF call[w][i].kept
                                                  THEN @ \cup {call[w][i].user} ELSE @]
        <4>1. tab'[w] = [tab[w] EXCEPT !.cached =
                           IF call[w][i].kept THEN @ \cup {call[w][i].user} ELSE @]
          BY <3>2 DEF TypeOK
        <4>2. QED BY <1>1, <4>1 DEF Page
      <3>3. QED BY <1>7, <3>1, <3>2 DEF ApiAnswers, AnswerCall
    <2>4. CASE net' = net BY <2>1, <2>2, <2>3, <2>4, CalmKeeps
    <2>5. CASE net' = RefreshOnce(w) /\ net' # net
      <3>1. /\ net[w]["refresh"].phase = "none"
            /\ net' = [net EXCEPT ![w]["refresh"] = Sent(NoUser)]
        BY <2>5 DEF RefreshOnce
      <3>2. QED BY <1>1, <2>1, <2>2, <2>3, <3>1, SendKeeps
    <2>6. QED BY <1>7, <2>4, <2>5 DEF ApiAnswers, AnswerCall
  <1>8. QED BY <1>2, <1>3, <1>4, <1>5, <1>6, <1>7

\* A replay is an answer to a token that was not unspent.
LEMMA ServeRefreshKeeps ==
  ASSUME TypeOK, NEW w \in Tabs, PageInv(w), ServeRefresh(w)
  PROVE  PageInv(w)' /\ Counted /\ (Undisturbed => counts'["replays"] = counts["replays"])
  <1> DEFINE t == net[w]["refresh"].presented
  <1>1. /\ "refresh" \in Kinds /\ net[w]["refresh"].phase = "sent"
        /\ UNCHANGED <<cookie, tab, call>> /\ live \subseteq Tokens
        /\ \A s \in Tokens : issued[s] \in Users
    BY TokenFacts DEF ServeRefresh, Kinds, TypeOK
  <1>2. CASE t = NoCookie /\ Respond(w, "refresh", FALSE, Keep, NoUser)
             /\ UNCHANGED <<issued, live, expired, counts>>
    <2>1. Counted /\ Unspent' = Unspent BY <1>2, CountedFacts DEF Unspent
    <2>2. PageInv(w)' BY <1>1, <1>2, <2>1, RefuseKeeps
    <2>3. QED BY <1>2, <2>1, <2>2
  <1>3. CASE t \in live /\ Issue(issued[t], {t}) /\ UNCHANGED <<expired, counts>>
             /\ Respond(w, "refresh", TRUE, Len(issued) + 1, issued[t])
    <2>1. Counted BY <1>3, CountedFacts
    <2>2. issued[t] \in Users /\ "refresh" \in {"refresh", "login"} BY <1>1, <1>3
    <2>3. PageInv(w)' BY <1>1, <1>3, <2>2, IssueKeeps
    <2>4. QED BY <1>3, <2>1, <2>3
  <1>4. CASE Respond(w, "refresh", FALSE, NoCookie, NoUser)
             /\ UNCHANGED <<issued, live, expired, counts>>
    <2>1. Counted /\ Unspent' = Unspent BY <1>4, CountedFacts DEF Unspent
    <2>2. PageInv(w)' BY <1>1, <1>4, <2>1, RefuseKeeps
    <2>3. QED BY <1>4, <2>1, <2>2
  <1>5. CASE /\ t \in Tokens \ (live \cup expired) /\ Count("replays")
             /\ Respond(w, "refresh", FALSE, NoCookie, NoUser)
    <2>1. Counted /\ counts'["replays"] # 0
      BY <1>5, CountedFacts DEF Events
    <2>2. t \notin Unspent \cup {NoCookie} BY <1>5, TokenFacts DEF Unspent
    <2>3. ~Undisturbed BY <1>1, <2>2 DEF PageInv, Honest
    <2>4. ~Undisturbed' BY <2>1, <2>3, EventFacts
    <2>5. Harmless(w)'
      <3>1. net \in NetType /\ NoCookie \in Nat \cup {Keep} /\ NoUser \in Users \cup {NoUser}
        BY DEF TypeOK, NetType, NoCookie
      <3>2. ASSUME NEW ok \in BOOLEAN, Respond(w, "refresh", ok, NoCookie, NoUser)
            PROVE  /\ \A v \in Tabs, j \in Kinds :
                        v # w \/ j # "refresh" => net'[v][j] = net[v][j]
                   /\ net'[w]["refresh"].set = NoCookie
        BY <1>1, <3>1, <3>2, RespondFacts
      <3>3. /\ \A j \in Kinds : j # "refresh" => net'[w][j] = net[w][j]
            /\ net'[w]["refresh"].set = NoCookie
        BY <1>5, <3>2
      <3>4. QED BY <3>3 DEF PageInv, Harmless, Arriving
    <2>6. QED BY <2>1, <2>3, <2>4, <2>5 DEF PageInv
  <1>6. QED BY <1>2, <1>3, <1>4, <1>5 DEF ServeRefresh

LEMMA ServeKeeps ==
  ASSUME TypeOK, NEW w \in Tabs, PageInv(w),
         \/ ServeLogin(w) \/ ServeLogout(w) \/ RefreshFails(w)
         \/ \E k \in Kinds : Throttle(w, k) \/ Lose(w, k)
  PROVE  PageInv(w)' /\ Counted /\ counts'["replays"] = counts["replays"]
  <1>1. "refresh" \in Kinds /\ "login" \in Kinds /\ "logout" \in Kinds BY DEF Kinds
  <1>2. ASSUME ServeLogin(w)
        PROVE  PageInv(w)' /\ Counted /\ counts'["replays"] = counts["replays"]
    <2> DEFINE u == net[w]["login"].user
    <2>1. /\ net[w]["login"].phase = "sent" /\ u \in Users
          /\ UNCHANGED <<expired, cookie, tab, counts>> /\ Counted
      BY <1>2, CountedFacts DEF ServeLogin, TypeOK
    <2>2. CASE Issue(u, {}) /\ Respond(w, "login", TRUE, Len(issued) + 1, u)
      <3>1. "login" \in {"refresh", "login"} OBVIOUS
      <3>2. PageInv(w)' BY <2>1, <2>2, <3>1, IssueKeeps
      <3>3. QED BY <2>1, <3>2
    <2>3. CASE Respond(w, "login", FALSE, Keep, NoUser) /\ UNCHANGED <<issued, live>>
      <3>1. Unspent' = Unspent BY <2>1, <2>3 DEF Unspent
      <3>2. PageInv(w)' BY <1>1, <2>1, <2>3, <3>1, RefuseKeeps
      <3>3. QED BY <2>1, <3>2
    <2>4. QED BY <1>2, <2>2, <2>3 DEF ServeLogin
  <1>3. ASSUME ServeLogout(w)
        PROVE  PageInv(w)' /\ Counted /\ counts'["replays"] = counts["replays"]
    <2>1. /\ net[w]["logout"].phase = "sent" /\ Respond(w, "logout", TRUE, NoCookie, NoUser)
          /\ UNCHANGED <<issued, cookie, tab, counts>> /\ Counted
          /\ Unspent \ {net[w]["logout"].presented} \subseteq Unspent'
      BY <1>3, CountedFacts DEF ServeLogout, Unspent
    <2>2. ~Undisturbed /\ ~Undisturbed' BY <2>1, EventFacts DEF PageInv, Honest
    <2>3. PageInv(w)' BY <1>1, <2>1, <2>2, RefuseKeeps
    <2>4. QED BY <2>1, <2>3
  <1>4. ASSUME RefreshFails(w)
        PROVE  PageInv(w)' /\ Counted /\ counts'["replays"] = counts["replays"]
    <2>1. /\ net[w]["refresh"].phase = "sent"
          /\ Respond(w, "refresh", FALSE, NoCookie, NoUser) /\ Count("lost")
          /\ UNCHANGED <<issued, cookie, tab>>
          /\ Unspent \ {net[w]["refresh"].presented} \subseteq Unspent'
      BY <1>4 DEF RefreshFails, Unspent
    <2>2. Counted /\ counts'["lost"] # 0 /\ counts'["replays"] = counts["replays"]
      BY <2>1, CountFacts, CountedFacts DEF Events
    <2>3. PageInv(w)' BY <1>1, <2>1, <2>2, RefuseKeeps DEF Undisturbed
    <2>4. QED BY <2>2, <2>3
  <1>5. ASSUME NEW k \in Kinds, Throttle(w, k)
        PROVE  PageInv(w)' /\ Counted /\ counts'["replays"] = counts["replays"]
    <2>1. /\ net[w][k].phase = "sent" /\ Respond(w, k, FALSE, Keep, NoUser)
          /\ UNCHANGED <<issued, cookie, tab, counts>> /\ Counted /\ Unspent' = Unspent
      BY <1>5, CountedFacts DEF Throttle, Unspent
    <2>2. PageInv(w)' BY <2>1, RefuseKeeps
    <2>3. QED BY <2>1, <2>2
  <1>6. ASSUME NEW k \in Kinds, Lose(w, k)
        PROVE  PageInv(w)' /\ Counted /\ counts'["replays"] = counts["replays"]
    <2>1. /\ net[w][k].phase # "none" /\ Respond(w, k, FALSE, Keep, NoUser) /\ Count("lost")
          /\ UNCHANGED <<issued, cookie, tab>> /\ Unspent' = Unspent
      BY <1>6 DEF Lose, Unspent
    <2>2. Counted /\ counts'["lost"] # 0 /\ counts'["replays"] = counts["replays"]
      BY <2>1, CountFacts, CountedFacts DEF Events
    <2>3. PageInv(w)' BY <2>1, <2>2, RefuseKeeps DEF Undisturbed
    <2>4. QED BY <2>2, <2>3
  <1>7. QED BY <1>2, <1>3, <1>4, <1>5, <1>6


LEMMA ReceiveKeeps ==
  ASSUME TypeOK, SessionInv, NEW w \in Tabs, Receive(w)
  PROVE  PageInv(w)' /\ UNCHANGED counts
  <1>1. /\ PageInv(w) /\ tab[w] \in Page
        /\ "refresh" \in Kinds /\ "login" \in Kinds /\ "logout" \in Kinds
        /\ net[w]["refresh"].user \in Users \cup {NoUser}
        /\ net[w]["login"].user \in Users \cup {NoUser}
    BY DEF SessionInv, TypeOK, Kinds, Exchange
  <1>2. CASE ReceiveRefresh(w)
    <2> DEFINE r == net[w]["refresh"]
               waiting == {i \in Calls : call[w][i].phase = "waiting"}
    <2>1. /\ r.phase = "back" /\ net' = [net EXCEPT ![w]["refresh"] = Silent]
          /\ cookie' = Stored(r.set) /\ UNCHANGED <<issued, live, expired, counts>>
      BY <1>2 DEF ReceiveRefresh
    <2>2. CASE r.ok
      <3> DEFINE page == [SignedIn(tab[w], r.user) EXCEPT !.state = "ready"]
      <3>1. page \in Page /\ page.user = r.user BY <1>1, Pages
      <3>2. tab' = [tab EXCEPT ![w] = page] BY <1>2, <2>2 DEF ReceiveRefresh, TypeOK
      <3> HIDE DEF page
      <3>3. tab'[w].user = r.user BY <3>1, <3>2, TabFacts
      <3>4. Arriving(w, "refresh") /\ "refresh" \in {"refresh", "login"}
        BY <2>1, <2>2 DEF Arriving
      <3>5. PageInv(w)' BY <1>1, <2>1, <3>3, <3>4, TakeKeeps
      <3>6. QED BY <2>1, <3>5
    <2>3. CASE ~r.ok
      <3> DEFINE c == IF waiting = {} THEN tab[w].cached ELSE {}
                 page == [EndSession(tab[w]) EXCEPT !.state = "ready", !.cached = c]
      <3>1. c \in SUBSET Users BY <1>1 DEF Page
      <3>2. page \in Page /\ page.user = NoUser
        <4> HIDE DEF c
        <4>1. QED BY <1>1, <3>1 DEF EndSession, Page
      <3>3. tab' = [tab EXCEPT ![w] = page] BY <1>2, <2>3 DEF ReceiveRefresh, TypeOK
      <3> HIDE DEF page, c
      <3>4. tab'[w].user = NoUser BY <3>2, <3>3, TabFacts
      <3>5. ~Arriving(w, "refresh") BY <2>3 DEF Arriving
      <3>6. PageInv(w)' BY <1>1, <2>1, <3>4, <3>5, FailKeeps
      <3>7. QED BY <2>1, <3>6
    <2>4. QED BY <2>2, <2>3
  <1>3. CASE ReceiveLogin(w)
    <2> DEFINE r == net[w]["login"]
    <2>1. /\ r.phase = "back" /\ net' = [net EXCEPT ![w]["login"] = Silent]
          /\ cookie' = Stored(r.set) /\ UNCHANGED <<issued, live, expired, counts>>
      BY <1>3 DEF ReceiveLogin
    <2>2. CASE r.ok
      <3> DEFINE page == [SignedIn(tab[w], r.user) EXCEPT !.cached = {}]
      <3>1. page \in Page /\ page.user = r.user BY <1>1, Pages
      <3>2. tab' = [tab EXCEPT ![w] = page] BY <1>3, <2>2 DEF ReceiveLogin, TypeOK
      <3> HIDE DEF page
      <3>3. tab'[w].user = r.user BY <3>1, <3>2, TabFacts
      <3>4. Arriving(w, "login") /\ "login" \in {"refresh", "login"}
        BY <2>1, <2>2 DEF Arriving
      <3>5. PageInv(w)' BY <1>1, <2>1, <3>3, <3>4, TakeKeeps
      <3>6. QED BY <2>1, <3>5
    <2>3. CASE ~r.ok
      <3>1. tab' = tab BY <1>3, <2>3 DEF ReceiveLogin
      <3>2. ~Arriving(w, "login") BY <2>3 DEF Arriving
      <3>3. PageInv(w)' BY <1>1, <2>1, <3>1, <3>2, FailKeeps
      <3>4. QED BY <2>1, <3>3
    <2>4. QED BY <2>2, <2>3
  <1>4. CASE ReceiveLogout(w)
    <2> DEFINE r == net[w]["logout"]
    <2>1. /\ r.phase = "back" /\ net' = [net EXCEPT ![w]["logout"] = Silent]
          /\ cookie' = Stored(r.set) /\ UNCHANGED <<issued, live, expired, counts>>
          /\ tab' = [tab EXCEPT ![w] = EndSession(tab[w])]
      BY <1>4 DEF ReceiveLogout, TypeOK
    <2>2. EndSession(tab[w]) \in Page /\ EndSession(tab[w]).user = NoUser
      BY <1>1 DEF EndSession, Page
    <2>3. tab'[w].user = NoUser BY <2>1, <2>2, TabFacts
    <2>4. ~Arriving(w, "logout") BY DEF Arriving
    <2>5. tab'[w].user = IF "logout" = "login" THEN tab[w].user ELSE NoUser BY <2>3
    <2>6. PageInv(w)' BY <1>1, <2>1, <2>4, <2>5, FailKeeps
    <2>7. QED BY <2>1, <2>6
  <1>5. QED BY <1>2, <1>3, <1>4 DEF Receive

LEMMA SessionKept ==
  OneTab /\ TypeOK /\ SessionInv /\ [Next]_vars => SessionInv'
  <1> SUFFICES ASSUME OneTab, TypeOK, SessionInv, [Next]_vars PROVE SessionInv'
    OBVIOUS
  <1>1. ASSUME NEW w \in Tabs, PageInv(w)', Counted,
               Undisturbed => counts'["replays"] = counts["replays"]
        PROVE  SessionInv'
    <2>1. \A v \in Tabs : v = w BY DEF OneTab
    <2>2. \A v \in Tabs : PageInv(v)' BY <1>1, <2>1
    <2>3. Undisturbed' => Undisturbed BY <1>1, EventFacts
    <2>4. QED BY <1>1, <2>2, <2>3 DEF SessionInv
  <1>2. ASSUME NEW w \in Tabs,
               \/ Load(w) \/ StartLogout(w) \/ AccessExpires(w)
               \/ \E u \in Users : StartLogin(w, u)
               \/ \E i \in Calls : StartCall(w, i) \/ ApiAnswers(w, i)
        PROVE  SessionInv'
    <2>1. PageInv(w) BY DEF SessionInv
    <2>2. PageInv(w)' /\ Counted /\ counts'["replays"] = counts["replays"]
      BY <1>2, <2>1, AskKeeps
    <2>3. QED BY <1>1, <2>2
  <1>3. ASSUME NEW w \in Tabs, ServeRefresh(w) PROVE SessionInv'
    <2>1. PageInv(w) BY DEF SessionInv
    <2>2. PageInv(w)' /\ Counted /\ (Undisturbed => counts'["replays"] = counts["replays"])
      BY <1>3, <2>1, ServeRefreshKeeps
    <2>3. QED BY <1>1, <2>2
  <1>4. ASSUME NEW w \in Tabs,
               \/ ServeLogin(w) \/ ServeLogout(w) \/ RefreshFails(w)
               \/ \E k \in Kinds : Throttle(w, k) \/ Lose(w, k)
        PROVE  SessionInv'
    <2>1. PageInv(w) BY DEF SessionInv
    <2>2. PageInv(w)' /\ Counted /\ counts'["replays"] = counts["replays"]
      BY <1>4, <2>1, ServeKeeps
    <2>3. QED BY <1>1, <2>2
  <1>5. ASSUME NEW w \in Tabs, Receive(w) PROVE SessionInv'
    <2>1. PageInv(w)' /\ UNCHANGED counts BY <1>5, ReceiveKeeps
    <2>2. Counted BY <2>1, CountedFacts
    <2>3. QED BY <1>1, <2>1, <2>2
  <1>6. ASSUME UNCHANGED <<issued, cookie, tab, net, counts>>, Unspent' = Unspent
        PROVE  SessionInv'
    <2>1. Counted BY <1>6, CountedFacts
    <2>2. ASSUME NEW w \in Tabs PROVE PageInv(w)'
      <3>1. PageInv(w) BY DEF SessionInv
      <3>2. QED BY <1>6, <2>1, <3>1, CalmKeeps
    <2>3. QED BY <1>6, <2>2 DEF SessionInv, Undisturbed
  <1>7. ASSUME NEW t \in live, Expire(t) PROVE SessionInv'
    <2>1. Unspent' = Unspent BY <1>7 DEF Expire, Unspent
    <2>2. QED BY <1>6, <1>7, <2>1 DEF Expire
  <1>8. CASE UNCHANGED vars
    <2>1. Unspent' = Unspent BY <1>8 DEF vars, Unspent
    <2>2. QED BY <1>6, <1>8, <2>1 DEF vars
  <1>9. QED
    BY <1>2, <1>3, <1>4, <1>5, <1>7, <1>8 DEF Next, Serve

LEMMA SessionHolds == Spec => [](OneTab => SessionInv)
  <1>1. Init => (OneTab => SessionInv) BY SessionInit
  <1>2. TypeOK /\ (OneTab => SessionInv) /\ [Next]_vars => (OneTab => SessionInv)'
    BY SessionKept DEF OneTab
  <1>3. QED BY <1>1, <1>2, WebTypeCorrect, PTL DEF Spec

(***************************************************************************)
(* A browser with one page is never answered as a thief while nothing is   *)
(* lost and nobody logs out, for any number of accounts, logins, reloads   *)
(* and API requests that meet a 401 together (api-client.ts 29-63).        *)
(***************************************************************************)
THEOREM ReplayAlwaysExplained == Spec => []ReplayExplained
  <1>1. (OneTab => SessionInv) => ReplayExplained
    BY DEF SessionInv, Undisturbed, ReplayExplained
  <1>2. QED BY <1>1, SessionHolds, PTL

(***************************************************************************)
(* Until the server sees a replay, the only page of a browser holds the    *)
(* cookie of the very account it shows whenever it is at rest, whatever    *)
(* was lost, refused or overtaken on the way (AuthProvider.tsx 65-118).    *)
(***************************************************************************)
THEOREM SignedInAlwaysRenewable == Spec => []SignedInIsRenewable
  <1>1. (OneTab => SessionInv) => SignedInIsRenewable
    <2> SUFFICES ASSUME OneTab, SessionInv, counts["replays"] = 0, NEW w \in Tabs,
                        Quiet(w), tab[w].user # NoUser
                 PROVE  cookie \in live \cup expired /\ issued[cookie] = tab[w].user
      BY DEF SignedInIsRenewable
    <2>1. Renewable(w) BY DEF SessionInv, PageInv
    <2>2. net[w]["refresh"].phase = "none" /\ net[w]["logout"].phase = "none"
      BY DEF Quiet, Kinds
    <2>3. QED BY <2>1, <2>2 DEF Renewable, Unspent
  <1>2. QED BY <1>1, SessionHolds, PTL

=============================================================================
