----------------------------- MODULE WebSession -----------------------------
(***************************************************************************)
(* The browser's side of a session (apps/web/src/features/auth and         *)
(* lib/api-client.ts): tabs that share one refresh cookie, each with its   *)
(* access token in memory and at most one refresh in flight.  The server   *)
(* answers a request in one step, as SessionLineage allows; Sessions has   *)
(* its statements.                                                         *)
(***************************************************************************)
EXTENDS Integers, Sequences, FiniteSets

CONSTANTS
  Tabs, Calls,   \* open pages, and the slots a page has for API requests
  Users, NoUser,
  MaxTokens,     \* bound: refresh tokens ever issued; 429 afterwards
  MaxLost,       \* bound: requests or responses that never arrive
  MaxLogouts, MaxLoads, MaxStale  \* bounds: logouts, page loads, access expiries

ASSUME WebAssumption ==
  /\ NoUser \notin Users
  /\ MaxTokens \in Nat /\ MaxLost \in Nat
  /\ MaxLogouts \in Nat /\ MaxLoads \in Nat /\ MaxStale \in Nat

VARIABLES
  issued,  \* issued[t]: whose refresh token t is
  live,    \* refresh tokens the server accepts
  expired, \* tokens that ran out and are not revoked: rejected, but no replay
  cookie,  \* the refresh cookie of the browser, NoCookie without one
  tab,     \* tab[w]: what the page keeps in memory
  net,     \* net[w][k]: the auth request of kind k the page waits for
  call,    \* call[w][i]: an API request of the page
  counts   \* the bounded events so far, and the replays the server saw

vars == <<issued, live, expired, cookie, tab, net, call, counts>>

NoCookie == 0
Keep     == -1   \* a response without Set-Cookie

Kinds  == {"refresh", "login", "logout"}
Tokens == DOMAIN issued

\* user is what the page shows and access whose token it holds in memory;
\* cached are the accounts whose answers are in the query cache.
Page == [state : {"closed", "loading", "ready"}, user : Users \cup {NoUser},
         access : Users \cup {NoUser}, fresh : BOOLEAN, cached : SUBSET Users]

Exchange == [phase : {"none", "sent", "back"}, presented : Nat, ok : BOOLEAN,
             set : Nat \cup {Keep}, user : Users \cup {NoUser}]

\* kept: no clear of the query cache since the request was sent.
Request == [phase : {"idle", "sent", "waiting", "again"}, good : BOOLEAN,
            user : Users \cup {NoUser}, kept : BOOLEAN]

TypeOK ==
  /\ issued \in Seq(Users)
  /\ live \subseteq Tokens /\ expired \subseteq Tokens
  /\ cookie \in Tokens \cup {NoCookie}
  /\ tab \in [Tabs -> Page]
  /\ net \in [Tabs -> [Kinds -> Exchange]]
  /\ call \in [Tabs -> [Calls -> Request]]
  /\ counts \in [{"lost", "logouts", "loads", "stale", "replays"} -> Nat]
  /\ \A w \in Tabs, k \in Kinds : /\ net[w][k].presented \in Tokens \cup {NoCookie}
                                  /\ net[w][k].set \in Tokens \cup {NoCookie, Keep}
  /\ \A w \in Tabs : /\ net[w]["login"].phase = "sent" => net[w]["login"].user \in Users
                     /\ \A k \in {"refresh", "login"} : net[w][k].ok => net[w][k].user \in Users
                     /\ tab[w].fresh => tab[w].access \in Users
                     /\ \A i \in Calls : call[w][i].good => call[w][i].user \in Users
  /\ \A w \in Tabs : (tab[w].state = "loading" \/ \E i \in Calls : call[w][i].phase = "waiting")
                       <=> net[w]["refresh"].phase # "none"

Blank   == [state |-> "closed", user |-> NoUser, access |-> NoUser,
            fresh |-> FALSE, cached |-> {}]
Silent  == [phase |-> "none", presented |-> NoCookie, ok |-> FALSE,
            set |-> Keep, user |-> NoUser]
NoCall  == [phase |-> "idle", good |-> FALSE, user |-> NoUser, kept |-> TRUE]

\* A browser with or without a cookie from an earlier visit.
Init ==
  /\ issued \in {<< >>} \cup {<<u>> : u \in Users}
  /\ live = Tokens
  /\ expired = {}
  /\ cookie = Len(issued)
  /\ tab = [w \in Tabs |-> Blank]
  /\ net = [w \in Tabs |-> [k \in Kinds |-> Silent]]
  /\ call = [w \in Tabs |-> [i \in Calls |-> NoCall]]
  /\ counts = [e \in {"lost", "logouts", "loads", "stale", "replays"} |-> 0]

Count(event) == counts' = [counts EXCEPT ![event] = @ + 1]

Sent(user) == [Silent EXCEPT !.phase = "sent", !.presented = cookie, !.user = user]

\* Sends a refresh although one is in flight.
RefreshOnce_Again(w) == [net EXCEPT ![w]["refresh"] = Sent(NoUser)]

\* A refresh in flight is shared; the cookie goes with a new one.
RefreshOnce(w) ==
  IF net[w]["refresh"].phase = "none"
  THEN [net EXCEPT ![w]["refresh"] = Sent(NoUser)]
  ELSE net

-----------------------------------------------------------------------------
(* The page *)

\* A page is opened, or reloaded when nothing is on its way: memory is gone.
Load(w) ==
  /\ counts["loads"] < MaxLoads
  /\ \A k \in Kinds : net[w][k].phase = "none"
  /\ \A i \in Calls : call[w][i].phase = "idle"
  /\ tab' = [tab EXCEPT ![w] = [Blank EXCEPT !.state = "loading"]]
  /\ net' = RefreshOnce(w)
  /\ Count("loads")
  /\ UNCHANGED <<issued, live, expired, cookie, call>>

\* The login form is there while the silent refresh is still running.
StartLogin(w, u) ==
  /\ tab[w].state # "closed" /\ tab[w].user = NoUser
  /\ net[w]["login"].phase = "none"
  /\ net' = [net EXCEPT ![w]["login"] = Sent(u)]
  /\ UNCHANGED <<issued, live, expired, cookie, tab, call, counts>>

StartLogout(w) ==
  /\ counts["logouts"] < MaxLogouts
  /\ tab[w].user # NoUser
  /\ net[w]["logout"].phase = "none"
  /\ net' = [net EXCEPT ![w]["logout"] = Sent(NoUser)]
  /\ Count("logouts")
  /\ UNCHANGED <<issued, live, expired, cookie, tab, call>>

StartCall(w, i) ==
  /\ tab[w].state = "ready" /\ tab[w].user # NoUser
  /\ call[w][i].phase = "idle"
  /\ call' = [call EXCEPT ![w][i] = [phase |-> "sent", good |-> tab[w].fresh,
                                     user |-> tab[w].access, kept |-> TRUE]]
  /\ UNCHANGED <<issued, live, expired, cookie, tab, net, counts>>

\* The answer: data for the query cache, or 401.  The first 401 waits for a
\* refresh, a second one is an error.
AnswerCall(w, i) ==
  LET r == call[w][i]
  IN \/ /\ r.phase \in {"sent", "again"} /\ r.good
        /\ tab' = [tab EXCEPT ![w].cached = IF r.kept THEN @ \cup {r.user} ELSE @]
        /\ call' = [call EXCEPT ![w][i] = NoCall]
        /\ UNCHANGED net
     \/ /\ r.phase = "sent" /\ ~r.good
        /\ call' = [call EXCEPT ![w][i].phase = "waiting"]
        /\ net' = RefreshOnce(w)
        /\ UNCHANGED tab
     \/ /\ r.phase = "again" /\ ~r.good
        /\ call' = [call EXCEPT ![w][i] = NoCall]
        /\ UNCHANGED <<tab, net>>

ApiAnswers(w, i) ==
  /\ AnswerCall(w, i)
  /\ UNCHANGED <<issued, live, expired, cookie, counts>>

\* The access token runs out in memory, for requests on their way as well.
AccessExpires(w) ==
  /\ counts["stale"] < MaxStale
  /\ tab[w].fresh
  /\ tab' = [tab EXCEPT ![w].fresh = FALSE]
  /\ call' = [call EXCEPT ![w] = [i \in Calls |-> [@[i] EXCEPT !.good = FALSE]]]
  /\ Count("stale")
  /\ UNCHANGED <<issued, live, expired, cookie, net>>

-----------------------------------------------------------------------------
(* The server *)

Respond(w, k, ok, set, user) ==
  net' = [net EXCEPT ![w][k] = [@ EXCEPT !.phase = "back", !.ok = ok, !.set = set,
                                         !.user = user]]

Issue(u, spent) ==
  /\ issued' = Append(issued, u)
  /\ live' = (live \ spent) \cup {Len(issued) + 1}

\* The controller clears the cookie on every error but a missing cookie.
ServeRefresh(w) ==
  LET t == net[w]["refresh"].presented
  IN /\ net[w]["refresh"].phase = "sent"
     /\ \/ /\ t = NoCookie
           /\ Respond(w, "refresh", FALSE, Keep, NoUser)
           /\ UNCHANGED <<issued, live, expired, counts>>
        \/ /\ t \in live
           /\ Len(issued) < MaxTokens
           /\ Issue(issued[t], {t})
           /\ Respond(w, "refresh", TRUE, Len(issued) + 1, issued[t])
           /\ UNCHANGED <<expired, counts>>
        \/ /\ t \in expired
           /\ Respond(w, "refresh", FALSE, NoCookie, NoUser)
           /\ UNCHANGED <<issued, live, expired, counts>>
        \/ /\ t \in Tokens \ (live \cup expired)
           /\ live' = {s \in live : issued[s] # issued[t]}
           /\ expired' = {s \in expired : issued[s] # issued[t]}
           /\ Count("replays")
           /\ Respond(w, "refresh", FALSE, NoCookie, NoUser)
           /\ UNCHANGED issued
     /\ UNCHANGED <<cookie, tab, call>>

\* The credentials are right, or they are not.
ServeLogin(w) ==
  LET u == net[w]["login"].user
  IN /\ net[w]["login"].phase = "sent"
     /\ \/ /\ Len(issued) < MaxTokens
           /\ Issue(u, {})
           /\ Respond(w, "login", TRUE, Len(issued) + 1, u)
        \/ /\ Respond(w, "login", FALSE, Keep, NoUser)
           /\ UNCHANGED <<issued, live>>
     /\ UNCHANGED <<expired, cookie, tab, call, counts>>

ServeLogout(w) ==
  /\ net[w]["logout"].phase = "sent"
  /\ live' = live \ {net[w]["logout"].presented}
  /\ expired' = expired \ {net[w]["logout"].presented}
  /\ Respond(w, "logout", TRUE, NoCookie, NoUser)
  /\ UNCHANGED <<issued, cookie, tab, call, counts>>

\* The throttler answers 429 before any controller runs; a logout it refuses
\* is one that Lose breaks.
Throttle(w, k) ==
  /\ k # "logout" /\ net[w][k].phase = "sent"
  /\ Len(issued) = MaxTokens
  /\ Respond(w, k, FALSE, Keep, NoUser)
  /\ UNCHANGED <<issued, live, expired, cookie, tab, call, counts>>

\* The connection breaks before or after the server has done its work.
Lose(w, k) ==
  /\ counts["lost"] < MaxLost
  /\ net[w][k].phase = "sent" \/ (net[w][k].phase = "back" /\ net[w][k].set # Keep)
  /\ Respond(w, k, FALSE, Keep, NoUser)
  /\ Count("lost")
  /\ UNCHANGED <<issued, live, expired, cookie, tab, call>>

\* A statement of the rotation fails, before or after the claim.
RefreshFails(w) ==
  /\ counts["lost"] < MaxLost
  /\ net[w]["refresh"].phase = "sent"
  /\ net[w]["refresh"].presented \in live
  /\ live' \in {live, live \ {net[w]["refresh"].presented}}
  /\ Respond(w, "refresh", FALSE, NoCookie, NoUser)
  /\ Count("lost")
  /\ UNCHANGED <<issued, expired, cookie, tab, call>>

\* The browser may drop its copy then; an expired one is answered alike.
Expire(t) ==
  /\ t \in live
  /\ live' = live \ {t}
  /\ expired' = expired \cup {t}
  /\ UNCHANGED <<issued, cookie, tab, net, call, counts>>

-----------------------------------------------------------------------------
(* Answers reach the page *)

Stored(set) == IF set = Keep THEN cookie ELSE set

\* Forgets the access token and goes on showing the user.
EndSession_TokenOnly(page) == [page EXCEPT !.access = NoUser, !.fresh = FALSE]

EndSession(page) ==
  [page EXCEPT !.access = NoUser, !.fresh = FALSE, !.user = NoUser, !.cached = {}]

SignedIn(page, u) == [page EXCEPT !.access = u, !.fresh = TRUE, !.user = u]

\* queryClient.clear(): an answer still on its way is not cached any more.
Dropped(w) == [i \in Calls |-> [call[w][i] EXCEPT !.kept = FALSE]]

\* A failed refresh goes through the retry path: it waits for itself.
ReceiveRefresh_Reentrant(w) ==
  LET r == net[w]["refresh"]
  IN /\ r.phase = "back"
     /\ IF r.ok
        THEN /\ cookie' = Stored(r.set)
             /\ net' = [net EXCEPT ![w]["refresh"] = Silent]
             /\ tab' = [tab EXCEPT ![w] = [SignedIn(@, r.user) EXCEPT !.state = "ready"]]
             /\ call' = [call EXCEPT ![w] = [i \in Calls |->
                           IF @[i].phase = "waiting"
                           THEN [@[i] EXCEPT !.phase = "again", !.good = TRUE,
                                             !.user = r.user]
                           ELSE @[i]]]
        ELSE /\ net' = RefreshOnce(w)
             /\ UNCHANGED <<cookie, tab, call>>
     /\ UNCHANGED <<issued, live, expired, counts>>

\* The promise every waiter shares settles: the page that is loading shows the
\* user, requests that got a 401 are sent again.  Without a token a waiting
\* request ends the session; the silent refresh only shows nobody.
ReceiveRefresh(w) ==
  LET r       == net[w]["refresh"]
      waiting == {i \in Calls : call[w][i].phase = "waiting"}
  IN /\ r.phase = "back"
     /\ cookie' = Stored(r.set)
     /\ net' = [net EXCEPT ![w]["refresh"] = Silent]
     /\ IF r.ok
        THEN /\ tab' = [tab EXCEPT ![w] = [SignedIn(@, r.user) EXCEPT !.state = "ready"]]
             /\ call' = [call EXCEPT ![w] = [i \in Calls |->
                           IF i \in waiting
                           THEN [@[i] EXCEPT !.phase = "again", !.good = TRUE,
                                             !.user = r.user]
                           ELSE @[i]]]
        ELSE /\ tab' = [tab EXCEPT ![w] =
                          [EndSession(@) EXCEPT
                             !.state = "ready",
                             !.cached = IF waiting = {} THEN tab[w].cached ELSE {}]]
             /\ call' = [call EXCEPT ![w] = [i \in Calls |->
                           IF i \in waiting THEN NoCall
                           ELSE IF waiting = {} THEN @[i] ELSE Dropped(w)[i]]]
     /\ UNCHANGED <<issued, live, expired, counts>>

ReceiveLogin(w) ==
  LET r == net[w]["login"]
  IN /\ r.phase = "back"
     /\ cookie' = Stored(r.set)
     /\ net' = [net EXCEPT ![w]["login"] = Silent]
     /\ IF r.ok
        THEN /\ tab' = [tab EXCEPT ![w] = [SignedIn(@, r.user) EXCEPT !.cached = {}]]
             /\ call' = [call EXCEPT ![w] = Dropped(w)]
        ELSE UNCHANGED <<tab, call>>
     /\ UNCHANGED <<issued, live, expired, counts>>

\* A logout that fails still ends the session in the page.
ReceiveLogout(w) ==
  LET r == net[w]["logout"]
  IN /\ r.phase = "back"
     /\ cookie' = Stored(r.set)
     /\ net' = [net EXCEPT ![w]["logout"] = Silent]
     /\ tab' = [tab EXCEPT ![w] = EndSession(@)]
     /\ call' = [call EXCEPT ![w] = Dropped(w)]
     /\ UNCHANGED <<issued, live, expired, counts>>

-----------------------------------------------------------------------------
Serve(w) ==
  \/ ServeRefresh(w) \/ ServeLogin(w) \/ ServeLogout(w)
  \/ \E k \in Kinds : Throttle(w, k)

Receive(w) == ReceiveRefresh(w) \/ ReceiveLogin(w) \/ ReceiveLogout(w)

Next ==
  \/ \E w \in Tabs :
       \/ Load(w) \/ StartLogout(w) \/ AccessExpires(w)
       \/ \E u \in Users : StartLogin(w, u)
       \/ \E i \in Calls : StartCall(w, i) \/ ApiAnswers(w, i)
       \/ Serve(w) \/ Receive(w) \/ RefreshFails(w)
       \/ \E k \in Kinds : Lose(w, k)
  \/ \E t \in live : Expire(t)

Spec == Init /\ [][Next]_vars

\* A request is answered or fails, and its answer is handled.
Fairness ==
  \A w \in Tabs :
    /\ WF_vars(ServeRefresh(w) \/ Throttle(w, "refresh"))
    /\ WF_vars(ReceiveRefresh(w))
    /\ \A i \in Calls : WF_vars(ApiAnswers(w, i))

FairSpec == Spec /\ Fairness

-----------------------------------------------------------------------------
Quiet(w) ==
  /\ \A k \in Kinds : net[w][k].phase = "none"
  /\ \A i \in Calls : call[w][i].phase # "waiting"

\* The browser has one page open at most.
OneTab == \A v, w \in Tabs : v = w

(***************************************************************************)
(* With one tab, whatever is lost and however logins, logouts and          *)
(* refreshes overlap, until the server sees a replay: a page at rest that  *)
(* shows somebody holds a cookie that can renew that very account's        *)
(* session, unless the cookie ran out (AuthProvider.tsx 65-118).           *)
(***************************************************************************)
SignedInIsRenewable ==
  OneTab /\ counts["replays"] = 0 => \A w \in Tabs :
    Quiet(w) /\ tab[w].user # NoUser =>
      /\ cookie \in live \cup expired
      /\ issued[cookie] = tab[w].user

(***************************************************************************)
(* A single tab whose answers all arrive is never taken for a thief,       *)
(* except when a logout overtakes a refresh that is on its way             *)
(* (AuthProvider.tsx 29-45).                                               *)
(***************************************************************************)
ReplayExplained ==
  OneTab /\ counts["lost"] = 0 /\ counts["logouts"] = 0 => counts["replays"] = 0

(***************************************************************************)
(* A loading page becomes ready, and a request that waits for a refresh is *)
(* sent again or fails (api-client.ts 49-63).                              *)
(***************************************************************************)
Settles ==
  \A w \in Tabs :
    /\ tab[w].state = "loading" ~> tab[w].state = "ready"
    /\ \A i \in Calls : call[w][i].phase = "waiting" ~> call[w][i].phase = "idle"

-----------------------------------------------------------------------------
(* What comments promise and the pages do not always keep.                 *)

(***************************************************************************)
(* login-throttle.ts 16-18: tabs renew their session at the same time, and *)
(* legitimately so; none of them is taken for a thief.                     *)
(***************************************************************************)
TabsAreNoThieves ==
  counts["lost"] = 0 /\ counts["logouts"] = 0 => counts["replays"] = 0

(***************************************************************************)
(* AuthProvider.tsx 55-64: signing in as somebody else never serves the    *)
(* previous account's cached answers.                                      *)
(***************************************************************************)
CacheIsOwn == \A w \in Tabs : tab[w].cached \subseteq {tab[w].user}

(***************************************************************************)
(* AuthProvider.tsx 113-118: a logout drops the session, so a page that    *)
(* has loaded and shows nobody shows somebody only after a login.          *)
(***************************************************************************)
OnlyLoginSignsIn ==
  [][\A w \in Tabs :
       tab[w].state = "ready" /\ tab[w].user = NoUser /\ tab'[w].user # NoUser
         => net[w]["login"].phase = "back" /\ net'[w]["login"].phase = "none"]_vars

=============================================================================
