------------------------------ MODULE Requests ------------------------------
(***************************************************************************)
(* The request pipeline every route shares: request log, per-route limit,  *)
(* access token, role, validation, handler, envelope or error.  A route    *)
(* takes one request of this client at a time.                             *)
(***************************************************************************)
EXTENDS Integers, FiniteSets

CONSTANTS
  Routes, Health,  \* /health/ready among them
  Undecorated,     \* a route with neither @Public() nor @Roles()
  ReadRoles, Users,  \* the roles of every other route; whom a token names, "none" for none
  Limit            \* GLOBAL_RATE_LIMIT

ASSUME RequestsAssumption ==
  /\ Health \in Routes /\ Undecorated \in Routes /\ Health # Undecorated
  /\ Limit \in Nat \ {0} /\ "none" \notin ReadRoles

VARIABLES
  request,  \* request[k]: the request made under key k
  hits      \* hits[r]: requests to route r in this window

serverVars == <<request, hits>>

\* lines: what the request wrote to the log, a history variable; lost: the
\* connection was gone before the answer was written.
NoRequest == [stage |-> "none", route |-> Health, user |-> "none", valid |-> TRUE,
              status |-> 200, lines |-> 0, lost |-> FALSE]
Arrived(route, user, valid) ==
  [NoRequest EXCEPT !.stage = "arrived", !.route = route, !.user = user, !.valid = valid]

RequiredRoles(route) == IF route = Undecorated THEN {} ELSE ReadRoles
IsPublic(route) == route = Health

\* ThrottlerGuard, which the health routes skip.
Throttled(r) == r.route # Health /\ hits[r.route] >= Limit

\* JwtAuthGuard.
Authenticated(r) == IsPublic(r.route) \/ r.user # "none"

\* RolesGuard, fail closed: a route without @Roles() is nobody's.
Authorized(r) ==
  IsPublic(r.route) \/ (RequiredRoles(r.route) # {} /\ r.user \in RequiredRoles(r.route))

\* The guards in their order, then the validation pipe; a status below 400
\* lets the handler run.
GuardStatus(r) ==
  IF Throttled(r) THEN 429
  ELSE IF ~Authenticated(r) THEN 401
  ELSE IF ~Authorized(r) THEN 403
  ELSE IF ~r.valid THEN 400 ELSE 200

Admit(k) ==
  /\ request[k].stage = "arrived"
  /\ LET status == GuardStatus(request[k])
     IN request' = [request EXCEPT ![k].stage = IF status < 400 THEN "handler" ELSE "send",
                                   ![k].status = status]
  /\ hits' = [hits EXCEPT ![request[k].route] = IF Throttled(request[k]) \/ request[k].route = Health
                                                THEN @ ELSE @ + 1]

\* What the handler returns or throws, and AllExceptionsFilter over it: the
\* readiness probe may find a dependency down, a report may fail.
StatusOf == [data |-> 200, unavailable |-> 503, other |-> 500]

Handle(k) ==
  /\ request[k].stage = "handler"
  /\ \E outcome \in DOMAIN StatusOf :
       /\ outcome = "unavailable" => request[k].route = Health
       /\ request' = [request EXCEPT ![k].stage = "send", ![k].status = StatusOf[outcome]]
  /\ UNCHANGED hits

\* 'finish' and 'close' share one line; a healthy probe writes none.
\* Mutant: every event writes its own.
Log_Each(r) == [r EXCEPT !.lines = IF r.route = Health /\ r.status < 400 THEN @ ELSE @ + 1]
Log(r) ==
  [r EXCEPT !.lines = IF @ > 0 \/ (r.route = Health /\ r.status < 400) THEN @ ELSE @ + 1]

Finish(k) ==
  /\ request[k].stage = "send"
  /\ request' = [request EXCEPT ![k] = [Log(@) EXCEPT !.stage = "finished"]]
  /\ UNCHANGED hits

Close(k) ==
  /\ request[k].stage = "finished"
  /\ request' = [request EXCEPT ![k] = [Log(@) EXCEPT !.stage = "closed"]]
  /\ UNCHANGED hits

\* The client hangs up or the network does: the line carries the status so
\* far, and what the handler still answers goes nowhere.
HangUp(k) ==
  /\ request[k].stage \in {"arrived", "handler", "send"}
  /\ request' = [request EXCEPT ![k] = [Log(@) EXCEPT !.stage = "closed", !.lost = TRUE]]
  /\ UNCHANGED hits

\* The window of RATE_LIMIT_TTL_MS ends.
WindowEnds ==
  /\ hits # [r \in Routes |-> 0]
  /\ hits' = [r \in Routes |-> 0]
  /\ UNCHANGED request

---------------------------------------------------------------------------
\* "one log line per completed request" (request-context.middleware.ts:53),
\* whether it was answered, refused by a guard or cut off, and none for a
\* probe that found everything well (RequestContextMiddleware.use).
OneLinePerRequest ==
  \A k \in DOMAIN request :
    LET r == request[k]
    IN /\ r.lines <= 1
       /\ r.stage = "closed" => (r.lines = 0 <=> r.route = Health /\ r.status < 400)

\* "you cannot forget to guard a new endpoint" (roles.guard.ts:23): data is
\* answered only on a route that is public, or to a user whose role the route
\* names (JwtAuthGuard, RolesGuard).
NothingUnguarded ==
  \A k \in DOMAIN request :
    LET r == request[k]
    IN r.stage = "handler" \/ (r.stage \in {"send", "finished"} /\ r.status = 200) =>
         r.route = Health \/ (r.user \in ReadRoles /\ r.route # Undecorated)

=============================================================================
