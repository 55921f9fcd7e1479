------------------------------- MODULE Panels -------------------------------
(***************************************************************************)
(* An analytics page over the request pipeline: its controls name queries, *)
(* React Query fetches, retries and keeps their answers, and QueryState    *)
(* shows them.                                                             *)
(***************************************************************************)
EXTENDS Requests

CONSTANTS
  Metrics, Kinds, CostMap,  \* metrics; heatmap types, region-category among them
  Periods, Products, Branches,  \* choices of the other controls
  PageSize, TotalOf,        \* a page of receipts, and how many a branch has
  None,                     \* nothing chosen
  MaxChanges, MaxFetches    \* bounds: changes of the controls, fetches at once

ASSUME PanelsAssumption ==
  /\ CostMap \in Kinds /\ PageSize \in Nat \ {0} /\ {MaxChanges, MaxFetches} \subseteq Nat
  /\ Metrics # {} /\ TotalOf \in [Branches \cup {None} -> Nat]

VARIABLES
  page,      \* the page that is open
  controls,  \* the state of its controls
  entry,     \* entry[k]: React Query's entry of key k
  changes

vars == <<request, hits, page, controls, entry, changes>>

\* "none": no page is open, and other clients call other routes.  Routes are
\* counted apart, so nothing is lost by not letting the two overlap.
Pages == {"trend", "heatmap", "list", "dashboard", "basket", "none"}
InitialControls(p) ==
  CASE p = "trend"     -> [metrics |-> Metrics]
    [] p = "heatmap"   -> [kind |-> CHOOSE t \in Kinds : t # CostMap,
                           metric |-> CHOOSE m \in Metrics : TRUE]
    [] p = "list"      -> [branch |-> None, offset |-> 0]
    [] p = "dashboard" -> [period |-> CHOOSE d \in Periods : TRUE]
    [] p = "basket"    -> [product |-> None]
    [] p = "none"      -> None

\* The query keys the controls stand for, and what is asked under each.
\* Mutant: the heatmap's key leaves the metric out.
KeysOf_NoMetric(p, c) ==
  CASE p = "trend"     -> {<<p, c.metrics>>}
    [] p = "heatmap"   -> {<<p, c.kind, None>>}
    [] p = "list"      -> {<<p, c.branch, c.offset>>}
    [] p = "dashboard" -> {<<p, c.period>>}
    [] p = "basket"    -> IF c.product = None THEN {} ELSE {<<p, c.product>>}
    [] p = "none"      -> {}
KeysOf(p, c) ==
  CASE p = "trend"     -> {<<p, c.metrics>>}
    [] p = "heatmap"   -> {<<p, c.kind, IF c.kind = CostMap THEN None ELSE c.metric>>}
    [] p = "list"      -> {<<p, c.branch, c.offset>>}
    [] p = "dashboard" -> {<<p, c.period>>}
    [] p = "basket"    -> IF c.product = None THEN {} ELSE {<<p, c.product>>}
    [] p = "none"      -> {}

\* What the answer to a key is about, read off the parameters sent with it.
Asked(p, c, k) ==
  CASE p = "heatmap" -> IF c.kind = CostMap THEN <<p, c.kind>> ELSE <<p, c.kind, c.metric>>
    [] p # "heatmap" -> k

\* refused: the API answered it 4xx since it was last asked for, a history
\* variable.
Entry(status) ==
  [status |-> status, data |-> <<>>, asked |-> <<>>, fetch |-> "idle",
   failures |-> 0, refused |-> FALSE]
Unused == Entry("pending")

Queued(e, asked) ==
  [e EXCEPT !.fetch = "queued", !.failures = 0, !.refused = FALSE, !.asked = asked,
            !.status = IF e.data = <<>> THEN "pending" ELSE @]

\* The controls name new keys: what has no data, or only data older than
\* staleTime (old), and is not under way is fetched.
Show(p, c, old) ==
  /\ controls' = c
  /\ entry' = [k \in DOMAIN entry \cup KeysOf(p, c) |->
       LET e == IF k \in DOMAIN entry THEN entry[k] ELSE Unused
       IN IF /\ k \in KeysOf(p, c) \ KeysOf(page, controls) /\ e.fetch = "idle"
             /\ e.status = "success" => k \in old
          THEN Queued(e, Asked(p, c, k)) ELSE e]
  /\ request' = [k \in DOMAIN request \cup KeysOf(p, c) |->
                   IF k \in DOMAIN request THEN request[k] ELSE NoRequest]

Init ==
  /\ hits = [r \in Routes |-> 0] /\ changes = 0
  /\ page \in Pages
  /\ controls = InitialControls(page)
  /\ LET keys == KeysOf(page, controls)
     IN /\ entry = [k \in keys |-> Queued(Unused, Asked(page, controls, k))]
        /\ request = [k \in keys \cup {Health, Undecorated} |-> NoRequest]

---------------------------------------------------------------------------
(* The controls                                                            *)

Change(c) ==
  /\ changes < MaxChanges /\ c # controls
  /\ Cardinality({k \in DOMAIN entry : entry[k].fetch # "idle"}) < MaxFetches
  /\ changes' = changes + 1
  /\ \E old \in SUBSET KeysOf(page, c) : Show(page, c, old)
  /\ UNCHANGED <<hits, page>>

\* At least one metric stays selected.
Toggled(m) ==
  IF m \notin controls.metrics THEN controls.metrics \cup {m}
  ELSE IF controls.metrics = {m} THEN controls.metrics ELSE controls.metrics \ {m}

ToggleMetric(m) == page = "trend" /\ Change([metrics |-> Toggled(m)])

SelectKind(t)   == page = "heatmap" /\ Change([controls EXCEPT !.kind = t])
\* The cost map has no metric to select.
SelectMetric(m) == page = "heatmap" /\ controls.kind # CostMap /\ Change([controls EXCEPT !.metric = m])

SelectPeriod(d) == page = "dashboard" /\ Change([period |-> d])
PickProduct(p)  == page = "basket" /\ Change([product |-> p])

\* A filter starts at the first page.
Filter(b) == page = "list" /\ Change([branch |-> b, offset |-> 0])

Shown(k) == k \in DOMAIN entry /\ entry[k].status = "success"

NextPage ==
  /\ page = "list" /\ \A k \in KeysOf(page, controls) : Shown(k)
  /\ controls.offset + PageSize < TotalOf[controls.branch]
  /\ Change([controls EXCEPT !.offset = @ + PageSize])

PreviousPage ==
  /\ page = "list" /\ \A k \in KeysOf(page, controls) : Shown(k)
  /\ controls.offset > 0
  /\ Change([controls EXCEPT !.offset = @ - PageSize])

\* "Tekrar dene": what failed is asked again, the rest is not.
TryAgain ==
  /\ \E k \in KeysOf(page, controls) : entry[k].status = "error"
  /\ entry' = [k \in DOMAIN entry |->
       IF k \in KeysOf(page, controls) /\ entry[k].status = "error" /\ entry[k].fetch = "idle"
       THEN Queued(entry[k], Asked(page, controls, k)) ELSE entry[k]]
  /\ UNCHANGED <<request, hits, page, controls, changes>>

---------------------------------------------------------------------------
(* React Query                                                             *)

\* With the token of a user who may read; a 401 is WebSession's matter.  The
\* API refuses an empty list of metrics.
Send(k, u) ==
  /\ entry[k].fetch = "queued" /\ request[k].stage = "none"
  /\ entry' = [entry EXCEPT ![k].fetch = "waiting"]
  /\ request' = [request EXCEPT ![k] = Arrived(page, u, entry[k].asked # <<"trend", {}>>)]
  /\ UNCHANGED <<hits, page, controls, changes>>

Refused(k) == ~request[k].lost /\ request[k].status \in 400..499

\* A 4xx is not repeated, anything else twice.  Mutant: the status is not
\* looked at.
Repeats_Any(k) == entry[k].failures < 2
Repeats(k) == ~Refused(k) /\ entry[k].failures < 2

\* Mutant: the failure is not counted.
Again_Uncounted(e) == [e EXCEPT !.fetch = "queued"]
Again(e) == [e EXCEPT !.fetch = "queued", !.failures = @ + 1]

Receive(k) ==
  /\ entry[k].fetch = "waiting" /\ request[k].stage = "closed"
  /\ LET e == [entry[k] EXCEPT !.refused = @ \/ Refused(k)]
     IN entry' = [entry EXCEPT ![k] =
          IF ~request[k].lost /\ request[k].status = 200
            THEN [e EXCEPT !.fetch = "idle", !.status = "success", !.data = e.asked]
          ELSE IF Repeats(k) THEN Again(e)
          ELSE [e EXCEPT !.fetch = "idle", !.status = "error"]]
  /\ request' = [request EXCEPT ![k] = NoRequest]
  /\ UNCHANGED <<hits, page, controls, changes>>

---------------------------------------------------------------------------
(* Other clients of the pipeline: the health probe, and a route nobody     *)
(* decorated.                                                              *)

Call(route, u) ==
  /\ page = "none" /\ request[route].stage = "none"
  /\ request' = [request EXCEPT ![route] = Arrived(route, u, TRUE)]
  /\ UNCHANGED <<hits, page, controls, entry, changes>>

Forget(route) ==
  /\ request[route].stage = "closed"
  /\ request' = [request EXCEPT ![route] = NoRequest]
  /\ UNCHANGED <<hits, page, controls, entry, changes>>

Serve(k) == Admit(k) \/ Handle(k) \/ Finish(k) \/ Close(k)

Control ==
  \/ \E m \in Metrics : ToggleMetric(m) \/ SelectMetric(m)
  \/ \E t \in Kinds : SelectKind(t)
  \/ \E d \in Periods : SelectPeriod(d)
  \/ \E p \in Products : PickProduct(p)
  \/ \E b \in Branches \cup {None} : Filter(b)
  \/ NextPage \/ PreviousPage \/ TryAgain

Next ==
  \/ Control
  \/ \E k \in DOMAIN entry : (\E u \in ReadRoles : Send(k, u)) \/ Receive(k)
  \/ \E route \in {Health, Undecorated} : (\E u \in Users : Call(route, u)) \/ Forget(route)
  \/ (\E k \in DOMAIN request : Serve(k) \/ HangUp(k)) /\ UNCHANGED <<page, controls, entry, changes>>
  \/ WindowEnds /\ UNCHANGED <<page, controls, entry, changes>>

Spec == Init /\ [][Next]_vars

\* Every key the controls can name.
AllKeys ==
  {<<"trend", ms>> : ms \in SUBSET Metrics \ {{}}}
  \cup {<<"heatmap", CostMap, None>>} \cup {"heatmap"} \X (Kinds \ {CostMap}) \X Metrics
  \cup {<<"list", b, n * PageSize>> : b \in Branches \cup {None}, n \in 0..MaxChanges}
  \cup {"dashboard"} \X Periods \cup {"basket"} \X Products

Progress(k) ==
  /\ k \in DOMAIN entry
  /\ \/ \E u \in ReadRoles : Send(k, u)
     \/ Serve(k) /\ UNCHANGED <<page, controls, entry, changes>>
     \/ Receive(k)

\* A queued request is sent, and the API answers what reached it or the
\* connection closes.
FairSpec == Spec /\ \A k \in AllKeys : WF_vars(Progress(k))

---------------------------------------------------------------------------
(* What a page shows                                                       *)

\* The figures on the screen are those of the controls beside them, whatever
\* was asked in between and in whatever order it was answered (ChartsPage,
\* TransactionsPage, DashboardPage, KdsPage; the query keys of their
\* queries.ts); a list is never before its first or past its last page, and a
\* trend never without a metric.
PanelShowsItsControls ==
  /\ \A k \in KeysOf(page, controls) :
       Shown(k) => entry[k].data = Asked(page, controls, k)
  /\ page = "list" =>
       controls.offset >= 0 /\ (controls.offset = 0 \/ controls.offset < TotalOf[controls.branch])
  /\ page = "trend" => controls.metrics # {}

\* "a 4xx in general is not worth repeating" (App.tsx:61): what the API refused
\* is not asked again on the page's own account, so a limit that was hit is not
\* hit harder; and an error is shown only after a refusal or a third failure.
RefusalIsFinal ==
  \A k \in DOMAIN entry :
    /\ entry[k].failures <= 2
    /\ entry[k].refused => entry[k].fetch = "idle"
    /\ entry[k].fetch = "idle" /\ entry[k].status = "error" => entry[k].refused \/ entry[k].failures = 2

\* What the pipeline promises each request (RequestContextMiddleware,
\* JwtAuthGuard, RolesGuard).
PipelineHolds == OneLinePerRequest /\ NothingUnguarded

Busy(k) == k \in DOMAIN entry /\ entry[k].fetch # "idle"

\* A spinner ends (QueryState, the retry of App.tsx): every fetch comes to an
\* answer or an error, however often connections drop, limits are hit and the
\* user changes the controls.
FetchSettles == \A k \in AllKeys : Busy(k) ~> ~Busy(k)

=============================================================================
