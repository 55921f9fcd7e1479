---------------------------- MODULE ForecastPage ----------------------------
(***************************************************************************)
(* The forecast page (apps/web/src/features/forecast/ForecastPage.tsx) of  *)
(* each user over ForecastRuns: the result on screen, fed by a run of the  *)
(* form's scenario and by a restored run, and the list of past runs.       *)
(***************************************************************************)
EXTENDS ForecastRuns, FiniteSetsExt

CONSTANTS
  Screens,   \* the pages whose screen is followed; the others only run forecasts
  PageStep,  \* rows the list grows by
  MaxLimit   \* bound: rows the list grows to

ASSUME PageAssumption == Screens \subseteq Pages /\ PageStep \in Nat \ {0}

VARIABLE page  \* page[p]: the state of ForecastPage and RunHistory

vars == <<runVars, page>>

\* result and shown are the run and the scenario on screen, next the rows
\* of a list on its way, listLost that reading the list failed, wanted what
\* the user asked for last, NoParams once that failed, mixed that it was asked
\* while another answer was still to come, own the run it was told is saved.
PageState ==
  [result : Nat, shown : Params \cup {NoParams},
   restore : {"idle", "asked", "found", "gone"}, restoreId : Nat,
   list : SUBSET Nat, limit : Nat, fetch : {"none", "asked", "read"}, next : SUBSET Nat,
   listLost : BOOLEAN, wanted : Params \cup {NoParams}, mixed : BOOLEAN, own : Nat]

TypeOK ==
  /\ RunsTypeOK
  /\ page \in [Screens -> PageState]
  /\ \A p \in Screens :
       /\ page[p].list \cup page[p].next \subseteq 1..Len(made)
       /\ {page[p].result, page[p].own, page[p].restoreId} \subseteq 0..Len(made)
       /\ page[p].restore = "idle" <=> page[p].restoreId = 0

Init ==
  /\ RunsInit
  /\ page = [p \in Screens |->
       [result |-> 0, shown |-> NoParams,
        restore |-> "idle", restoreId |-> 0, list |-> {}, limit |-> PageStep,
        fetch |-> "asked", next |-> {}, listLost |-> FALSE,
        wanted |-> NoParams, mixed |-> FALSE, own |-> 0]]

Pending(p) == req[p].phase # "idle" \/ page[p].restore # "idle"

\* x is what the form holds.  The button is disabled while a run is pending,
\* not while a restore is.
Submit(p, x) ==
  /\ Ask(p, x)
  /\ page' = [page EXCEPT ![p].wanted = x, ![p].mixed = Pending(p)]

\* Every button of the list is disabled while a restore is pending.
Restore(p, i) ==
  /\ page[p].restore = "idle" /\ i \in page[p].list
  /\ page' = [page EXCEPT ![p].restore = "asked", ![p].restoreId = i,
                          ![p].wanted = made[i], ![p].mixed = Pending(p)]
  /\ UNCHANGED runVars

\* findUniqueOrThrow: 404 for a run pruned since the list was read.
ServeRestore(p) ==
  /\ page[p].restore = "asked"
  /\ page' = [page EXCEPT ![p].restore = IF page[p].restoreId \in runs THEN "found" ELSE "gone"]
  /\ UNCHANGED runVars

\* setResult: the last answer to arrive is on screen.  Mutants: the labels
\* are those of the last request; a run of the page wins over a restored one.
Show_LastAsked(p, i, x, byRun) == [page[p] EXCEPT !.result = i, !.shown = page[p].wanted]
Show_MutationData(p, i, x, byRun) ==
  IF byRun \/ page[p].own = 0 THEN [page[p] EXCEPT !.result = i, !.shown = x] ELSE page[p]
Show(p, i, x, byRun) == [page[p] EXCEPT !.result = i, !.shown = x]

\* invalidateQueries restarts a fetch in flight.  Mutant: it is left to
\* finish.
Refetch_Dedupe(s) == [s EXCEPT !.fetch = IF @ = "none" THEN "asked" ELSE @]
Refetch(s) == [s EXCEPT !.fetch = "asked", !.next = {}]

RunSucceeds(p) ==
  /\ req[p].phase = "done"
  /\ Receive(p)
  /\ page' = [page EXCEPT ![p] =
       Refetch([Show(p, req[p].id, req[p].params, TRUE) EXCEPT !.own = req[p].id])]

\* The error is shown beside the form; the result stays.
RunFails(p) ==
  /\ req[p].phase = "error"
  /\ Receive(p)
  /\ page' = [page EXCEPT ![p].wanted = NoParams]

RestoreSucceeds(p) ==
  /\ page[p].restore = "found"
  /\ page' = [page EXCEPT ![p] =
       [Show(p, @.restoreId, made[@.restoreId], FALSE)
          EXCEPT !.restore = "idle", !.restoreId = 0]]
  /\ UNCHANGED runVars

RestoreFails(p) ==
  /\ page[p].restore \in {"asked", "gone"}
  /\ page' = [page EXCEPT ![p].restore = "idle", ![p].restoreId = 0, ![p].wanted = NoParams]
  /\ UNCHANGED runVars

---------------------------------------------------------------------------
(* useForecastRuns(limit): newest first.                                   *)

TopRuns(n) == {i \in runs : Cardinality(Newer(i)) < n}

ServeList(p) ==
  /\ page[p].fetch = "asked"
  /\ page' = [page EXCEPT ![p].fetch = "read", ![p].next = TopRuns(page[p].limit)]
  /\ UNCHANGED runVars

ReceiveList(p) ==
  /\ page[p].fetch = "read"
  /\ page' = [page EXCEPT ![p].fetch = "none", ![p].list = page[p].next,
                          ![p].next = {}, ![p].listLost = FALSE]
  /\ UNCHANGED runVars

ListFails(p) ==
  /\ page[p].fetch = "asked"
  /\ page' = [page EXCEPT ![p].fetch = "none", ![p].listLost = TRUE]
  /\ UNCHANGED runVars

\* Offered while the list is full and not loading; the larger list is
\* another query, empty until it answers.
ShowMore(p) ==
  /\ Cardinality(page[p].list) >= page[p].limit /\ page[p].fetch = "none"
  /\ page[p].limit < MaxLimit
  /\ page' = [page EXCEPT ![p].limit = @ + PageStep, ![p].list = {}, ![p].fetch = "asked"]
  /\ UNCHANGED runVars

Server(p) == Serve(p) /\ UNCHANGED page

Elsewhere(p) == ((\E x \in Params : Ask(p, x)) \/ Receive(p)) /\ UNCHANGED page

Next ==
  \/ \E p \in Screens :
       \/ \E x \in Params : Submit(p, x)
       \/ RunSucceeds(p) \/ RunFails(p)
       \/ \E i \in page[p].list : Restore(p, i)
       \/ ServeRestore(p) \/ RestoreSucceeds(p) \/ RestoreFails(p)
       \/ ServeList(p) \/ ReceiveList(p) \/ ListFails(p) \/ ShowMore(p)
  \/ \E p \in Pages : Server(p) \/ (DeleteUser(p) /\ UNCHANGED page)
  \/ \E p \in Pages \ Screens : Elsewhere(p)

Spec == Init /\ [][Next]_vars

---------------------------------------------------------------------------
\* The numbers on screen carry the run number and the scenario of one saved
\* run, whatever the form says by then (result.params, loadForecastRun).
ResultIsItsRun ==
  \A p \in Screens : page[p].result # 0 => page[p].shown = made[page[p].result]

\* With nothing pending, the screen has what was asked for last unless that
\* failed or was asked while another answer was still to come: a run and a
\* restore do not wait for each other, and the later answer wins.
ScreenExplained ==
  \A p \in Screens : ~Pending(p) /\ ~page[p].mixed /\ page[p].wanted # NoParams =>
                     page[p].shown = page[p].wanted

\* A run the page was told is saved is in its list, unless the list is being
\* read again, that reading failed, or newer runs pushed it out.
OwnRunListed ==
  \A p \in Screens : LET i == page[p].own IN
    i = 0 \/ i \in page[p].list \/ page[p].fetch # "none" \/ page[p].listLost
      \/ i \notin TopRuns(page[p].limit)

=============================================================================
