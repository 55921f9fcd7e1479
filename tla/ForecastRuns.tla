---------------------------- MODULE ForecastRuns ----------------------------
(***************************************************************************)
(* Saving and pruning forecast runs: POST /spatial-forecast/run by several *)
(* users at once.  Each Prisma call is a step; an insert draws its id from *)
(* the sequence before it commits.                                         *)
(***************************************************************************)
EXTENDS Integers, Sequences, FiniteSets

CONSTANTS
  Pages,     \* a signed-in user with the forecast page open
  Params, NoParams,  \* scenarios
  Deletable, \* bound: the user an administrator may delete
  Retained,  \* RETAINED_RUNS
  MaxRuns    \* bound: ids drawn from the sequence; 429 afterwards

ASSUME RunsAssumption ==
  /\ NoParams \notin Params /\ Deletable \subseteq Pages
  /\ Retained \in Nat \ {0}
  /\ MaxRuns \in Nat

VARIABLES
  made,    \* made[i]: the scenario of run i
  runs,    \* ids of the rows of spatial_forecast_runs
  pruned,  \* ids of the rows deleted, a history variable
  unswept, \* a saved run's pruning failed and no other was begun since
  gone,    \* users deleted
  req      \* req[p]: the run request of page p

runVars == <<made, runs, pruned, unswept, gone, req>>

Post == [phase : {"idle", "run", "insert", "saved", "prune", "done", "error"},
         params : Params \cup {NoParams}, id : Nat, oldest : Nat]
NoPost == [phase |-> "idle", params |-> NoParams, id |-> 0, oldest |-> 0]

RunsTypeOK ==
  /\ made \in Seq(Params) /\ Len(made) <= MaxRuns
  /\ runs \subseteq 1..Len(made) /\ pruned \subseteq 1..Len(made)
  /\ unswept \in BOOLEAN
  /\ gone \subseteq Pages
  /\ req \in [Pages -> Post]
  /\ \A p \in Pages : req[p].phase = "run" => req[p].params \in Params
  /\ \A p \in Pages : req[p].phase = "insert" => req[p].id \in 1..Len(made) \ (runs \cup pruned)
  /\ \A p, q \in Pages : req[p].phase = "insert" /\ req[q].phase = "insert" /\ p # q
                            => req[p].id # req[q].id

RunsInit ==
  /\ made = << >> /\ runs = {} /\ pruned = {} /\ gone = {}
  /\ unswept = FALSE
  /\ req = [p \in Pages |-> NoPost]

To(p, phase) == req' = [req EXCEPT ![p].phase = phase]

Ask(p, x) ==
  /\ req[p].phase = "idle" /\ p \notin gone
  /\ req' = [req EXCEPT ![p] = [NoPost EXCEPT !.phase = "run", !.params = x]]
  /\ UNCHANGED <<made, runs, pruned, unswept, gone>>

\* Throttled, refused by validation, or the computation fails.
Refuse(p) ==
  /\ req[p].phase = "run"
  /\ To(p, "error")
  /\ UNCHANGED <<made, runs, pruned, unswept, gone>>

DrawId(p) ==
  /\ req[p].phase = "run" /\ Len(made) < MaxRuns
  /\ made' = Append(made, req[p].params)
  /\ req' = [req EXCEPT ![p].phase = "insert", ![p].id = Len(made) + 1]
  /\ UNCHANGED <<runs, pruned, unswept, gone>>

Insert(p) ==
  /\ req[p].phase = "insert" /\ p \notin gone
  /\ runs' = runs \cup {req[p].id}
  /\ To(p, "saved")
  /\ UNCHANGED <<made, pruned, unswept, gone>>

\* The id is lost; a deleted author violates the foreign key.
InsertFails(p) ==
  /\ req[p].phase = "insert"
  /\ To(p, "error")
  /\ UNCHANGED <<made, runs, pruned, unswept, gone>>

\* findMany ORDER BY id DESC, skip: RETAINED_RUNS, take: 1.
\* Mutants: one run fewer, one more.
OldestKept_Skip1Less == {i \in runs : Cardinality({j \in runs : j > i}) = Retained - 1}
OldestKept_Skip1More == {i \in runs : Cardinality({j \in runs : j > i}) = Retained + 1}
OldestKept == {i \in runs : Cardinality({j \in runs : j > i}) = Retained}

NothingToPrune(p) ==
  /\ req[p].phase = "saved" /\ OldestKept = {}
  /\ To(p, "done")
  /\ unswept' = FALSE
  /\ UNCHANGED <<made, runs, pruned, gone>>

ReadOldest(p) ==
  /\ req[p].phase = "saved"
  /\ \E i \in OldestKept : req' = [req EXCEPT ![p].phase = "prune", ![p].oldest = i]
  /\ unswept' = FALSE
  /\ UNCHANGED <<made, runs, pruned, gone>>

Prune(p) ==
  /\ req[p].phase = "prune"
  /\ runs' = {i \in runs : i > req[p].oldest}
  /\ pruned' = pruned \cup (runs \ runs')
  /\ To(p, "done")
  /\ UNCHANGED <<made, unswept, gone>>

\* Answered as an error although the run is saved.
PruneFails(p) ==
  /\ req[p].phase \in {"saved", "prune"}
  /\ unswept' = TRUE
  /\ To(p, "error")
  /\ UNCHANGED <<made, runs, pruned, gone>>

\* created_by_id is ON DELETE SET NULL: the runs stay.
DeleteUser(u) ==
  /\ u \in Deletable \ gone
  /\ gone' = gone \cup {u}
  /\ UNCHANGED <<made, runs, pruned, unswept, req>>

Serve(p) ==
  \/ Refuse(p) \/ DrawId(p) \/ Insert(p) \/ InsertFails(p)
  \/ NothingToPrune(p) \/ ReadOldest(p) \/ Prune(p) \/ PruneFails(p)

Receive(p) ==
  /\ req[p].phase \in {"done", "error"}
  /\ req' = [req EXCEPT ![p] = NoPost]
  /\ UNCHANGED <<made, runs, pruned, unswept, gone>>

RunsNext ==
  \E p \in Pages : (\E x \in Params : Ask(p, x)) \/ Serve(p) \/ Receive(p) \/ DeleteUser(p)

RunsSpec == RunsInit /\ [][RunsNext]_runVars

---------------------------------------------------------------------------
Newer(i) == {j \in runs : j > i}

\* A run is deleted only when RETAINED_RUNS newer ones are saved, and they
\* still are: prunes whose thresholds were read at different moments do not
\* add up (SpatialForecastService.pruneOldRuns).
NewestRunsStay == \A i \in pruned : Cardinality(Newer(i)) >= Retained

\* More than RETAINED_RUNS rows only while a request that saved one has its
\* own pruning ahead, or after a pruning that failed.
RetentionHolds ==
  Cardinality(runs) > Retained =>
    unswept \/ \E p \in Pages : req[p].phase \in {"saved", "prune"}

=============================================================================
