----------------------------- MODULE RunsProofs -----------------------------
(***************************************************************************)
(* Theorems about ForecastRuns and ForecastPage, for any number of users,  *)
(* tabs and runs: the tables and requests keep their types, an id is drawn *)
(* once, pruning neither goes below RETAINED_RUNS nor leaves rows that no  *)
(* later save prunes, and the page shows its own run or says why not.      *)
(***************************************************************************)
EXTENDS ForecastPage, FiniteSetTheorems, WellFoundedInduction, TLAPS

\* RunsTypeOK in parts: the tables, the requests, and the ids they drew.
Tables ==
  /\ made \in Seq(Params) /\ Len(made) <= MaxRuns
  /\ runs \subseteq 1..Len(made) /\ pruned \subseteq 1..Len(made)
  /\ unswept \in BOOLEAN /\ gone \subseteq Pages
Requests ==
  /\ req \in [Pages -> Post]
  /\ \A p \in Pages : req[p].phase = "run" => req[p].params \in Params
Drawn ==
  /\ \A p \in Pages : req[p].phase = "insert" => req[p].id \in 1..Len(made) \ (runs \cup pruned)
  /\ \A p, q \in Pages : req[p].phase = "insert" /\ req[q].phase = "insert" /\ p # q
                            => req[p].id # req[q].id

LEMMA TypeParts == RunsTypeOK <=> Tables /\ Requests /\ Drawn
  BY DEF RunsTypeOK, Tables, Requests, Drawn

LEMMA InitTyped == RunsInit => RunsTypeOK
  <1> SUFFICES ASSUME RunsInit PROVE RunsTypeOK OBVIOUS
  <1>1. made = << >> /\ made \in Seq(Params) /\ Len(made) = 0 BY DEF RunsInit
  <1>2. NoPost \in Post /\ NoPost.phase = "idle" BY DEF NoPost, Post
  <1>3. req = [p \in Pages |-> NoPost] BY DEF RunsInit
  <1>4. Tables
    <2>1. Len(made) <= MaxRuns BY <1>1, RunsAssumption
    <2>2. runs = {} /\ pruned = {} /\ gone = {} /\ unswept = FALSE BY DEF RunsInit
    <2>3. QED BY <1>1, <2>1, <2>2 DEF Tables
  <1>5. Requests /\ Drawn BY <1>2, <1>3 DEF Requests, Drawn
  <1>6. QED BY <1>4, <1>5, TypeParts

\* A request goes on to a phase that neither runs nor inserts.
LEMMA Moves ==
  ASSUME Requests, NEW p \in Pages,
         NEW phase \in {"saved", "done", "error"}, To(p, phase)
  PROVE  /\ Requests'
         /\ \A q \in Pages : req'[q].phase \in {"run", "insert"} =>
              q # p /\ req'[q] = req[q]
  BY DEF Requests, Post, To

LEMMA ServeTyped ==
  ASSUME RunsTypeOK, NEW p \in Pages, Serve(p)
  PROVE  RunsTypeOK'
  <1>0. Tables /\ Requests /\ Drawn BY TypeParts
  <1>1. CASE Refuse(p) \/ InsertFails(p) \/ NothingToPrune(p) \/ PruneFails(p)
    <2>1. /\ UNCHANGED <<made, runs, pruned, gone>> /\ unswept' \in BOOLEAN
          /\ \E phase \in {"saved", "done", "error"} : To(p, phase)
      BY <1>0, <1>1 DEF Refuse, InsertFails, NothingToPrune, PruneFails, Tables
    <2>2. Requests' /\ \A q \in Pages : req'[q].phase \in {"run", "insert"} =>
                          q # p /\ req'[q] = req[q]
      BY <1>0, <2>1, Moves
    <2>3. Tables' BY <1>0, <2>1 DEF Tables
    <2>4. Drawn' BY <1>0, <2>1, <2>2 DEF Drawn
    <2>5. QED BY <2>2, <2>3, <2>4, TypeParts DEF RunsTypeOK, Tables, Requests, Drawn
  <1>2. CASE DrawId(p)
    <2>1. /\ made' = Append(made, req[p].params) /\ req[p].params \in Params
          /\ Len(made) < MaxRuns /\ UNCHANGED <<runs, pruned, unswept, gone>>
          /\ req' = [req EXCEPT ![p].phase = "insert", ![p].id = Len(made) + 1]
      BY <1>0, <1>2 DEF DrawId, Requests
    <2>2. Len(made) \in Nat /\ made' \in Seq(Params) /\ Len(made') = Len(made) + 1
      BY <1>0, <2>1 DEF Tables
    <2>3. Tables' BY <1>0, <2>1, <2>2, RunsAssumption DEF Tables
    <2>4. /\ req'[p] = [req[p] EXCEPT !.phase = "insert", !.id = Len(made) + 1]
          /\ \A q \in Pages : q # p => req'[q] = req[q]
          /\ DOMAIN req' = Pages /\ req' = [q \in Pages |-> req'[q]]
      BY <1>0, <2>1 DEF Requests
    <2>5. req'[p] \in Post /\ req'[p].phase = "insert" /\ req'[p].id = Len(made) + 1
      <3>1. req[p] \in Post BY <1>0 DEF Requests
      <3>2. Len(made) + 1 \in Nat BY <2>2
      <3> DEFINE old == req[p]
                 next == Len(made) + 1
      <3> HIDE DEF old, next
      <3>3. /\ [old EXCEPT !.phase = "insert", !.id = next] \in Post
            /\ [old EXCEPT !.phase = "insert", !.id = next].phase = "insert"
            /\ [old EXCEPT !.phase = "insert", !.id = next].id = next
        BY <3>1, <3>2 DEF Post, old, next
      <3>4. QED BY <2>4, <3>3 DEF old, next
    <2>6. Requests' BY <1>0, <2>4, <2>5 DEF Requests
    <2>8. 1..Len(made) \subseteq 1..Len(made') /\ Len(made) + 1 \in 1..Len(made')
          /\ Len(made) + 1 \notin 1..Len(made)
      BY <2>2
    <2>9. Drawn'
      <3>1. ASSUME NEW q \in Pages, req'[q].phase = "insert"
            PROVE  req'[q].id \in 1..Len(made') \ (runs' \cup pruned')
        <4>1. CASE q = p BY <1>0, <2>1, <2>5, <2>8, <4>1 DEF Tables
        <4>2. CASE q # p BY <1>0, <2>1, <2>4, <2>8, <3>1, <4>2 DEF Drawn
        <4>3. QED BY <4>1, <4>2
      <3>2. ASSUME NEW q \in Pages, NEW r \in Pages, q # r,
                   req'[q].phase = "insert", req'[r].phase = "insert"
            PROVE  req'[q].id # req'[r].id
        <4>0. \A x \in Pages : x # p /\ req'[x].phase = "insert" =>
                req'[x].id \in 1..Len(made)
          BY <1>0, <2>4 DEF Drawn
        <4>1. CASE q = p
          <5>1. req'[r].id \in 1..Len(made) BY <3>2, <4>0, <4>1
          <5>2. QED BY <2>5, <2>8, <4>1, <5>1
        <4>2. CASE r = p
          <5>1. req'[q].id \in 1..Len(made) BY <3>2, <4>0, <4>2
          <5>2. QED BY <2>5, <2>8, <4>2, <5>1
        <4>3. CASE q # p /\ r # p BY <1>0, <2>4, <3>2, <4>3 DEF Drawn
        <4>4. QED BY <4>1, <4>2, <4>3
      <3>3. QED BY <3>1, <3>2 DEF Drawn
    <2>7. QED BY <2>3, <2>6, <2>9 DEF RunsTypeOK, Tables, Requests, Drawn
  <1>3. CASE Insert(p)
    <2>1. /\ req[p].phase = "insert" /\ runs' = runs \cup {req[p].id}
          /\ To(p, "saved") /\ UNCHANGED <<made, pruned, unswept, gone>>
      BY <1>3 DEF Insert
    <2>2. Requests' /\ \A q \in Pages : req'[q].phase \in {"run", "insert"} =>
                          q # p /\ req'[q] = req[q]
      BY <1>0, <2>1, Moves
    <2>3. req[p].id \in 1..Len(made) BY <1>0, <2>1 DEF Drawn
    <2>4. Tables' BY <1>0, <2>1, <2>3 DEF Tables
    <2>5. Drawn' BY <1>0, <2>1, <2>2 DEF Drawn
    <2>6. QED BY <2>2, <2>4, <2>5 DEF RunsTypeOK, Tables, Requests, Drawn
  <1>4. CASE ReadOldest(p)
    <2>1. PICK i \in OldestKept : req' = [req EXCEPT ![p].phase = "prune", ![p].oldest = i]
      BY <1>4 DEF ReadOldest
    <2>2. UNCHANGED <<made, runs, pruned, gone>> /\ unswept' = FALSE
      BY <1>4 DEF ReadOldest
    <2>3. i \in Nat BY <1>0 DEF OldestKept, Tables
    <2>4. Requests' /\ \A q \in Pages : req'[q].phase \in {"run", "insert"} => req'[q] = req[q]
      BY <1>0, <2>1, <2>3 DEF Requests, Post
    <2>5. Tables' BY <1>0, <2>2 DEF Tables
    <2>6. Drawn' BY <1>0, <2>2, <2>4 DEF Drawn
    <2>7. QED BY <2>4, <2>5, <2>6 DEF RunsTypeOK, Tables, Requests, Drawn
  <1>5. CASE Prune(p)
    <2>1. /\ runs' = {i \in runs : i > req[p].oldest} /\ pruned' = pruned \cup (runs \ runs')
          /\ To(p, "done") /\ UNCHANGED <<made, unswept, gone>>
      BY <1>5 DEF Prune
    <2>2. Requests' /\ \A q \in Pages : req'[q].phase \in {"run", "insert"} =>
                          q # p /\ req'[q] = req[q]
      BY <1>0, <2>1, Moves
    <2>3. Tables' BY <1>0, <2>1 DEF Tables
    <2>4. runs' \cup pruned' = runs \cup pruned BY <2>1
    <2>5. Drawn' BY <1>0, <2>1, <2>2, <2>4 DEF Drawn
    <2>6. QED BY <2>2, <2>3, <2>5 DEF RunsTypeOK, Tables, Requests, Drawn
  <1>6. QED BY <1>1, <1>2, <1>3, <1>4, <1>5 DEF Serve

\* Ask and Receive start a request anew.
LEMMA AskTyped ==
  ASSUME RunsTypeOK, NEW p \in Pages, (\E x \in Params : Ask(p, x)) \/ Receive(p)
  PROVE  RunsTypeOK'
  <1>0. Tables /\ Requests /\ Drawn BY TypeParts
  <1>1. UNCHANGED <<made, runs, pruned, unswept, gone>> BY DEF Ask, Receive
  <1>2. PICK new \in Post : /\ req' = [req EXCEPT ![p] = new] /\ new.phase # "insert"
                            /\ new.phase = "run" => new.params \in Params
    <2>1. CASE Receive(p)
      <3>1. NoPost \in Post /\ NoPost.phase = "idle" BY DEF NoPost, Post
      <3>2. QED BY <2>1, <3>1 DEF Receive
    <2>2. CASE \E x \in Params : Ask(p, x)
      <3>0. PICK x \in Params : Ask(p, x) BY <2>2
      <3>1. NoPost \in Post BY DEF NoPost, Post
      <3>2. /\ [NoPost EXCEPT !.phase = "run", !.params = x] \in Post
            /\ [NoPost EXCEPT !.phase = "run", !.params = x].phase = "run"
            /\ [NoPost EXCEPT !.phase = "run", !.params = x].params = x
        BY <3>1 DEF Post
      <3>3. PICK new : new = [NoPost EXCEPT !.phase = "run", !.params = x] OBVIOUS
      <3>4. new \in Post /\ new.phase = "run" /\ new.params = x BY <3>2, <3>3
      <3>5. req' = [req EXCEPT ![p] = new] BY <3>0, <3>3 DEF Ask
      <3>6. QED BY <3>4, <3>5
    <2>3. QED BY <2>1, <2>2
  <1>4. Requests' BY <1>0, <1>2 DEF Requests
  <1>5. \A q \in Pages : req'[q].phase = "insert" => q # p /\ req'[q] = req[q]
    BY <1>0, <1>2 DEF Requests
  <1>6. Tables' BY <1>0, <1>1 DEF Tables
  <1>7. Drawn' BY <1>0, <1>1, <1>5 DEF Drawn
  <1>8. QED BY <1>4, <1>6, <1>7 DEF RunsTypeOK, Tables, Requests, Drawn

\* Every reachable state has the declared types; an id drawn from the sequence
\* is drawn once, and never that of a row (SpatialForecastService.saveRun).
THEOREM RunsTypeCorrect == RunsSpec => []RunsTypeOK
  <1>1. RunsInit => RunsTypeOK BY InitTyped
  <1>2. RunsTypeOK /\ [RunsNext]_runVars => RunsTypeOK'
    <2> SUFFICES ASSUME RunsTypeOK, [RunsNext]_runVars PROVE RunsTypeOK' OBVIOUS
    <2>1. ASSUME NEW p \in Pages, DeleteUser(p) PROVE RunsTypeOK'
      BY <2>1, RunsAssumption DEF DeleteUser, RunsTypeOK
    <2>2. CASE UNCHANGED runVars BY <2>2 DEF runVars, RunsTypeOK
    <2>3. QED BY <2>1, <2>2, AskTyped, ServeTyped DEF RunsNext
  <1>3. QED BY <1>1, <1>2, PTL DEF RunsSpec

-----------------------------------------------------------------------------
(* NewestRunsStay.  A threshold that was read has RETAINED_RUNS rows above *)
(* it from then on, whatever the other requests insert and prune: a prune  *)
(* removes rows up to its own threshold, which has as many above it.       *)

Enough(rows, t) == Cardinality({j \in rows : j > t}) >= Retained

PruneInv ==
  /\ \A i \in pruned : Enough(runs, i)
  /\ \A p \in Pages : req[p].phase = "prune" => Enough(runs, req[p].oldest)

\* More rows keep what was enough.
LEMMA MoreRows ==
  ASSUME NEW more, IsFiniteSet(more), NEW rows \in SUBSET more, NEW t, Enough(rows, t)
  PROVE  Enough(more, t)
  <1> DEFINE A == {j \in rows : j > t}
             B == {j \in more : j > t}
  <1>1. A \subseteq B /\ B \subseteq more OBVIOUS
  <1>2. IsFiniteSet(B) BY <1>1, FS_Subset
  <1>3. Cardinality(A) <= Cardinality(B) /\ IsFiniteSet(A) BY <1>1, <1>2, FS_Subset
  <1>4. Cardinality(A) \in Nat /\ Cardinality(B) \in Nat BY <1>2, <1>3, FS_CardinalityType
  <1>5. Cardinality(A) >= Retained BY DEF Enough
  <1>6. Cardinality(B) >= Retained BY <1>3, <1>4, <1>5, RunsAssumption
  <1>7. QED BY <1>6 DEF Enough

LEMMA RunsFinite == RunsTypeOK => IsFiniteSet(runs)
  <1> SUFFICES ASSUME RunsTypeOK PROVE IsFiniteSet(runs) OBVIOUS
  <1>1. runs \subseteq 1..Len(made) /\ Len(made) \in Int BY DEF RunsTypeOK
  <1>2. IsFiniteSet(1..Len(made)) BY <1>1, FS_Interval
  <1>3. QED BY <1>1, <1>2, FS_Subset

LEMMA PruneKeeps ==
  ASSUME RunsTypeOK, PruneInv, NEW p \in Pages, Prune(p)
  PROVE  PruneInv'
  <1> DEFINE limit == req[p].oldest
  <1>1. /\ req[p].phase = "prune" /\ runs' = {i \in runs : i > limit}
        /\ pruned' = pruned \cup (runs \ runs')
        /\ req' = [req EXCEPT ![p].phase = "done"]
    BY DEF Prune, To
  <1>2. Enough(runs, limit) BY <1>1 DEF PruneInv
  <1>3. runs \subseteq Nat /\ pruned \subseteq Nat /\ limit \in Nat
    BY DEF RunsTypeOK, Post
  <1>4. ASSUME NEW t \in Nat, Enough(runs, t) \/ t <= limit PROVE Enough(runs', t)
    <2>1. CASE t <= limit
      <3>1. {j \in runs' : j > t} = {j \in runs : j > limit} BY <1>1, <1>3, <2>1
      <3>2. QED BY <3>1, <1>2 DEF Enough
    <2>2. CASE t > limit
      <3>1. {j \in runs' : j > t} = {j \in runs : j > t} BY <1>1, <1>3, <2>2
      <3>2. Enough(runs, t) BY <1>3, <1>4, <2>2
      <3>3. QED BY <3>1, <3>2 DEF Enough
    <2>3. QED BY <1>3, <2>1, <2>2
  <1>5. ASSUME NEW i \in pruned' PROVE Enough(runs', i)
    <2>1. i \in Nat /\ (i \in pruned \/ i <= limit) BY <1>1, <1>3
    <2>2. i \in pruned => Enough(runs, i) BY DEF PruneInv
    <2>3. QED BY <1>4, <2>1, <2>2
  <1>6. ASSUME NEW q \in Pages, req'[q].phase = "prune" PROVE Enough(runs', req'[q].oldest)
    <2>1. req'[q] = req[q] /\ req[q].oldest \in Nat
      BY <1>1, <1>6 DEF RunsTypeOK, Post
    <2>2. Enough(runs, req[q].oldest) BY <1>6, <2>1 DEF PruneInv
    <2>3. QED BY <1>4, <2>1, <2>2
  <1>7. QED BY <1>5, <1>6 DEF PruneInv

\* A step that prunes nothing and lets no request enter its prune.
LEMMA NoPruneKeeps ==
  ASSUME RunsTypeOK', PruneInv, runs \subseteq runs', pruned' = pruned,
         \A q \in Pages : req'[q].phase = "prune" =>
           req[q].phase = "prune" /\ req'[q].oldest = req[q].oldest
  PROVE  PruneInv'
  <1>1. IsFiniteSet(runs')
    <2>1. runs' \subseteq 1..Len(made') /\ Len(made') \in Int BY DEF RunsTypeOK
    <2>2. IsFiniteSet(1..Len(made')) BY <2>1, FS_Interval
    <2>3. QED BY <2>1, <2>2, FS_Subset
  <1>2. \A t : Enough(runs, t) => Enough(runs', t) BY <1>1, MoreRows
  <1>3. QED BY <1>2 DEF PruneInv

LEMMA ReadKeeps ==
  ASSUME RunsTypeOK, PruneInv, NEW p \in Pages, ReadOldest(p)
  PROVE  PruneInv'
  <1>1. PICK i \in OldestKept : req' = [req EXCEPT ![p].phase = "prune", ![p].oldest = i]
    BY DEF ReadOldest
  <1>2. UNCHANGED <<runs, pruned>> BY DEF ReadOldest
  <1>3. Enough(runs, i) BY RunsAssumption DEF OldestKept, Enough
  <1>4. \A q \in Pages : req'[q].phase = "prune" =>
          (req'[q].oldest = i \/ req'[q] = req[q])
    BY <1>1 DEF RunsTypeOK, Post
  <1>5. \A q \in Pages : req'[q].phase = "prune" => Enough(runs, req'[q].oldest)
    BY <1>3, <1>4 DEF PruneInv
  <1>6. QED BY <1>2, <1>5 DEF PruneInv

\* Whoever prunes after the step was about to before it.
Pruning == \A q \in Pages : req'[q].phase = "prune" => req'[q] = req[q]

LEMMA ToKeepsPruning ==
  ASSUME RunsTypeOK, NEW p \in Pages, NEW phase \in {"saved", "done", "error"}, To(p, phase)
  PROVE  Pruning
  BY DEF To, RunsTypeOK, Post, Pruning

LEMMA PruneInvStep ==
  ASSUME RunsTypeOK, RunsTypeOK', PruneInv, [RunsNext]_runVars
  PROVE  PruneInv'
  <1>1. ASSUME runs \subseteq runs', pruned' = pruned, Pruning PROVE PruneInv'
    BY <1>1, NoPruneKeeps DEF Pruning
  <1>2. ASSUME NEW p \in Pages, Refuse(p) \/ Insert(p) \/ InsertFails(p) \/ NothingToPrune(p)
                                  \/ PruneFails(p)
        PROVE  PruneInv'
    <2>1. pruned' = pruned /\ runs \subseteq runs'
      BY <1>2 DEF Refuse, Insert, InsertFails, NothingToPrune, PruneFails
    <2>2. To(p, "saved") \/ To(p, "done") \/ To(p, "error")
      BY <1>2 DEF Refuse, Insert, InsertFails, NothingToPrune, PruneFails
    <2>3. Pruning BY <2>2, ToKeepsPruning
    <2>4. QED BY <1>1, <2>1, <2>3
  <1>3. ASSUME NEW p \in Pages, DrawId(p) PROVE PruneInv'
    <2>1. Pruning BY <1>3 DEF DrawId, RunsTypeOK, Post, Pruning
    <2>2. QED BY <1>1, <1>3, <2>1 DEF DrawId
  <1>4. ASSUME NEW p \in Pages, NEW x \in Params, Ask(p, x) PROVE PruneInv'
    <2>1. Pruning BY <1>4 DEF Ask, RunsTypeOK, Post, NoPost, Pruning
    <2>2. QED BY <1>1, <1>4, <2>1 DEF Ask
  <1>5. ASSUME NEW p \in Pages, Receive(p) PROVE PruneInv'
    <2>1. Pruning BY <1>5 DEF Receive, RunsTypeOK, Post, NoPost, Pruning
    <2>2. QED BY <1>1, <1>5, <2>1 DEF Receive
  <1>6. ASSUME NEW p \in Pages, DeleteUser(p) PROVE PruneInv'
    BY <1>1, <1>6 DEF DeleteUser, Pruning
  <1>7. CASE UNCHANGED runVars BY <1>1, <1>7 DEF runVars, Pruning
  <1>8. QED
    BY <1>2, <1>3, <1>4, <1>5, <1>6, <1>7, PruneKeeps, ReadKeeps DEF RunsNext, Serve

\* For any number of users saving at once and any RETAINED_RUNS: a run that was
\* deleted has that many newer ones saved, now and ever after
\* (SpatialForecastService.pruneOldRuns).
THEOREM NewestRunsAlwaysStay == RunsSpec => []NewestRunsStay
  <1>1. RunsInit => PruneInv
    BY DEF RunsInit, PruneInv, NoPost
  <1>2. RunsTypeOK /\ RunsTypeOK' /\ PruneInv /\ [RunsNext]_runVars => PruneInv'
    BY PruneInvStep
  <1>3. PruneInv => NewestRunsStay BY DEF PruneInv, NewestRunsStay, Newer, Enough
  <1>4. QED BY <1>1, <1>2, <1>3, RunsTypeCorrect, PTL DEF RunsSpec

-----------------------------------------------------------------------------
(* RetentionHolds.  Somebody always has a threshold that is enough: of the *)
(* thresholds that wait to be pruned one has no more than RETAINED_RUNS    *)
(* rows above it, or a request that saved a run is still to read its own.  *)

LEMMA LeastNumber ==
  ASSUME NEW T \in SUBSET Nat, T # {}
  PROVE  \E x \in T : \A y \in T : x <= y
  <1>1. PICK n \in T : TRUE OBVIOUS
  <1> DEFINE F == {0 .. m : m \in {k \in T : k <= n}}
  <1>2. F \in SUBSET FiniteSubsetsOf(0 .. n) /\ F # {}
    <2>1. \A m \in T : 0 .. m \in SUBSET (0 .. n) \/ m > n BY <1>1
    <2>2. \A m \in T : IsFiniteSet(0 .. m) BY FS_Interval
    <2>3. QED BY <2>1, <2>2, <1>1 DEF FiniteSubsetsOf
  <1>3. PICK s \in F : \A u \in F : ~ (<<u, s>> \in StrictSubsetOrdering(0 .. n))
    <2> HIDE DEF F
    <2>1. QED BY <1>2, FS_StrictSubsetOrderingWellFounded, WFMin
  <1>4. PICK x \in T : x <= n /\ s = 0 .. x BY <1>3
  <1>5. ASSUME NEW y \in T, y < x PROVE FALSE
    <2>1. 0 .. y \in F BY <1>1, <1>4, <1>5
    <2>2. 0 .. y \in SUBSET (0 .. n) /\ 0 .. x \in SUBSET (0 .. n) BY <1>1, <1>4, <1>5
    <2>3. 0 .. y \subseteq 0 .. x /\ x \in 0 .. x /\ x \notin 0 .. y BY <1>5
    <2>4. <<0 .. y, s>> \in StrictSubsetOrdering(0 .. n)
      BY <1>4, <2>2, <2>3 DEF StrictSubsetOrdering
    <2>5. QED BY <1>3, <2>1, <2>4
  <1>6. QED BY <1>5

LEMMA GreatestNumber ==
  ASSUME NEW n \in Nat, NEW S \in SUBSET (1 .. n), S # {}
  PROVE  \E x \in S : \A y \in S : y <= x
  <1> DEFINE T == {n - i : i \in S}
  <1>0. \A i \in S : i \in Nat /\ i <= n /\ n - i \in Nat OBVIOUS
  <1>1. T \in SUBSET Nat /\ T # {} BY <1>0
  <1>2. PICK m \in T : \A y \in T : m <= y
    <2> HIDE DEF T
    <2>1. QED BY <1>1, LeastNumber
  <1>3. PICK x \in S : m = n - x BY <1>2
  <1>4. \A y \in S : n - x <= n - y BY <1>2, <1>3
  <1>5. QED BY <1>0, <1>3, <1>4

\* skip: RETAINED_RUNS finds a row whenever there are more rows than that.
LEMMA ThresholdExists ==
  ASSUME NEW n \in Nat, NEW S \in SUBSET (1 .. n), NEW k \in Nat, Cardinality(S) > k
  PROVE  \E i \in S : Cardinality({j \in S : j > i}) = k
  <1> DEFINE Above(i) == {j \in S : j > i}
             T == {i \in S : Cardinality(Above(i)) <= k}
  <1>0. \A i \in S : i \in Nat OBVIOUS
  <1>1. IsFiniteSet(S) /\ Cardinality(S) \in Nat
    <2>1. IsFiniteSet(1 .. n) BY FS_Interval
    <2>2. IsFiniteSet(S) BY <2>1, FS_Subset
    <2>3. QED BY <2>2, FS_CardinalityType
  <1>2. ASSUME NEW i \in S PROVE IsFiniteSet(Above(i)) /\ Cardinality(Above(i)) \in Nat
    <2>1. Above(i) \in SUBSET S OBVIOUS
    <2>2. IsFiniteSet(Above(i)) BY <1>1, <2>1, FS_Subset
    <2>3. QED BY <2>2, FS_CardinalityType
  <1>3. T # {}
    <2>1. S # {} BY <1>1, FS_EmptySet
    <2>2. PICK g \in S : \A y \in S : y <= g BY <2>1, GreatestNumber
    <2>3. Above(g) = {}
      <3>1. \A y \in S : ~ (y > g) BY <1>0, <2>2
      <3>2. QED BY <3>1
    <2>4. Cardinality(Above(g)) = 0 BY <2>3, FS_EmptySet
    <2>5. QED BY <2>2, <2>4
  <1>4. PICK i \in T : \A y \in T : i <= y
    <2>1. T \in SUBSET Nat BY <1>0
    <2> HIDE DEF T
    <2>2. QED BY <1>3, <2>1, LeastNumber
  <1>5. CASE Cardinality(Above(i)) < k
    <2> DEFINE Below == {j \in S : j < i}
    <2>1. IsFiniteSet(Above(i)) /\ Cardinality(Above(i)) \in Nat /\ i \notin Above(i)
      BY <1>2, <1>4
    <2>2. Cardinality(Above(i) \cup {i}) <= k
      <3>1. Cardinality(Above(i) \cup {i}) = Cardinality(Above(i)) + 1
        BY <2>1, FS_AddElement
      <3>2. QED BY <1>5, <2>1, <3>1
    <2>3. Below # {}
      <3>1. ASSUME Below = {} PROVE S = Above(i) \cup {i}
        <4>1. \A y \in S : ~ (y < i) BY <3>1
        <4>2. \A y \in S : y > i \/ y = i BY <1>0, <1>4, <4>1
        <4>3. QED BY <1>4, <4>2
      <3>2. QED BY <1>1, <2>2, <3>1
    <2>4. PICK b \in Below : \A y \in Below : y <= b
      <3>1. Below \in SUBSET (1 .. n) OBVIOUS
      <3> HIDE DEF Below
      <3>2. QED BY <2>3, <3>1, GreatestNumber
    <2>5. Above(b) = Above(i) \cup {i}
      <3>1. \A y \in S : y > b <=> (y > i \/ y = i) BY <1>0, <1>4, <2>4
      <3>2. QED BY <1>4, <3>1
    <2>6. b \in T BY <2>2, <2>4, <2>5
    <2>7. QED BY <1>0, <1>4, <2>4, <2>6
  <1>6. Cardinality(Above(i)) \in Nat /\ Cardinality(Above(i)) <= k BY <1>2, <1>4
  <1>7. QED BY <1>4, <1>5, <1>6

Sweeper(p) ==
  \/ req[p].phase = "saved"
  \/ req[p].phase = "prune" /\ Cardinality(Newer(req[p].oldest)) <= Retained

SweepInv == Cardinality(runs) > Retained => unswept \/ \E p \in Pages : Sweeper(p)

\* A step of somebody who neither saves nor prunes.
LEMMA IdleKeepsSweep ==
  ASSUME SweepInv, runs' = runs, unswept' = unswept,
         \A q \in Pages : req[q].phase \in {"saved", "prune"} => req'[q] = req[q]
  PROVE  SweepInv'
  <1>1. \A q \in Pages : Sweeper(q) => Sweeper(q)' BY DEF Sweeper, Newer
  <1>2. QED BY <1>1 DEF SweepInv

LEMMA SweepStep ==
  ASSUME RunsTypeOK, SweepInv, [RunsNext]_runVars
  PROVE  SweepInv'
  <1>0. req \in [Pages -> Post] /\ runs \subseteq 1 .. Len(made) /\ Len(made) \in Nat
    BY DEF RunsTypeOK
  <1>1. ASSUME NEW p \in Pages,
               \/ \E x \in Params : Ask(p, x)
               \/ Refuse(p) \/ DrawId(p) \/ InsertFails(p) \/ Receive(p) \/ DeleteUser(p)
        PROVE  SweepInv'
    <2>1. runs' = runs /\ unswept' = unswept
      BY <1>1 DEF Ask, Refuse, DrawId, InsertFails, Receive, DeleteUser
    <2>2. \A q \in Pages : req[q].phase \in {"saved", "prune"} => req'[q] = req[q]
      BY <1>0, <1>1 DEF Ask, Refuse, DrawId, InsertFails, Receive, DeleteUser, To
    <2>3. QED BY <2>1, <2>2, IdleKeepsSweep
  <1>2. ASSUME NEW p \in Pages, Insert(p) PROVE SweepInv'
    <2>1. req'[p].phase = "saved" BY <1>0, <1>2 DEF Insert, To, Post
    <2>2. QED BY <2>1 DEF SweepInv, Sweeper
  <1>3. ASSUME NEW p \in Pages, NothingToPrune(p) PROVE SweepInv'
    <2>1. OldestKept = {} /\ runs' = runs BY <1>3 DEF NothingToPrune
    <2>2. ~(Cardinality(runs) > Retained)
      <3>1. ~(\E i \in runs : Cardinality({j \in runs : j > i}) = Retained)
        BY <2>1 DEF OldestKept
      <3>2. Retained \in Nat /\ runs \in SUBSET (1 .. Len(made)) BY <1>0, RunsAssumption
      <3>3. QED BY <1>0, <3>1, <3>2, ThresholdExists
    <2>3. QED BY <2>1, <2>2 DEF SweepInv
  <1>4. ASSUME NEW p \in Pages, ReadOldest(p) PROVE SweepInv'
    <2>1. PICK i \in OldestKept : req' = [req EXCEPT ![p].phase = "prune", ![p].oldest = i]
      BY <1>4 DEF ReadOldest
    <2>2. req'[p].phase = "prune" /\ req'[p].oldest = i BY <1>0, <2>1 DEF Post
    <2>3. runs' = runs BY <1>4 DEF ReadOldest
    <2>4. Cardinality({j \in runs : j > i}) <= Retained
      BY RunsAssumption DEF OldestKept
    <2>5. Sweeper(p)' BY <2>2, <2>3, <2>4 DEF Sweeper, Newer
    <2>6. QED BY <2>5 DEF SweepInv
  <1>5. ASSUME NEW p \in Pages, PruneFails(p) PROVE SweepInv'
    BY <1>5 DEF PruneFails, SweepInv
  <1>6. ASSUME NEW p \in Pages, Prune(p) PROVE SweepInv'
    <2>1. /\ req[p].phase = "prune" /\ runs' = {i \in runs : i > req[p].oldest}
          /\ unswept' = unswept
      BY <1>6 DEF Prune
    <2>2. \A q \in Pages : q # p => req'[q] = req[q] BY <1>0, <1>6 DEF Prune, To
    <2>3. runs' \in SUBSET runs /\ runs' = Newer(req[p].oldest) BY <2>1 DEF Newer
    <2>4. IsFiniteSet(runs) BY RunsFinite
    <2>5. IsFiniteSet(runs') /\ Cardinality(runs') <= Cardinality(runs)
      BY <2>3, <2>4, FS_Subset
    <2>6. ASSUME Cardinality(runs') > Retained, ~unswept' PROVE \E q \in Pages : Sweeper(q)'
      <3>1. Cardinality(runs') \in Nat /\ Cardinality(runs) \in Nat
        BY <2>4, <2>5, FS_CardinalityType
      <3>2. Cardinality(runs) > Retained BY <2>5, <2>6, <3>1, RunsAssumption
      <3>3. PICK q \in Pages : Sweeper(q) BY <2>1, <2>6, <3>2 DEF SweepInv
      <3>4. q # p BY <2>1, <2>3, <2>6, <3>1, <3>3, RunsAssumption DEF Sweeper
      <3>5. req'[q] = req[q] BY <2>2, <3>4
      <3>6. CASE req[q].phase = "saved" BY <3>5, <3>6 DEF Sweeper
      <3>7. CASE req[q].phase = "prune" /\ Cardinality(Newer(req[q].oldest)) <= Retained
        <4> DEFINE t == req[q].oldest
                   A == {j \in runs : j > t}
                   B == {j \in runs' : j > t}
        <4>1. A \in SUBSET runs /\ B \in SUBSET A BY <2>3
        <4>2. IsFiniteSet(A) BY <2>4, <4>1, FS_Subset
        <4>3. IsFiniteSet(B) /\ Cardinality(B) <= Cardinality(A) BY <4>1, <4>2, FS_Subset
        <4>4. Cardinality(A) \in Nat /\ Cardinality(B) \in Nat
          BY <4>2, <4>3, FS_CardinalityType
        <4>5. Cardinality(A) <= Retained BY <3>7 DEF Newer
        <4>6. Cardinality(B) <= Retained BY <4>3, <4>4, <4>5, RunsAssumption
        <4>7. QED BY <3>5, <3>7, <4>6 DEF Sweeper, Newer
      <3>8. QED BY <3>3, <3>6, <3>7 DEF Sweeper
    <2>7. QED BY <2>6 DEF SweepInv
  <1>7. CASE UNCHANGED runVars BY <1>7, IdleKeepsSweep DEF runVars
  <1>8. QED
    BY <1>1, <1>2, <1>3, <1>4, <1>5, <1>6, <1>7 DEF RunsNext, Serve

\* For any number of users and any RETAINED_RUNS: there are more rows only
\* while a request that saved one has its own pruning ahead, or after a pruning
\* that failed; concurrent prunings never leave rows nobody will prune.
THEOREM RetentionAlwaysHolds == RunsSpec => []RetentionHolds
  <1>1. RunsInit => SweepInv
    <2>1. RunsInit => Cardinality(runs) = 0 BY FS_EmptySet DEF RunsInit
    <2>2. QED BY <2>1, RunsAssumption DEF SweepInv
  <1>2. RunsTypeOK /\ SweepInv /\ [RunsNext]_runVars => SweepInv' BY SweepStep
  <1>3. SweepInv => RetentionHolds BY DEF SweepInv, Sweeper, RetentionHolds
  <1>4. QED BY <1>1, <1>2, <1>3, RunsTypeCorrect, PTL DEF RunsSpec

-----------------------------------------------------------------------------
(* The page over the runs.  Every step of ForecastPage is one of the runs  *)
(* or leaves them alone.                                                   *)

LEMMA StepOfRuns == [Next]_vars => [RunsNext]_runVars
  <1> SUFFICES ASSUME [Next]_vars PROVE [RunsNext]_runVars
    OBVIOUS
  <1>1. ASSUME NEW p \in Screens,
               \/ \E x \in Params : Submit(p, x)
               \/ RunSucceeds(p) \/ RunFails(p)
        PROVE  RunsNext
    BY <1>1, PageAssumption DEF Submit, RunSucceeds, RunFails, RunsNext
  <1>2. ASSUME NEW p \in Screens,
               \/ \E i \in page[p].list : Restore(p, i)
               \/ ServeRestore(p) \/ RestoreSucceeds(p) \/ RestoreFails(p)
               \/ ServeList(p) \/ ReceiveList(p) \/ ListFails(p) \/ ShowMore(p)
        PROVE  UNCHANGED runVars
    BY <1>2 DEF Restore, ServeRestore, RestoreSucceeds, RestoreFails, ServeList,
                ReceiveList, ListFails, ShowMore
  <1>3. ASSUME NEW p \in Pages, Server(p) \/ DeleteUser(p) \/ Elsewhere(p) PROVE RunsNext
    BY <1>3 DEF Server, Elsewhere, RunsNext
  <1>4. CASE UNCHANGED vars BY <1>4 DEF vars
  <1>5. QED BY <1>1, <1>2, <1>3, <1>4 DEF Next

LEMMA RunsRefined == Spec => RunsSpec
  <1>1. Init => RunsInit BY DEF Init
  <1>2. QED BY <1>1, StepOfRuns, PTL DEF Spec, RunsSpec

\* What a request carries is what the sequence and the table have for its id.
RequestInv ==
  \A p \in Pages :
    /\ req[p].phase \in {"insert", "saved", "prune", "done"} =>
         req[p].id \in 1..Len(made) /\ made[req[p].id] = req[p].params
    /\ req[p].phase \in {"saved", "prune", "done"} => req[p].id \in runs \cup pruned

\* Scenarios and rows stay known; a row once saved only loses rank.
Grows ==
  /\ Len(made) <= Len(made') /\ \A i \in 1..Len(made) : made'[i] = made[i]
  /\ runs \cup pruned \subseteq runs' \cup pruned'
  /\ \A i \in runs \cup pruned : i \in runs' => i \in runs /\ Newer(i) \subseteq Newer(i)'

LEMMA GrowsStep ==
  ASSUME RunsTypeOK, [RunsNext]_runVars
  PROVE  Grows
  <1>0. /\ made \in Seq(Params) /\ Len(made) \in Nat /\ runs \subseteq 1 .. Len(made)
        /\ pruned \subseteq 1 .. Len(made) /\ req \in [Pages -> Post]
    BY DEF RunsTypeOK
  <1>1. ASSUME UNCHANGED <<made, runs, pruned>> PROVE Grows
    BY <1>0, <1>1 DEF Grows, Newer
  <1>2. ASSUME NEW p \in Pages, DrawId(p) PROVE Grows
    <2>1. made' = Append(made, req[p].params) /\ req[p].params \in Params
          /\ UNCHANGED <<runs, pruned>>
      BY <1>2 DEF DrawId, RunsTypeOK
    <2>2. Len(made) <= Len(made') /\ \A i \in 1..Len(made) : made'[i] = made[i]
      BY <1>0, <2>1
    <2>3. QED BY <2>1, <2>2 DEF Grows, Newer
  <1>3. ASSUME NEW p \in Pages, Insert(p) PROVE Grows
    <2>1. runs' = runs \cup {req[p].id} /\ UNCHANGED <<made, pruned>>
          /\ req[p].id \notin runs \cup pruned
      BY <1>3 DEF Insert, RunsTypeOK
    <2>2. QED BY <1>0, <2>1 DEF Grows, Newer
  <1>4. ASSUME NEW p \in Pages, Prune(p) PROVE Grows
    <2>1. /\ runs' = {i \in runs : i > req[p].oldest} /\ made' = made
          /\ pruned' = pruned \cup (runs \ runs') /\ req[p].oldest \in Nat
      BY <1>0, <1>4 DEF Prune, Post
    <2>2. \A i \in runs' : i \in runs /\ \A j \in runs : j > i => j \in runs'
      BY <1>0, <2>1
    <2>3. \A i \in runs' : Newer(i) \subseteq Newer(i)' BY <2>2 DEF Newer
    <2>4. runs \cup pruned \subseteq runs' \cup pruned' BY <2>1
    <2>5. QED BY <1>0, <2>1, <2>2, <2>3, <2>4 DEF Grows
  <1>5. QED
    BY <1>1, <1>2, <1>3, <1>4
    DEF RunsNext, runVars, Serve, Ask, Receive, Refuse, InsertFails, NothingToPrune,
        ReadOldest, PruneFails, DeleteUser

\* A saved run that is not among the newest of a list is not going to be.
LEMMA TopShrinks ==
  ASSUME RunsTypeOK, RunsTypeOK', Grows, NEW i \in runs \cup pruned, NEW p \in Screens,
         page[p].limit \in Nat, page'[p].limit = page[p].limit,
         i \in TopRuns(page[p].limit)'
  PROVE  i \in TopRuns(page[p].limit)
  <1>1. i \in runs' /\ Cardinality(Newer(i)') < page[p].limit BY DEF TopRuns
  <1>2. i \in runs /\ Newer(i) \subseteq Newer(i)' BY <1>1 DEF Grows
  <1>3. IsFiniteSet(Newer(i)')
    <2>1. runs' \subseteq 1 .. Len(made') /\ Len(made') \in Int BY DEF RunsTypeOK
    <2>2. IsFiniteSet(1 .. Len(made')) BY <2>1, FS_Interval
    <2>3. Newer(i)' \in SUBSET (1 .. Len(made')) BY <2>1 DEF Newer
    <2>4. QED BY <2>2, <2>3, FS_Subset
  <1>4. IsFiniteSet(Newer(i)) /\ Cardinality(Newer(i)) <= Cardinality(Newer(i)')
    BY <1>2, <1>3, FS_Subset
  <1>5. Cardinality(Newer(i)) \in Nat /\ Cardinality(Newer(i)') \in Nat
    BY <1>3, <1>4, FS_CardinalityType
  <1>6. Cardinality(Newer(i)) < page[p].limit BY <1>1, <1>4, <1>5
  <1>7. QED BY <1>2, <1>6 DEF TopRuns

LEMMA RequestStep ==
  ASSUME RunsTypeOK, RunsTypeOK', RequestInv, [RunsNext]_runVars
  PROVE  RequestInv'
  <1>0. /\ made \in Seq(Params) /\ Len(made) \in Nat /\ Len(made') \in Nat
        /\ req \in [Pages -> Post] /\ Grows
    BY GrowsStep DEF RunsTypeOK
  <1> DEFINE Holds(q) ==
        /\ req[q].phase \in {"insert", "saved", "prune", "done"} =>
             req[q].id \in 1..Len(made) /\ made[req[q].id] = req[q].params
        /\ req[q].phase \in {"saved", "prune", "done"} => req[q].id \in runs \cup pruned
  <1>1. ASSUME NEW q \in Pages, req'[q].id = req[q].id, req'[q].params = req[q].params,
               req'[q].phase \in {"insert", "saved", "prune", "done"} =>
                 req[q].phase \in {"insert", "saved", "prune", "done"},
               req'[q].phase \in {"saved", "prune", "done"} =>
                 req[q].phase \in {"saved", "prune", "done"} \/ req[q].id \in runs'
        PROVE  Holds(q)'
    <2>1. Holds(q) BY DEF RequestInv
    <2>2. QED BY <1>0, <1>1, <2>1 DEF Grows
  <1>2. ASSUME NEW p \in Pages, NEW r,
               req' = [req EXCEPT ![p] = r], Holds(p)'
        PROVE  RequestInv'
    <2>1. \A q \in Pages : q # p => req'[q] = req[q] BY <1>0, <1>2
    <2>2. \A q \in Pages : q # p => Holds(q)' BY <1>1, <2>1
    <2>3. QED BY <1>2, <2>2 DEF RequestInv
  <1>3. ASSUME NEW p \in Pages, NEW phase \in {"saved", "done", "error"}, To(p, phase),
               phase = "saved" => req[p].phase = "insert" /\ req[p].id \in runs',
               phase = "done" => req[p].phase \in {"saved", "prune"}
        PROVE  RequestInv'
    <2>1. /\ req' = [req EXCEPT ![p] = [req[p] EXCEPT !.phase = phase]]
          /\ req'[p].id = req[p].id /\ req'[p].params = req[p].params
          /\ req'[p].phase = phase
      BY <1>0, <1>3 DEF To, Post
    <2>2. Holds(p)' BY <1>1, <1>3, <2>1
    <2>3. QED BY <1>2, <2>1, <2>2
  <1>4. ASSUME NEW p \in Pages, (\E x \in Params : Ask(p, x)) \/ Receive(p)
        PROVE  RequestInv'
    <2>1. PICK r : req' = [req EXCEPT ![p] = r] /\ r.phase \in {"idle", "run"}
      <3>1. NoPost \in Post /\ NoPost.phase = "idle" BY DEF NoPost, Post
      <3>2. CASE Receive(p) BY <3>1, <3>2 DEF Receive
      <3>3. CASE \E x \in Params : Ask(p, x)
        <4>1. PICK x \in Params : Ask(p, x) BY <3>3
        <4>2. [NoPost EXCEPT !.phase = "run", !.params = x].phase = "run"
          BY <3>1 DEF Post
        <4>3. QED BY <4>1, <4>2 DEF Ask
      <3>4. QED BY <1>4, <3>2, <3>3
    <2>2. req'[p].phase \in {"idle", "run"} BY <1>0, <2>1
    <2>3. Holds(p)' BY <2>2
    <2>4. QED BY <1>2, <2>1, <2>3
  <1>5. ASSUME NEW p \in Pages, DrawId(p) PROVE RequestInv'
    <2> DEFINE r == [req[p] EXCEPT !.phase = "insert", !.id = Len(made) + 1]
    <2>1. /\ req' = [req EXCEPT ![p] = r] /\ req'[p].id = Len(made) + 1
          /\ req'[p].params = req[p].params /\ req'[p].phase = "insert"
      BY <1>0, <1>5 DEF DrawId, Post
    <2>2. made' = Append(made, req[p].params) /\ req[p].params \in Params
      BY <1>5 DEF DrawId, RunsTypeOK
    <2>3. made'[Len(made) + 1] = req[p].params /\ Len(made') = Len(made) + 1
      BY <1>0, <2>2
    <2>4. Holds(p)' BY <1>0, <2>1, <2>3
    <2>5. QED BY <1>2, <2>1, <2>4
  <1>6. ASSUME NEW p \in Pages, ReadOldest(p) PROVE RequestInv'
    <2>1. PICK i \in OldestKept : req' = [req EXCEPT ![p].phase = "prune", ![p].oldest = i]
      BY <1>6 DEF ReadOldest
    <2>2. /\ req' = [req EXCEPT ![p] = [req[p] EXCEPT !.phase = "prune", !.oldest = i]]
          /\ req'[p].id = req[p].id /\ req'[p].params = req[p].params
          /\ req'[p].phase = "prune" /\ req[p].phase = "saved"
      BY <1>0, <1>6, <2>1 DEF ReadOldest, Post
    <2>3. Holds(p)' BY <1>1, <2>2
    <2>4. QED BY <1>2, <2>2, <2>3
  <1>7. ASSUME NEW p \in Pages, Refuse(p) \/ InsertFails(p) \/ PruneFails(p)
        PROVE  RequestInv'
    BY <1>3, <1>7 DEF Refuse, InsertFails, PruneFails
  <1>8. ASSUME NEW p \in Pages, Insert(p) PROVE RequestInv'
    BY <1>3, <1>8 DEF Insert
  <1>9. ASSUME NEW p \in Pages, NothingToPrune(p) \/ Prune(p) PROVE RequestInv'
    BY <1>3, <1>9 DEF NothingToPrune, Prune
  <1>10. ASSUME req' = req PROVE RequestInv'
    <2>1. \A q \in Pages : Holds(q)' BY <1>1, <1>10
    <2>2. QED BY <2>1 DEF RequestInv
  <1>11. QED
    BY <1>4, <1>5, <1>6, <1>7, <1>8, <1>9, <1>10 DEF RunsNext, Serve, DeleteUser, runVars

\* One page: what it may name, what its list owes it, what its screen shows.
Ranges(p) ==
  /\ page[p].list \cup page[p].next \subseteq 1..Len(made)
  /\ {page[p].result, page[p].own, page[p].restoreId} \subseteq 0..Len(made)
  /\ page[p].restore = "idle" <=> page[p].restoreId = 0

\* The run the page was told is saved is a saved one, and the list on its way
\* has it unless newer ones have pushed it out.
Listed(p) ==
  LET i == page[p].own
  IN i # 0 => /\ i \in runs \cup pruned
              /\ page[p].fetch = "read" =>
                   i \in page[p].next \/ i \notin TopRuns(page[p].limit)
              /\ \/ i \in page[p].list \/ page[p].fetch # "none" \/ page[p].listLost
                 \/ i \notin TopRuns(page[p].limit)

\* What was asked for last, and not while an answer was still to come, is on
\* screen or is the one answer to come.
Asked(p) ==
  \/ ~Pending(p) /\ page[p].shown = page[p].wanted
  \/ /\ req[p].phase # "idle" /\ page[p].restore = "idle"
     /\ req[p].params = page[p].wanted
  \/ /\ req[p].phase = "idle" /\ page[p].restore # "idle"
     /\ made[page[p].restoreId] = page[p].wanted

Screen(p) ==
  /\ page[p].result # 0 => page[p].shown = made[page[p].result]
  /\ page[p].mixed \/ page[p].wanted = NoParams \/ Asked(p)

PageInv(p) == Ranges(p) /\ Listed(p) /\ Screen(p)

ScreensInv == page \in [Screens -> PageState] /\ \A p \in Screens : PageInv(p)

\* The runs change under a page that stays as it is.
LEMMA PageStays ==
  ASSUME RunsTypeOK, RunsTypeOK', Grows, NEW p \in Screens, page[p] \in PageState,
         PageInv(p), page'[p] = page[p],
         req'[p].phase = "idle" <=> req[p].phase = "idle",
         req[p].phase # "idle" => req'[p].params = req[p].params
  PROVE  PageInv(p)'
  <1>1. /\ Len(made) \in Nat /\ Len(made') \in Nat /\ Len(made) <= Len(made')
        /\ \A i \in 1..Len(made) : made'[i] = made[i]
    BY DEF RunsTypeOK, Grows
  <1>2. Ranges(p)' BY <1>1 DEF PageInv, Ranges
  <1>3. \A i \in runs \cup pruned :
          i \in TopRuns(page[p].limit)' => i \in TopRuns(page[p].limit)
    <2>1. page[p].limit \in Nat BY DEF PageState
    <2>2. QED BY <2>1, TopShrinks
  <1>4. Listed(p)' BY <1>3 DEF PageInv, Listed, Grows
  <1>5. Asked(p) => Asked(p)'
    <2>1. page[p].restore # "idle" => made'[page[p].restoreId] = made[page[p].restoreId]
      BY <1>1 DEF PageInv, Ranges
    <2>2. QED BY <2>1 DEF Asked, Pending
  <1>6. Screen(p)'
    <2>1. page[p].result # 0 => made'[page[p].result] = made[page[p].result]
      BY <1>1 DEF PageInv, Ranges
    <2>2. QED BY <1>5, <2>1 DEF PageInv, Screen
  <1>7. QED BY <1>2, <1>4, <1>6 DEF PageInv

\* One page changes, and no request but its own.
LEMMA OwnStep ==
  ASSUME RunsTypeOK, RunsTypeOK', Grows, ScreensInv, NEW p \in Screens,
         NEW s \in PageState, page' = [page EXCEPT ![p] = s],
         \A q \in Screens : q # p => req'[q] = req[q], PageInv(p)'
  PROVE  ScreensInv'
  <1>1. /\ page \in [Screens -> PageState] /\ page' \in [Screens -> PageState]
        /\ \A q \in Screens : q # p => page'[q] = page[q]
    BY DEF ScreensInv
  <1>2. ASSUME NEW q \in Screens, q # p PROVE PageInv(q)'
    <2>1. page[q] \in PageState /\ PageInv(q) /\ page'[q] = page[q] /\ req'[q] = req[q]
      BY <1>1, <1>2 DEF ScreensInv
    <2>2. QED BY <2>1, PageStays
  <1>3. QED BY <1>1, <1>2 DEF ScreensInv

\* The runs change and no page does: requests go on, they do not start or end.
LEMMA RunsStep ==
  ASSUME RunsTypeOK, RunsTypeOK', Grows, ScreensInv, page' = page,
         \A q \in Screens : /\ req'[q].phase = "idle" <=> req[q].phase = "idle"
                            /\ req[q].phase # "idle" => req'[q].params = req[q].params
  PROVE  ScreensInv'
  <1>1. ASSUME NEW q \in Screens PROVE PageInv(q)'
    <2>1. page[q] \in PageState /\ PageInv(q) BY DEF ScreensInv
    <2>2. QED BY <2>1, PageStays
  <1>2. QED BY <1>1 DEF ScreensInv

LEMMA SubmitKeeps ==
  ASSUME RunsTypeOK, RunsTypeOK', Grows, ScreensInv, NEW p \in Screens, NEW x \in Params,
         Submit(p, x)
  PROVE  ScreensInv'
  <1> DEFINE s == [page[p] EXCEPT !.wanted = x, !.mixed = Pending(p)]
  <1>1. page[p] \in PageState /\ PageInv(p) /\ p \in Pages /\ Pending(p) \in BOOLEAN
    BY PageAssumption DEF ScreensInv, Pending
  <1>2. /\ req[p].phase = "idle"
        /\ req' = [req EXCEPT ![p] = [NoPost EXCEPT !.phase = "run", !.params = x]]
        /\ UNCHANGED <<made, runs, pruned>>
        /\ page' = [page EXCEPT ![p] = s]
    BY <1>1 DEF Submit, Ask, ScreensInv
  <1>3. /\ s \in PageState /\ s.wanted = x /\ s.mixed = Pending(p)
        /\ s.result = page[p].result /\ s.shown = page[p].shown
        /\ s.restore = page[p].restore /\ s.restoreId = page[p].restoreId
        /\ s.list = page[p].list /\ s.limit = page[p].limit /\ s.fetch = page[p].fetch
        /\ s.next = page[p].next /\ s.listLost = page[p].listLost /\ s.own = page[p].own
    BY <1>1 DEF PageState
  <1>4. /\ req'[p].phase = "run" /\ req'[p].params = x
        /\ \A q \in Pages : q # p => req'[q] = req[q]
    <2>1. NoPost \in Post BY DEF NoPost, Post
    <2>2. /\ [NoPost EXCEPT !.phase = "run", !.params = x].phase = "run"
          /\ [NoPost EXCEPT !.phase = "run", !.params = x].params = x
      BY <2>1 DEF Post
    <2>3. req \in [Pages -> Post] BY DEF RunsTypeOK
    <2>4. QED BY <1>1, <1>2, <2>2, <2>3
  <1>5. page'[p] = s BY <1>2 DEF ScreensInv
  <1> HIDE DEF s
  <1>6. Ranges(p)' BY <1>1, <1>2, <1>3, <1>5 DEF PageInv, Ranges
  <1>7. Listed(p)' BY <1>1, <1>2, <1>3, <1>5 DEF PageInv, Listed, TopRuns, Newer
  <1>8. Screen(p)'
    <2>1. page'[p].result # 0 => page'[p].shown = made'[page'[p].result]
      BY <1>1, <1>2, <1>3, <1>5 DEF PageInv, Screen
    <2>2. page'[p].mixed \/ page'[p].restore = "idle" BY <1>2, <1>3, <1>5 DEF Pending
    <2>3. QED BY <1>3, <1>4, <1>5, <2>1, <2>2 DEF Screen, Asked
  <1>9. PageInv(p)' BY <1>6, <1>7, <1>8 DEF PageInv
  <1>10. QED BY <1>2, <1>3, <1>4, <1>9, OwnStep, PageAssumption

LEMMA RunFailsKeeps ==
  ASSUME RunsTypeOK, RunsTypeOK', Grows, ScreensInv, NEW p \in Screens, RunFails(p)
  PROVE  ScreensInv'
  <1> DEFINE s == [page[p] EXCEPT !.wanted = NoParams]
  <1>1. page[p] \in PageState /\ PageInv(p) /\ p \in Pages
    BY PageAssumption DEF ScreensInv
  <1>2. /\ req' = [req EXCEPT ![p] = NoPost] /\ UNCHANGED <<made, runs, pruned>>
        /\ page' = [page EXCEPT ![p] = s]
    BY <1>1 DEF RunFails, Receive, ScreensInv
  <1>3. /\ s \in PageState /\ s.wanted = NoParams
        /\ s.result = page[p].result /\ s.shown = page[p].shown
        /\ s.restore = page[p].restore /\ s.restoreId = page[p].restoreId
        /\ s.list = page[p].list /\ s.limit = page[p].limit /\ s.fetch = page[p].fetch
        /\ s.next = page[p].next /\ s.listLost = page[p].listLost /\ s.own = page[p].own
    BY <1>1 DEF PageState
  <1>4. page'[p] = s BY <1>2 DEF ScreensInv
  <1> HIDE DEF s
  <1>5. Ranges(p)' BY <1>1, <1>2, <1>3, <1>4 DEF PageInv, Ranges
  <1>6. Listed(p)' BY <1>1, <1>2, <1>3, <1>4 DEF PageInv, Listed, TopRuns, Newer
  <1>7. Screen(p)' BY <1>1, <1>2, <1>3, <1>4 DEF PageInv, Screen
  <1>8. PageInv(p)' BY <1>5, <1>6, <1>7 DEF PageInv
  <1>9. \A q \in Screens : q # p => req'[q] = req[q]
    BY <1>2, PageAssumption DEF RunsTypeOK
  <1>10. QED BY <1>2, <1>3, <1>8, <1>9, OwnStep

LEMMA RunSucceedsKeeps ==
  ASSUME RunsTypeOK, RunsTypeOK', Grows, RequestInv, ScreensInv, NEW p \in Screens,
         RunSucceeds(p)
  PROVE  ScreensInv'
  <1> DEFINE i == req[p].id
             s == [page[p] EXCEPT !.result = i, !.shown = req[p].params, !.own = i,
                                  !.fetch = "asked", !.next = {}]
  <1>1. /\ page[p] \in PageState /\ PageInv(p) /\ p \in Pages /\ req[p] \in Post
        /\ req[p].phase = "done"
    BY PageAssumption DEF ScreensInv, RunSucceeds, RunsTypeOK
  <1>2. /\ i \in 1..Len(made) /\ made[i] = req[p].params /\ i \in runs \cup pruned
        /\ i \in Nat /\ req[p].params \in Params \cup {NoParams}
    BY <1>1 DEF RequestInv, Post
  <1>3. /\ req' = [req EXCEPT ![p] = NoPost] /\ UNCHANGED <<made, runs, pruned>>
    BY DEF RunSucceeds, Receive
  <1>4. page' = [page EXCEPT ![p] = s]
    <2>1. Refetch([Show(p, i, req[p].params, TRUE) EXCEPT !.own = i]) = s
      BY <1>1 DEF Refetch, Show, PageState
    <2>2. QED BY <2>1 DEF RunSucceeds
  <1>5. /\ s \in PageState /\ s.wanted = page[p].wanted /\ s.mixed = page[p].mixed
        /\ s.result = i /\ s.shown = req[p].params
        /\ s.restore = page[p].restore /\ s.restoreId = page[p].restoreId
        /\ s.list = page[p].list /\ s.fetch = "asked" /\ s.next = {} /\ s.own = i
    BY <1>1, <1>2 DEF PageState
  <1>6. page'[p] = s BY <1>4 DEF ScreensInv
  <1>7. req'[p].phase = "idle" BY <1>1, <1>3 DEF NoPost, RunsTypeOK
  <1> HIDE DEF s, i
  <1>8. Ranges(p)' BY <1>1, <1>2, <1>3, <1>5, <1>6 DEF PageInv, Ranges
  <1>9. Listed(p)' BY <1>2, <1>3, <1>5, <1>6 DEF Listed
  <1>10. Screen(p)'
    <2>1. Asked(p) => Asked(p)' BY <1>1, <1>5, <1>6, <1>7 DEF Asked, Pending
    <2>2. QED BY <1>1, <1>2, <1>3, <1>5, <1>6, <2>1 DEF PageInv, Screen
  <1>11. PageInv(p)' BY <1>8, <1>9, <1>10 DEF PageInv
  <1>12. \A q \in Screens : q # p => req'[q] = req[q]
    BY <1>3, PageAssumption DEF RunsTypeOK
  <1>13. QED BY <1>4, <1>5, <1>11, <1>12, OwnStep

\* A restored run on its way to the screen: the runs are only read.
LEMMA RestoreKeeps ==
  ASSUME RunsTypeOK, ScreensInv, NEW p \in Screens,
         \/ \E i \in page[p].list : Restore(p, i)
         \/ ServeRestore(p) \/ RestoreSucceeds(p) \/ RestoreFails(p)
  PROVE  ScreensInv'
  <1>1. /\ page[p] \in PageState /\ PageInv(p) /\ UNCHANGED runVars
        /\ page \in [Screens -> PageState] /\ Len(made) \in Nat
    <2>1. UNCHANGED runVars BY DEF Restore, ServeRestore, RestoreSucceeds, RestoreFails
    <2>2. QED BY <2>1 DEF ScreensInv, RunsTypeOK
  <1>2. UNCHANGED <<made, runs, pruned, req>> /\ RunsTypeOK' /\ Grows
    BY <1>1 DEF runVars, RunsTypeOK, Grows, Newer
  <1>3. ASSUME NEW s \in PageState, page' = [page EXCEPT ![p] = s], page'[p] = s => Screen(p)',
               s.list = page[p].list, s.limit = page[p].limit, s.fetch = page[p].fetch,
               s.next = page[p].next, s.listLost = page[p].listLost, s.own = page[p].own,
               {s.result, s.restoreId} \subseteq 0..Len(made),
               s.restore = "idle" <=> s.restoreId = 0
        PROVE  ScreensInv'
    <2>1. page'[p] = s BY <1>1, <1>3
    <2>2. Ranges(p)' BY <1>1, <1>2, <1>3, <2>1 DEF PageInv, Ranges
    <2>3. Listed(p)' BY <1>1, <1>2, <1>3, <2>1 DEF PageInv, Listed, TopRuns, Newer
    <2>4. PageInv(p)' BY <1>3, <2>1, <2>2, <2>3 DEF PageInv
    <2>5. QED BY <1>2, <1>3, <2>4, OwnStep
  <1>4. ASSUME NEW i \in page[p].list, Restore(p, i) PROVE ScreensInv'
    <2> DEFINE s == [page[p] EXCEPT !.restore = "asked", !.restoreId = i,
                                    !.wanted = made[i], !.mixed = Pending(p)]
    <2>1. /\ i \in 1..Len(made) /\ made[i] \in Params /\ i \in Nat
          /\ Pending(p) \in BOOLEAN
      BY <1>1 DEF PageInv, Ranges, RunsTypeOK, Pending
    <2>2. page' = [page EXCEPT ![p] = s] BY <1>1, <1>4 DEF Restore
    <2>3. /\ s \in PageState /\ s.wanted = made[i] /\ s.mixed = Pending(p)
          /\ s.result = page[p].result /\ s.shown = page[p].shown
          /\ s.restore = "asked" /\ s.restoreId = i
          /\ s.list = page[p].list /\ s.limit = page[p].limit /\ s.fetch = page[p].fetch
          /\ s.next = page[p].next /\ s.listLost = page[p].listLost /\ s.own = page[p].own
      BY <1>1, <2>1 DEF PageState
    <2> HIDE DEF s
    <2>4. page'[p] = s => Screen(p)'
      <3>1. ~Pending(p) => req[p].phase = "idle" BY DEF Pending
      <3>2. QED BY <1>1, <1>2, <2>3, <3>1 DEF PageInv, Screen, Asked
    <2>5. {s.result, s.restoreId} \subseteq 0..Len(made) /\ s.restoreId # 0
      BY <1>1, <2>1, <2>3 DEF PageInv, Ranges
    <2>6. QED BY <1>3, <2>2, <2>3, <2>4, <2>5
  <1>5. ASSUME ServeRestore(p) PROVE ScreensInv'
    <2> DEFINE answer == IF page[p].restoreId \in runs THEN "found" ELSE "gone"
               s == [page[p] EXCEPT !.restore = answer]
    <2>1. page' = [page EXCEPT ![p] = s] /\ page[p].restore = "asked"
      BY <1>1, <1>5 DEF ServeRestore
    <2>2. answer \in {"found", "gone"} OBVIOUS
    <2> HIDE DEF answer
    <2>3. /\ s \in PageState /\ s.wanted = page[p].wanted /\ s.mixed = page[p].mixed
          /\ s.result = page[p].result /\ s.shown = page[p].shown
          /\ s.restore = answer /\ s.restoreId = page[p].restoreId
          /\ s.list = page[p].list /\ s.limit = page[p].limit /\ s.fetch = page[p].fetch
          /\ s.next = page[p].next /\ s.listLost = page[p].listLost /\ s.own = page[p].own
      BY <1>1, <2>2 DEF PageState
    <2> HIDE DEF s
    <2>4. page'[p] = s => Screen(p)'
      BY <1>1, <1>2, <2>1, <2>2, <2>3 DEF PageInv, Screen, Asked, Pending
    <2>5. /\ {s.result, s.restoreId} \subseteq 0..Len(made)
          /\ s.restore = "idle" <=> s.restoreId = 0
      BY <1>1, <2>1, <2>2, <2>3 DEF PageInv, Ranges
    <2>6. QED BY <1>3, <2>1, <2>3, <2>4, <2>5
  <1>6. ASSUME RestoreSucceeds(p) PROVE ScreensInv'
    <2> DEFINE i == page[p].restoreId
               s == [page[p] EXCEPT !.result = i, !.shown = made[i], !.restore = "idle",
                                    !.restoreId = 0]
    <2>1. page[p].restore = "found" /\ i \in 1..Len(made) /\ made[i] \in Params /\ i \in Nat
      BY <1>1, <1>6 DEF RestoreSucceeds, PageInv, Ranges, RunsTypeOK
    <2>2. page' = [page EXCEPT ![p] = s]
      <3>1. [Show(p, i, made[i], FALSE) EXCEPT !.restore = "idle", !.restoreId = 0] = s
        BY <1>1 DEF Show, PageState
      <3>2. QED BY <1>1, <1>6, <3>1 DEF RestoreSucceeds
    <2>3. /\ s \in PageState /\ s.wanted = page[p].wanted /\ s.mixed = page[p].mixed
          /\ s.result = i /\ s.shown = made[i] /\ s.restore = "idle" /\ s.restoreId = 0
          /\ s.list = page[p].list /\ s.limit = page[p].limit /\ s.fetch = page[p].fetch
          /\ s.next = page[p].next /\ s.listLost = page[p].listLost /\ s.own = page[p].own
      BY <1>1, <2>1 DEF PageState
    <2> HIDE DEF s
    <2>4. page'[p] = s => Screen(p)'
      BY <1>1, <1>2, <2>1, <2>3 DEF PageInv, Screen, Asked, Pending
    <2>5. {s.result, s.restoreId} \subseteq 0..Len(made) BY <1>1, <2>1, <2>3
    <2>6. QED BY <1>3, <2>2, <2>3, <2>4, <2>5
  <1>7. ASSUME RestoreFails(p) PROVE ScreensInv'
    <2> DEFINE s == [page[p] EXCEPT !.restore = "idle", !.restoreId = 0, !.wanted = NoParams]
    <2>1. page' = [page EXCEPT ![p] = s] BY <1>1, <1>7 DEF RestoreFails
    <2>2. /\ s \in PageState /\ s.wanted = NoParams
          /\ s.result = page[p].result /\ s.shown = page[p].shown
          /\ s.restore = "idle" /\ s.restoreId = 0
          /\ s.list = page[p].list /\ s.limit = page[p].limit /\ s.fetch = page[p].fetch
          /\ s.next = page[p].next /\ s.listLost = page[p].listLost /\ s.own = page[p].own
      BY <1>1 DEF PageState
    <2> HIDE DEF s
    <2>3. page'[p] = s => Screen(p)' BY <1>1, <1>2, <2>2 DEF PageInv, Screen
    <2>4. {s.result, s.restoreId} \subseteq 0..Len(made) BY <1>1, <2>2 DEF PageInv, Ranges
    <2>5. QED BY <1>3, <2>1, <2>2, <2>3, <2>4
  <1>8. QED BY <1>4, <1>5, <1>6, <1>7

\* The list of past runs: the screen is left alone.
LEMMA ListKeeps ==
  ASSUME RunsTypeOK, ScreensInv, NEW p \in Screens,
         ServeList(p) \/ ReceiveList(p) \/ ListFails(p) \/ ShowMore(p)
  PROVE  ScreensInv'
  <1>1. /\ page[p] \in PageState /\ PageInv(p) /\ UNCHANGED runVars
        /\ page \in [Screens -> PageState] /\ Len(made) \in Nat /\ runs \subseteq 1..Len(made)
    BY DEF ScreensInv, ServeList, ReceiveList, ListFails, ShowMore, RunsTypeOK
  <1>2. UNCHANGED <<made, runs, pruned, req>> /\ RunsTypeOK' /\ Grows
    BY <1>1 DEF runVars, RunsTypeOK, Grows, Newer
  <1>3. ASSUME NEW s \in PageState, page' = [page EXCEPT ![p] = s],
               page'[p] = s => Listed(p)', s.list \cup s.next \subseteq 1..Len(made),
               s.result = page[p].result, s.shown = page[p].shown, s.own = page[p].own,
               s.restore = page[p].restore, s.restoreId = page[p].restoreId,
               s.wanted = page[p].wanted, s.mixed = page[p].mixed
        PROVE  ScreensInv'
    <2>1. page'[p] = s BY <1>1, <1>3
    <2>2. Ranges(p)' BY <1>1, <1>2, <1>3, <2>1 DEF PageInv, Ranges
    <2>3. Screen(p)' BY <1>1, <1>2, <1>3, <2>1 DEF PageInv, Screen, Asked, Pending
    <2>4. PageInv(p)' BY <1>3, <2>1, <2>2, <2>3 DEF PageInv
    <2>5. QED BY <1>2, <1>3, <2>4, OwnStep
  <1>4. ASSUME ServeList(p) PROVE ScreensInv'
    <2> DEFINE top == TopRuns(page[p].limit)
               s == [page[p] EXCEPT !.fetch = "read", !.next = top]
    <2>1. page' = [page EXCEPT ![p] = s] BY <1>1, <1>4 DEF ServeList
    <2>2. top \in SUBSET (1..Len(made)) /\ top \in SUBSET Nat
      <3>1. top \subseteq runs BY DEF TopRuns
      <3>2. \A i \in runs : i \in 1..Len(made) /\ i \in Nat BY <1>1
      <3> HIDE DEF top
      <3>3. QED BY <3>1, <3>2
    <2>3. page'[p] = s => top' = top BY <1>1, <1>2 DEF TopRuns, Newer, PageState
    <2> HIDE DEF top
    <2>4. /\ s \in PageState /\ s.fetch = "read" /\ s.next = top
          /\ s.wanted = page[p].wanted /\ s.mixed = page[p].mixed
          /\ s.result = page[p].result /\ s.shown = page[p].shown
          /\ s.restore = page[p].restore /\ s.restoreId = page[p].restoreId
          /\ s.list = page[p].list /\ s.limit = page[p].limit /\ s.own = page[p].own
      BY <1>1, <2>2 DEF PageState
    <2> HIDE DEF s
    <2>5. page'[p] = s => Listed(p)'
      BY <1>1, <1>2, <2>3, <2>4 DEF PageInv, Listed, top
    <2>6. s.list \cup s.next \subseteq 1..Len(made)
      BY <1>1, <2>2, <2>4 DEF PageInv, Ranges
    <2>7. QED BY <1>3, <2>1, <2>4, <2>5, <2>6
  <1>5. ASSUME ReceiveList(p) PROVE ScreensInv'
    <2> DEFINE s == [page[p] EXCEPT !.fetch = "none", !.list = page[p].next, !.next = {},
                                    !.listLost = FALSE]
    <2>1. page' = [page EXCEPT ![p] = s] /\ page[p].fetch = "read"
      BY <1>1, <1>5 DEF ReceiveList
    <2>2. /\ s \in PageState /\ s.fetch = "none" /\ s.next = {} /\ s.list = page[p].next
          /\ s.wanted = page[p].wanted /\ s.mixed = page[p].mixed
          /\ s.result = page[p].result /\ s.shown = page[p].shown
          /\ s.restore = page[p].restore /\ s.restoreId = page[p].restoreId
          /\ s.limit = page[p].limit /\ s.own = page[p].own
      BY <1>1 DEF PageState
    <2> HIDE DEF s
    <2>3. page'[p] = s => Listed(p)'
      BY <1>1, <1>2, <2>1, <2>2 DEF PageInv, Listed, TopRuns, Newer
    <2>4. s.list \cup s.next \subseteq 1..Len(made) BY <1>1, <2>2 DEF PageInv, Ranges
    <2>5. QED BY <1>3, <2>1, <2>2, <2>3, <2>4
  <1>6. ASSUME ListFails(p) PROVE ScreensInv'
    <2> DEFINE s == [page[p] EXCEPT !.fetch = "none", !.listLost = TRUE]
    <2>1. page' = [page EXCEPT ![p] = s] BY <1>1, <1>6 DEF ListFails
    <2>2. /\ s \in PageState /\ s.fetch = "none" /\ s.next = page[p].next
          /\ s.list = page[p].list /\ s.listLost
          /\ s.wanted = page[p].wanted /\ s.mixed = page[p].mixed
          /\ s.result = page[p].result /\ s.shown = page[p].shown
          /\ s.restore = page[p].restore /\ s.restoreId = page[p].restoreId
          /\ s.limit = page[p].limit /\ s.own = page[p].own
      BY <1>1 DEF PageState
    <2> HIDE DEF s
    <2>3. page'[p] = s => Listed(p)' BY <1>1, <1>2, <2>2 DEF PageInv, Listed
    <2>4. s.list \cup s.next \subseteq 1..Len(made) BY <1>1, <2>2 DEF PageInv, Ranges
    <2>5. QED BY <1>3, <2>1, <2>2, <2>3, <2>4
  <1>7. ASSUME ShowMore(p) PROVE ScreensInv'
    <2> DEFINE s == [page[p] EXCEPT !.limit = page[p].limit + PageStep, !.list = {},
                                    !.fetch = "asked"]
    <2>1. page' = [page EXCEPT ![p] = s] BY <1>1, <1>7 DEF ShowMore
    <2>2. /\ s \in PageState /\ s.fetch = "asked" /\ s.next = page[p].next /\ s.list = {}
          /\ s.wanted = page[p].wanted /\ s.mixed = page[p].mixed
          /\ s.result = page[p].result /\ s.shown = page[p].shown
          /\ s.restore = page[p].restore /\ s.restoreId = page[p].restoreId
          /\ s.own = page[p].own
      <3>1. page[p].limit + PageStep \in Nat BY <1>1, PageAssumption DEF PageState
      <3>2. QED BY <1>1, <3>1 DEF PageState
    <2> HIDE DEF s
    <2>3. page'[p] = s => Listed(p)' BY <1>1, <1>2, <2>2 DEF PageInv, Listed
    <2>4. s.list \cup s.next \subseteq 1..Len(made) BY <1>1, <2>2 DEF PageInv, Ranges
    <2>5. QED BY <1>3, <2>1, <2>2, <2>3, <2>4
  <1>8. QED BY <1>4, <1>5, <1>6, <1>7

LEMMA ScreensInit == Init => ScreensInv
  <1> SUFFICES ASSUME Init PROVE ScreensInv
    OBVIOUS
  <1> DEFINE s == [result |-> 0, shown |-> NoParams,
                   restore |-> "idle", restoreId |-> 0, list |-> {}, limit |-> PageStep,
                   fetch |-> "asked", next |-> {}, listLost |-> FALSE,
                   wanted |-> NoParams, mixed |-> FALSE, own |-> 0]
  <1>1. page = [p \in Screens |-> s] /\ made = << >> BY DEF Init, RunsInit
  <1>2. s \in PageState BY PageAssumption DEF PageState
  <1>3. /\ s.result = 0 /\ s.own = 0 /\ s.restoreId = 0 /\ s.restore = "idle"
        /\ s.list = {} /\ s.next = {} /\ s.wanted = NoParams
    OBVIOUS
  <1> HIDE DEF s
  <1>4. Len(made) = 0 BY <1>1
  <1>5. \A p \in Screens : Ranges(p) /\ Listed(p) /\ Screen(p)
    BY <1>1, <1>3, <1>4 DEF Ranges, Listed, Screen
  <1>6. QED BY <1>1, <1>2, <1>5 DEF ScreensInv, PageInv

LEMMA ScreensStep ==
  ASSUME RunsTypeOK, RunsTypeOK', RequestInv, ScreensInv, [Next]_vars
  PROVE  ScreensInv'
  <1>1. Grows BY StepOfRuns, GrowsStep
  <1>2. ASSUME NEW p \in Screens, NEW x \in Params, Submit(p, x) PROVE ScreensInv'
    BY <1>1, <1>2, SubmitKeeps
  <1>3. ASSUME NEW p \in Screens, RunSucceeds(p) \/ RunFails(p) PROVE ScreensInv'
    BY <1>1, <1>3, RunSucceedsKeeps, RunFailsKeeps
  <1>4. ASSUME NEW p \in Screens,
               \/ \E i \in page[p].list : Restore(p, i)
               \/ ServeRestore(p) \/ RestoreSucceeds(p) \/ RestoreFails(p)
        PROVE  ScreensInv'
    BY <1>4, RestoreKeeps
  <1>5. ASSUME NEW p \in Screens,
               ServeList(p) \/ ReceiveList(p) \/ ListFails(p) \/ ShowMore(p)
        PROVE  ScreensInv'
    BY <1>5, ListKeeps
  <1>6. req \in [Pages -> Post] /\ Screens \subseteq Pages
    BY PageAssumption DEF RunsTypeOK
  <1>7. ASSUME NEW p \in Pages, Serve(p), page' = page PROVE ScreensInv'
    <2>1. /\ req'[p].phase # "idle" /\ req[p].phase # "idle"
          /\ req'[p].params = req[p].params
          /\ \A q \in Pages : q # p => req'[q] = req[q]
      BY <1>6, <1>7 DEF Serve, Refuse, DrawId, Insert, InsertFails, NothingToPrune,
                        ReadOldest, Prune, PruneFails, To, Post
    <2>2. QED BY <1>1, <1>6, <1>7, <2>1, RunsStep
  <1>8. ASSUME NEW p \in Pages \ Screens, (\E x \in Params : Ask(p, x)) \/ Receive(p),
               page' = page
        PROVE  ScreensInv'
    <2>1. \A q \in Screens : req'[q] = req[q] BY <1>6, <1>8 DEF Ask, Receive
    <2>2. QED BY <1>1, <1>8, <2>1, RunsStep
  <1>9. ASSUME req' = req, page' = page PROVE ScreensInv'
    BY <1>1, <1>9, RunsStep
  <1>10. QED
    BY <1>2, <1>3, <1>4, <1>5, <1>7, <1>8, <1>9
    DEF Next, Server, Elsewhere, DeleteUser, vars, runVars

\* Everything the page's theorems rest on.
LEMMA PageHolds == Spec => [](RunsTypeOK /\ RequestInv /\ ScreensInv)
  <1>1. Init => RequestInv /\ ScreensInv
    <2>1. Init => RequestInv BY DEF Init, RunsInit, RequestInv, NoPost
    <2>2. QED BY <2>1, ScreensInit
  <1>2. /\ RunsTypeOK /\ RunsTypeOK' /\ RequestInv /\ ScreensInv /\ [Next]_vars
        => RequestInv' /\ ScreensInv'
    BY StepOfRuns, RequestStep, ScreensStep
  <1>3. Spec => []RunsTypeOK BY RunsRefined, RunsTypeCorrect, PTL
  <1>4. QED BY <1>1, <1>2, <1>3, PTL DEF Spec

\* Every reachable state of any number of pages is well typed; no list, result
\* or restore names a run that was never made.
THEOREM PageTypeCorrect == Spec => []TypeOK
  <1>1. RunsTypeOK /\ ScreensInv => TypeOK BY DEF ScreensInv, PageInv, Ranges, TypeOK
  <1>2. QED BY <1>1, PageHolds, PTL

\* The numbers on a screen carry the scenario of the run they belong to, for
\* any number of pages that run and restore at once (ForecastPage.tsx).
THEOREM ResultAlwaysItsRun == Spec => []ResultIsItsRun
  <1>1. ScreensInv => ResultIsItsRun BY DEF ScreensInv, PageInv, Screen, ResultIsItsRun
  <1>2. QED BY <1>1, PageHolds, PTL

\* With nothing pending a screen shows what its user asked for last, but for a
\* failure and for two answers that were awaited at once.
THEOREM ScreenAlwaysExplained == Spec => []ScreenExplained
  <1>1. ScreensInv => ScreenExplained
    BY DEF ScreensInv, PageInv, Screen, Asked, Pending, ScreenExplained
  <1>2. QED BY <1>1, PageHolds, PTL

\* A page's own run is in its list, unless the list is being read again, that
\* reading failed, or newer runs pushed it out, whoever else saves and prunes.
THEOREM OwnRunAlwaysListed == Spec => []OwnRunListed
  <1>1. ScreensInv => OwnRunListed
    BY DEF ScreensInv, PageInv, Listed, OwnRunListed
  <1>2. QED BY <1>1, PageHolds, PTL

\* With the pages around them the runs keep what they keep alone.
THEOREM PagesKeepRuns == Spec => [](NewestRunsStay /\ RetentionHolds)
  <1>1. QED BY RunsRefined, NewestRunsAlwaysStay, RetentionAlwaysHolds, PTL

=============================================================================
