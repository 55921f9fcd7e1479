--------------------------- MODULE ResponseCache ---------------------------
(***************************************************************************)
(* The shared Redis cache: analytics routes and the forecast's monthly     *)
(* history fill it, master-data writes clear all of it, the readiness      *)
(* probe writes a key of its own.  An answer is abstracted to the number   *)
(* of master-data changes its query saw.                                   *)
(***************************************************************************)
EXTENDS Integers, FiniteSets

CONSTANTS
  Readers, Writers, Probes,  \* requests being served
  Keys, History,             \* cached URLs, and HISTORY_CACHE_KEY
  MaxVersion,                \* bound: changes of the master data
  MaxFaults                  \* bound: cache calls that fail, direct writes

ASSUME CacheAssumption ==
  /\ History \in Keys
  /\ MaxVersion \in Nat /\ MaxFaults \in Nat

VARIABLES
  version,  \* committed changes of the master data
  cache,    \* cache[k]: the entry of key k
  reader,   \* reader[r]: a GET of a cached route, or a forecast
  writer,   \* writer[w]: a POST, PATCH or DELETE on master data
  probe,    \* probe[p]: a GET /health/ready
  probeKey, \* health:probe is in the cache
  owed,     \* a change was not followed by a clear, nor by a later one
  faults    \* failed cache calls and direct writes so far

vars == <<version, cache, reader, writer, probe, probeKey, owed, faults>>

\* late: the rows were already out of date when the entry was stored.
Entry   == [full : BOOLEAN, rows : Nat, late : BOOLEAN]
Request == [phase : {"idle", "query", "store"}, key : Keys, store : BOOLEAN, rows : Nat]
\* met: what the probe ran into, a history variable.
Check   == [phase : {"idle", "set", "get"}, report : {"none", "ok", "degraded"},
            met : SUBSET {"fault", "clear", "timeout", "database"}]

TypeOK ==
  /\ version \in Nat /\ faults \in Nat
  /\ cache \in [Keys -> Entry]
  /\ reader \in [Readers -> Request]
  /\ writer \in [Writers -> {"idle", "clear"}]
  /\ probe \in [Probes -> Check]
  /\ probeKey \in BOOLEAN /\ owed \in BOOLEAN

Absent == [full |-> FALSE, rows |-> 0, late |-> FALSE]
Idle   == [phase |-> "idle", key |-> History, store |-> FALSE, rows |-> 0]
NoProbe == [phase |-> "idle", report |-> "none", met |-> {}]

Init ==
  /\ version = 0 /\ faults = 0
  /\ cache = [k \in Keys |-> Absent]
  /\ reader = [r \in Readers |-> Idle]
  /\ writer = [w \in Writers |-> "idle"]
  /\ probe = [p \in Probes |-> NoProbe]
  /\ probeKey = FALSE /\ owed = FALSE

Fault == faults < MaxFaults /\ faults' = faults + 1

---------------------------------------------------------------------------
(* Reads.  CacheInterceptor answers a hit and stores what the handler      *)
(* answers; after a failing get it runs the handler and stores nothing.    *)
(* loadMonthlyHistory stores in both cases.                                *)

Hit(r, k) ==
  /\ reader[r].phase = "idle" /\ cache[k].full
  /\ UNCHANGED vars

Miss(r, k) ==
  /\ reader[r].phase = "idle" /\ ~cache[k].full
  /\ reader' = [reader EXCEPT ![r] = [phase |-> "query", key |-> k, store |-> TRUE, rows |-> 0]]
  /\ UNCHANGED <<version, cache, writer, probe, probeKey, owed, faults>>

GetFails(r, k) ==
  /\ reader[r].phase = "idle"
  /\ Fault
  /\ reader' = [reader EXCEPT ![r] = [phase |-> "query", key |-> k,
                                      store |-> k = History, rows |-> 0]]
  /\ UNCHANGED <<version, cache, writer, probe, probeKey, owed>>

Query(r) ==
  /\ reader[r].phase = "query"
  /\ reader' = [reader EXCEPT ![r] = IF @.store
                  THEN [@ EXCEPT !.phase = "store", !.rows = version] ELSE Idle]
  /\ UNCHANGED <<version, cache, writer, probe, probeKey, owed, faults>>

Store(r) ==
  /\ reader[r].phase = "store"
  /\ cache' = [cache EXCEPT ![reader[r].key] =
                 [full |-> TRUE, rows |-> reader[r].rows, late |-> reader[r].rows < version]]
  /\ reader' = [reader EXCEPT ![r] = Idle]
  /\ UNCHANGED <<version, writer, probe, probeKey, owed, faults>>

StoreFails(r) ==
  /\ reader[r].phase = "store"
  /\ Fault
  /\ reader' = [reader EXCEPT ![r] = Idle]
  /\ UNCHANGED <<version, cache, writer, probe, probeKey, owed>>

\* Every entry is stored with a time to live; mutant: without one.
Expires_Never(k) == FALSE
Expires(k) == cache[k].full

Expire(k) ==
  /\ Expires(k)
  /\ cache' = [cache EXCEPT ![k] = Absent]
  /\ UNCHANGED <<version, reader, writer, probe, probeKey, owed, faults>>

---------------------------------------------------------------------------
(* Writes: the handler commits, then the interceptor clears.               *)

\* Mutant: the interceptor skips the clear.
Write_NoClear(w) ==
  /\ writer[w] = "idle" /\ version < MaxVersion
  /\ version' = version + 1
  /\ UNCHANGED <<cache, reader, writer, probe, probeKey, owed, faults>>
Write(w) ==
  /\ writer[w] = "idle" /\ version < MaxVersion
  /\ version' = version + 1
  /\ writer' = [writer EXCEPT ![w] = "clear"]
  /\ UNCHANGED <<cache, reader, probe, probeKey, owed, faults>>

Clear(w) ==
  /\ writer[w] = "clear"
  /\ cache' = [k \in Keys |-> Absent]
  /\ probeKey' = FALSE
  /\ probe' = [p \in Probes |-> IF probe[p].phase = "get"
                                THEN [probe[p] EXCEPT !.met = @ \cup {"clear"}] ELSE probe[p]]
  /\ writer' = [writer EXCEPT ![w] = "idle"]
  /\ owed' = FALSE
  /\ UNCHANGED <<version, reader, faults>>

\* Logged; the write still answers with success.
ClearFails(w) ==
  /\ writer[w] = "clear"
  /\ Fault
  /\ writer' = [writer EXCEPT ![w] = "idle"]
  /\ owed' = TRUE
  /\ UNCHANGED <<version, cache, reader, probe, probeKey>>

\* The seed scripts write the tables directly and do not know the cache.
DirectWrite ==
  /\ version < MaxVersion
  /\ Fault
  /\ version' = version + 1
  /\ owed' = TRUE
  /\ UNCHANGED <<cache, reader, writer, probe, probeKey>>

---------------------------------------------------------------------------
(* Readiness: SELECT 1 beside a write and a read back of health:probe,     *)
(* each given three seconds.                                               *)

Waiting(p) == probe[p].phase # "idle" /\ probe[p].report = "none"

StartProbe(p) ==
  /\ probe[p].phase = "idle"
  /\ probe' = [probe EXCEPT ![p] = [NoProbe EXCEPT !.phase = "set"]]
  /\ UNCHANGED <<version, cache, reader, writer, probeKey, owed, faults>>

\* The report is given once: what comes after the timeout is dropped.
Answer(p, status) == IF probe[p].report = "none" THEN status ELSE probe[p].report

ProbeSet(p) ==
  /\ probe[p].phase = "set"
  /\ probeKey' = TRUE
  /\ probe' = [probe EXCEPT ![p].phase = "get"]
  /\ UNCHANGED <<version, cache, reader, writer, owed, faults>>

ProbeGet(p) ==
  /\ probe[p].phase = "get"
  /\ \E up \in BOOLEAN :
       probe' = [probe EXCEPT ![p] =
                   [phase |-> "idle",
                    report |-> Answer(p, IF probeKey /\ up THEN "ok" ELSE "degraded"),
                    met |-> IF up THEN @.met ELSE @.met \cup {"database"}]]
  /\ UNCHANGED <<version, cache, reader, writer, probeKey, owed, faults>>

ProbeFails(p) ==
  /\ probe[p].phase # "idle"
  /\ Fault
  /\ probe' = [probe EXCEPT ![p] = [phase |-> "idle", report |-> Answer(p, "degraded"),
                                    met |-> @.met \cup {"fault"}]]
  /\ UNCHANGED <<version, cache, reader, writer, probeKey, owed>>

\* The losing promise is not cancelled: it goes on after the report.
Timeout(p) ==
  /\ Waiting(p)
  /\ probe' = [probe EXCEPT ![p].report = "degraded", ![p].met = @ \cup {"timeout"}]
  /\ UNCHANGED <<version, cache, reader, writer, probeKey, owed, faults>>

\* The key lives five seconds, a probe waits three: it expires only when no
\* probe that wrote it still waits.  Mutant: a shorter life.
KeyMayExpire_Sooner == probeKey
KeyMayExpire == probeKey /\ \A p \in Probes : ~(Waiting(p) /\ probe[p].phase = "get")

ProbeKeyExpires ==
  /\ KeyMayExpire
  /\ probeKey' = FALSE
  /\ UNCHANGED <<version, cache, reader, writer, probe, owed, faults>>

Next ==
  \/ \E r \in Readers : \/ \E k \in Keys : Hit(r, k) \/ Miss(r, k) \/ GetFails(r, k)
                        \/ Query(r) \/ Store(r) \/ StoreFails(r)
  \/ \E k \in Keys : Expire(k)
  \/ \E w \in Writers : Write(w) \/ Clear(w) \/ ClearFails(w)
  \/ DirectWrite
  \/ \E p \in Probes : StartProbe(p) \/ ProbeSet(p) \/ ProbeGet(p) \/ ProbeFails(p) \/ Timeout(p)
  \/ ProbeKeyExpires

Spec == Init /\ [][Next]_vars

\* Redis drops what has outlived its time to live.
FairSpec == Spec /\ \A k \in Keys : WF_vars(Expire(k))

---------------------------------------------------------------------------
Stale(k) == cache[k].full /\ cache[k].rows < version
ClearPending == \E w \in Writers : writer[w] = "clear"

\* An answer older than the master data is in the cache only while the clear
\* of a change is still to come, after a clear that failed (or a script that
\* does not clear), or because its query ran before the change and its store
\* after it (CacheInvalidationInterceptor.intercept, loadMonthlyHistory).
StaleExplained ==
  \A k \in Keys : Stale(k) => ClearPending \/ owed \/ cache[k].late

\* "briefly stale reports" (cache-invalidation.interceptor.ts:55): an answer
\* older than the master data does not stay, even when the clear failed.
StaleIsBrief == \A k \in Keys : Stale(k) ~> ~Stale(k)

\* A readiness report that is degraded met a dependency that failed or was too
\* slow, or a clear between the probe's write and its read back; one that is
\* ok had both answers in time, and what arrives after the three seconds does
\* not turn it (HealthService.probeCache, withTimeout).
ReportExplained ==
  \A p \in Probes :
    /\ probe[p].report = "degraded" => probe[p].met # {}
    /\ probe[p].report = "ok" => probe[p].met \cap {"timeout", "fault", "database"} = {}

\* "the entry cannot outlive a change to the geography it is grouped by"
\* (spatial-forecast.service.ts:76-78): once every clear is done, the
\* history in the cache is the current one.
HistoryNeverOutlivesAChange == Stale(History) => ClearPending

=============================================================================
