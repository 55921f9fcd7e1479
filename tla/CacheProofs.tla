---------------------------- MODULE CacheProofs ----------------------------
(***************************************************************************)
(* Theorems about ResponseCache: a stale entry has one of three reasons,   *)
(* and a readiness report is about what the probe met.                     *)
(***************************************************************************)
EXTENDS ResponseCache, TLAPS

Reads  == \E r \in Readers : \/ \E k \in Keys : Hit(r, k) \/ Miss(r, k) \/ GetFails(r, k)
                             \/ Query(r) \/ Store(r) \/ StoreFails(r)
Writes == (\E w \in Writers : Write(w) \/ Clear(w) \/ ClearFails(w)) \/ DirectWrite
ProbeStep(p) == StartProbe(p) \/ ProbeSet(p) \/ ProbeGet(p) \/ ProbeFails(p) \/ Timeout(p)

LEMMA NextSplit ==
  Next <=> Reads \/ (\E k \in Keys : Expire(k)) \/ Writes
           \/ (\E p \in Probes : ProbeStep(p)) \/ ProbeKeyExpires
  BY DEF Next, Reads, Writes, ProbeStep

-----------------------------------------------------------------------------
(* Types                                                                   *)

LEMMA InitTyped == Init => TypeOK
  <1> SUFFICES ASSUME Init PROVE TypeOK OBVIOUS
  <1>1. Absent \in Entry BY DEF Absent, Entry
  <1>2. Idle \in Request BY CacheAssumption DEF Idle, Request
  <1>3. NoProbe \in Check BY DEF NoProbe, Check
  <1>4. QED BY <1>1, <1>2, <1>3 DEF Init, TypeOK

LEMMA ReadsTyped == ASSUME TypeOK, Reads PROVE TypeOK'
  <1> USE CacheAssumption DEF TypeOK, Entry, Request, Idle, Absent
  <1>1. ASSUME NEW r \in Readers, NEW k \in Keys, Hit(r, k) \/ Miss(r, k) \/ GetFails(r, k)
        PROVE  TypeOK'
    <2>1. CASE Hit(r, k)  BY <2>1 DEF Hit, vars
    <2>2. CASE Miss(r, k) BY <2>2 DEF Miss
    <2>3. CASE GetFails(r, k)
      <3> DEFINE asks == [phase |-> "query", key |-> k, store |-> k = History, rows |-> 0]
      <3>1. (k = History) \in BOOLEAN OBVIOUS
      <3>2. asks \in Request BY <3>1 DEF Request
      <3> HIDE DEF asks
      <3>3. reader' \in [Readers -> Request]
        BY <2>3, <3>2, Zenon DEF GetFails, asks
      <3>4. QED BY <2>3, <3>3 DEF GetFails, Fault
    <2>4. QED BY <1>1, <2>1, <2>2, <2>3
  <1>2. ASSUME NEW r \in Readers, Query(r) PROVE TypeOK'
    BY <1>2 DEF Query
  <1>3. ASSUME NEW r \in Readers, Store(r) PROVE TypeOK'
    BY <1>3 DEF Store
  <1>4. ASSUME NEW r \in Readers, StoreFails(r) PROVE TypeOK'
    BY <1>4 DEF StoreFails, Fault
  <1>5. QED BY <1>1, <1>2, <1>3, <1>4 DEF Reads

LEMMA WritesTyped == ASSUME TypeOK, Writes PROVE TypeOK'
  <1> USE CacheAssumption DEF TypeOK, Entry, Absent
  <1>0. ASSUME NEW w \in Writers, Write(w) PROVE TypeOK'
    BY <1>0 DEF Write
  <1>1. ASSUME NEW w \in Writers, ClearFails(w) PROVE TypeOK'
    BY <1>1 DEF ClearFails, Fault
  <1>2. ASSUME NEW w \in Writers, Clear(w) PROVE TypeOK'
    <2>1. probe' \in [Probes -> Check]
      BY <1>2 DEF Clear, Check
    <2>2. QED BY <1>2, <2>1 DEF Clear
  <1>3. ASSUME DirectWrite PROVE TypeOK'
    BY <1>3 DEF DirectWrite, Fault
  <1>4. QED BY <1>0, <1>1, <1>2, <1>3 DEF Writes

LEMMA ProbeTyped == ASSUME TypeOK, NEW p \in Probes, ProbeStep(p) PROVE TypeOK'
  <1> USE CacheAssumption DEF TypeOK, Check
  <1>1. CASE StartProbe(p) BY <1>1 DEF StartProbe, NoProbe
  <1>2. CASE ProbeSet(p)   BY <1>2 DEF ProbeSet
  <1>3. CASE ProbeGet(p)   BY <1>3 DEF ProbeGet, Answer
  <1>4. CASE ProbeFails(p) BY <1>4 DEF ProbeFails, Answer, Fault
  <1>5. CASE Timeout(p)    BY <1>5 DEF Timeout
  <1>6. QED BY <1>1, <1>2, <1>3, <1>4, <1>5 DEF ProbeStep

\* Every reachable state of the cache, its readers, writers and probes has the
\* declared types (ResponseCache).
THEOREM CacheTypeCorrect == Spec => []TypeOK
  <1>1. Init => TypeOK BY InitTyped
  <1>2. TypeOK /\ [Next]_vars => TypeOK'
    <2> SUFFICES ASSUME TypeOK, [Next]_vars PROVE TypeOK' OBVIOUS
    <2>1. ASSUME NEW k \in Keys, Expire(k) PROVE TypeOK'
      BY <2>1 DEF Expire, TypeOK, Entry, Absent
    <2>2. CASE ProbeKeyExpires BY <2>2 DEF ProbeKeyExpires, TypeOK
    <2>3. CASE UNCHANGED vars BY <2>3 DEF vars, TypeOK
    <2>4. QED BY <2>1, <2>2, <2>3, NextSplit, ReadsTyped, WritesTyped, ProbeTyped
  <1>3. QED BY <1>1, <1>2, PTL DEF Spec

-----------------------------------------------------------------------------
(* StaleExplained is inductive: a change leaves its own clear to come, a   *)
(* clear leaves nothing, and a store after a change says so in its entry.  *)

LEMMA StaleInit == Init => StaleExplained
  BY DEF Init, StaleExplained, Stale, Absent

LEMMA StaleStep ==
  ASSUME TypeOK, StaleExplained, [Next]_vars
  PROVE  StaleExplained'
  <1> USE DEF StaleExplained, Stale, ClearPending
  <1>1. ASSUME NEW r \in Readers, NEW k \in Keys, Hit(r, k) \/ Miss(r, k) \/ GetFails(r, k)
        PROVE  StaleExplained'
    BY <1>1 DEF Hit, Miss, GetFails, vars
  <1>2. ASSUME NEW r \in Readers, Query(r) \/ StoreFails(r) PROVE StaleExplained'
    BY <1>2 DEF Query, StoreFails
  <1>3. ASSUME NEW r \in Readers, Store(r) PROVE StaleExplained'
    BY <1>3 DEF Store, TypeOK, Entry, Request
  <1>4. ASSUME NEW k \in Keys, Expire(k) PROVE StaleExplained'
    BY <1>4 DEF Expire, TypeOK, Absent
  <1>5. ASSUME NEW w \in Writers, Write(w) PROVE StaleExplained'
    BY <1>5 DEF Write, TypeOK
  <1>6. ASSUME NEW w \in Writers, Clear(w) PROVE StaleExplained'
    BY <1>6 DEF Clear, Absent
  <1>7. ASSUME NEW w \in Writers, ClearFails(w) PROVE StaleExplained'
    BY <1>7 DEF ClearFails
  <1>8. CASE DirectWrite BY <1>8 DEF DirectWrite
  <1>9. ASSUME NEW p \in Probes, ProbeStep(p) PROVE StaleExplained'
    BY <1>9 DEF ProbeStep, StartProbe, ProbeSet, ProbeGet, ProbeFails, Timeout
  <1>10. CASE ProbeKeyExpires BY <1>10 DEF ProbeKeyExpires
  <1>11. CASE UNCHANGED vars BY <1>11 DEF vars
  <1>12. QED
    BY <1>1, <1>2, <1>3, <1>4, <1>5, <1>6, <1>7, <1>8, <1>9, <1>10, <1>11, NextSplit
    DEF Reads, Writes

\* For any number of readers, writers and keys: what is out of date in the
\* cache has its clear still to come, lost it, or was stored late.
THEOREM StaleAlwaysExplained == Spec => []StaleExplained
  <1>1. Init => StaleExplained BY StaleInit
  <1>2. TypeOK /\ StaleExplained /\ [Next]_vars => StaleExplained' BY StaleStep
  <1>3. QED BY <1>1, <1>2, CacheTypeCorrect, PTL DEF Spec

-----------------------------------------------------------------------------
(* ReportExplained.  Inductive once it is known what a probe that has not  *)
(* answered yet can have met: nothing that failed, and a clear if its key  *)
(* is gone.                                                                *)

Failures == {"timeout", "fault", "database"}
ProbeInv ==
  \A p \in Probes :
    /\ probe[p].report = "none" => probe[p].met \cap Failures = {}
    /\ probe[p].report = "none" /\ probe[p].phase = "get" => probeKey \/ "clear" \in probe[p].met
    /\ probe[p].phase # "idle" => probe[p].report # "ok"
ReportInv == ProbeInv /\ ReportExplained

LEMMA ReportInit == Init => ReportInv
  BY DEF Init, ReportInv, ProbeInv, ReportExplained, NoProbe, Failures

LEMMA ProbeStepReports ==
  ASSUME TypeOK, ReportInv, NEW p \in Probes, ProbeStep(p)
  PROVE  ReportInv'
  <1> USE DEF TypeOK, Check, ReportInv, ProbeInv, ReportExplained, Failures
  <1>1. CASE StartProbe(p) BY <1>1 DEF StartProbe, NoProbe
  <1>2. CASE ProbeSet(p)   BY <1>2 DEF ProbeSet
  <1>3. CASE ProbeGet(p)
    <2>1. PICK up \in BOOLEAN :
            probe' = [probe EXCEPT ![p] =
                        [phase |-> "idle",
                         report |-> Answer(p, IF probeKey /\ up THEN "ok" ELSE "degraded"),
                         met |-> IF up THEN @.met ELSE @.met \cup {"database"}]]
      BY <1>3 DEF ProbeGet
    <2>2. probeKey' = probeKey BY <1>3 DEF ProbeGet
    <2>3. probe[p].phase = "get" BY <1>3 DEF ProbeGet
    <2>4. CASE up BY <2>1, <2>2, <2>3, <2>4 DEF Answer
    <2>5. CASE ~up BY <2>1, <2>2, <2>3, <2>5 DEF Answer
    <2>6. QED BY <2>4, <2>5
  <1>4. CASE ProbeFails(p) BY <1>4 DEF ProbeFails, Answer
  <1>5. CASE Timeout(p)    BY <1>5 DEF Timeout, Waiting
  <1>6. QED BY <1>1, <1>2, <1>3, <1>4, <1>5 DEF ProbeStep

LEMMA ReportStep ==
  ASSUME TypeOK, ReportInv, [Next]_vars
  PROVE  ReportInv'
  <1> USE DEF ReportInv, ProbeInv, ReportExplained, Failures
  <1>1. CASE UNCHANGED <<probe, probeKey>> BY <1>1
  <1>2. ASSUME NEW w \in Writers, Clear(w) PROVE ReportInv'
    BY <1>2 DEF Clear, TypeOK, Check
  <1>3. CASE ProbeKeyExpires
    BY <1>3 DEF ProbeKeyExpires, KeyMayExpire, Waiting
  <1>4. CASE Reads \/ (\E k \in Keys : Expire(k)) \/ UNCHANGED vars
    BY <1>1, <1>4
    DEF Reads, Hit, Miss, GetFails, Query, Store, StoreFails, Expire, vars
  <1>5. CASE Writes
    BY <1>1, <1>2, <1>5 DEF Writes, Write, ClearFails, DirectWrite
  <1>6. QED BY <1>3, <1>4, <1>5, NextSplit, ProbeStepReports

\* For any number of probes and writers at once: a degraded report met a
\* failure, a timeout or a clear, and a good one met none of the failures.
THEOREM ReportAlwaysExplained == Spec => []ReportExplained
  <1>1. Init => ReportInv BY ReportInit
  <1>2. TypeOK /\ ReportInv /\ [Next]_vars => ReportInv' BY ReportStep
  <1>3. ReportInv => ReportExplained BY DEF ReportInv
  <1>4. QED BY <1>1, <1>2, <1>3, CacheTypeCorrect, PTL DEF Spec

=============================================================================
