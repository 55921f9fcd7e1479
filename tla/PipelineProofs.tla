--------------------------- MODULE PipelineProofs ---------------------------
(***************************************************************************)
(* Theorems about the request pipeline as the pages use it: one log line per *)
(* request and no data past the guards, figures that are those of the      *)
(* controls beside them, and no repetition of what was refused.            *)
(***************************************************************************)
EXTENDS Panels, TLAPS

\* What is true of one request between two steps.  Inductive: the guards are
\* behind a request that reached its handler, and the log keeps its line.
Sound(r) ==
  /\ r.lines \in {0, 1} /\ r.status \in Int
  /\ r.stage \in {"none", "arrived", "handler", "send"} => r.lines = 0
  /\ r.stage \in {"none", "arrived", "handler"} => r.status = 200
  /\ r.stage \in {"finished", "closed"} => (r.lines = 0 <=> r.route = Health /\ r.status < 400)
  /\ r.stage = "handler" \/ (r.stage \in {"send", "finished"} /\ r.status = 200) =>
       r.route = Health \/ (r.user \in ReadRoles /\ r.route # Undecorated)

RequestType ==
  [stage : {"none", "arrived", "handler", "send", "finished", "closed"},
   route : Routes \cup Pages, user : ReadRoles \cup Users \cup {"none"}, valid : BOOLEAN,
   status : Int, lines : Int, lost : BOOLEAN]

PipelineInv ==
  /\ page \in Pages
  /\ request \in [DOMAIN request -> RequestType]
  /\ \A k \in DOMAIN request : Sound(request[k])

LEMMA SoundHolds == PipelineInv => PipelineHolds
  BY DEF PipelineInv, RequestType, Sound, PipelineHolds, OneLinePerRequest, NothingUnguarded

LEMMA Fresh == NoRequest \in RequestType /\ Sound(NoRequest)
  BY RequestsAssumption DEF NoRequest, RequestType, Sound

LEMMA FreshArrival ==
  ASSUME NEW route \in Routes \cup Pages, NEW user \in ReadRoles \cup Users,
         NEW valid \in BOOLEAN
  PROVE  Arrived(route, user, valid) \in RequestType /\ Sound(Arrived(route, user, valid))
  <1>1. PICK n \in RequestType : n = NoRequest /\ n.lines = 0 /\ n.status = 200
    BY Fresh DEF NoRequest
  <1>2. PICK a : a = Arrived(route, user, valid) OBVIOUS
  <1>3. a = [n EXCEPT !.stage = "arrived", !.route = route, !.user = user, !.valid = valid]
    BY <1>1, <1>2 DEF Arrived
  <1>4. a \in RequestType /\ a.stage = "arrived" /\ a.lines = 0 /\ a.status = 200
    BY <1>1, <1>3 DEF RequestType
  <1>5. Sound(a) BY <1>4 DEF Sound
  <1>6. QED BY <1>2, <1>4, <1>5

\* A step of the pipeline replaces one request by a sound one.
LEMMA Replace ==
  ASSUME PipelineInv, NEW k \in DOMAIN request, NEW r \in RequestType, Sound(r),
         request' = [request EXCEPT ![k] = r], page' = page
  PROVE  PipelineInv'
  BY DEF PipelineInv

LEMMA AdmitSound ==
  ASSUME PipelineInv, NEW k \in DOMAIN request, Admit(k), page' = page
  PROVE  PipelineInv'
  <1>1. /\ request[k] \in RequestType /\ Sound(request[k]) /\ request[k].stage = "arrived"
    BY DEF PipelineInv, Admit
  <1>2. PICK s : s = GuardStatus(request[k]) OBVIOUS
  <1>3. s \in {429, 401, 403, 400, 200} BY <1>2 DEF GuardStatus
  <1>4. s = 200 => \/ request[k].route = Health
                   \/ request[k].user \in ReadRoles /\ request[k].route # Undecorated
    BY <1>2 DEF GuardStatus, Authorized, RequiredRoles, IsPublic
  <1>5. PICK stage \in {"handler", "send"} :
          stage = (IF s < 400 THEN "handler" ELSE "send")
    BY <1>3
  <1>6. PICK a : a = [request[k] EXCEPT !.stage = stage, !.status = s] OBVIOUS
  <1>7. /\ a \in RequestType /\ a.stage = stage /\ a.status = s
        /\ a.lines = request[k].lines /\ a.route = request[k].route /\ a.user = request[k].user
    <2>1. request[k] \in RequestType /\ s \in Int BY <1>1, <1>3
    <2>2. PICK r : r = request[k] OBVIOUS
    <2>3. r \in RequestType /\ a = [r EXCEPT !.stage = stage, !.status = s]
      BY <1>6, <2>1, <2>2
    <2>4. /\ a \in RequestType /\ a.stage = stage /\ a.status = s
          /\ a.lines = r.lines /\ a.route = r.route /\ a.user = r.user
      BY <2>1, <2>3 DEF RequestType
    <2>5. QED BY <2>2, <2>4
  <1>8. Sound(a) BY <1>1, <1>3, <1>4, <1>5, <1>7 DEF Sound
  <1>9. request' = [request EXCEPT ![k] = a]
    BY <1>2, <1>5, <1>6 DEF Admit, PipelineInv
  <1>10. QED BY <1>7, <1>8, <1>9, Replace

LEMMA HandleSound ==
  ASSUME PipelineInv, NEW k \in DOMAIN request, Handle(k), page' = page
  PROVE  PipelineInv'
  <1>1. request[k] \in RequestType /\ Sound(request[k]) /\ request[k].stage = "handler"
    BY DEF PipelineInv, Handle
  <1>2. PICK outcome \in DOMAIN StatusOf :
          request' = [request EXCEPT ![k].stage = "send", ![k].status = StatusOf[outcome]]
    BY DEF Handle
  <1>3. PICK s \in Int : s = StatusOf[outcome] BY DEF StatusOf
  <1>4. PICK a : a = [request[k] EXCEPT !.stage = "send", !.status = s] OBVIOUS
  <1>5. /\ a \in RequestType /\ a.stage = "send" /\ a.status = s
        /\ a.lines = request[k].lines /\ a.route = request[k].route /\ a.user = request[k].user
    BY <1>1, <1>4 DEF RequestType
  <1>6. Sound(a) BY <1>1, <1>5 DEF Sound
  <1>7. request' = [request EXCEPT ![k] = a] BY <1>2, <1>3, <1>4 DEF PipelineInv
  <1>8. QED BY <1>5, <1>6, <1>7, Replace

\* The log writes its line once, and none for a probe that is well.
LEMMA Logged ==
  ASSUME NEW r \in RequestType, Sound(r)
  PROVE  /\ Log(r) \in RequestType /\ Log(r).lines \in {0, 1} /\ Log(r).stage = r.stage
         /\ Log(r).status = r.status /\ Log(r).route = r.route /\ Log(r).user = r.user
         /\ \/ r.stage \in {"none", "arrived", "handler", "send"}
            \/ r.stage \in {"finished", "closed"}
         /\ Log(r).lines = 0 <=> r.route = Health /\ r.status < 400
  <1>1. PICK n : n = IF r.lines > 0 \/ (r.route = Health /\ r.status < 400)
                     THEN r.lines ELSE r.lines + 1
    OBVIOUS
  <1>2. Log(r) = [r EXCEPT !.lines = n] BY <1>1 DEF Log, RequestType
  <1>3. n \in {0, 1} /\ (n = 0 <=> r.route = Health /\ r.status < 400)
    BY <1>1 DEF Sound, RequestType
  <1>4. QED BY <1>2, <1>3 DEF RequestType

LEMMA EndSound ==
  ASSUME PipelineInv, NEW k \in DOMAIN request, Finish(k) \/ Close(k) \/ HangUp(k), page' = page
  PROVE  PipelineInv'
  <1>1. request[k] \in RequestType /\ Sound(request[k]) BY DEF PipelineInv
  <1>2. PICK l : l = Log(request[k]) OBVIOUS
  <1>3. /\ l \in RequestType /\ l.lines \in {0, 1}
        /\ l.status = request[k].status /\ l.route = request[k].route
        /\ l.user = request[k].user
        /\ l.lines = 0 <=> request[k].route = Health /\ request[k].status < 400
    BY <1>1, <1>2, Logged
  <1>4. CASE Finish(k) \/ Close(k)
    <2>1. PICK stage \in {"finished", "closed"} :
            /\ request' = [request EXCEPT ![k] = [l EXCEPT !.stage = stage]]
            /\ stage = "finished" => request[k].stage = "send"
      BY <1>2, <1>4 DEF Finish, Close, PipelineInv
    <2>2. PICK a : a = [l EXCEPT !.stage = stage] OBVIOUS
    <2>3. /\ a \in RequestType /\ a.stage = stage /\ a.lines = l.lines
          /\ a.status = l.status /\ a.route = l.route /\ a.user = l.user
      BY <1>3, <2>2 DEF RequestType
    <2>4. Sound(a) BY <1>1, <1>3, <2>1, <2>3 DEF Sound, RequestType
    <2>5. request' = [request EXCEPT ![k] = a] BY <2>1, <2>2
    <2>6. QED BY <2>3, <2>4, <2>5, Replace
  <1>5. CASE HangUp(k)
    <2>1. PICK a : a = [l EXCEPT !.stage = "closed", !.lost = TRUE] OBVIOUS
    <2>2. /\ a \in RequestType /\ a.stage = "closed" /\ a.lines = l.lines
          /\ a.status = l.status /\ a.route = l.route /\ a.user = l.user
      BY <1>3, <2>1 DEF RequestType
    <2>3. Sound(a) BY <1>1, <1>3, <2>2 DEF Sound, RequestType
    <2>4. request' = [request EXCEPT ![k] = a] BY <1>2, <1>5, <2>1 DEF HangUp, PipelineInv
    <2>5. QED BY <2>2, <2>3, <2>4, Replace
  <1>6. QED BY <1>4, <1>5

-----------------------------------------------------------------------------
(* The steps of the page: they add requests that are not made yet, make    *)
(* one, and forget one that is over.                                       *)

LEMMA ShowSound ==
  ASSUME PipelineInv, NEW p, NEW c, NEW old, Show(p, c, old), page' = page
  PROVE  PipelineInv'
  <1>1. request' = [k \in DOMAIN request \cup KeysOf(p, c) |->
                      IF k \in DOMAIN request THEN request[k] ELSE NoRequest]
    BY DEF Show
  <1>2. DOMAIN request' = DOMAIN request \cup KeysOf(p, c) BY <1>1
  <1>3. QED BY <1>1, <1>2, Fresh DEF PipelineInv

LEMMA ControlSound == ASSUME PipelineInv, Control PROVE PipelineInv'
  <1>1. ASSUME NEW c, Change(c) PROVE PipelineInv'
    BY <1>1, ShowSound DEF Change
  <1>2. CASE TryAgain BY <1>2 DEF TryAgain, PipelineInv
  <1>3. QED
    BY <1>1, <1>2
    DEF Control, ToggleMetric, SelectMetric, SelectKind, SelectPeriod, PickProduct, Filter,
        NextPage, PreviousPage

Puts(k, r) == request' = [request EXCEPT ![k] = r]

LEMMA QuerySound ==
  ASSUME PipelineInv, NEW k,
         \/ \E u \in ReadRoles : Send(k, u)
         \/ Receive(k)
         \/ k \in Routes /\ \E u \in Users : Call(k, u)
         \/ Forget(k)
  PROVE  PipelineInv'
  <1>1. /\ page' = page
        /\ \/ Puts(k, NoRequest)
           \/ \E route \in Routes \cup Pages, user \in ReadRoles \cup Users, valid \in BOOLEAN :
                Puts(k, Arrived(route, user, valid))
    <2>1. ASSUME NEW u \in ReadRoles, Send(k, u)
          PROVE  \E valid \in BOOLEAN : Puts(k, Arrived(page, u, valid))
      <3>1. (entry[k].asked # <<"trend", {}>>) \in BOOLEAN OBVIOUS
      <3>2. QED BY <2>1, <3>1, Zenon DEF Send, Puts
    <2>2. page \in Routes \cup Pages BY DEF PipelineInv
    <2>3. ASSUME NEW u \in Users, Call(k, u), k \in Routes
          PROVE  Puts(k, Arrived(k, u, TRUE))
      BY <2>3 DEF Call, Puts
    <2>4. Receive(k) \/ Forget(k) => Puts(k, NoRequest) BY DEF Receive, Forget, Puts
    <2>5. page' = page BY DEF Send, Receive, Call, Forget
    <2>6. QED BY <2>1, <2>2, <2>3, <2>4, <2>5
  <1>2. PICK r \in RequestType : Sound(r) /\ Puts(k, r)
    BY <1>1, Fresh, FreshArrival
  <1>3. CASE k \in DOMAIN request BY <1>1, <1>2, <1>3, Replace DEF Puts
  <1>4. CASE k \notin DOMAIN request
    <2>1. request' = request BY <1>2, <1>4 DEF PipelineInv, Puts
    <2>2. QED BY <1>1, <2>1 DEF PipelineInv
  <1>5. QED BY <1>3, <1>4

\* Whatever the pages ask and whoever calls, however many at once and wherever
\* they hang up: every request is logged once, and data is answered only past
\* the guards (RequestContextMiddleware, JwtAuthGuard, RolesGuard).
THEOREM PipelineAlwaysHolds == Spec => []PipelineHolds
  <1>1. Init => PipelineInv
    <2> SUFFICES ASSUME Init PROVE PipelineInv OBVIOUS
    <2>1. request = [k \in KeysOf(page, controls) \cup {Health, Undecorated} |-> NoRequest]
      BY DEF Init
    <2>2. page \in Pages BY DEF Init
    <2>3. QED BY <2>1, <2>2, Fresh DEF PipelineInv
  <1>2. PipelineInv /\ [Next]_vars => PipelineInv'
    <2> SUFFICES ASSUME PipelineInv, [Next]_vars PROVE PipelineInv' OBVIOUS
    <2>1. ASSUME NEW k \in DOMAIN request, Serve(k) \/ HangUp(k), page' = page PROVE PipelineInv'
      BY <2>1, AdmitSound, HandleSound, EndSound DEF Serve
    <2>2. CASE WindowEnds /\ page' = page BY <2>2 DEF WindowEnds, PipelineInv
    <2>3. CASE UNCHANGED vars BY <2>3 DEF vars, PipelineInv
    <2>4. QED
      BY <2>1, <2>2, <2>3, ControlSound, QuerySound, RequestsAssumption DEF Next
  <1>3. QED BY <1>1, <1>2, SoundHolds, PTL DEF Spec

-----------------------------------------------------------------------------
(* What a page shows                                                       *)

\* What the answer to a key is about is settled by the key alone, so it does
\* not matter which controls asked.
Answer(p, k) == IF p = "heatmap" /\ k[2] = CostMap THEN <<p, CostMap>> ELSE k

LEMMA AskedByKey ==
  ASSUME NEW p \in Pages, NEW c, NEW k \in KeysOf(p, c)
  PROVE  Asked(p, c, k) = Answer(p, k)
  <1>1. CASE p = "heatmap"
    <2>1. PICK x : x = (IF c.kind = CostMap THEN None ELSE c.metric) OBVIOUS
    <2>2. k = <<p, c.kind, x>> BY <1>1, <2>1 DEF KeysOf
    <2>3. k[2] = c.kind BY <2>2
    <2>4. CASE c.kind = CostMap BY <1>1, <2>3, <2>4 DEF Asked, Answer
    <2>5. CASE c.kind # CostMap BY <1>1, <2>1, <2>2, <2>3, <2>5 DEF Asked, Answer
    <2>6. QED BY <2>4, <2>5
  <1>2. CASE p # "heatmap" BY <1>2 DEF Asked, Answer
  <1>3. QED BY <1>1, <1>2

\* What is true of React Query's entry of a key whose answer is about a.
Kept(e, a) ==
  /\ e = [status |-> e.status, data |-> e.data, asked |-> e.asked, fetch |-> e.fetch,
          failures |-> e.failures, refused |-> e.refused]
  /\ e.failures \in 0..2 /\ e.refused \in BOOLEAN /\ e.fetch \in {"idle", "queued", "waiting"}
  /\ e.refused => e.fetch = "idle"
  /\ e.fetch = "idle" /\ e.status = "error" => e.refused \/ e.failures = 2
  /\ e.fetch # "idle" => e.asked = a
  /\ e.status = "success" => e.data = a

\* The page and number of a list's offset, and a trend with a metric.
ControlsOK(p, c) ==
  /\ p = "list" =>
       /\ c = [branch |-> c.branch, offset |-> c.offset]
       /\ c.branch \in Branches \cup {None}
       /\ \E n \in Nat : c.offset = n * PageSize
       /\ c.offset = 0 \/ c.offset < TotalOf[c.branch]
  /\ p = "trend" => c.metrics # {}

PanelInv ==
  /\ page \in Pages /\ ControlsOK(page, controls)
  /\ entry = [k \in DOMAIN entry |-> entry[k]]
  /\ \A k \in DOMAIN entry : Kept(entry[k], Answer(page, k))

LEMMA PanelInvShows == PanelInv => RefusalIsFinal /\ PanelShowsItsControls
  <1> SUFFICES ASSUME PanelInv PROVE RefusalIsFinal /\ PanelShowsItsControls OBVIOUS
  <1>1. RefusalIsFinal
    <2>1. \A n \in 0..2 : n <= 2 OBVIOUS
    <2>2. QED BY <2>1 DEF PanelInv, Kept, RefusalIsFinal
  <1>2. \A k \in KeysOf(page, controls) :
          Shown(k) => entry[k].data = Asked(page, controls, k)
    BY AskedByKey DEF PanelInv, Kept, Shown
  <1>3. page = "list" => controls.offset >= 0
    <2>1. ASSUME NEW n \in Nat PROVE n * PageSize >= 0 BY PanelsAssumption
    <2>2. QED BY <2>1 DEF PanelInv, ControlsOK
  <1>4. QED BY <1>1, <1>2, <1>3 DEF PanelShowsItsControls, PanelInv, ControlsOK

LEMMA UnusedKept == ASSUME NEW a PROVE Kept(Unused, a) /\ Unused.fetch = "idle"
  BY DEF Kept, Unused, Entry

LEMMA KeptRecord ==
  ASSUME NEW e, NEW a, NEW status, NEW data, NEW asked, NEW fetch \in {"idle", "queued", "waiting"},
         NEW failures \in 0..2, NEW refused \in BOOLEAN,
         e = [status |-> status, data |-> data, asked |-> asked, fetch |-> fetch,
              failures |-> failures, refused |-> refused],
         refused => fetch = "idle",
         fetch = "idle" /\ status = "error" => refused \/ failures = 2,
         fetch # "idle" => asked = a,
         status = "success" => data = a
  PROVE  Kept(e, a)
  <1>1. /\ e.status = status /\ e.data = data /\ e.asked = asked /\ e.fetch = fetch
        /\ e.failures = failures /\ e.refused = refused
    OBVIOUS
  <1>2. QED BY <1>1, Zenon DEF Kept

LEMMA QueuedKept ==
  ASSUME NEW e, NEW a, Kept(e, a)
  PROVE  Kept(Queued(e, a), a)
  <1>1. PICK status, data, asked, fetch, failures, refused :
          e = [status |-> status, data |-> data, asked |-> asked, fetch |-> fetch,
               failures |-> failures, refused |-> refused]
    BY DEF Kept
  <1>2. PICK shown : shown = (IF data = <<>> THEN "pending" ELSE status) OBVIOUS
  <1>3. PICK no \in BOOLEAN : no = FALSE OBVIOUS
  <1>4. e.data = data /\ e.status = status BY <1>1
  <1>5. Queued(e, a) = [e EXCEPT !.fetch = "queued", !.failures = 0, !.refused = no,
                                 !.asked = a, !.status = shown]
    BY <1>2, <1>3, <1>4 DEF Queued
  <1>6. Queued(e, a) = [status |-> shown, data |-> data, asked |-> a, fetch |-> "queued",
                        failures |-> 0, refused |-> no]
    BY <1>1, <1>5
  <1>7. shown = "success" => data = a
    <2>1. e.status = status /\ e.data = data BY <1>1
    <2>2. QED BY <1>2, <2>1 DEF Kept
  <1>8. 0 \in 0..2 /\ "queued" \in {"idle", "queued", "waiting"} OBVIOUS
  <1>9. QED BY <1>3, <1>6, <1>7, <1>8, KeptRecord

\* The steps that replace one entry.
LEMMA EntryKept ==
  ASSUME PanelInv, NEW k \in DOMAIN entry, NEW e, Kept(e, Answer(page, k)),
         entry' = [entry EXCEPT ![k] = e], UNCHANGED <<page, controls>>
  PROVE  PanelInv'
  <1>1. /\ DOMAIN entry' = DOMAIN entry /\ entry' = [j \in DOMAIN entry' |-> entry'[j]]
        /\ \A j \in DOMAIN entry : entry'[j] = IF j = k THEN e ELSE entry[j]
    BY DEF PanelInv
  <1>2. QED BY <1>1 DEF PanelInv

LEMMA SendKept ==
  ASSUME PanelInv, NEW k \in DOMAIN entry, NEW u, Send(k, u)
  PROVE  PanelInv'
  <1>1. PICK e : e = entry[k] OBVIOUS
  <1>2. Kept(e, Answer(page, k)) BY <1>1 DEF PanelInv
  <1>3. e.fetch = "queued" BY <1>1 DEF Send
  <1>4. PICK f : f = [e EXCEPT !.fetch = "waiting"] OBVIOUS
  <1>5. Kept(f, Answer(page, k)) BY <1>2, <1>3, <1>4 DEF Kept
  <1>6. entry' = [entry EXCEPT ![k] = f] /\ UNCHANGED <<page, controls>>
    BY <1>1, <1>4 DEF Send, PanelInv
  <1>7. QED BY <1>5, <1>6, EntryKept

LEMMA ReceiveKept ==
  ASSUME PanelInv, NEW k \in DOMAIN entry, Receive(k)
  PROVE  PanelInv'
  <1>1. PICK e : e = entry[k] OBVIOUS
  <1>2. Kept(e, Answer(page, k)) /\ e.fetch = "waiting" /\ e.refused = FALSE
    BY <1>1 DEF PanelInv, Receive, Kept
  <1>3. PICK no \in BOOLEAN : no = Refused(k) BY DEF Refused
  <1>4. PICK g : g = [e EXCEPT !.refused = no] OBVIOUS
  <1>5. /\ g = [status |-> e.status, data |-> e.data, asked |-> e.asked, fetch |-> "waiting",
                failures |-> e.failures, refused |-> no]
    BY <1>2, <1>4 DEF Kept
  <1>6. PICK f :
          /\ entry' = [entry EXCEPT ![k] = f]
          /\ \/ f = [g EXCEPT !.fetch = "idle", !.status = "success", !.data = g.asked]
             \/ ~no /\ e.failures < 2 /\ f = Again(g)
             \/ ~(~no /\ e.failures < 2) /\ f = [g EXCEPT !.fetch = "idle", !.status = "error"]
    <2>1. [entry[k] EXCEPT !.refused = @ \/ Refused(k)] = g
      BY <1>1, <1>2, <1>3, <1>4 DEF Kept
    <2>2. Repeats(k) <=> ~no /\ e.failures < 2 BY <1>1, <1>3 DEF Repeats
    <2>3. QED BY <2>1, <2>2 DEF Receive
  <1>7. Kept(f, Answer(page, k))
    <2>1. CASE f = [g EXCEPT !.fetch = "idle", !.status = "success", !.data = g.asked]
      BY <1>2, <1>5, <2>1 DEF Kept
    <2>2. CASE ~no /\ e.failures < 2 /\ f = Again(g)
      <3>1. f = [status |-> e.status, data |-> e.data, asked |-> e.asked, fetch |-> "queued",
                 failures |-> e.failures + 1, refused |-> FALSE]
        BY <1>5, <2>2 DEF Again
      <3>2. e.failures + 1 \in 0..2 BY <1>2, <2>2 DEF Kept
      <3>3. e.asked = Answer(page, k) /\ (e.status = "success" => e.data = Answer(page, k))
        BY <1>2 DEF Kept
      <3>4. QED BY <3>1, <3>2, <3>3, KeptRecord
    <2>3. CASE ~(~no /\ e.failures < 2) /\ f = [g EXCEPT !.fetch = "idle", !.status = "error"]
      <3>1. f = [status |-> "error", data |-> e.data, asked |-> e.asked, fetch |-> "idle",
                 failures |-> e.failures, refused |-> no]
        BY <1>5, <2>3
      <3>2. e.failures \in 0..2 /\ (no \/ e.failures = 2) BY <1>2, <2>3 DEF Kept
      <3>3. QED BY <3>1, <3>2, KeptRecord
    <2>4. QED BY <1>6, <2>1, <2>2, <2>3
  <1>8. UNCHANGED <<page, controls>> BY DEF Receive
  <1>9. QED BY <1>6, <1>7, <1>8, EntryKept

\* The controls change: what they name and is not under way is queued.
LEMMA ShowKept ==
  ASSUME PanelInv, NEW c, NEW old, ControlsOK(page, c), Show(page, c, old), page' = page
  PROVE  PanelInv'
  <1> DEFINE Before(k) == IF k \in DOMAIN entry THEN entry[k] ELSE Unused
             After(k) == IF /\ k \in KeysOf(page, c) \ KeysOf(page, controls)
                            /\ Before(k).fetch = "idle"
                            /\ Before(k).status = "success" => k \in old
                         THEN Queued(Before(k), Asked(page, c, k)) ELSE Before(k)
  <1>1. entry' = [k \in DOMAIN entry \cup KeysOf(page, c) |-> After(k)] /\ controls' = c
    BY DEF Show
  <1>2. ASSUME NEW k \in DOMAIN entry \cup KeysOf(page, c) PROVE Kept(After(k), Answer(page, k))
    <2>1. PICK e : e = Before(k) OBVIOUS
    <2>2. Kept(e, Answer(page, k)) BY <2>1, UnusedKept DEF PanelInv
    <2>3. \/ After(k) = e
          \/ k \in KeysOf(page, c) /\ After(k) = Queued(e, Asked(page, c, k))
      BY <2>1
    <2>4. k \in KeysOf(page, c) => Asked(page, c, k) = Answer(page, k)
      BY AskedByKey DEF PanelInv
    <2>5. QED BY <2>2, <2>3, <2>4, QueuedKept
  <1> HIDE DEF After
  <1>3. /\ DOMAIN entry' = DOMAIN entry \cup KeysOf(page, c)
        /\ entry' = [k \in DOMAIN entry' |-> entry'[k]]
        /\ \A k \in DOMAIN entry' : Kept(entry'[k], Answer(page, k))
    BY <1>1, <1>2
  <1>4. QED BY <1>1, <1>3 DEF PanelInv

\* "Tekrar dene".
LEMMA TryAgainKept == ASSUME PanelInv, TryAgain PROVE PanelInv'
  <1> DEFINE After(k) == IF /\ k \in KeysOf(page, controls)
                            /\ entry[k].status = "error" /\ entry[k].fetch = "idle"
                         THEN Queued(entry[k], Asked(page, controls, k)) ELSE entry[k]
  <1>1. entry' = [k \in DOMAIN entry |-> After(k)] /\ UNCHANGED <<page, controls>>
    BY DEF TryAgain
  <1>2. ASSUME NEW k \in DOMAIN entry PROVE Kept(After(k), Answer(page, k))
    <2>1. PICK e : e = entry[k] OBVIOUS
    <2>2. Kept(e, Answer(page, k)) BY <2>1 DEF PanelInv
    <2>3. \/ After(k) = e
          \/ k \in KeysOf(page, controls) /\ After(k) = Queued(e, Asked(page, controls, k))
      BY <2>1
    <2>4. k \in KeysOf(page, controls) => Asked(page, controls, k) = Answer(page, k)
      BY AskedByKey DEF PanelInv
    <2>5. QED BY <2>2, <2>3, <2>4, QueuedKept
  <1> HIDE DEF After
  <1>3. /\ DOMAIN entry' = DOMAIN entry
        /\ entry' = [k \in DOMAIN entry' |-> entry'[k]]
        /\ \A k \in DOMAIN entry' : Kept(entry'[k], Answer(page, k))
    BY <1>1, <1>2
  <1>4. QED BY <1>1, <1>3 DEF PanelInv

\* The offset stays a page's: a filter starts at the first one, and the two
\* buttons stay between it and the last.
LEMMA ListPages ==
  ASSUME PanelInv, page = "list", NEW c,
         \/ \E b \in Branches \cup {None} : c = [branch |-> b, offset |-> 0]
         \/ /\ controls.offset + PageSize < TotalOf[controls.branch]
            /\ c = [controls EXCEPT !.offset = @ + PageSize]
         \/ controls.offset > 0 /\ c = [controls EXCEPT !.offset = @ - PageSize]
  PROVE  ControlsOK("list", c)
  <1>1. /\ controls = [branch |-> controls.branch, offset |-> controls.offset]
        /\ controls.branch \in Branches \cup {None}
        /\ controls.offset = 0 \/ controls.offset < TotalOf[controls.branch]
    BY DEF PanelInv, ControlsOK
  <1>2. PICK n \in Nat : controls.offset = n * PageSize BY DEF PanelInv, ControlsOK
  <1>3. PICK size \in Nat \ {0} : size = PageSize BY PanelsAssumption
  <1>4. TotalOf[controls.branch] \in Nat BY <1>1, PanelsAssumption
  <1>5. /\ n * size \in Int /\ (n + 1) * size = n * size + size
        /\ (n - 1) * size = n * size - size /\ 0 * size = 0
    BY <1>3
  <1>6. n * size > 0 => n - 1 \in Nat
    <2>1. n = 0 => n * size = 0 BY <1>5
    <2>2. QED BY <2>1
  <1>7. CASE \E b \in Branches \cup {None} : c = [branch |-> b, offset |-> 0]
    <2>1. c = [branch |-> c.branch, offset |-> 0] /\ c.branch \in Branches \cup {None}
          /\ c.offset = 0
      BY <1>7
    <2>2. \E m \in Nat : c.offset = m * PageSize BY <1>3, <1>5, <2>1
    <2>3. QED BY <2>1, <2>2 DEF ControlsOK
  <1>8. CASE /\ controls.offset + PageSize < TotalOf[controls.branch]
             /\ c = [controls EXCEPT !.offset = @ + PageSize]
    <2>1. /\ c = [branch |-> controls.branch, offset |-> n * size + size]
          /\ c.branch = controls.branch /\ c.offset = (n + 1) * size
          /\ c.offset < TotalOf[c.branch]
      BY <1>1, <1>2, <1>3, <1>5, <1>8
    <2>2. \E m \in Nat : c.offset = m * PageSize BY <1>3, <2>1
    <2>3. QED BY <1>1, <1>5, <2>1, <2>2 DEF ControlsOK
  <1>9. CASE controls.offset > 0 /\ c = [controls EXCEPT !.offset = @ - PageSize]
    <2>1. /\ c = [branch |-> controls.branch, offset |-> n * size - size]
          /\ c.branch = controls.branch /\ c.offset = (n - 1) * size /\ n - 1 \in Nat
      BY <1>1, <1>2, <1>3, <1>5, <1>6, <1>9
    <2>2. c.offset < TotalOf[c.branch]
      <3>1. n * size < TotalOf[controls.branch] BY <1>1, <1>2, <1>3, <1>9
      <3>2. QED BY <1>3, <1>4, <1>5, <2>1, <3>1
    <2>3. \E m \in Nat : c.offset = m * PageSize BY <1>3, <2>1
    <2>4. QED BY <1>1, <1>5, <2>1, <2>2, <2>3 DEF ControlsOK
  <1>10. QED BY <1>7, <1>8, <1>9

LEMMA ControlKept == ASSUME PanelInv, Control PROVE PanelInv'
  <1>1. ASSUME NEW c, Change(c), ControlsOK(page, c) PROVE PanelInv'
    BY <1>1, ShowKept DEF Change
  <1>2. ASSUME NEW c, page \notin {"list", "trend"} PROVE ControlsOK(page, c)
    BY <1>2 DEF ControlsOK
  <1>3. ASSUME NEW m \in Metrics, ToggleMetric(m) PROVE PanelInv'
    <2>1. page = "trend" /\ Change([metrics |-> Toggled(m)]) BY <1>3 DEF ToggleMetric
    <2>2. Toggled(m) # {}
      <3>1. controls.metrics # {} BY <2>1 DEF PanelInv, ControlsOK
      <3>2. QED BY <3>1 DEF Toggled
    <2>3. ControlsOK(page, [metrics |-> Toggled(m)]) BY <2>1, <2>2 DEF ControlsOK
    <2>4. QED BY <1>1, <2>1, <2>3
  <1>4. ASSUME NEW m, SelectMetric(m) PROVE PanelInv' BY <1>1, <1>2, <1>4 DEF SelectMetric
  <1>5. ASSUME NEW t, SelectKind(t) PROVE PanelInv' BY <1>1, <1>2, <1>5 DEF SelectKind
  <1>6. ASSUME NEW d, SelectPeriod(d) PROVE PanelInv' BY <1>1, <1>2, <1>6 DEF SelectPeriod
  <1>7. ASSUME NEW p, PickProduct(p) PROVE PanelInv' BY <1>1, <1>2, <1>7 DEF PickProduct
  <1>8. ASSUME NEW b \in Branches \cup {None}, Filter(b) PROVE PanelInv'
    BY <1>1, <1>8, ListPages DEF Filter
  <1>9. ASSUME NextPage \/ PreviousPage PROVE PanelInv'
    BY <1>1, <1>9, ListPages DEF NextPage, PreviousPage
  <1>10. QED
    BY <1>3, <1>4, <1>5, <1>6, <1>7, <1>8, <1>9, TryAgainKept DEF Control

LEMMA PanelInvHolds == Spec => []PanelInv
  <1>1. Init => PanelInv
    <2> SUFFICES ASSUME Init PROVE PanelInv OBVIOUS
    <2>1. page \in Pages /\ controls = InitialControls(page) BY DEF Init
    <2>2. entry = [k \in KeysOf(page, controls) |-> Queued(Unused, Asked(page, controls, k))]
      BY DEF Init
    <2>3. ASSUME NEW k \in KeysOf(page, controls) PROVE Kept(entry[k], Answer(page, k))
      BY <2>1, <2>2, AskedByKey, UnusedKept, QueuedKept
    <2>4. ControlsOK(page, controls)
      <3>1. CASE page = "list"
        <4>1. controls = [branch |-> None, offset |-> 0] BY <2>1, <3>1 DEF InitialControls
        <4>2. 0 = 0 * PageSize BY PanelsAssumption
        <4>3. QED BY <3>1, <4>1, <4>2 DEF ControlsOK
      <3>2. CASE page = "trend"
        BY <2>1, <3>2, PanelsAssumption DEF InitialControls, ControlsOK
      <3>3. QED BY <3>1, <3>2 DEF ControlsOK
    <2>5. QED BY <2>1, <2>2, <2>3, <2>4 DEF PanelInv
  <1>2. PanelInv /\ [Next]_vars => PanelInv'
    <2> SUFFICES ASSUME PanelInv, [Next]_vars PROVE PanelInv' OBVIOUS
    <2>1. CASE Control BY <2>1, ControlKept
    <2>2. CASE \E k \in DOMAIN entry : (\E u \in ReadRoles : Send(k, u)) \/ Receive(k)
      BY <2>2, SendKept, ReceiveKept
    <2>3. CASE UNCHANGED <<page, controls, entry>> BY <2>3 DEF PanelInv
    <2>4. QED BY <2>1, <2>2, <2>3 DEF Next, Call, Forget, vars
  <1>3. QED BY <1>1, <1>2, PTL DEF Spec

\* What the API refused with a 4xx is not asked again until the user asks, and
\* an error is shown only after a refusal or a third failure (App.tsx), in
\* whatever order the answers come.
THEOREM RefusalAlwaysFinal == Spec => []RefusalIsFinal
  <1>1. QED BY PanelInvHolds, PanelInvShows, PTL

\* The figures on the screen are those of the controls beside them, for every
\* choice of metrics, maps, filters and products (the pages' query keys), and
\* a list stays between its first page and its last.
THEOREM PanelsAlwaysShowTheirControls == Spec => []PanelShowsItsControls
  <1>1. QED BY PanelInvHolds, PanelInvShows, PTL

=============================================================================
