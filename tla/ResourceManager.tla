-------------------------- MODULE ResourceManager --------------------------
(***************************************************************************)
(* One resource of the management screen (features/admin) on its table:    *)
(* the paged list, the create and edit form, saving and deleting, while    *)
(* other managers write the same rows.  Cities stand for the nine          *)
(* resources: a name that is searched and a plate that is unique.          *)
(***************************************************************************)
EXTENDS Integers, FiniteSets, FiniteSetsExt

CONSTANTS
  Names, Plates,  \* values of the two fields
  Blank,          \* a field without a value; as a search, no filter
  PageSize,       \* PAGE_SIZE
  MaxId,          \* bound: ids drawn
  MaxWrites       \* bound: committed writes

ASSUME ManagerAssumption ==
  /\ Blank \notin Names \cup Plates
  /\ PageSize \in Nat \ {0} /\ MaxId \in Nat \ {0} /\ MaxWrites \in Nat

VARIABLES
  rows,    \* the table
  lastId,  \* the last id drawn
  writes,  \* committed writes so far
  list,    \* the page of rows on screen
  fetch,   \* the read of the list under way
  form,    \* the form
  save     \* the create, update or delete the screen waits for; bound: one

managerVars == <<rows, lastId, writes, list, fetch, form, save>>

Value == [name : Names \cup {Blank}, plate : Plates \cup {Blank}]
Row   == [id : 1..MaxId, name : Names, plate : Plates]

\* shrunk: rows changed since a page with rows was read; split: a write came
\* between the two statements; lost: the last read failed; wrote: the write
\* of this screen the list has to show.
\* loaded is what the form was opened with, typed the fields changed since;
\* seen: the writes a read had seen.
Form  == [mode : {"closed", "create", "edit"}, id : 0..MaxId, values : Value,
          loaded : Value, typed : SUBSET {"name", "plate"}]
Save  == [phase : {"idle", "sent", "ok"}, mode : {"create", "edit", "remove"},
          id : 0..MaxId, values : Value, loaded : Value, typed : SUBSET {"name", "plate"}]

List  == [offset : Nat, search : Names \cup {Blank}, items : SUBSET Row, total : Nat,
          seen : Nat, shrunk : BOOLEAN, split : BOOLEAN, lost : BOOLEAN, wrote : Nat]
Fetch == [phase : {"none", "asked", "items", "total"}, items : SUBSET Row, total : Nat, seen : Nat]

ManagerTypeOK ==
  /\ rows \subseteq Row /\ lastId \in 0..MaxId /\ writes \in 0..MaxWrites
  /\ list \in List /\ fetch \in Fetch
  /\ form \in Form /\ save \in Save

NoValues == [name |-> Blank, plate |-> Blank]
ValuesOf(r) == [name |-> r.name, plate |-> r.plate]
RowOf(i, v) == [id |-> i, name |-> v.name, plate |-> v.plate]
Closed   == [mode |-> "closed", id |-> 0, values |-> NoValues, loaded |-> NoValues, typed |-> {}]
NoSave   == [phase |-> "idle", mode |-> "create", id |-> 0, values |-> NoValues,
             loaded |-> NoValues, typed |-> {}]
NoFetch  == [phase |-> "none", items |-> {}, total |-> 0, seen |-> 0]
Ask      == [NoFetch EXCEPT !.phase = "asked"]
NoList   == [offset |-> 0, search |-> Blank, items |-> {}, total |-> 0, seen |-> 0,
             shrunk |-> FALSE, split |-> FALSE, lost |-> FALSE, wrote |-> 0]

ManagerInit ==
  /\ \E n \in Names, p \in Plates : rows = {[id |-> 1, name |-> n, plate |-> p]}
  /\ lastId = 1 /\ writes = 0
  /\ list = NoList /\ fetch = Ask
  /\ form = Closed /\ save = NoSave

---------------------------------------------------------------------------
(* The list: items and total are two statements run side by side.          *)

Matches(q) == {r \in rows : q = Blank \/ r.name = q}
PageOf(q, offset) ==
  {r \in Matches(q) : LET before == Cardinality({s \in Matches(q) : s.id < r.id})
                      IN  offset <= before /\ before < offset + PageSize}

\* The first of the two statements, then the second and the answer.
ReadItems ==
  /\ fetch.phase = "asked"
  /\ fetch' = [fetch EXCEPT !.phase = "items", !.seen = writes,
                            !.items = PageOf(list.search, list.offset)]
  /\ UNCHANGED <<rows, lastId, writes, list, form, save>>

ReadTotal ==
  /\ fetch.phase = "asked"
  /\ fetch' = [fetch EXCEPT !.phase = "total", !.seen = writes,
                            !.total = Cardinality(Matches(list.search))]
  /\ UNCHANGED <<rows, lastId, writes, list, form, save>>

ReceiveList ==
  /\ fetch.phase \in {"items", "total"}
  /\ LET items == IF fetch.phase = "items" THEN fetch.items ELSE PageOf(list.search, list.offset)
         total == IF fetch.phase = "total" THEN fetch.total ELSE Cardinality(Matches(list.search))
     IN list' = [list EXCEPT !.items = items, !.total = total, !.seen = fetch.seen, !.lost = FALSE,
                             !.split = fetch.seen # writes,
                             !.shrunk = @ /\ (items = {} \/ fetch.seen # writes)]
  /\ fetch' = NoFetch
  /\ UNCHANGED <<rows, lastId, writes, form, save>>

ListFails ==
  /\ fetch.phase # "none"
  /\ list' = [list EXCEPT !.lost = TRUE]
  /\ fetch' = NoFetch
  /\ UNCHANGED <<rows, lastId, writes, form, save>>

\* Another page or another search is another query: nothing until it answers.
Show(offset, q) ==
  /\ list' = [NoList EXCEPT !.offset = offset, !.search = q, !.wrote = list.wrote,
                            !.shrunk = list.shrunk /\ offset > 0]
  /\ fetch' = Ask
  /\ UNCHANGED <<rows, lastId, writes, form, save>>

\* Mutant: the page of the old result stays.
Search_KeepOffset(q) == q # list.search /\ Show(list.offset, q)
Search(q) == q # list.search /\ Show(0, q)

\* The pager stands below the rows: an empty page has none.
NextPage ==
  /\ list.items # {} /\ list.offset + PageSize < list.total
  /\ Show(list.offset + PageSize, list.search)

PreviousPage ==
  /\ list.items # {} /\ list.offset > 0
  /\ Show(Max({0, list.offset - PageSize}), list.search)

---------------------------------------------------------------------------
(* The form.                                                               *)

StartCreate ==
  /\ form' = [Closed EXCEPT !.mode = "create"]
  /\ UNCHANGED <<rows, lastId, writes, list, fetch, save>>

\* Mutant: the values of the form before stay.
StartEdit_KeepValues(r) ==
  /\ form' = [mode |-> "edit", id |-> r.id, loaded |-> ValuesOf(r), typed |-> {},
              values |-> IF form.mode = "edit" THEN form.values ELSE ValuesOf(r)]
  /\ UNCHANGED <<rows, lastId, writes, list, fetch, save>>
StartEdit(r) ==
  /\ form' = [mode |-> "edit", id |-> r.id, loaded |-> ValuesOf(r), typed |-> {},
              values |-> ValuesOf(r)]
  /\ UNCHANGED <<rows, lastId, writes, list, fetch, save>>

\* What is typed into a create form counts only once it is submitted.
Type(f, v) ==
  /\ form.mode = "edit" /\ form.values[f] # v
  /\ form' = [form EXCEPT !.values[f] = v, !.typed = @ \cup {f}]
  /\ UNCHANGED <<rows, lastId, writes, list, fetch, save>>

Cancel ==
  /\ form.mode # "closed"
  /\ form' = Closed
  /\ UNCHANGED <<rows, lastId, writes, list, fetch, save>>

\* Both fields are required.  The button is disabled while a save is pending.
Submit ==
  /\ form.mode # "closed" /\ save.phase = "idle"
  /\ \E n \in Names, p \in Plates : LET v == [name |-> n, plate |-> p] IN
       /\ form.mode = "edit" => v = form.values
       /\ save' = [phase |-> "sent", mode |-> form.mode, id |-> form.id,
                   values |-> v, loaded |-> form.loaded, typed |-> form.typed]
  /\ UNCHANGED <<rows, lastId, writes, list, fetch, form>>

Confirm(r) ==
  /\ save.phase = "idle"
  /\ save' = [NoSave EXCEPT !.phase = "sent", !.mode = "remove", !.id = r.id]
  /\ UNCHANGED <<rows, lastId, writes, list, fetch, form>>

---------------------------------------------------------------------------
(* The API: P2002 answers a taken plate with 409, P2025 a missing row with *)
(* 404, P2003 a delete of a row that is referred to with 409.              *)

Free(i, v) == \A r \in rows : r.id # i => r.plate # v.plate
Commit == writes < MaxWrites /\ writes' = writes + 1

ServeCreate ==
  /\ save.phase = "sent" /\ save.mode = "create"
  /\ Free(0, save.values) /\ lastId < MaxId
  /\ Commit /\ lastId' = lastId + 1
  /\ rows' = rows \cup {RowOf(lastId + 1, save.values)}
  /\ save' = [save EXCEPT !.phase = "ok"]
  /\ UNCHANGED <<list, fetch, form>>

\* The body holds every field of the form, changed or not.
ServeUpdate ==
  /\ save.phase = "sent" /\ save.mode = "edit"
  /\ \E r \in rows : r.id = save.id
  /\ Free(save.id, save.values)
  /\ Commit
  /\ rows' = {r \in rows : r.id # save.id} \cup {RowOf(save.id, save.values)}
  /\ save' = [save EXCEPT !.phase = "ok"]
  /\ list' = [list EXCEPT !.shrunk = TRUE]
  /\ UNCHANGED <<lastId, fetch, form>>

ServeRemove ==
  /\ save.phase = "sent" /\ save.mode = "remove"
  /\ \E r \in rows : r.id = save.id
  /\ Commit
  /\ rows' = {r \in rows : r.id # save.id}
  /\ save' = [save EXCEPT !.phase = "ok"]
  /\ list' = [list EXCEPT !.shrunk = TRUE]
  /\ UNCHANGED <<lastId, fetch, form>>

\* Another manager changes or deletes a row.
OtherManager ==
  /\ Commit
  /\ \E r \in rows :
       \/ \E n \in Names \ {r.name} : rows' = (rows \ {r}) \cup {[r EXCEPT !.name = n]}
       \/ rows' = rows \ {r}
  /\ list' = [list EXCEPT !.shrunk = TRUE]
  /\ UNCHANGED <<lastId, fetch, form, save>>

---------------------------------------------------------------------------
\* useInvalidateResource: a read under way starts again.  Mutant: it is
\* taken for good enough.
Invalidate_Dedupe ==
  /\ fetch' = IF fetch.phase = "none" THEN Ask ELSE fetch
  /\ list' = [list EXCEPT !.wrote = writes]
Invalidate ==
  /\ fetch' = Ask
  /\ list' = [list EXCEPT !.wrote = writes]

\* closeForm closes whatever form is open by now; a delete closes none.
Succeeds ==
  /\ save.phase = "ok"
  /\ Invalidate
  /\ form' = IF save.mode = "remove" THEN form ELSE Closed
  /\ save' = NoSave
  /\ UNCHANGED <<rows, lastId, writes>>

\* Refused by the API, or the answer never arrives; the form stays open.
Fails ==
  /\ save.phase # "idle"
  /\ save' = NoSave
  /\ UNCHANGED <<rows, lastId, writes, list, fetch, form>>

ManagerNext ==
  \/ ReadItems \/ ReadTotal \/ ReceiveList \/ ListFails
  \/ \E q \in Names \cup {Blank} : Search(q)
  \/ NextPage \/ PreviousPage
  \/ StartCreate \/ Cancel \/ Submit
  \/ \E r \in list.items : StartEdit(r) \/ Confirm(r)
  \/ \E n \in Names : Type("name", n)
  \/ \E p \in Plates : Type("plate", p)
  \/ ServeCreate \/ ServeUpdate \/ ServeRemove \/ OtherManager
  \/ Succeeds \/ Fails

---------------------------------------------------------------------------
Changed(f) == \E r \in rows, s \in rows' : r.id = s.id /\ r[f] # s[f]

\* An update changes a field only when the user changed it in that form, or
\* when somebody else changed it since the form was opened: the body holds
\* every field, and then it takes that change back (payloadFor, startEdit).
UpdatesExplained ==
  [][ServeUpdate =>
       \A f \in {"name", "plate"} : \A r \in rows, s \in rows' :
         r.id = save.id /\ s.id = save.id /\ r[f] # s[f] =>
           f \in save.typed \/ r[f] # save.loaded[f]]_managerVars

\* "Staying on page 3 of the old result would show an empty table": the list
\* says there are no records while there are some only when rows
\* changed since the page before was read, or a write came between its two statements.
EmptyPageExplained ==
  list.items = {} /\ list.total > 0 => list.shrunk \/ list.split

\* After a save or a delete of this screen, the list shows the table as of
\* that write or later, unless it is being read or that reading failed.
OwnWritesListed ==
  fetch.phase = "none" /\ ~list.lost => list.seen >= list.wrote

=============================================================================
