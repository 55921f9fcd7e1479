----------------------------- MODULE AdminProofs -----------------------------
(***************************************************************************)
(* Theorems about AdminScreens, for any fields, page size and number of    *)
(* rows: what an update may change, when a list may look empty, whether it *)
(* shows the screen's own writes, and whose password is set.               *)
(***************************************************************************)
EXTENDS AdminScreens, FiniteSetTheorems, WellFoundedInduction, TLAPS

-----------------------------------------------------------------------------
(* The user management screen                                              *)

\* A closed password form holds no password; one that holds another account's
\* was switched from it.
ResetInv ==
  /\ reset.for = NoUser => reset.typedFor = NoUser
  /\ reset.typedFor \notin {NoUser, reset.for} => reset.switched
  /\ PasswordExplained

UsersInv == UsersTypeOK /\ ResetInv

LEMMA NoResetFacts ==
  NoReset \in Password /\ NoReset.for = NoUser /\ NoReset.typedFor = NoUser
  BY DEF NoReset, Password

LEMMA UsersInvInit == UsersInit => UsersInv
  <1> SUFFICES ASSUME UsersInit PROVE UsersInv OBVIOUS
  <1>1. UsersTypeOK BY NoResetFacts DEF UsersInit, UsersTypeOK
  <1>2. ResetInv BY NoResetFacts DEF UsersInit, ResetInv, PasswordExplained
  <1>3. QED BY <1>1, <1>2 DEF UsersInv

\* The steps that leave the password alone.
LEMMA UsersElsewhere ==
  ASSUME UsersInv, UNCHANGED <<reset, password>>,
         creating' \in [open : BOOLEAN, draft : BOOLEAN], alert' \in BOOLEAN,
         busy' \subseteq Kinds, "reset" \in busy' <=> "reset" \in busy
  PROVE  UsersInv'
  BY DEF UsersInv, UsersTypeOK, ResetInv, PasswordExplained

LEMMA UsersInvStep == ASSUME UsersInv, UsersNext PROVE UsersInv'
  <1>1. /\ creating \in [open : BOOLEAN, draft : BOOLEAN]
        /\ reset \in Password /\ password \in Password
        /\ alert \in BOOLEAN /\ busy \subseteq Kinds
        /\ "reset" \in busy <=> password # NoReset
    BY DEF UsersInv, UsersTypeOK
  <1>2. ASSUME NEW k \in Kinds \ {"reset"}, Send(k) \/ Ends(k)
        PROVE  busy' \subseteq Kinds /\ ("reset" \in busy' <=> "reset" \in busy)
    BY <1>1, <1>2 DEF Send, Ends
  <1>3. CASE ToggleCreate \/ TypeDraft \/ Create \/ Dismiss
    <2>1. UNCHANGED <<reset, password>> /\ alert' \in BOOLEAN
          /\ creating' \in [open : BOOLEAN, draft : BOOLEAN]
      BY <1>1, <1>3 DEF ToggleCreate, TypeDraft, Create, Dismiss
    <2>2. busy' \subseteq Kinds /\ ("reset" \in busy' <=> "reset" \in busy)
      BY <1>1, <1>2, <1>3 DEF ToggleCreate, TypeDraft, Create, Dismiss, Kinds
    <2>3. QED BY <2>1, <2>2, UsersElsewhere
  <1>4. ASSUME NEW u \in Users, Patch(u) \/ Remove(u) PROVE UsersInv'
    <2>1. UNCHANGED <<creating, reset, alert, password>>
          /\ (Send("patch") \/ Send("remove"))
      BY <1>4 DEF Patch, Remove
    <2>2. busy' \subseteq Kinds /\ ("reset" \in busy' <=> "reset" \in busy)
      BY <1>2, <2>1 DEF Kinds
    <2>3. QED BY <1>1, <2>1, <2>2, UsersElsewhere
  <1>5. ASSUME NEW ok \in BOOLEAN,
               CreateEnds(ok) \/ \E k \in {"patch", "remove"} : RowRequestEnds(k, ok)
        PROVE  UsersInv'
    <2>1. UNCHANGED <<reset, password>> /\ alert' \in BOOLEAN
          /\ creating' \in [open : BOOLEAN, draft : BOOLEAN]
      <3>1. CASE CreateEnds(ok)
        <4>1. [open |-> FALSE, draft |-> FALSE] \in [open : BOOLEAN, draft : BOOLEAN] OBVIOUS
        <4>2. QED BY <1>1, <3>1, <4>1 DEF CreateEnds
      <3>2. CASE \E k \in {"patch", "remove"} : RowRequestEnds(k, ok)
        BY <1>1, <3>2 DEF RowRequestEnds
      <3>3. QED BY <1>5, <3>1, <3>2
    <2>2. busy' \subseteq Kinds /\ ("reset" \in busy' <=> "reset" \in busy)
      BY <1>2, <1>5 DEF CreateEnds, RowRequestEnds, Kinds
    <2>3. QED BY <2>1, <2>2, UsersElsewhere
  <1>6. ASSUME NEW u \in Users, OpenReset(u) PROVE UsersInv'
    <2>1. PICK now \in BOOLEAN : now = (reset.switched \/ (reset.for \notin {u, NoUser}))
      BY <1>1 DEF Password
    <2>2. reset' = [reset EXCEPT !.for = u, !.switched = now]
          /\ UNCHANGED <<creating, alert, busy, password>>
      BY <1>6, <2>1 DEF OpenReset
    <2>3. /\ reset' \in Password /\ reset'.for = u /\ reset'.typedFor = reset.typedFor
          /\ reset'.switched = now
      BY <1>1, <2>2 DEF Password
    <2>4. u # NoUser BY UsersPageAssumption
    <2>5. UsersTypeOK' BY <1>1, <2>2, <2>3 DEF UsersTypeOK
    <2>6. ResetInv'
      BY <2>1, <2>2, <2>3, <2>4 DEF UsersInv, ResetInv, PasswordExplained
    <2>7. QED BY <2>5, <2>6 DEF UsersInv
  <1>7. CASE TypePassword
    <2>1. PICK no \in BOOLEAN : no = FALSE OBVIOUS
    <2>2. /\ reset' = [reset EXCEPT !.typedFor = reset.for, !.switched = no]
          /\ UNCHANGED <<creating, alert, busy, password>> /\ reset.for # NoUser
      BY <1>7, <2>1 DEF TypePassword
    <2>3. reset' \in Password /\ reset'.for = reset.for /\ reset'.typedFor = reset.for
      BY <1>1, <2>2 DEF Password
    <2>4. UsersTypeOK' BY <1>1, <2>2, <2>3 DEF UsersTypeOK
    <2>5. ResetInv' BY <2>2, <2>3 DEF UsersInv, ResetInv, PasswordExplained
    <2>6. QED BY <2>4, <2>5 DEF UsersInv
  <1>8. CASE CancelReset
    BY <1>1, <1>8, NoResetFacts
    DEF CancelReset, UsersInv, UsersTypeOK, ResetInv, PasswordExplained
  <1>9. CASE SubmitReset
    <2>1. /\ reset.for # NoUser /\ reset.typedFor # NoUser /\ password' = reset
          /\ busy' = busy \cup {"reset"} /\ UNCHANGED <<creating, reset, alert>>
      BY <1>9 DEF SubmitReset, Send
    <2>2. reset # NoReset BY <2>1, NoResetFacts
    <2>3. UsersTypeOK' BY <1>1, <2>1, <2>2 DEF UsersTypeOK, Kinds
    <2>4. ResetInv' BY <2>1 DEF UsersInv, ResetInv, PasswordExplained
    <2>5. QED BY <2>3, <2>4 DEF UsersInv
  <1>10. ASSUME NEW ok \in BOOLEAN, ResetEnds(ok) PROVE UsersInv'
    <2>1. /\ busy' = busy \ {"reset"} /\ password' = NoReset /\ alert' \in BOOLEAN
          /\ creating' = creating /\ (reset' = NoReset \/ reset' = reset)
      BY <1>10 DEF ResetEnds, Ends
    <2>2. UsersTypeOK' BY <1>1, <2>1, NoResetFacts DEF UsersTypeOK
    <2>3. ResetInv' BY <2>1, NoResetFacts DEF UsersInv, ResetInv, PasswordExplained
    <2>4. QED BY <2>2, <2>3 DEF UsersInv
  <1>11. QED
    BY <1>3, <1>4, <1>5, <1>6, <1>7, <1>8, <1>9, <1>10 DEF UsersNext

-----------------------------------------------------------------------------
(* The table and the forms of the resource screen                          *)

TableInv ==
  /\ rows \subseteq Row /\ lastId \in 0..MaxId /\ writes \in 0..MaxWrites
  /\ IsFiniteSet(rows)
  /\ \A r, s \in rows : r.id = s.id => r = s
  /\ \A r \in rows : r.id <= lastId

\* A field of an edit form that was not typed holds what the form was opened
\* with; so does the request made of it.
Untouched(x) ==
  x.mode = "edit" => \A f \in {"name", "plate"} : f \notin x.typed => x.values[f] = x.loaded[f]

\* A create or update is sent with both fields.
Filled ==
  save.phase # "idle" /\ save.mode # "remove" => save.values.name \in Names /\ save.values.plate \in Plates

FormInv == form \in Form /\ save \in Save /\ Untouched(form) /\ Untouched(save) /\ Filled

LEMMA BlankForms ==
  /\ Closed \in Form /\ Closed.mode = "closed" /\ NoSave \in Save /\ NoSave.mode = "create"
  /\ NoSave.phase = "idle"
  <1>1. NoValues \in Value BY DEF NoValues, Value
  <1>2. 0 \in 0..MaxId BY ManagerAssumption
  <1>3. QED BY <1>1, <1>2 DEF Closed, Form, NoSave, Save

\* The forms change, the table and the list do not.
LEMMA FormSteps ==
  ASSUME FormInv, list \in List, list.items \subseteq Row,
         \/ StartCreate \/ Cancel \/ Submit \/ Fails
         \/ \E r \in list.items : StartEdit(r) \/ Confirm(r)
         \/ \E n \in Names : Type("name", n)
         \/ \E p \in Plates : Type("plate", p)
  PROVE  FormInv' /\ UNCHANGED <<rows, lastId, writes, list, fetch>>
  <1>0. UNCHANGED <<rows, lastId, writes, list, fetch>>
    BY DEF StartCreate, Cancel, Submit, Fails, StartEdit, Confirm, Type
  <1>1. CASE StartCreate
    <2>1. form' = [Closed EXCEPT !.mode = "create"] /\ save' = save BY <1>1 DEF StartCreate
    <2>2. form' \in Form /\ form'.mode = "create" BY <2>1, BlankForms DEF Form
    <2>3. QED BY <1>0, <2>1, <2>2 DEF FormInv, Untouched, Filled
  <1>2. CASE Cancel
    BY <1>0, <1>2, BlankForms DEF Cancel, FormInv, Untouched, Filled
  <1>3. CASE Submit
    <2>1. PICK n \in Names, p \in Plates :
            /\ form.mode = "edit" => [name |-> n, plate |-> p] = form.values
            /\ save' = [phase |-> "sent", mode |-> form.mode, id |-> form.id,
                        values |-> [name |-> n, plate |-> p], loaded |-> form.loaded,
                        typed |-> form.typed]
      BY <1>3 DEF Submit
    <2>2. PICK v \in Value : v = [name |-> n, plate |-> p] BY DEF Value
    <2>3. save' = [phase |-> "sent", mode |-> form.mode, id |-> form.id,
                   values |-> v, loaded |-> form.loaded, typed |-> form.typed]
      BY <2>1, <2>2
    <2>4. form \in Form /\ form.mode # "closed" /\ form' = form BY <1>3 DEF Submit, FormInv
    <2>5. /\ save' \in Save /\ save'.mode = form.mode /\ save'.values = v
          /\ save'.loaded = form.loaded /\ save'.typed = form.typed
      BY <2>3, <2>4 DEF Form, Save
    <2>6. Untouched(save')
      BY <2>1, <2>2, <2>5 DEF FormInv, Untouched
    <2>7. Filled'
      <3>1. v.name = n /\ v.plate = p BY <2>2
      <3>2. QED BY <2>5, <3>1 DEF Filled
    <2>8. QED BY <1>0, <2>4, <2>5, <2>6, <2>7 DEF FormInv, Untouched
  <1>4. CASE Fails
    BY <1>0, <1>4, BlankForms DEF Fails, FormInv, Untouched, Filled
  <1>5. ASSUME NEW r \in list.items, StartEdit(r) PROVE FormInv'
    <2>1. r \in Row OBVIOUS
    <2>2. PICK v \in Value : v = ValuesOf(r) BY <2>1 DEF Row, ValuesOf, Value
    <2>3. form' = [mode |-> "edit", id |-> r.id, loaded |-> v, typed |-> {}, values |-> v]
          /\ save' = save
      BY <1>5, <2>2 DEF StartEdit
    <2>4. form' \in Form /\ form'.values = v /\ form'.loaded = v
      BY <2>1, <2>3 DEF Form, Row
    <2>5. QED BY <2>3, <2>4 DEF FormInv, Untouched, Filled
  <1>6. ASSUME NEW r \in list.items, Confirm(r) PROVE FormInv'
    <2>1. r.id \in 0..MaxId BY DEF Row
    <2>2. save' = [NoSave EXCEPT !.phase = "sent", !.mode = "remove", !.id = r.id]
          /\ form' = form
      BY <1>6 DEF Confirm
    <2>3. save' \in Save /\ save'.mode = "remove" BY <2>1, <2>2, BlankForms DEF Save
    <2>4. QED BY <2>2, <2>3 DEF FormInv, Untouched, Filled
  <1>7. ASSUME NEW f \in {"name", "plate"}, NEW v, Type(f, v),
               f = "name" => v \in Names, f = "plate" => v \in Plates
        PROVE  FormInv'
    <2>1. form \in Form /\ form.mode = "edit" /\ save' = save
          /\ form' = [form EXCEPT !.values[f] = v, !.typed = form.typed \cup {f}]
      BY <1>7 DEF Type, FormInv
    <2>2. PICK w \in Value : w = [form.values EXCEPT ![f] = v] BY <1>7, <2>1 DEF Form, Value
    <2>3. PICK typed \in SUBSET {"name", "plate"} : typed = form.typed \cup {f}
      BY <2>1 DEF Form
    <2>4. form' = [form EXCEPT !.values = w, !.typed = typed] BY <2>1, <2>2, <2>3 DEF Form
    <2>5. /\ form' \in Form /\ form'.mode = form.mode /\ form'.values = w
          /\ form'.loaded = form.loaded /\ form'.typed = typed
      BY <2>1, <2>4 DEF Form
    <2>6. \A g \in {"name", "plate"} : g # f => w[g] = form.values[g]
      BY <2>1, <2>2 DEF Form, Value
    <2>7. Untouched(form')
      BY <2>3, <2>5, <2>6 DEF FormInv, Untouched, Filled
    <2>8. QED BY <2>1, <2>5, <2>7 DEF FormInv, Untouched, Filled
  <1>8. QED BY <1>0, <1>1, <1>2, <1>3, <1>4, <1>5, <1>6, <1>7

-----------------------------------------------------------------------------
(* The table                                                               *)

\* Row r makes way for row s under the same id; without s it is deleted.
LEMMA TableChanges ==
  ASSUME TableInv, writes' \in 0..MaxWrites, lastId' = lastId, NEW i,
         \/ rows' = {r \in rows : r.id # i}
         \/ \E s \in Row : s.id = i /\ (\E r \in rows : r.id = i)
                           /\ rows' = {r \in rows : r.id # i} \cup {s}
  PROVE  TableInv'
  <1> DEFINE others == {r \in rows : r.id # i}
  <1>1. others \subseteq rows /\ IsFiniteSet(others)
    <2>1. others \subseteq rows OBVIOUS
    <2>2. QED BY <2>1, FS_Subset DEF TableInv
  <1>2. CASE rows' = others BY <1>1, <1>2 DEF TableInv
  <1>3. CASE \E s \in Row : s.id = i /\ (\E r \in rows : r.id = i) /\ rows' = others \cup {s}
    <2>1. PICK s \in Row : s.id = i /\ (\E r \in rows : r.id = i) /\ rows' = others \cup {s}
      BY <1>3
    <2>2. IsFiniteSet(rows') BY <1>1, <2>1, FS_AddElement
    <2>3. s.id <= lastId BY <2>1 DEF TableInv
    <2>4. \A r, q \in rows' : r.id = q.id => r = q BY <2>1 DEF TableInv
    <2>5. QED BY <1>1, <2>1, <2>2, <2>3, <2>4 DEF TableInv
  <1>4. QED BY <1>2, <1>3

LEMMA TableGrows ==
  ASSUME TableInv, FormInv, ServeCreate
  PROVE  TableInv' /\ rows \subseteq rows'
  <1>1. PICK s : s = RowOf(lastId + 1, save.values) OBVIOUS
  <1>2. /\ rows' = rows \cup {s} /\ lastId' = lastId + 1 /\ lastId < MaxId
        /\ writes < MaxWrites /\ writes' = writes + 1
    BY <1>1 DEF ServeCreate, Commit
  <1>3. lastId + 1 \in 1..MaxId /\ writes + 1 \in 0..MaxWrites
    BY <1>2, ManagerAssumption DEF TableInv
  <1>4. s \in Row /\ s.id = lastId + 1
    <2>1. save.values.name \in Names /\ save.values.plate \in Plates
      BY DEF FormInv, Filled, ServeCreate
    <2>2. QED BY <1>1, <1>3, <2>1 DEF RowOf, Row
  <1>5. IsFiniteSet(rows') BY <1>2, FS_AddElement DEF TableInv
  <1>6. \A r \in rows : r.id \in Nat /\ lastId \in Nat /\ r.id <= lastId /\ r.id # s.id
    BY <1>4 DEF TableInv, Row
  <1>7. \A r, q \in rows' : r.id = q.id => r = q BY <1>2, <1>6 DEF TableInv
  <1>8. \A r \in rows' : r.id <= lastId' BY <1>2, <1>4, <1>6 DEF TableInv
  <1>9. QED BY <1>2, <1>3, <1>4, <1>5, <1>7, <1>8 DEF TableInv

LEMMA TableShrinks ==
  ASSUME TableInv, FormInv, ServeUpdate \/ ServeRemove \/ OtherManager
  PROVE  TableInv'
  <1>1. writes' \in 0..MaxWrites /\ lastId' = lastId
    BY ManagerAssumption DEF TableInv, ServeUpdate, ServeRemove, OtherManager, Commit
  <1>2. CASE ServeUpdate
    <2>1. PICK s : s = RowOf(save.id, save.values) OBVIOUS
    <2>2. /\ \E r \in rows : r.id = save.id
          /\ rows' = {r \in rows : r.id # save.id} \cup {s}
      BY <1>2, <2>1 DEF ServeUpdate
    <2>3. s \in Row /\ s.id = save.id
      <3>1. save.values.name \in Names /\ save.values.plate \in Plates
        BY <1>2 DEF FormInv, Filled, ServeUpdate
      <3>2. save.id \in 1..MaxId BY <2>2 DEF TableInv, Row
      <3>3. QED BY <2>1, <3>1, <3>2 DEF RowOf, Row
    <2>4. QED BY <1>1, <2>2, <2>3, TableChanges
  <1>3. CASE ServeRemove BY <1>1, <1>3, TableChanges DEF ServeRemove
  <1>4. CASE OtherManager
    <2>1. PICK r \in rows :
            \/ \E n \in Names \ {r.name} : rows' = (rows \ {r}) \cup {[r EXCEPT !.name = n]}
            \/ rows' = rows \ {r}
      BY <1>4 DEF OtherManager
    <2>2. rows \ {r} = {q \in rows : q.id # r.id} BY DEF TableInv
    <2>3. \A n \in Names : [r EXCEPT !.name = n] \in Row /\ [r EXCEPT !.name = n].id = r.id
      BY DEF TableInv, Row
    <2>4. QED BY <1>1, <2>1, <2>2, <2>3, TableChanges
  <1>5. QED BY <1>2, <1>3, <1>4

\* Serving a request answers it; a success closes the form.
LEMMA FormAnswers ==
  ASSUME FormInv, ServeCreate \/ ServeUpdate \/ ServeRemove \/ OtherManager \/ Succeeds
  PROVE  FormInv'
  <1>1. CASE Succeeds
    BY <1>1, BlankForms DEF Succeeds, FormInv, Untouched, Filled
  <1>2. CASE OtherManager BY <1>2 DEF OtherManager, FormInv, Untouched, Filled
  <1>3. CASE ServeCreate \/ ServeUpdate \/ ServeRemove
    <2>1. save' = [save EXCEPT !.phase = "ok"] /\ form' = form /\ save.phase = "sent"
      BY <1>3 DEF ServeCreate, ServeUpdate, ServeRemove
    <2>2. /\ save' \in Save /\ save'.mode = save.mode /\ save'.values = save.values
          /\ save'.loaded = save.loaded /\ save'.typed = save.typed
      BY <2>1 DEF FormInv, Save
    <2>3. QED BY <2>1, <2>2 DEF FormInv, Untouched, Filled
  <1>4. QED BY <1>1, <1>2, <1>3

-----------------------------------------------------------------------------
(* Numbers of rows: a page begins at each place before the last.           *)

LEMMA LeastNumber ==
  ASSUME NEW T \in SUBSET Nat, T # {}
  PROVE  \E x \in T : \A y \in T : x <= y
  <1>1. PICK n \in T : TRUE OBVIOUS
  <1> DEFINE F == {0 .. m : m \in {k \in T : k <= n}}
  <1>2. F \in SUBSET FiniteSubsetsOf(0 .. n) /\ F # {}
    <2>1. \A m \in T : 0 .. m \in SUBSET (0 .. n) \/ m > n BY <1>1
    <2>2. \A m \in T : IsFiniteSet(0 .. m) BY FS_Interval
    <2>3. QED BY <2>1, <2>2, <1>1 DEF FiniteSubsetsOf
  <1>3. PICK s \in F : \A u \in F : ~ (<<u, s>> \in StrictSubsetOrdering(0 .. n))
    <2> HIDE DEF F
    <2>1. QED BY <1>2, FS_StrictSubsetOrderingWellFounded, WFMin
  <1>4. PICK x \in T : x <= n /\ s = 0 .. x BY <1>3
  <1>5. ASSUME NEW y \in T, y < x PROVE FALSE
    <2>1. 0 .. y \in F BY <1>1, <1>4, <1>5
    <2>2. 0 .. y \in SUBSET (0 .. n) /\ 0 .. x \in SUBSET (0 .. n) BY <1>1, <1>4, <1>5
    <2>3. 0 .. y \subseteq 0 .. x /\ x \in 0 .. x /\ x \notin 0 .. y BY <1>5
    <2>4. <<0 .. y, s>> \in StrictSubsetOrdering(0 .. n)
      BY <1>4, <2>2, <2>3 DEF StrictSubsetOrdering
    <2>5. QED BY <1>3, <2>1, <2>4
  <1>6. QED BY <1>5

\* Rows are told apart by their ids.
Distinct(M) == M \subseteq Row /\ \A r, s \in M : r.id = s.id => r = s
Below(M, r) == {s \in M : s.id < r.id}

LEMMA FirstRow ==
  ASSUME NEW M, Distinct(M), M # {}
  PROVE  \E r \in M : \A s \in M : r.id <= s.id
  <1> DEFINE T == {r.id : r \in M}
  <1>1. T \in SUBSET Nat /\ T # {} BY ManagerAssumption DEF Distinct, Row
  <1>2. PICK x \in T : \A y \in T : x <= y
    <2> HIDE DEF T
    <2>1. QED BY <1>1, LeastNumber
  <1>3. QED BY <1>2

LEMMA LastRow ==
  ASSUME NEW M, Distinct(M), M # {}
  PROVE  \E r \in M : \A s \in M : s.id <= r.id
  <1> DEFINE T == {MaxId - r.id : r \in M}
  <1>0. \A r \in M : r.id \in Nat /\ MaxId - r.id \in Nat
    BY ManagerAssumption DEF Distinct, Row
  <1>1. T \in SUBSET Nat /\ T # {} BY <1>0
  <1>2. PICK x \in T : \A y \in T : x <= y
    <2> HIDE DEF T
    <2>1. QED BY <1>1, LeastNumber
  <1>3. PICK r \in M : x = MaxId - r.id BY <1>2
  <1>4. \A s \in M : MaxId - r.id <= MaxId - s.id BY <1>2, <1>3
  <1>5. QED BY <1>0, <1>4, ManagerAssumption

LEMMA BelowFacts ==
  ASSUME NEW M, Distinct(M), IsFiniteSet(M), NEW r \in M
  PROVE  /\ Below(M, r) \subseteq M /\ r \notin Below(M, r) /\ Distinct(Below(M, r))
         /\ IsFiniteSet(Below(M, r)) /\ Cardinality(Below(M, r)) \in Nat
         /\ Cardinality(Below(M, r)) < Cardinality(M) /\ Cardinality(M) \in Nat
  <1>1. Below(M, r) \subseteq M /\ r.id \in Nat BY DEF Below, Distinct, Row
  <1>2. r \notin Below(M, r) /\ Distinct(Below(M, r)) BY <1>1 DEF Below, Distinct
  <1>3. IsFiniteSet(Below(M, r)) BY <1>1, FS_Subset
  <1>4. Cardinality(Below(M, r)) \in Nat /\ Cardinality(M) \in Nat BY <1>3, FS_CardinalityType
  <1>5. /\ IsFiniteSet(Below(M, r) \cup {r})
        /\ Cardinality(Below(M, r) \cup {r}) = Cardinality(Below(M, r)) + 1
    BY <1>2, <1>3, FS_AddElement
  <1>6. Cardinality(Below(M, r) \cup {r}) <= Cardinality(M)
    <2>1. Below(M, r) \cup {r} \subseteq M BY <1>1
    <2>2. QED BY <2>1, FS_Subset
  <1>7. QED BY <1>1, <1>2, <1>3, <1>4, <1>5, <1>6

LEMMA RowAt ==
  ASSUME NEW M, Distinct(M), IsFiniteSet(M), NEW n \in Nat, n < Cardinality(M)
  PROVE  \E r \in M : Cardinality(Below(M, r)) = n
  <1> DEFINE T == {r \in M : Cardinality(Below(M, r)) >= n}
  <1>1. M # {} /\ Cardinality(M) \in Nat BY FS_CardinalityType, FS_EmptySet
  <1>2. T # {}
    <2>1. PICK g \in M : \A s \in M : s.id <= g.id BY <1>1, LastRow
    <2>2. \A s \in M : s # g => s.id < g.id BY <2>1 DEF Distinct, Row
    <2>3. Below(M, g) = M \ {g}
      BY <2>2, BelowFacts DEF Below
    <2>4. Cardinality(M \ {g}) = Cardinality(M) - 1 BY FS_RemoveElement
    <2>5. Cardinality(Below(M, g)) >= n BY <1>1, <2>3, <2>4
    <2>6. QED BY <2>5
  <1>3. Distinct(T) BY DEF Distinct
  <1>4. PICK r \in T : \A s \in T : r.id <= s.id
    <2> HIDE DEF T
    <2>1. QED BY <1>2, <1>3, FirstRow
  <1>5. r \in M /\ r.id \in Nat BY <1>4 DEF Distinct, Row
  <1>6. ASSUME Cardinality(Below(M, r)) > n PROVE FALSE
    <2>1. Below(M, r) # {} BY <1>6, FS_EmptySet
    <2>2. PICK h \in Below(M, r) : \A s \in Below(M, r) : s.id <= h.id
      BY <1>5, <2>1, BelowFacts, LastRow
    <2>3. h \in M /\ h.id < r.id /\ h.id \in Nat BY <2>2 DEF Below, Distinct, Row
    <2>4. Below(M, h) = Below(M, r) \ {h}
      <3>1. ASSUME NEW s \in Below(M, h) PROVE s \in Below(M, r) \ {h}
        BY <1>5, <2>3, <3>1 DEF Below, Distinct, Row
      <3>2. ASSUME NEW s \in Below(M, r) \ {h} PROVE s \in Below(M, h)
        <4>1. s \in M /\ s.id \in Nat /\ s.id <= h.id /\ s # h
          BY <2>2, <3>2 DEF Below, Distinct, Row
        <4>2. s.id # h.id BY <2>3, <4>1 DEF Distinct
        <4>3. QED BY <2>3, <4>1, <4>2 DEF Below
      <3>3. QED BY <3>1, <3>2
    <2>5. IsFiniteSet(Below(M, r)) /\ Cardinality(Below(M, r)) \in Nat
      BY <1>5, BelowFacts
    <2>6. Cardinality(Below(M, h)) = Cardinality(Below(M, r)) - 1
      BY <2>2, <2>4, <2>5, FS_RemoveElement
    <2>7. h \in T BY <1>6, <2>3, <2>5, <2>6
    <2>8. QED BY <1>4, <1>5, <2>3, <2>7
  <1>7. Cardinality(Below(M, r)) = n
    <2>1. Cardinality(Below(M, r)) \in Nat BY <1>5, BelowFacts
    <2>2. QED BY <1>4, <1>6, <2>1
  <1>8. QED BY <1>5, <1>7

\* The page of an offset is empty exactly when no row is at that place.
LEMMA PageBegins ==
  ASSUME TableInv, NEW q \in Names \cup {Blank}, NEW n \in Nat
  PROVE  /\ IsFiniteSet(Matches(q)) /\ Cardinality(Matches(q)) \in Nat
         /\ PageOf(q, n) \subseteq Row
         /\ PageOf(q, n) = {} <=> Cardinality(Matches(q)) <= n
  <1> DEFINE M == Matches(q)
  <1>1. M \subseteq rows BY DEF Matches
  <1>2. IsFiniteSet(M) /\ Distinct(M)
    <2>1. IsFiniteSet(M) BY <1>1, FS_Subset DEF TableInv
    <2>2. Distinct(M) BY <1>1 DEF TableInv, Distinct
    <2>3. QED BY <2>1, <2>2
  <1>3. Cardinality(M) \in Nat BY <1>2, FS_CardinalityType
  <1>4. PageOf(q, n) = {r \in M : n <= Cardinality(Below(M, r))
                                  /\ Cardinality(Below(M, r)) < n + PageSize}
    BY DEF PageOf, Below
  <1> HIDE DEF M
  <1>5. ASSUME NEW r \in PageOf(q, n) PROVE n < Cardinality(M)
    <2>1. r \in M /\ n <= Cardinality(Below(M, r)) BY <1>4
    <2>2. Cardinality(Below(M, r)) \in Nat /\ Cardinality(Below(M, r)) < Cardinality(M)
      BY <1>2, <2>1, BelowFacts
    <2>3. QED BY <1>3, <2>1, <2>2
  <1>6. ASSUME n < Cardinality(M) PROVE PageOf(q, n) # {}
    <2>1. PICK r \in M : Cardinality(Below(M, r)) = n BY <1>2, <1>6, RowAt
    <2>2. n < n + PageSize BY ManagerAssumption
    <2>3. r \in PageOf(q, n) BY <1>4, <2>1, <2>2
    <2>4. QED BY <2>3
  <1>7. PageOf(q, n) = {} <=> Cardinality(M) <= n BY <1>3, <1>5, <1>6
  <1>8. PageOf(q, n) \subseteq Row BY <1>1, <1>4 DEF TableInv, M
  <1>9. QED BY <1>2, <1>3, <1>7, <1>8 DEF M

-----------------------------------------------------------------------------
(* The list                                                                *)

Size(q) == Cardinality(Matches(q))

\* A read has seen this screen's own writes.
Current ==
  /\ list.wrote <= writes /\ fetch.seen <= writes
  /\ fetch.phase \in {"items", "total"} => fetch.seen >= list.wrote
  /\ OwnWritesListed

\* The first of its two statements is still right if nothing was written.
ReadInv ==
  /\ fetch.phase = "items" /\ fetch.seen = writes => fetch.items = PageOf(list.search, list.offset)
  /\ fetch.phase = "total" /\ fetch.seen = writes => fetch.total = Size(list.search)

\* Until rows change or go, the page begins at a row that is there, and no
\* total is too large.
Shrinks ==
  ~list.shrunk =>
    /\ list.offset = 0 \/ list.offset < Size(list.search)
    /\ list.total <= Size(list.search)
    /\ fetch.phase = "total" => fetch.total <= Size(list.search)

ListInv ==
  /\ list \in List /\ fetch \in Fetch
  /\ Current /\ ReadInv /\ Shrinks /\ EmptyPageExplained

ManagerInv == TableInv /\ FormInv /\ ListInv

LEMMA Numbers ==
  ASSUME ManagerInv
  PROVE  /\ writes \in Nat /\ list.offset \in Nat /\ list.search \in Names \cup {Blank}
         /\ list.total \in Nat /\ list.seen \in Nat /\ list.wrote \in Nat
         /\ fetch.seen \in Nat /\ fetch.total \in Nat /\ fetch.items \subseteq Row
         /\ list.shrunk \in BOOLEAN /\ list.items \subseteq Row
         /\ Size(list.search) \in Nat
         /\ PageOf(list.search, list.offset) \subseteq Row
  <1>1. /\ list.offset \in Nat /\ list.search \in Names \cup {Blank}
        /\ list.total \in Nat /\ list.seen \in Nat /\ list.wrote \in Nat
        /\ fetch.seen \in Nat /\ fetch.total \in Nat /\ fetch.items \subseteq Row
        /\ list.shrunk \in BOOLEAN /\ list.items \subseteq Row
    BY DEF ManagerInv, ListInv, List, Fetch
  <1>2. writes \in Nat BY ManagerAssumption DEF ManagerInv, TableInv
  <1>3. QED BY <1>1, <1>2, PageBegins DEF ManagerInv, Size

\* One statement of a read.
LEMMA ReadKept ==
  ASSUME ManagerInv, ReadItems \/ ReadTotal
  PROVE  ManagerInv'
  <1>1. UNCHANGED <<rows, lastId, writes, list, form, save>> /\ fetch.phase = "asked"
    BY DEF ReadItems, ReadTotal
  <1>2. TableInv' /\ FormInv' BY <1>1 DEF ManagerInv, TableInv, FormInv, Untouched, Filled
  <1>3. PICK w \in Nat, n \in Nat, P \in SUBSET Row :
          w = writes /\ n = Size(list.search) /\ P = PageOf(list.search, list.offset)
    BY Numbers
  <1>4. \/ fetch' = [fetch EXCEPT !.phase = "items", !.seen = w, !.items = P]
        \/ fetch' = [fetch EXCEPT !.phase = "total", !.seen = w, !.total = n]
    BY <1>3 DEF ReadItems, ReadTotal, Size
  <1>5. /\ fetch' \in Fetch /\ fetch'.seen = w
        /\ \/ fetch'.phase = "items" /\ fetch'.items = P
           \/ fetch'.phase = "total" /\ fetch'.total = n
    BY <1>4 DEF ManagerInv, ListInv, Fetch
  <1>6. Size(list.search)' = n /\ PageOf(list.search, list.offset)' = P
    BY <1>1, <1>3 DEF Size, PageOf, Matches
  <1>7. list \in List /\ list' = list /\ list' \in List BY <1>1 DEF ManagerInv, ListInv
  <1>8. Current' BY <1>1, <1>3, <1>5, Numbers DEF ManagerInv, ListInv, Current, OwnWritesListed
  <1>9. ReadInv' BY <1>1, <1>5, <1>6 DEF ReadInv
  <1>10. Shrinks' /\ EmptyPageExplained'
    BY <1>1, <1>3, <1>5, <1>6 DEF ManagerInv, ListInv, Shrinks, EmptyPageExplained
  <1>11. QED BY <1>2, <1>5, <1>7, <1>8, <1>9, <1>10 DEF ManagerInv, ListInv

LEMMA NoReading ==
  /\ NoFetch \in Fetch /\ NoFetch.phase = "none" /\ NoFetch.seen = 0
  /\ Ask \in Fetch /\ Ask.phase = "asked" /\ Ask.seen = 0
  BY DEF NoFetch, Ask, Fetch

\* The answer: a total that is too large, or a page that begins after the last
\* row, comes with the mark of a change.
LEMMA ReceiveKept == ASSUME ManagerInv, ReceiveList PROVE ManagerInv'
  <1>1. UNCHANGED <<rows, lastId, writes, form, save>> /\ fetch.phase \in {"items", "total"}
        /\ fetch' = NoFetch
    BY DEF ReceiveList
  <1>2. TableInv' /\ FormInv' BY <1>1 DEF ManagerInv, TableInv, FormInv, Untouched, Filled
  <1>3. PICK items \in SUBSET Row :
          items = IF fetch.phase = "items" THEN fetch.items ELSE PageOf(list.search, list.offset)
    BY Numbers
  <1>4. PICK total \in Nat :
          total = IF fetch.phase = "total" THEN fetch.total ELSE Size(list.search)
    BY Numbers
  <1>5. PICK split \in BOOLEAN, lost \in BOOLEAN, shrunk \in BOOLEAN :
          /\ split <=> fetch.seen # writes
          /\ lost = FALSE
          /\ shrunk <=> list.shrunk /\ (items = {} \/ fetch.seen # writes)
    OBVIOUS
  <1>6. PICK seen \in Nat : seen = fetch.seen BY Numbers
  <1>7. list' = [list EXCEPT !.items = items, !.total = total, !.seen = seen, !.lost = lost,
                             !.split = split, !.shrunk = shrunk]
    <2>1. split = (fetch.seen # writes)
          /\ shrunk = (list.shrunk /\ (items = {} \/ fetch.seen # writes))
      BY <1>5, Numbers
    <2>2. QED BY <1>3, <1>4, <1>5, <1>6, <2>1, Zenon DEF ReceiveList, Size
  <1>8. /\ list' \in List /\ list'.items = items /\ list'.total = total /\ list'.seen = seen
        /\ list'.lost = lost /\ list'.split = split /\ list'.shrunk = shrunk
        /\ list'.offset = list.offset /\ list'.search = list.search /\ list'.wrote = list.wrote
    BY <1>7 DEF ManagerInv, ListInv, List
  <1>9. fetch' \in Fetch /\ ReadInv' BY <1>1, NoReading DEF ReadInv
  <1>10. Current'
    BY <1>1, <1>6, <1>8, NoReading, Numbers DEF ManagerInv, ListInv, Current, OwnWritesListed
  <1>11. PICK n \in Nat : n = Size(list.search) /\ n = Size(list.search)'
    BY <1>1, <1>8, Numbers DEF Size, Matches
  <1>12. PageOf(list.search, list.offset) = {} <=> n <= list.offset
    BY <1>11, Numbers, PageBegins DEF ManagerInv, Size
  <1>13. ~split => items = PageOf(list.search, list.offset) /\ total = n
    BY <1>1, <1>3, <1>4, <1>5, <1>11 DEF ManagerInv, ListInv, ReadInv
  <1>14. ~list.shrunk => (list.offset = 0 \/ list.offset < n) /\ total <= n
    BY <1>4, <1>11 DEF ManagerInv, ListInv, Shrinks
  <1>15. Shrinks'
    <2>1. ~shrunk => (list.offset = 0 \/ list.offset < n) /\ total <= n
      <3>1. CASE ~list.shrunk BY <1>14, <3>1
      <3>2. CASE ~split /\ items # {} BY <1>12, <1>13, <3>2, Numbers
      <3>3. QED BY <1>5, <3>1, <3>2
    <2>2. QED BY <1>1, <1>8, <1>11, <2>1, NoReading DEF Shrinks
  <1>16. EmptyPageExplained'
    <2>1. ASSUME items = {}, total > 0, ~split PROVE shrunk
      <3>1. n <= list.offset /\ total = n BY <1>12, <1>13, <2>1
      <3>2. list.shrunk BY <1>14, <2>1, <3>1, Numbers
      <3>3. QED BY <1>5, <2>1, <3>2
    <2>2. QED BY <1>8, <2>1 DEF EmptyPageExplained
  <1>17. QED BY <1>2, <1>8, <1>9, <1>10, <1>15, <1>16 DEF ManagerInv, ListInv

LEMMA ListFailsKept == ASSUME ManagerInv, ListFails PROVE ManagerInv'
  <1>1. UNCHANGED <<rows, lastId, writes, form, save>> /\ fetch' = NoFetch
        /\ list' = [list EXCEPT !.lost = TRUE]
    BY DEF ListFails
  <1>2. TableInv' /\ FormInv' BY <1>1 DEF ManagerInv, TableInv, FormInv, Untouched, Filled
  <1>3. /\ list' \in List /\ list'.lost = TRUE
        /\ list'.offset = list.offset /\ list'.search = list.search /\ list'.wrote = list.wrote
        /\ list'.items = list.items /\ list'.total = list.total /\ list'.shrunk = list.shrunk
        /\ list'.split = list.split
    <2>1. PICK lost \in BOOLEAN : lost = TRUE /\ list' = [list EXCEPT !.lost = lost] BY <1>1
    <2>2. QED BY <2>1 DEF ManagerInv, ListInv, List
  <1>4. fetch' \in Fetch /\ ReadInv' BY <1>1, NoReading DEF ReadInv
  <1>5. Current'
    BY <1>1, <1>3, NoReading, Numbers DEF ManagerInv, ListInv, Current, OwnWritesListed
  <1>6. Size(list.search)' = Size(list.search) BY <1>1, <1>3 DEF Size, Matches
  <1>7. Shrinks' /\ EmptyPageExplained'
    BY <1>1, <1>3, <1>6, NoReading DEF ManagerInv, ListInv, Shrinks, EmptyPageExplained
  <1>8. QED BY <1>2, <1>3, <1>4, <1>5, <1>7 DEF ManagerInv, ListInv

\* Another page, if it is marked or begins at a row, or another search.
LEMMA ShowKept ==
  ASSUME ManagerInv, NEW offset \in Nat, NEW q \in Names \cup {Blank}, Show(offset, q),
         offset = 0 \/ list.shrunk \/ offset < Size(q)
  PROVE  ManagerInv'
  <1>1. UNCHANGED <<rows, lastId, writes, form, save>> /\ fetch' = Ask BY DEF Show
  <1>2. TableInv' /\ FormInv' BY <1>1 DEF ManagerInv, TableInv, FormInv, Untouched, Filled
  <1>3. PICK shrunk \in BOOLEAN, wrote \in Nat :
          shrunk = (list.shrunk /\ offset > 0) /\ wrote = list.wrote
    BY Numbers
  <1>4. list' = [NoList EXCEPT !.offset = offset, !.search = q, !.wrote = wrote, !.shrunk = shrunk]
    BY <1>3 DEF Show
  <1>5. PICK e : e = NoList /\ e \in List /\ e.items = {} /\ e.total = 0
    <2>1. PICK no \in BOOLEAN, none \in SUBSET Row : no = FALSE /\ none = {} OBVIOUS
    <2>2. PICK e : e = [offset |-> 0, search |-> Blank, items |-> none, total |-> 0, seen |-> 0,
                        shrunk |-> no, split |-> no, lost |-> no, wrote |-> 0]
      OBVIOUS
    <2>3. e \in List /\ e.items = none /\ e.total = 0 BY <2>2 DEF List
    <2>4. e = NoList BY <2>1, <2>2, Zenon DEF NoList
    <2>5. QED BY <2>1, <2>3, <2>4
  <1>6. list' = [e EXCEPT !.offset = offset, !.search = q, !.wrote = wrote, !.shrunk = shrunk]
    BY <1>4, <1>5
  <1>7. /\ list' \in List /\ list'.offset = offset /\ list'.search = q
        /\ list'.wrote = list.wrote /\ list'.shrunk = shrunk /\ list'.total = 0
    BY <1>3, <1>5, <1>6 DEF List
  <1>8. fetch' \in Fetch /\ ReadInv' BY <1>1, NoReading DEF ReadInv
  <1>9. Current'
    BY <1>1, <1>7, NoReading, Numbers DEF ManagerInv, ListInv, Current, OwnWritesListed
  <1>10. Size(list.search)' = Size(q) /\ Size(q) \in Nat
    <2>1. Size(list.search)' = Size(q) BY <1>1, <1>7 DEF Size, Matches
    <2>2. QED BY <2>1, PageBegins DEF ManagerInv, Size
  <1>11. ~shrunk => (offset = 0 \/ offset < Size(q))
    <2>1. CASE offset = 0 BY <2>1
    <2>2. CASE ~(offset = 0)
      <3>1. offset > 0 BY <2>2
      <3>2. shrunk = list.shrunk BY <1>3, <3>1, Numbers
      <3>3. QED BY <2>2, <3>2
    <2>3. QED BY <2>1, <2>2
  <1>12. Shrinks' /\ EmptyPageExplained'
    BY <1>1, <1>7, <1>10, <1>11, NoReading DEF Shrinks, EmptyPageExplained
  <1>13. QED BY <1>2, <1>7, <1>8, <1>9, <1>12 DEF ManagerInv, ListInv

LEMMA PagerKept ==
  ASSUME ManagerInv, (\E q \in Names \cup {Blank} : Search(q)) \/ NextPage \/ PreviousPage
  PROVE  ManagerInv'
  <1>1. PICK size \in Nat \ {0} : size = PageSize BY ManagerAssumption
  <1>2. ASSUME NEW q \in Names \cup {Blank}, Search(q) PROVE ManagerInv'
    BY <1>2, ShowKept DEF Search
  <1>3. \/ list.shrunk
        \/ /\ list.offset = 0 \/ list.offset < Size(list.search)
           /\ list.total <= Size(list.search)
    BY DEF ManagerInv, ListInv, Shrinks
  <1>4. CASE NextPage
    <2>1. list.offset + size < list.total /\ Show(list.offset + size, list.search)
      BY <1>1, <1>4 DEF NextPage
    <2>2. list.offset + size \in Nat /\ (list.shrunk \/ list.offset + size < Size(list.search))
      BY <1>3, <2>1, Numbers
    <2>3. QED BY <2>1, <2>2, Numbers, ShowKept
  <1>5. CASE PreviousPage
    <2>1. PICK n \in Nat : n = list.offset BY Numbers
    <2>2. PICK b \in Nat : b = Max({0, n - size}) /\ b <= n
      <3>1. CASE n >= size
        <4>1. \A x \in {0, n - size} : n - size >= x BY <3>1
        <4>2. \E x \in {0, n - size} : \A y \in {0, n - size} : x >= y BY <4>1
        <4>3. Max({0, n - size}) \in {0, n - size} BY <4>2 DEF Max
        <4>4. QED BY <3>1, <4>3
      <3>2. CASE ~(n >= size)
        <4>1. \A x \in {0, n - size} : 0 >= x BY <3>2
        <4>2. \A x \in {0, n - size} : (\A y \in {0, n - size} : x >= y) => x = 0
          BY <3>2
        <4>3. Max({0, n - size}) = 0 BY <4>1, <4>2 DEF Max
        <4>4. QED BY <4>3
      <3>3. QED BY <3>1, <3>2
    <2>3. Show(b, list.search) BY <1>1, <1>5, <2>1, <2>2 DEF PreviousPage
    <2>4. b = 0 \/ list.shrunk \/ b < Size(list.search)
      BY <1>3, <2>1, <2>2, Numbers
    <2>5. QED BY <2>3, <2>4, Numbers, ShowKept
  <1>6. QED BY <1>2, <1>4, <1>5

LEMMA FormKept ==
  ASSUME ManagerInv,
         \/ StartCreate \/ Cancel \/ Submit \/ Fails
         \/ \E r \in list.items : StartEdit(r) \/ Confirm(r)
         \/ \E n \in Names : Type("name", n)
         \/ \E p \in Plates : Type("plate", p)
  PROVE  ManagerInv'
  <1>1. FormInv' /\ UNCHANGED <<rows, lastId, writes, list, fetch>>
    <2>1. list \in List /\ list.items \subseteq Row /\ FormInv
      BY Numbers DEF ManagerInv, ListInv
    <2>2. QED BY <2>1, FormSteps
  <1>2. TableInv' BY <1>1 DEF ManagerInv, TableInv
  <1>3. \A q : Size(q)' = Size(q) /\ Matches(q)' = Matches(q) BY <1>1 DEF Size, Matches
  <1>4. PageOf(list.search, list.offset)' = PageOf(list.search, list.offset)
    BY <1>1, <1>3 DEF PageOf
  <1>5. Size(list.search)' = Size(list.search) BY <1>1, <1>3
  <1>6. ListInv'
    BY <1>1, <1>4, <1>5
    DEF ManagerInv, ListInv, Current, OwnWritesListed, ReadInv, Shrinks, EmptyPageExplained
  <1>7. QED BY <1>1, <1>2, <1>6 DEF ManagerInv

\* After a write, what a read has seen is older than the table.
LEMMA WriteSeen ==
  ASSUME ManagerInv, writes' = writes + 1, fetch' = fetch,
         list'.wrote = list.wrote, list'.seen = list.seen, list'.lost = list.lost
  PROVE  Current' /\ ReadInv'
  <1>1. fetch.seen <= writes /\ list.wrote <= writes BY DEF ManagerInv, ListInv, Current
  <1>2. fetch'.seen # writes' BY <1>1, Numbers
  <1>3. Current' BY <1>1, Numbers DEF ManagerInv, ListInv, Current, OwnWritesListed
  <1>4. QED BY <1>2, <1>3 DEF ReadInv

\* A row more: the page still begins where it did, no total becomes too large.
LEMMA CreateKept == ASSUME ManagerInv, ServeCreate PROVE ManagerInv'
  <1>1. /\ writes' = writes + 1 /\ UNCHANGED <<list, fetch>>
        /\ TableInv' /\ rows \subseteq rows' /\ FormInv'
    BY TableGrows, FormAnswers DEF ManagerInv, ServeCreate, Commit
  <1>2. Current' /\ ReadInv' BY <1>1, WriteSeen
  <1>3. Size(list.search) <= Size(list.search)' /\ Size(list.search)' \in Nat
    <2>1. Matches(list.search) \subseteq Matches(list.search)' BY <1>1 DEF Matches
    <2>2. IsFiniteSet(Matches(list.search)')
      <3>1. Matches(list.search)' \subseteq rows' BY <1>1 DEF Matches
      <3>2. IsFiniteSet(rows') BY <1>1 DEF TableInv
      <3>3. QED BY <3>1, <3>2, FS_Subset
    <2>3. QED BY <2>1, <2>2, FS_Subset, FS_CardinalityType DEF Size
  <1>4. PICK m \in Nat, n \in Nat : m = Size(list.search) /\ n = Size(list.search)' /\ m <= n
    BY <1>3, Numbers
  <1>5. Shrinks'
    <2>1. ASSUME ~list.shrunk
          PROVE  /\ list.offset = 0 \/ list.offset < n
                 /\ list.total <= n
                 /\ fetch.phase = "total" => fetch.total <= n
      <3>1. /\ list.offset = 0 \/ list.offset < m
            /\ list.total <= m
            /\ fetch.phase = "total" => fetch.total <= m
        BY <1>4, <2>1 DEF ManagerInv, ListInv, Shrinks
      <3>2. QED BY <1>4, <3>1, Numbers
    <2>2. QED BY <1>1, <1>4, <2>1 DEF Shrinks
  <1>6. EmptyPageExplained' BY <1>1 DEF ManagerInv, ListInv, EmptyPageExplained
  <1>7. list' \in List /\ fetch' \in Fetch BY <1>1 DEF ManagerInv, ListInv
  <1>8. QED BY <1>1, <1>2, <1>5, <1>6, <1>7 DEF ManagerInv, ListInv

\* Every other write marks the list.
LEMMA OtherWritesKept ==
  ASSUME ManagerInv, ServeUpdate \/ ServeRemove \/ OtherManager
  PROVE  ManagerInv'
  <1>1. /\ writes' = writes + 1 /\ fetch' = fetch
        /\ list' = [list EXCEPT !.shrunk = TRUE]
        /\ TableInv' /\ FormInv'
    <2>1. TableInv /\ FormInv BY DEF ManagerInv
    <2>2. TableInv' /\ FormInv' BY <2>1, TableShrinks, FormAnswers
    <2>3. QED BY <2>2 DEF ServeUpdate, ServeRemove, OtherManager, Commit
  <1>2. /\ list' \in List /\ list'.shrunk
        /\ list'.wrote = list.wrote /\ list'.seen = list.seen /\ list'.lost = list.lost
    <2>1. PICK yes \in BOOLEAN : yes = TRUE /\ list' = [list EXCEPT !.shrunk = yes] BY <1>1
    <2>2. QED BY <2>1 DEF ManagerInv, ListInv, List
  <1>3. Current' /\ ReadInv' BY <1>1, <1>2, WriteSeen
  <1>4. Shrinks' /\ EmptyPageExplained' BY <1>2 DEF Shrinks, EmptyPageExplained
  <1>5. fetch' \in Fetch BY <1>1 DEF ManagerInv, ListInv
  <1>6. QED BY <1>1, <1>2, <1>3, <1>4, <1>5 DEF ManagerInv, ListInv

\* The list has to show this write, and is read again.
LEMMA SucceedsKept == ASSUME ManagerInv, Succeeds PROVE ManagerInv'
  <1>1. UNCHANGED <<rows, lastId, writes>> /\ fetch' = Ask
        /\ list' = [list EXCEPT !.wrote = writes]
    BY DEF Succeeds, Invalidate
  <1>2. TableInv' /\ FormInv'
    <2>1. FormInv' BY FormAnswers DEF ManagerInv
    <2>2. QED BY <1>1, <2>1 DEF ManagerInv, TableInv
  <1>3. /\ list' \in List /\ list'.wrote = writes
        /\ list'.offset = list.offset /\ list'.search = list.search /\ list'.items = list.items
        /\ list'.total = list.total /\ list'.shrunk = list.shrunk /\ list'.split = list.split
    <2>1. writes \in Nat BY Numbers
    <2>2. QED BY <1>1, <2>1 DEF ManagerInv, ListInv, List
  <1>4. fetch' \in Fetch /\ ReadInv' BY <1>1, NoReading DEF ReadInv
  <1>5. Current' BY <1>1, <1>3, NoReading, Numbers DEF Current, OwnWritesListed
  <1>6. Size(list.search)' = Size(list.search) BY <1>1, <1>3 DEF Size, Matches
  <1>7. Shrinks' /\ EmptyPageExplained'
    BY <1>1, <1>3, <1>6, NoReading DEF ManagerInv, ListInv, Shrinks, EmptyPageExplained
  <1>8. QED BY <1>2, <1>3, <1>4, <1>5, <1>7 DEF ManagerInv, ListInv

LEMMA ManagerInvStep == ASSUME ManagerInv, ManagerNext PROVE ManagerInv'
  <1>1. CASE ReadItems \/ ReadTotal BY <1>1, ReadKept
  <1>2. CASE ReceiveList BY <1>2, ReceiveKept
  <1>3. CASE ListFails BY <1>3, ListFailsKept
  <1>4. CASE (\E q \in Names \cup {Blank} : Search(q)) \/ NextPage \/ PreviousPage
    BY <1>4, PagerKept
  <1>5. CASE \/ StartCreate \/ Cancel \/ Submit \/ Fails
             \/ \E r \in list.items : StartEdit(r) \/ Confirm(r)
             \/ \E n \in Names : Type("name", n)
             \/ \E p \in Plates : Type("plate", p)
    BY <1>5, FormKept
  <1>6. CASE ServeCreate BY <1>6, CreateKept
  <1>7. CASE ServeUpdate \/ ServeRemove \/ OtherManager BY <1>7, OtherWritesKept
  <1>8. CASE Succeeds BY <1>8, SucceedsKept
  <1>9. QED BY <1>1, <1>2, <1>3, <1>4, <1>5, <1>6, <1>7, <1>8 DEF ManagerNext

-----------------------------------------------------------------------------
(* Entering a screen: the form is closed, the list empty.                  *)

LEMMA NoListFacts ==
  /\ NoList \in List /\ NoList.items = {} /\ NoList.total = 0 /\ NoList.wrote = 0
  /\ NoList.seen = 0 /\ NoList.offset = 0 /\ NoList.search = Blank
  <1>1. PICK no \in BOOLEAN, none \in SUBSET Row : no = FALSE /\ none = {} OBVIOUS
  <1>2. PICK e : e = [offset |-> 0, search |-> Blank, items |-> none, total |-> 0, seen |-> 0,
                      shrunk |-> no, split |-> no, lost |-> no, wrote |-> 0]
    OBVIOUS
  <1>3. /\ e \in List /\ e.items = none /\ e.total = 0 /\ e.wrote = 0 /\ e.seen = 0
        /\ e.offset = 0 /\ e.search = Blank
    BY <1>2 DEF List
  <1>4. e = NoList BY <1>1, <1>2, Zenon DEF NoList
  <1>5. QED BY <1>1, <1>3, <1>4

LEMMA BlankList ==
  ASSUME TableInv, list = NoList, fetch = Ask \/ fetch = NoFetch
  PROVE  ListInv
  <1>1. writes \in Nat BY ManagerAssumption DEF TableInv
  <1>2. Size(Blank) \in Nat BY PageBegins DEF Size
  <1>3. fetch \in Fetch /\ fetch.phase \in {"none", "asked"} /\ fetch.seen = 0 BY NoReading
  <1>4. Current BY <1>1, <1>3, NoListFacts DEF Current, OwnWritesListed
  <1>5. ReadInv BY <1>3 DEF ReadInv
  <1>6. Shrinks /\ EmptyPageExplained
    BY <1>2, <1>3, NoListFacts DEF Shrinks, EmptyPageExplained
  <1>7. QED BY <1>3, <1>4, <1>5, <1>6, NoListFacts DEF ListInv

LEMMA BlankForm ==
  ASSUME FormInv, form' = Closed, save' = save
  PROVE  FormInv'
  BY BlankForms DEF FormInv, Untouched, Filled

\* The screen that is not shown keeps an empty state.
AdminInv ==
  /\ ManagerInv /\ UsersInv
  /\ screen \in {"resources", "users"}
  /\ screen = "users" => list = NoList /\ fetch = NoFetch /\ save.phase = "idle"

LEMMA AdminInvInit == Init => AdminInv
  <1> SUFFICES ASSUME Init PROVE AdminInv OBVIOUS
  <1>1. ManagerInit BY DEF Init
  <1>2. TableInv
    <2>1. PICK n \in Names, p \in Plates : rows = {[id |-> 1, name |-> n, plate |-> p]}
      BY <1>1 DEF ManagerInit
    <2>2. PICK r \in Row : r.id = 1 /\ rows = {r}
      <3>1. 1 \in 1..MaxId BY ManagerAssumption
      <3>2. [id |-> 1, name |-> n, plate |-> p] \in Row BY <3>1 DEF Row
      <3>3. [id |-> 1, name |-> n, plate |-> p].id = 1 OBVIOUS
      <3>4. QED BY <2>1, <3>2, <3>3
    <2>3. IsFiniteSet(rows) BY <2>2, FS_Singleton
    <2>4. lastId = 1 /\ 1 \in 0..MaxId /\ writes = 0 /\ 0 \in 0..MaxWrites
      BY <1>1, ManagerAssumption DEF ManagerInit
    <2>5. QED BY <2>2, <2>3, <2>4 DEF TableInv
  <1>3. FormInv BY <1>1, BlankForms DEF ManagerInit, FormInv, Untouched, Filled
  <1>4. ListInv BY <1>1, <1>2, BlankList DEF ManagerInit
  <1>5. QED BY <1>2, <1>3, <1>4, UsersInvInit DEF Init, AdminInv, ManagerInv

LEMMA AdminInvStep == ASSUME AdminInv, [Next]_vars PROVE AdminInv'
  <1>1. CASE screen = "resources" /\ ManagerNext /\ UNCHANGED <<screen, usersVars>>
    <2>1. ManagerInv' BY <1>1, ManagerInvStep DEF AdminInv
    <2>2. UsersInv'
      BY <1>1 DEF AdminInv, usersVars, UsersInv, UsersTypeOK, ResetInv, PasswordExplained
    <2>3. QED BY <1>1, <2>1, <2>2 DEF AdminInv
  <1>2. CASE UNCHANGED <<screen, managerVars>> /\ (UsersNext \/ UNCHANGED usersVars)
    <2>1. UNCHANGED <<rows, lastId, writes, list, fetch, form, save>> BY <1>2 DEF managerVars
    <2>2. TableInv' /\ FormInv'
      BY <2>1 DEF AdminInv, ManagerInv, TableInv, FormInv, Untouched, Filled
    <2>3. \A q : Size(q)' = Size(q) /\ Matches(q)' = Matches(q) BY <2>1 DEF Size, Matches
    <2>4. /\ PageOf(list.search, list.offset)' = PageOf(list.search, list.offset)
          /\ Size(list.search)' = Size(list.search)
      BY <2>1, <2>3 DEF PageOf
    <2>5. ListInv'
      BY <2>1, <2>4
      DEF AdminInv, ManagerInv, ListInv, Current, OwnWritesListed, ReadInv, Shrinks,
          EmptyPageExplained
    <2>6. UsersInv'
      <3>1. CASE UsersNext BY <3>1, UsersInvStep DEF AdminInv
      <3>2. CASE UNCHANGED usersVars
        BY <3>2 DEF AdminInv, usersVars, UsersInv, UsersTypeOK, ResetInv, PasswordExplained
      <3>3. QED BY <1>2, <3>1, <3>2
    <2>7. QED BY <1>2, <2>1, <2>2, <2>5, <2>6 DEF AdminInv, ManagerInv
  <1>3. CASE OpenUsers
    <2>1. /\ screen' = "users" /\ save.phase = "idle" /\ save' = save
          /\ list' = NoList /\ fetch' = NoFetch /\ form' = Closed
          /\ UNCHANGED <<rows, lastId, writes>> /\ UNCHANGED usersVars
      BY <1>3 DEF OpenUsers
    <2>2. TableInv' BY <2>1 DEF AdminInv, ManagerInv, TableInv
    <2>3. FormInv' BY <2>1, BlankForm DEF AdminInv, ManagerInv
    <2>4. ListInv'
      <3>1. (TableInv /\ list = NoList /\ (fetch = Ask \/ fetch = NoFetch))'
        BY <2>1, <2>2 DEF NoList, NoFetch
      <3>2. (TableInv /\ list = NoList /\ (fetch = Ask \/ fetch = NoFetch) => ListInv)'
        BY BlankList, PTL
      <3>3. QED BY <3>1, <3>2
    <2>5. UsersInv'
      BY <2>1 DEF AdminInv, usersVars, UsersInv, UsersTypeOK, ResetInv, PasswordExplained
    <2>6. QED BY <2>1, <2>2, <2>3, <2>4, <2>5 DEF AdminInv, ManagerInv, NoList, NoFetch
  <1>4. CASE OpenResources
    <2>1. /\ screen' = "resources" /\ busy = {} /\ fetch' = Ask /\ list = NoList
          /\ creating' = [open |-> FALSE, draft |-> FALSE]
          /\ reset' = NoReset /\ alert' = FALSE
          /\ UNCHANGED <<rows, lastId, writes, list, form, save, busy, password>>
      BY <1>4 DEF OpenResources, AdminInv
    <2>2. TableInv' /\ FormInv'
      BY <2>1 DEF AdminInv, ManagerInv, TableInv, FormInv, Untouched, Filled
    <2>3. ListInv'
      <3>1. (TableInv /\ list = NoList /\ (fetch = Ask \/ fetch = NoFetch))'
        BY <2>1, <2>2 DEF NoList, NoFetch, Ask
      <3>2. (TableInv /\ list = NoList /\ (fetch = Ask \/ fetch = NoFetch) => ListInv)'
        BY BlankList, PTL
      <3>3. QED BY <3>1, <3>2
    <2>4. UsersInv'
      <3>1. creating' \in [open : BOOLEAN, draft : BOOLEAN]
        <4>1. [open |-> FALSE, draft |-> FALSE] \in [open : BOOLEAN, draft : BOOLEAN] OBVIOUS
        <4>2. QED BY <2>1, <4>1
      <3>2. UsersTypeOK' BY <2>1, <3>1, NoResetFacts DEF AdminInv, UsersInv, UsersTypeOK
      <3>3. ResetInv'
        BY <2>1, NoResetFacts DEF AdminInv, UsersInv, ResetInv, PasswordExplained
      <3>4. QED BY <3>2, <3>3 DEF UsersInv
    <2>5. QED BY <2>1, <2>2, <2>3, <2>4 DEF AdminInv, ManagerInv
  <1>5. QED BY <1>1, <1>2, <1>3, <1>4 DEF Next, vars

THEOREM AdminInvariant == Spec => []AdminInv
  <1>1. AdminInv /\ [Next]_vars => AdminInv' BY AdminInvStep
  <1>2. QED BY <1>1, AdminInvInit, PTL DEF Spec

\* Type correctness.
THEOREM AdminTypeCorrect == Spec => []TypeOK
  <1>1. AdminInv => TypeOK
    BY DEF AdminInv, ManagerInv, TableInv, FormInv, ListInv, UsersInv, TypeOK, ManagerTypeOK
  <1>2. QED BY <1>1, AdminInvariant, PTL

\* "Staying on page 3 of the old result would show an empty table": an empty
\* list with a total comes of rows that changed or of a write between its two
\* statements, for any number of rows and any page size.
THEOREM EmptyPageAlwaysExplained == Spec => []EmptyPageExplained
  <1>1. AdminInv => EmptyPageExplained BY DEF AdminInv, ManagerInv, ListInv
  <1>2. QED BY <1>1, AdminInvariant, PTL

\* After a save or a delete, the list shows the table as of that write or later.
THEOREM OwnWritesAlwaysListed == Spec => []OwnWritesListed
  <1>1. AdminInv => OwnWritesListed BY DEF AdminInv, ManagerInv, ListInv, Current
  <1>2. QED BY <1>1, AdminInvariant, PTL

\* The password set for an account was typed in its form, unless the form was
\* switched from another account's with the password in it.
THEOREM PasswordAlwaysExplained == Spec => []PasswordExplained
  <1>1. AdminInv => PasswordExplained BY DEF AdminInv, UsersInv, ResetInv
  <1>2. QED BY <1>1, AdminInvariant, PTL

\* An update changes a field its user changed in that form, or one somebody
\* else changed since the form was opened.
THEOREM UpdatesAlwaysExplained == Spec => UpdatesExplained
  <1>1. ASSUME AdminInv, ServeUpdate, NEW f \in {"name", "plate"}, NEW r \in rows, NEW s \in rows',
               r.id = save.id, s.id = save.id, r[f] # s[f], f \notin save.typed
        PROVE  r[f] # save.loaded[f]
    <2>1. s = RowOf(save.id, save.values) BY <1>1 DEF ServeUpdate
    <2>2. s[f] = save.values[f] BY <2>1 DEF RowOf
    <2>3. save.values[f] = save.loaded[f]
      BY <1>1 DEF AdminInv, ManagerInv, FormInv, Untouched, ServeUpdate
    <2>4. QED BY <1>1, <2>2, <2>3
  <1>2. AdminInv =>
          [ServeUpdate =>
             \A f \in {"name", "plate"} : \A r \in rows, s \in rows' :
               r.id = save.id /\ s.id = save.id /\ r[f] # s[f] =>
                 f \in save.typed \/ r[f] # save.loaded[f]]_managerVars
    BY <1>1
  <1>3. QED BY <1>2, AdminInvariant, PTL DEF UpdatesExplained

==============================================================================
