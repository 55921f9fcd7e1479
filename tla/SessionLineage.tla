--------------------------- MODULE SessionLineage ---------------------------
(***************************************************************************)
(* What refresh-token rotation promises, without tables or requests.  A    *)
(* login opens a family with one accepted token.  A refresh spends the     *)
(* token and puts a fresh one in its place, in two steps; anything may     *)
(* close families at any time; a closed family never accepts again.        *)
(***************************************************************************)
EXTENDS Naturals

VARIABLES
  accepted,  \* pairs <<family, token>>: the tokens a refresh would accept
  renewing,  \* families whose token was spent and not yet replaced
  last       \* tokens are numbered; the highest number handed out

lineage == <<accepted, renewing, last>>

Init == accepted = {} /\ renewing = {} /\ last = 0

Open ==
  /\ last' = last + 1
  /\ accepted' = accepted \cup {<<last + 1, last + 1>>}
  /\ UNCHANGED renewing

Spend(f, t) ==
  /\ <<f, t>> \in accepted
  /\ accepted' = accepted \ {<<f, t>>}
  /\ renewing' = renewing \cup {f}
  /\ UNCHANGED last

Replace(f) ==
  /\ f \in renewing
  /\ last' = last + 1
  /\ accepted' = accepted \cup {<<f, last + 1>>}
  /\ renewing' = renewing \ {f}

\* Logout, revocation, expiry, a removed account or a failed refresh.
Close ==
  /\ accepted' \subseteq accepted
  /\ renewing' \subseteq renewing
  /\ UNCHANGED last

Next ==
  \/ Open
  \/ \E p \in accepted : Spend(p[1], p[2])
  \/ \E f \in renewing : Replace(f)
  \/ Close

Spec == Init /\ [][Next]_lineage

\* A family has at most one accepted token, none while it is renewing.
SingleUse ==
  /\ \A p, q \in accepted : p[1] = q[1] => p[2] = q[2]
  /\ \A p \in accepted : p[1] \notin renewing

=============================================================================
