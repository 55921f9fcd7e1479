------------------------------ MODULE DemoSeed ------------------------------
(***************************************************************************)
(* The demo data script (prisma/seed-demo.ts) against a database the API   *)
(* keeps writing to.  No transaction spans its statements and it may stop  *)
(* between any two of them.                                                *)
(***************************************************************************)
EXTENDS MasterData, Integers, Sequences, SequencesExt

VARIABLES
  seed,     \* the script: its phase and how far it is
  leftover, \* rows of an earlier run: none, kept, or touched by API deletes
  raced     \* the API created rows since this wipe began, a history variable

seedVars == <<rows, seed, leftover, raced>>

WipeOrder_RegionEarly == <<"item", "receipt", "forecastRun", "cashier", "branch", "city", "cost",
  "region", "price", "product", "brand", "subcategory", "category", "customer">>
WipeOrder_BrandFirst == <<"item", "receipt", "forecastRun", "cashier", "customer", "cost", "price",
  "brand", "product", "subcategory", "category", "branch", "city", "region">>
WipeOrder == <<"item", "receipt", "forecastRun", "cashier", "customer", "cost", "price",
  "product", "brand", "subcategory", "category", "branch", "city", "region">>

\* Each part loops over its tables: a later row of an earlier table changes
\* nothing here.
SeedGeography == <<"region", "city", "branch", "cashier">>
SeedCatalog   == <<"category", "subcategory", "brand", "product", "price", "cost">>
SeedCustomers == <<"customer">>
SeedSales     == <<"receipt", "item">>
SeedOrder == SeedGeography \o SeedCatalog \o SeedCustomers \o SeedSales

Markers == {"receipt", "product", "region"}

Stopped == [phase |-> "idle", force |-> FALSE, counted |-> {}, found |-> FALSE, at |-> 1]

SeedTypeOK ==
  /\ rows \subseteq Tables
  /\ seed \in [phase : {"idle", "count", "wipe", "create"}, force : BOOLEAN,
               counted : SUBSET Markers, found : BOOLEAN, at : 1..15]
  /\ seed.phase = "idle" => seed = Stopped
  /\ leftover \in {"none", "kept", "touched"} /\ raced \in BOOLEAN

SeedInit ==
  /\ rows \in {{}, {"region", "forecastRun"}} /\ seed = Stopped
  /\ leftover = "none" /\ raced = FALSE

Begin(force) ==
  /\ seed.phase = "idle"
  /\ seed' = [Stopped EXCEPT !.phase = "count", !.force = force]
  /\ UNCHANGED <<rows, leftover, raced>>

\* isEmpty: three counts run side by side, each sees its own moment.
CountTable(t) ==
  /\ seed.phase = "count" /\ t \in Markers \ seed.counted
  /\ seed' = [seed EXCEPT !.counted = @ \cup {t}, !.found = @ \/ t \in rows]
  /\ UNCHANGED <<rows, leftover, raced>>

Decide ==
  /\ seed.phase = "count" /\ seed.counted = Markers
  /\ \/ ~seed.found /\ seed' = [seed EXCEPT !.phase = "create"]
     \/ seed.found /\ ~seed.force /\ seed' = Stopped
     \/ seed.found /\ seed.force /\ seed' = [seed EXCEPT !.phase = "wipe"]
  /\ UNCHANGED <<rows, leftover, raced>>

WipeTable ==
  /\ seed.phase = "wipe" /\ CanEmpty(WipeOrder[seed.at])
  /\ rows' = rows \ {WipeOrder[seed.at]}
  /\ IF seed.at < Len(WipeOrder)
     THEN seed' = [seed EXCEPT !.at = @ + 1] /\ UNCHANGED <<leftover, raced>>
     ELSE seed' = [seed EXCEPT !.phase = "create", !.at = 1] /\ leftover' = "none" /\ raced' = FALSE

SeedTable ==
  /\ seed.phase = "create" /\ CanInsert(SeedOrder[seed.at])
  /\ rows' = rows \cup {SeedOrder[seed.at]}
  /\ seed' = IF seed.at < Len(SeedOrder) THEN [seed EXCEPT !.at = @ + 1] ELSE Stopped
  /\ leftover' = IF leftover = "none" THEN "kept" ELSE leftover
  /\ UNCHANGED raced

\* Killed, disconnected, or a constraint is violated.
SeedStops ==
  /\ seed.phase # "idle"
  /\ seed' = Stopped /\ raced' = FALSE
  /\ UNCHANGED <<rows, leftover>>

ApiWrites ==
  /\ \/ \E t \in ApiTables : ApiCreate(t) /\ raced' = (seed.phase = "wipe") /\ UNCHANGED leftover
     \/ \E t \in ApiTables :
          /\ ApiEmpty(t)
          /\ leftover' = IF leftover = "kept" /\ t \in Markers THEN "touched" ELSE leftover
          /\ UNCHANGED raced
  /\ UNCHANGED seed

SeedNext ==
  \/ \E force \in BOOLEAN : Begin(force)
  \/ \E t \in Markers : CountTable(t)
  \/ Decide \/ WipeTable \/ SeedTable \/ SeedStops
  \/ ApiWrites

---------------------------------------------------------------------------
\* "Child-first, so foreign keys never block the delete" (seed-demo.ts:250):
\* they block one only when the API created a row since the wipe began.
WipeBlockedExplained ==
  seed.phase = "wipe" /\ ~CanEmpty(WipeOrder[seed.at]) => raced

\* The script never adds to what an earlier, interrupted run left: the first
\* table it fills and the last it wipes is one it counts.  Only after the API
\* deleted the rows it counts may it start over the others.
SeedStartsClean == seed.phase = "create" /\ seed.at = 1 => leftover # "kept"

=============================================================================
