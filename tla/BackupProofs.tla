---------------------------- MODULE BackupProofs ----------------------------
(***************************************************************************)
(* Theorems about Backup and, beside it on the same database, the demo data *)
(* script: what the loop keeps for every retention, and what the script and *)
(* the dumps keep whichever tables the API changes and whenever it does.   *)
(***************************************************************************)
EXTENDS Maintenance, SequenceTheorems, TLAPS

\* What the files are between two steps of the script.  The newest dump is
\* as recent as the newest day a dump was taken, and pruning follows either a
\* rename of the same day or one that failed.
BackupInv ==
  /\ BackupTypeOK
  /\ \A f \in files : f.at <= day
  /\ \A f \in files : f.name = "dump" => f.at \in taken /\ f.complete
  /\ \A d \in taken : day - d <= Retention => \E f \in files : f.name = "dump" /\ f.at = d
  /\ taken # {} /\ ~stuck => \E f \in files : f.name = "dump"
  /\ loop.phase = "prune" /\ ~stuck => day \in taken

LEMMA InvInit == BackupInit => BackupInv
  <1> SUFFICES ASSUME BackupInit PROVE BackupInv OBVIOUS
  <1>1. /\ day = 0 /\ files = {} /\ taken = {} /\ stuck = FALSE
        /\ loop = [phase |-> "up", whole |-> TRUE]
    BY DEF BackupInit
  <1>2. BackupTypeOK
    <2>1. day \in 0..MaxDays /\ taken \subseteq 0..day BY <1>1, BackupAssumption
    <2>2. loop \in [phase : {"up", "dump", "move", "prune", "sleep", "down"}, whole : BOOLEAN]
      BY <1>1
    <2>3. QED BY <1>1, <2>1, <2>2 DEF BackupTypeOK
  <1>3. QED BY <1>1, <1>2 DEF BackupInv

LEMMA InvStart ==
  ASSUME BackupInv, NEW whole \in BOOLEAN, StartDump(whole)
  PROVE  BackupInv'
  <1> DEFINE new == [at |-> day, name |-> "part", complete |-> FALSE, whole |-> whole]
  <1>1. new \in File BY BackupAssumption DEF BackupInv, BackupTypeOK, File
  <1>2. files' = files \cup {new} /\ UNCHANGED <<day, taken, stuck>>
    BY DEF StartDump
  <1>3. loop' = [phase |-> "dump", whole |-> whole] BY DEF StartDump
  <1>4. new.at = day /\ new.name # "dump" OBVIOUS
  <1> HIDE DEF new
  <1>5. QED BY <1>1, <1>2, <1>3, <1>4, BackupAssumption DEF BackupInv, BackupTypeOK

LEMMA PartsAndFinal ==
  ASSUME BackupInv, NEW complete \in BOOLEAN
  PROVE  /\ Part(complete) \in File /\ Part(complete).at = day /\ Part(complete).name = "part"
         /\ Final \in File /\ Final.at = day /\ Final.name = "dump" /\ Final.complete
  BY BackupAssumption DEF BackupInv, BackupTypeOK, Part, Final, File

LEMMA InvMove == ASSUME BackupInv, Move PROVE BackupInv'
  <1>1. /\ files' = (files \ {Part(TRUE)}) \cup {Final} /\ taken' = taken \cup {day}
        /\ loop' = [loop EXCEPT !.phase = "prune"] /\ UNCHANGED <<day, stuck>>
    BY DEF Move, Goto
  <1>2. /\ Part(TRUE).name = "part"
        /\ Final \in File /\ Final.at = day /\ Final.name = "dump" /\ Final.complete
    BY PartsAndFinal
  <1>3. day \in 0..day BY BackupAssumption DEF BackupInv, BackupTypeOK
  <1>4. BackupTypeOK'
    BY <1>1, <1>2, <1>3 DEF BackupInv, BackupTypeOK
  <1>5. \A f \in files : f.name = "dump" => f \in files'
    BY <1>1, <1>2
  <1>6. \A f \in files' : f \in files \/ f = Final BY <1>1
  <1>7. Final \in files' /\ taken \subseteq taken' /\ day \in taken' BY <1>1
  <1>8. \A f \in files' : f.at <= day'
    <2>1. day' = day /\ day <= day
      BY <1>1, BackupAssumption DEF BackupInv, BackupTypeOK
    <2>2. QED BY <1>2, <1>6, <2>1 DEF BackupInv
  <1>9. \A f \in files' : f.name = "dump" => f.at \in taken' /\ f.complete
    BY <1>2, <1>6, <1>7 DEF BackupInv
  <1>10. \A d \in taken' : day' - d <= Retention =>
           \E f \in files' : f.name = "dump" /\ f.at = d
    BY <1>1, <1>2, <1>5, <1>7 DEF BackupInv
  <1>11. QED BY <1>1, <1>2, <1>4, <1>7, <1>8, <1>9, <1>10 DEF BackupInv

LEMMA InvPrune == ASSUME BackupInv, Prune PROVE BackupInv'
  <1>1. /\ files' = {f \in files : ~TooOld(f)}
        /\ loop' = [loop EXCEPT !.phase = "sleep"] /\ UNCHANGED <<day, taken, stuck>>
        /\ loop.phase = "prune"
    BY DEF Prune, Goto
  <1>2. BackupTypeOK' BY <1>1 DEF BackupInv, BackupTypeOK
  <1>3. \A d \in taken : day - d <= Retention =>
          \E f \in files' : f.name = "dump" /\ f.at = d
    BY <1>1, BackupAssumption DEF BackupInv, BackupTypeOK, TooOld, File
  <1>4. ~stuck => \E f \in files' : f.name = "dump"
    <2>1. ~stuck => day \in taken BY <1>1 DEF BackupInv
    <2>2. day - day <= Retention
      BY BackupAssumption DEF BackupInv, BackupTypeOK
    <2>3. QED BY <2>1, <2>2, <1>3
  <1>5. QED BY <1>1, <1>2, <1>3, <1>4 DEF BackupInv

LEMMA InvDump ==
  ASSUME BackupInv, DumpEnds \/ DumpFails
  PROVE  BackupInv'
  <1>1. /\ files' = (files \ {Part(FALSE)}) \cup {Part(TRUE)} \/ files' = files \ {Part(FALSE)}
        /\ UNCHANGED <<day, taken, stuck>>
        /\ \/ loop' = [loop EXCEPT !.phase = "move"]
           \/ loop' = [loop EXCEPT !.phase = "sleep"]
    BY DEF DumpEnds, DumpFails, Goto
  <1>2. /\ Part(TRUE) \in File /\ Part(TRUE).at = day /\ Part(TRUE).name = "part"
        /\ Part(FALSE).name = "part"
    BY PartsAndFinal
  <1>3. BackupTypeOK' BY <1>1, <1>2 DEF BackupInv, BackupTypeOK
  <1>4. \A f \in files : f.name = "dump" => f \in files' BY <1>1, <1>2
  <1>5. \A f \in files' : f \in files \/ f = Part(TRUE) BY <1>1
  <1>6. loop'.phase # "prune" BY <1>1 DEF BackupInv, BackupTypeOK
  <1>7. day <= day BY BackupAssumption DEF BackupInv, BackupTypeOK
  <1>8. QED BY <1>1, <1>2, <1>3, <1>4, <1>5, <1>6, <1>7 DEF BackupInv

\* A step that touches neither the files nor the record of them, and passes
\* at most a day outside the prune.
LEMMA InvQuiet ==
  ASSUME BackupInv, MoveFails \/ Wake \/ Stop \/ StaysDown \/ Restart
  PROVE  BackupInv'
  <1> USE BackupAssumption
  <1>1. CASE MoveFails BY <1>1 DEF MoveFails, Goto, BackupInv, BackupTypeOK
  <1>2. CASE Stop \/ Restart
    BY <1>2 DEF Stop, Restart, Goto, BackupInv, BackupTypeOK
  <1>3. CASE Wake \/ StaysDown
    <2>1. /\ day' = day + 1 /\ day' \in 0..MaxDays /\ UNCHANGED <<files, taken, stuck>>
          /\ loop' \in [phase : {"up", "down"}, whole : BOOLEAN]
      BY <1>3 DEF Wake, StaysDown, Goto, BackupInv, BackupTypeOK
    <2>2. \A d \in taken : day' - d <= Retention => day - d <= Retention
      BY <2>1 DEF BackupInv, BackupTypeOK
    <2>3. \A f \in files : f.at <= day'
      BY <2>1 DEF BackupInv, BackupTypeOK, File
    <2>4. BackupTypeOK' BY <2>1 DEF BackupInv, BackupTypeOK
    <2>5. QED BY <2>1, <2>2, <2>3, <2>4 DEF BackupInv
  <1>4. QED BY <1>1, <1>2, <1>3

\* The files, the script and the record of its dumps keep their types and the
\* relation the promises rest on (ops/pg-backup.sh).
THEOREM BackupInvariant == BackupSpec => []BackupInv
  <1>1. BackupInit => BackupInv BY InvInit
  <1>2. BackupInv /\ [BackupNext]_backupVars => BackupInv'
    <2> SUFFICES ASSUME BackupInv, [BackupNext]_backupVars PROVE BackupInv' OBVIOUS
    <2>1. CASE UNCHANGED backupVars
      BY <2>1 DEF backupVars, BackupInv, BackupTypeOK
    <2>2. QED
      BY <2>1, InvStart, InvDump, InvMove, InvPrune, InvQuiet DEF BackupNext
  <1>3. QED BY <1>1, <1>2, PTL DEF BackupSpec

\* For every retention and however often the container stops, a dump fails or
\* days pass: there is a backup once one was taken, unless a rename failed.
THEOREM LastGoodAlwaysStays == BackupSpec => []LastGoodStays
  <1>1. BackupInv => LastGoodStays BY DEF BackupInv, LastGoodStays, Dumps
  <1>2. QED BY <1>1, BackupInvariant, PTL

\* A day's dump is there as long as the retention says.
THEOREM RecentDumpsAlwaysKept == BackupSpec => []RecentDumpsKept
  <1>1. BackupInv => RecentDumpsKept BY DEF BackupInv, RecentDumpsKept, Dumps
  <1>2. QED BY <1>1, BackupInvariant, PTL

\* A file under a final name is a complete dump.
THEOREM DumpsAlwaysComplete == BackupSpec => []DumpsComplete
  <1>1. BackupInv => DumpsComplete BY DEF BackupInv, DumpsComplete, Dumps
  <1>2. QED BY <1>1, BackupInvariant, PTL

---------------------------------------------------------------------------
\* Maintenance: the script and the loop, each step one of either's.

\* A list of n tables that starts with the regions.
Lists(s, n) == s \in Seq(Tables) /\ Len(s) = n /\ s[1] = "region"

LEMMA Listed ==
  ASSUME NEW s, NEW n \in Nat, Lists(s, n)
  PROVE  \A i \in 1..n : s[i] \in Tables
  BY ElementOfSeq DEF Lists

LEMMA ListsJoin ==
  ASSUME NEW s, NEW m \in Nat \ {0}, Lists(s, m),
         NEW t \in Seq(Tables), NEW n, n = Len(t) + m
  PROVE  Lists(s \o t, n)
  <1>1. s \in Seq(Tables) /\ Len(s) = m /\ s[1] = "region" BY DEF Lists
  <1>2. /\ s \o t \in Seq(Tables) /\ Len(s \o t) = Len(s) + Len(t)
        /\ \A i \in 1..(Len(s) + Len(t)) :
             (s \o t)[i] = IF i <= Len(s) THEN s[i] ELSE t[i - Len(s)]
    BY <1>1, ConcatProperties
  <1>3. Len(t) \in Nat BY LenProperties
  <1>4. 1 \in 1..(Len(s) + Len(t)) /\ 1 <= Len(s) BY <1>1, <1>3
  <1>5. (s \o t)[1] = s[1] BY <1>2, <1>4
  <1>6. QED BY <1>1, <1>2, <1>3, <1>5 DEF Lists

\* The two orders of seed-demo.ts: the tables they name, and that a table is
\* wiped after every table that refers to it.
LEMMA Orders ==
  /\ Len(WipeOrder) = 14 /\ \A i \in 1..14 : WipeOrder[i] \in Tables
  /\ WipeOrder[14] = "region" /\ \A i \in 1..13 : WipeOrder[i] # "region"
  /\ Len(SeedOrder) = 13 /\ \A i \in 1..13 : SeedOrder[i] \in Tables
  /\ SeedOrder[1] = "region"
  <1>1. Len(WipeOrder) = 14 /\ \A i \in 1..14 : WipeOrder[i] \in Tables
    BY DEF WipeOrder, Tables
  <1>2. WipeOrder[14] = "region" /\ \A i \in 1..13 : WipeOrder[i] # "region"
    BY DEF WipeOrder
  <1>3. /\ SeedGeography \in Seq(Tables) /\ Len(SeedGeography) = 4 /\ SeedGeography[1] = "region"
        /\ SeedCatalog \in Seq(Tables) /\ Len(SeedCatalog) = 6
        /\ SeedCustomers \in Seq(Tables) /\ Len(SeedCustomers) = 1
        /\ SeedSales \in Seq(Tables) /\ Len(SeedSales) = 2
    BY DEF SeedGeography, SeedCatalog, SeedCustomers, SeedSales, Tables
  <1>4. Lists(SeedOrder, 13)
    <2>1. Lists(SeedGeography, 4) BY <1>3 DEF Lists
    <2>2. /\ 4 \in Nat \ {0} /\ 10 \in Nat \ {0} /\ 11 \in Nat \ {0}
          /\ 10 = Len(SeedCatalog) + 4 /\ 11 = Len(SeedCustomers) + 10
          /\ 13 = Len(SeedSales) + 11
      BY <1>3
    <2>3. Lists(SeedGeography \o SeedCatalog, 10) BY <1>3, <2>1, <2>2, ListsJoin, Zenon
    <2>4. Lists(SeedGeography \o SeedCatalog \o SeedCustomers, 11)
      BY <1>3, <2>2, <2>3, ListsJoin, Zenon
    <2>5. Lists(SeedGeography \o SeedCatalog \o SeedCustomers \o SeedSales, 13)
      BY <1>3, <2>2, <2>4, ListsJoin, Zenon
    <2>6. QED BY <2>5, Zenon DEF SeedOrder
  <1>5. Len(SeedOrder) = 13 /\ SeedOrder[1] = "region" /\ \A i \in 1..13 : SeedOrder[i] \in Tables
    BY <1>4, Listed DEF Lists
  <1>6. QED BY <1>1, <1>2, <1>5

LEMMA ParentsOf ==
  /\ Parents["region"] = {} /\ Parents["city"] = {"region"} /\ Parents["branch"] = {"city"}
  /\ Parents["category"] = {} /\ Parents["subcategory"] = {"category"}
  /\ Parents["brand"] = {"category"} /\ Parents["product"] = {"brand", "subcategory"}
  /\ Parents["price"] = {"product"} /\ Parents["cost"] = {"product", "region"}
  /\ Parents["customer"] = {} /\ Parents["cashier"] = {"branch"}
  /\ Parents["receipt"] = {"branch", "cashier", "customer"}
  /\ Parents["item"] = {"receipt", "product"} /\ Parents["forecastRun"] = {}
  BY DEF Parents, Tables, Region, City, Branch, Category, Subcategory, Brand, Product, Price,
         Cost, Customer, Cashier, Receipt, Item, ForecastRun

LEMMA ChildFirst ==
  ASSUME NEW i \in 1..14, NEW c \in Tables, WipeOrder[i] \in Parents[c]
  PROVE  \E j \in 1..(i - 1) : WipeOrder[j] = c
  BY ParentsOf DEF WipeOrder, Tables

\* A foreign key is satisfied before and after every insert and delete the
\* constraints let through.
LEMMA InsertKeepsWhole ==
  ASSUME Whole, NEW t \in Tables, CanInsert(t), rows' = rows \cup {t}
  PROVE  Whole'
  BY DEF Whole, CanInsert

LEMMA EmptyKeepsWhole ==
  ASSUME rows \subseteq Tables, Whole, NEW t \in Tables, CanEmpty(t), rows' = rows \ {t}
  PROVE  Whole'
  BY DEF Whole, CanEmpty, RefersTo

---------------------------------------------------------------------------
\* Where the script is.
Place ==
  /\ seed.phase = "count" => seed.at = 1
  /\ seed.phase = "wipe" => seed.at \in 1..14
  /\ seed.phase = "create" => seed.at \in 1..13

\* While the API created nothing, what the wipe has emptied stays empty.
WipedStays ==
  /\ raced => seed.phase = "wipe"
  /\ seed.phase = "wipe" /\ ~raced =>
       \A i \in 1..14 : i < seed.at => WipeOrder[i] \notin rows

\* What an earlier run left includes its regions until the API deletes rows
\* the script counts, so a count of the regions finds them.
LeftoverSeen ==
  /\ leftover = "kept" => "region" \in rows
  /\ seed.phase = "create" /\ seed.at > 1 => leftover # "none"
  /\ seed.phase = "count" /\ leftover = "kept" /\ "region" \in seed.counted => seed.found
  /\ SeedStartsClean

SeedInv == SeedTypeOK /\ Place /\ Whole /\ WipedStays /\ LeftoverSeen

LEMMA SeedInvInit == SeedInit => SeedInv
  <1> SUFFICES ASSUME SeedInit PROVE SeedInv OBVIOUS
  <1>1. /\ rows = {} \/ rows = {"region", "forecastRun"}
        /\ seed = Stopped /\ leftover = "none" /\ raced = FALSE
    BY DEF SeedInit
  <1>2. /\ Stopped.phase = "idle"
        /\ Stopped \in [phase : {"idle", "count", "wipe", "create"}, force : BOOLEAN,
                        counted : SUBSET Markers, found : BOOLEAN, at : 1..15]
    BY DEF Stopped
  <1>3. SeedTypeOK BY <1>1, <1>2 DEF SeedTypeOK, Tables
  <1>4. Whole BY <1>1, ParentsOf DEF Whole
  <1>5. Place /\ WipedStays /\ LeftoverSeen
    BY <1>1, <1>2 DEF Place, WipedStays, LeftoverSeen, SeedStartsClean
  <1>6. QED BY <1>3, <1>4, <1>5 DEF SeedInv


Script == [phase : {"idle", "count", "wipe", "create"}, force : BOOLEAN,
           counted : SUBSET Markers, found : BOOLEAN, at : 1..15]

LEMMA StoppedScript ==
  Stopped \in Script /\ Stopped.phase = "idle" /\ Stopped.counted = {} /\ Stopped.at = 1
  BY DEF Stopped, Script

\* The script stops: the API's rows of this wipe are no longer its concern.
LEMMA SeedInvStopped ==
  ASSUME SeedInv, seed' = Stopped, raced' = FALSE, UNCHANGED <<rows, leftover>>
  PROVE  SeedInv'
  <1>1. SeedTypeOK' BY StoppedScript DEF SeedInv, SeedTypeOK, Script
  <1>2. Whole' BY DEF SeedInv, Whole
  <1>3. Place' /\ WipedStays' /\ LeftoverSeen'
    BY StoppedScript DEF SeedInv, Place, WipedStays, LeftoverSeen, SeedStartsClean
  <1>4. QED BY <1>1, <1>2, <1>3 DEF SeedInv

\* It goes from one phase to the next without changing a table.
LEMMA SeedInvMoves ==
  ASSUME SeedInv, seed' \in Script, seed'.phase # "idle", UNCHANGED <<rows, leftover, raced>>,
         seed.phase # "wipe", seed'.at = 1,
         seed'.phase = "create" => leftover # "kept",
         seed'.phase = "count" /\ leftover = "kept" /\ "region" \in seed'.counted => seed'.found
  PROVE  SeedInv'
  <1>1. SeedTypeOK' BY DEF SeedInv, SeedTypeOK, Script
  <1>2. Whole' BY DEF SeedInv, Whole
  <1>3. Place' /\ WipedStays' BY DEF SeedInv, Place, WipedStays
  <1>4. LeftoverSeen' BY DEF SeedInv, LeftoverSeen, SeedStartsClean
  <1>5. QED BY <1>1, <1>2, <1>3, <1>4 DEF SeedInv

\* The steps of the script that change no table.
LEMMA SeedInvQuiet ==
  ASSUME SeedInv,
         \/ \E force \in BOOLEAN : Begin(force)
         \/ \E t \in Markers : CountTable(t)
         \/ Decide \/ SeedStops
  PROVE  SeedInv'
  <1>1. seed \in Script BY DEF SeedInv, SeedTypeOK, Script
  <1>2. CASE \E force \in BOOLEAN : Begin(force)
    <2>1. PICK force \in BOOLEAN : Begin(force) BY <1>2
    <2>2. seed' \in Script /\ seed'.phase = "count" /\ seed'.at = 1 /\ seed'.counted = {}
      BY <2>1, StoppedScript DEF Begin, Script
    <2>3. seed.phase = "idle" /\ UNCHANGED <<rows, leftover, raced>> BY <2>1 DEF Begin
    <2>4. QED BY <2>2, <2>3, SeedInvMoves
  <1>3. CASE \E t \in Markers : CountTable(t)
    <2>1. PICK t \in Markers : CountTable(t) BY <1>3
    <2>2. /\ seed' \in Script /\ seed'.phase = "count" /\ seed'.at = seed.at
          /\ seed'.counted = seed.counted \cup {t} /\ seed'.found = (seed.found \/ t \in rows)
      BY <1>1, <2>1 DEF CountTable, Script
    <2>3. seed.phase = "count" /\ UNCHANGED <<rows, leftover, raced>> BY <2>1 DEF CountTable
    <2>4. seed.at = 1 BY <2>3 DEF SeedInv, Place
    <2>5. leftover = "kept" /\ "region" \in seed'.counted => seed'.found
      BY <2>2, <2>3 DEF SeedInv, LeftoverSeen
    <2>6. QED BY <2>2, <2>3, <2>4, <2>5, SeedInvMoves
  <1>4. CASE Decide
    <2>1. /\ seed.phase = "count" /\ seed.counted = Markers /\ UNCHANGED <<rows, leftover, raced>>
      BY <1>4 DEF Decide
    <2>2. seed.at = 1 /\ raced = FALSE BY <2>1 DEF SeedInv, SeedTypeOK, Place, WipedStays
    <2>3. CASE seed' = Stopped BY <2>1, <2>2, <2>3, SeedInvStopped
    <2>4. CASE ~seed.found /\ seed' = [seed EXCEPT !.phase = "create"]
      <3>1. leftover # "kept" BY <2>1, <2>4 DEF SeedInv, LeftoverSeen, Markers
      <3>2. seed' \in Script /\ seed'.phase = "create" /\ seed'.at = 1
        BY <1>1, <2>2, <2>4 DEF Script
      <3>3. QED BY <2>1, <3>1, <3>2, SeedInvMoves
    <2>5. CASE seed' = [seed EXCEPT !.phase = "wipe"]
      <3>1. seed' \in Script /\ seed'.phase = "wipe" /\ seed'.at = 1
        BY <1>1, <2>2, <2>5 DEF Script
      <3>2. QED BY <2>1, <3>1, SeedInvMoves
    <2>6. QED BY <1>4, <2>3, <2>4, <2>5 DEF Decide
  <1>5. CASE SeedStops BY <1>5, SeedInvStopped DEF SeedStops
  <1>6. QED BY <1>2, <1>3, <1>4, <1>5

LEMMA SeedInvWipe == ASSUME SeedInv, WipeTable PROVE SeedInv'
  <1> DEFINE t == WipeOrder[seed.at]
  <1>1. seed \in Script /\ seed.phase = "wipe" /\ seed.at \in 1..14
    BY DEF SeedInv, SeedTypeOK, Script, Place, WipeTable
  <1>2. t \in Tables /\ Len(WipeOrder) = 14 BY <1>1, Orders
  <1>3. CanEmpty(t) /\ rows' = rows \ {t} BY DEF WipeTable
  <1>4. rows \subseteq Tables /\ Whole BY DEF SeedInv, SeedTypeOK
  <1>5. Whole' BY <1>2, <1>3, <1>4, EmptyKeepsWhole
  <1>6. CASE seed.at < 14
    <2>1. /\ seed' = [seed EXCEPT !.at = seed.at + 1] /\ UNCHANGED <<leftover, raced>>
      BY <1>2, <1>6 DEF WipeTable
    <2>2. /\ seed' \in Script /\ seed'.phase = "wipe"
          /\ seed'.at = seed.at + 1 /\ seed'.at \in 1..14
      BY <1>1, <1>6, <2>1 DEF Script
    <2>3. t # "region" BY <1>1, <1>6, Orders
    <2>4. SeedTypeOK' BY <1>3, <1>4, <2>1, <2>2 DEF SeedInv, SeedTypeOK, Script
    <2>5. Place' BY <2>2 DEF Place
    <2>6. WipedStays'
      <3>1. \A i \in 1..14 : i < seed.at + 1 => i < seed.at \/ i = seed.at BY <1>1
      <3>2. QED BY <1>1, <1>3, <2>1, <2>2, <3>1 DEF SeedInv, WipedStays
    <2>7. LeftoverSeen'
      BY <1>3, <2>1, <2>2, <2>3 DEF SeedInv, LeftoverSeen, SeedStartsClean
    <2>8. QED BY <1>5, <2>4, <2>5, <2>6, <2>7 DEF SeedInv
  <1>7. CASE ~(seed.at < 14)
    <2>1. /\ seed' = [seed EXCEPT !.phase = "create", !.at = 1]
          /\ leftover' = "none" /\ raced' = FALSE
      BY <1>2, <1>7 DEF WipeTable
    <2>2. seed' \in Script /\ seed'.phase = "create" /\ seed'.at = 1
      <3> DEFINE filling == [seed EXCEPT !.phase = "create"]
      <3>1. filling \in Script /\ filling.phase = "create" BY <1>1 DEF Script
      <3>2. seed' = [filling EXCEPT !.at = 1] BY <1>1, <2>1 DEF Script
      <3> HIDE DEF filling
      <3>3. QED BY <3>1, <3>2 DEF Script
    <2>3. SeedTypeOK' BY <1>3, <1>4, <2>1, <2>2 DEF SeedTypeOK, Script
    <2>4. Place' /\ WipedStays' /\ LeftoverSeen'
      BY <2>1, <2>2 DEF Place, WipedStays, LeftoverSeen, SeedStartsClean
    <2>5. QED BY <1>5, <2>3, <2>4 DEF SeedInv
  <1>8. QED BY <1>6, <1>7

LEMMA SeedInvCreate == ASSUME SeedInv, SeedTable PROVE SeedInv'
  <1> DEFINE t == SeedOrder[seed.at]
  <1>1. seed \in Script /\ seed.phase = "create" /\ seed.at \in 1..13
    BY DEF SeedInv, SeedTypeOK, Script, Place, SeedTable
  <1>2. t \in Tables /\ Len(SeedOrder) = 13 BY <1>1, Orders
  <1>3. CanInsert(t) /\ rows' = rows \cup {t} /\ raced' = raced BY DEF SeedTable
  <1>4. leftover' = IF leftover = "none" THEN "kept" ELSE leftover BY DEF SeedTable
  <1>5. rows \subseteq Tables /\ leftover \in {"none", "kept", "touched"} BY DEF SeedInv, SeedTypeOK
  <1>6. Whole' BY <1>2, <1>3, InsertKeepsWhole DEF SeedInv
  <1>7. raced = FALSE BY <1>1 DEF SeedInv, SeedTypeOK, WipedStays
  <1>8. leftover' = "kept" => "region" \in rows'
    <2>1. seed.at = 1 => t = "region" BY Orders
    <2>2. seed.at > 1 => leftover # "none" BY <1>1 DEF SeedInv, LeftoverSeen
    <2>3. seed.at = 1 \/ seed.at > 1 BY <1>1
    <2>4. QED BY <1>3, <1>4, <2>1, <2>2, <2>3 DEF SeedInv, LeftoverSeen
  <1>9. /\ seed' \in Script
        /\ \/ seed' = Stopped
           \/ seed'.phase = "create" /\ seed'.at = seed.at + 1 /\ seed'.at \in 2..13
    BY <1>1, <1>2, StoppedScript DEF SeedTable, Script
  <1>10. SeedTypeOK'
    BY <1>1, <1>2, <1>3, <1>4, <1>5, <1>9, StoppedScript DEF SeedInv, SeedTypeOK, Script
  <1>11. Place' /\ WipedStays'
    BY <1>3, <1>7, <1>9, StoppedScript DEF Place, WipedStays
  <1>12. LeftoverSeen'
    BY <1>4, <1>5, <1>8, <1>9, StoppedScript DEF LeftoverSeen, SeedStartsClean
  <1>13. QED BY <1>6, <1>10, <1>11, <1>12 DEF SeedInv

LEMMA SeedInvApi == ASSUME SeedInv, ApiWrites PROVE SeedInv'
  <1>1. seed' = seed /\ seed \in Script BY DEF ApiWrites, SeedInv, SeedTypeOK, Script
  <1>2. ApiTables \subseteq Tables BY ApiAssumption DEF Managed, Tables
  <1>3. rows \subseteq Tables /\ Whole BY DEF SeedInv, SeedTypeOK
  <1>4. CASE \E t \in ApiTables :
               ApiCreate(t) /\ raced' = (seed.phase = "wipe") /\ UNCHANGED leftover
    <2>1. PICK t \in ApiTables :
            ApiCreate(t) /\ raced' = (seed.phase = "wipe") /\ UNCHANGED leftover
      BY <1>4
    <2>2. t \in Tables /\ CanInsert(t) /\ rows' = rows \cup {t} BY <1>2, <2>1 DEF ApiCreate
    <2>3. Whole' BY <1>3, <2>2, InsertKeepsWhole
    <2>4. SeedTypeOK' BY <1>1, <1>3, <2>1, <2>2 DEF SeedInv, SeedTypeOK
    <2>5. Place' /\ WipedStays' BY <1>1, <2>1 DEF SeedInv, Place, WipedStays
    <2>6. LeftoverSeen' BY <1>1, <2>1, <2>2 DEF SeedInv, LeftoverSeen, SeedStartsClean
    <2>7. QED BY <2>3, <2>4, <2>5, <2>6 DEF SeedInv
  <1>5. CASE \E t \in ApiTables :
               /\ ApiEmpty(t)
               /\ leftover' = IF leftover = "kept" /\ t \in Markers THEN "touched" ELSE leftover
               /\ UNCHANGED raced
    <2>1. PICK t \in ApiTables :
               /\ ApiEmpty(t)
               /\ leftover' = IF leftover = "kept" /\ t \in Markers THEN "touched" ELSE leftover
               /\ UNCHANGED raced
      BY <1>5
    <2>2. t \in Tables /\ CanEmpty(t) /\ rows' = rows \ {t} BY <1>2, <2>1 DEF ApiEmpty
    <2>3. Whole' BY <1>3, <2>2, EmptyKeepsWhole
    <2>4. SeedTypeOK' BY <1>1, <1>3, <2>1, <2>2 DEF SeedInv, SeedTypeOK
    <2>5. Place' /\ WipedStays' BY <1>1, <2>1, <2>2 DEF SeedInv, Place, WipedStays
    <2>6. leftover' = "kept" => leftover = "kept" /\ t # "region" BY <2>1 DEF Markers
    <2>7. leftover' = "none" => leftover = "none" BY <2>1
    <2>8. LeftoverSeen'
      BY <1>1, <2>2, <2>6, <2>7 DEF SeedInv, LeftoverSeen, SeedStartsClean
    <2>9. QED BY <2>3, <2>4, <2>5, <2>8 DEF SeedInv
  <1>6. QED BY <1>4, <1>5 DEF ApiWrites

\* One step of what runs beside the API.
LEMMA SeedInvStep ==
  ASSUME SeedInv, [Next]_vars
  PROVE  SeedInv'
  <1>1. CASE SeedNext
    <2>1. CASE WipeTable BY <2>1, SeedInvWipe
    <2>2. CASE SeedTable BY <2>2, SeedInvCreate
    <2>3. CASE ApiWrites BY <2>3, SeedInvApi
    <2>4. QED BY <1>1, <2>1, <2>2, <2>3, SeedInvQuiet DEF SeedNext
  <1>2. CASE UNCHANGED seedVars
    BY <1>2 DEF seedVars, SeedInv, SeedTypeOK, Place, Whole, WipedStays, LeftoverSeen,
                SeedStartsClean
  <1>3. QED BY <1>1, <1>2 DEF Next, vars

\* The script of prisma/seed-demo.ts and the tables it shares with the API
\* keep their types, every foreign key, and the relations the promises of its
\* comments rest on, wherever it stops and whatever the API writes meanwhile.
THEOREM SeedInvariant == Spec => []SeedInv
  <1>1. Init => SeedInv BY SeedInvInit DEF Init
  <1>2. SeedInv /\ [Next]_vars => SeedInv' BY SeedInvStep
  <1>3. QED BY <1>1, <1>2, PTL DEF Spec

\* "Child-first, so foreign keys never block the delete": a delete of the wipe
\* fails only after the API created rows during it (seed-demo.ts).
THEOREM BlockedWipeAlwaysExplained == Spec => []WipeBlockedExplained
  <1>1. SeedInv => WipeBlockedExplained
    <2> SUFFICES ASSUME SeedInv, seed.phase = "wipe", ~CanEmpty(WipeOrder[seed.at]), ~raced
                 PROVE  FALSE
      BY DEF WipeBlockedExplained
    <2>1. seed.at \in 1..14 BY DEF SeedInv, Place
    <2>2. PICK c \in Tables : WipeOrder[seed.at] \in Parents[c] /\ c \in rows
      BY DEF CanEmpty, RefersTo
    <2>3. PICK j \in 1..(seed.at - 1) : WipeOrder[j] = c BY <2>1, <2>2, ChildFirst
    <2>4. j \in 1..14 /\ j < seed.at BY <2>1
    <2>5. QED BY <2>2, <2>3, <2>4 DEF SeedInv, WipedStays
  <1>2. QED BY <1>1, SeedInvariant, PTL

\* The script never fills tables in which an interrupted run left rows the API
\* has not deleted since (isEmpty in seed-demo.ts).
THEOREM SeedAlwaysStartsClean == Spec => []SeedStartsClean
  <1>1. SeedInv => SeedStartsClean BY DEF SeedInv, LeftoverSeen
  <1>2. QED BY <1>1, SeedInvariant, PTL

\* The loop beside the script is the loop alone: whatever the script and the
\* API do to the tables only decides what a dump holds.
THEOREM BackupRefined == Spec => BackupSpec
  <1>1. Init => BackupInit BY DEF Init
  <1>2. [Next]_vars => [BackupNext]_backupVars
    <2>1. Whole \in BOOLEAN BY DEF Whole
    <2>2. StartDump(Whole) => \E whole \in BOOLEAN : StartDump(whole) BY <2>1
    <2>3. QED BY <2>2 DEF Next, vars, BackupNext
  <1>3. QED BY <1>1, <1>2, PTL DEF Spec, BackupSpec

\* What the dumps hold, and what the one being taken does.
Restorable == loop.whole /\ \A f \in files : f.whole

LEMMA RestorableStep ==
  ASSUME BackupTypeOK, Whole, Restorable, [Next]_vars
  PROVE  Restorable'
  <1>1. loop.whole = TRUE BY DEF BackupTypeOK, Restorable
  <1>2. CASE StartDump(Whole)
    <2> DEFINE new == [at |-> day, name |-> "part", complete |-> FALSE, whole |-> Whole]
    <2>1. new.whole BY DEF Restorable
    <2>2. files' = files \cup {new} /\ loop'.whole BY <1>2 DEF StartDump
    <2> HIDE DEF new
    <2>3. QED BY <2>1, <2>2 DEF Restorable
  <1>3. CASE DumpEnds \/ Move
    <2>1. Part(TRUE).whole /\ Final.whole BY <1>1 DEF Part, Final
    <2>2. \A f \in files' : f \in files \/ f = Part(TRUE) \/ f = Final
      BY <1>3 DEF DumpEnds, Move
    <2>3. loop'.whole BY <1>1, <1>3 DEF DumpEnds, Move, Goto, BackupTypeOK
    <2>4. QED BY <2>1, <2>2, <2>3 DEF Restorable
  <1>4. CASE DumpFails \/ MoveFails \/ Prune \/ Wake \/ Stop \/ StaysDown \/ Restart
    <2>1. files' \subseteq files
      BY <1>4 DEF DumpFails, MoveFails, Prune, Wake, Stop, StaysDown, Restart
    <2>2. loop'.whole
      BY <1>1, <1>4 DEF DumpFails, MoveFails, Prune, Wake, Stop, StaysDown, Restart, Goto,
                        BackupTypeOK
    <2>3. QED BY <2>1, <2>2 DEF Restorable
  <1>5. CASE UNCHANGED backupVars BY <1>5 DEF backupVars, Restorable
  <1>6. QED BY <1>2, <1>3, <1>4, <1>5 DEF Next, vars

\* The backup holds rows that satisfy every foreign key, at whatever moment of
\* a wipe or a seeding it was taken (pg-backup.sh, seed-demo.ts).
THEOREM DumpsAlwaysRestorable == Spec => []DumpsRestorable
  <1>1. Init => Restorable BY DEF Init, BackupInit, Restorable
  <1>2. BackupInv /\ SeedInv /\ Restorable /\ [Next]_vars => Restorable'
    BY RestorableStep DEF BackupInv, SeedInv
  <1>3. Restorable => DumpsRestorable BY DEF Restorable, DumpsRestorable, Dumps
  <1>4. QED BY <1>1, <1>2, <1>3, BackupRefined, BackupInvariant, SeedInvariant, PTL DEF Spec

\* The loop's promises beside the script, with the types of both.
THEOREM MaintenanceHolds ==
  Spec => [](TypeOK /\ LastGoodStays /\ RecentDumpsKept /\ DumpsComplete)
  <1>1. BackupInv /\ SeedInv => TypeOK BY DEF BackupInv, SeedInv, TypeOK
  <1>2. QED
    BY <1>1, BackupRefined, BackupInvariant, SeedInvariant, LastGoodAlwaysStays,
       RecentDumpsAlwaysKept, DumpsAlwaysComplete, PTL

=============================================================================
