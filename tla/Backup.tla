------------------------------- MODULE Backup -------------------------------
(***************************************************************************)
(* The backup container's loop (ops/pg-backup.sh): dump under a .part      *)
(* name, rename, prune, sleep.  The container may stop anywhere and starts *)
(* again with a dump.                                                      *)
(***************************************************************************)
EXTENDS Integers, FiniteSets

CONSTANTS
  Retention,  \* BACKUP_RETENTION_DAYS
  MaxDays     \* bound: days that pass

ASSUME BackupAssumption == Retention \in Nat /\ MaxDays \in Nat

VARIABLES
  day,     \* the date
  files,   \* what BACKUP_DIR holds
  loop,    \* where the script is, and whether its dump is consistent
  taken,   \* days with a renamed dump, a history variable
  stuck    \* a rename failed, a history variable

backupVars == <<day, files, loop, taken, stuck>>

File == [at : Nat, name : {"part", "dump"}, complete : BOOLEAN, whole : BOOLEAN]

BackupTypeOK ==
  /\ day \in 0..MaxDays
  /\ files \subseteq File
  /\ loop \in [phase : {"up", "dump", "move", "prune", "sleep", "down"}, whole : BOOLEAN]
  /\ taken \subseteq 0..day
  /\ stuck \in BOOLEAN

BackupInit ==
  /\ day = 0 /\ files = {} /\ taken = {} /\ stuck = FALSE
  /\ loop = [phase |-> "up", whole |-> TRUE]

Part(complete) == [at |-> day, name |-> "part", complete |-> complete, whole |-> loop.whole]
Final == [at |-> day, name |-> "dump", complete |-> TRUE, whole |-> loop.whole]
Goto(phase) == loop' = [loop EXCEPT !.phase = phase]

\* pg_dump reads one snapshot.  Mutant: it writes under the final name.
StartDump_Final(whole) ==
  /\ loop.phase = "up"
  /\ loop' = [phase |-> "dump", whole |-> whole]
  /\ files' = files \cup {[at |-> day, name |-> "dump", complete |-> FALSE, whole |-> whole]}
  /\ UNCHANGED <<day, taken, stuck>>
StartDump(whole) ==
  /\ loop.phase = "up"
  /\ loop' = [phase |-> "dump", whole |-> whole]
  /\ files' = files \cup {[at |-> day, name |-> "part", complete |-> FALSE, whole |-> whole]}
  /\ UNCHANGED <<day, taken, stuck>>

DumpEnds ==
  /\ loop.phase = "dump"
  /\ files' = (files \ {Part(FALSE)}) \cup {Part(TRUE)}
  /\ Goto("move")
  /\ UNCHANGED <<day, taken, stuck>>

\* Mutant: pruning after a failure too.
DumpFails_Prunes ==
  /\ loop.phase = "dump"
  /\ files' = files \ {Part(FALSE)}
  /\ Goto("prune")
  /\ UNCHANGED <<day, taken, stuck>>
DumpFails ==
  /\ loop.phase = "dump"
  /\ files' = files \ {Part(FALSE)}
  /\ Goto("sleep")
  /\ UNCHANGED <<day, taken, stuck>>

Move ==
  /\ loop.phase = "move"
  /\ files' = (files \ {Part(TRUE)}) \cup {Final}
  /\ taken' = taken \cup {day}
  /\ Goto("prune")
  /\ UNCHANGED <<day, stuck>>

\* set -u without set -e: the script goes on to prune.
MoveFails ==
  /\ loop.phase = "move"
  /\ stuck' = TRUE
  /\ Goto("prune")
  /\ UNCHANGED <<day, files, taken>>

\* find -mtime +N: more than N whole days.  Mutant: N days or more.
TooOld_ByOne(f) == f.name = "dump" /\ day - f.at >= Retention
TooOld(f) == f.name = "dump" /\ day - f.at > Retention

Prune ==
  /\ loop.phase = "prune"
  /\ files' = {f \in files : ~TooOld(f)}
  /\ Goto("sleep")
  /\ UNCHANGED <<day, taken, stuck>>

\* BACKUP_INTERVAL_SECONDS is a day; a restart dumps again at once.
Wake ==
  /\ loop.phase = "sleep"
  /\ day < MaxDays /\ day' = day + 1
  /\ Goto("up")
  /\ UNCHANGED <<files, taken, stuck>>

Stop ==
  /\ loop.phase # "down"
  /\ Goto("down")
  /\ UNCHANGED <<day, files, taken, stuck>>

StaysDown ==
  /\ loop.phase = "down"
  /\ day < MaxDays /\ day' = day + 1
  /\ UNCHANGED <<files, loop, taken, stuck>>

Restart ==
  /\ loop.phase = "down"
  /\ Goto("up")
  /\ UNCHANGED <<day, files, taken, stuck>>

BackupNext ==
  \/ \E whole \in BOOLEAN : StartDump(whole)
  \/ DumpEnds \/ DumpFails \/ Move \/ MoveFails \/ Prune
  \/ Wake \/ Stop \/ StaysDown \/ Restart

BackupSpec == BackupInit /\ [][BackupNext]_backupVars

---------------------------------------------------------------------------
Dumps == {f \in files : f.name = "dump"}

\* "Pruned only after a successful dump" (pg-backup.sh:46): once there is a
\* backup there always is one, however many dumps fail and however long the
\* container is down, unless a rename failed: the script prunes after that too.
LastGoodStays == taken # {} /\ ~stuck => Dumps # {}

\* A dump is kept for the days the retention says.
RecentDumpsKept == \A d \in taken : day - d <= Retention => \E f \in Dumps : f.at = d

\* A dump interrupted halfway is never taken for a complete one
\* (pg-backup.sh:35-37).
DumpsComplete == \A f \in Dumps : f.complete

=============================================================================
