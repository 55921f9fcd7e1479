---------------------------- MODULE Maintenance ----------------------------
(***************************************************************************)
(* What runs beside the API on its database: the demo data script and the  *)
(* backup loop.                                                            *)
(***************************************************************************)
EXTENDS DemoSeed, Backup

vars == <<seedVars, backupVars>>

Init == SeedInit /\ BackupInit

\* A dump holds the rows of the moment it began.
Next ==
  \/ SeedNext /\ UNCHANGED backupVars
  \/ StartDump(Whole) /\ UNCHANGED seedVars
  \/ /\ DumpEnds \/ DumpFails \/ Move \/ MoveFails \/ Prune
        \/ Wake \/ Stop \/ StaysDown \/ Restart
     /\ UNCHANGED seedVars

Spec == Init /\ [][Next]_vars

TypeOK == SeedTypeOK /\ BackupTypeOK

\* A backup taken while the tables are wiped or filled can be restored: what
\* it holds satisfies every foreign key.
DumpsRestorable == \A f \in Dumps : f.whole

=============================================================================
