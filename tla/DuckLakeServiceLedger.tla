----------------------- MODULE DuckLakeServiceLedger -----------------------
(* The owner service implements the import ledger: its row is the outcome,   *)
(* the data files registered in DuckLake are what was added.                  *)
EXTENDS DuckLakeService

Outcome ==
  [i \in Import |->
     CASE imports[i].status = "absent"  -> "none"
       [] imports[i].status = "running" -> "pending"
       [] OTHER -> imports[i].status]

Registered ==
  {[import |-> r.import, table |-> r.table, content |-> r.content] : r \in lake}

Ledger == INSTANCE ImportLedger WITH outcome <- Outcome, registered <- Registered

\* Through locks, retries, crashes and recovery, clients see nothing but the
\* ledger: one outcome per import, true of what the table holds, and contents
\* added at once and once only (README, Parquet import API).
ImplementsLedger == Ledger!Spec
=============================================================================
