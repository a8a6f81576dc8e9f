----------------------------- MODULE SchemaInit -----------------------------
(***************************************************************************)
(* ResponseStore.ensure_schema: the one-time creation of the tables, by    *)
(* several processes on one database.  On Postgres the tables are created  *)
(* in a transaction, under a session advisory lock that is taken and given *)
(* back INSIDE it; on SQLite there is neither lock nor transaction around  *)
(* the DDL.  A process that finds VR_DB_SCHEMA_READY set takes its word.   *)
(***************************************************************************)
EXTENDS Host, Naturals

VARIABLES
  dialect,    \* db_dialect of the runtime configuration
  setup,      \* where each process is in ensure_schema
  locker,     \* the session that holds the advisory lock
  creator,    \* the transaction that has created tables and not committed
  committed,  \* the tables exist for everyone
  unheard     \* the processes whose failure to create tables was swallowed

schemaVars == <<dialect, setup, locker, creator, committed, unheard>>

Dialect == {"postgresql", "sqlite"}

SchemaInit ==
  /\ dialect \in Dialect
  /\ setup = [p \in Proc |-> "idle"]
  /\ locker = NoProc
  /\ creator = NoProc
  /\ committed \in BOOLEAN
  /\ unheard = {}

Goto(p, place) == setup' = [setup EXCEPT ![p] = place]

FreeIf(holder, p) == IF holder = p THEN NoProc ELSE holder

(* The session of p is closed (the pool keeps no connection): its advisory *)
(* lock is released and what it has not committed is rolled back.          *)
CloseSession(p) ==
  /\ locker' = FreeIf(locker, p)
  /\ creator' = FreeIf(creator, p)

(* A process marked by its environment is ready.  Several workers on SQLite*)
(* are refused; otherwise the transaction begins, on Postgres with the wait*)
(* for the lock.                                                           *)
EnsureSchema(p, workers, marked) ==
  /\ setup[p] = "idle"
  /\ \/ marked /\ Goto(p, "ready")
     \/ ~marked /\ dialect = "sqlite" /\ workers > 1 /\ Goto(p, "error")
     \/ ~marked /\ dialect = "sqlite" /\ workers = 1 /\ Goto(p, "checking")
     \/ ~marked /\ dialect = "postgresql" /\ Goto(p, "polling")
  /\ UNCHANGED <<dialect, locker, creator, committed, unheard>>

(* SELECT pg_try_advisory_lock, polled until it succeeds ...               *)
TryLock(p) ==
  /\ setup[p] = "polling"
  /\ locker = NoProc
  /\ locker' = p
  /\ Goto(p, "checking")
  /\ UNCHANGED <<dialect, creator, committed, unheard>>

(* ... or the deadline passes.                                             *)
LockTimeout(p) ==
  /\ setup[p] = "polling"
  /\ locker # NoProc
  /\ CloseSession(p)
  /\ Goto(p, "error")
  /\ UNCHANGED <<dialect, committed, unheard>>

(* What follows the tables: the unlock on Postgres, the commit on SQLite.   *)
AfterTables == IF dialect = "sqlite" THEN "unlocked" ELSE "created"

(* create_all first asks which tables exist.  It does not see those of a   *)
(* transaction that has not committed.                                     *)
CheckTables(p) ==
  /\ setup[p] = "checking"
  /\ Goto(p, IF committed THEN AfterTables ELSE "creating")
  /\ UNCHANGED <<dialect, locker, creator, committed, unheard>>

(* CREATE TABLE.  On Postgres it waits for another transaction that has    *)
(* created the same table, and is a duplicate if that one commits; it may  *)
(* also fail for a reason of its own.  The error aborts the transaction.   *)
(* SQLite executes DDL at once.                                            *)
CreateTables(p) ==
  /\ setup[p] = "creating"
  /\ creator = NoProc
  /\ \/ /\ ~committed
        /\ IF dialect = "sqlite"
             THEN committed' = TRUE /\ creator' = creator
             ELSE committed' = committed /\ creator' = p
        /\ Goto(p, AfterTables)
     \/ /\ Goto(p, IF dialect = "sqlite" THEN "error" ELSE "aborted")
        /\ UNCHANGED <<creator, committed>>
  /\ UNCHANGED <<dialect, locker, unheard>>

(* The end of postgres_advisory_lock.  In an aborted transaction the       *)
(* unlock fails as well, and the return that swallows its error swallows   *)
(* the error of create_all with it; the lock stays until the session ends. *)
Unlock(p) ==
  /\ setup[p] \in {"created", "aborted"}
  /\ IF setup[p] = "created"
       THEN locker' = FreeIf(locker, p) /\ unheard' = unheard
       ELSE locker' = locker /\ unheard' = unheard \cup {p}
  /\ Goto(p, "unlocked")
  /\ UNCHANGED <<dialect, creator, committed>>

CloseUncommitted(p) ==
  /\ setup[p] = "unlocked"
  /\ CloseSession(p)
  /\ Goto(p, "ready")
  /\ UNCHANGED <<dialect, committed, unheard>>

(* The end of engine.begin().  The commit of an aborted transaction is a   *)
(* rollback and no error; a commit may fail with the connection.           *)
Commit(p) ==
  /\ setup[p] = "unlocked"
  /\ CloseSession(p)
  /\ \/ committed' = (committed \/ creator = p) /\ Goto(p, "ready")
     \/ committed' = committed /\ Goto(p, "error")
  /\ UNCHANGED <<dialect, unheard>>

(* The process ends, wherever it is.                                       *)
SetupCut(p) ==
  /\ CloseSession(p)
  /\ Goto(p, IF setup[p] = "ready" THEN "ready" ELSE "error")
  /\ UNCHANGED <<dialect, committed, unheard>>

SetupStep(p) ==
  \/ TryLock(p)
  \/ LockTimeout(p)
  \/ CheckTables(p)
  \/ CreateTables(p)
  \/ Unlock(p)
  \/ Commit(p)

=============================================================================
