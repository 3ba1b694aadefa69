----------------------------- MODULE Migrations -----------------------------
(* EnsureAppSchema and runSQLMigrations (schema.go) on one database, run by  *)
(* every server at boot and by the tenant manager when it opens a dedicated  *)
(* database.  Several may run at once, each with the files of its release.   *)
(* Migrations are numbered in the order their names sort.                    *)
EXTENDS Naturals, FiniteSets

CONSTANTS
  Servers,       \* processes that boot on the database
  Release,       \* server -> number of migration files it ships
  Statements,    \* length of the statement list
  MaxCrashes     \* bound: boots that fail or are killed

ASSUME MigrationsAssumption ==
    /\ Release \in [Servers -> Nat] /\ Statements \in Nat /\ MaxCrashes \in Nat

VARIABLES
  schema,     \* migrations whose DDL is in the database
  ledger,     \* schema_migrations
  ensured,    \* statements of the list that have been executed
  boot,       \* per server: how far it is
  writing,    \* per server: the migration its open transaction runs, or 0
  crashes

migrationVars == <<schema, ledger, ensured, boot, writing, crashes>>

Down == [at |-> "down", applied |-> {}, next |-> 0, found |-> TRUE]
Files(s) == 1..Release[s]

(* A fresh database, or one that is older than the ledger and holds part of  *)
(* the schema.                                                               *)
MigrationsInit ==
    /\ schema \in {{}, {1}} /\ ledger = {} /\ ensured = {}
    /\ boot = [s \in Servers |-> Down] /\ writing = [s \in Servers |-> 0]
    /\ crashes = 0

Boots(s, r) == boot' = [boot EXCEPT ![s] = r]

-----------------------------------------------------------------------------
(* Without a migrations directory the boot goes on with a warning.  With     *)
(* one, the ledger is created if missing and read once.                      *)
ReadLedger(s) ==
    /\ boot[s].at = "down"
    /\ \/ Boots(s, [at |-> "migrate", applied |-> ledger, next |-> 1, found |-> TRUE])
       \/ Boots(s, [at |-> "ensure", applied |-> {}, next |-> 1, found |-> FALSE])
    /\ UNCHANGED <<schema, ledger, ensured, writing, crashes>>

SkipMigration(s) ==
    /\ boot[s].at = "migrate" /\ boot[s].next \in boot[s].applied /\ writing[s] = 0
    /\ boot' = [boot EXCEPT ![s].next = @ + 1]
    /\ UNCHANGED <<schema, ledger, ensured, writing, crashes>>

(* A transaction runs the file's statements and records it.  One that finds  *)
(* the file's objects or its record under another open transaction waits.    *)
BeginMigration(s) ==
    LET m == boot[s].next IN
    /\ boot[s].at = "migrate" /\ m \in Files(s) \ boot[s].applied /\ writing[s] = 0
    /\ \A o \in Servers : writing[o] # m
    /\ writing' = [writing EXCEPT ![s] = m]
    /\ UNCHANGED <<schema, ledger, ensured, boot, crashes>>

(* The DDL is idempotent; the record is not: a version recorded meanwhile is *)
(* a duplicate key, the transaction is undone and the boot fails.            *)
BootFails(s) ==
    /\ crashes < MaxCrashes /\ crashes' = crashes + 1
    /\ Boots(s, Down) /\ writing' = [writing EXCEPT ![s] = 0]
    /\ UNCHANGED <<schema, ledger, ensured>>
CommitMigration(s) ==
    /\ writing[s] # 0
    /\ IF writing[s] \in ledger THEN BootFails(s)
       ELSE /\ schema' = schema \cup {writing[s]} /\ ledger' = ledger \cup {writing[s]}
            /\ boot' = [boot EXCEPT ![s].next = @ + 1] /\ writing' = [writing EXCEPT ![s] = 0]
            /\ UNCHANGED <<ensured, crashes>>

(* A statement of a file fails for good (or the connection does).            *)
BrokenMigration(s) == writing[s] # 0 /\ BootFails(s)

EndMigrations(s) ==
    /\ boot[s].at = "migrate" /\ boot[s].next > Release[s]
    /\ Boots(s, [boot[s] EXCEPT !.at = "ensure", !.next = 1])
    /\ UNCHANGED <<schema, ledger, ensured, writing, crashes>>

runSQLMigrations(s) ==
    ReadLedger(s) \/ SkipMigration(s) \/ BeginMigration(s) \/ CommitMigration(s)
    \/ BrokenMigration(s) \/ EndMigrations(s)

(* As EnsureStatement, but a statement that fails is only logged.            *)
LogStatement(s) ==
    /\ boot[s].at = "ensure"
    /\ IF boot[s].next > Statements
       THEN Boots(s, [boot[s] EXCEPT !.at = "up"]) /\ UNCHANGED ensured
       ELSE /\ ensured' = IF 1 \in schema THEN ensured \cup {boot[s].next} ELSE ensured
            /\ boot' = [boot EXCEPT ![s].next = @ + 1]
    /\ UNCHANGED <<schema, ledger, writing, crashes>>

(* The statement list: each on its own, in order, all idempotent.  The first *)
(* ones alter tables of the first migration and fail without it.             *)
EnsureStatement(s) ==
    /\ boot[s].at = "ensure"
    /\ IF boot[s].next > Statements
       THEN Boots(s, [boot[s] EXCEPT !.at = "up"]) /\ UNCHANGED <<schema, ledger, ensured, writing, crashes>>
       ELSE IF 1 \in schema
       THEN /\ ensured' = ensured \cup {boot[s].next}
            /\ boot' = [boot EXCEPT ![s].next = @ + 1]
            /\ UNCHANGED <<schema, ledger, writing, crashes>>
       ELSE BootFails(s)

EnsureAppSchema(s) == runSQLMigrations(s) \/ EnsureStatement(s)

(* The process is killed, or its 30 seconds run out.                         *)
Killed(s) == boot[s].at # "down" /\ BootFails(s)

MigrationsNext == \E s \in Servers : EnsureAppSchema(s) \/ Killed(s)
MigrationsSpec == MigrationsInit /\ [][MigrationsNext]_migrationVars

-----------------------------------------------------------------------------
(* A migration is marked applied only after its DDL has executed, on fresh   *)
(* and on partly migrated databases, whoever boots at the same time and      *)
(* whatever is killed in between.                                            *)
RecordedWasExecuted == ledger \subseteq schema

(* The ledger never skips a file: a migration is recorded only when all that *)
(* sort before it are, although overlapping boots each work from their own   *)
(* reading of the ledger and one of them fails on the other's record.        *)
LedgerHasNoGaps == \A m \in ledger : 1..m \subseteq ledger

(* A server that is up has the schema its release ships: every file of it    *)
(* and every statement, unless it found no migrations directory.             *)
UpIsComplete ==
    \A s \in Servers : boot[s].at = "up" =>
        /\ 1..Statements \subseteq ensured
        /\ boot[s].found => Files(s) \subseteq schema
=============================================================================
