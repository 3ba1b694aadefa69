------------------------------- MODULE Backups ------------------------------
(***************************************************************************)
(* Backups of one tenant (internal/handler/backup_handler.go): a job row,  *)
(* a dump into a file whose name holds the time to the second, and the     *)
(* job's outcome.  The whole runs under a timeout of five minutes, which   *)
(* also ends the statement that records the outcome.                       *)
(***************************************************************************)
EXTENDS Naturals, FiniteSets

CONSTANTS
  Jobs,             \* backup requests of the tenant
  Seconds,          \* the seconds they start in
  MaxBackupFaults   \* bound: failing dumps, timeouts, restarts

VARIABLES
  mode,        \* the tenant: "shared", "dedicated", or "gone" once it is deleted
  job,         \* backup_jobs, and the request that works on it
  file,        \* /app/backups: what each file holds
  backupFaults,
  everShared,  \* history: the tenant's rows were in the shared database at some time
  cutOff,      \* history: jobs whose request timed out or was ended by a restart
  passedBy     \* history: jobs under way when the tenant was deleted

backupVars == <<mode, job, file, backupFaults, everShared, cutOff, passedBy>>
tenantState == <<mode, everShared, passedBy>>

NoJob == [at |-> "new", kind |-> "none", status |-> "none", db |-> "none", name |-> <<"none", 0>>]
Begun == [of |-> "nobody", whole |-> FALSE]

BackupsInit ==
  /\ mode \in {"shared", "dedicated"} /\ everShared = (mode = "shared")
  /\ job = [j \in Jobs |-> NoJob] /\ file = [n \in {} |-> Begun]
  /\ backupFaults = 0 /\ cutOff = {} /\ passedBy = {}

Trouble == backupFaults < MaxBackupFaults /\ backupFaults' = backupFaults + 1
NoTrouble == UNCHANGED <<backupFaults, cutOff>>
JobAt(j, step) == job[j].at = step
JobTo(j, step) == job' = [job EXCEPT ![j].at = step]
HasFile(n) == n \in DOMAIN file
WriteFile(n, content) == file' = [m \in DOMAIN file \cup {n} |-> IF m = n THEN content ELSE file[m]]
Remove(n) == file' = [m \in DOMAIN file \ {n} |-> file[m]]
Twins(j) == {k \in Jobs \ {j} : job[k].name = job[j].name}

(* A tenant without a registry row, a deleted one too, is taken for a shared one. *)
resolveBackupDSN == IF mode = "dedicated" THEN "own" ELSE "shared"

requireTenant(j, kind) == mode # "gone" /\ job' = [job EXCEPT ![j].at = "resolve", ![j].kind = kind]

(* The job row, which refers to the tenant, with the name of the second. *)
InsertJob(j, kind, db, next) ==
  \E s \in Seconds :
    job' = [job EXCEPT ![j] = [at |-> next, kind |-> kind, status |-> IF mode = "gone" THEN "none" ELSE "running",
                               db |-> db, name |-> <<kind, s>>]]

(* The outcome of the dump: on to the record of success, or to the removal of the file.  A failure may be
   the timeout, and then its record fails as well. *)
DumpFails(j) ==
  /\ Trouble /\ JobTo(j, "fail") /\ UNCHANGED file
  /\ cutOff' \in {cutOff, cutOff \cup {j}}

(* pg_dump through gzip into a new file; its size is asked of the path, which another job may have
   removed.  Two jobs that write one file leave a mixture. *)
runPgDumpGzip(j) ==
  \/ /\ JobAt(j, "create") /\ WriteFile(job[j].name, Begun) /\ JobTo(j, "dump") /\ NoTrouble
  \/ /\ JobAt(j, "dump") /\ HasFile(job[j].name) /\ JobTo(j, "record") /\ NoTrouble
     /\ WriteFile(job[j].name, [of |-> job[j].db, whole |-> \A k \in Twins(j) : ~JobAt(k, "dump")])
  \/ /\ JobAt(j, "dump") /\ ~HasFile(job[j].name) /\ JobTo(j, "fail") /\ NoTrouble /\ UNCHANGED file
  \/ JobAt(j, "dump") /\ DumpFails(j)

(* The namespace is read key by key into memory, then the file is written at once. *)
BackupNamespace(j) ==
  \/ JobAt(j, "scan") /\ WriteFile(job[j].name, [of |-> "keys", whole |-> TRUE]) /\ JobTo(j, "record") /\ NoTrouble
  \/ JobAt(j, "scan") /\ DumpFails(j)

(* The last statements of a backup; an expired context records nothing. *)
OutcomeForgotten(j) ==
  \/ /\ JobAt(j, "record") /\ UNCHANGED file /\ NoTrouble
     /\ job' = [job EXCEPT ![j].at = "done", ![j].status = IF mode = "gone" \/ j \in cutOff THEN @ ELSE "success"]
  \/ JobAt(j, "fail") /\ Remove(job[j].name) /\ JobTo(j, "done") /\ NoTrouble
RecordOutcome(j) ==
  \/ /\ JobAt(j, "record") /\ UNCHANGED file /\ NoTrouble
     /\ job' = [job EXCEPT ![j].at = "done", ![j].status = IF mode = "gone" \/ j \in cutOff THEN @ ELSE "success"]
  \/ JobAt(j, "record") /\ Trouble /\ cutOff' = cutOff \cup {j} /\ JobTo(j, "done") /\ UNCHANGED file
  \/ JobAt(j, "fail") /\ Remove(job[j].name) /\ JobTo(j, "note") /\ NoTrouble
  \/ /\ JobAt(j, "note") /\ UNCHANGED file /\ NoTrouble
     /\ job' = [job EXCEPT ![j].at = "done", ![j].status = IF mode = "gone" \/ j \in cutOff THEN @ ELSE "failed"]

RunPlatformTenantBackup(j) ==
  /\ \/ JobAt(j, "new") /\ requireTenant(j, "postgres") /\ UNCHANGED file /\ NoTrouble
     \/ /\ JobAt(j, "resolve") /\ job[j].kind = "postgres" /\ UNCHANGED file /\ NoTrouble
        /\ InsertJob(j, "postgres", resolveBackupDSN, "create")
     \/ runPgDumpGzip(j)
     \/ job[j].kind = "postgres" /\ RecordOutcome(j)
  /\ UNCHANGED tenantState

RunPlatformTenantRedisBackup(j) ==
  /\ \/ JobAt(j, "new") /\ requireTenant(j, "redis") /\ UNCHANGED file /\ NoTrouble
     \/ /\ JobAt(j, "resolve") /\ job[j].kind = "redis" /\ UNCHANGED file /\ NoTrouble
        /\ InsertJob(j, "redis", "keys", "scan")
     \/ BackupNamespace(j)
     \/ job[j].kind = "redis" /\ RecordOutcome(j)
  /\ UNCHANGED tenantState

(* The tenant gets a database of its own. *)
CutOver ==
  /\ mode = "shared" /\ mode' = "dedicated"
  /\ UNCHANGED <<job, file, backupFaults, everShared, cutOff, passedBy>>

Working(j) == job[j].at \notin {"new", "done"}
(* The tenant is deleted, its job rows with it; the files stay. *)
DeleteTenant ==
  /\ mode # "gone" /\ mode' = "gone"
  /\ job' = [j \in Jobs |-> [job[j] EXCEPT !.status = "none"]]
  /\ passedBy' = {j \in Jobs : Working(j)}
  /\ UNCHANGED <<file, backupFaults, everShared, cutOff>>

(* The process is replaced in the middle of a backup. *)
RestartBackups ==
  /\ Trouble
  /\ job' = [j \in Jobs |-> IF Working(j) THEN [job[j] EXCEPT !.at = "done"] ELSE job[j]]
  /\ cutOff' = cutOff \cup {j \in Jobs : Working(j)}
  /\ UNCHANGED <<mode, file, everShared, passedBy>>

BackupsNext ==
  \/ \E j \in Jobs : RunPlatformTenantBackup(j) \/ RunPlatformTenantRedisBackup(j)
  \/ CutOver \/ DeleteTenant \/ RestartBackups

BackupsSpec == BackupsInit /\ [][BackupsNext]_backupVars

-----------------------------------------------------------------------------
(* What the history screen says of a job is true: a job is left "running" for ever only by a timeout or a
   restart, and, unless another job began in the same second, a successful one has a whole dump of the
   database it names and a failed one has left nothing. *)
HistoryTrue ==
  \A j \in Jobs :
    /\ JobAt(j, "done") /\ job[j].status = "running" => j \in cutOff
    /\ Twins(j) = {} =>
         /\ job[j].status = "success" => HasFile(job[j].name) /\ file[job[j].name] = [of |-> job[j].db, whole |-> TRUE]
         /\ job[j].status = "failed" => ~HasFile(job[j].name)

(* "Must precede resolveBackupDSN: an unknown tenant ... would dump the whole platform database into a
   file named after a tenant that does not exist": for a tenant whose rows were never shared, only a
   request that the deletion overtook dumps the shared database. *)
NoPlatformDump ==
  \A n \in DOMAIN file : file[n].of = "shared" =>
    everShared \/ \E j \in passedBy : job[j].name = n
=============================================================================
