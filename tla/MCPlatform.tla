----------------------------- MODULE MCPlatform -----------------------------
(* The tenants, their backups, their databases' schema and the records of one of them, for TLC.  A behaviour
   exercises one part, chosen at the start: staff traffic routed while tenants come and go, databases
   provisioned again while they do, backups, boots on one database, branches, guests, documents or customers. *)
EXTENDS Tenancy, Backups, Migrations, Branches, GuestRecords, Customers, TLC
CONSTANTS a1, a2, v1, v2, blank

VARIABLE part
otherVars == <<migrationVars, branchVars, recordVars, customerVars>>
vars == <<tenancyVars, backupVars, otherVars, part>>

(* Requests, goroutines and jobs are the same two values in every part. *)
Sym == Permutations({a1, a2})

(* Two servers of different releases. *)
Ships == (v1 :> 2) @@ (v2 :> 3)
(* One number typed in two ways. *)
Digits == ("98" :> "98") @@ ("+9198" :> "98")
Stays == {[phone |-> "98", email |-> blank], [phone |-> "+9198", email |-> "e"], [phone |-> blank, email |-> "e"],
          [phone |-> blank, email |-> blank]}

Init ==
  /\ TenancyInit /\ BackupsInit /\ MigrationsInit /\ BranchesInit /\ RecordsInit /\ CustomersInit
  /\ part \in {"traffic", "operator", "backups", "boot", "branches", "guests", "documents", "customers"}
  /\ part # "backups" => mode = "shared"
  /\ part # "boot" => schema = {}
  /\ part # "branches" => client

(* Calls fail in the part "operator"; restarts come in both. *)
TenancyPart ==
  /\ part \in {"traffic", "operator"} /\ UNCHANGED <<backupVars, otherVars>>
  /\ \/ \E a \in Agents :
        /\ \/ CreatePlatformTenant(a) \/ runProvisioningJob(a) \/ DeletePlatformTenant(a)
           \/ part = "operator" /\ ProvisionTenantDB(a)
           \/ part = "traffic" /\ (PoolForHotel(a) \/ WriteRow(a))
        /\ part = "traffic" => NoFail
     \/ part = "traffic" /\ \E t \in Tenants : RouteExpires(t)
     \/ RestartPlatform
BackupsPart == part = "backups" /\ BackupsNext /\ UNCHANGED <<tenancyVars, otherVars>>

BootPart ==
  /\ part = "boot" /\ MigrationsNext
  /\ UNCHANGED <<tenancyVars, backupVars, branchVars, recordVars, customerVars>>
BranchesPart ==
  /\ part = "branches" /\ BranchesNext
  /\ UNCHANGED <<tenancyVars, backupVars, migrationVars, recordVars, customerVars>>
(* Guests who leave a contact, without failures; documents of stays that record no e-mail address. *)
RecordsPart ==
  /\ \/ /\ part = "guests" /\ GuestsNext /\ diskFaults' = 0 /\ Cardinality(drawn') <= 2
        /\ \A d \in Desks : desk'[d].at # "idle" => desk'[d].contact # Nobody
        /\ \A i \in DOMAIN guests' : ~(guests'[i].phone = blank /\ guests'[i].email = blank)
     \/ part = "documents" /\ DocumentsNext /\ \A d \in Desks : desk'[d].contact.email = blank
  /\ UNCHANGED <<tenancyVars, backupVars, migrationVars, branchVars, customerVars>>
CustomersPart ==
  /\ part = "customers" /\ CustomersNext
  /\ UNCHANGED <<tenancyVars, backupVars, migrationVars, branchVars, recordVars>>

Next ==
  /\ UNCHANGED part
  /\ TenancyPart \/ BackupsPart \/ BootPart \/ BranchesPart \/ RecordsPart \/ CustomersPart
Spec == Init /\ [][Next]_vars
=============================================================================
