---------------------------- MODULE PlatformProofs ----------------------------
(* Proofs about the schema ledger, a client's branches and a tenant's        *)
(* backups, for any number of servers, requests, branches, jobs, failures    *)
(* and crashes.                                                              *)
EXTENDS Migrations, Backups, Branches, TLAPS

BootStates ==
    [at : {"down", "migrate", "ensure", "up"}, applied : SUBSET Nat, next : Nat, found : BOOLEAN]

(* What a boot knows while it migrates, ensures and runs: everything before  *)
(* the file it has reached is recorded, and what it read as applied still    *)
(* is; a transaction runs the file it has reached.                           *)
BootOK(s) ==
    /\ boot[s].applied \subseteq ledger
    /\ boot[s].at = "migrate" => \A m \in Nat : 1 <= m /\ m < boot[s].next => m \in ledger
    /\ boot[s].at \in {"ensure", "up"} /\ boot[s].found => Files(s) \subseteq ledger
    /\ boot[s].at = "ensure" => \A n \in Nat : 1 <= n /\ n < boot[s].next => n \in ensured \/ n > Statements
    /\ boot[s].at = "up" => 1..Statements \subseteq ensured
    /\ writing[s] # 0 => boot[s].at = "migrate" /\ writing[s] = boot[s].next /\ writing[s] \in Files(s)

LedgerInv ==
    /\ boot \in [Servers -> BootStates]
    /\ writing \in [Servers -> Nat]
    /\ ledger \subseteq Nat /\ ledger \subseteq schema
    /\ \A m \in ledger : \A k \in Nat : 1 <= k /\ k <= m => k \in ledger
    /\ \A s \in Servers : BootOK(s)

(* The ledger and the executed statements only grow, so a server that takes  *)
(* no step keeps what it knows.                                              *)
LEMMA Bystander ==
  ASSUME NEW s \in Servers, BootOK(s), ledger \subseteq ledger', ensured \subseteq ensured',
         boot'[s] = boot[s], writing'[s] = writing[s]
  PROVE  BootOK(s)'
  BY Zenon DEF BootOK, Files

(* What a step must show: its own server's knowledge, and a ledger that only *)
(* grows and keeps its shape.                                                *)
LEMMA StepKeeps ==
  ASSUME LedgerInv, NEW s \in Servers, NEW r \in BootStates,
         NEW w \in Nat,
         boot' = [boot EXCEPT ![s] = r], writing' = [writing EXCEPT ![s] = w],
         ledger \subseteq ledger', ensured \subseteq ensured', ledger' \subseteq Nat, ledger' \subseteq schema',
         \A m \in ledger' : \A k \in Nat : 1 <= k /\ k <= m => k \in ledger',
         BootOK(s)'
  PROVE  LedgerInv'
<1>1. boot' \in [Servers -> BootStates]
      /\ writing' \in [Servers -> Nat]
  BY Zenon DEF LedgerInv
<1>2. ASSUME NEW o \in Servers PROVE BootOK(o)'
  <2>1. CASE o = s
    BY <2>1, Zenon
  <2>2. CASE o # s
    <3>1. boot'[o] = boot[o] /\ writing'[o] = writing[o] /\ BootOK(o)
      BY <2>2, Zenon DEF LedgerInv
    <3> QED
      BY <3>1, Bystander, Zenon
  <2> QED
    BY <2>1, <2>2, Zenon
<1> QED
  BY <1>1, <1>2, Zenon DEF LedgerInv

(* A boot that fails or is killed forgets everything, and its transaction is *)
(* undone.                                                                   *)
LEMMA FailKeeps ==
  ASSUME LedgerInv, NEW s \in Servers, BootFails(s)
  PROVE  LedgerInv'
<1>1. Down \in BootStates
  BY Zenon DEF Down, BootStates
<1>2. boot' = [boot EXCEPT ![s] = Down] /\ writing' = [writing EXCEPT ![s] = 0]
      /\ schema' = schema /\ ledger' = ledger /\ ensured' = ensured
  BY Zenon DEF BootFails, Boots
<1>3. boot'[s] = Down /\ writing'[s] = 0
  BY <1>2, Zenon DEF LedgerInv
<1>4. BootOK(s)'
  BY <1>3, SMTT(30) DEF BootOK, Down
<1>5. /\ ledger \subseteq ledger' /\ ensured \subseteq ensured' /\ ledger' \subseteq Nat /\ ledger' \subseteq schema'
      /\ \A m \in ledger' : \A k \in Nat : 1 <= k /\ k <= m => k \in ledger'
  BY <1>2, Zenon DEF LedgerInv
<1> QED
  BY <1>1, <1>2, <1>4, <1>5, StepKeeps, Zenon

(* A server that moves on without writing keeps the invariant if it is       *)
(* entitled to what it now claims.                                           *)
LEMMA MoveKeeps ==
  ASSUME LedgerInv, NEW s \in Servers, NEW r \in BootStates,
         boot' = [boot EXCEPT ![s] = r], UNCHANGED <<schema, ledger, ensured, writing>>,
         BootOK(s)'
  PROVE  LedgerInv'
<1>1. writing' = [writing EXCEPT ![s] = writing[s]] /\ writing[s] \in Nat
  BY Zenon DEF LedgerInv
<1>2. /\ ledger \subseteq ledger' /\ ensured \subseteq ensured' /\ ledger' \subseteq Nat /\ ledger' \subseteq schema'
      /\ \A m \in ledger' : \A k \in Nat : 1 <= k /\ k <= m => k \in ledger'
  BY Zenon DEF LedgerInv
<1> QED
  BY <1>1, <1>2, StepKeeps, Zenon

(* Every step of a boot keeps what all boots know.                           *)
LEMMA NextKeeps ==
  ASSUME LedgerInv, [MigrationsNext]_migrationVars
  PROVE  LedgerInv'
<1>1. CASE UNCHANGED migrationVars
  BY <1>1, Zenon DEF LedgerInv, BootOK, Files, migrationVars
<1>2. ASSUME NEW s \in Servers, EnsureAppSchema(s) \/ Killed(s)
      PROVE  LedgerInv'
  <2>0. boot[s] \in BootStates /\ writing[s] \in Nat /\ BootOK(s) /\ Release[s] \in Nat /\ Statements \in Nat
    BY MigrationsAssumption, Zenon DEF LedgerInv
  <2>1. CASE ReadLedger(s)
    <3> DEFINE with    == [at |-> "migrate", applied |-> ledger, next |-> 1, found |-> TRUE]
               without == [at |-> "ensure", applied |-> {}, next |-> 1, found |-> FALSE]
    <3>1. with \in BootStates /\ without \in BootStates
      BY Zenon DEF BootStates, LedgerInv
    <3>2. writing[s] = 0 /\ UNCHANGED <<schema, ledger, ensured, writing>>
      BY <2>0, <2>1, Zenon DEF ReadLedger, BootOK
    <3>3. CASE boot' = [boot EXCEPT ![s] = with]
      <4>1. boot'[s] = with
        BY <3>3, Zenon DEF LedgerInv
      <4>2. BootOK(s)'
        BY <3>2, <4>1, SMTT(30) DEF BootOK
      <4> HIDE DEF with
      <4> QED
        BY <3>1, <3>2, <3>3, <4>2, MoveKeeps, Zenon
    <3>4. CASE boot' = [boot EXCEPT ![s] = without]
      <4>1. boot'[s] = without
        BY <3>4, Zenon DEF LedgerInv
      <4>2. BootOK(s)'
        BY <3>2, <4>1, SMTT(30) DEF BootOK
      <4> HIDE DEF without
      <4> QED
        BY <3>1, <3>2, <3>4, <4>2, MoveKeeps, Zenon
    <3> QED
      BY <2>1, <3>3, <3>4, Zenon DEF ReadLedger, Boots
  <2>2. CASE SkipMigration(s)
    <3> DEFINE r == [boot[s] EXCEPT !.next = @ + 1]
    <3>1. boot' = [boot EXCEPT ![s] = r] /\ UNCHANGED <<schema, ledger, ensured, writing>>
      BY <2>2, Zenon DEF SkipMigration
    <3>2. r \in BootStates /\ r.next = boot[s].next + 1 /\ r.at = "migrate" /\ r.applied = boot[s].applied
      BY <2>0, <2>2, SMTT(30) DEF SkipMigration, BootStates
    <3>3. boot'[s] = r /\ writing[s] = 0 /\ boot[s].next \in ledger
      BY <2>0, <2>2, <3>1, Zenon DEF SkipMigration, LedgerInv, BootOK
    <3>4. \A m \in Nat : 1 <= m /\ m < boot[s].next + 1 => m \in ledger
      BY <2>0, <2>2, <3>3, SMTT(30) DEF SkipMigration, BootOK, BootStates
    <3>5. BootOK(s)'
      BY <2>0, <3>1, <3>2, <3>3, <3>4, Zenon DEF BootOK, Files
    <3> QED
      BY <3>1, <3>2, <3>5, MoveKeeps, Zenon
  <2>3. CASE BeginMigration(s)
    <3>1. boot' = [boot EXCEPT ![s] = boot[s]] /\ writing' = [writing EXCEPT ![s] = boot[s].next]
          /\ UNCHANGED <<schema, ledger, ensured, boot>>
      BY <2>3, Zenon DEF BeginMigration, LedgerInv
    <3>2. boot[s].at = "migrate" /\ boot[s].next \in Files(s) /\ boot[s].next \in Nat /\ writing'[s] = boot[s].next
      BY <2>0, <2>3, <3>1, Zenon DEF BeginMigration, BootStates, LedgerInv
    <3>3. BootOK(s)'
      BY <2>0, <3>1, <3>2, Zenon DEF BootOK, Files
    <3>4. /\ ledger \subseteq ledger' /\ ensured \subseteq ensured' /\ ledger' \subseteq Nat /\ ledger' \subseteq schema'
          /\ \A m \in ledger' : \A k \in Nat : 1 <= k /\ k <= m => k \in ledger'
      BY <3>1, Zenon DEF LedgerInv
    <3> QED
      BY <2>0, <3>1, <3>2, <3>3, <3>4, StepKeeps, Zenon
  <2>4. CASE CommitMigration(s)
    <3>1. CASE writing[s] \in ledger
      BY <2>4, <3>1, FailKeeps, Zenon DEF CommitMigration
    <3>2. CASE writing[s] \notin ledger
      <4> DEFINE r == [boot[s] EXCEPT !.next = @ + 1]
      <4>1. /\ schema' = schema \cup {writing[s]} /\ ledger' = ledger \cup {writing[s]} /\ ensured' = ensured
            /\ boot' = [boot EXCEPT ![s] = r] /\ writing' = [writing EXCEPT ![s] = 0]
        BY <2>4, <3>2, Zenon DEF CommitMigration
      <4>2. boot[s].at = "migrate" /\ writing[s] = boot[s].next /\ boot[s].next \in Nat
        BY <2>0, <2>4, Zenon DEF CommitMigration, BootOK, BootStates
      <4>3. r \in BootStates /\ r.next = boot[s].next + 1 /\ r.at = "migrate" /\ r.applied = boot[s].applied
        BY <2>0, <4>2, SMTT(30) DEF BootStates
      <4>4. boot'[s] = r /\ writing'[s] = 0
        BY <4>1, Zenon DEF LedgerInv
      <4>5. \A k \in Nat : 1 <= k /\ k < boot[s].next => k \in ledger
        BY <2>0, <4>2, Zenon DEF BootOK
      <4>6. BootOK(s)'
        <5>1. \A k \in Nat : 1 <= k /\ k < boot[s].next + 1 => k \in ledger'
          BY <4>1, <4>2, <4>5, SMTT(30)
        <5>2. r.applied \subseteq ledger'
          BY <2>0, <4>1, <4>3, Zenon DEF BootOK
        <5> QED
          BY <4>3, <4>4, <5>1, <5>2, Zenon DEF BootOK
      <4>7. \A m \in ledger' : \A k \in Nat : 1 <= k /\ k <= m => k \in ledger'
        <5>1. SUFFICES ASSUME NEW m \in ledger', NEW k \in Nat, 1 <= k, k <= m PROVE k \in ledger'
          BY Zenon
        <5>2. CASE m \in ledger
          BY <4>1, <5>1, <5>2, Zenon DEF LedgerInv
        <5>3. CASE m = boot[s].next
          BY <4>1, <4>2, <4>5, <5>1, <5>3, SMTT(30)
        <5> QED
          BY <4>1, <4>2, <5>2, <5>3, Zenon
      <4>8. /\ ledger \subseteq ledger' /\ ensured \subseteq ensured' /\ ledger' \subseteq Nat /\ ledger' \subseteq schema'
        BY <4>1, <4>2, Zenon DEF LedgerInv
      <4> HIDE DEF r
      <4> QED
        BY <4>1, <4>3, <4>6, <4>7, <4>8, StepKeeps, Zenon
    <3> QED
      BY <3>1, <3>2, Zenon
  <2>5. CASE BrokenMigration(s)
    BY <2>5, FailKeeps, Zenon DEF BrokenMigration
  <2>6. CASE EndMigrations(s)
    <3> DEFINE r == [boot[s] EXCEPT !.at = "ensure", !.next = 1]
    <3>1. boot' = [boot EXCEPT ![s] = r] /\ UNCHANGED <<schema, ledger, ensured, writing>>
      BY <2>6, Zenon DEF EndMigrations, Boots
    <3>2. r \in BootStates /\ r.next = 1 /\ r.at = "ensure" /\ r.applied = boot[s].applied
      BY <2>0, Zenon DEF BootStates
    <3>3. boot'[s] = r
      BY <3>1, Zenon DEF LedgerInv
    <3>4. Files(s) \subseteq ledger
      BY <2>0, <2>6, SMTT(30) DEF EndMigrations, BootOK, Files, BootStates
    <3>5. writing[s] = 0
      BY <2>0, <2>6, SMTT(30) DEF EndMigrations, BootOK, Files, BootStates
    <3>6. BootOK(s)'
      BY <2>0, <3>1, <3>2, <3>3, <3>4, <3>5, SMTT(30) DEF BootOK, Files
    <3> HIDE DEF r
    <3> QED
      BY <3>1, <3>2, <3>6, MoveKeeps, Zenon
  <2>7. CASE EnsureStatement(s)
    <3>0. writing[s] = 0 /\ boot[s].at = "ensure" /\ boot[s].next \in Nat
      BY <2>0, <2>7, Zenon DEF EnsureStatement, BootOK, BootStates
    <3>1. CASE boot[s].next > Statements
      <4> DEFINE r == [boot[s] EXCEPT !.at = "up"]
      <4>1. boot' = [boot EXCEPT ![s] = r] /\ UNCHANGED <<schema, ledger, ensured, writing>>
        BY <2>7, <3>1, Zenon DEF EnsureStatement, Boots
      <4>2. r \in BootStates /\ r.at = "up" /\ r.applied = boot[s].applied /\ r.found = boot[s].found
        BY <2>0, Zenon DEF BootStates
      <4>3. boot'[s] = r
        BY <4>1, Zenon DEF LedgerInv
      <4>4. 1..Statements \subseteq ensured
        BY <2>0, <3>0, <3>1, SMTT(30) DEF BootOK
      <4>5. BootOK(s)'
        BY <2>0, <3>0, <4>1, <4>2, <4>3, <4>4, Zenon DEF BootOK, Files
      <4> HIDE DEF r
      <4> QED
        BY <4>1, <4>2, <4>5, MoveKeeps, Zenon
    <3>2. CASE ~(boot[s].next > Statements) /\ 1 \in schema
      <4> DEFINE r == [boot[s] EXCEPT !.next = @ + 1]
      <4>1. /\ boot' = [boot EXCEPT ![s] = r] /\ writing' = [writing EXCEPT ![s] = writing[s]]
            /\ ensured' = ensured \cup {boot[s].next} /\ UNCHANGED <<schema, ledger, writing>>
        BY <2>7, <3>2, Zenon DEF EnsureStatement, LedgerInv
      <4>2. r \in BootStates /\ r.next = boot[s].next + 1 /\ r.at = "ensure"
            /\ r.applied = boot[s].applied /\ r.found = boot[s].found
        BY <2>0, <3>0, SMTT(30) DEF BootStates
      <4>3. boot'[s] = r
        BY <4>1, Zenon DEF LedgerInv
      <4>4. \A n \in Nat : 1 <= n /\ n < boot[s].next + 1 => n \in ensured' \/ n > Statements
        BY <2>0, <3>0, <4>1, SMTT(30) DEF BootOK
      <4>5. BootOK(s)'
        BY <2>0, <3>0, <4>1, <4>2, <4>3, <4>4, SMTT(30) DEF BootOK, Files
      <4>6. /\ ledger \subseteq ledger' /\ ensured \subseteq ensured' /\ ledger' \subseteq Nat /\ ledger' \subseteq schema'
            /\ \A m \in ledger' : \A k \in Nat : 1 <= k /\ k <= m => k \in ledger'
        BY <4>1, Zenon DEF LedgerInv
      <4> HIDE DEF r
      <4> QED
        BY <2>0, <4>1, <4>2, <4>5, <4>6, StepKeeps, Zenon
    <3>3. CASE ~(boot[s].next > Statements) /\ 1 \notin schema
      BY <2>7, <3>3, FailKeeps, Zenon DEF EnsureStatement
    <3> QED
      BY <3>1, <3>2, <3>3, Zenon
  <2>8. CASE Killed(s)
    BY <2>8, FailKeeps, Zenon DEF Killed
  <2> QED
    BY <1>2, <2>1, <2>2, <2>3, <2>4, <2>5, <2>6, <2>7, <2>8, Zenon
       DEF EnsureAppSchema, runSQLMigrations
<1> QED
  BY <1>1, <1>2, Zenon DEF MigrationsNext

(* No boot has begun: nothing is recorded and nothing is claimed.            *)
LEMMA InitKeeps == MigrationsInit => LedgerInv
<1> SUFFICES ASSUME MigrationsInit PROVE LedgerInv
  BY Zenon
<1>1. Down \in BootStates
  BY Zenon DEF Down, BootStates
<1>2. boot \in [Servers -> BootStates] /\ writing \in [Servers -> Nat]
  BY <1>1, Zenon DEF MigrationsInit
<1>3. ASSUME NEW s \in Servers PROVE BootOK(s)
  BY Zenon DEF MigrationsInit, BootOK, Down
<1> QED
  BY <1>2, <1>3, Zenon DEF MigrationsInit, LedgerInv

(* Over every behaviour of any number of servers, releases and crashes, what *)
(* schema_migrations records has executed, without a gap, and a server that  *)
(* answers requests has the schema its release ships.                        *)
THEOREM LedgerIsTrue == MigrationsSpec => [](RecordedWasExecuted /\ LedgerHasNoGaps /\ UpIsComplete)
<1>1. LedgerInv => RecordedWasExecuted
  BY Zenon DEF LedgerInv, RecordedWasExecuted
<1>2. LedgerInv => LedgerHasNoGaps
  BY SMTT(30) DEF LedgerInv, LedgerHasNoGaps
<1>3. LedgerInv => UpIsComplete
  BY Zenon DEF LedgerInv, UpIsComplete, BootOK
<1> QED
  BY <1>1, <1>2, <1>3, InitKeeps, NextKeeps, PTL DEF MigrationsSpec

(* The ledger never runs ahead of the database, however boots overlap or die.*)
THEOREM RecordsExecuted == MigrationsSpec => []RecordedWasExecuted
  BY LedgerIsTrue, PTL

(* The ledger never skips a file, although each boot trusts its own reading. *)
THEOREM NoGaps == MigrationsSpec => []LedgerHasNoGaps
  BY LedgerIsTrue, PTL

(* A server is up only on a complete schema of its release.                  *)
THEOREM UpMeansMigrated == MigrationsSpec => []UpIsComplete
  BY LedgerIsTrue, PTL

-----------------------------------------------------------------------------
-----------------------------------------------------------------------------
(* Branches: the invariant behind OnePrimary and WithinPlan.                 *)
InDelete == {"promote", "update", "commit"}
AdminRecords == [at : {"idle", "property", "insert"} \cup InDelete, seen : SUBSET Nat,
                 gone : Nat, want : Nat, pick : Nat]

BranchTypes ==
    /\ born \in Nat /\ branches \subseteq 1..born /\ primary \subseteq branches
    /\ client \in BOOLEAN /\ unmarked \in BOOLEAN /\ hasty \in BOOLEAN /\ torn \in BOOLEAN
    /\ admin \in [Admins -> AdminRecords]
    /\ \A a \in Admins : admin[a].seen \subseteq 1..born

(* What a deletion holds: its row stays, and was primary if it promotes.     *)
DeletionHolds(r) ==
    /\ r.gone # 0 <=> r.at \in InDelete
    /\ r.gone # 0 => r.gone \in branches
    /\ r.at \in {"promote", "update"} => r.gone \in primary
    /\ r.pick # 0 => r.at = "commit" /\ r.gone \in primary /\ r.pick \in branches

(* No two transactions write one row.                                        *)
RowsLocked == \A a, o \in Admins : a # o =>
    /\ admin[a].gone # 0 => admin[a].gone \notin {admin[o].gone, admin[o].pick}
    /\ admin[a].pick # 0 => admin[a].pick # admin[o].pick

(* While no branch a deletion saw is gone, the one it promotes is among them.*)
PromotesSeen(r) ==
    LET others == r.seen \ {r.gone} IN
    /\ r.at \in InDelete => \A b \in branches \ r.seen, c \in r.seen : c < b
    /\ r.at = "update" /\ r.seen \subseteq branches => r.want \in others \/ others = {}
    /\ r.at = "commit" /\ r.seen \subseteq branches /\ r.gone \in primary
          => r.pick \in others \/ others = {}

(* What a creation relies on.                                                *)
CreationHolds(r, isClient) ==
    /\ r.at = "property" => isClient /\ r.seen = {}
    /\ r.at = "insert" => isClient /\ Cardinality(r.seen) < MaxProperties

PrimaryInv ==
    /\ BranchTypes /\ RowsLocked
    /\ \A a \in Admins : DeletionHolds(admin[a]) /\ PromotesSeen(admin[a]) /\ CreationHolds(admin[a], client)
    /\ ~client => branches = {}
    /\ branches # {} /\ ~unmarked /\ ~hasty /\ ~torn => primary # {}
    /\ ~hasty => \A x, y \in primary : x = y
    /\ ~hasty => Cardinality(branches) <= MaxProperties

(* A step of request a that leaves the branches alone.                       *)
LEMMA OnlyTheRequestMoves ==
  ASSUME PrimaryInv, NEW a \in Admins, NEW r \in AdminRecords, Moves(a, r),
         r.seen \subseteq 1..born,
         client' \in BOOLEAN, client => client', client' \/ branches = {},
         UNCHANGED <<branches, primary, born, unmarked, hasty, torn>>,
         DeletionHolds(r), PromotesSeen(r), CreationHolds(r, client'),
         \A o \in Admins \ {a} :
            /\ r.gone # 0 => r.gone \notin {admin[o].gone, admin[o].pick}
            /\ r.pick # 0 => r.pick \notin {admin[o].gone, admin[o].pick}
  PROVE  PrimaryInv'
<1>1. /\ admin'[a] = r
      /\ \A o \in Admins : o # a => admin'[o] = admin[o]
      /\ admin' \in [Admins -> AdminRecords]
  BY Zenon DEF Moves, PrimaryInv, BranchTypes
<1> HIDE DEF AdminRecords
<1>2. BranchTypes'
  BY <1>1, Zenon DEF PrimaryInv, BranchTypes
<1>3. RowsLocked'
  BY <1>1, SMTT(30) DEF PrimaryInv, RowsLocked
<1>4. \A o \in Admins : (DeletionHolds(admin[o]) /\ PromotesSeen(admin[o]) /\ CreationHolds(admin[o], client))'
  <2> TAKE o \in Admins
  <2>1. CASE o = a
    BY <1>1, <2>1, Zenon DEF DeletionHolds, PromotesSeen, CreationHolds
  <2>2. CASE o # a
    BY <1>1, <2>2, SMTT(30) DEF PrimaryInv, DeletionHolds, PromotesSeen, CreationHolds
  <2> QED
    BY <2>1, <2>2, Zenon
<1> QED
  BY <1>2, <1>3, <1>4, Zenon DEF PrimaryInv

-----------------------------------------------------------------------------
(* Backups: the invariant behind HistoryTrue and NoPlatformDump.             *)
NoName == <<"none", 0>>
JobKinds == {"none", "postgres", "redis"}
JobRecords == [at : {"new", "resolve", "create", "dump", "scan", "record", "fail", "note", "done"},
               kind : JobKinds, status : {"none", "running", "success", "failed"},
               db : {"none", "own", "shared", "keys"}, name : JobKinds \X (Seconds \cup {0})]

(* What a job has on disk, when no other has its name.                       *)
ArtifactTrue(j) == Twins(j) = {} =>
    /\ JobAt(j, "record") \/ job[j].status = "success"
         => HasFile(job[j].name) /\ file[job[j].name] = [of |-> job[j].db, whole |-> TRUE]
    /\ JobAt(j, "note") \/ job[j].status = "failed" => ~HasFile(job[j].name)

JobTrue(j) ==
    /\ job[j].name = NoName => job[j].status = "none" /\ job[j].at \in {"new", "resolve", "done"}
    /\ job[j].at \in {"new", "resolve"} => job[j].name = NoName /\ job[j].db = "none"
    /\ job[j].at = "scan" => job[j].db = "keys"
    /\ mode = "gone" => job[j].status = "none"
    /\ job[j].at = "done" /\ job[j].status = "running" => j \in cutOff
    /\ job[j].status \in {"success", "failed"} => job[j].at = "done"
    /\ ArtifactTrue(j)

(* Whose rows a dump holds.                                                  *)
SharedOnlyIf(j) ==
    /\ job[j].db = "shared" /\ ~everShared => j \in passedBy
    /\ mode = "gone" /\ Working(j) => j \in passedBy

BackupInv ==
    /\ job \in [Jobs -> JobRecords] /\ mode \in {"shared", "dedicated", "gone"}
    /\ everShared \in BOOLEAN /\ (mode = "shared" => everShared) /\ passedBy \subseteq Jobs
    /\ passedBy # {} => mode = "gone"
    /\ NoName \notin DOMAIN file
    /\ \A j \in Jobs : JobTrue(j) /\ SharedOnlyIf(j)
    /\ NoPlatformDump

(* Init establishes the invariant of the backups.                           *)
LEMMA BackupInitially == BackupsInit => BackupInv
<1> SUFFICES ASSUME BackupsInit PROVE BackupInv
  BY Zenon
<1>1. NoJob \in JobRecords
  BY Zenon DEF NoJob, JobRecords, JobKinds
<1>2. \A j \in Jobs : job[j] = NoJob
  BY Zenon DEF BackupsInit
<1>3. job \in [Jobs -> JobRecords] /\ DOMAIN file = {}
  BY <1>1, Zenon DEF BackupsInit
<1>4. \A j \in Jobs : JobTrue(j) /\ SharedOnlyIf(j)
  BY <1>2, Zenon DEF BackupsInit, JobTrue, SharedOnlyIf, ArtifactTrue, NoJob, JobAt, NoName
<1> QED
  BY <1>3, <1>4, ZenonT(30) DEF BackupsInit, BackupInv, NoPlatformDump

(* One job's step: the others keep what they have, because it writes only    *)
(* under its own name, and no other job without twins has that name.         *)
LEMMA OtherJobs ==
  ASSUME BackupInv, NEW j \in Jobs, NEW k \in Jobs \ {j},
         \A i \in Jobs \ {j} : job'[i] = job[i],
         mode' = mode, cutOff \subseteq cutOff', UNCHANGED <<everShared, passedBy>>,
         job'[j].name = job[j].name \/ job[j].name = NoName,
         \A m : m # job[j].name => /\ m \in DOMAIN file' <=> m \in DOMAIN file
                                   /\ m \in DOMAIN file => file'[m] = file[m]
  PROVE  JobTrue(k)' /\ SharedOnlyIf(k)'
<1>1. JobTrue(k) /\ SharedOnlyIf(k) /\ job'[k] = job[k]
  BY Zenon DEF BackupInv
<1>2. SharedOnlyIf(k)'
  BY <1>1, Zenon DEF SharedOnlyIf, Working
<1>3. ArtifactTrue(k)'
  <2> SUFFICES ASSUME Twins(k)' = {}
               PROVE  /\ job[k].at = "record" \/ job[k].status = "success"
                           => job[k].name \in DOMAIN file' /\ file'[job[k].name] = [of |-> job[k].db, whole |-> TRUE]
                      /\ job[k].at = "note" \/ job[k].status = "failed" => job[k].name \notin DOMAIN file'
    BY <1>1, Zenon DEF ArtifactTrue, JobAt, HasFile
  <2>1. CASE job[k].name = NoName
    BY <1>1, <2>1, Zenon DEF JobTrue
  <2>2. CASE job[k].name # NoName
    <3>1. job'[j].name # job[k].name
      BY <1>1, Zenon DEF Twins
    <3>2. job[j].name # job[k].name
      BY <2>2, <3>1, Zenon
    <3>3. Twins(k) = {}
      BY <1>1, <3>2, Zenon DEF Twins
    <3> QED
      BY <3>2, <3>3, <1>1, Zenon DEF JobTrue, ArtifactTrue, JobAt, HasFile
  <2> QED
    BY <2>1, <2>2, Zenon
<1> QED
  BY <1>1, <1>2, <1>3, Zenon DEF JobTrue

(* A step of job j that leaves the tenant alone preserves the invariant if   *)
(* it does so for j and for the files under j's name.                        *)
LEMMA JobStep ==
  ASSUME BackupInv, NEW j \in Jobs,
         job' \in [Jobs -> JobRecords], \A i \in Jobs \ {j} : job'[i] = job[i],
         UNCHANGED tenantState, cutOff \subseteq cutOff',
         job'[j].name = job[j].name \/ job[j].name = NoName,
         \A m : m # job[j].name => /\ m \in DOMAIN file' <=> m \in DOMAIN file
                                   /\ m \in DOMAIN file => file'[m] = file[m],
         job[j].name = NoName => file' = file,
         job[j].name \in DOMAIN file' =>
            \/ file'[job[j].name].of # "shared"
            \/ file'[job[j].name].of = job[j].db
            \/ job[j].name \in DOMAIN file /\ file'[job[j].name] = file[job[j].name],
         JobTrue(j)', SharedOnlyIf(j)'
  PROVE  BackupInv'
<1>2. mode' = mode /\ everShared' = everShared /\ passedBy' = passedBy
  BY ZenonT(30) DEF tenantState
<1>3. \A k \in Jobs : JobTrue(k)' /\ SharedOnlyIf(k)'
  <2> TAKE k \in Jobs
  <2>1. CASE k = j
    BY <2>1, Zenon
  <2>2. CASE k # j
    BY <2>2, <1>2, OtherJobs, Zenon
  <2> QED
    BY <2>1, <2>2, Zenon
<1>4. NoName \notin DOMAIN file'
  BY Zenon DEF BackupInv
<1>5. NoPlatformDump'
  <2> SUFFICES ASSUME NEW n \in DOMAIN file', file'[n].of = "shared", ~everShared
               PROVE  \E i \in passedBy : job'[i].name = n
    BY <1>2, Zenon DEF NoPlatformDump
  <2>1. n # NoName
    BY <1>4, Zenon
  <2>2. CASE n \in DOMAIN file /\ file'[n] = file[n]
    <3>1. PICK i \in passedBy : job[i].name = n
      BY <2>2, Zenon DEF BackupInv, NoPlatformDump
    <3>2. i \in Jobs
      BY <3>1, Zenon DEF BackupInv
    <3> QED
      BY <3>1, <3>2, <2>1, Zenon
  <2>3. CASE n = job[j].name /\ file'[n].of = job[j].db
    <3>1. j \in passedBy
      BY <2>3, Zenon DEF BackupInv, SharedOnlyIf
    <3> QED
      BY <3>1, <2>3, <2>1, Zenon
  <2> QED
    BY <2>2, <2>3, Zenon
<1> QED
  BY <1>2, <1>3, <1>4, <1>5, ZenonT(30) DEF BackupInv

(* Writing a file changes that file only.                                   *)
LEMMA FileWritten ==
  ASSUME NEW n, NEW c, WriteFile(n, c)
  PROVE  /\ n \in DOMAIN file' /\ file'[n] = c
         /\ \A m : m # n => /\ m \in DOMAIN file' <=> m \in DOMAIN file
                            /\ m \in DOMAIN file => file'[m] = file[m]
BY Zenon DEF WriteFile

(* Removing a file changes that file only.                                  *)
LEMMA FileRemoved ==
  ASSUME NEW n, Remove(n)
  PROVE  /\ n \notin DOMAIN file'
         /\ \A m : m # n => /\ m \in DOMAIN file' <=> m \in DOMAIN file
                            /\ m \in DOMAIN file => file'[m] = file[m]
BY Zenon DEF Remove

(* A backup is requested and finds the database of its tenant.              *)
LEMMA BackupRequested ==
  ASSUME BackupInv, NEW j \in Jobs, NEW kind \in {"postgres", "redis"}, UNCHANGED <<file, tenantState, cutOff>>,
         \/ JobAt(j, "new") /\ requireTenant(j, kind)
         \/ JobAt(j, "resolve") /\ job[j].kind = kind
               /\ \E db \in {"own", "shared", "keys"}, next \in {"create", "scan"} :
                     /\ InsertJob(j, kind, db, next)
                     /\ (db = "shared" => mode # "dedicated") /\ (next = "scan" => db = "keys")
  PROVE  BackupInv'
<1> USE DEF JobKinds
<1>t. /\ job[j] \in JobRecords /\ JobTrue(j) /\ SharedOnlyIf(j) /\ job[j].name = NoName
      /\ mode \in {"shared", "dedicated", "gone"} /\ (mode = "shared" => everShared)
      /\ (mode = "gone" /\ JobAt(j, "resolve") => j \in passedBy) /\ job \in [Jobs -> JobRecords]
  BY Zenon DEF BackupInv, JobTrue, JobAt, SharedOnlyIf, Working
<1>u. mode' = mode /\ everShared' = everShared /\ passedBy' = passedBy /\ cutOff' = cutOff /\ file' = file
  BY Zenon DEF tenantState
<1>1. CASE JobAt(j, "new") /\ requireTenant(j, kind)
  <2>1. /\ mode # "gone" /\ job' \in [Jobs -> JobRecords] /\ \A i \in Jobs \ {j} : job'[i] = job[i]
        /\ job'[j].at = "resolve" /\ job'[j].status = job[j].status /\ job'[j].db = job[j].db
        /\ job'[j].name = job[j].name
    BY <1>1, <1>t, ZenonT(30) DEF requireTenant, JobRecords
  <2>2. JobTrue(j)' /\ SharedOnlyIf(j)'
    BY <1>1, <2>1, <1>t, <1>u, Zenon DEF JobTrue, ArtifactTrue, JobAt, SharedOnlyIf, Working
  <2> QED
    BY <2>1, <2>2, <1>u, <1>t, JobStep, Zenon DEF BackupInv
<1>2. CASE /\ JobAt(j, "resolve") /\ job[j].kind = kind
           /\ \E db \in {"own", "shared", "keys"}, next \in {"create", "scan"} :
                 /\ InsertJob(j, kind, db, next)
                 /\ (db = "shared" => mode # "dedicated") /\ (next = "scan" => db = "keys")
  <2>1. PICK db \in {"own", "shared", "keys"}, next \in {"create", "scan"} :
               /\ InsertJob(j, kind, db, next)
               /\ (db = "shared" => mode # "dedicated") /\ (next = "scan" => db = "keys")
    BY <1>2, Zenon
  <2>2. PICK s \in Seconds :
          job' = [job EXCEPT ![j] = [at |-> next, kind |-> kind, status |-> IF mode = "gone" THEN "none" ELSE "running",
                                     db |-> db, name |-> <<kind, s>>]]
    BY <2>1, ZenonT(30) DEF InsertJob
  <2> DEFINE r == [at |-> next, kind |-> kind, status |-> IF mode = "gone" THEN "none" ELSE "running",
                   db |-> db, name |-> <<kind, s>>]
  <2>3. /\ r \in JobRecords /\ r.at = next /\ r.status = (IF mode = "gone" THEN "none" ELSE "running")
        /\ r.db = db /\ r.name # NoName
    BY Zenon DEF JobRecords, NoName
  <2> HIDE DEF r
  <2>4. job' \in [Jobs -> JobRecords] /\ job'[j] = r /\ \A i \in Jobs \ {j} : job'[i] = job[i]
    BY <2>2, <2>3, <1>t, Zenon DEF r
  <2>5. JobTrue(j)'
    BY <2>1, <2>3, <2>4, <1>u, Zenon DEF JobTrue, ArtifactTrue, JobAt
  <2>6. SharedOnlyIf(j)'
    BY <1>2, <2>1, <2>3, <2>4, <1>t, <1>u, Zenon DEF SharedOnlyIf
  <2> QED
    BY <2>4, <2>5, <2>6, <1>u, <1>t, JobStep, ZenonT(30) DEF BackupInv
<1> QED
  BY <1>1, <1>2, Zenon

(* A dump, whole or failed, and the notes after it: j's own record and file. *)
LEMMA BackupProceeds ==
  ASSUME BackupInv, NEW j \in Jobs, UNCHANGED tenantState, cutOff \subseteq cutOff',
         runPgDumpGzip(j) \/ BackupNamespace(j) \/ RecordOutcome(j)
  PROVE  BackupInv'
<1> DEFINE n == job[j].name
<1>t. /\ job[j] \in JobRecords /\ JobTrue(j) /\ SharedOnlyIf(j)
      /\ job \in [Jobs -> JobRecords] /\ mode \in {"shared", "dedicated", "gone"}
  BY Zenon DEF BackupInv
<1>u. mode' = mode /\ everShared' = everShared /\ passedBy' = passedBy
  BY Zenon DEF tenantState
<1>n. ~(job[j].at \in {"new", "resolve", "done"}) => n # NoName /\ job[j].status \in {"none", "running"}
  BY <1>t, Zenon DEF JobTrue, JobRecords
<1>m. \A at : JobAt(j, at) <=> job[j].at = at
  BY Zenon DEF JobAt
<1>1. \A at \in {"dump", "record", "fail", "note", "done"} : JobTo(j, at) =>
        /\ job' \in [Jobs -> JobRecords] /\ \A i \in Jobs \ {j} : job'[i] = job[i]
        /\ job'[j].at = at /\ job'[j].name = n /\ job'[j].db = job[j].db /\ job'[j].status = job[j].status
  BY <1>t, SMTT(30) DEF JobTo, JobRecords
<1>2. ASSUME NEW at \in {"dump", "fail", "done"}, JobTo(j, at), ~(job[j].at \in {"new", "resolve", "done"}),
             at = "done" => j \in cutOff',
             \A m : m # n => /\ m \in DOMAIN file' <=> m \in DOMAIN file
                             /\ m \in DOMAIN file => file'[m] = file[m],
             n \in DOMAIN file' => \/ file'[n].of # "shared"
                                   \/ n \in DOMAIN file /\ file'[n] = file[n]
      PROVE  BackupInv'
  <2>1. JobTrue(j)' /\ SharedOnlyIf(j)'
    BY <1>1, <1>2, <1>t, <1>u, <1>n, ZenonT(30)
       DEF JobTrue, ArtifactTrue, JobAt, SharedOnlyIf, Working
  <2> QED
    BY <2>1, <1>1, <1>2, <1>n, JobStep, ZenonT(30)
<1>3. CASE JobAt(j, "create") /\ WriteFile(n, Begun) /\ JobTo(j, "dump")
  <2>1. /\ n \in DOMAIN file' /\ file'[n] = Begun /\ Begun.of # "shared"
        /\ \A m : m # n => /\ m \in DOMAIN file' <=> m \in DOMAIN file
                           /\ m \in DOMAIN file => file'[m] = file[m]
    BY <1>3, FileWritten, Zenon DEF Begun
  <2> QED
    BY <2>1, <1>3, <1>2, <1>m, ZenonT(30)
<1>4. CASE /\ JobAt(j, "dump") \/ JobAt(j, "scan")
           /\ JobTo(j, "fail") /\ UNCHANGED file
  BY <1>4, <1>2, <1>m, Zenon
<1>5. CASE JobAt(j, "record") /\ cutOff' = cutOff \cup {j} /\ JobTo(j, "done") /\ UNCHANGED file
  BY <1>5, <1>2, <1>m, Zenon
<1>6. ASSUME NEW c, WriteFile(n, c), JobTo(j, "record"), ~(job[j].at \in {"new", "resolve", "done"}),
             c.of # "shared" \/ c.of = job[j].db,
             Twins(j) = {} => c = [of |-> job[j].db, whole |-> TRUE]
      PROVE  BackupInv'
  <2>1. /\ n \in DOMAIN file' /\ file'[n] = c
        /\ \A m : m # n => /\ m \in DOMAIN file' <=> m \in DOMAIN file
                           /\ m \in DOMAIN file => file'[m] = file[m]
    BY <1>6, FileWritten, ZenonT(30)
  <2>2. /\ job' \in [Jobs -> JobRecords] /\ \A i \in Jobs \ {j} : job'[i] = job[i]
        /\ job'[j].at = "record" /\ job'[j].name = n /\ job'[j].db = job[j].db /\ job'[j].status = job[j].status
    BY <1>1, <1>6, ZenonT(30)
  <2>3. Twins(j)' = Twins(j)
    BY <2>2, Zenon DEF Twins
  <2>4. ArtifactTrue(j)'
    BY <1>6, <1>n, <2>1, <2>2, <2>3, ZenonT(30) DEF ArtifactTrue, HasFile, JobAt
  <2>5. JobTrue(j)' /\ SharedOnlyIf(j)'
    BY <2>2, <2>4, <1>6, <1>t, <1>u, <1>n, Zenon DEF JobTrue, SharedOnlyIf, Working
  <2> QED
    BY <2>1, <2>2, <2>5, <1>6, <1>n, JobStep, ZenonT(30)
<1>7. CASE /\ JobAt(j, "dump") /\ JobTo(j, "record")
           /\ WriteFile(n, [of |-> job[j].db, whole |-> \A k \in Twins(j) : ~JobAt(k, "dump")])
  BY <1>7, <1>6, <1>m, Zenon
<1>8. CASE JobAt(j, "scan") /\ WriteFile(n, [of |-> "keys", whole |-> TRUE]) /\ JobTo(j, "record")
  <2>1. job[j].db = "keys"
    BY <1>8, <1>m, <1>t, Zenon DEF JobTrue
  <2> QED
    BY <2>1, <1>8, <1>6, <1>m, Zenon
<1>9. CASE JobAt(j, "fail") /\ Remove(n) /\ JobTo(j, "note")
  <2>1. /\ n \notin DOMAIN file'
        /\ \A m : m # n => /\ m \in DOMAIN file' <=> m \in DOMAIN file
                           /\ m \in DOMAIN file => file'[m] = file[m]
    BY <1>9, FileRemoved, ZenonT(30)
  <2>2. JobTrue(j)' /\ SharedOnlyIf(j)'
    BY <1>9, <1>m, <2>1, <1>1, <1>t, <1>u, <1>n, Zenon
       DEF JobTrue, ArtifactTrue, JobAt, HasFile, SharedOnlyIf, Working
  <2> QED
    BY <1>9, <1>m, <2>1, <2>2, <1>1, <1>n, JobStep, ZenonT(30)
<1>10. ASSUME NEW was \in {"record", "note"}, NEW says \in {"success", "failed"}, job[j].at = was,
              says = IF was = "record" THEN "success" ELSE "failed", UNCHANGED <<file, cutOff>>,
              job' = [job EXCEPT ![j].at = "done", ![j].status = IF mode = "gone" \/ j \in cutOff THEN @ ELSE says]
       PROVE  BackupInv'
  <2>1. /\ job' \in [Jobs -> JobRecords] /\ \A i \in Jobs \ {j} : job'[i] = job[i]
        /\ job'[j].at = "done" /\ job'[j].name = n /\ job'[j].db = job[j].db
        /\ job'[j].status = IF mode = "gone" \/ j \in cutOff THEN job[j].status ELSE says
    BY <1>10, <1>t, Zenon DEF JobRecords
  <2>2. Twins(j)' = Twins(j)
    BY <2>1, Zenon DEF Twins
  <2>3. job[j].status \in {"none", "running"} /\ n # NoName
    BY <1>10, <1>n, Zenon
  <2>4. ArtifactTrue(j)'
    BY <1>10, <2>1, <2>2, <2>3, <1>t, Zenon DEF JobTrue, ArtifactTrue, HasFile, JobAt
  <2>5. JobTrue(j)' /\ SharedOnlyIf(j)'
    BY <1>10, <2>1, <2>3, <2>4, <1>t, <1>u, Zenon DEF JobTrue, SharedOnlyIf, Working
  <2> QED
    BY <2>1, <2>5, <1>10, <2>3, JobStep, Zenon
<1>11. CASE runPgDumpGzip(j)
  BY <1>11, <1>3, <1>4, <1>7, Zenon DEF runPgDumpGzip, DumpFails
<1>12. CASE BackupNamespace(j)
  BY <1>12, <1>4, <1>8, Zenon DEF BackupNamespace, DumpFails
<1>13. CASE RecordOutcome(j)
  BY <1>13, <1>5, <1>9, <1>10, <1>m, Zenon DEF RecordOutcome, NoTrouble
<1> QED
  BY <1>11, <1>12, <1>13, Zenon

(* A tenant is moved or deleted, or the process restarts.                   *)
LEMMA TenantSteps ==
  ASSUME BackupInv, CutOver \/ DeleteTenant \/ RestartBackups
  PROVE  BackupInv'
<1>t. job \in [Jobs -> JobRecords] /\ \A j \in Jobs : JobTrue(j) /\ SharedOnlyIf(j)
  BY Zenon DEF BackupInv
<1>1. CASE CutOver
  <2>1. mode = "shared" /\ mode' = "dedicated" /\ everShared
        /\ UNCHANGED <<job, file, backupFaults, everShared, cutOff, passedBy>>
    BY <1>1, Zenon DEF CutOver, BackupInv
  <2>2. \A j \in Jobs : JobTrue(j)' /\ SharedOnlyIf(j)'
    BY <2>1, <1>t, Zenon DEF JobTrue, ArtifactTrue, Twins, JobAt, HasFile, SharedOnlyIf
  <2> QED
    BY <2>1, <2>2, Zenon DEF BackupInv, NoPlatformDump
<1>2. CASE DeleteTenant
  <2>1. /\ mode # "gone" /\ mode' = "gone" /\ passedBy' = {j \in Jobs : Working(j)}
        /\ UNCHANGED <<file, everShared, cutOff>>
        /\ job' = [j \in Jobs |-> [job[j] EXCEPT !.status = "none"]]
    BY <1>2, Zenon DEF DeleteTenant
  <2>2. \A j \in Jobs : /\ job'[j] \in JobRecords /\ job'[j].status = "none" /\ job'[j].at = job[j].at
                        /\ job'[j].name = job[j].name /\ job'[j].db = job[j].db
    BY <2>1, <1>t, SMTT(30) DEF JobRecords
  <2>3. job' \in [Jobs -> JobRecords]
    BY <2>1, <2>2, Zenon
  <2>4. \A j \in Jobs : ArtifactTrue(j)'
    <3> TAKE j \in Jobs
    <3>1. Twins(j)' = Twins(j)
      BY <2>2, Zenon DEF Twins
    <3> QED
      BY <3>1, <2>1, <2>2, <1>t, Zenon DEF JobTrue, ArtifactTrue, HasFile, JobAt
  <2>5. \A j \in Jobs : JobTrue(j)'
    BY <2>1, <2>2, <2>4, <1>t, SMTT(30) DEF JobTrue
  <2>6. passedBy = {}
    BY <2>1, Zenon DEF BackupInv
  <2>7. \A j \in Jobs : SharedOnlyIf(j)'
    BY <2>1, <2>2, <2>6, <1>t, Zenon DEF SharedOnlyIf, Working
  <2>8. NoPlatformDump'
    BY <2>1, <2>6, Zenon DEF BackupInv, NoPlatformDump
  <2> QED
    BY <2>1, <2>3, <2>5, <2>7, <2>8, Zenon DEF BackupInv
<1>3. CASE RestartBackups
  <2>1. /\ job' = [j \in Jobs |-> IF Working(j) THEN [job[j] EXCEPT !.at = "done"] ELSE job[j]]
        /\ cutOff' = cutOff \cup {j \in Jobs : Working(j)}
        /\ UNCHANGED <<mode, file, everShared, passedBy>>
    BY <1>3, Zenon DEF RestartBackups
  <2>2. \A j \in Jobs : /\ job'[j] \in JobRecords /\ job'[j].status = job[j].status
                        /\ job'[j].name = job[j].name /\ job'[j].db = job[j].db
                        /\ IF Working(j) THEN job'[j].at = "done" ELSE job'[j].at = job[j].at
    BY <2>1, <1>t, SMTT(30) DEF JobRecords
  <2>3. job' \in [Jobs -> JobRecords]
    BY <2>1, <2>2, Zenon
  <2>4. \A j \in Jobs : ArtifactTrue(j)'
    <3> TAKE j \in Jobs
    <3>1. Twins(j)' = Twins(j)
      BY <2>2, Zenon DEF Twins
    <3> QED
      BY <3>1, <2>1, <2>2, <1>t, ZenonT(30) DEF JobTrue, ArtifactTrue, HasFile, JobAt, Working
  <2>5. \A j \in Jobs : JobTrue(j)' /\ SharedOnlyIf(j)'
    BY <2>1, <2>2, <2>4, <1>t, SMTT(30) DEF JobTrue, SharedOnlyIf, Working
  <2>6. NoPlatformDump'
    BY <2>1, <2>2, SMTT(30) DEF BackupInv, NoPlatformDump
  <2> QED
    BY <2>1, <2>3, <2>5, <2>6, Zenon DEF BackupInv
<1> QED
  BY <1>1, <1>2, <1>3, Zenon

(* The invariant of the backups holds in every reachable state.             *)
LEMMA BackupInvariant == BackupsSpec => []BackupInv
<1>1. BackupInv /\ [BackupsNext]_backupVars => BackupInv'
  <2> SUFFICES ASSUME BackupInv, [BackupsNext]_backupVars PROVE BackupInv'
    BY Zenon
  <2>1. CASE UNCHANGED backupVars
    BY <2>1, SMTT(30)
       DEF backupVars, BackupInv, JobTrue, ArtifactTrue, SharedOnlyIf, NoPlatformDump, Twins, JobAt,
                HasFile, Working
  <2>2. ASSUME NEW j \in Jobs, RunPlatformTenantBackup(j) \/ RunPlatformTenantRedisBackup(j)
        PROVE  BackupInv'
    <3>1. UNCHANGED tenantState
      BY <2>2, Zenon DEF RunPlatformTenantBackup, RunPlatformTenantRedisBackup
    <3>2. CASE /\ JobAt(j, "resolve") /\ job[j].kind = "postgres" /\ UNCHANGED file /\ NoTrouble
               /\ InsertJob(j, "postgres", resolveBackupDSN, "create")
      <4>1. resolveBackupDSN \in {"own", "shared"} /\ (resolveBackupDSN = "shared" => mode # "dedicated")
        BY Zenon DEF resolveBackupDSN
      <4> QED
        BY <3>1, <3>2, <4>1, BackupRequested, Zenon DEF NoTrouble
    <3>3. CASE /\ JobAt(j, "resolve") /\ job[j].kind = "redis" /\ UNCHANGED file /\ NoTrouble
               /\ InsertJob(j, "redis", "keys", "scan")
      BY <3>1, <3>3, BackupRequested, Zenon DEF NoTrouble
    <3>4. CASE /\ JobAt(j, "new") /\ UNCHANGED file /\ NoTrouble
               /\ requireTenant(j, "postgres") \/ requireTenant(j, "redis")
      BY <3>1, <3>4, BackupRequested, Zenon DEF NoTrouble
    <3>5. CASE runPgDumpGzip(j) \/ BackupNamespace(j) \/ RecordOutcome(j)
      <4>1. cutOff \subseteq cutOff'
        BY <3>5, Zenon DEF runPgDumpGzip, BackupNamespace, RecordOutcome, DumpFails, NoTrouble
      <4> QED
        BY <3>1, <3>5, <4>1, BackupProceeds, Zenon
    <3> QED
      BY <2>2, <3>2, <3>3, <3>4, <3>5, Zenon
         DEF RunPlatformTenantBackup, RunPlatformTenantRedisBackup
  <2> QED
    BY <2>1, <2>2, TenantSteps, Zenon DEF BackupsNext
<1> QED
  BY BackupInitially, <1>1, PTL DEF BackupsSpec

(* What backup_jobs says of a backup is true of its file, whatever fails,    *)
(* times out or restarts, and however many backups run at once.              *)
THEOREM BackupHistoryTrue == BackupsSpec => []HistoryTrue
<1>1. BackupInv => HistoryTrue
  BY Zenon DEF BackupInv, JobTrue, ArtifactTrue, HistoryTrue, JobAt
<1> QED
  BY BackupInvariant, <1>1, PTL

(* The dump of a tenant that never was in the shared database does not hold  *)
(* the shared database, unless the tenant was deleted under the request.     *)
THEOREM BackupsDumpNoPlatform == BackupsSpec => []NoPlatformDump
<1>1. BackupInv => NoPlatformDump
  BY Zenon DEF BackupInv
<1> QED
  BY BackupInvariant, <1>1, PTL

-----------------------------------------------------------------------------
INSTANCE FiniteSetTheorems

(* Branches counted, and what rests on that.                                *)

(* A set of natural numbers that is not empty has a least element.           *)
LEMMA MinIsLeast ==
  ASSUME NEW S, S \subseteq Nat, S # {}
  PROVE  Min(S) \in S /\ \A y \in S : Min(S) <= y
<1> DEFINE R == {ss \in Nat \X Nat : ss[1] < ss[2]}
<1>1. OpToRel(<, Nat) = R
  BY Zenon DEF OpToRel
<1>2. PICK x \in S : \A y \in S : ~(<<y, x>> \in R)
  <2>1. IsWellFoundedOn(R, Nat)
    BY <1>1, NatLessThanWellFounded, Zenon
  <2> HIDE DEF R
  <2> QED
    BY <2>1, WFMin, Zenon
<1>3. \A y \in S : x \in Nat /\ y \in Nat /\ x <= y
  <2> TAKE y \in S
  <2>1. x \in Nat /\ y \in Nat
    BY Zenon
  <2>2. ~(y < x)
    BY <1>2, <2>1, Zenon
  <2> QED
    BY <2>1, <2>2, SMTT(30)
<1> QED
  BY <1>3, Zenon DEF Min

(* Init establishes the invariant of the branches.                          *)
LEMMA PrimaryInit == BranchesInit => PrimaryInv
<1> SUFFICES ASSUME BranchesInit PROVE PrimaryInv
  BY Zenon
<1>1. Cardinality({}) = 0
  BY FS_EmptySet, Zenon
<1>2. BranchTypes
  BY Zenon DEF BranchesInit, BranchTypes, AdminRecords, InDelete, NoAdmin
<1>3. \A a \in Admins : admin[a] = NoAdmin
  BY Zenon DEF BranchesInit
<1>4. RowsLocked
  BY <1>3, SMTT(30) DEF RowsLocked, NoAdmin
<1>5. \A a \in Admins : DeletionHolds(admin[a]) /\ PromotesSeen(admin[a]) /\ CreationHolds(admin[a], client)
  BY <1>3, SMTT(30) DEF DeletionHolds, PromotesSeen, CreationHolds, NoAdmin, InDelete
<1> QED
  BY <1>1, <1>2, <1>4, <1>5, BranchesAssumption, SMTT(30) DEF BranchesInit, PrimaryInv

(* The steps of a deletion before its commit, and a count.                   *)
LEMMA RequestSteps ==
  ASSUME PrimaryInv, NEW a \in Admins,
         CountBranches(a) \/ DeleteRow(a) \/ ChooseOldest(a) \/ PromoteOldest(a) \/ RollbackDelete(a)
  PROVE  PrimaryInv'
<1> USE DEF InDelete
<1>0. /\ NoAdmin \in AdminRecords /\ NoAdmin.seen = {} /\ NoAdmin.gone = 0 /\ NoAdmin.pick = 0
      /\ NoAdmin.at = "idle"
  BY Zenon DEF NoAdmin, AdminRecords
<1>t. /\ admin[a] \in AdminRecords /\ admin[a].seen \subseteq 1..born /\ branches \subseteq 1..born
      /\ born \in Nat /\ client \in BOOLEAN /\ primary \subseteq branches
      /\ DeletionHolds(admin[a]) /\ PromotesSeen(admin[a]) /\ CreationHolds(admin[a], client)
  BY Zenon DEF PrimaryInv, BranchTypes
<1>n. branches \in SUBSET Nat
  BY <1>t, SMTT(30)
<1>l. \A o \in Admins \ {a} :
        /\ admin[a].gone # 0 => admin[a].gone \notin {admin[o].gone, admin[o].pick}
        /\ admin[a].pick # 0 => admin[a].pick \notin {admin[o].gone, admin[o].pick}
  BY Zenon DEF PrimaryInv, RowsLocked
<1>1. CASE CountBranches(a)
  <2> DEFINE r == [NoAdmin EXCEPT !.at = "insert", !.seen = branches]
  <2>1. /\ r \in AdminRecords /\ r.seen = branches /\ r.at = "insert" /\ r.gone = 0 /\ r.pick = 0
    BY <1>n, Zenon DEF AdminRecords, NoAdmin
  <2>2. Moves(a, r) /\ client /\ Cardinality(branches) < MaxProperties
        /\ UNCHANGED <<client, branches, primary, born, unmarked, hasty, torn>>
    BY <1>1, Zenon DEF CountBranches
  <2> HIDE DEF r
  <2>3. DeletionHolds(r) /\ PromotesSeen(r) /\ CreationHolds(r, client')
    BY <2>1, <2>2, <1>t, Zenon DEF DeletionHolds, PromotesSeen, CreationHolds
  <2> QED
    BY <2>1, <2>2, <2>3, <1>t, OnlyTheRequestMoves, Zenon
<1>2. CASE DeleteRow(a)
  <2>1. PICK b \in branches :
          /\ ~LockedByOthers(a, b)
          /\ Moves(a, [at |-> IF b \in primary THEN "promote" ELSE "commit",
                       seen |-> branches, gone |-> b, want |-> 0, pick |-> 0])
    BY <1>2, Zenon DEF DeleteRow
  <2> DEFINE r == [at |-> IF b \in primary THEN "promote" ELSE "commit",
                   seen |-> branches, gone |-> b, want |-> 0, pick |-> 0]
  <2>2. /\ r \in AdminRecords /\ r.seen = branches /\ r.gone = b /\ r.pick = 0 /\ b # 0
        /\ r.at = IF b \in primary THEN "promote" ELSE "commit"
    BY <1>t, SMTT(30) DEF AdminRecords
  <2>3. Moves(a, r) /\ UNCHANGED <<client, branches, primary, born, unmarked, hasty, torn>>
    BY <1>2, <2>1, Zenon DEF DeleteRow
  <2> HIDE DEF r
  <2>4. DeletionHolds(r) /\ PromotesSeen(r) /\ CreationHolds(r, client')
    BY <2>2, <2>3, <1>t, Zenon DEF DeletionHolds, PromotesSeen, CreationHolds
  <2>5. \A o \in Admins \ {a} : r.gone \notin {admin[o].gone, admin[o].pick}
    BY <2>1, <2>2, Zenon DEF LockedByOthers
  <2>6. client
    BY Zenon DEF PrimaryInv
  <2> QED
    BY <2>2, <2>3, <2>4, <2>5, <2>6, <1>t, OnlyTheRequestMoves, Zenon
<1>3. CASE ChooseOldest(a)
  <2> DEFINE rest == branches \ {admin[a].gone}
             r == IF rest = {} THEN [admin[a] EXCEPT !.at = "commit"]
                               ELSE [admin[a] EXCEPT !.at = "update", !.want = Min(rest)]
  <2>1. /\ admin[a].at = "promote" /\ Moves(a, r)
        /\ UNCHANGED <<client, branches, primary, born, unmarked, hasty, torn>>
    BY <1>3, Zenon DEF ChooseOldest
  <2>2. rest # {} => Min(rest) \in rest /\ \A y \in rest : Min(rest) <= y
    <3>1. 1..born \subseteq Nat
      BY <1>t, SMTT(30)
    <3>2. rest \subseteq Nat
      BY <3>1, <1>t, Zenon
    <3> QED
      BY <3>2, MinIsLeast, Zenon
  <2> DEFINE m == Min(rest)
  <2> HIDE DEF m
  <2>3. /\ r \in AdminRecords /\ r.seen = admin[a].seen /\ r.gone = admin[a].gone
        /\ r.pick = admin[a].pick
        /\ r.at = IF rest = {} THEN "commit" ELSE "update"
        /\ rest # {} => r.want = m
    <3>1. CASE rest = {}
      BY <1>t, <3>1, Zenon DEF AdminRecords
    <3>2. CASE rest # {}
      <4>1. m \in Nat
        BY <3>2, <2>2, <1>n, Zenon DEF m
      <4>2. r = [admin[a] EXCEPT !.at = "update", !.want = m]
        BY <3>2, Zenon DEF m
      <4> QED
        BY <1>t, <3>2, <4>1, <4>2, Zenon DEF AdminRecords
    <3> QED
      BY <3>1, <3>2, Zenon
  <2> HIDE DEF r
  <2>4. admin[a].pick = 0 /\ admin[a].gone # 0 /\ admin[a].gone \in primary
    BY <2>1, <1>t, Zenon DEF DeletionHolds
  <2>5. DeletionHolds(r) /\ CreationHolds(r, client')
    BY <2>1, <2>3, <2>4, <1>t, Zenon DEF DeletionHolds, CreationHolds
  <2>6. PromotesSeen(r)
    <3>1. \A b \in branches \ r.seen, c \in r.seen : c < b
      BY <2>1, <2>3, <1>t, Zenon DEF PromotesSeen
    <3>2. CASE rest = {}
      BY <3>1, <3>2, <2>3, Zenon DEF PromotesSeen
    <3>3. CASE rest # {}
      <4>1. m \in rest /\ \A y \in rest : m <= y
        BY <3>3, <2>2, Zenon DEF m
      <4>2. ASSUME r.seen \subseteq branches, r.seen \ {r.gone} # {}
            PROVE  m \in r.seen \ {r.gone}
        <5>1. PICK c \in r.seen : c # r.gone
          BY <4>2, Zenon
        <5>2. c \in rest /\ m <= c /\ c \in Nat /\ m \in Nat
          <6>1. c \in rest
            BY <5>1, <4>2, <2>3, Zenon
          <6> QED
            BY <6>1, <4>1, <1>n, Zenon
        <5> QED
          BY <4>1, <5>1, <5>2, <3>1, <2>3, SMTT(30)
      <4> QED
        BY <4>2, <3>1, <3>3, <2>3, Zenon DEF PromotesSeen
    <3> QED
      BY <3>2, <3>3, Zenon
  <2>7. client
    BY <2>4, <1>t, Zenon DEF PrimaryInv
  <2> QED
    BY <2>1, <2>3, <2>4, <2>5, <2>6, <2>7, <1>t, <1>l, OnlyTheRequestMoves, Zenon
<1>4. CASE PromoteOldest(a)
  <2> DEFINE b == admin[a].want
             r == [admin[a] EXCEPT !.at = "commit", !.pick = IF b \in branches THEN b ELSE 0]
  <2>1. /\ admin[a].at = "update" /\ ~LockedByOthers(a, b) /\ Moves(a, r)
        /\ UNCHANGED <<client, branches, primary, born, unmarked, hasty, torn>>
    BY <1>4, Zenon DEF PromoteOldest
  <2>2. /\ r \in AdminRecords /\ r.seen = admin[a].seen /\ r.gone = admin[a].gone
        /\ r.pick = (IF b \in branches THEN b ELSE 0) /\ r.at = "commit"
    BY <1>t, Zenon DEF AdminRecords
  <2> HIDE DEF r
  <2>3. admin[a].gone # 0 /\ admin[a].gone \in primary
    BY <2>1, <1>t, Zenon DEF DeletionHolds
  <2>4. DeletionHolds(r) /\ PromotesSeen(r) /\ CreationHolds(r, client')
    BY <2>1, <2>2, <2>3, <1>t, Zenon DEF DeletionHolds, PromotesSeen, CreationHolds
  <2>5. \A o \in Admins \ {a} : r.pick # 0 => r.pick \notin {admin[o].gone, admin[o].pick}
    BY <2>1, <2>2, Zenon DEF LockedByOthers
  <2>6. client
    BY <2>3, <1>t, Zenon DEF PrimaryInv
  <2> QED
    BY <2>1, <2>2, <2>3, <2>4, <2>5, <2>6, <1>t, <1>l, OnlyTheRequestMoves, Zenon
<1>5. CASE RollbackDelete(a)
  <2>1. Moves(a, NoAdmin) /\ UNCHANGED <<client, branches, primary, born, unmarked, hasty, torn>>
    BY <1>5, Zenon DEF RollbackDelete
  <2>2. DeletionHolds(NoAdmin) /\ PromotesSeen(NoAdmin) /\ CreationHolds(NoAdmin, client')
    BY <1>0, Zenon DEF DeletionHolds, PromotesSeen, CreationHolds
  <2>3. client' \/ branches = {}
    BY <2>1, Zenon DEF PrimaryInv
  <2> QED
    BY <2>1, <2>2, <2>3, <1>0, <1>t, OnlyTheRequestMoves, Zenon
<1> QED
  BY <1>1, <1>2, <1>3, <1>4, <1>5, Zenon

(* A branch more: its number is new, and the plan still has room for it      *)
(* unless the count was outdated.                                            *)
LEMMA BranchAdded ==
  ASSUME PrimaryInv, NEW a \in Admins, NEW mark \in BOOLEAN, AddBranch(mark), Moves(a, NoAdmin),
         client, client' = client, torn' = torn,
         hasty' = (hasty \/ branches # admin[a].seen),
         unmarked' \in BOOLEAN, unmarked => unmarked',
         ~hasty' => Cardinality(branches) < MaxProperties,
         ~hasty' /\ mark => branches = {},
         ~hasty' /\ ~unmarked' /\ branches = {} => mark
  PROVE  PrimaryInv'
<1>0. /\ NoAdmin \in AdminRecords /\ NoAdmin.seen = {} /\ NoAdmin.gone = 0 /\ NoAdmin.pick = 0
      /\ NoAdmin.at = "idle"
  BY Zenon DEF NoAdmin, AdminRecords
<1>1. /\ admin'[a] = NoAdmin
      /\ \A o \in Admins : o # a => admin'[o] = admin[o]
      /\ admin' \in [Admins -> AdminRecords]
  BY <1>0, Zenon DEF Moves, PrimaryInv, BranchTypes
<1> DEFINE n == born + 1
<1>2. /\ born \in Nat /\ born' = n /\ branches' = branches \cup {n} /\ branches \subseteq 1..born
      /\ primary' = IF mark THEN primary \cup {n} ELSE primary
      /\ primary \subseteq branches /\ n \notin branches
  BY SMTT(30) DEF AddBranch, PrimaryInv, BranchTypes
<1>3. 1..born \subseteq 1..n
  BY <1>2, SMTT(30)
<1>4. BranchTypes'
  <2>1. branches' \subseteq 1..born' /\ primary' \subseteq branches' /\ born' \in Nat
    BY <1>2, <1>3, SMTT(30)
  <2>2. \A o \in Admins : admin'[o].seen \subseteq 1..born'
    BY <1>0, <1>1, <1>2, <1>3, Zenon DEF PrimaryInv, BranchTypes
  <2> QED
    BY <1>1, <2>1, <2>2, Zenon DEF PrimaryInv, BranchTypes
<1>5. RowsLocked'
  BY <1>0, <1>1, SMTT(30) DEF PrimaryInv, RowsLocked
<1>6. \A o \in Admins :
        (DeletionHolds(admin[o]) /\ PromotesSeen(admin[o]) /\ CreationHolds(admin[o], client))'
  <2> TAKE o \in Admins
  <2>1. CASE o = a
    BY <1>0, <1>1, <2>1, Zenon DEF DeletionHolds, PromotesSeen, CreationHolds, InDelete
  <2>2. CASE o # a
    <3> DEFINE r == admin[o]
    <3>1. /\ admin'[o] = r /\ r \in AdminRecords /\ r.seen \subseteq 1..born
          /\ DeletionHolds(r) /\ PromotesSeen(r) /\ CreationHolds(r, client)
      BY <1>1, <2>2, Zenon DEF PrimaryInv, BranchTypes
    <3>2. DeletionHolds(admin[o])' /\ CreationHolds(admin[o], client)'
      BY <3>1, <1>2, Zenon DEF DeletionHolds, CreationHolds
    <3>3. \A c \in r.seen : c < n
      BY <3>1, <1>2, SMTT(30)
    <3>4. r.gone \in primary' => r.gone \in primary
      BY <3>1, <1>2, <1>3, SMTT(30) DEF DeletionHolds, AdminRecords
    <3>5. r.seen \subseteq branches' => r.seen \subseteq branches
      BY <3>3, <1>2, SMTT(30)
    <3> HIDE DEF n
    <3>6. PromotesSeen(admin[o])'
      BY <3>1, <3>3, <3>4, <3>5, <1>2, Zenon DEF PromotesSeen
    <3> QED
      BY <3>2, <3>6, Zenon
  <2> QED
    BY <2>1, <2>2, Zenon
<1>7. IsFiniteSet(branches)
  <2>1. IsFiniteSet(1..born)
    BY <1>2, FS_Interval, SMTT(30)
  <2> QED
    BY <2>1, <1>2, FS_Subset, Zenon
<1>8. Cardinality(branches') = Cardinality(branches) + 1 /\ Cardinality(branches) \in Nat
  BY <1>2, <1>7, FS_AddElement, FS_CardinalityType, Zenon
<1>9. hasty' \in BOOLEAN /\ (hasty => hasty')
  BY Zenon DEF PrimaryInv, BranchTypes
<1>10. (~hasty => Cardinality(branches) <= MaxProperties)'
  BY <1>8, BranchesAssumption, SMTT(30)
<1>11. (~hasty => \A x, y \in primary : x = y)'
  BY <1>2, <1>9, Zenon DEF PrimaryInv
<1>12. (branches # {} /\ ~unmarked /\ ~hasty /\ ~torn => primary # {})'
  BY <1>2, <1>9, Zenon DEF PrimaryInv
<1> QED
  BY <1>4, <1>5, <1>6, <1>10, <1>11, <1>12, Zenon DEF PrimaryInv

(* A branch is created, by the console or with the hotel.                   *)
LEMMA CreationSteps ==
  ASSUME PrimaryInv, NEW a \in Admins, CreateHotel(a) \/ InsertBranch(a)
  PROVE  PrimaryInv'
<1>t. /\ admin[a] \in AdminRecords /\ client \in BOOLEAN /\ unmarked \in BOOLEAN /\ hasty \in BOOLEAN
      /\ CreationHolds(admin[a], client) /\ (~client => branches = {})
  BY Zenon DEF PrimaryInv, BranchTypes
<1>0. Cardinality({}) = 0
  BY FS_EmptySet, Zenon
<1>1. CASE InsertBranch(a)
  <2>1. /\ admin[a].at = "insert" /\ AddBranch(isPrimary(admin[a].seen)) /\ Moves(a, NoAdmin)
        /\ hasty' = (hasty \/ branches # admin[a].seen)
        /\ UNCHANGED <<client, unmarked, torn>>
    BY <1>1, Zenon DEF InsertBranch
  <2>2. client /\ Cardinality(admin[a].seen) < MaxProperties
    BY <2>1, <1>t, Zenon DEF CreationHolds
  <2>3. isPrimary(admin[a].seen) \in BOOLEAN
    BY Zenon DEF isPrimary
  <2>4. ~hasty' => branches = admin[a].seen
    BY <2>1, <1>t, Zenon
  <2>5. isPrimary(admin[a].seen) <=> admin[a].seen = {}
    BY Zenon DEF isPrimary
  <2> QED
    BY <2>1, <2>2, <2>3, <2>4, <2>5, <1>t, BranchAdded, Zenon
<1>2. CASE admin[a].at = "idle" /\ CreateHotel(a)
  <2> DEFINE r == [NoAdmin EXCEPT !.at = "property", !.seen = branches]
  <2>1. /\ ~client /\ client' = TRUE /\ Moves(a, r)
        /\ UNCHANGED <<branches, primary, born, unmarked, hasty, torn>>
    BY <1>2, Zenon DEF CreateHotel
  <2>2. branches = {}
    BY <2>1, <1>t, Zenon
  <2>3. r \in AdminRecords /\ r.seen = {} /\ r.at = "property" /\ r.gone = 0 /\ r.pick = 0
    BY <2>2, Zenon DEF AdminRecords, NoAdmin
  <2> HIDE DEF r
  <2>4. DeletionHolds(r) /\ PromotesSeen(r) /\ CreationHolds(r, client')
    BY <2>1, <2>3, Zenon DEF DeletionHolds, PromotesSeen, CreationHolds, InDelete
  <2> QED
    BY <2>1, <2>2, <2>3, <2>4, OnlyTheRequestMoves, Zenon
<1>3. CASE admin[a].at = "property" /\ CreateHotel(a)
  <2>1. client /\ admin[a].seen = {}
    BY <1>3, <1>t, Zenon DEF CreationHolds
  <2>2. Moves(a, NoAdmin) /\ UNCHANGED <<client, torn>>
    BY <1>3, Zenon DEF CreateHotel
  <2>3. CASE AddBranch(FALSE) /\ unmarked' = TRUE /\ hasty' = (hasty \/ branches # admin[a].seen)
    <3>1. ~hasty' => branches = {}
      BY <2>1, <2>3, <1>t, Zenon
    <3>2. ~hasty' => Cardinality(branches) < MaxProperties
      BY <3>1, <1>0, BranchesAssumption, SMTT(30)
    <3>3. hasty' = (hasty \/ branches # admin[a].seen) /\ unmarked' \in BOOLEAN
          /\ ~(~hasty' /\ ~unmarked' /\ branches = {})
      BY <2>3, Zenon
    <3> QED
      BY <2>1, <2>2, <2>3, <3>2, <3>3, BranchAdded, Zenon
  <2>4. CASE UNCHANGED <<branches, primary, born, unmarked, hasty>>
    <3>1. NoAdmin \in AdminRecords /\ NoAdmin.seen = {} /\ NoAdmin.gone = 0 /\ NoAdmin.pick = 0
          /\ NoAdmin.at = "idle"
      BY Zenon DEF NoAdmin, AdminRecords
    <3>2. DeletionHolds(NoAdmin) /\ PromotesSeen(NoAdmin) /\ CreationHolds(NoAdmin, client')
      BY <3>1, Zenon DEF DeletionHolds, PromotesSeen, CreationHolds, InDelete
    <3> QED
      BY <2>1, <2>2, <2>4, <3>1, <3>2, OnlyTheRequestMoves, Zenon
  <2> QED
    BY <2>3, <2>4, <1>3, Zenon DEF CreateHotel
<1> QED
  BY <1>1, <1>2, <1>3, Zenon DEF CreateHotel

(* The commit of a deletion: a primary branch that goes leaves the promoted  *)
(* one in its place.                                                         *)
LEMMA CommitStep ==
  ASSUME PrimaryInv, NEW a \in Admins, CommitDelete(a)
  PROVE  PrimaryInv'
<1> DEFINE r == admin[a]
<1>0. /\ NoAdmin \in AdminRecords /\ NoAdmin.seen = {} /\ NoAdmin.gone = 0 /\ NoAdmin.pick = 0
      /\ NoAdmin.at = "idle"
  BY Zenon DEF NoAdmin, AdminRecords
<1>1. /\ r.at = "commit" /\ branches' = branches \ {r.gone}
      /\ primary' = (primary \cup {r.pick}) \cap branches'
      /\ torn' = (torn \/ branches # r.seen)
      /\ UNCHANGED <<client, born, unmarked, hasty>>
  BY Zenon DEF CommitDelete
<1>2. /\ admin'[a] = NoAdmin
      /\ \A o \in Admins : o # a => admin'[o] = admin[o]
      /\ admin' \in [Admins -> AdminRecords]
  BY <1>0, Zenon DEF CommitDelete, Moves, PrimaryInv, BranchTypes
<1>t. /\ born \in Nat /\ branches \subseteq 1..born /\ primary \subseteq branches /\ torn \in BOOLEAN
      /\ r \in AdminRecords /\ DeletionHolds(r) /\ PromotesSeen(r)
  BY Zenon DEF PrimaryInv, BranchTypes
<1>3. BranchTypes'
  <2>1. branches' \subseteq 1..born' /\ primary' \subseteq branches' /\ torn' \in BOOLEAN
    BY <1>1, <1>t, Zenon
  <2>2. \A o \in Admins : admin'[o].seen \subseteq 1..born'
    BY <1>0, <1>1, <1>2, Zenon DEF PrimaryInv, BranchTypes
  <2> QED
    BY <1>1, <1>2, <2>1, <2>2, Zenon DEF PrimaryInv, BranchTypes
<1>4. RowsLocked'
  BY <1>0, <1>2, SMTT(30) DEF PrimaryInv, RowsLocked
<1>5. \A o \in Admins :
        (DeletionHolds(admin[o]) /\ PromotesSeen(admin[o]) /\ CreationHolds(admin[o], client))'
  <2> TAKE o \in Admins
  <2>1. CASE o = a
    BY <1>0, <1>2, <2>1, Zenon DEF DeletionHolds, PromotesSeen, CreationHolds, InDelete
  <2>2. CASE o # a
    <3> DEFINE q == admin[o]
    <3>1. /\ admin'[o] = q /\ DeletionHolds(q) /\ PromotesSeen(q) /\ CreationHolds(q, client)
      BY <1>2, <2>2, Zenon DEF PrimaryInv
    <3>2. /\ r.gone # 0 /\ r.gone \notin {q.gone, q.pick}
          /\ r.pick # 0 => r.pick # q.gone
          /\ q.gone # 0 => q.gone # r.pick
      BY <1>1, <1>t, <2>2, Zenon DEF PrimaryInv, RowsLocked, DeletionHolds, InDelete
    <3>3. q.gone \in branches => (q.gone \in primary' <=> q.gone \in primary)
      BY <1>1, <1>t, <3>2, SMTT(30)
    <3>4. DeletionHolds(admin[o])'
      BY <3>1, <3>2, <3>3, <1>1, <1>t, ZenonT(30) DEF DeletionHolds
    <3>5. CreationHolds(admin[o], client)'
      BY <3>1, <1>1, ZenonT(30) DEF CreationHolds
    <3>6. PromotesSeen(admin[o])'
      BY <3>1, <3>3, <1>1, <1>t, ZenonT(30) DEF PromotesSeen, DeletionHolds, InDelete
    <3> QED
      BY <3>4, <3>5, <3>6, Zenon
  <2> QED
    BY <2>1, <2>2, Zenon
<1>6. (~hasty => \A x, y \in primary : x = y)'
  BY <1>1, <1>t, SMTT(30) DEF PrimaryInv, DeletionHolds
<1>7. (branches # {} /\ ~unmarked /\ ~hasty /\ ~torn => primary # {})'
  <2> SUFFICES ASSUME branches' # {}, ~unmarked, ~hasty, ~torn' PROVE primary' # {}
    BY <1>1, Zenon
  <2>1. ~torn /\ branches = r.seen /\ primary # {}
    BY <1>1, <1>t, Zenon DEF PrimaryInv
  <2>2. CASE r.gone \in primary
    BY <2>1, <2>2, <1>1, <1>t, Zenon DEF PromotesSeen
  <2>3. CASE r.gone \notin primary
    BY <2>1, <2>3, <1>1, <1>t, Zenon
  <2> QED
    BY <2>2, <2>3, Zenon
<1>8. (~hasty => Cardinality(branches) <= MaxProperties)'
  <2>1. IsFiniteSet(1..born)
    BY <1>t, FS_Interval, SMTT(30)
  <2>2. IsFiniteSet(branches)
    BY <2>1, <1>t, FS_Subset, Zenon
  <2>3. Cardinality(branches') <= Cardinality(branches) /\ IsFiniteSet(branches')
    BY <2>2, <1>1, FS_Subset, Zenon
  <2>4. Cardinality(branches') \in Nat /\ Cardinality(branches) \in Nat
    BY <2>2, <2>3, FS_CardinalityType, Zenon
  <2> QED
    BY <2>3, <2>4, <1>1, BranchesAssumption, SMTT(30) DEF PrimaryInv
<1> QED
  BY <1>1, <1>3, <1>4, <1>5, <1>6, <1>7, <1>8, Zenon DEF PrimaryInv

(* The invariant implies what the branches promise.                         *)
LEMMA PrimaryInvSays == PrimaryInv => OnePrimary /\ WithinPlan
<1> SUFFICES ASSUME PrimaryInv PROVE OnePrimary /\ WithinPlan
  BY Zenon
<1>1. ASSUME ~hasty PROVE Cardinality(primary) <= 1 /\ Cardinality(primary) \in Nat
  <2>1. CASE primary = {}
    BY <2>1, FS_EmptySet, SMTT(30)
  <2>2. CASE primary # {}
    <3>1. PICK x \in primary : TRUE
      BY <2>2, Zenon
    <3>2. primary = {x}
      BY <1>1, <3>1, Zenon DEF PrimaryInv
    <3> QED
      BY <3>2, FS_Singleton, SMTT(30)
  <2> QED
    BY <2>1, <2>2, Zenon
<1>2. ~hasty => Cardinality(branches) <= MaxProperties /\ Cardinality(branches) \in Nat
  <2>1. born \in Nat /\ branches \subseteq 1..born
    BY Zenon DEF PrimaryInv, BranchTypes
  <2>2. IsFiniteSet(1..born)
    BY <2>1, FS_Interval, SMTT(30)
  <2>3. IsFiniteSet(branches)
    BY <2>1, <2>2, FS_Subset, Zenon
  <2> QED
    BY <2>3, FS_CardinalityType, Zenon DEF PrimaryInv
<1> QED
  BY <1>1, <1>2, BranchesAssumption, SMTT(30) DEF PrimaryInv, OnePrimary, WithinPlan

(* The invariant of the branches holds in every reachable state.            *)
LEMMA PrimaryInvariant == BranchesSpec => []PrimaryInv
<1>1. PrimaryInv /\ [BranchesNext]_branchVars => PrimaryInv'
  <2> SUFFICES ASSUME PrimaryInv, [BranchesNext]_branchVars PROVE PrimaryInv'
    BY Zenon
  <2>1. CASE UNCHANGED branchVars
    BY <2>1, Zenon DEF branchVars, PrimaryInv, BranchTypes, RowsLocked, DeletionHolds, PromotesSeen
  <2>2. CASE BranchesNext
    BY <2>2, RequestSteps, CreationSteps, CommitStep, Zenon
       DEF BranchesNext, createBranchFor, DeleteBranch
  <2> QED
    BY <2>1, <2>2, Zenon
<1> QED
  BY PrimaryInit, <1>1, PTL DEF BranchesSpec

(* DeleteBranch and the creations of a branch keep one primary, whatever the *)
(* number of requests and of branches, and however their statements mix      *)
(* (branch_handler.go).                                                      *)
THEOREM BranchesKeepOnePrimary == BranchesSpec => []OnePrimary
BY PrimaryInvariant, PrimaryInvSays, PTL

(* A client has no more branches than its plan allows, unless a creation    *)
(* counted them before another one was stored (branch_handler.go).          *)
THEOREM BranchesWithinPlan == BranchesSpec => []WithinPlan
BY PrimaryInvariant, PrimaryInvSays, PTL

=============================================================================
