------------------------------- MODULE ConsoleProofs -------------------------------
(***************************************************************************)
(* Proofs about what the platform's console governs: the tenants and their *)
(* databases, the accounts of their staff, and the gates that decide which *)
(* features a request may use; for any number of tenants, users, requests  *)
(* and failures.                                                           *)
(***************************************************************************)
EXTENDS Tenancy, Accounts, FeatureGates, Integers, TLAPS

(* Tenancy: the invariant behind RowsStayHome and the others.                *)
CleaningSteps == {"unsite", "undns", "flush", "drop"}
DnsDone == {"dns noted", "site", "site noted", "redis", "active"}
SiteDone == {"site noted", "redis", "active"}
FlipSteps == {"flip", "redo flip"}
WorkSteps == {"portal", "provision", "seed", "dns", "redo", "redo seed", "delete"}
               \cup CleaningSteps \cup DnsDone \cup FlipSteps
RegRecords == [mode : {"none", "shared", "provisioned", "dedicated"}, db : Slugs \cup {"none"},
               dns : BOOLEAN, domain : BOOLEAN, status : {"none", "pending", "active"}]
AgentRecords == [at : WorkSteps \cup {"idle", "write"}, t : Tenants \cup {"none"},
                 slug : Slugs \cup {"none", "shared"}, reg : RegRecords]

TenancyTypes ==
    /\ hotel \in [Tenants -> [slug : Slugs \cup {"none"}, live : BOOLEAN]]
    /\ reg \in [Tenants -> RegRecords] /\ agent \in [Agents -> AgentRecords]
    /\ \A t \in Tenants : conf[t].db \in Slugs \cup {"none"}
    /\ DOMAIN conf = Tenants
    /\ DOMAIN seeded \subseteq Slugs /\ rows \subseteq Tenants \X (Slugs \cup {"shared"})

(* A database holds only hotels of its slug, and so do the rows in it.       *)
DataHome ==
    /\ \A d \in DOMAIN seeded : \A t \in seeded[d] : t \in Tenants /\ hotel[t].slug = d
    /\ \A r \in rows : r[2] # "shared" => r[2] \in DOMAIN seeded
    /\ RowsStayHome

Seeded(t, d) == d \in DOMAIN seeded /\ t \in seeded[d]

(* A hotel that does not exist has no registry row; one that was not hit has *)
(* what its row promises.                                                    *)
TenantHolds(t) ==
    /\ Live(t) => hotel[t].slug # "none"
    /\ ~Live(t) => reg[t] = NoReg
    /\ t \notin hit =>
         /\ reg[t].status = "active" => hotel[t].slug \in dns \cap site /\ t \in redis
         /\ reg[t].mode = "dedicated" => reg[t].db = hotel[t].slug /\ Seeded(t, hotel[t].slug)

(* A request works on a hotel that was created, under its slug; a cleanup on *)
(* one that is gone; a provisioning job has done what its steps say.         *)
AgentHolds(a) ==
    LET t == agent[a].t
        s == agent[a].slug
        at == agent[a].at
    IN /\ at \in WorkSteps => t \in Tenants /\ s \in Slugs /\ hotel[t].slug = s
       /\ at = "write" => t \in Tenants
       /\ at \in CleaningSteps => ~Live(t)
       /\ at \in WorkSteps /\ Live(t) /\ t \notin hit =>
            /\ at \in DnsDone => s \in dns
            /\ at \in SiteDone => s \in site
            /\ at = "active" => t \in redis
            /\ at \in FlipSteps /\ agent[a].reg.mode = "dedicated" => Seeded(t, s)

TenancyInv ==
    /\ TenancyTypes /\ DataHome
    /\ \A t \in Tenants : TenantHolds(t)
    /\ \A a \in Agents : AgentHolds(a)

(* Init establishes the invariant.                                          *)
LEMMA TenancyInitially == TenancyInit => TenancyInv
<1> SUFFICES ASSUME TenancyInit PROVE TenancyInv
  BY Zenon
<1>1. NoReg \in RegRecords /\ NoReg.mode = "none" /\ NoReg.status = "none"
  BY Zenon DEF NoReg, RegRecords
<1>2. NoAgent \in AgentRecords /\ NoAgent.at = "idle"
  BY <1>1, Zenon DEF NoAgent, AgentRecords
<1>3. NoHotel \in [slug : Slugs \cup {"none"}, live : BOOLEAN] /\ ~NoHotel.live
  BY Zenon DEF NoHotel
<1>4. NoRoute.db = "none"
  BY Zenon DEF NoRoute
<1>5. TenancyTypes /\ DataHome
  BY <1>1, <1>2, <1>3, <1>4, Zenon DEF TenancyInit, TenancyTypes, DataHome, RowsStayHome
<1>6. \A t \in Tenants : TenantHolds(t)
  BY <1>1, <1>3, Zenon DEF TenancyInit, TenantHolds, Live
<1>7. \A a \in Agents : AgentHolds(a)
  BY <1>2, Zenon DEF TenancyInit, AgentHolds, WorkSteps, CleaningSteps, DnsDone, SiteDone, FlipSteps
<1> QED
  BY <1>5, <1>6, <1>7, Zenon DEF TenancyInv

(* What a step may not take from those it does not touch: a hotel keeps its  *)
(* slug and is not revived, and a living one that is not hit keeps what it   *)
(* has at the providers, in Redis and among the databases.                   *)
Keeps ==
    /\ hit \subseteq hit'
    /\ \A t \in Tenants : hotel[t].slug # "none" =>
         hotel'[t].slug = hotel[t].slug /\ (hotel'[t].live => hotel[t].live)
    /\ \A t \in Tenants : hotel[t].slug # "none" /\ hotel'[t].live /\ t \notin hit' =>
         /\ hotel[t].slug \in dns => hotel[t].slug \in dns'
         /\ hotel[t].slug \in site => hotel[t].slug \in site'
         /\ t \in redis => t \in redis'
         /\ Seeded(t, hotel[t].slug) => Seeded(t, hotel[t].slug)'

(* Whatever a step leaves alone stays as the invariant says.                *)
LEMMA UntouchedKeep ==
  ASSUME TenancyInv, Keeps
  PROVE  /\ \A b \in Agents : agent'[b] = agent[b] => AgentHolds(b)'
         /\ \A t \in Tenants : reg'[t] = reg[t] /\ hotel'[t] = hotel[t] => TenantHolds(t)'
<1>1. ASSUME NEW b \in Agents, agent'[b] = agent[b] PROVE AgentHolds(b)'
  <2>1. AgentHolds(b) /\ agent[b] \in AgentRecords
    BY Zenon DEF TenancyInv, TenancyTypes
  <2>2. agent[b].at \in WorkSteps => hotel[agent[b].t].slug # "none"
    BY <2>1, TenancyAssumption, Zenon DEF AgentHolds
  <2>3. agent[b].at \in CleaningSteps \cup DnsDone \cup SiteDone \cup FlipSteps => agent[b].at \in WorkSteps
    BY Zenon DEF WorkSteps, CleaningSteps, DnsDone, SiteDone, FlipSteps
  <2> QED
    BY <1>1, <2>1, <2>2, <2>3, Zenon DEF AgentHolds, Keeps, Live
<1>2. ASSUME NEW t \in Tenants, reg'[t] = reg[t], hotel'[t] = hotel[t] PROVE TenantHolds(t)'
  <2>1. TenantHolds(t)
    BY Zenon DEF TenancyInv
  <2>2. NoReg.status # "active" /\ NoReg.mode # "dedicated"
    BY Zenon DEF NoReg
  <2> QED
    BY <1>2, <2>1, <2>2, Zenon DEF TenantHolds, Keeps, Live
<1> QED
  BY <1>1, <1>2, Zenon

(* How a request moves.                                                      *)
LEMMA AgentMoves ==
  ASSUME TenancyInv, NEW a \in Agents, NEW step \in WorkSteps
  PROVE  /\ GoTo(a, step) =>
              /\ agent' \in [Agents -> AgentRecords] /\ \A b \in Agents \ {a} : agent'[b] = agent[b]
              /\ agent'[a].at = step /\ agent'[a].t = agent[a].t /\ agent'[a].slug = agent[a].slug
              /\ agent'[a].reg = agent[a].reg
         /\ Leave(a) => /\ agent' \in [Agents -> AgentRecords] /\ \A b \in Agents \ {a} : agent'[b] = agent[b]
                        /\ AgentHolds(a)'
<1>1. agent \in [Agents -> AgentRecords]
  BY Zenon DEF TenancyInv, TenancyTypes
<1>2. NoAgent \in AgentRecords /\ NoAgent.at = "idle"
  BY Zenon DEF NoAgent, NoReg, AgentRecords, RegRecords
<1>3. ASSUME Leave(a) PROVE AgentHolds(a)'
  <2>1. agent'[a] = NoAgent
    BY <1>1, <1>3, Zenon DEF Leave
  <2> QED
    BY <2>1, <1>2, Zenon DEF AgentHolds, WorkSteps, CleaningSteps, DnsDone, SiteDone, FlipSteps
<1>4. ASSUME GoTo(a, step)
      PROVE  /\ agent' \in [Agents -> AgentRecords] /\ \A b \in Agents \ {a} : agent'[b] = agent[b]
             /\ agent'[a].at = step /\ agent'[a].t = agent[a].t /\ agent'[a].slug = agent[a].slug
             /\ agent'[a].reg = agent[a].reg
  BY <1>1, <1>4, Zenon DEF GoTo, AgentRecords
<1> QED
  BY <1>1, <1>2, <1>3, <1>4, Zenon DEF Leave

(* A step of one agent that keeps its own part keeps the invariant.         *)
LEMMA OneAgentStep ==
  ASSUME TenancyInv, NEW a \in Agents, Keeps, TenancyTypes', DataHome',
         \A b \in Agents \ {a} : agent'[b] = agent[b], AgentHolds(a)',
         \A t \in Tenants : (reg'[t] = reg[t] /\ hotel'[t] = hotel[t]) \/ TenantHolds(t)'
  PROVE  TenancyInv'
BY UntouchedKeep, Zenon DEF TenancyInv

(* A step that changes neither the hotels nor the databases.                 *)
LEMMA SameData ==
  ASSUME TenancyInv, UNCHANGED <<hotel, seeded, rows, hit>>,
         reg' \in [Tenants -> RegRecords], agent' \in [Agents -> AgentRecords],
         UNCHANGED conf \/ (DOMAIN conf' = Tenants /\ \A t \in Tenants : conf'[t].db \in Slugs \cup {"none"})
  PROVE  TenancyTypes' /\ DataHome'
<1>1. TenancyTypes'
  BY Zenon DEF TenancyInv, TenancyTypes
<1>2. DataHome'
  BY Zenon DEF TenancyInv, DataHome, RowsStayHome, Live
<1> QED
  BY <1>1, <1>2, Zenon

(* A step that changes no more than the requests and the routes.             *)
LEMMA QuietStep ==
  ASSUME TenancyInv, NEW a \in Agents, UNCHANGED <<hotel, reg, infra, hit>>,
         agent' \in [Agents -> AgentRecords], \A b \in Agents \ {a} : agent'[b] = agent[b], AgentHolds(a)',
         UNCHANGED conf \/ (DOMAIN conf' = Tenants /\ \A t \in Tenants : conf'[t].db \in Slugs \cup {"none"})
  PROVE  TenancyInv'
<1>1. /\ hotel' = hotel /\ reg' = reg /\ seeded' = seeded /\ rows' = rows /\ dns' = dns
      /\ site' = site /\ redis' = redis /\ hit' = hit
  BY Zenon DEF infra
<1>2. TenancyTypes' /\ DataHome'
  BY <1>1, SameData, Zenon DEF TenancyInv, TenancyTypes
<1>3. Keeps
  BY <1>1, Zenon DEF Keeps, Seeded
<1> QED
  BY <1>1, <1>2, <1>3, OneAgentStep, Zenon

(* Writing one agent leaves the others alone.                               *)
LEMMA AgentSet ==
  ASSUME TenancyInv, NEW a \in Agents, NEW r \in AgentRecords, agent' = [agent EXCEPT ![a] = r]
  PROVE  /\ agent' \in [Agents -> AgentRecords] /\ agent'[a] = r
         /\ \A b \in Agents \ {a} : agent'[b] = agent[b]
BY Zenon DEF TenancyInv, TenancyTypes

(* The first steps of a work promise nothing yet.                            *)
LEMMA EarlySteps ==
  ASSUME NEW step \in {"portal", "provision", "seed", "dns", "redo", "redo seed", "delete"}
  PROVE  /\ step \in WorkSteps /\ step \notin CleaningSteps /\ step \notin DnsDone
         /\ step \notin SiteDone /\ step # "active" /\ step \notin FlipSteps /\ step # "write"
BY Zenon DEF WorkSteps, CleaningSteps, DnsDone, SiteDone, FlipSteps

(* Steps that only read.                                                     *)
LEMMA ReadingSteps ==
  ASSUME TenancyInv, NEW a \in Agents,
         \/ ensureRolePortalSettingsForHotel(a)
         \/ AgentAt(a, "idle") /\ (ProvisionTenantDB(a) \/ DeletePlatformTenant(a))
         \/ PoolForHotel(a)
  PROVE  TenancyInv'
<1> USE DEF AgentAt
<1>t. /\ agent \in [Agents -> AgentRecords] /\ AgentHolds(a)
      /\ hotel \in [Tenants -> [slug : Slugs \cup {"none"}, live : BOOLEAN]] /\ reg \in [Tenants -> RegRecords]
      /\ \A t \in Tenants : Live(t) => hotel[t].slug \in Slugs
  BY Zenon DEF TenancyInv, TenancyTypes, TenantHolds
<1>r. NoReg \in RegRecords
  BY Zenon DEF NoReg, RegRecords
<1>1. CASE ensureRolePortalSettingsForHotel(a)
  <2>1. UNCHANGED <<hotel, reg, infra, conf, hit>> /\ agent[a].at = "portal"
    BY <1>1, Zenon DEF ensureRolePortalSettingsForHotel
  <2>2. CASE GoTo(a, "provision")
    <3>1. AgentHolds(a)'
      <4>1. agent'[a].at = "provision" /\ agent'[a].t = agent[a].t /\ agent'[a].slug = agent[a].slug
        BY <2>2, EarlySteps, AgentMoves, Zenon
      <4>2. agent[a].t \in Tenants /\ agent[a].slug \in Slugs /\ hotel[agent[a].t].slug = agent[a].slug
        BY <2>1, <1>t, EarlySteps, Zenon DEF AgentHolds
      <4> QED
        BY <2>1, <4>1, <4>2, EarlySteps, Zenon DEF AgentHolds
    <3> QED
      BY <2>1, <2>2, <3>1, EarlySteps, AgentMoves, QuietStep, Zenon
  <2>3. CASE Leave(a)
    BY <2>1, <2>3, EarlySteps, AgentMoves, QuietStep, Zenon
  <2> QED
    BY <1>1, <2>2, <2>3, Zenon DEF ensureRolePortalSettingsForHotel
<1>2. CASE AgentAt(a, "idle") /\ (ProvisionTenantDB(a) \/ DeletePlatformTenant(a))
  <2>1. UNCHANGED <<hotel, reg, infra, conf, hit>>
    BY <1>2, Zenon DEF ProvisionTenantDB, DeletePlatformTenant, CleanupStep
  <2>2. \E t \in Tenants : /\ Live(t)
          /\ \/ agent' = [agent EXCEPT ![a] = [NoAgent EXCEPT !.at = "redo", !.t = t, !.slug = hotel[t].slug]]
             \/ agent' = [agent EXCEPT ![a] = [at |-> "delete", t |-> t, slug |-> hotel[t].slug, reg |-> reg[t]]]
    BY <1>2, Zenon DEF ProvisionTenantDB, DeletePlatformTenant, CleanupStep
  <2>3. PICK t \in Tenants : /\ Live(t)
          /\ \/ agent' = [agent EXCEPT ![a] = [NoAgent EXCEPT !.at = "redo", !.t = t, !.slug = hotel[t].slug]]
             \/ agent' = [agent EXCEPT ![a] = [at |-> "delete", t |-> t, slug |-> hotel[t].slug, reg |-> reg[t]]]
    BY <2>2, Zenon
  <2>4. /\ agent' \in [Agents -> AgentRecords] /\ \A b \in Agents \ {a} : agent'[b] = agent[b]
        /\ agent'[a].at \in {"redo", "delete"} /\ agent'[a].t = t /\ agent'[a].slug = hotel[t].slug
    <3>1. CASE agent' = [agent EXCEPT ![a] = [NoAgent EXCEPT !.at = "redo", !.t = t, !.slug = hotel[t].slug]]
      <4> DEFINE r == [NoAgent EXCEPT !.at = "redo", !.t = t, !.slug = hotel[t].slug]
      <4>1. r \in AgentRecords /\ r.at = "redo" /\ r.t = t /\ r.slug = hotel[t].slug
        BY <1>t, <1>r, EarlySteps, Zenon DEF NoAgent, AgentRecords
      <4> HIDE DEF r
      <4> QED
        BY <3>1, <4>1, AgentSet, Zenon DEF r
    <3>2. CASE agent' = [agent EXCEPT ![a] = [at |-> "delete", t |-> t, slug |-> hotel[t].slug, reg |-> reg[t]]]
      <4> DEFINE r == [at |-> "delete", t |-> t, slug |-> hotel[t].slug, reg |-> reg[t]]
      <4>1. r \in AgentRecords /\ r.at = "delete" /\ r.t = t /\ r.slug = hotel[t].slug
        BY <1>t, EarlySteps, Zenon DEF AgentRecords
      <4> HIDE DEF r
      <4> QED
        BY <3>2, <4>1, AgentSet, Zenon DEF r
    <3> QED
      BY <3>1, <3>2, <2>3, Zenon
  <2>5. AgentHolds(a)'
    BY <2>1, <2>3, <2>4, <1>t, EarlySteps, ZenonT(30) DEF AgentHolds
  <2> QED
    BY <2>1, <2>4, <2>5, QuietStep, Zenon
<1>3. CASE PoolForHotel(a)
  <2>1. UNCHANGED <<hotel, reg, infra, hit>>
    BY <1>3, ZenonT(30) DEF PoolForHotel
  <2>a. PICK t \in Tenants : \E route :
          /\ route = IF conf[t] # NoRoute THEN conf[t]
                     ELSE IF Live(t) THEN [mode |-> reg[t].mode, db |-> reg[t].db]
                     ELSE [mode |-> "shared", db |-> "none"]
          /\ conf' = [conf EXCEPT ![t] = route]
          /\ \E s \in {route.db, "shared"} :
               agent' = [agent EXCEPT ![a] = [NoAgent EXCEPT !.at = "write", !.t = t, !.slug = s]]
    BY <1>3, Zenon DEF PoolForHotel
  <2>2. PICK route :
          /\ route = IF conf[t] # NoRoute THEN conf[t]
                     ELSE IF Live(t) THEN [mode |-> reg[t].mode, db |-> reg[t].db]
                     ELSE [mode |-> "shared", db |-> "none"]
          /\ conf' = [conf EXCEPT ![t] = route]
          /\ \E s \in {route.db, "shared"} :
               agent' = [agent EXCEPT ![a] = [NoAgent EXCEPT !.at = "write", !.t = t, !.slug = s]]
    BY <2>a, Zenon
  <2>3. route.db \in Slugs \cup {"none"}
    BY <2>2, <1>t, Zenon DEF TenancyInv, TenancyTypes, RegRecords
  <2>4. DOMAIN conf' = Tenants /\ \A u \in Tenants : conf'[u].db \in Slugs \cup {"none"}
    BY <2>2, <2>3, Zenon DEF TenancyInv, TenancyTypes
  <2>5. /\ agent' \in [Agents -> AgentRecords] /\ \A b \in Agents \ {a} : agent'[b] = agent[b]
        /\ agent'[a].at = "write" /\ agent'[a].t = t
    <3>1. PICK s \in {route.db, "shared"} :
               agent' = [agent EXCEPT ![a] = [NoAgent EXCEPT !.at = "write", !.t = t, !.slug = s]]
      BY <2>2, Zenon
    <3> DEFINE r == [NoAgent EXCEPT !.at = "write", !.t = t, !.slug = s]
    <3>2. r \in AgentRecords /\ r.at = "write" /\ r.t = t
      BY <2>3, <3>1, <1>r, Zenon DEF NoAgent, AgentRecords
    <3> HIDE DEF r
    <3> QED
      BY <3>1, <3>2, AgentSet, Zenon DEF r
  <2>6. AgentHolds(a)'
    BY <2>5, Zenon DEF AgentHolds, WorkSteps, CleaningSteps, DnsDone, SiteDone, FlipSteps
  <2> QED
    BY <2>1, <2>4, <2>5, <2>6, QuietStep, Zenon
<1> QED
  BY <1>1, <1>2, <1>3, Zenon

(* A request at work has a hotel that was created, and its slug.             *)
LEMMA WorksOn ==
  ASSUME TenancyInv, NEW a \in Agents, agent[a].at \in WorkSteps
  PROVE  /\ agent[a].t \in Tenants /\ agent[a].slug \in Slugs
         /\ hotel[agent[a].t].slug = agent[a].slug /\ agent[a].slug # "none" /\ agent[a].slug # "shared"
BY TenancyAssumption, Zenon DEF TenancyInv, AgentHolds

(* The transaction that creates a tenant.                                   *)
LEMMA CreateStep ==
  ASSUME TenancyInv, NEW a \in Agents, CreateTenantTx(a)
  PROVE  TenancyInv'
<1>1. PICK t \in Tenants, s \in Slugs :
       /\ hotel[t] = NoHotel
       /\ hotel' = [hotel EXCEPT ![t] = [slug |-> s, live |-> TRUE]]
       /\ reg' = [reg EXCEPT ![t] = [NoReg EXCEPT !.mode = "shared", !.status = "pending"]]
       /\ agent' = [agent EXCEPT ![a] = [NoAgent EXCEPT !.at = "portal", !.t = t, !.slug = s]]
  BY Zenon DEF CreateTenantTx
<1>u. /\ seeded' = seeded /\ rows' = rows /\ dns' = dns /\ site' = site /\ redis' = redis
      /\ conf' = conf /\ hit' = hit
  BY Zenon DEF CreateTenantTx, infra
<1>t. TenancyTypes /\ DataHome
  BY Zenon DEF TenancyInv
<1>n. s # "none" /\ hotel[t].slug = "none" /\ ~hotel[t].live
  BY <1>1, TenancyAssumption, SMTT(30) DEF NoHotel
<1>2. /\ hotel' \in [Tenants -> [slug : Slugs \cup {"none"}, live : BOOLEAN]]
      /\ hotel'[t].slug = s /\ hotel'[t].live /\ \A u \in Tenants \ {t} : hotel'[u] = hotel[u]
  BY <1>1, <1>t, Zenon DEF TenancyTypes
<1>3. /\ reg' \in [Tenants -> RegRecords] /\ \A u \in Tenants \ {t} : reg'[u] = reg[u]
      /\ reg'[t].mode = "shared" /\ reg'[t].status = "pending"
  <2> DEFINE r == [NoReg EXCEPT !.mode = "shared", !.status = "pending"]
  <2>1. r \in RegRecords /\ r.mode = "shared" /\ r.status = "pending"
    BY Zenon DEF NoReg, RegRecords
  <2> HIDE DEF r
  <2> QED
    BY <1>1, <2>1, <1>t, Zenon DEF r, TenancyTypes
<1>4. /\ agent' \in [Agents -> AgentRecords] /\ \A b \in Agents \ {a} : agent'[b] = agent[b]
      /\ agent'[a].at = "portal" /\ agent'[a].t = t /\ agent'[a].slug = s
  <2> DEFINE r == [NoAgent EXCEPT !.at = "portal", !.t = t, !.slug = s]
  <2>1. NoReg \in RegRecords
    BY Zenon DEF NoReg, RegRecords
  <2>2. r \in AgentRecords /\ r.at = "portal" /\ r.t = t /\ r.slug = s
    BY <2>1, EarlySteps, Zenon DEF NoAgent, AgentRecords
  <2> HIDE DEF r
  <2> QED
    BY <1>1, <2>2, AgentSet, Zenon DEF r
<1>5. TenancyTypes'
  BY <1>2, <1>3, <1>4, <1>u, <1>t, Zenon DEF TenancyTypes
<1>6. DataHome'
  <2>1. \A d \in DOMAIN seeded : \A v \in seeded[d] : v \in Tenants \ {t} /\ hotel[v].slug = d
    BY <1>t, <1>n, TenancyAssumption, SMTT(30) DEF DataHome, TenancyTypes
  <2>2. \A r \in rows : r[1] \in Tenants \ {t}
    BY <1>t, <1>n, TenancyAssumption, SMTT(30) DEF DataHome, RowsStayHome, Live, TenancyTypes
  <2> QED
    BY <2>1, <2>2, <1>t, <1>2, <1>u, SMTT(30) DEF DataHome, RowsStayHome, Live
<1>7. Keeps
  BY <1>n, <1>2, <1>u, Zenon DEF Keeps, Seeded
<1>8. TenantHolds(t)'
  BY <1>2, <1>3, <1>n, Zenon DEF TenantHolds, Live
<1>9. AgentHolds(a)'
  BY <1>2, <1>4, EarlySteps, Zenon DEF AgentHolds
<1> QED
  BY <1>2, <1>3, <1>4, <1>5, <1>6, <1>7, <1>8, <1>9, OneAgentStep, Zenon

(* Databases only come and fill; a step that makes or seeds one.             *)
LEMMA DatabaseStep ==
  ASSUME TenancyInv, NEW a \in Agents, UNCHANGED <<hotel, reg, rows, dns, site, redis, conf, hit>>,
         agent' \in [Agents -> AgentRecords], \A b \in Agents \ {a} : agent'[b] = agent[b], AgentHolds(a)',
         agent[a].at \in WorkSteps,
         DOMAIN seeded \subseteq DOMAIN seeded', DOMAIN seeded' \subseteq DOMAIN seeded \cup {agent[a].slug},
         \A d \in DOMAIN seeded' : IF d \in DOMAIN seeded THEN seeded[d] \subseteq seeded'[d] ELSE TRUE,
         \A d \in DOMAIN seeded' : \A t \in seeded'[d] :
            \/ d \in DOMAIN seeded /\ t \in seeded[d]
            \/ d = agent[a].slug /\ t = agent[a].t
  PROVE  TenancyInv'
<1>w. /\ agent[a].t \in Tenants /\ agent[a].slug \in Slugs
      /\ hotel[agent[a].t].slug = agent[a].slug /\ agent[a].slug # "none" /\ agent[a].slug # "shared"
  BY WorksOn, Zenon
<1>1. TenancyTypes'
  BY <1>w, Zenon DEF TenancyInv, TenancyTypes
<1>2. DataHome'
  BY <1>w, SMTT(30) DEF TenancyInv, DataHome, RowsStayHome, Live
<1>3. Keeps
  BY Zenon DEF Keeps, Seeded
<1> QED
  BY <1>1, <1>2, <1>3, OneAgentStep, Zenon

(* A database is provisioned, or its creation fails.                        *)
LEMMA ProvisionSteps ==
  ASSUME TenancyInv, NEW a \in Agents, UNCHANGED <<hotel, reg, rows, dns, site, redis, conf, hit>>,
         \/ AgentAt(a, "provision") /\ Provision(a, GoTo(a, "seed"), GoTo(a, "dns"))
         \/ AgentAt(a, "redo") /\ Provision(a, GoTo(a, "redo seed"), Leave(a))
  PROVE  TenancyInv'
<1>0. agent[a].at \in WorkSteps
  BY EarlySteps, Zenon DEF AgentAt
<1>1. Created(agent[a].slug) \/ UNCHANGED seeded
  BY Zenon DEF Provision
<1>2. /\ DOMAIN seeded \subseteq DOMAIN seeded' /\ DOMAIN seeded' \subseteq DOMAIN seeded \cup {agent[a].slug}
      /\ \A d \in DOMAIN seeded' : IF d \in DOMAIN seeded THEN seeded[d] \subseteq seeded'[d] ELSE TRUE
      /\ \A d \in DOMAIN seeded' : \A t \in seeded'[d] : d \in DOMAIN seeded /\ t \in seeded[d]
  BY <1>1, Zenon DEF Created
<1>3. Leave(a) \/ \E step \in {"seed", "dns", "redo seed"} : GoTo(a, step)
  BY Zenon DEF Provision
<1>4. CASE Leave(a)
  BY <1>4, <1>0, <1>2, AgentMoves, DatabaseStep, Zenon
<1>5. ASSUME NEW step \in {"seed", "dns", "redo seed"}, GoTo(a, step) PROVE TenancyInv'
  <2>1. /\ agent' \in [Agents -> AgentRecords] /\ \A b \in Agents \ {a} : agent'[b] = agent[b]
        /\ agent'[a].at = step /\ agent'[a].t = agent[a].t /\ agent'[a].slug = agent[a].slug
    BY <1>5, EarlySteps, AgentMoves, Zenon
  <2>2. AgentHolds(a)'
    BY <2>1, <1>0, WorksOn, EarlySteps, Zenon DEF AgentHolds
  <2> QED
    BY <2>1, <2>2, <1>0, <1>2, DatabaseStep, Zenon
<1> QED
  BY <1>3, <1>4, <1>5, Zenon

(* The steps after provisioning, told apart.                                *)
LEMMA LateSteps ==
  /\ \A step \in FlipSteps : step \in WorkSteps /\ step \notin CleaningSteps /\ step \notin DnsDone
        /\ step \notin SiteDone /\ step # "active" /\ step # "write"
  /\ \A step \in DnsDone : step \in WorkSteps /\ step \notin CleaningSteps /\ step \notin FlipSteps /\ step # "write"
  /\ \A step \in CleaningSteps : step \in WorkSteps /\ step \notin DnsDone /\ step \notin FlipSteps
        /\ step \notin SiteDone /\ step # "active" /\ step # "write"
  /\ SiteDone \subseteq DnsDone
BY Zenon DEF WorkSteps, CleaningSteps, DnsDone, SiteDone, FlipSteps

(* The new database is opened and seeded, or is given up.                   *)
LEMMA SeedSteps ==
  ASSUME TenancyInv, NEW a \in Agents, UNCHANGED <<hotel, reg, rows, dns, site, redis, conf, hit>>,
         NEW next \in FlipSteps, AgentAt(a, "seed") \/ AgentAt(a, "redo seed"),
         OpenAndSeed(a, agent[a].t, agent[a].slug, next)
  PROVE  TenancyInv'
<1> DEFINE t == agent[a].t
           s == agent[a].slug
<1>0. agent[a].at \in WorkSteps
  BY EarlySteps, Zenon DEF AgentAt
<1>t. agent \in [Agents -> AgentRecords] /\ next \in WorkSteps
  BY LateSteps, Zenon DEF TenancyInv, TenancyTypes
<1>w. t \in Tenants /\ s \in Slugs /\ hotel[t].slug = s
  BY <1>0, WorksOn, Zenon
<1>1. \E m \in {"dedicated", "provisioned"} :
         /\ agent' = [agent EXCEPT ![a].at = next, ![a].reg = [@ EXCEPT !.mode = m, !.db = s]]
         /\ \/ m = "dedicated" /\ CanSeed(t, s) /\ seedTenantDB(t, s)
            \/ m = "provisioned" /\ UNCHANGED seeded
  BY Zenon DEF OpenAndSeed
<1>2. PICK m \in {"dedicated", "provisioned"} :
         /\ agent' = [agent EXCEPT ![a].at = next, ![a].reg = [@ EXCEPT !.mode = m, !.db = s]]
         /\ \/ m = "dedicated" /\ CanSeed(t, s) /\ seedTenantDB(t, s)
            \/ m = "provisioned" /\ UNCHANGED seeded
  BY <1>1, Zenon
<1>3. /\ agent' \in [Agents -> AgentRecords] /\ \A b \in Agents \ {a} : agent'[b] = agent[b]
      /\ agent'[a].at = next /\ agent'[a].t = t /\ agent'[a].slug = s /\ agent'[a].reg.mode = m
  <2>1. agent[a].reg \in RegRecords
    BY <1>t, Zenon DEF AgentRecords
  <2> DEFINE g == [agent[a].reg EXCEPT !.mode = m, !.db = s]
  <2>2. g \in RegRecords /\ g.mode = m
    BY <2>1, <1>w, Zenon DEF RegRecords
  <2> DEFINE r == [agent[a] EXCEPT !.at = next, !.reg = g]
  <2>3. r \in AgentRecords /\ r.at = next /\ r.t = t /\ r.slug = s /\ r.reg = g
    <3> HIDE DEF g
    <3> QED
      BY <2>2, <1>t, Zenon DEF AgentRecords
  <2>4. agent' = [agent EXCEPT ![a] = r]
    BY <1>2, <1>t, Zenon DEF AgentRecords
  <2> HIDE DEF r
  <2> QED
    BY <2>2, <2>3, <2>4, AgentSet, Zenon
<1>4. /\ DOMAIN seeded' = DOMAIN seeded
      /\ \A d \in DOMAIN seeded' : seeded[d] \subseteq seeded'[d]
      /\ \A d \in DOMAIN seeded' : \A u \in seeded'[d] : u \in seeded[d] \/ (d = s /\ u = t)
      /\ m = "dedicated" => s \in DOMAIN seeded' /\ t \in seeded'[s]
  <2>1. CASE UNCHANGED seeded /\ m = "provisioned"
    BY <2>1, Zenon
  <2>2. CASE CanSeed(t, s) /\ seedTenantDB(t, s)
    <3>1. s \in DOMAIN seeded /\ seeded' = [seeded EXCEPT ![s] = @ \cup {t}]
      BY <2>2, Zenon DEF CanSeed, seedTenantDB
    <3> HIDE DEF s, t
    <3>2. DOMAIN seeded' = DOMAIN seeded /\ \A d \in DOMAIN seeded : seeded'[d] = IF d = s THEN seeded[d] \cup {t} ELSE seeded[d]
      BY <3>1, Zenon
    <3> QED
      BY <3>1, <3>2, Zenon
  <2> QED
    BY <2>1, <2>2, <1>2, Zenon
<1>5. AgentHolds(a)'
  BY <1>3, <1>4, <1>t, <1>w, LateSteps, Zenon DEF AgentHolds, Seeded
<1> QED
  BY <1>0, <1>3, <1>4, <1>5, DatabaseStep, Zenon

(* An UPDATE of the registry that keeps what the row promises.               *)
LEMMA RegistryStep ==
  ASSUME TenancyInv, NEW a \in Agents, NEW t \in Tenants, NEW row \in RegRecords,
         UpdateRegistry(t, row), UNCHANGED <<hotel, seeded, rows, conf, hit>>,
         dns \subseteq dns', site \subseteq site', redis \subseteq redis',
         agent' \in [Agents -> AgentRecords], \A b \in Agents \ {a} : agent'[b] = agent[b], AgentHolds(a)',
         Live(t) /\ t \notin hit =>
            /\ row.status = "active" => hotel[t].slug \in dns \cap site /\ t \in redis
            /\ row.mode = "dedicated" => row.db = hotel[t].slug /\ Seeded(t, hotel[t].slug)
  PROVE  TenancyInv'
<1>1. /\ reg' \in [Tenants -> RegRecords] /\ \A u \in Tenants \ {t} : reg'[u] = reg[u]
      /\ reg'[t] = IF Live(t) THEN row ELSE reg[t]
  BY Zenon DEF UpdateRegistry, TenancyInv, TenancyTypes
<1>2. TenancyTypes' /\ DataHome'
  BY <1>1, SameData, Zenon
<1>3. Keeps
  BY Zenon DEF Keeps, Seeded
<1>4. Live(t) => TenantHolds(t)'
  BY <1>1, Zenon DEF TenancyInv, TenantHolds, Live, Seeded
<1> QED
  BY <1>1, <1>2, <1>3, <1>4, OneAgentStep, Zenon

(* The registry is pointed at the new database, or the update fails.        *)
LEMMA FlipStep ==
  ASSUME TenancyInv, NEW a \in Agents, agent[a].at \in FlipSteps,
         UNCHANGED <<hotel, infra, conf, hit>>, GoTo(a, "dns") \/ Leave(a),
         \/ UpdateRegistry(agent[a].t, [reg[agent[a].t] EXCEPT !.mode = agent[a].reg.mode, !.db = agent[a].slug])
         \/ UNCHANGED reg
  PROVE  TenancyInv'
<1> DEFINE t == agent[a].t
           s == agent[a].slug
<1>u. /\ hotel' = hotel /\ seeded' = seeded /\ rows' = rows /\ dns' = dns
      /\ site' = site /\ redis' = redis /\ hit' = hit /\ conf' = conf
  BY Zenon DEF infra
<1>0. agent[a].at \in WorkSteps
  BY LateSteps, Zenon
<1>w. t \in Tenants /\ s \in Slugs /\ hotel[t].slug = s
  BY <1>0, WorksOn, Zenon
<1>t. agent[a] \in AgentRecords /\ reg[t] \in RegRecords /\ TenantHolds(t) /\ AgentHolds(a)
  BY <1>w, Zenon DEF TenancyInv, TenancyTypes
<1>1. /\ AgentHolds(a)' /\ agent' \in [Agents -> AgentRecords] /\ \A b \in Agents \ {a} : agent'[b] = agent[b]
  <2>1. CASE Leave(a)
    BY <2>1, <1>0, AgentMoves, Zenon
  <2>2. CASE GoTo(a, "dns")
    <3>1. /\ agent' \in [Agents -> AgentRecords] /\ \A b \in Agents \ {a} : agent'[b] = agent[b]
          /\ agent'[a].at = "dns" /\ agent'[a].t = t /\ agent'[a].slug = s
      BY <2>2, EarlySteps, AgentMoves, Zenon
    <3>2. AgentHolds(a)'
      BY <3>1, <1>u, <1>w, EarlySteps, Zenon DEF AgentHolds
    <3> QED
      BY <3>1, <3>2, Zenon
  <2> QED
    BY <2>1, <2>2, Zenon
<1>2. CASE UNCHANGED reg
  BY <1>1, <1>2, <1>u, QuietStep, Zenon DEF infra
<1>3. CASE UpdateRegistry(t, [reg[t] EXCEPT !.mode = agent[a].reg.mode, !.db = s])
  <2> DEFINE row == [reg[t] EXCEPT !.mode = agent[a].reg.mode, !.db = s]
  <2>1. row \in RegRecords /\ row.status = reg[t].status /\ row.mode = agent[a].reg.mode /\ row.db = s
    BY <1>t, <1>w, Zenon DEF RegRecords, AgentRecords
  <2> HIDE DEF row
  <2>2. Live(t) /\ t \notin hit =>
            /\ row.status = "active" => hotel[t].slug \in dns \cap site /\ t \in redis
            /\ row.mode = "dedicated" => row.db = hotel[t].slug /\ Seeded(t, hotel[t].slug)
    BY <2>1, <1>t, <1>w, <1>0, Zenon DEF TenantHolds, AgentHolds
  <2> QED
    BY <1>3, <2>1, <2>2, <1>1, <1>u, <1>w, RegistryStep, Zenon DEF row
<1> QED
  BY <1>2, <1>3, Zenon

(* The steps of the provisioning job.                                        *)
LEMMA JobSteps ==
  ASSUME TenancyInv, NEW a \in Agents, runProvisioningJob(a)
  PROVE  TenancyInv'
<1> USE DEF AgentAt
<1> DEFINE t == agent[a].t
           s == agent[a].slug
<1>u. UNCHANGED <<hotel, seeded, rows, conf, hit>>
  BY Zenon DEF runProvisioningJob
<1>0. agent[a].at \in {"dns"} \cup DnsDone /\ agent[a].at \in WorkSteps
  BY LateSteps, EarlySteps, Zenon DEF runProvisioningJob, DnsDone
<1>w. t \in Tenants /\ s \in Slugs /\ hotel[t].slug = s
  BY <1>0, WorksOn, Zenon
<1>t. agent[a] \in AgentRecords /\ reg[t] \in RegRecords /\ TenantHolds(t) /\ AgentHolds(a)
      /\ reg \in [Tenants -> RegRecords]
  BY <1>w, Zenon DEF TenancyInv, TenancyTypes
<1>1. /\ dns \subseteq dns' /\ site \subseteq site' /\ redis \subseteq redis'
  BY Zenon DEF runProvisioningJob, AddARecord, ProvisionDomain
<1>g. \A step \in WorkSteps : GoTo(a, step) =>
              /\ agent' \in [Agents -> AgentRecords] /\ \A b \in Agents \ {a} : agent'[b] = agent[b]
              /\ agent'[a].at = step /\ agent'[a].t = t /\ agent'[a].slug = s
  BY AgentMoves, Zenon
<1>l. Leave(a) => /\ agent' \in [Agents -> AgentRecords] /\ \A b \in Agents \ {a} : agent'[b] = agent[b]
                  /\ AgentHolds(a)'
  BY <1>0, AgentMoves, Zenon
<1>d. \A step \in {"dns noted", "site", "site noted", "redis", "active"} : step \in WorkSteps /\ step \in DnsDone
  BY LateSteps, Zenon DEF DnsDone
<1>2. \/ Leave(a)
      \/ agent[a].at = "dns" /\ GoTo(a, "dns noted") /\ s \in dns'
      \/ agent[a].at = "dns noted" /\ GoTo(a, "site")
      \/ agent[a].at = "site" /\ GoTo(a, "site noted") /\ s \in site'
      \/ agent[a].at = "site noted" /\ GoTo(a, "redis")
      \/ agent[a].at = "redis" /\ GoTo(a, "active") /\ t \in redis'
  BY Zenon DEF runProvisioningJob, AddARecord, ProvisionDomain
<1>3. /\ AgentHolds(a)' /\ agent' \in [Agents -> AgentRecords] /\ \A b \in Agents \ {a} : agent'[b] = agent[b]
  <2>1. CASE Leave(a)
    BY <2>1, <1>l, Zenon
  <2>2. ASSUME NEW step \in DnsDone, GoTo(a, step),
               Live(t) /\ t \notin hit => /\ s \in dns'
                                          /\ step \in SiteDone => s \in site'
                                          /\ step = "active" => t \in redis'
        PROVE  AgentHolds(a)' /\ agent' \in [Agents -> AgentRecords] /\ \A b \in Agents \ {a} : agent'[b] = agent[b]
    <3>1. /\ agent' \in [Agents -> AgentRecords] /\ \A b \in Agents \ {a} : agent'[b] = agent[b]
          /\ agent'[a].at = step /\ agent'[a].t = t /\ agent'[a].slug = s
      BY <2>2, <1>g, LateSteps, Zenon
    <3>2. AgentHolds(a)'
      BY <3>1, <2>2, <1>u, <1>w, LateSteps, Zenon DEF AgentHolds, Live
    <3> QED
      BY <3>1, <3>2, Zenon
  <2>3. CASE agent[a].at = "dns" /\ GoTo(a, "dns noted") /\ s \in dns'
    BY <2>3, <2>2, <1>d, ZenonT(30) DEF SiteDone
  <2>4. CASE agent[a].at = "dns noted" /\ GoTo(a, "site")
    BY <2>4, <2>2, <1>0, <1>1, <1>d, <1>t, ZenonT(30) DEF SiteDone, AgentHolds
  <2>5. CASE agent[a].at = "site" /\ GoTo(a, "site noted") /\ s \in site'
    BY <2>5, <2>2, <1>0, <1>1, <1>d, <1>t, ZenonT(30) DEF AgentHolds
  <2>6. CASE agent[a].at = "site noted" /\ GoTo(a, "redis")
    BY <2>6, <2>2, <1>0, <1>1, <1>d, <1>t, ZenonT(30) DEF AgentHolds, SiteDone
  <2>7. CASE agent[a].at = "redis" /\ GoTo(a, "active") /\ t \in redis'
    BY <2>7, <2>2, <1>0, <1>1, <1>d, <1>t, Zenon DEF AgentHolds, SiteDone
  <2> QED
    BY <1>2, <2>1, <2>3, <2>4, <2>5, <2>6, <2>7, Zenon
<1>4. ASSUME NEW row \in RegRecords, UpdateRegistry(t, row), row.mode = reg[t].mode, row.db = reg[t].db,
             row.status = reg[t].status \/ (agent[a].at = "active" /\ row.status = "active")
      PROVE  TenancyInv'
  <2>1. agent[a].at = "active" => agent[a].at \in DnsDone /\ agent[a].at \in SiteDone
    BY Zenon DEF DnsDone, SiteDone
  <2>2. Live(t) /\ t \notin hit =>
            /\ row.status = "active" => hotel[t].slug \in dns \cap site /\ t \in redis
            /\ row.mode = "dedicated" => row.db = hotel[t].slug /\ Seeded(t, hotel[t].slug)
    BY <1>4, <2>1, <1>t, <1>w, <1>0, Zenon DEF TenantHolds, AgentHolds
  <2> QED
    BY <1>4, <2>2, <1>1, <1>3, <1>u, <1>w, RegistryStep, Zenon
<1>5. CASE UNCHANGED reg
  <2>1. UpdateRegistry(t, reg[t])
    BY <1>5, <1>t, <1>w, Zenon DEF UpdateRegistry
  <2> QED
    BY <2>1, <1>4, <1>t, Zenon
<1>6. CASE \/ UpdateRegistry(t, [reg[t] EXCEPT !.dns = TRUE]) \/ UpdateRegistry(t, [reg[t] EXCEPT !.domain = TRUE])
           \/ agent[a].at = "active" /\ UpdateRegistry(t, [reg[t] EXCEPT !.status = "active"])
  <2>1. \A row \in {[reg[t] EXCEPT !.dns = TRUE], [reg[t] EXCEPT !.domain = TRUE], [reg[t] EXCEPT !.status = "active"]} :
          row \in RegRecords /\ row.mode = reg[t].mode /\ row.db = reg[t].db
    BY <1>t, Zenon DEF RegRecords
  <2>2. [reg[t] EXCEPT !.dns = TRUE].status = reg[t].status /\ [reg[t] EXCEPT !.domain = TRUE].status = reg[t].status
        /\ [reg[t] EXCEPT !.status = "active"].status = "active"
    BY <1>t, Zenon DEF RegRecords
  <2> QED
    BY <1>6, <2>1, <2>2, <1>4, Zenon
<1>7. \/ UNCHANGED reg
      \/ UpdateRegistry(t, [reg[t] EXCEPT !.dns = TRUE]) \/ UpdateRegistry(t, [reg[t] EXCEPT !.domain = TRUE])
      \/ agent[a].at = "active" /\ UpdateRegistry(t, [reg[t] EXCEPT !.status = "active"])
  BY Zenon DEF runProvisioningJob
<1> QED
  BY <1>5, <1>6, <1>7, Zenon

(* The transaction of a deletion: nothing of the hotel stays in the shared   *)
(* database.                                                                 *)
LEMMA DeleteStep ==
  ASSUME TenancyInv, NEW a \in Agents, agent[a].at = "delete", DeleteTx(a, agent[a].t),
         UNCHANGED <<seeded, dns, site, redis, conf, hit>>
  PROVE  TenancyInv'
<1> DEFINE t == agent[a].t
           s == agent[a].slug
<1>0. agent[a].at \in WorkSteps
  BY EarlySteps, Zenon
<1>w. t \in Tenants /\ s \in Slugs /\ hotel[t].slug = s /\ s # "none" /\ s # "shared"
  BY <1>0, WorksOn, Zenon
<1>t. TenancyTypes /\ DataHome
  BY Zenon DEF TenancyInv
<1>1. CASE UNCHANGED <<hotel, reg, rows>> /\ Leave(a)
  BY <1>1, <1>0, AgentMoves, QuietStep, Zenon DEF infra
<1>2. CASE /\ hotel' = [hotel EXCEPT ![t].live = FALSE] /\ reg' = [reg EXCEPT ![t] = NoReg]
           /\ rows' = rows \ {<<t, "shared">>} /\ GoTo(a, "unsite")
  <2> HIDE DEF t, s
  <2>1. /\ hotel' \in [Tenants -> [slug : Slugs \cup {"none"}, live : BOOLEAN]]
        /\ hotel'[t].slug = s /\ ~hotel'[t].live /\ \A u \in Tenants \ {t} : hotel'[u] = hotel[u]
    BY <1>2, <1>t, <1>w, Zenon DEF TenancyTypes
  <2>2. /\ reg' \in [Tenants -> RegRecords] /\ \A u \in Tenants \ {t} : reg'[u] = reg[u]
        /\ reg'[t] = NoReg
    <3>1. NoReg \in RegRecords
      BY Zenon DEF NoReg, RegRecords
    <3> QED
      BY <3>1, <1>2, <1>t, <1>w, Zenon DEF TenancyTypes
  <2>3. "unsite" \in CleaningSteps /\ "unsite" \in WorkSteps
    BY Zenon DEF WorkSteps, CleaningSteps
  <2>4. /\ agent' \in [Agents -> AgentRecords] /\ \A b \in Agents \ {a} : agent'[b] = agent[b]
        /\ agent'[a].at = "unsite" /\ agent'[a].t = t /\ agent'[a].slug = s
    BY <1>2, <2>3, AgentMoves, Zenon DEF t, s
  <2>5. TenancyTypes'
    BY <2>1, <2>2, <2>4, <1>2, <1>t, Zenon DEF TenancyTypes
  <2>6. \A u \in Tenants : hotel'[u].slug = hotel[u].slug
    BY <2>1, <1>w, Zenon
  <2>7. DataHome'
    <3>1. \A r \in rows' : r \in rows /\ (r[2] = "shared" => r[1] # t)
      BY <1>2, <1>t, SMTT(30) DEF TenancyTypes
    <3>2. \A r \in rows : r[1] \in Tenants
      BY <1>t, Zenon DEF TenancyTypes
    <3> QED
      BY <3>1, <3>2, <2>1, <2>6, <1>t, Zenon DEF DataHome, RowsStayHome, Live
  <2>8. Keeps
    BY <2>1, <2>6, Zenon DEF Keeps, Seeded
  <2>9. AgentHolds(a)'
    BY <2>1, <2>3, <2>4, <1>w, LateSteps, Zenon DEF AgentHolds, Live
  <2>10. \A u \in Tenants : (reg'[u] = reg[u] /\ hotel'[u] = hotel[u]) \/ TenantHolds(u)'
    <3>1. NoReg.status # "active" /\ NoReg.mode # "dedicated"
      BY Zenon DEF NoReg
    <3> QED
      BY <2>1, <2>2, <3>1, Zenon DEF TenantHolds, Live
  <2> QED
    BY <2>4, <2>5, <2>7, <2>8, <2>9, <2>10, OneAgentStep, Zenon
<1> QED
  BY <1>1, <1>2, Zenon DEF DeleteTx

(* A step of a cleanup: whom it takes something from, it marks.              *)
LEMMA CleanupSteps ==
  ASSUME TenancyInv, NEW a \in Agents, CleanupStep(a), UNCHANGED <<hotel, reg, conf>>
  PROVE  TenancyInv' /\ \A r \in rows \ rows' : r[1] \in Tenants /\ (~hotel[r[1]].live \/ r[1] \in hit')
<1> USE DEF AgentAt
<1> DEFINE t == agent[a].t
           s == agent[a].slug
<1>0. agent[a].at \in CleaningSteps
  BY Zenon DEF CleanupStep, CleaningSteps
<1>w. t \in Tenants /\ s \in Slugs /\ hotel[t].slug = s /\ ~hotel[t].live /\ s # "shared"
  BY <1>0, WorksOn, LateSteps, Zenon DEF TenancyInv, AgentHolds, Live
<1>t. TenancyTypes /\ DataHome
  BY Zenon DEF TenancyInv
<1>1. Leave(a) \/ \E step \in CleaningSteps : GoTo(a, step)
  BY Zenon DEF CleanupStep, CleaningSteps
<1>2. /\ AgentHolds(a)' /\ agent' \in [Agents -> AgentRecords] /\ \A b \in Agents \ {a} : agent'[b] = agent[b]
  <2>1. CASE Leave(a)
    BY <2>1, <1>0, LateSteps, AgentMoves, Zenon
  <2>2. ASSUME NEW step \in CleaningSteps, GoTo(a, step)
        PROVE  AgentHolds(a)' /\ agent' \in [Agents -> AgentRecords] /\ \A b \in Agents \ {a} : agent'[b] = agent[b]
    <3>1. /\ agent' \in [Agents -> AgentRecords] /\ \A b \in Agents \ {a} : agent'[b] = agent[b]
          /\ agent'[a].at = step /\ agent'[a].t = t /\ agent'[a].slug = s
      BY <2>2, LateSteps, AgentMoves, Zenon
    <3>2. AgentHolds(a)'
      BY <3>1, <2>2, <1>w, LateSteps, Zenon DEF AgentHolds, Live
    <3> QED
      BY <3>1, <3>2, Zenon
  <2> QED
    BY <1>1, <2>1, <2>2, Zenon
<1>3. \A u \in Tenants : u \in Successors(t, s) <=> hotel[u].live /\ hotel[u].slug = s
  BY <1>w, Zenon DEF Successors, Live
<1>4. hit \subseteq hit'
  BY Zenon DEF CleanupStep
<1>5. /\ dns \ {s} \subseteq dns' /\ (s \in dns => s \in dns' \/ Successors(t, s) \subseteq hit')
  BY Zenon DEF CleanupStep, DeleteARecord
<1>6. /\ site \ {s} \subseteq site' /\ (s \in site => s \in site' \/ Successors(t, s) \subseteq hit')
  BY Zenon DEF CleanupStep, DeprovisionDomain
<1>7. redis \ {t} \subseteq redis'
  BY Zenon DEF CleanupStep, FlushNamespace
<1>8. \/ UNCHANGED <<seeded, rows>>
      \/ /\ DropDatabase(s) /\ (s \in DOMAIN seeded => Successors(t, s) \subseteq hit')
  BY Zenon DEF CleanupStep
<1> HIDE DEF t, s
<1>9. Keeps
  <2>1. ASSUME NEW u \in Tenants, hotel[u].live, u \notin hit'
        PROVE  /\ hotel[u].slug \in dns => hotel[u].slug \in dns'
               /\ hotel[u].slug \in site => hotel[u].slug \in site'
               /\ u \in redis => u \in redis'
               /\ Seeded(u, hotel[u].slug) =>
                    hotel[u].slug \in DOMAIN seeded' /\ seeded'[hotel[u].slug] = seeded[hotel[u].slug]
    <3>1. u # t
      BY <2>1, <1>w, Zenon
    <3>2. hotel[u].slug = s => ~(Successors(t, s) \subseteq hit')
      BY <2>1, <1>3, Zenon
    <3> QED
      BY <3>1, <3>2, <1>5, <1>6, <1>7, <1>8, Zenon DEF Seeded, DropDatabase
  <2> QED
    BY <2>1, <1>4, Zenon DEF Keeps, Seeded
<1>10. /\ DOMAIN seeded' \subseteq DOMAIN seeded /\ \A d \in DOMAIN seeded' : seeded'[d] = seeded[d]
       /\ rows' \subseteq rows /\ \A r \in rows' : r[2] \in DOMAIN seeded => r[2] \in DOMAIN seeded'
  BY <1>8, Zenon DEF DropDatabase
<1>11. TenancyTypes' /\ DataHome'
  BY <1>2, <1>10, <1>t, Zenon DEF TenancyTypes, DataHome, RowsStayHome, Live
<1>12. \A r \in rows \ rows' : r[1] \in Tenants /\ (~hotel[r[1]].live \/ r[1] \in hit')
  <2> TAKE r \in rows \ rows'
  <2>1. r[1] \in Tenants /\ r[2] = s /\ DropDatabase(s)
    BY <1>8, <1>t, Zenon DEF DropDatabase, TenancyTypes
  <2>2. hotel[r[1]].slug = s /\ s \in DOMAIN seeded
    BY <2>1, <1>t, <1>w, SMTT(30) DEF DataHome, RowsStayHome
  <2>3. Successors(t, s) \subseteq hit' \/ UNCHANGED rows
    BY <2>2, <1>8, Zenon
  <2> QED
    BY <2>1, <2>2, <2>3, <1>3, Zenon
<1> QED
  BY <1>2, <1>9, <1>11, <1>12, OneAgentStep, Zenon

(* A staff request's row, a route that expires, a restart.                   *)
LEMMA TrafficSteps ==
  ASSUME TenancyInv, (\E a \in Agents : WriteRow(a)) \/ (\E t \in Tenants : RouteExpires(t)) \/ RestartPlatform
  PROVE  TenancyInv' /\ rows \subseteq rows'
<1>t. TenancyTypes /\ DataHome
  BY Zenon DEF TenancyInv
<1>n. NoRoute.db = "none"
  BY Zenon DEF NoRoute
<1>1. ASSUME NEW a \in Agents, WriteRow(a) PROVE TenancyInv' /\ rows \subseteq rows'
  <2> DEFINE t == agent[a].t
             db == agent[a].slug
  <2>1. /\ agent[a].at = "write" /\ Leave(a)
        /\ rows' = IF (db = "shared" /\ Live(t)) \/ (db \in DOMAIN seeded /\ t \in seeded[db])
                   THEN rows \cup {<<t, db>>} ELSE rows
        /\ UNCHANGED <<hotel, reg, seeded, dns, site, redis, conf, hit>>
    BY <1>1, Zenon DEF WriteRow, AgentAt
  <2>2. t \in Tenants
    BY <2>1, Zenon DEF TenancyInv, AgentHolds
  <2>3. /\ AgentHolds(a)' /\ agent' \in [Agents -> AgentRecords] /\ \A b \in Agents \ {a} : agent'[b] = agent[b]
    BY <2>1, EarlySteps, AgentMoves, Zenon
  <2> HIDE DEF t, db
  <2>4. CASE rows' = rows
    BY <2>1, <2>3, <2>4, QuietStep, Zenon DEF infra
  <2>5. CASE /\ (db = "shared" /\ Live(t)) \/ (db \in DOMAIN seeded /\ t \in seeded[db])
             /\ rows' = rows \cup {<<t, db>>}
    <3>1. db \in Slugs \cup {"shared"}
      BY <2>5, <1>t, Zenon DEF TenancyTypes
    <3>2. TenancyTypes'
      BY <3>1, <2>1, <2>2, <2>3, <2>5, <1>t, SMTT(30) DEF TenancyTypes
    <3>3. IF db = "shared" THEN Live(t) ELSE hotel[t].slug = db /\ db \in DOMAIN seeded
      BY <2>5, <1>t, TenancyAssumption, Zenon DEF DataHome, TenancyTypes
    <3>4. DataHome'
      <4>1. \A r \in rows' : r \in rows \/ (r[1] = t /\ r[2] = db)
        BY <2>5, SMTT(30)
      <4>2. \A r \in rows' : /\ r[2] # "shared" => r[2] \in DOMAIN seeded
                             /\ IF r[2] = "shared" THEN hotel[r[1]].live ELSE hotel[r[1]].slug = r[2]
        BY <4>1, <3>3, <1>t, Zenon DEF DataHome, RowsStayHome, Live
      <4> QED
        BY <4>2, <2>1, <1>t, Zenon DEF DataHome, RowsStayHome, Live
    <3>5. Keeps
      BY <2>1, Zenon DEF Keeps, Seeded
    <3> QED
      BY <3>2, <3>4, <3>5, <2>1, <2>3, <2>5, OneAgentStep, Zenon
  <2> QED
    BY <2>1, <2>4, <2>5, Zenon
<1>2. ASSUME UNCHANGED <<hotel, reg, infra, hit>>, agent' \in [Agents -> AgentRecords],
             DOMAIN conf' = Tenants, \A t \in Tenants : conf'[t].db \in Slugs \cup {"none"},
             \A a \in Agents : agent'[a] = agent[a] \/ agent'[a].at = "idle"
      PROVE  TenancyInv' /\ rows \subseteq rows'
  <2>1. /\ hotel' = hotel /\ reg' = reg /\ seeded' = seeded /\ rows' = rows /\ dns' = dns
        /\ site' = site /\ redis' = redis /\ hit' = hit
    BY <1>2, Zenon DEF infra
  <2>2. TenancyTypes' /\ DataHome'
    BY <1>2, <2>1, <1>t, SameData, Zenon DEF TenancyTypes
  <2>3. Keeps
    BY <2>1, Zenon DEF Keeps, Seeded
  <2>4. ASSUME NEW a \in Agents, agent'[a].at = "idle" PROVE AgentHolds(a)'
    BY <2>4, Zenon DEF AgentHolds, WorkSteps, CleaningSteps, DnsDone, SiteDone, FlipSteps
  <2> QED
    BY <1>2, <2>1, <2>2, <2>3, <2>4, UntouchedKeep, Zenon DEF TenancyInv
<1>3. ASSUME NEW t \in Tenants, RouteExpires(t) PROVE TenancyInv' /\ rows \subseteq rows'
  <2>1. DOMAIN conf' = Tenants /\ \A u \in Tenants : conf'[u].db \in Slugs \cup {"none"}
    BY <1>3, <1>n, <1>t, Zenon DEF RouteExpires, TenancyTypes
  <2> QED
    BY <1>3, <2>1, <1>2, <1>t, Zenon DEF RouteExpires, TenancyTypes
<1>4. CASE RestartPlatform
  <2>1. DOMAIN conf' = Tenants /\ \A u \in Tenants : conf'[u].db \in Slugs \cup {"none"}
    BY <1>4, <1>n, Zenon DEF RestartPlatform
  <2>2. NoAgent \in AgentRecords /\ NoAgent.at = "idle"
    BY Zenon DEF NoAgent, NoReg, AgentRecords, RegRecords
  <2>3. agent' \in [Agents -> AgentRecords] /\ \A a \in Agents : agent'[a].at = "idle"
    BY <1>4, <2>2, Zenon DEF RestartPlatform
  <2> QED
    BY <1>4, <2>1, <2>3, <1>2, Zenon DEF RestartPlatform
<1> QED
  BY <1>1, <1>3, <1>4, Zenon

(* Every step, and what it does to the rows of the living.                   *)
LEMMA TenancyStep ==
  ASSUME TenancyInv, [TenancyNext]_tenancyVars
  PROVE  /\ TenancyInv'
         /\ \A r \in rows \ rows' : ~hotel'[r[1]].live \/ r[1] \in hit'
<1> USE DEF AgentAt
<1>1. CASE UNCHANGED tenancyVars
  <2>1. TenancyInv'
    BY <1>1, ZenonT(30)
       DEF tenancyVars, TenancyInv, TenancyTypes, DataHome, RowsStayHome, TenantHolds,
           AgentHolds, Live, Seeded
  <2> QED
    BY <1>1, <2>1, Zenon DEF tenancyVars
<1>2. ASSUME NEW a \in Agents, CreatePlatformTenant(a) PROVE TenancyInv' /\ rows \subseteq rows'
  <2>1. CASE CreateTenantTx(a)
    BY <2>1, CreateStep, ZenonT(30) DEF CreateTenantTx, infra
  <2>2. CASE ensureRolePortalSettingsForHotel(a)
    BY <2>2, ReadingSteps, Zenon DEF ensureRolePortalSettingsForHotel, infra
  <2>3. CASE DedicateDatabase(a) /\ UNCHANGED <<hotel, rows, dns, site, redis, conf, hit>>
    <3>1. CASE /\ AgentAt(a, "provision")
               /\ Provision(a, GoTo(a, "seed"), GoTo(a, "dns"))
               /\ UNCHANGED <<reg, pools>>
      BY <2>3, <3>1, ProvisionSteps, Zenon
    <3>2. CASE AgentAt(a, "seed") /\ OpenAndSeed(a, agent[a].t, agent[a].slug, "flip") /\ UNCHANGED reg
      BY <2>3, <3>2, SeedSteps, ZenonT(30) DEF FlipSteps
    <3>3. CASE /\ AgentAt(a, "flip")
               /\ \/ UpdateRegistry(agent[a].t, [reg[agent[a].t] EXCEPT !.mode = agent[a].reg.mode, !.db = agent[a].slug])
                  \/ UNCHANGED reg
               /\ GoTo(a, "dns") /\ UNCHANGED <<seeded, pools>>
      BY <2>3, <3>3, FlipStep, Zenon DEF FlipSteps, infra
    <3> QED
      BY <2>3, <3>1, <3>2, <3>3, Zenon DEF DedicateDatabase
  <2> QED
    BY <1>2, <2>1, <2>2, <2>3, Zenon DEF CreatePlatformTenant
<1>3. ASSUME NEW a \in Agents, runProvisioningJob(a) PROVE TenancyInv' /\ rows \subseteq rows'
  BY <1>3, JobSteps, ZenonT(30) DEF runProvisioningJob
<1>4. ASSUME NEW a \in Agents, ProvisionTenantDB(a) PROVE TenancyInv' /\ rows \subseteq rows'
  <2>1. CASE AgentAt(a, "idle")
    BY <1>4, <2>1, ReadingSteps, Zenon DEF ProvisionTenantDB, infra
  <2>2. CASE /\ AgentAt(a, "redo") /\ Provision(a, GoTo(a, "redo seed"), Leave(a))
             /\ UNCHANGED <<hotel, reg, rows, dns, site, redis, conf, pools, hit>>
    BY <2>2, ProvisionSteps, Zenon
  <2>3. CASE /\ AgentAt(a, "redo seed") /\ OpenAndSeed(a, agent[a].t, agent[a].slug, "redo flip")
             /\ UNCHANGED <<hotel, reg, rows, dns, site, redis, conf, hit>>
    BY <2>3, SeedSteps, Zenon DEF FlipSteps
  <2>4. CASE Leave(a) /\ UNCHANGED <<hotel, reg, infra, conf, hit>>
    BY <2>4, EarlySteps, AgentMoves, QuietStep, ZenonT(30) DEF infra
  <2>5. CASE /\ AgentAt(a, "redo flip")
             /\ UpdateRegistry(agent[a].t, [reg[agent[a].t] EXCEPT !.mode = agent[a].reg.mode, !.db = agent[a].slug])
             /\ Leave(a) /\ UNCHANGED <<hotel, infra, conf, hit>>
    BY <2>5, FlipStep, Zenon DEF FlipSteps, infra
  <2> QED
    BY <1>4, <2>1, <2>2, <2>3, <2>4, <2>5, ZenonT(30) DEF ProvisionTenantDB
<1>5. ASSUME NEW a \in Agents, DeletePlatformTenant(a)
      PROVE  TenancyInv' /\ \A r \in rows \ rows' : ~hotel'[r[1]].live \/ r[1] \in hit'
  <2>1. CASE AgentAt(a, "idle")
    BY <1>5, <2>1, ReadingSteps, Zenon DEF DeletePlatformTenant, CleanupStep, infra
  <2>2. CASE /\ AgentAt(a, "delete") /\ DeleteTx(a, agent[a].t)
             /\ UNCHANGED <<seeded, dns, site, redis, conf, pools, hit>>
    <3>1. TenancyInv'
      BY <2>2, DeleteStep, Zenon
    <3>2. ASSUME NEW r \in rows \ rows' PROVE ~hotel'[r[1]].live
      <4>1. r = <<agent[a].t, "shared">> /\ hotel' = [hotel EXCEPT ![agent[a].t].live = FALSE]
        BY <2>2, <3>2, Zenon DEF DeleteTx
      <4>2. agent[a].t \in Tenants
        BY <2>2, EarlySteps, WorksOn, Zenon
      <4> QED
        BY <4>1, <4>2, Zenon DEF TenancyInv, TenancyTypes
    <3> QED
      BY <3>1, <3>2, Zenon
  <2>3. CASE CleanupStep(a) /\ UNCHANGED <<hotel, reg, conf, pools>>
    BY <2>3, CleanupSteps, Zenon
  <2> QED
    BY <1>5, <2>1, <2>2, <2>3, Zenon DEF DeletePlatformTenant
<1>6. ASSUME NEW a \in Agents, PoolForHotel(a) PROVE TenancyInv' /\ rows \subseteq rows'
  BY <1>6, ReadingSteps, Zenon DEF PoolForHotel, infra
<1> QED
  BY <1>1, <1>2, <1>3, <1>4, <1>5, <1>6, TrafficSteps, Zenon DEF TenancyNext

(* The invariant is inductive, and holds in every reachable state.          *)
LEMMA TenancyInvariant == TenancySpec => []TenancyInv
<1>1. TenancyInv /\ [TenancyNext]_tenancyVars => TenancyInv'
  BY TenancyStep, Zenon
<1> QED
  BY TenancyInitially, <1>1, PTL DEF TenancySpec

(* The shared database holds rows of existing hotels only, and a tenant      *)
(* database rows of hotels of its slug, for any number of tenants, requests, *)
(* failures and restarts (provision_handler.go, tenant/manager.go).          *)
THEOREM TenantRowsStayHome == TenancySpec => []RowsStayHome
<1>1. TenancyInv => RowsStayHome
  BY Zenon DEF TenancyInv, DataHome
<1> QED
  BY TenancyInvariant, <1>1, PTL

(* A tenant shown as active has its record, site and namespace, unless the   *)
(* late cleanup of an earlier tenant of the slug took them.                  *)
THEOREM ActiveTenantReachable == TenancySpec => []ActiveIsReachable
<1>1. TenancyInv => ActiveIsReachable
  BY Zenon DEF TenancyInv, TenantHolds, ActiveIsReachable
<1> QED
  BY TenancyInvariant, <1>1, PTL

(* A tenant routed to a database of its own has it, with its hotel in it.    *)
THEOREM DedicatedTenantHasDatabase == TenancySpec => []DedicatedHasDatabase
<1>1. TenancyInv => DedicatedHasDatabase
  BY Zenon DEF TenancyInv, TenantHolds, DedicatedHasDatabase, Seeded
<1> QED
  BY TenancyInvariant, <1>1, PTL

(* No step destroys a row of a living tenant that is not hit.                *)
THEOREM TenantRowsStand == TenancySpec => LivingRowsStand
<1>1. TenancyInv /\ [TenancyNext]_tenancyVars
        => [\A r \in rows \ rows' : ~hotel'[r[1]].live \/ r[1] \in hit']_tenancyVars
  BY TenancyStep, Zenon
<1> QED
  BY TenancyInvariant, <1>1, PTL DEF TenancySpec, LivingRowsStand

-----------------------------------------------------------------------------
(* The accounts: what a request under way relies on.  A change of roles, or  *)
(* of a tenant's admin, is good for what it has read only until another      *)
(* request gets in between, which marks it late.                             *)
UserRow(x) == x = [hotel |-> x.hotel, pw |-> x.pw, profile |-> x.profile, roles |-> x.roles]
ClerkRow(x) == x = [at |-> x.at, op |-> x.op, h |-> x.h, u |-> x.u, role |-> x.role,
                    nth |-> x.nth, set |-> x.set, late |-> x.late]
AtMostOne(S) == \A a, b \in S : a = b
Looks == {"find", "create", "update"}
Told(h, op) == \E u \in findTenantAdminUser(h) : user[u].pw = IF op = "all" THEN "same" ELSE "new"

(* Tenant by tenant: the ones done come before the one at hand. *)
Place(x) ==
  /\ x.at = "told" => x.op \in {"reset", "all"}
  /\ x.at \in Looks => x.h \in Hotels /\ x.op \in {"impersonate", "reset", "all"}
  /\ x.at \in Looks /\ x.op = "reset" => x.set = {}
  /\ x.at \in Looks /\ x.op = "all" =>
       /\ x.nth \in DOMAIN ByName /\ x.h = ByName[x.nth]
       /\ \A g \in x.set : \E i \in DOMAIN ByName : i < x.nth /\ g = ByName[i]

Fresh(x) ==
  /\ x.at = "replace" => \A u \in Users : u = x.u => user[u].roles \subseteq {"guest"}
  /\ x.op \in {"reset", "all"} =>
       /\ x.at = "create" => AdminsOf(x.h) = {}
       /\ x.at = "update" => x.u \in findTenantAdminUser(x.h)
       /\ x.at \in Looks \cup {"told"} => \A g \in x.set : Told(g, x.op)

ClerkHolds(x) ==
  /\ ClerkRow(x) /\ x.late \in BOOLEAN /\ (x.at = "replace" => x.op = "set role")
  /\ Place(x) /\ (~x.late => Fresh(x))

UsersHold ==
  /\ user = [u \in Users |-> user[u]] /\ \A u \in Users : UserRow(user[u])
  /\ \A u \in Users : u \notin plural => AtMostOne(user[u].roles \ {"guest"})

AccountInv ==
  /\ UsersHold
  /\ clerk = [c \in Clerks |-> clerk[c]] /\ \A c \in Clerks : ClerkHolds(clerk[c])

(* The rows that stand for no user and no request.                          *)
LEMMA BlankRows == UserRow(NoUser) /\ NoUser.roles = {} /\ ClerkRow(NoClerk) /\ NoClerk.at = "idle" /\ NoClerk.late = FALSE
BY Zenon DEF UserRow, NoUser, ClerkRow, NoClerk

(* A request at any other step relies on nothing. *)
Plain(x) == ClerkRow(x) /\ x.late \in BOOLEAN /\ x.at \notin Looks \cup {"replace", "told"}
(* A request that has read nothing relies on nothing.                       *)
LEMMA PlainHolds == ASSUME NEW x, Plain(x) PROVE ClerkHolds(x) /\ ClerkHolds(x)'
BY Zenon DEF Plain, ClerkHolds, Place, Fresh, Looks

(* A free slot has read nothing.                                            *)
LEMMA NoClerkPlain == Plain(NoClerk)
BY BlankRows, Zenon DEF Plain, Looks

(* Init establishes the invariant.                                          *)
LEMMA AccountsInitially == AccountsInit => AccountInv
<1> SUFFICES ASSUME AccountsInit PROVE AccountInv
  BY Zenon
<1>1. user = [u \in Users |-> NoUser] /\ clerk = [c \in Clerks |-> NoClerk]
  BY Zenon DEF AccountsInit
<1>2. ClerkHolds(NoClerk)
  BY NoClerkPlain, PlainHolds, Zenon
<1>3. UsersHold
  BY <1>1, BlankRows, Zenon DEF UsersHold, AtMostOne
<1> QED
  BY <1>1, <1>2, <1>3, Zenon DEF AccountInv

(* The accounts stand but for profiles: whatever was read still holds. *)
SameUsers ==
  /\ older' = older /\ plural' = plural
  /\ user' = [u \in Users |-> user'[u]]
  /\ \A u \in Users : /\ UserRow(user'[u])
                      /\ user'[u].hotel = user[u].hotel /\ user'[u].pw = user[u].pw /\ user'[u].roles = user[u].roles

(* While the users stand, so does whatever was read of them.                *)
LEMMA StillRead ==
  ASSUME SameUsers
  PROVE  /\ \A h : AdminsOf(h)' = AdminsOf(h) /\ findTenantAdminUser(h)' = findTenantAdminUser(h)
         /\ \A u \in Users : user'[u].pw = user[u].pw /\ user'[u].roles = user[u].roles
<1>1. \A u \in Users : RoleRank(u)' = RoleRank(u)
  BY Zenon DEF SameUsers, RoleRank
<1>2. \A h : AdminsOf(h)' = AdminsOf(h)
  BY <1>1, Zenon DEF SameUsers, AdminsOf
<1>3. \A u, v \in Users : Before(u, v)' = Before(u, v)
  BY <1>1, Zenon DEF SameUsers, Before
<1>4. \A h : AdminsOf(h) \subseteq Users
  BY Zenon DEF AdminsOf
<1>5. \A h : findTenantAdminUser(h)' = findTenantAdminUser(h)
  BY <1>2, <1>3, <1>4, Zenon DEF findTenantAdminUser
<1> QED
  BY <1>2, <1>5, Zenon DEF SameUsers

(* What a request relies on outlives a step that leaves the users alone.    *)
LEMMA StillHolds ==
  ASSUME SameUsers, NEW x, ClerkHolds(x)
  PROVE  ClerkHolds(x)'
<1>1. \A h : findTenantAdminUser(h) \subseteq Users
  BY Zenon DEF findTenantAdminUser, AdminsOf
<1>2. \A h, op : Told(h, op) => Told(h, op)'
  BY <1>1, StillRead, Zenon DEF Told
<1>3. Fresh(x) => Fresh(x)'
  BY <1>2, StillRead, Zenon DEF Fresh
<1>4. Place(x)'
  BY Zenon DEF ClerkHolds, Place
<1> QED
  BY <1>3, <1>4, Zenon DEF ClerkHolds

(* One request moves on and the accounts stand. *)
LEMMA MovesOn ==
  ASSUME AccountInv, SameUsers, NEW c \in Clerks, NEW x, ClerkHolds(x) \/ ClerkHolds(x)', MoveOn(c, x)
  PROVE  AccountInv'
<1>0. ClerkHolds(x)'
  BY StillHolds, Zenon
<1>1. clerk' = [d \in Clerks |-> clerk'[d]] /\ \A d \in Clerks : clerk'[d] = IF d = c THEN x ELSE clerk[d]
  BY Zenon DEF MoveOn, AccountInv
<1>2. \A d \in Clerks : ClerkHolds(clerk[d]) /\ (ClerkHolds(clerk[d]) => \A y : y = clerk[d] => ClerkHolds(y)')
  BY StillHolds, Zenon DEF AccountInv
<1>3. \A d \in Clerks : ClerkHolds(clerk[d])'
  <2> SUFFICES ASSUME NEW d \in Clerks PROVE ClerkHolds(clerk[d])'
    BY Zenon
  <2>1. PICK y : y = clerk[d]
    BY Zenon
  <2>2. ClerkHolds(y)'
    BY <1>2, <2>1, Zenon
  <2>3. PICK z : z = clerk'[d]
    BY Zenon
  <2>4. z = IF d = c THEN x ELSE y
    BY <1>1, <2>1, <2>3, Zenon
  <2>5. ClerkHolds(z)'
    BY <1>0, <2>2, <2>4, Zenon
  <2> QED
    BY <2>3, <2>5, Zenon
<1>4. UsersHold'
  BY Zenon DEF SameUsers, UsersHold, AccountInv
<1> QED
  BY <1>1, <1>3, <1>4, Zenon DEF AccountInv

(* One that gets in between leaves nobody else with anything to rely on. *)
LEMMA TooLate ==
  ASSUME NEW x, ClerkHolds(x), NEW y,
         y = IF x.op \in {"set role", "reset", "all"} THEN [x EXCEPT !.late = TRUE] ELSE x
  PROVE  ClerkHolds(y)'
<1>1. CASE x.op \in {"set role", "reset", "all"}
  <2>1. /\ ClerkRow(y) /\ y.at = x.at /\ y.op = x.op /\ y.h = x.h /\ y.nth = x.nth /\ y.set = x.set
        /\ y.late = TRUE
    BY <1>1, Zenon DEF ClerkHolds, ClerkRow
  <2>2. Place(y)'
    BY <2>1, Zenon DEF ClerkHolds, Place
  <2> QED
    BY <2>1, <2>2, Zenon DEF ClerkHolds
<1>2. CASE x.op \notin {"set role", "reset", "all"}
  <2>1. y = x /\ x.at # "replace" /\ Place(y)'
    BY <1>2, Zenon DEF ClerkHolds, Place
  <2>2. Fresh(y)'
    BY <1>2, <2>1, Zenon DEF Fresh
  <2> QED
    BY <2>1, <2>2, Zenon DEF ClerkHolds
<1> QED
  BY <1>1, <1>2, Zenon

(* A request marked late relies on nothing that a write could change.       *)
LEMMA AllTooLate ==
  ASSUME AccountInv, NEW d \in Clerks, NEW y, y = Overtaken(d)
  PROVE  ClerkHolds(y)'
<1>1. PICK x : x = clerk[d]
  BY Zenon
<1>2. ClerkHolds(x) /\ y = IF x.op \in {"set role", "reset", "all"} THEN [x EXCEPT !.late = TRUE] ELSE x
  BY <1>1, Zenon DEF AccountInv, Overtaken, Overtakable
<1> QED
  BY <1>2, TooLate, Zenon

(* A write of one request, which marks the others late, keeps the           *)
(* invariant.                                                               *)
LEMMA Touches ==
  ASSUME AccountInv, UsersHold', NEW c \in Clerks, NEW x, ClerkHolds(x)', Touch(c, x)
  PROVE  AccountInv'
<1>1. clerk' = [d \in Clerks |-> clerk'[d]]
  BY Zenon DEF Touch
<1>2. \A d \in Clerks : ClerkHolds(clerk[d])'
  <2> SUFFICES ASSUME NEW d \in Clerks PROVE ClerkHolds(clerk[d])'
    BY Zenon
  <2>1. PICK y : y = clerk'[d]
    BY Zenon
  <2>2. y = IF d = c THEN x ELSE Overtaken(d)
    BY <2>1, Zenon DEF Touch
  <2>3. ClerkHolds(y)'
    BY <2>2, AllTooLate, Zenon
  <2> QED
    BY <2>1, <2>3, Zenon
<1> QED
  BY <1>1, <1>2, Zenon DEF AccountInv

(* So does a write from outside, which marks all of them.                   *)
LEMMA EverybodyLate ==
  ASSUME AccountInv, UsersHold', clerk' = [d \in Clerks |-> Overtaken(d)]
  PROVE  AccountInv'
<1>1. \A d \in Clerks : ClerkHolds(clerk[d])'
  <2> SUFFICES ASSUME NEW d \in Clerks PROVE ClerkHolds(clerk[d])'
    BY Zenon
  <2>1. PICK y : y = clerk'[d]
    BY Zenon
  <2>2. y = Overtaken(d)
    BY <2>1, Zenon
  <2>3. ClerkHolds(y)'
    BY <2>2, AllTooLate, Zenon
  <2> QED
    BY <2>1, <2>3, Zenon
<1> QED
  BY <1>1, Zenon DEF AccountInv

(* One user's row is written. *)
LEMMA Rewritten ==
  ASSUME UsersHold, NEW u, NEW row, u \in Users => UserRow(row), user' = [user EXCEPT ![u] = row],
         plural \ {u} \subseteq plural',
         u \in Users /\ u \notin plural' => AtMostOne(row.roles \ {"guest"})
  PROVE  UsersHold' /\ \A v \in Users : user'[v] = IF v = u THEN row ELSE user[v]
<1>1. user' = [v \in Users |-> user'[v]] /\ \A v \in Users : user'[v] = IF v = u THEN row ELSE user[v]
  BY Zenon DEF UsersHold
<1>2. \A v \in Users : UserRow(user'[v])
  BY <1>1, Zenon DEF UsersHold
<1>3. \A v \in Users : v \notin plural' => AtMostOne(user'[v].roles \ {"guest"})
  BY <1>1, Zenon DEF UsersHold
<1> QED
  BY <1>1, <1>2, <1>3, Zenon DEF UsersHold

(* A write of the roles of one user changes no other user.                  *)
LEMMA RolesWritten ==
  ASSUME UsersHold, NEW u, NEW roles, user' = [user EXCEPT ![u].roles = roles],
         plural \subseteq plural',
         u \in Users /\ u \notin plural' => AtMostOne(roles \ {"guest"})
  PROVE  UsersHold' /\ \A v \in Users : user'[v].roles = IF v = u THEN roles ELSE user[v].roles
<1>1. PICK row : row = [user[u] EXCEPT !.roles = roles]
  BY Zenon
<1>2. u \in Users => UserRow(row) /\ row.roles = roles
  BY <1>1, SMTT(30) DEF UsersHold, UserRow
<1>3. user' = [user EXCEPT ![u] = row] /\ plural \ {u} \subseteq plural'
  BY <1>1, Zenon
<1>4. /\ u \in Users => UserRow(row)
      /\ u \in Users /\ u \notin plural' => AtMostOne(row.roles \ {"guest"})
  BY <1>2, Zenon
<1>5. UsersHold' /\ \A v \in Users : user'[v] = IF v = u THEN row ELSE user[v]
  BY <1>3, <1>4, Rewritten, Zenon
<1> QED
  BY <1>2, <1>5, SMTT(30)

(* A write of a password changes no role and no other user.                 *)
LEMMA PasswordWritten ==
  ASSUME UsersHold, NEW u, NEW pw, SetPassword(u, pw), plural' = plural
  PROVE  /\ UsersHold'
         /\ \A v \in Users : /\ user'[v].roles = user[v].roles /\ user'[v].hotel = user[v].hotel
                             /\ user'[v].pw = IF v = u /\ Exists(u) THEN pw ELSE user[v].pw
<1>1. PICK row : row = [user[u] EXCEPT !.pw = IF Exists(u) THEN pw ELSE user[u].pw]
  BY Zenon
<1>2. u \in Users => /\ UserRow(row) /\ row.roles = user[u].roles /\ row.hotel = user[u].hotel
                     /\ row.pw = IF Exists(u) THEN pw ELSE user[u].pw
  BY <1>1, SMTT(30) DEF UsersHold, UserRow
<1>3. user' = [user EXCEPT ![u] = row] /\ plural \ {u} \subseteq plural'
  BY <1>1, Zenon DEF SetPassword
<1>4. /\ u \in Users => UserRow(row)
      /\ u \in Users /\ u \notin plural' => AtMostOne(row.roles \ {"guest"})
  BY <1>2, Zenon DEF UsersHold
<1>5. UsersHold' /\ \A v \in Users : user'[v] = IF v = u THEN row ELSE user[v]
  BY <1>3, <1>4, Rewritten, Zenon
<1> QED
  BY <1>2, <1>5, Zenon

(* Users that are removed leave the others as they were.                    *)
LEMMA Removed ==
  ASSUME UsersHold, NEW S, Gone(S)
  PROVE  UsersHold'
<1>1. user' = [u \in Users |-> user'[u]] /\ \A u \in Users : user'[u] = IF u \in S THEN NoUser ELSE user[u]
  BY Zenon DEF Gone
<1>2. plural' = plural \ S
  BY Zenon DEF Gone
<1>3. \A u \in Users : UserRow(user'[u])
  BY <1>1, BlankRows, Zenon DEF UsersHold
<1>4. \A u \in Users : u \notin plural' => AtMostOne(user'[u].roles \ {"guest"})
  BY <1>1, <1>2, BlankRows, Zenon DEF UsersHold, AtMostOne
<1> QED
  BY <1>1, <1>3, <1>4, Zenon DEF UsersHold

-----------------------------------------------------------------------------
(* Users & Roles, step by step.                                              *)

(* A step that leaves the tables alone leaves the users alone.              *)
LEMMA UnchangedUsers == ASSUME AccountInv, UNCHANGED <<user, older, plural>> PROVE SameUsers
BY Zenon DEF AccountInv, UsersHold, SameUsers

(* A request ends.                                                          *)
LEMMA GiveUpStep == ASSUME AccountInv, NEW c \in Clerks, GiveUp(c) PROVE AccountInv'
<1>1. MoveOn(c, NoClerk) /\ SameUsers
  BY UnchangedUsers, Zenon DEF GiveUp
<1> QED
  BY <1>1, NoClerkPlain, PlainHolds, MovesOn, Zenon

(* A user is inserted, or the insert fails.                                 *)
LEMMA CreateForHotelStep ==
  ASSUME AccountInv, NEW c \in Clerks, NEW h, NEW op, NEW role, CreateForHotel(c, h, op, role)
  PROVE  AccountInv'
<1>1. PICK u \in Staff : /\ Insert(u, [NoUser EXCEPT !.hotel = h, !.pw = "other"])
                         /\ Touch(c, [NoClerk EXCEPT !.at = "profile", !.op = op, !.u = u, !.role = role])
                         /\ plural' = plural
  BY Zenon DEF CreateForHotel
<1>2. PICK x : x = [NoClerk EXCEPT !.at = "profile", !.op = op, !.u = u, !.role = role]
  BY Zenon
<1>3. Plain(x)
  BY <1>2, Zenon DEF Plain, ClerkRow, NoClerk, Looks
<1>4. PICK row : row = [NoUser EXCEPT !.hotel = h, !.pw = "other"]
  BY Zenon
<1>5. UserRow(row) /\ row.roles = {}
  BY <1>4, Zenon DEF UserRow, NoUser
<1>6. user' = [user EXCEPT ![u] = row] /\ Touch(c, x) /\ plural \ {u} \subseteq plural'
  BY <1>1, <1>2, <1>4, Zenon DEF Insert
<1>7. AtMostOne(row.roles \ {"guest"})
  BY <1>5, Zenon DEF AtMostOne
<1>8. UsersHold'
  BY <1>5, <1>6, <1>7, Rewritten, Zenon DEF AccountInv
<1> QED
  BY <1>3, <1>6, <1>8, PlainHolds, Touches, Zenon

(* The profile of a new user is inserted, or the insert fails.              *)
LEMMA CreateProfileStep ==
  ASSUME AccountInv, NEW c \in Clerks, NEW op, CreateProfile(c, op)
  PROVE  AccountInv'
<1>1. CASE /\ user' = [user EXCEPT ![clerk[c].u].profile = TRUE] /\ MoveOn(c, Mine(c, "role"))
           /\ UNCHANGED <<older, plural>>
  <2>1. PICK u : u = clerk[c].u
    BY Zenon
  <2>2. PICK row : row = [user[u] EXCEPT !.profile = TRUE]
    BY Zenon
  <2>3. user' = [user EXCEPT ![u] = row]
    BY <1>1, <2>1, <2>2, Zenon
  <2>4. u \in Users => UserRow(row) /\ row.hotel = user[u].hotel /\ row.pw = user[u].pw /\ row.roles = user[u].roles
    <3>1. u \in Users => UserRow(user[u])
      BY Zenon DEF AccountInv, UsersHold
    <3> QED
      BY <2>2, <3>1, Zenon DEF UserRow
  <2>5. \A v \in Users : user'[v] = IF v = u THEN row ELSE user[v]
    BY <2>3, Zenon DEF AccountInv, UsersHold
  <2>6. user' = [v \in Users |-> user'[v]]
    BY <2>3, Zenon DEF AccountInv, UsersHold
  <2>7. SameUsers
    BY <1>1, <2>4, <2>5, <2>6, Zenon DEF SameUsers, AccountInv, UsersHold
  <2>8. PICK x : x = Mine(c, "role")
    BY Zenon
  <2>9. ClerkHolds(clerk[c])
    BY Zenon DEF AccountInv
  <2>10. Plain(x)
    BY <2>8, <2>9, Zenon DEF Plain, Mine, ClerkHolds, ClerkRow, Looks
  <2> QED
    BY <1>1, <2>7, <2>8, <2>10, PlainHolds, MovesOn, Zenon
<1>2. CASE GiveUp(c)
  BY <1>2, GiveUpStep, Zenon
<1> QED
  BY <1>1, <1>2, Zenon DEF CreateProfile

(* A role is added, or the insert fails.                                    *)
LEMMA AddRoleStepStep ==
  ASSUME AccountInv, NEW c \in Clerks, NEW op, NEW step, AddRoleStep(c, op, step)
  PROVE  AccountInv'
<1>1. CASE GrantRole(clerk[c].u, clerk[c].role) /\ Touch(c, NoClerk)
  <2>1. PICK u, role : u = clerk[c].u /\ role = clerk[c].role
    BY Zenon
  <2>2. PICK roles : roles = user[u].roles \cup {role}
    BY Zenon
  <2>3. user' = [user EXCEPT ![u].roles = roles] /\ plural' = IF Beside(u, role) THEN plural \cup {u} ELSE plural
    BY <1>1, <2>1, <2>2, Zenon DEF GrantRole
  <2>4. ASSUME u \in Users, u \notin plural' PROVE AtMostOne(roles \ {"guest"})
    <3>1. u \notin plural /\ ~Beside(u, role)
      BY <2>3, <2>4, Zenon
    <3>2. AtMostOne(user[u].roles \ {"guest"})
      BY <2>4, <3>1, Zenon DEF AccountInv, UsersHold
    <3>3. role = "guest" \/ user[u].roles \ {"guest", role} = {}
      BY <3>1, Zenon DEF Beside
    <3> QED
      BY <2>2, <3>2, <3>3, Zenon DEF AtMostOne
  <2>5. UsersHold'
    BY <2>3, <2>4, RolesWritten, Zenon DEF AccountInv
  <2> QED
    BY <1>1, <2>5, NoClerkPlain, PlainHolds, Touches, Zenon
<1>2. CASE GiveUp(c)
  BY <1>2, GiveUpStep, Zenon
<1> QED
  BY <1>1, <1>2, Zenon DEF AddRoleStep

(* userInTenant finds the user a request is about, or refuses.              *)
LEMMA UserInTenantStep ==
  ASSUME AccountInv, NEW c \in Clerks, NEW u, NEW role,
         NEW op \in {"set role", "add role", "remove role", "delete", "password"}, userInTenant(c, u, op, role)
  PROVE  AccountInv'
<1>1. PICK x : x = [NoClerk EXCEPT !.at = op, !.op = op, !.u = u, !.role = role]
  BY Zenon
<1>2. Plain(x)
  BY <1>1, Zenon DEF Plain, ClerkRow, NoClerk, Looks
<1>3. MoveOn(c, x) /\ SameUsers
  BY <1>1, UnchangedUsers, Zenon DEF userInTenant
<1> QED
  BY <1>2, <1>3, PlainHolds, MovesOn, Zenon

(* SetRole removes every role, then adds one.                               *)
LEMMA SetRoleStep == ASSUME AccountInv, NEW c \in Clerks, SetRole(c) PROVE AccountInv'
<1>0. PICK u, role : u = clerk[c].u /\ role = clerk[c].role
  BY Zenon
<1>1. ASSUME NEW v \in Users, NEW given \in StaffRoles, userInTenant(c, v, "set role", given) PROVE AccountInv'
  BY <1>1, UserInTenantStep, Zenon
<1>2. CASE RemoveAllRoles(c) /\ plural' = plural
  <2>1. PICK roles : roles = user[u].roles \cap {"guest"}
    BY Zenon
  <2>2. user' = [user EXCEPT ![u].roles = roles] /\ ClerkAt(c, "set role", "set role") /\ Touch(c, Mine(c, "replace"))
    BY <1>0, <1>2, <2>1, Zenon DEF RemoveAllRoles
  <2>3. AtMostOne(roles \ {"guest"}) /\ roles \subseteq {"guest"} /\ plural \subseteq plural'
    BY <1>2, <2>1, Zenon DEF AtMostOne
  <2>4. UsersHold' /\ \A v \in Users : user'[v].roles = IF v = u THEN roles ELSE user[v].roles
    <3>1. UsersHold /\ user' = [user EXCEPT ![u].roles = roles]
      BY <2>2, Zenon DEF AccountInv
    <3>2. UsersHold'
      BY <2>3, <3>1, RolesWritten, Zenon
    <3>3. \A v \in Users : user'[v].roles = IF v = u THEN roles ELSE user[v].roles
      BY <3>1, SMTT(30) DEF UsersHold, UserRow
    <3> QED
      BY <3>2, <3>3, Zenon
  <2>5. PICK x : x = Mine(c, "replace")
    BY Zenon
  <2>6. ClerkHolds(clerk[c])
    BY Zenon DEF AccountInv
  <2>7. ClerkRow(x) /\ x.at = "replace" /\ x.op = "set role" /\ x.u = u /\ x.late \in BOOLEAN
    BY <1>0, <2>2, <2>5, <2>6, Zenon DEF Mine, ClerkHolds, ClerkRow, ClerkAt
  <2>8. Place(x)' /\ Fresh(x)'
    BY <2>3, <2>4, <2>7, Zenon DEF Place, Fresh, Looks
  <2>9. ClerkHolds(x)'
    BY <2>7, <2>8, Zenon DEF ClerkHolds
  <2> QED
    BY <2>2, <2>4, <2>5, <2>9, Touches, Zenon
<1>3. CASE /\ ClerkAt(c, "set role", "replace") /\ user' = [user EXCEPT ![u].roles = @ \cup {role}]
           /\ Touch(c, NoClerk) /\ plural' = IF clerk[c].late THEN plural \cup {u} ELSE plural
  <2>1. PICK roles : roles = user[u].roles \cup {role}
    BY Zenon
  <2>2. ASSUME u \in Users, u \notin plural' PROVE AtMostOne(roles \ {"guest"})
    <3>1. ~clerk[c].late /\ ClerkHolds(clerk[c])
      BY <1>3, <2>2, Zenon DEF AccountInv
    <3>2. user[u].roles \subseteq {"guest"}
      BY <1>0, <1>3, <2>2, <3>1, Zenon DEF ClerkHolds, Fresh, ClerkAt
    <3> QED
      BY <2>1, <3>2, Zenon DEF AtMostOne
  <2>3. plural \subseteq plural' /\ user' = [user EXCEPT ![u].roles = roles]
    BY <1>3, <2>1, Zenon
  <2>4. UsersHold'
    BY <2>2, <2>3, RolesWritten, Zenon DEF AccountInv
  <2> QED
    BY <1>3, <2>4, NoClerkPlain, PlainHolds, Touches, Zenon
<1>4. CASE GiveUp(c)
  BY <1>4, GiveUpStep, Zenon
<1> QED
  BY <1>0, <1>1, <1>2, <1>3, <1>4, Zenon DEF SetRole

(* RemoveRole removes one role.                                             *)
LEMMA RemoveRoleStep == ASSUME AccountInv, NEW c \in Clerks, RemoveRole(c) PROVE AccountInv'
<1>0. PICK u, role : u = clerk[c].u /\ role = clerk[c].role
  BY Zenon
<1>1. ASSUME NEW v \in Users, NEW given \in StaffRoles, userInTenant(c, v, "remove role", given) PROVE AccountInv'
  BY <1>1, UserInTenantStep, Zenon
<1>2. CASE Touch(c, NoClerk) /\ user' = [user EXCEPT ![u].roles = @ \ {role}] /\ plural' = plural
  <2>1. PICK roles : roles = user[u].roles \ {role}
    BY Zenon
  <2>2. ASSUME u \in Users, u \notin plural' PROVE AtMostOne(roles \ {"guest"})
    <3>1. AtMostOne(user[u].roles \ {"guest"})
      BY <1>2, <2>2, Zenon DEF AccountInv, UsersHold
    <3> QED
      BY <2>1, <3>1, Zenon DEF AtMostOne
  <2>3. plural \subseteq plural' /\ user' = [user EXCEPT ![u].roles = roles]
    BY <1>2, <2>1, Zenon
  <2>4. UsersHold'
    BY <2>2, <2>3, RolesWritten, Zenon DEF AccountInv
  <2> QED
    BY <1>2, <2>4, NoClerkPlain, PlainHolds, Touches, Zenon
<1> QED
  BY <1>0, <1>1, <1>2, Zenon DEF RemoveRole

(* A user is deleted.                                                       *)
LEMMA DeleteUserStep == ASSUME AccountInv, NEW c \in Clerks, DeleteUser(c) PROVE AccountInv'
<1>1. ASSUME NEW v \in Users, userInTenant(c, v, "delete", "none") PROVE AccountInv'
  BY <1>1, UserInTenantStep, Zenon
<1>2. CASE Touch(c, NoClerk) /\ Gone({clerk[c].u})
  <2>1. UsersHold'
    BY <1>2, Removed, Zenon DEF AccountInv
  <2> QED
    BY <1>2, <2>1, NoClerkPlain, PlainHolds, Touches, Zenon
<1> QED
  BY <1>1, <1>2, Zenon DEF DeleteUser

(* The password of a user is set.                                           *)
LEMMA ResetPasswordStep == ASSUME AccountInv, NEW c \in Clerks, ResetPassword(c) PROVE AccountInv'
<1>1. ASSUME NEW v \in Users, userInTenant(c, v, "password", "none") PROVE AccountInv'
  BY <1>1, UserInTenantStep, Zenon
<1>2. CASE Touch(c, NoClerk) /\ SetPassword(clerk[c].u, "other") /\ plural' = plural
  <2>1. UsersHold'
    BY <1>2, PasswordWritten, Zenon DEF AccountInv
  <2> QED
    BY <1>2, <2>1, NoClerkPlain, PlainHolds, Touches, Zenon
<1> QED
  BY <1>1, <1>2, Zenon DEF ResetPassword

(* Every step of the staff screens keeps the invariant.                     *)
LEMMA RolesStep == ASSUME AccountInv, RolesNext PROVE AccountInv'
<1>1. PICK c \in Clerks : \/ SignUp(c) \/ SetRole(c) \/ AddRole(c) \/ RemoveRole(c) \/ DeleteUser(c)
                          \/ \E h \in Hotels : CreateStaffMember(c, h)
  BY Zenon DEF RolesNext
<1>2. CASE SignUp(c)
  BY <1>2, CreateForHotelStep, CreateProfileStep, AddRoleStepStep, Zenon DEF SignUp
<1>3. CASE \E h \in Hotels : CreateStaffMember(c, h)
  BY <1>3, CreateForHotelStep, CreateProfileStep, AddRoleStepStep, Zenon DEF CreateStaffMember
<1>4. CASE AddRole(c)
  BY <1>4, UserInTenantStep, AddRoleStepStep, Zenon DEF AddRole
<1> QED
  BY <1>1, <1>2, <1>3, <1>4, SetRoleStep, RemoveRoleStep, DeleteUserStep, Zenon

-----------------------------------------------------------------------------
(* The platform and a tenant's admin.                                        *)

(* A default admin for a tenant that has none becomes its admin; the admins  *)
(* of the other tenants stay who they are.                                   *)
LEMMA AdminInserted ==
  ASSUME UsersHold, NEW h \in Hotels, NEW w, w = DefaultAdmin[h], ~Exists(w), plural' = plural,
         Insert(w, [hotel |-> h, pw |-> "other", profile |-> TRUE, roles |-> {"hotel_admin"}])
  PROVE  /\ UsersHold'
         /\ AdminsOf(h) = {} => w \in findTenantAdminUser(h)'
         /\ \A g \in Hotels \ {h} : \A u \in findTenantAdminUser(g) :
              u \in findTenantAdminUser(g)' /\ user'[u].pw = user[u].pw
<1>0. w \in Users /\ "none" \notin Hotels
  BY AccountsAssumption, Zenon DEF Users
<1>1. PICK row : row = [hotel |-> h, pw |-> "other", profile |-> TRUE, roles |-> {"hotel_admin"}]
  BY Zenon
<1>2. UserRow(row) /\ row.hotel = h /\ row.roles = {"hotel_admin"}
  BY <1>1, Zenon DEF UserRow
<1>3. user' = [user EXCEPT ![w] = row] /\ plural \ {w} \subseteq plural'
  BY <1>1, Zenon DEF Insert
<1>4. AtMostOne(row.roles \ {"guest"})
  BY <1>2, Zenon DEF AtMostOne
<1>5. UsersHold'
  BY <1>2, <1>3, <1>4, Rewritten, Zenon
<1>6. \A v \in Users : user'[v] = IF v = w THEN row ELSE user[v]
  BY <1>3, Zenon DEF UsersHold
<1>7. \A v \in Users \ {w} : RoleRank(v)' = RoleRank(v)
  BY <1>6, Zenon DEF RoleRank
<1>8. RoleRank(w)' = 0
  BY <1>0, <1>2, <1>6, Zenon DEF RoleRank
<1>9. \A u, v \in Users \ {w} : <<u, v>> \in older' <=> <<u, v>> \in older
  BY Zenon DEF Insert
<1>10. \A g \in Hotels \ {h} : AdminsOf(g)' = AdminsOf(g) /\ AdminsOf(g) \subseteq Users \ {w}
  <2> SUFFICES ASSUME NEW g \in Hotels \ {h} PROVE AdminsOf(g)' = AdminsOf(g) /\ AdminsOf(g) \subseteq Users \ {w}
    BY Zenon
  <2>1. user[w].hotel # g /\ user'[w].hotel # g
    BY <1>0, <1>2, <1>6, Zenon DEF Exists
  <2>2. \A v \in Users \ {w} : user'[v].hotel = user[v].hotel
    BY <1>6, Zenon
  <2> QED
    BY <1>7, <2>1, <2>2, Zenon DEF AdminsOf
<1>11. ASSUME AdminsOf(h) = {} PROVE w \in findTenantAdminUser(h)'
  <2>1. \A v \in Users \ {w} : ~(user'[v].hotel = h /\ RoleRank(v)' < 3)
    BY <1>6, <1>7, <1>11, SMTT(30) DEF AdminsOf
  <2>2. AdminsOf(h)' = {w}
    BY <1>0, <1>2, <1>6, <1>8, <2>1, SMTT(30) DEF AdminsOf
  <2>3. Before(w, w)'
    BY Zenon DEF Before
  <2> QED
    BY <2>2, <2>3, Zenon DEF findTenantAdminUser
<1>12. ASSUME NEW g \in Hotels \ {h}, NEW u \in findTenantAdminUser(g)
       PROVE  u \in findTenantAdminUser(g)' /\ user'[u].pw = user[u].pw
  <2>1. u \in AdminsOf(g) /\ u \in Users \ {w} /\ \A v \in AdminsOf(g) : Before(u, v)
    BY <1>10, <1>12, Zenon DEF findTenantAdminUser
  <2>2. \A v \in AdminsOf(g) : Before(u, v)'
    BY <1>7, <1>9, <1>10, <2>1, Zenon DEF Before
  <2> QED
    BY <1>6, <1>10, <2>1, <2>2, Zenon DEF findTenantAdminUser
<1> QED
  BY <1>5, <1>11, <1>12, Zenon

(* A new password for one user moves no admin. *)
LEMMA AdminsStay ==
  ASSUME older' = older, \A v \in Users : user'[v].roles = user[v].roles /\ user'[v].hotel = user[v].hotel
  PROVE  \A h : findTenantAdminUser(h)' = findTenantAdminUser(h)
<1>1. \A u \in Users : RoleRank(u)' = RoleRank(u)
  BY Zenon DEF RoleRank
<1>2. \A h : AdminsOf(h)' = AdminsOf(h) /\ AdminsOf(h) \subseteq Users
  BY <1>1, Zenon DEF AdminsOf
<1>3. \A u, v \in Users : Before(u, v)' = Before(u, v)
  BY <1>1, Zenon DEF Before
<1> QED
  BY <1>2, <1>3, Zenon DEF findTenantAdminUser

(* The look-up, and the creation where there is nobody. *)
LEMMA EnsureStep ==
  ASSUME AccountInv, NEW c \in Clerks, NEW failed, ClerkHolds(failed),
         NEW op \in {"impersonate", "reset", "all"}, NEW next, next = IF op = "impersonate" THEN "ticket" ELSE "update",
         ensureTenantAdmin(c, op, next, failed)
  PROVE  AccountInv'
<1>0. PICK h : h = clerk[c].h
  BY Zenon
<1>1. ClerkHolds(clerk[c]) /\ UsersHold
  BY Zenon DEF AccountInv
<1>2. CASE ClerkAt(c, op, "find") /\ AdminsOf(h) = {} /\ MoveOn(c, Mine(c, "create")) /\ UNCHANGED <<user, older, plural>>
  <2>1. PICK x : x = Mine(c, "create")
    BY Zenon
  <2>2. /\ ClerkRow(x) /\ x.at = "create" /\ x.op = op /\ x.h = h /\ x.set = clerk[c].set /\ x.nth = clerk[c].nth
        /\ x.late = clerk[c].late
    BY <1>0, <1>1, <1>2, <2>1, Zenon DEF Mine, ClerkHolds, ClerkRow, ClerkAt
  <2>3. Place(x)
    BY <1>0, <1>1, <1>2, <2>2, ZenonT(30) DEF ClerkHolds, Place, Looks, ClerkAt
  <2>4. ~x.late => Fresh(x)
    BY <1>1, <1>2, <2>2, Zenon DEF ClerkHolds, Fresh, Looks, ClerkAt
  <2>5. ClerkHolds(x) /\ SameUsers
    BY <1>1, <1>2, <2>2, <2>3, <2>4, UnchangedUsers, Zenon DEF ClerkHolds
  <2> QED
    BY <1>2, <2>1, <2>5, MovesOn, Zenon
<1>3. ASSUME ClerkAt(c, op, "find"), NEW u \in findTenantAdminUser(h), MoveOn(c, [Mine(c, next) EXCEPT !.u = u]),
             UNCHANGED <<user, older, plural>>
      PROVE  AccountInv'
  <2>1. PICK x : x = [Mine(c, next) EXCEPT !.u = u]
    BY Zenon
  <2>2. /\ ClerkRow(x) /\ x.at = next /\ x.op = op /\ x.h = h /\ x.u = u /\ x.set = clerk[c].set /\ x.nth = clerk[c].nth
        /\ x.late = clerk[c].late
    BY <1>0, <1>1, <1>3, <2>1, Zenon DEF Mine, ClerkHolds, ClerkRow, ClerkAt
  <2>3. Place(x)
    BY <1>0, <1>1, <1>3, <2>2, Zenon DEF ClerkHolds, Place, Looks, ClerkAt
  <2>4. ~x.late => Fresh(x)
    BY <1>1, <1>3, <2>2, Zenon DEF ClerkHolds, Fresh, Looks, ClerkAt
  <2>5. ClerkHolds(x) /\ SameUsers
    BY <1>1, <1>3, <2>2, <2>3, <2>4, UnchangedUsers, Zenon DEF ClerkHolds
  <2> QED
    BY <1>3, <2>1, <2>5, MovesOn, Zenon
<1>4. CASE /\ ClerkAt(c, op, "create") /\ ~Exists(DefaultAdmin[h]) /\ plural' = plural
           /\ Insert(DefaultAdmin[h], [hotel |-> h, pw |-> "other", profile |-> TRUE, roles |-> {"hotel_admin"}])
           /\ Touch(c, [Mine(c, next) EXCEPT !.u = DefaultAdmin[h]])
  <2>1. PICK w : w = DefaultAdmin[h]
    BY Zenon
  <2>2. h \in Hotels
    BY <1>0, <1>1, <1>4, Zenon DEF ClerkHolds, Place, Looks, ClerkAt
  <2>3. /\ UsersHold'
        /\ AdminsOf(h) = {} => w \in findTenantAdminUser(h)'
        /\ \A g \in Hotels \ {h} : \A u \in findTenantAdminUser(g) :
             u \in findTenantAdminUser(g)' /\ user'[u].pw = user[u].pw
    BY <1>1, <1>4, <2>1, <2>2, AdminInserted, Zenon
  <2>4. PICK x : x = [Mine(c, next) EXCEPT !.u = w]
    BY Zenon
  <2>5. /\ ClerkRow(x) /\ x.at = next /\ x.op = op /\ x.h = h /\ x.u = w /\ x.set = clerk[c].set /\ x.nth = clerk[c].nth
        /\ x.late = clerk[c].late
    BY <1>0, <1>1, <1>4, <2>4, Zenon DEF Mine, ClerkHolds, ClerkRow, ClerkAt
  <2>6. Place(x)'
    BY <1>0, <1>1, <1>4, <2>5, Zenon DEF ClerkHolds, Place, Looks, ClerkAt
  <2>7. ASSUME ~x.late PROVE Fresh(x)'
    <3>1. Fresh(clerk[c])
      BY <1>1, <2>5, <2>7, Zenon DEF ClerkHolds
    <3>2. CASE op = "impersonate"
      BY <2>5, <3>2, Zenon DEF Fresh
    <3>3. CASE op \in {"reset", "all"}
      <4>1. w \in findTenantAdminUser(h)'
        BY <1>0, <1>4, <2>3, <3>1, <3>3, Zenon DEF Fresh, ClerkAt
      <4>2. \A g \in x.set : g \in Hotels \ {h} /\ Told(g, op)
        <5>1. \A g \in x.set : Told(g, op)
          BY <1>4, <2>5, <3>1, <3>3, Zenon DEF Fresh, Looks, ClerkAt
        <5>2. CASE op = "reset"
          BY <1>1, <1>4, <2>5, <5>2, Zenon DEF ClerkHolds, Place, Looks, ClerkAt
        <5>3. CASE op = "all"
          <6>1. /\ clerk[c].nth \in DOMAIN ByName /\ h = ByName[clerk[c].nth]
                /\ \A g \in x.set : \E i \in DOMAIN ByName : i < clerk[c].nth /\ g = ByName[i]
            BY <1>0, <1>1, <1>4, <2>5, <5>3, Zenon DEF ClerkHolds, Place, Looks, ClerkAt
          <6>2. DOMAIN ByName \subseteq Int /\ \A i \in DOMAIN ByName : ByName[i] \in Hotels
            BY AccountsAssumption, SMTT(30)
          <6>3. \A g \in x.set : g \in Hotels \ {h}
            BY <6>1, <6>2, AccountsAssumption, SMTT(30)
          <6> QED
            BY <5>1, <6>3, Zenon
        <5> QED
          BY <3>3, <5>2, <5>3, Zenon
      <4>3. \A g \in x.set : Told(g, op)'
        BY <2>3, <4>2, Zenon DEF Told
      <4> QED
        BY <2>5, <3>3, <4>1, <4>3, Zenon DEF Fresh, Looks
    <3> QED
      BY <3>2, <3>3, Zenon
  <2>8. ClerkHolds(x)'
    BY <1>1, <2>5, <2>6, <2>7, Zenon DEF ClerkHolds
  <2> QED
    BY <1>4, <2>1, <2>3, <2>4, <2>8, Touches, Zenon
<1>5. CASE MoveOn(c, failed) /\ UNCHANGED <<user, older, plural>>
  BY <1>5, UnchangedUsers, MovesOn, Zenon
<1> QED
  BY <1>0, <1>2, <1>3, <1>4, <1>5, Zenon DEF ensureTenantAdmin

(* The next tenant, or the answer, when the ones done have the password they are told to have. *)
LEMMA NextTenant ==
  ASSUME NEW c \in Clerks, NEW y, y = clerk[c], ClerkRow(y), y.late \in BOOLEAN, NEW done, NEW n \in Nat \ {0},
         \A g \in done : \E i \in DOMAIN ByName : i < n /\ g = ByName[i],
         NEW x, x = ThenTenant(c, n, done)
  PROVE  /\ ClerkRow(x) /\ x.at \in {"find", "told"} /\ x.op = "all" /\ x.set = done /\ x.late = y.late
         /\ Place(x)
<1>0. ByName \in Seq(Hotels) /\ Len(ByName) \in Nat /\ DOMAIN ByName = 1..Len(ByName)
  BY AccountsAssumption, SMTT(30)
<1>1. CASE n > Len(ByName)
  <2>1. x = [NoClerk EXCEPT !.at = "told", !.op = "all", !.set = done, !.late = y.late]
    BY <1>1, Zenon DEF ThenTenant
  <2>2. ClerkRow(x) /\ x.at = "told" /\ x.op = "all" /\ x.set = done /\ x.late = y.late
    BY <2>1, Zenon DEF NoClerk, ClerkRow
  <2> QED
    BY <2>2, Zenon DEF Place, Looks
<1>2. CASE ~(n > Len(ByName))
  <2>1. x = [y EXCEPT !.at = "find", !.op = "all", !.h = ByName[n], !.u = "none", !.nth = n, !.set = done]
    BY <1>2, Zenon DEF ThenTenant
  <2>2. ClerkRow(x) /\ x.at = "find" /\ x.op = "all" /\ x.set = done /\ x.late = y.late /\ x.h = ByName[n] /\ x.nth = n
    BY <2>1, Zenon DEF ClerkRow
  <2>3. n \in DOMAIN ByName /\ ByName[n] \in Hotels
    BY <1>0, <1>2, SMTT(30)
  <2> QED
    BY <2>2, <2>3, Zenon DEF Place, Looks
<1> QED
  BY <1>1, <1>2, Zenon

(* What a change of all passwords relies on between two tenants.            *)
LEMMA NextTenantHolds ==
  ASSUME NEW x, ClerkRow(x), x.late \in BOOLEAN, x.at \in {"find", "told"}, x.op = "all", Place(x),
         ~x.late => \A g \in x.set : Told(g, "all")
  PROVE  ClerkHolds(x)
BY Zenon DEF ClerkHolds, Fresh, Looks

(* The new password is the admin's. *)
LEMMA PasswordSet ==
  ASSUME UsersHold, NEW w, NEW pw, older' = older, plural' = plural, SetPassword(w, pw)
  PROVE  /\ UsersHold'
         /\ \A h : findTenantAdminUser(h)' = findTenantAdminUser(h)
         /\ \A u \in Users : user'[u].pw = IF u = w /\ Exists(w) THEN pw ELSE user[u].pw
BY PasswordWritten, AdminsStay, Zenon

(* findTenantAdminUser answers with users of the tenant.                    *)
LEMMA AdminExists ==
  ASSUME NEW h \in Hotels, NEW u \in findTenantAdminUser(h) PROVE u \in Users /\ Exists(u) /\ user[u].hotel = h
BY AccountsAssumption, Zenon DEF findTenantAdminUser, AdminsOf, Exists

(* A request about one tenant starts.                                       *)
LEMMA BeginStep ==
  ASSUME AccountInv, NEW c \in Clerks, NEW op \in {"impersonate", "reset"}, NEW h \in Hotels, Begin(c, op, h)
  PROVE  AccountInv'
<1>1. PICK x : x = [NoClerk EXCEPT !.at = "find", !.op = op, !.h = h]
  BY Zenon
<1>2. ClerkRow(x) /\ x.at = "find" /\ x.op = op /\ x.h = h /\ x.set = {} /\ x.late = FALSE
  BY <1>1, Zenon DEF NoClerk, ClerkRow
<1>3. Place(x) /\ Fresh(x)
  BY <1>2, Zenon DEF Place, Fresh, Looks
<1>4. ClerkHolds(x)
  BY <1>2, <1>3, Zenon DEF ClerkHolds
<1> QED
  BY <1>1, <1>4, UnchangedUsers, MovesOn, Zenon DEF Begin

(* PlatformTenantImpersonate finds the admin, or makes one.                 *)
LEMMA ImpersonateStep ==
  ASSUME AccountInv, NEW c \in Clerks, PlatformTenantImpersonate(c) PROVE AccountInv'
<1>0. ClerkHolds(NoClerk)
  BY NoClerkPlain, PlainHolds, Zenon
<1>1. CASE \E h \in Hotels : Begin(c, "impersonate", h)
  BY <1>1, BeginStep, Zenon
<1>2. CASE ensureTenantAdmin(c, "impersonate", "ticket", NoClerk)
  BY <1>0, <1>2, EnsureStep, Zenon
<1>3. CASE ClerkAt(c, "impersonate", "ticket") /\ MoveOn(c, NoClerk) /\ UNCHANGED <<user, older, accountFaults, plural>>
  BY <1>0, <1>3, UnchangedUsers, MovesOn, Zenon
<1> QED
  BY <1>1, <1>2, <1>3, Zenon DEF PlatformTenantImpersonate

(* PlatformTenantResetAdminPassword finds the admin or makes one, and sets  *)
(* the password.                                                            *)
LEMMA ResetAdminStep ==
  ASSUME AccountInv, NEW c \in Clerks, PlatformTenantResetAdminPassword(c) PROVE AccountInv'
<1>0. ClerkHolds(NoClerk)
  BY NoClerkPlain, PlainHolds, Zenon
<1>1. CASE \E h \in Hotels : Begin(c, "reset", h)
  BY <1>1, BeginStep, Zenon
<1>2. CASE ensureTenantAdmin(c, "reset", "update", NoClerk)
  BY <1>0, <1>2, EnsureStep, Zenon
<1>3. CASE /\ ClerkAt(c, "reset", "update") /\ SetPassword(clerk[c].u, "new")
           /\ Touch(c, [NoClerk EXCEPT !.at = "told", !.op = "reset", !.set = {clerk[c].h}, !.late = clerk[c].late])
           /\ UNCHANGED <<older, accountFaults, plural>>
  <2>1. PICK y : y = clerk[c]
    BY Zenon
  <2>2. ClerkHolds(y) /\ UsersHold /\ y.at = "update" /\ y.op = "reset"
    BY <1>3, <2>1, Zenon DEF AccountInv, ClerkAt
  <2>3. y.h \in Hotels
    BY <2>2, Zenon DEF ClerkHolds, Place, Looks
  <2>4. /\ UsersHold'
        /\ \A h : findTenantAdminUser(h)' = findTenantAdminUser(h)
        /\ \A u \in Users : user'[u].pw = IF u = y.u /\ Exists(y.u) THEN "new" ELSE user[u].pw
    BY <1>3, <2>1, <2>2, PasswordSet, Zenon
  <2>5. PICK x : x = [NoClerk EXCEPT !.at = "told", !.op = "reset", !.set = {y.h}, !.late = y.late]
    BY Zenon
  <2>6. ClerkRow(x) /\ x.at = "told" /\ x.op = "reset" /\ x.set = {y.h} /\ x.late = y.late
    BY <2>5, Zenon DEF NoClerk, ClerkRow
  <2>7. Place(x)'
    BY <2>6, Zenon DEF Place, Looks
  <2>8. ASSUME ~x.late PROVE Fresh(x)'
    <3>1. y.u \in findTenantAdminUser(y.h)
      BY <2>2, <2>6, <2>8, Zenon DEF ClerkHolds, Fresh
    <3>2. y.u \in Users /\ Exists(y.u)
      BY <2>3, <3>1, AdminExists, Zenon
    <3>3. y.u \in findTenantAdminUser(y.h)' /\ user'[y.u].pw = "new"
      BY <2>4, <3>1, <3>2, Zenon
    <3>4. Told(y.h, "reset")'
      BY <3>3, Zenon DEF Told
    <3> QED
      BY <2>6, <3>4, Zenon DEF Fresh, Looks
  <2>9. ClerkHolds(x)'
    BY <2>2, <2>6, <2>7, <2>8, Zenon DEF ClerkHolds
  <2> QED
    BY <1>3, <2>1, <2>4, <2>5, <2>9, Touches, Zenon
<1>4. CASE ClerkAt(c, "reset", "update") /\ AccountFault /\ MoveOn(c, NoClerk) /\ UNCHANGED <<user, older, plural>>
  BY <1>0, <1>4, UnchangedUsers, MovesOn, Zenon
<1> QED
  BY <1>1, <1>2, <1>3, <1>4, Zenon DEF PlatformTenantResetAdminPassword

(* PlatformSetAllAdminPasswords does so tenant by tenant.                   *)
LEMMA SetAllStep ==
  ASSUME AccountInv, NEW c \in Clerks, PlatformSetAllAdminPasswords(c) PROVE AccountInv'
<1>1. PICK y : y = clerk[c]
  BY Zenon
<1>2. ClerkHolds(y) /\ UsersHold /\ ClerkRow(y) /\ y.late \in BOOLEAN
  BY <1>1, Zenon DEF AccountInv, ClerkHolds
<1>3. ByName \in Seq(Hotels) /\ Len(ByName) \in Nat /\ DOMAIN ByName = 1..Len(ByName)
  BY AccountsAssumption, SMTT(30)
<1>4. CASE ClerkIdle(c) /\ MoveOn(c, ThenTenant(c, 1, {})) /\ UNCHANGED <<user, older, accountFaults, plural>>
  <2>1. PICK x : x = ThenTenant(c, 1, {})
    BY Zenon
  <2>2. ClerkRow(x) /\ x.at \in {"find", "told"} /\ x.op = "all" /\ x.set = {} /\ x.late = y.late /\ Place(x)
    BY <1>1, <1>2, <2>1, NextTenant, SMTT(30)
  <2>3. ClerkHolds(x)
    BY <1>2, <2>2, NextTenantHolds, Zenon
  <2> QED
    BY <1>4, <2>1, <2>3, UnchangedUsers, MovesOn, Zenon
<1>5. ASSUME y.op = "all", y.at \in Looks
      PROVE  /\ y.nth \in DOMAIN ByName /\ y.h = ByName[y.nth] /\ y.h \in Hotels
             /\ \A g \in y.set : \E i \in DOMAIN ByName : i < y.nth /\ g = ByName[i]
  BY <1>2, <1>5, Zenon DEF ClerkHolds, Place
<1>6. ASSUME y.op = "all", y.at \in Looks, NEW x, x = ThenTenant(c, y.nth + 1, y.set) PROVE ClerkHolds(x)
  <2>1. y.nth + 1 \in Nat \ {0} /\ \A g \in y.set : \E i \in DOMAIN ByName : i < y.nth + 1 /\ g = ByName[i]
    BY <1>3, <1>5, <1>6, SMTT(30)
  <2>2. ClerkRow(x) /\ x.at \in {"find", "told"} /\ x.op = "all" /\ x.set = y.set /\ x.late = y.late /\ Place(x)
    BY <1>1, <1>2, <1>6, <2>1, NextTenant, SMTT(30)
  <2>3. ~y.late => \A g \in y.set : Told(g, "all")
    BY <1>2, <1>6, Zenon DEF ClerkHolds, Fresh
  <2> QED
    BY <1>2, <2>2, <2>3, NextTenantHolds, Zenon
<1>8. CASE ensureTenantAdmin(c, "all", "update", ThenTenant(c, clerk[c].nth + 1, clerk[c].set))
  <2>1. PICK x : x = ThenTenant(c, y.nth + 1, y.set)
    BY Zenon
  <2>2. y.op = "all" /\ y.at \in Looks
    BY <1>1, <1>8, Zenon DEF ensureTenantAdmin, ClerkAt, Looks
  <2>3. ensureTenantAdmin(c, "all", "update", x)
    BY <1>1, <1>8, <2>1, Zenon
  <2> QED
    BY <1>6, <2>1, <2>2, <2>3, EnsureStep, Zenon
<1>9. CASE /\ ClerkAt(c, "all", "update") /\ AccountFault /\ MoveOn(c, ThenTenant(c, clerk[c].nth + 1, clerk[c].set))
           /\ UNCHANGED <<user, older, plural>>
  <2>1. PICK x : x = ThenTenant(c, y.nth + 1, y.set)
    BY Zenon
  <2>2. y.op = "all" /\ y.at \in Looks
    BY <1>1, <1>9, Zenon DEF ClerkAt, Looks
  <2> QED
    BY <1>1, <1>6, <1>9, <2>1, <2>2, UnchangedUsers, MovesOn, Zenon
<1>7. CASE /\ ClerkAt(c, "all", "update") /\ SetPassword(clerk[c].u, "same")
           /\ Touch(c, ThenTenant(c, clerk[c].nth + 1, clerk[c].set \cup {clerk[c].h}))
           /\ UNCHANGED <<older, accountFaults, plural>>
  <2>1. PICK done : done = y.set \cup {y.h}
    BY Zenon
  <2>2. PICK x : x = ThenTenant(c, y.nth + 1, done)
    BY Zenon
  <2>3. y.op = "all" /\ y.at = "update" /\ y.at \in Looks
    BY <1>1, <1>7, Zenon DEF ClerkAt, Looks
  <2>4. y.nth + 1 \in Nat \ {0} /\ \A g \in done : \E i \in DOMAIN ByName : i < y.nth + 1 /\ g = ByName[i]
    BY <1>3, <1>5, <2>1, <2>3, SMTT(30)
  <2>5. ClerkRow(x) /\ x.at \in {"find", "told"} /\ x.op = "all" /\ x.set = done /\ x.late = y.late /\ Place(x)
    BY <1>1, <1>2, <2>2, <2>4, NextTenant, SMTT(30)
  <2>6. /\ UsersHold'
        /\ \A h : findTenantAdminUser(h)' = findTenantAdminUser(h)
        /\ \A u \in Users : user'[u].pw = IF u = y.u /\ Exists(y.u) THEN "same" ELSE user[u].pw
    BY <1>1, <1>2, <1>7, PasswordSet, Zenon
  <2>7. ASSUME ~x.late PROVE \A g \in x.set : Told(g, "all")'
    <3>1. y.u \in findTenantAdminUser(y.h) /\ \A g \in y.set : Told(g, "all")
      BY <1>2, <2>3, <2>5, <2>7, Zenon DEF ClerkHolds, Fresh
    <3>2. y.u \in Users /\ Exists(y.u)
      BY <1>5, <2>3, <3>1, AdminExists, Zenon
    <3>3. Told(y.h, "all")'
      BY <2>6, <3>1, <3>2, Zenon DEF Told
    <3>4. ASSUME NEW g \in y.set PROVE Told(g, "all")'
      <4>1. PICK u \in findTenantAdminUser(g) : user[u].pw = "same"
        BY <3>1, <3>4, Zenon DEF Told
      <4>2. u \in Users
        BY <4>1, Zenon DEF findTenantAdminUser, AdminsOf
      <4>3. user'[u].pw = "same" /\ u \in findTenantAdminUser(g)'
        BY <2>6, <4>1, <4>2, Zenon
      <4> QED
        BY <4>3, Zenon DEF Told
    <3> QED
      BY <2>1, <2>5, <3>3, <3>4, Zenon
  <2>8. ClerkHolds(x)'
    BY <1>2, <2>5, <2>7, Zenon DEF ClerkHolds, Fresh, Place, Looks
  <2> QED
    BY <1>1, <1>7, <2>1, <2>2, <2>6, <2>8, Touches, Zenon
<1> QED
  BY <1>4, <1>7, <1>8, <1>9, Zenon DEF PlatformSetAllAdminPasswords

(* A tenant is deleted with its users.                                      *)
LEMMA TenantReplacedStep ==
  ASSUME AccountInv, NEW h \in Hotels, TenantReplaced(h) PROVE AccountInv'
BY Removed, EverybodyLate, Zenon DEF TenantReplaced, AccountInv

(* Every step of the console keeps the invariant.                           *)
LEMMA AdminsStep == ASSUME AccountInv, AdminsNext PROVE AccountInv'
<1>0. DemoHotel \in Hotels /\ ClerkHolds(NoClerk)
  BY AccountsAssumption, NoClerkPlain, PlainHolds, Zenon
<1>1. CASE \E h \in Hotels : TenantReplaced(h)
  BY <1>1, TenantReplacedStep, Zenon
<1>2. ASSUME NEW c \in Clerks, CreateStaffMember(c, DemoHotel) PROVE AccountInv'
  BY <1>0, <1>2, CreateForHotelStep, CreateProfileStep, AddRoleStepStep, Zenon DEF CreateStaffMember
<1>3. ASSUME NEW c \in Clerks, AnswerRead(c) PROVE AccountInv'
  BY <1>0, <1>3, UnchangedUsers, MovesOn, Zenon DEF AnswerRead
<1> QED
  BY <1>1, <1>2, <1>3, ResetPasswordStep, ImpersonateStep, ResetAdminStep, SetAllStep, Zenon
     DEF AdminsNext

(* The invariant is inductive, and holds in every reachable state.          *)
LEMMA AccountsInvariant == AccountsSpec => []AccountInv
<1>1. AccountsInit => AccountInv
  BY AccountsInitially, Zenon
<1>2. AccountInv /\ [AccountsNext]_accountVars => AccountInv'
  <2> SUFFICES ASSUME AccountInv, [AccountsNext]_accountVars PROVE AccountInv'
    BY Zenon
  <2>1. CASE UNCHANGED accountVars
    <3>1. user' = user /\ plural' = plural /\ older' = older /\ clerk' = clerk
      BY <2>1, Zenon DEF accountVars
    <3>2. UsersHold'
      BY <3>1, Zenon DEF AccountInv, UsersHold
    <3>3. SameUsers
      BY <3>1, UnchangedUsers, Zenon
    <3>4. \A d \in Clerks : ClerkHolds(clerk[d])'
      <4> SUFFICES ASSUME NEW d \in Clerks PROVE ClerkHolds(clerk[d])'
        BY Zenon
      <4>1. PICK y : y = clerk[d]
        BY Zenon
      <4>2. ClerkHolds(y)'
        BY <3>3, <4>1, StillHolds, Zenon DEF AccountInv
      <4> QED
        BY <3>1, <4>1, <4>2, Zenon
    <3> QED
      BY <3>1, <3>2, <3>4, Zenon DEF AccountInv
  <2> QED
    BY <2>1, RolesStep, AdminsStep, Zenon DEF AccountsNext
<1> QED
  BY <1>1, <1>2, PTL DEF AccountsSpec

(* The password PlatformTenantResetAdminPassword and                         *)
(* PlatformSetAllAdminPasswords (platform_handler.go) answer with is the one *)
(* the tenant's admin signs in with, as long as no other request changed the *)
(* accounts between the look-up, the update and the answer.                  *)
THEOREM ToldPasswordIsTrue == AccountsSpec => []ToldPasswordWorks
<1>1. AccountInv => ToldPasswordWorks
  <2> SUFFICES ASSUME AccountInv, NEW c \in Clerks, clerk[c].at = "told", ~clerk[c].late, NEW h \in clerk[c].set
               PROVE  \E u \in findTenantAdminUser(h) : user[u].pw = IF clerk[c].op = "all" THEN "same" ELSE "new"
    BY Zenon DEF ToldPasswordWorks
  <2>1. ClerkHolds(clerk[c])
    BY Zenon DEF AccountInv
  <2>2. clerk[c].op \in {"reset", "all"} /\ Fresh(clerk[c])
    BY <2>1, Zenon DEF ClerkHolds, Place
  <2>3. Told(h, clerk[c].op)
    BY <2>2, Zenon DEF Fresh
  <2> QED
    BY <2>3, Zenon DEF Told
<1> QED
  BY <1>1, AccountsInvariant, PTL

-----------------------------------------------------------------------------
(* The gates: a request between its steps, a cache and the configuration in *)
(* force.  An edit marks the loads and the requests it overtakes; what is    *)
(* not marked is what the database says.                                     *)
Deciding == {"plan", "overrides", "matrix", "denials"}
GateSteps == Deciding \cup {"idle", "allowed", "refused", "open"}
InForce(f) == f \in planAwareModules(plan, masked, loadPlanFeatureOverrides(plan))

ReqRow(x) == x = [at |-> x.at, feature |-> x.feature, roles |-> x.roles, plan |-> x.plan,
                  masked |-> x.masked, denied |-> x.denied, late |-> x.late, doubt |-> x.doubt]
ReqHolds(x) ==
  /\ ReqRow(x) /\ x.at \in GateSteps /\ x.late \in BOOLEAN /\ x.doubt \in BOOLEAN
  /\ x.at \in Deciding => x.feature \in Features
  /\ x.at = "overrides" /\ ~x.late => x.plan = plan /\ x.masked = masked
  /\ x.at = "denials" /\ ~x.late => x.denied = denied
  /\ x.at \in {"matrix", "denials"} /\ ~x.doubt => InForce(x.feature)

GateInv ==
  /\ req = [r \in Requests |-> req[r]]
  /\ planStale \in BOOLEAN /\ featStale \in BOOLEAN
  /\ PlanCacheAgrees /\ MatrixEditsAreLive
  /\ \A r \in Requests : ReqHolds(req[r])

(* A free slot has the shape of a request.                                  *)
LEMMA BlankRequest == ReqRow(NoReq) /\ NoReq.at = "idle" /\ NoReq.late = FALSE /\ NoReq.doubt = FALSE
BY Zenon DEF ReqRow, NoReq

(* Init establishes the invariant of the requests and the caches.           *)
LEMMA GateInitially == GatesInit => GateInv
<1> SUFFICES ASSUME GatesInit PROVE GateInv
  BY Zenon
<1>1. req = [r \in Requests |-> NoReq]
  BY Zenon DEF GatesInit
<1>2. ReqHolds(NoReq)
  BY BlankRequest, Zenon DEF ReqHolds, GateSteps, Deciding
<1>3. PlanCacheAgrees /\ MatrixEditsAreLive /\ planStale \in BOOLEAN /\ featStale \in BOOLEAN
  BY Zenon DEF GatesInit, PlanCacheAgrees, MatrixEditsAreLive
<1> QED
  BY <1>1, <1>2, <1>3, Zenon DEF GateInv

(* One request moves on and the configuration stands. *)
LEMMA RequestMoves ==
  ASSUME GateInv, NEW r \in Requests, NEW x, ReqHolds(x), req' = [req EXCEPT ![r] = x], UNCHANGED config,
         planStale' \in BOOLEAN, featStale' \in BOOLEAN, PlanCacheAgrees', MatrixEditsAreLive'
  PROVE  GateInv'
<1>1. plan' = plan /\ masked' = masked /\ over' = over /\ denied' = denied
  BY Zenon DEF config
<1>2. \A y : ReqHolds(y) => ReqHolds(y)'
  BY <1>1, Zenon DEF ReqHolds, InForce, loadPlanFeatureOverrides
<1>3. req' = [q \in Requests |-> req'[q]] /\ \A q \in Requests : req'[q] = IF q = r THEN x ELSE req[q]
  BY Zenon DEF GateInv
<1>4. \A q \in Requests : ReqHolds(req'[q])
  BY <1>3, Zenon DEF GateInv
<1>5. \A q \in Requests : ReqHolds(req[q])'
  BY <1>2, <1>4, Zenon
<1> QED
  BY <1>3, <1>5, Zenon DEF GateInv

(* The caches stand where they and the configuration do. *)
LEMMA PlanCacheStands ==
  ASSUME GateInv, UNCHANGED <<plan, masked, over, planConf, planStale>>
  PROVE  PlanCacheAgrees' /\ planStale' \in BOOLEAN
BY Zenon DEF GateInv, PlanCacheAgrees, loadPlanFeatureOverrides

(* A step that touches neither the matrix nor its cache leaves the cache as *)
(* true as it was.                                                          *)
LEMMA MatrixCacheStands ==
  ASSUME GateInv, UNCHANGED <<denied, featConf, editor, featStale>>
  PROVE  MatrixEditsAreLive' /\ featStale' \in BOOLEAN
BY Zenon DEF GateInv, MatrixEditsAreLive

(* An answer leaves nothing to hold. *)
LEMMA Answered ==
  ASSUME GateInv, NEW r \in Requests, NEW v \in {"allowed", "refused", "open"}, NEW doubt \in BOOLEAN, Answer(r, v, doubt)
  PROVE  \E x : ReqHolds(x) /\ req' = [req EXCEPT ![r] = x] /\ x.at = v /\ x.doubt = (req[r].doubt \/ doubt)
<1>1. PICK x : x = [NoReq EXCEPT !.at = v, !.doubt = req[r].doubt \/ doubt]
  BY Zenon
<1>2. ReqRow(x) /\ x.at = v /\ x.doubt = (req[r].doubt \/ doubt) /\ x.late = FALSE
  BY <1>1, Zenon DEF ReqRow, NoReq
<1>3. req[r].doubt \in BOOLEAN
  BY Zenon DEF GateInv, ReqHolds
<1>4. ReqHolds(x)
  BY <1>2, <1>3, Zenon DEF ReqHolds, GateSteps, Deciding
<1>5. req' = [req EXCEPT ![r] = x]
  BY <1>1, Zenon DEF Answer
<1> QED
  BY <1>2, <1>4, <1>5, Zenon

(* A request that is let through is answered by the rules it read.          *)
LEMMA LetThrough ==
  ASSUME GateInv, NEW r \in Requests, Answer(r, "open", FALSE)
  PROVE  \E x : ReqHolds(x) /\ req' = [req EXCEPT ![r] = x] /\ x.at = "open"
<1>1. "open" \in {"allowed", "refused", "open"} /\ FALSE \in BOOLEAN
  BY Zenon
<1> QED
  BY <1>1, Answered, Zenon

(* What the plan gate decides on a configuration, and what it is worth when  *)
(* that is the one in force.                                                 *)
LEMMA PlanPassed ==
  ASSUME GateInv, NEW r \in Requests, req[r].at \in {"plan", "overrides"}, NEW cfg, NEW doubt \in BOOLEAN,
         PassPlan(r, cfg, doubt),
         ~doubt => cfg = [plan |-> plan, masked |-> masked, over |-> loadPlanFeatureOverrides(plan)]
  PROVE  \E x : /\ ReqHolds(x) /\ req' = [req EXCEPT ![r] = x]
                /\ x.at \in {"matrix", "refused"}
                /\ x.at = "refused" /\ ~x.doubt => ~InForce(req[r].feature)
<1>1. req[r].feature \in Features /\ req[r].doubt \in BOOLEAN
  BY Zenon DEF GateInv, ReqHolds, Deciding
<1>2. ~doubt => (PlanAllows(cfg, req[r].feature) <=> InForce(req[r].feature))
  BY <1>1, SMTT(30) DEF PlanAllows, InForce, planAwareModules
<1>3. CASE ~PlanAllows(cfg, req[r].feature)
  <2>1. Answer(r, "refused", doubt)
    BY <1>3, Zenon DEF PassPlan
  <2>2. PICK x : ReqHolds(x) /\ req' = [req EXCEPT ![r] = x] /\ x.at = "refused" /\ x.doubt = (req[r].doubt \/ doubt)
    BY <2>1, Answered, Zenon
  <2> QED
    BY <1>1, <1>2, <1>3, <2>2, Zenon
<1>4. CASE PlanAllows(cfg, req[r].feature)
  <2>1. PICK x : x = [NoReq EXCEPT !.at = "matrix", !.feature = req[r].feature, !.roles = req[r].roles,
                                   !.doubt = req[r].doubt \/ doubt]
    BY Zenon
  <2>2. ReqRow(x) /\ x.at = "matrix" /\ x.feature = req[r].feature /\ x.doubt = (req[r].doubt \/ doubt) /\ x.late = FALSE
    BY <2>1, Zenon DEF ReqRow, NoReq
  <2>3. ReqHolds(x)
    BY <1>1, <1>2, <1>4, <2>2, Zenon DEF ReqHolds, GateSteps, Deciding
  <2>4. req' = [req EXCEPT ![r] = x]
    BY <1>4, <2>1, Zenon DEF PassPlan
  <2> QED
    BY <2>2, <2>3, <2>4, Zenon
<1> QED
  BY <1>3, <1>4, Zenon

(* The same for the matrix. *)
LEMMA MatrixPassed ==
  ASSUME GateInv, NEW r \in Requests, req[r].at \in {"matrix", "denials"}, NEW deny, NEW doubt \in BOOLEAN,
         PassMatrix(r, deny, doubt), ~doubt => deny = denied
  PROVE  \E x : /\ ReqHolds(x) /\ req' = [req EXCEPT ![r] = x]
                /\ x.at \in {"allowed", "refused"}
                /\ ~x.doubt => /\ InForce(req[r].feature)
                               /\ (x.at = "allowed") = \E role \in req[r].roles : <<role, req[r].feature>> \notin denied
<1>1. req[r].doubt \in BOOLEAN
  BY Zenon DEF GateInv, ReqHolds
<1>2. PICK v \in {"allowed", "refused"} : /\ Answer(r, v, doubt)
                                          /\ v = "allowed" <=> MatrixAllows(deny, req[r].roles, req[r].feature)
  BY Zenon DEF PassMatrix
<1>3. PICK x : ReqHolds(x) /\ req' = [req EXCEPT ![r] = x] /\ x.at = v /\ x.doubt = (req[r].doubt \/ doubt)
  BY <1>2, Answered, SMTT(30)
<1>4. ~req[r].doubt => InForce(req[r].feature)
  BY Zenon DEF GateInv, ReqHolds
<1>5. ~x.doubt => ~req[r].doubt /\ ~doubt
  BY <1>1, <1>3, Zenon
<1>6. ~x.doubt => ((x.at = "allowed") = \E role \in req[r].roles : <<role, req[r].feature>> \notin denied)
  BY <1>2, <1>3, <1>5, Zenon DEF MatrixAllows
<1> QED
  BY <1>2, <1>3, <1>4, <1>5, <1>6, Zenon

(* The answer of this step is right, if it is one and nothing overtook it. *)
Right(q) ==
  req'[q].at \in {"allowed", "refused"} /\ req[q].at # req'[q].at /\ ~req'[q].doubt =>
    (req'[q].at = "allowed") =
       (/\ InForce(req[q].feature)
        /\ \E role \in req[q].roles : <<role, req[q].feature>> \notin denied)

(* A step of one request is right when what it comes to is. *)
LEMMA OthersKeepStill ==
  ASSUME GateInv, NEW r \in Requests, NEW x, req' = [req EXCEPT ![r] = x],
         x.at \in {"allowed", "refused"} /\ ~x.doubt =>
           (x.at = "allowed") =
              (InForce(req[r].feature) /\ \E role \in req[r].roles : <<role, req[r].feature>> \notin denied)
  PROVE  \A q \in Requests : Right(q)
<1>1. \A q \in Requests : req'[q] = IF q = r THEN x ELSE req[q]
  BY Zenon DEF GateInv
<1> SUFFICES ASSUME NEW q \in Requests PROVE Right(q)
  BY Zenon
<1>2. CASE q = r
  BY <1>1, <1>2, Zenon DEF Right
<1>3. CASE q # r
  BY <1>1, <1>3, Zenon DEF Right
<1> QED
  BY <1>2, <1>3, Zenon

(* A request of the staff arrives.                                          *)
LEMMA StaffRequestStep ==
  ASSUME GateInv, NEW r \in Requests, StaffRequest(r)
  PROVE  GateInv' /\ \A q \in Requests : Right(q)
<1>1. PICK f \in Features, roles \in SUBSET Roles \ {{}} :
        req' = [req EXCEPT ![r] = [NoReq EXCEPT !.at = "plan", !.feature = f, !.roles = roles]]
  BY Zenon DEF StaffRequest
<1>2. PICK x : x = [NoReq EXCEPT !.at = "plan", !.feature = f, !.roles = roles]
  BY Zenon
<1>3. ReqRow(x) /\ x.at = "plan" /\ x.feature = f /\ x.late = FALSE /\ x.doubt = FALSE
  BY <1>2, Zenon DEF ReqRow, NoReq
<1>4. ReqHolds(x) /\ req' = [req EXCEPT ![r] = x]
  BY <1>1, <1>2, <1>3, Zenon DEF ReqHolds, GateSteps, Deciding
<1>5. UNCHANGED <<config, planConf, featConf, editor, planStale, featStale>>
  BY Zenon DEF StaffRequest
<1>6. PlanCacheAgrees' /\ planStale' \in BOOLEAN /\ MatrixEditsAreLive' /\ featStale' \in BOOLEAN
  BY <1>5, PlanCacheStands, MatrixCacheStands, Zenon DEF config
<1>7. GateInv'
  BY <1>4, <1>5, <1>6, RequestMoves, Zenon
<1> QED
  BY <1>3, <1>4, <1>7, OthersKeepStill, Zenon

(* planGate answers from the cache, or fills it.                            *)
LEMMA PlanGateStep ==
  ASSUME GateInv, NEW r \in Requests, planGate(r)
  PROVE  GateInv' /\ \A q \in Requests : Right(q)
<1>0. /\ UNCHANGED <<config, featConf, editor, featStale>>
      /\ plan' = plan /\ masked' = masked /\ over' = over /\ denied' = denied
  BY Zenon DEF planGate, config
<1>1. MatrixEditsAreLive' /\ featStale' \in BOOLEAN
  BY <1>0, MatrixCacheStands, Zenon
<1>2. /\ ReqHolds(req[r]) /\ planStale \in BOOLEAN /\ PlanCacheAgrees
  BY Zenon DEF GateInv
<1>3. CASE req[r].at = "plan" /\ planConf # NoConf /\ PassPlan(r, planConf, planStale) /\ UNCHANGED <<planConf, planStale>>
  <2>1. ~planStale => planConf = [plan |-> plan, masked |-> masked, over |-> loadPlanFeatureOverrides(plan)]
    BY <1>2, <1>3, Zenon DEF PlanCacheAgrees
  <2>2. PICK x : /\ ReqHolds(x) /\ req' = [req EXCEPT ![r] = x]
                 /\ x.at \in {"matrix", "refused"}
                 /\ x.at = "refused" /\ ~x.doubt => ~InForce(req[r].feature)
    BY <1>2, <1>3, <2>1, PlanPassed, Zenon
  <2>3. PlanCacheAgrees' /\ planStale' \in BOOLEAN
    BY <1>0, <1>3, PlanCacheStands, Zenon
  <2> QED
    BY <1>0, <1>1, <2>2, <2>3, RequestMoves, OthersKeepStill, Zenon
<1>4. CASE /\ req[r].at = "plan" /\ UNCHANGED <<planConf, planStale>>
           /\ req' = [req EXCEPT ![r].at = "overrides", ![r].plan = plan, ![r].masked = masked, ![r].late = FALSE]
  <2>1. PICK x : x = [req[r] EXCEPT !.at = "overrides", !.plan = plan, !.masked = masked, !.late = FALSE]
    BY Zenon
  <2>2. /\ ReqRow(x) /\ x.at = "overrides" /\ x.plan = plan /\ x.masked = masked /\ x.late = FALSE
        /\ x.doubt = req[r].doubt /\ x.feature = req[r].feature
    BY <1>2, <2>1, Zenon DEF ReqHolds, ReqRow
  <2>3. ReqHolds(x)
    BY <1>2, <1>4, <2>2, Zenon DEF ReqHolds, GateSteps, Deciding
  <2>4. req' = [req EXCEPT ![r] = x]
    BY <1>4, <2>1, Zenon
  <2>5. PlanCacheAgrees' /\ planStale' \in BOOLEAN
    BY <1>0, <1>4, PlanCacheStands, Zenon
  <2> QED
    BY <1>0, <1>1, <2>2, <2>3, <2>4, <2>5, RequestMoves, OthersKeepStill, Zenon
<1>5. CASE req[r].at = "plan" /\ Answer(r, "open", FALSE) /\ UNCHANGED <<planConf, planStale>>
  <2>1. PICK x : ReqHolds(x) /\ req' = [req EXCEPT ![r] = x] /\ x.at = "open"
    BY <1>5, LetThrough, Zenon
  <2>2. PlanCacheAgrees' /\ planStale' \in BOOLEAN
    BY <1>0, <1>5, PlanCacheStands, Zenon
  <2> QED
    BY <1>0, <1>1, <2>1, <2>2, RequestMoves, OthersKeepStill, Zenon
<1>6. ASSUME NEW blind \in BOOLEAN, req[r].at = "overrides", planConf' = LoadedConf(r, blind),
             PassPlan(r, LoadedConf(r, blind), req[r].late \/ blind), planStale' = (req[r].late \/ blind)
      PROVE  GateInv' /\ \A q \in Requests : Right(q)
  <2>1. req[r].late \in BOOLEAN
    BY <1>2, Zenon DEF ReqHolds
  <2>2. ~req[r].late => req[r].plan = plan /\ req[r].masked = masked
    BY <1>2, <1>6, Zenon DEF ReqHolds
  <2>3. ~(req[r].late \/ blind) =>
          LoadedConf(r, blind) = [plan |-> plan, masked |-> masked, over |-> loadPlanFeatureOverrides(plan)]
    BY <2>2, Zenon DEF LoadedConf
  <2>4. PICK x : /\ ReqHolds(x) /\ req' = [req EXCEPT ![r] = x]
                 /\ x.at \in {"matrix", "refused"}
                 /\ x.at = "refused" /\ ~x.doubt => ~InForce(req[r].feature)
    BY <1>6, <2>1, <2>3, PlanPassed, Zenon
  <2>5. PlanCacheAgrees' /\ planStale' \in BOOLEAN
    BY <1>0, <1>6, <2>1, <2>3, Zenon DEF PlanCacheAgrees, loadPlanFeatureOverrides
  <2> QED
    BY <1>0, <1>1, <2>4, <2>5, RequestMoves, OthersKeepStill, Zenon
<1> QED
  BY <1>3, <1>4, <1>5, <1>6, Zenon DEF planGate

(* featureGate answers from the cache, or fills it.                         *)
LEMMA FeatureGateStep ==
  ASSUME GateInv, NEW r \in Requests, featureGate(r)
  PROVE  GateInv' /\ \A q \in Requests : Right(q)
<1>0. /\ UNCHANGED <<config, planConf, editor, planStale>>
      /\ plan' = plan /\ masked' = masked /\ over' = over /\ denied' = denied
  BY Zenon DEF featureGate, config
<1>1. PlanCacheAgrees' /\ planStale' \in BOOLEAN
  BY <1>0, PlanCacheStands, Zenon
<1>2. ReqHolds(req[r]) /\ featStale \in BOOLEAN /\ MatrixEditsAreLive
  BY Zenon DEF GateInv
<1>3. ASSUME NEW d \in featConf, req[r].at = "matrix", PassMatrix(r, d, featStale \/ editor # "idle"),
             UNCHANGED <<featConf, featStale>>
      PROVE  GateInv' /\ \A q \in Requests : Right(q)
  <2>1. ~(featStale \/ editor # "idle") => d = denied
    BY <1>2, <1>3, Zenon DEF MatrixEditsAreLive
  <2>2. PICK x : /\ ReqHolds(x) /\ req' = [req EXCEPT ![r] = x]
                 /\ x.at \in {"allowed", "refused"}
                 /\ ~x.doubt => /\ InForce(req[r].feature)
                                /\ (x.at = "allowed") = \E role \in req[r].roles : <<role, req[r].feature>> \notin denied
    BY <1>2, <1>3, <2>1, MatrixPassed, Zenon
  <2>3. MatrixEditsAreLive' /\ featStale' \in BOOLEAN
    BY <1>0, <1>3, MatrixCacheStands, Zenon
  <2> QED
    BY <1>0, <1>1, <2>2, <2>3, RequestMoves, OthersKeepStill, Zenon
<1>4. CASE /\ req[r].at = "matrix" /\ UNCHANGED <<featConf, featStale>>
           /\ req' = [req EXCEPT ![r].at = "denials", ![r].denied = denied, ![r].late = FALSE]
  <2>1. PICK x : x = [req[r] EXCEPT !.at = "denials", !.denied = denied, !.late = FALSE]
    BY Zenon
  <2>2. /\ ReqRow(x) /\ x.at = "denials" /\ x.denied = denied /\ x.late = FALSE
        /\ x.doubt = req[r].doubt /\ x.feature = req[r].feature
    BY <1>2, <2>1, Zenon DEF ReqHolds, ReqRow
  <2>3. ReqHolds(x)
    BY <1>2, <1>4, <2>2, Zenon DEF ReqHolds, GateSteps, Deciding
  <2>4. req' = [req EXCEPT ![r] = x]
    BY <1>4, <2>1, Zenon
  <2>5. MatrixEditsAreLive' /\ featStale' \in BOOLEAN
    BY <1>0, <1>4, MatrixCacheStands, Zenon
  <2> QED
    BY <1>0, <1>1, <2>2, <2>3, <2>4, <2>5, RequestMoves, OthersKeepStill, Zenon
<1>5. CASE req[r].at = "matrix" /\ Answer(r, "open", FALSE) /\ UNCHANGED <<featConf, featStale>>
  <2>1. PICK x : ReqHolds(x) /\ req' = [req EXCEPT ![r] = x] /\ x.at = "open"
    BY <1>5, LetThrough, Zenon
  <2>2. MatrixEditsAreLive' /\ featStale' \in BOOLEAN
    BY <1>0, <1>5, MatrixCacheStands, Zenon
  <2> QED
    BY <1>0, <1>1, <2>1, <2>2, RequestMoves, OthersKeepStill, Zenon
<1>6. CASE /\ req[r].at = "denials" /\ featConf' = {req[r].denied}
           /\ PassMatrix(r, req[r].denied, req[r].late) /\ featStale' = req[r].late
  <2>1. req[r].late \in BOOLEAN /\ (~req[r].late => req[r].denied = denied)
    BY <1>2, <1>6, Zenon DEF ReqHolds
  <2>2. PICK x : /\ ReqHolds(x) /\ req' = [req EXCEPT ![r] = x]
                 /\ x.at \in {"allowed", "refused"}
                 /\ ~x.doubt => /\ InForce(req[r].feature)
                                /\ (x.at = "allowed") = \E role \in req[r].roles : <<role, req[r].feature>> \notin denied
    BY <1>6, <2>1, MatrixPassed, Zenon
  <2>3. MatrixEditsAreLive' /\ featStale' \in BOOLEAN
    BY <1>0, <1>6, <2>1, Zenon DEF MatrixEditsAreLive
  <2> QED
    BY <1>0, <1>1, <2>2, <2>3, RequestMoves, OthersKeepStill, Zenon
<1> QED
  BY <1>3, <1>4, <1>5, <1>6, Zenon DEF featureGate

(* A step that moves no request answers none. *)
LEMMA Silent ==
  ASSUME \A q \in Requests : req'[q].at = req[q].at
  PROVE  \A q \in Requests : Right(q)
BY Zenon DEF Right

(* Steps that leave requests, configuration and caches alone. *)
LEMMA GatesStand ==
  ASSUME GateInv, UNCHANGED <<plan, masked, over, denied, planConf, featConf, req, editor, planStale, featStale>>
  PROVE  GateInv' /\ \A q \in Requests : Right(q)
<1>1. PlanCacheAgrees' /\ planStale' \in BOOLEAN /\ MatrixEditsAreLive' /\ featStale' \in BOOLEAN
  BY PlanCacheStands, MatrixCacheStands, Zenon
<1>2. \A q \in Requests : ReqHolds(req[q])'
  BY Zenon DEF GateInv, ReqHolds, InForce, loadPlanFeatureOverrides
<1>3. \A q \in Requests : req'[q].at = req[q].at
  BY Zenon
<1> QED
  BY <1>1, <1>2, <1>3, Silent, Zenon DEF GateInv

(* An entry of a cache expires.                                             *)
LEMMA ExpiryStep ==
  ASSUME GateInv, PlanConfExpires \/ FeatConfExpires
  PROVE  GateInv' /\ \A q \in Requests : Right(q)
<1>1. UNCHANGED <<plan, masked, over, denied, req, editor>>
  BY Zenon DEF PlanConfExpires, FeatConfExpires, config
<1>2. \A q \in Requests : ReqHolds(req[q])'
  BY <1>1, Zenon DEF GateInv, ReqHolds, InForce, loadPlanFeatureOverrides
<1>3. CASE PlanConfExpires
  <2>1. PlanCacheAgrees' /\ planStale' \in BOOLEAN
    BY <1>3, Zenon DEF PlanConfExpires, PlanCacheAgrees
  <2>2. MatrixEditsAreLive' /\ featStale' \in BOOLEAN
    BY <1>1, <1>3, MatrixCacheStands, Zenon DEF PlanConfExpires
  <2> QED
    BY <1>1, <1>2, <2>1, <2>2, Silent, Zenon DEF GateInv
<1>4. CASE FeatConfExpires
  <2>1. PlanCacheAgrees' /\ planStale' \in BOOLEAN
    BY <1>1, <1>4, PlanCacheStands, Zenon DEF FeatConfExpires
  <2>2. MatrixEditsAreLive' /\ featStale' \in BOOLEAN
    BY <1>4, Zenon DEF FeatConfExpires, MatrixEditsAreLive
  <2> QED
    BY <1>1, <1>2, <2>1, <2>2, Silent, Zenon DEF GateInv
<1> QED
  BY <1>3, <1>4, Zenon

(* An edit: the loads it overtakes are late, the requests under way in doubt. *)
LEMMA LoadsOvertaken ==
  ASSUME GateInv, NEW step \in {"overrides", "denials"}, Overtake(step),
         step = "overrides" => denied' = denied,
         step = "denials" => UNCHANGED <<plan, masked, over>>
  PROVE  /\ req' = [q \in Requests |-> req'[q]]
         /\ \A q \in Requests : ReqHolds(req[q])' /\ req'[q].at = req[q].at
<1>1. req' = [q \in Requests |-> req'[q]]
  BY Zenon DEF Overtake
<1> SUFFICES ASSUME NEW q \in Requests PROVE ReqHolds(req[q])' /\ req'[q].at = req[q].at
  BY <1>1, Zenon
<1>2. PICK x : x = req'[q]
  BY SMTT(30)
<1>3. x = [req[q] EXCEPT !.late = req[q].late \/ req[q].at = step,
                         !.doubt = req[q].doubt \/ req[q].at \in {"plan", "overrides", "matrix", "denials"}]
  BY <1>2, Zenon DEF Overtake
<1>4. ReqHolds(req[q])
  BY Zenon DEF GateInv
<1>5. /\ ReqRow(x) /\ x.at = req[q].at /\ x.feature = req[q].feature
      /\ x.plan = req[q].plan /\ x.masked = req[q].masked /\ x.denied = req[q].denied
      /\ x.late = (req[q].late \/ req[q].at = step)
      /\ x.doubt = (req[q].doubt \/ req[q].at \in Deciding)
  BY <1>3, <1>4, Zenon DEF ReqHolds, ReqRow, Deciding
<1>6. /\ x.at = "overrides" /\ ~x.late => x.plan = plan' /\ x.masked = masked'
      /\ x.at = "denials" /\ ~x.late => x.denied = denied'
      /\ x.at \in {"matrix", "denials"} => x.doubt
  BY <1>4, <1>5, Zenon DEF ReqHolds, Deciding
<1>7. x.at \in GateSteps /\ x.late \in BOOLEAN /\ x.doubt \in BOOLEAN /\ (x.at \in Deciding => x.feature \in Features)
  BY <1>4, <1>5, Zenon DEF ReqHolds
<1>8. ReqHolds(x)'
  BY <1>5, <1>6, <1>7, Zenon DEF ReqHolds
<1> QED
  BY <1>2, <1>5, <1>8, Zenon

(* The console changes the plan, the modules or the policy of a tenant.     *)
LEMMA PlanEditStep ==
  ASSUME GateInv, UpdateTenantPlan \/ UpdatePlatformTenantModules \/ UpdatePlatformPlanFeatures
  PROVE  GateInv' /\ \A q \in Requests : Right(q)
<1>1. PlanChanged /\ UNCHANGED <<denied, planConf, featConf, editor, featStale>>
  BY Zenon DEF UpdateTenantPlan, UpdatePlatformTenantModules, UpdatePlatformPlanFeatures
<1>2. PlanCacheAgrees' /\ planStale' \in BOOLEAN
  BY <1>1, Zenon DEF PlanChanged, GateInv, PlanCacheAgrees
<1>3. MatrixEditsAreLive' /\ featStale' \in BOOLEAN
  BY <1>1, MatrixCacheStands, Zenon
<1>4. /\ req' = [q \in Requests |-> req'[q]]
      /\ \A q \in Requests : ReqHolds(req[q])' /\ req'[q].at = req[q].at
  BY <1>1, LoadsOvertaken, Zenon DEF PlanChanged
<1> QED
  BY <1>2, <1>3, <1>4, Silent, Zenon DEF GateInv

(* The console changes the feature matrix of a tenant.                      *)
LEMMA MatrixEditStep ==
  ASSUME GateInv, UpdatePlatformTenantFeatureMatrix
  PROVE  GateInv' /\ \A q \in Requests : Right(q)
<1>1. CASE /\ editor = "idle" /\ editor' = "committed" /\ Overtake("denials")
           /\ UNCHANGED <<plan, masked, over, planConf, featConf, planStale, featStale>>
  <2>1. PlanCacheAgrees' /\ planStale' \in BOOLEAN
    BY <1>1, PlanCacheStands, Zenon
  <2>2. MatrixEditsAreLive' /\ featStale' \in BOOLEAN
    BY <1>1, Zenon DEF GateInv, MatrixEditsAreLive
  <2>3. /\ req' = [q \in Requests |-> req'[q]]
        /\ \A q \in Requests : ReqHolds(req[q])' /\ req'[q].at = req[q].at
    BY <1>1, LoadsOvertaken, Zenon
  <2> QED
    BY <2>1, <2>2, <2>3, Silent, Zenon DEF GateInv
<1>2. CASE featConf' = {} /\ featStale' = FALSE /\ UNCHANGED <<config, planConf, req, planStale>>
  <2>1. UNCHANGED <<plan, masked, over, denied, req>>
    BY <1>2, Zenon DEF config
  <2>2. PlanCacheAgrees' /\ planStale' \in BOOLEAN
    BY <1>2, <2>1, PlanCacheStands, Zenon
  <2>3. MatrixEditsAreLive' /\ featStale' \in BOOLEAN
    BY <1>2, Zenon DEF MatrixEditsAreLive
  <2>4. \A q \in Requests : ReqHolds(req[q])'
    BY <2>1, Zenon DEF GateInv, ReqHolds, InForce, loadPlanFeatureOverrides
  <2> QED
    BY <2>1, <2>2, <2>3, <2>4, Silent, Zenon DEF GateInv
<1> QED
  BY <1>1, <1>2, Zenon DEF UpdatePlatformTenantFeatureMatrix

(* Snapshots of the configuration pass the gates by.                        *)
LEMMA SnapshotsPassBy ==
  ASSUME GateInv, \/ \E g \in Savers : saveConfigSnapshot(g)
                  \/ DownloadTenantConfigJSON \/ UpdatePlatformTenantBackupConfig
  PROVE  GateInv' /\ \A q \in Requests : Right(q)
<1>1. UNCHANGED <<plan, masked, over, denied, planConf, featConf, req, editor, planStale, featStale>>
  BY Zenon
     DEF saveConfigSnapshot, DownloadTenantConfigJSON, UpdatePlatformTenantBackupConfig, config
<1> QED
  BY <1>1, GatesStand, Zenon

(* Every step keeps the invariant and answers every request right.          *)
LEMMA GateStep ==
  ASSUME GateInv, [GatesNext]_gateVars
  PROVE  GateInv' /\ \A q \in Requests : Right(q)
<1>1. CASE GatesNext
  BY <1>1, StaffRequestStep, PlanGateStep, FeatureGateStep, ExpiryStep, PlanEditStep,
     MatrixEditStep,
     SnapshotsPassBy, Zenon DEF GatesNext
<1>2. CASE UNCHANGED gateVars
  BY <1>2, GatesStand, Zenon DEF gateVars, config
<1> QED
  BY <1>1, <1>2, Zenon

(* The plan gate's cache is the configuration in force unless an edit came   *)
(* after or into its load, or the overrides could not be read.               *)
THEOREM PlanCacheIsTrue == GatesSpec => []PlanCacheAgrees
<1>1. GateInv => PlanCacheAgrees
  BY Zenon DEF GateInv
<1> QED
  BY GateInitially, GateStep, <1>1, PTL DEF GatesSpec

(* An edit of the matrix is in force once it has returned.                   *)
THEOREM MatrixEditsTakeEffect == GatesSpec => []MatrixEditsAreLive
<1>1. GateInv => MatrixEditsAreLive
  BY Zenon DEF GateInv
<1> QED
  BY GateInitially, GateStep, <1>1, PTL DEF GatesSpec

(* The two gates answer as the configuration in force does, whatever the     *)
(* requests, caches, expiries and edits in flight, unless one overtook them. *)
THEOREM GatesAnswerRight == GatesSpec => GatesDecideRight
<1>1. ASSUME \A q \in Requests : Right(q)
      PROVE  \A r \in Requests :
               req'[r].at \in {"allowed", "refused"} /\ req[r].at # req'[r].at /\ ~req'[r].doubt =>
                 (req'[r].at = "allowed") =
                   (/\ req[r].feature \in planAwareModules(plan, masked, loadPlanFeatureOverrides(plan))
                    /\ \E role \in req[r].roles : <<role, req[r].feature>> \notin denied)
  BY <1>1, Zenon DEF Right, InForce
<1> QED
  BY GateInitially, GateStep, <1>1, PTL DEF GatesSpec, GatesDecideRight

-----------------------------------------------------------------------------
(* The snapshot: while no two goroutines overlapped and no part was lost,    *)
(* at most one is under way, and what it has read so far is still so; only   *)
(* the denials may be behind, between a matrix edit's commit and its own     *)
(* snapshot.                                                                 *)
SaveRow(x) == x = [at |-> x.at, plan |-> x.plan, masked |-> x.masked, denied |-> x.denied, policy |-> x.policy]
SaverHolds(x) ==
  /\ x.at \in {"modules", "denials", "policy", "store"} => x.plan = plan
  /\ x.at \in {"denials", "policy", "store"} => x.masked = masked
  /\ x.at \in {"policy", "store"} /\ editor = "idle" => x.denied = denied
  /\ x.at = "store" => x.policy = policy
OneSaver == \A g, h \in Savers : ~SaverIdle(g) /\ ~SaverIdle(h) => g = h

SaveInv ==
  /\ saver = [g \in Savers |-> saver[g]] /\ \A g \in Savers : SaveRow(saver[g])
  /\ saverRace \in BOOLEAN
  /\ ~saverRace => OneSaver /\ (\A g \in Savers : SaverHolds(saver[g])) /\ SnapshotCurrent

(* Init establishes the invariant of the snapshots.                         *)
LEMMA SaveInitially == GatesInit => SaveInv
<1> SUFFICES ASSUME GatesInit PROVE SaveInv
  BY Zenon
<1>1. saver = [g \in Savers |-> NoSave] /\ SaveRow(NoSave) /\ NoSave.at = "idle"
  BY Zenon DEF GatesInit, SaveRow, NoSave
<1>2. saverRace = FALSE /\ OneSaver /\ \A g \in Savers : SaverHolds(saver[g])
  BY <1>1, Zenon DEF GatesInit, OneSaver, SaverIdle, SaverHolds
<1>3. SnapshotCurrent
  BY Zenon DEF GatesInit, SnapshotCurrent, Shot
<1> QED
  BY <1>1, <1>2, <1>3, Zenon DEF SaveInv

(* A goroutine that starts, whatever else the step edits, finds the others   *)
(* idle or notes the overlap.                                                *)
LEMMA SaveStarts ==
  ASSUME SaveInv, Save
  PROVE  SaveInv'
<1>1. PICK g \in Savers : SaverIdle(g) /\ saver' = [saver EXCEPT ![g] = [NoSave EXCEPT !.at = "tenant"]]
  BY Zenon DEF Save
<1>2. saverRace' = (saverRace \/ \E h \in Savers : ~SaverIdle(h))
  BY Zenon DEF Save
<1>3. PICK x : x = [NoSave EXCEPT !.at = "tenant"]
  BY Zenon
<1>4. SaveRow(x) /\ x.at = "tenant"
  BY <1>3, Zenon DEF SaveRow, NoSave
<1>5. saver' = [h \in Savers |-> saver'[h]] /\ \A h \in Savers : saver'[h] = IF h = g THEN x ELSE saver[h]
  BY <1>1, <1>3, Zenon DEF SaveInv
<1>6. (\A h \in Savers : SaveRow(saver'[h])) /\ saverRace' \in BOOLEAN
  BY <1>2, <1>4, <1>5, Zenon DEF SaveInv
<1>7. ASSUME ~saverRace' PROVE OneSaver' /\ (\A h \in Savers : SaverHolds(saver[h])') /\ SnapshotCurrent'
  <2>1. \A h \in Savers : saver[h].at = "idle"
    BY <1>2, <1>7, Zenon DEF SaverIdle
  <2>2. OneSaver'
    BY <1>5, <2>1, Zenon DEF OneSaver, SaverIdle
  <2>3. \A h \in Savers : SaverHolds(saver[h])'
    BY <1>4, <1>5, <2>1, Zenon DEF SaverHolds
  <2>4. SnapshotCurrent'
    BY <1>4, <1>5, Zenon DEF SnapshotCurrent, SaverIdle
  <2> QED
    BY <2>2, <2>3, <2>4, Zenon
<1> QED
  BY <1>5, <1>6, <1>7, Zenon DEF SaveInv

(* A goroutine under way moves on while the configuration stands. *)
LEMMA SaverMoves ==
  ASSUME SaveInv, UNCHANGED <<plan, masked, denied, policy, editor>>, NEW g \in Savers, ~SaverIdle(g),
         NEW x, SaveRow(x), saver' = [saver EXCEPT ![g] = x],
         saverRace' \in {saverRace, TRUE},
         ~saverRace' => /\ SaverHolds(saver[g]) => SaverHolds(x)
                        /\ x.at = "idle" /\ editor = "idle" /\ SaverHolds(saver[g]) => snapshot' = Shot(plan, masked, denied, policy)
  PROVE  SaveInv'
<1>1. saver' = [h \in Savers |-> saver'[h]] /\ \A h \in Savers : saver'[h] = IF h = g THEN x ELSE saver[h]
  BY Zenon DEF SaveInv
<1>2. (\A h \in Savers : SaveRow(saver'[h])) /\ saverRace' \in BOOLEAN
  BY <1>1, Zenon DEF SaveInv
<1>3. ASSUME ~saverRace' PROVE OneSaver' /\ (\A h \in Savers : SaverHolds(saver[h])') /\ SnapshotCurrent'
  <2>0. ~saverRace /\ SaverHolds(saver[g]) /\ \A h \in Savers : ~SaverIdle(h) => h = g
    BY <1>3, Zenon DEF SaveInv, OneSaver
  <2>1. OneSaver'
    BY <1>1, <2>0, Zenon DEF OneSaver, SaverIdle
  <2>2. \A h \in Savers : SaverHolds(saver'[h])
    BY <1>1, <1>3, <2>0, Zenon DEF SaveInv
  <2>3. \A h \in Savers : SaverHolds(saver[h])'
    BY <2>2, Zenon DEF SaverHolds
  <2>4. SnapshotCurrent'
    BY <1>1, <1>3, <2>0, Zenon DEF SnapshotCurrent, SaverIdle, Shot
  <2> QED
    BY <2>1, <2>3, <2>4, Zenon
<1> QED
  BY <1>1, <1>2, <1>3, Zenon DEF SaveInv

(* saveConfigSnapshot reads the configuration, and later writes the file.   *)
LEMMA SaverReads ==
  ASSUME SaveInv, NEW g \in Savers, saveConfigSnapshot(g)
  PROVE  SaveInv'
<1>0. UNCHANGED <<plan, masked, denied, policy, editor>> /\ SaveRow(saver[g])
  BY Zenon DEF saveConfigSnapshot, config, SaveInv
<1>1. ASSUME saver[g].at = "tenant", NEW p, saver' = [saver EXCEPT ![g].at = "modules", ![g].plan = p],
             saverRace' = TRUE \/ (saverRace' = saverRace /\ p = plan)
      PROVE  SaveInv'
  <2>1. PICK x : x = [saver[g] EXCEPT !.at = "modules", !.plan = p]
    BY Zenon
  <2>2. SaveRow(x) /\ x.at = "modules" /\ x.plan = p /\ ~SaverIdle(g)
    BY <1>0, <1>1, <2>1, Zenon DEF SaveRow, SaverIdle
  <2>3. saver' = [saver EXCEPT ![g] = x]
    BY <1>1, <2>1, Zenon
  <2>4. saverRace' \in {saverRace, TRUE} /\ (~saverRace' => SaverHolds(x))
    BY <1>1, <2>2, Zenon DEF SaverHolds
  <2> QED
    BY <1>0, <2>2, <2>3, <2>4, SaverMoves, Zenon
<1>2. ASSUME saver[g].at = "modules", NEW m, saver' = [saver EXCEPT ![g].at = "denials", ![g].masked = m],
             saverRace' = TRUE \/ (saverRace' = saverRace /\ m = masked)
      PROVE  SaveInv'
  <2>1. PICK x : x = [saver[g] EXCEPT !.at = "denials", !.masked = m]
    BY Zenon
  <2>2. SaveRow(x) /\ x.at = "denials" /\ x.masked = m /\ x.plan = saver[g].plan /\ ~SaverIdle(g)
    BY <1>0, <1>2, <2>1, Zenon DEF SaveRow, SaverIdle
  <2>3. saver' = [saver EXCEPT ![g] = x]
    BY <1>2, <2>1, Zenon
  <2>4. saverRace' \in {saverRace, TRUE} /\ (~saverRace' /\ SaverHolds(saver[g]) => SaverHolds(x))
    BY <1>2, <2>2, Zenon DEF SaverHolds
  <2> QED
    BY <1>0, <2>2, <2>3, <2>4, SaverMoves, Zenon
<1>3. ASSUME saver[g].at = "denials", NEW d, saver' = [saver EXCEPT ![g].at = "policy", ![g].denied = d],
             saverRace' = TRUE \/ (saverRace' = saverRace /\ d = denied)
      PROVE  SaveInv'
  <2>1. PICK x : x = [saver[g] EXCEPT !.at = "policy", !.denied = d]
    BY Zenon
  <2>2. /\ SaveRow(x) /\ x.at = "policy" /\ x.denied = d /\ x.masked = saver[g].masked /\ x.plan = saver[g].plan
        /\ ~SaverIdle(g)
    BY <1>0, <1>3, <2>1, Zenon DEF SaveRow, SaverIdle
  <2>3. saver' = [saver EXCEPT ![g] = x]
    BY <1>3, <2>1, Zenon
  <2>4. saverRace' \in {saverRace, TRUE} /\ (~saverRace' /\ SaverHolds(saver[g]) => SaverHolds(x))
    BY <1>3, <2>2, Zenon DEF SaverHolds
  <2> QED
    BY <1>0, <2>2, <2>3, <2>4, SaverMoves, Zenon
<1>4. ASSUME saver[g].at = "policy", NEW b, saver' = [saver EXCEPT ![g].at = "store", ![g].policy = b],
             saverRace' = TRUE \/ (saverRace' = saverRace /\ b = policy)
      PROVE  SaveInv'
  <2>1. PICK x : x = [saver[g] EXCEPT !.at = "store", !.policy = b]
    BY Zenon
  <2>2. /\ SaveRow(x) /\ x.at = "store" /\ x.policy = b /\ x.denied = saver[g].denied
        /\ x.masked = saver[g].masked /\ x.plan = saver[g].plan /\ ~SaverIdle(g)
    BY <1>0, <1>4, <2>1, Zenon DEF SaveRow, SaverIdle
  <2>3. saver' = [saver EXCEPT ![g] = x]
    BY <1>4, <2>1, Zenon
  <2>4. saverRace' \in {saverRace, TRUE} /\ (~saverRace' /\ SaverHolds(saver[g]) => SaverHolds(x))
    BY <1>4, <2>2, Zenon DEF SaverHolds
  <2> QED
    BY <1>0, <2>2, <2>3, <2>4, SaverMoves, Zenon
<1>5. CASE /\ saver[g].at = "store" /\ saver' = [saver EXCEPT ![g] = NoSave]
           /\ \/ /\ snapshot' = Shot(saver[g].plan, saver[g].masked, saver[g].denied, saver[g].policy)
                 /\ saverRace' = saverRace
              \/ saverRace' = TRUE
  <2>1. SaveRow(NoSave) /\ NoSave.at = "idle" /\ ~SaverIdle(g)
    BY <1>5, Zenon DEF SaveRow, NoSave, SaverIdle
  <2>2. saverRace' \in {saverRace, TRUE} /\ SaverHolds(NoSave)
    BY <1>5, <2>1, Zenon DEF SaverHolds
  <2>3. ~saverRace' /\ editor = "idle" /\ SaverHolds(saver[g]) => snapshot' = Shot(plan, masked, denied, policy)
    BY <1>5, Zenon DEF SaverHolds
  <2> QED
    BY <1>0, <1>5, <2>1, <2>2, <2>3, SaverMoves, Zenon
<1>6. CASE buildTenantConfig(g)
  <2>1. CASE saver[g].at = "tenant"
    BY <1>1, <1>6, <2>1, Zenon DEF buildTenantConfig
  <2>2. CASE saver[g].at = "modules"
    <3>1. CASE saver' = [saver EXCEPT ![g].at = "denials", ![g].masked = masked] /\ saverRace' = saverRace
      BY <1>2, <2>2, <3>1, Zenon
    <3>2. CASE saver' = [saver EXCEPT ![g].at = "denials"] /\ saverRace' = TRUE
      <4>1. saver' = [saver EXCEPT ![g].at = "denials", ![g].masked = saver[g].masked]
        BY <1>0, <3>2, Zenon DEF SaveInv, SaveRow
      <4> QED
        BY <1>2, <2>2, <3>2, <4>1, Zenon
    <3> QED
      BY <1>6, <2>2, <3>1, <3>2, Zenon DEF buildTenantConfig
  <2>3. CASE saver[g].at = "denials"
    <3>1. CASE saver' = [saver EXCEPT ![g].at = "policy", ![g].denied = denied] /\ saverRace' = saverRace
      BY <1>3, <2>3, <3>1, Zenon
    <3>2. CASE saver' = [saver EXCEPT ![g].at = "policy"] /\ saverRace' = TRUE
      <4>1. saver' = [saver EXCEPT ![g].at = "policy", ![g].denied = saver[g].denied]
        BY <1>0, <3>2, Zenon DEF SaveInv, SaveRow
      <4> QED
        BY <1>3, <2>3, <3>2, <4>1, Zenon
    <3> QED
      BY <1>6, <2>3, <3>1, <3>2, Zenon DEF buildTenantConfig
  <2>4. CASE saver[g].at = "policy"
    <3>1. CASE saver' = [saver EXCEPT ![g].at = "store", ![g].policy = policy] /\ saverRace' = saverRace
      BY <1>4, <2>4, <3>1, Zenon
    <3>2. CASE saver' = [saver EXCEPT ![g].at = "store"] /\ saverRace' = TRUE
      <4>1. saver' = [saver EXCEPT ![g].at = "store", ![g].policy = saver[g].policy]
        BY <1>0, <3>2, Zenon DEF SaveInv, SaveRow
      <4> QED
        BY <1>4, <2>4, <3>2, <4>1, Zenon
    <3> QED
      BY <1>6, <2>4, <3>1, <3>2, Zenon DEF buildTenantConfig
  <2> QED
    BY <1>6, <2>1, <2>2, <2>3, <2>4, Zenon DEF buildTenantConfig
<1> QED
  BY <1>5, <1>6, Zenon DEF saveConfigSnapshot

(* A step that touches neither configuration nor snapshot keeps the         *)
(* invariant of the snapshots.                                              *)
LEMMA SnapshotStands ==
  ASSUME SaveInv, UNCHANGED <<plan, masked, denied, policy, editor, saver, snapshot, saverRace>>
  PROVE  SaveInv'
<1>1. OneSaver => OneSaver'
  BY Zenon DEF OneSaver, SaverIdle
<1>2. (\A g \in Savers : SaverHolds(saver[g])) => \A g \in Savers : SaverHolds(saver[g])'
  BY Zenon DEF SaverHolds
<1>3. SnapshotCurrent => SnapshotCurrent'
  BY Zenon DEF SnapshotCurrent, SaverIdle, Shot
<1> QED
  BY <1>1, <1>2, <1>3, Zenon DEF SaveInv

(* The matrix editor has committed: a snapshot is owed, so none is promised. *)
LEMMA MatrixCommitted ==
  ASSUME SaveInv, editor' = "committed", UNCHANGED <<plan, masked, policy, saver, snapshot, saverRace>>
  PROVE  SaveInv'
<1>1. OneSaver => OneSaver'
  BY Zenon DEF OneSaver, SaverIdle
<1>2. (\A g \in Savers : SaverHolds(saver[g])) => \A g \in Savers : SaverHolds(saver[g])'
  BY Zenon DEF SaverHolds
<1>3. SnapshotCurrent'
  BY Zenon DEF SnapshotCurrent
<1> QED
  BY <1>1, <1>2, <1>3, Zenon DEF SaveInv

(* The invariant of the snapshots is inductive.                             *)
LEMMA SaveStep ==
  ASSUME SaveInv, [GatesNext]_gateVars
  PROVE  SaveInv'
<1>1. CASE Save
  BY <1>1, SaveStarts, Zenon
<1>2. CASE \E g \in Savers : saveConfigSnapshot(g)
  BY <1>2, SaverReads, Zenon
<1>3. CASE /\ editor' = "committed"
           /\ UNCHANGED <<plan, masked, policy, saver, snapshot, saverRace>>
  BY <1>3, MatrixCommitted, Zenon
<1>4. CASE \/ \E r \in Requests : StaffRequest(r) \/ planGate(r) \/ featureGate(r)
           \/ PlanConfExpires \/ FeatConfExpires \/ UpdatePlatformPlanFeatures \/ UNCHANGED gateVars
  <2>1. UNCHANGED <<plan, masked, denied, policy, editor, saver, snapshot, saverRace>>
    BY <1>4, Zenon DEF StaffRequest, planGate, featureGate, PlanConfExpires, FeatConfExpires,
                UpdatePlatformPlanFeatures, gateVars, config
  <2> QED
    BY <2>1, SnapshotStands, SMTT(30)
<1>5. CASE DownloadTenantConfigJSON \/ UpdateTenantPlan \/ UpdatePlatformTenantModules \/ UpdatePlatformTenantBackupConfig
  BY <1>1, <1>5, Zenon
     DEF DownloadTenantConfigJSON, UpdateTenantPlan, UpdatePlatformTenantModules,
         UpdatePlatformTenantBackupConfig
<1>6. CASE UpdatePlatformTenantFeatureMatrix
  BY <1>1, <1>3, <1>6, Zenon DEF UpdatePlatformTenantFeatureMatrix
<1> QED
  BY <1>2, <1>4, <1>5, <1>6, Zenon DEF GatesNext

(* Once every goroutine is done, the stored snapshot is the configuration,   *)
(* for any number of edits, if none overlapped another or lost a part.       *)
THEOREM SnapshotIsCurrent == GatesSpec => []SnapshotCurrent
<1>1. SaveInv => SnapshotCurrent
  BY Zenon DEF SaveInv, SnapshotCurrent
<1> QED
  BY SaveInitially, SaveStep, <1>1, PTL DEF GatesSpec

-----------------------------------------------------------------------------
INSTANCE FiniteSetTheorems

(* Staff roles counted.                                                     *)

(* SetRole (user_repository.go, auth_service.go) leaves one staff role: a    *)
(* user has two only when one was added to the other, or when two requests   *)
(* changed it at once, for any number of requests, users and roles.          *)
THEOREM StaffRoleIsOne == AccountsSpec => []OneStaffRole
<1>1. AccountInv => OneStaffRole
  <2> SUFFICES ASSUME AccountInv, NEW u \in Users, u \notin plural
               PROVE  Cardinality(user[u].roles \ {"guest"}) <= 1
    BY Zenon DEF OneStaffRole
  <2>1. PICK S : S = user[u].roles \ {"guest"}
    BY Zenon
  <2>2. AtMostOne(S)
    BY <2>1, Zenon DEF AccountInv, UsersHold
  <2>3. CASE S = {}
    BY <2>1, <2>3, FS_EmptySet, SMTT(30)
  <2>4. CASE S # {}
    <3>1. PICK a : S = {a}
      BY <2>2, <2>4, SMTT(30) DEF AtMostOne
    <3>2. Cardinality({a}) = 1
      BY FS_Singleton, Zenon
    <3> QED
      BY <2>1, <3>1, <3>2, SMTT(30)
  <2> QED
    BY <2>3, <2>4, Zenon
<1> QED
  BY <1>1, AccountsInvariant, PTL

=============================================================================
