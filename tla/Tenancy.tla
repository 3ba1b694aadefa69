------------------------------ MODULE Tenancy -------------------------------
(***************************************************************************)
(* Tenants of the platform and where their data lives (internal/handler/   *)
(* platform_handler.go, provision_handler.go, module_handler.go,           *)
(* internal/tenant/manager.go).  A hotel starts in the shared database and *)
(* is given one of its own, named after its slug, with a DNS record and a  *)
(* web site; deleting it removes its rows in one transaction and the rest  *)
(* in a goroutine that nobody waits for.  The slug is free again as soon   *)
(* as the transaction commits.                                             *)
(***************************************************************************)
EXTENDS Naturals, FiniteSets

CONSTANTS
  Tenants,      \* hotel ids; one is used once
  Slugs,        \* slugs, which also name a database, a DNS record and a site
  Agents,       \* requests and the goroutines they leave behind
  AdminHome,    \* hotels that own a platform administrator
  MaxTenancyFaults  \* bound: failing calls and restarts

ASSUME TenancyAssumption == AdminHome \subseteq Tenants /\ MaxTenancyFaults \in Nat /\ {"shared", "none"} \cap Slugs = {}

VARIABLES
  hotel,      \* hotels: [slug, live]
  reg,        \* tenant_registry
  seeded,     \* the tenant databases that exist, each with the hotels seeded into it
  rows,       \* operational rows: <<tenant, database>>
  dns, site,  \* records at the DNS provider, sites at the host provisioner
  redis,      \* tenants with a namespace in Redis
  conf,       \* Manager.conf: routes cached for confTTL
  pools,      \* Manager.pools: tenant databases this process has opened
  agent,      \* where each request is and what it has read
  hit,        \* history: live tenants whose resources the cleanup of another one removed
  tenancyFaults

tenancyVars == <<hotel, reg, seeded, rows, dns, site, redis, conf, pools, agent, hit, tenancyFaults>>
infra == <<seeded, rows, dns, site, redis>>

NoHotel == [slug |-> "none", live |-> FALSE]
NoReg == [mode |-> "none", db |-> "none", dns |-> FALSE, domain |-> FALSE, status |-> "none"]
NoAgent == [at |-> "idle", t |-> "none", slug |-> "none", reg |-> NoReg]
NoRoute == [mode |-> "none", db |-> "none"]

TenancyInit ==
  /\ hotel = [t \in Tenants |-> NoHotel] /\ reg = [t \in Tenants |-> NoReg]
  /\ seeded = [s \in {} |-> {}] /\ rows = {} /\ dns = {} /\ site = {} /\ redis = {}
  /\ conf = [t \in Tenants |-> NoRoute] /\ pools = {}
  /\ agent = [a \in Agents |-> NoAgent]
  /\ hit = {} /\ tenancyFaults = 0

Live(t) == hotel[t].live
GoTo(a, step) == agent' = [agent EXCEPT ![a].at = step]
Leave(a) == agent' = [agent EXCEPT ![a] = NoAgent]
AgentAt(a, step) == agent[a].at = step
Fail == tenancyFaults < MaxTenancyFaults /\ tenancyFaults' = tenancyFaults + 1
NoFail == UNCHANGED tenancyFaults

(* Every UPDATE of the registry hits no row once the tenant is gone. *)
UpdateRegistry(t, row) == reg' = [reg EXCEPT ![t] = IF Live(t) THEN row ELSE @]

-----------------------------------------------------------------------------
(* Databases.                                                              *)

(* CREATE DATABASE unless it exists, then the schema.  It fails when two requests create it at once, and
   may fail after the database was made. *)
Created(db) == seeded' = [d \in DOMAIN seeded \cup {db} |-> IF d \in DOMAIN seeded THEN seeded[d] ELSE {}]
Rival(a) == \E b \in Agents \ {a} : agent[b].at \in {"provision", "redo"} /\ agent[b].slug = agent[a].slug
Provision(a, onSuccess, onFailure) ==
  \/ Created(agent[a].slug) /\ onSuccess /\ NoFail
  \/ (Created(agent[a].slug) \/ UNCHANGED seeded) /\ onFailure /\ (Fail \/ (Rival(a) /\ NoFail))

(* The pool of a database, opened at first use. *)
CanOpen(db) == db \in pools \/ db \in DOMAIN seeded
Open(db) == pools' = IF CanOpen(db) THEN pools \cup {db} ELSE pools

(* The hotel's row; its slug is unique in the tenant's database too, so what an earlier tenant of that
   slug left behind refuses it. *)
CanSeed(t, db) == db \in DOMAIN seeded /\ seeded[db] \subseteq {t}
seedTenantDB(t, db) == seeded' = [seeded EXCEPT ![db] = @ \cup {t}]

(* After Provision: open and seed, or remember that it failed. *)
OpenAndSeed(a, t, db, next) ==
  /\ Open(db)
  /\ \/ /\ CanSeed(t, db) /\ seedTenantDB(t, db) /\ NoFail
        /\ agent' = [agent EXCEPT ![a].at = next, ![a].reg = [@ EXCEPT !.mode = "dedicated", !.db = db]]
     \/ /\ UNCHANGED seeded /\ IF CanSeed(t, db) THEN Fail ELSE NoFail
        /\ agent' = [agent EXCEPT ![a].at = next, ![a].reg = [@ EXCEPT !.mode = "provisioned", !.db = db]]

-----------------------------------------------------------------------------
(* A new tenant.                                                           *)

(* The hotel and its registry row in one transaction; the slug must be free. *)
CreateTenantTx(a) ==
  /\ AgentAt(a, "idle")
  /\ \E t \in Tenants, s \in Slugs :
       /\ hotel[t] = NoHotel /\ \A u \in Tenants : ~(Live(u) /\ hotel[u].slug = s)
       /\ hotel' = [hotel EXCEPT ![t] = [slug |-> s, live |-> TRUE]]
       /\ reg' = [reg EXCEPT ![t] = [NoReg EXCEPT !.mode = "shared", !.status = "pending"]]
       /\ agent' = [agent EXCEPT ![a] = [NoAgent EXCEPT !.at = "portal", !.t = t, !.slug = s]]
  /\ UNCHANGED <<infra, conf, pools, hit, tenancyFaults>>

(* A failure here answers 500 and leaves a tenant without database and provisioning job. *)
ensureRolePortalSettingsForHotel(a) ==
  /\ AgentAt(a, "portal")
  /\ \/ Live(agent[a].t) /\ GoTo(a, "provision") /\ NoFail
     \/ Leave(a) /\ IF Live(agent[a].t) THEN Fail ELSE NoFail
  /\ UNCHANGED <<hotel, reg, infra, conf, pools, hit>>

(* A failed Provision leaves the tenant shared; anything later leaves it provisioned. *)
DedicateDatabase(a) ==
  LET t == agent[a].t
      s == agent[a].slug
  IN \/ /\ AgentAt(a, "provision")
        /\ Provision(a, GoTo(a, "seed"), GoTo(a, "dns"))
        /\ UNCHANGED <<reg, pools>>
     \/ AgentAt(a, "seed") /\ OpenAndSeed(a, t, s, "flip") /\ UNCHANGED reg
     \/ /\ AgentAt(a, "flip")
        /\ \/ UpdateRegistry(t, [reg[t] EXCEPT !.mode = agent[a].reg.mode, !.db = s]) /\ NoFail
           \/ UNCHANGED reg /\ Fail
        /\ GoTo(a, "dns") /\ UNCHANGED <<seeded, pools>>

CreatePlatformTenant(a) ==
  \/ CreateTenantTx(a)
  \/ ensureRolePortalSettingsForHotel(a)
  \/ DedicateDatabase(a) /\ UNCHANGED <<hotel, rows, dns, site, redis, conf, hit>>

(* The goroutine: the record, the site, the namespace, each followed by its note in the registry.  A
   failing step ends the job. *)
DnsFailureIgnored(a) ==
  \/ dns' = dns \cup {agent[a].slug} /\ GoTo(a, "dns noted") /\ NoFail
  \/ UNCHANGED dns /\ GoTo(a, "dns noted") /\ Fail
AddARecord(a) ==
  \/ dns' = dns \cup {agent[a].slug} /\ GoTo(a, "dns noted") /\ NoFail
  \/ UNCHANGED dns /\ Leave(a) /\ Fail

ProvisionDomain(a) ==
  \/ site' = site \cup {agent[a].slug} /\ GoTo(a, "site noted") /\ NoFail
  \/ UNCHANGED site /\ Leave(a) /\ Fail

runProvisioningJob(a) ==
  LET t == agent[a].t IN
  /\ \/ AgentAt(a, "dns") /\ AddARecord(a) /\ UNCHANGED <<reg, site, redis>>
     \/ /\ AgentAt(a, "dns noted") /\ UpdateRegistry(t, [reg[t] EXCEPT !.dns = TRUE]) /\ GoTo(a, "site")
        /\ NoFail /\ UNCHANGED <<dns, site, redis>>
     \/ AgentAt(a, "site") /\ ProvisionDomain(a) /\ UNCHANGED <<reg, dns, redis>>
     \/ /\ AgentAt(a, "site noted") /\ UpdateRegistry(t, [reg[t] EXCEPT !.domain = TRUE]) /\ GoTo(a, "redis")
        /\ NoFail /\ UNCHANGED <<dns, site, redis>>
     \/ /\ AgentAt(a, "redis") /\ redis' = redis \cup {t} /\ GoTo(a, "active")
        /\ NoFail /\ UNCHANGED <<reg, dns, site>>
     \/ /\ AgentAt(a, "active") /\ UpdateRegistry(t, [reg[t] EXCEPT !.status = "active"]) /\ Leave(a)
        /\ NoFail /\ UNCHANGED <<dns, site, redis>>
  /\ UNCHANGED <<hotel, seeded, rows, conf, pools, hit>>

(* The operator provisions a tenant's database, the first time or again: the registry is overwritten
   with the outcome.  A tenant that is gone is seeded only if its name was read before. *)
ProvisionTenantDB(a) ==
  \/ /\ AgentAt(a, "idle")
     /\ \E t \in Tenants : /\ Live(t)
                           /\ agent' = [agent EXCEPT ![a] = [NoAgent EXCEPT !.at = "redo", !.t = t, !.slug = hotel[t].slug]]
     /\ UNCHANGED <<hotel, reg, infra, conf, pools, hit, tenancyFaults>>
  \/ /\ AgentAt(a, "redo")
     /\ Provision(a, GoTo(a, "redo seed"), Leave(a))
     /\ UNCHANGED <<hotel, reg, rows, dns, site, redis, conf, pools, hit>>
  \/ /\ AgentAt(a, "redo seed") /\ OpenAndSeed(a, agent[a].t, agent[a].slug, "redo flip")
     /\ UNCHANGED <<hotel, reg, rows, dns, site, redis, conf, hit>>
  \/ /\ AgentAt(a, "redo seed") /\ ~Live(agent[a].t) /\ Open(agent[a].slug) /\ Leave(a)
     /\ UNCHANGED <<hotel, reg, infra, conf, hit, tenancyFaults>>
  \/ /\ AgentAt(a, "redo flip")
     /\ UpdateRegistry(agent[a].t, [reg[agent[a].t] EXCEPT !.mode = agent[a].reg.mode, !.db = agent[a].slug])
     /\ Leave(a)
     /\ UNCHANGED <<hotel, infra, conf, pools, hit, tenancyFaults>>

-----------------------------------------------------------------------------
(* Deletion.                                                               *)

(* What the transaction leaves of a tenant: nothing in the shared database. *)
RowsForgotten(a, t) ==
  \/ /\ hotel' = [hotel EXCEPT ![t].live = FALSE] /\ reg' = [reg EXCEPT ![t] = NoReg]
     /\ UNCHANGED rows /\ GoTo(a, "unsite") /\ NoFail
  \/ UNCHANGED <<hotel, reg, rows>> /\ Leave(a) /\ Fail
DeleteTx(a, t) ==
  \/ /\ hotel' = [hotel EXCEPT ![t].live = FALSE] /\ reg' = [reg EXCEPT ![t] = NoReg]
     /\ rows' = rows \ {<<t, "shared">>} /\ GoTo(a, "unsite") /\ NoFail
  \/ UNCHANGED <<hotel, reg, rows>> /\ Leave(a) /\ Fail

Successors(t, s) == {u \in Tenants \ {t} : Live(u) /\ hotel[u].slug = s}

DeprovisionDomain(s) == site' = site \ {s}
DeleteARecord(s) == dns' = dns \ {s}
FlushNamespace(t) == redis' = redis \ {t}
DropDatabase(db) ==
  /\ seeded' = [d \in DOMAIN seeded \ {db} |-> seeded[d]]
  /\ rows' = {r \in rows : r[2] # db}

(* One step of the cleanup, which runs on what was read of the registry before the transaction; an
   error of a step is dropped. *)
CleanupStep(a) ==
  LET t == agent[a].t
      s == agent[a].slug
      was == agent[a].reg
      Hits(done) == hit' = IF done THEN hit \cup Successors(t, s) ELSE hit
  IN \/ /\ AgentAt(a, "unsite") /\ GoTo(a, "undns")
        /\ \/ was.domain /\ DeprovisionDomain(s) /\ Hits(s \in site) /\ NoFail
           \/ UNCHANGED <<site, hit>> /\ IF was.domain THEN Fail ELSE NoFail
        /\ UNCHANGED <<seeded, rows, dns, redis>>
     \/ /\ AgentAt(a, "undns") /\ GoTo(a, "flush")
        /\ \/ was.dns /\ DeleteARecord(s) /\ Hits(s \in dns) /\ NoFail
           \/ UNCHANGED <<dns, hit>> /\ IF was.dns THEN Fail ELSE NoFail
        /\ UNCHANGED <<seeded, rows, site, redis>>
     \/ /\ AgentAt(a, "flush") /\ GoTo(a, "drop")
        /\ FlushNamespace(t) /\ NoFail
        /\ UNCHANGED <<seeded, rows, dns, site, hit>>
     \/ /\ AgentAt(a, "drop") /\ Leave(a)
        /\ \/ was.mode \in {"dedicated", "provisioned"} /\ DropDatabase(s) /\ Hits(s \in DOMAIN seeded) /\ NoFail
           \/ UNCHANGED <<seeded, rows, hit>> /\ IF was.mode \in {"dedicated", "provisioned"} THEN Fail ELSE NoFail
        /\ UNCHANGED <<dns, site, redis>>

DeletePlatformTenant(a) ==
  \/ /\ AgentAt(a, "idle")
     /\ \E t \in Tenants \ AdminHome :
          /\ Live(t)
          /\ agent' = [agent EXCEPT ![a] = [at |-> "delete", t |-> t, slug |-> hotel[t].slug, reg |-> reg[t]]]
     /\ UNCHANGED <<hotel, reg, infra, conf, pools, hit, tenancyFaults>>
  \/ /\ AgentAt(a, "delete")
     /\ DeleteTx(a, agent[a].t)
     /\ UNCHANGED <<seeded, dns, site, redis, conf, pools, hit>>
  \/ CleanupStep(a) /\ UNCHANGED <<hotel, reg, conf, pools>>

-----------------------------------------------------------------------------
(* A staff request writes a row.                                           *)

(* The route from the cache or the registry; a tenant database that cannot be opened means the shared
   one. *)
PoolForHotel(a) ==
  /\ AgentAt(a, "idle")
  /\ \E t \in Tenants :
       /\ hotel[t] # NoHotel
       /\ LET route == IF conf[t] # NoRoute THEN conf[t]
                       ELSE IF Live(t) THEN [mode |-> reg[t].mode, db |-> reg[t].db]
                       ELSE [mode |-> "shared", db |-> "none"]
              own == route.mode = "dedicated" /\ route.db # "none"
          IN /\ conf' = [conf EXCEPT ![t] = route]
             /\ IF own THEN Open(route.db) ELSE UNCHANGED pools
             /\ agent' = [agent EXCEPT ![a] = [NoAgent EXCEPT !.at = "write", !.t = t,
                            !.slug = IF own /\ CanOpen(route.db) THEN route.db ELSE "shared"]]
  /\ UNCHANGED <<hotel, reg, infra, hit, tenancyFaults>>

(* The row needs its hotel: the foreign key refuses it in a database that does not have it. *)
WriteRow(a) ==
  /\ AgentAt(a, "write") /\ Leave(a)
  /\ LET t == agent[a].t
         db == agent[a].slug
     IN rows' = IF (db = "shared" /\ Live(t)) \/ (db \in DOMAIN seeded /\ t \in seeded[db])
                THEN rows \cup {<<t, db>>} ELSE rows
  /\ UNCHANGED <<hotel, reg, seeded, dns, site, redis, conf, pools, hit, tenancyFaults>>

RouteExpires(t) ==
  /\ conf[t] # NoRoute /\ conf' = [conf EXCEPT ![t] = NoRoute]
  /\ UNCHANGED <<hotel, reg, infra, pools, agent, hit, tenancyFaults>>

(* The process ends: requests, goroutines, cached routes and open pools are gone. *)
RestartPlatform ==
  /\ Fail
  /\ agent' = [a \in Agents |-> NoAgent] /\ conf' = [t \in Tenants |-> NoRoute] /\ pools' = {}
  /\ UNCHANGED <<hotel, reg, infra, hit>>

TenancyNext ==
  \/ \E a \in Agents : \/ CreatePlatformTenant(a) \/ runProvisioningJob(a) \/ ProvisionTenantDB(a)
                       \/ DeletePlatformTenant(a) \/ PoolForHotel(a) \/ WriteRow(a)
  \/ \E t \in Tenants : RouteExpires(t)
  \/ RestartPlatform

TenancySpec == TenancyInit /\ [][TenancyNext]_tenancyVars

-----------------------------------------------------------------------------
(* Rows stay apart: the shared database has rows of existing hotels only, a tenant database only of a
   hotel with its slug, whatever was created, deleted and routed in the meantime. *)
RowsStayHome ==
  \A r \in rows : IF r[2] = "shared" THEN Live(r[1]) ELSE hotel[r[1]].slug = r[2]

(* A tenant whose requests are routed to a database of its own has it, with its hotel in it, unless
   the late cleanup of an earlier tenant of that slug dropped it. *)
DedicatedHasDatabase ==
  \A t \in Tenants \ hit : reg[t].mode = "dedicated" => reg[t].db \in DOMAIN seeded /\ t \in seeded[reg[t].db]

(* "On full success it sets provision_status = active": a tenant shown as active has its DNS record,
   its site and its namespace, unless such a cleanup took them. *)
ActiveIsReachable ==
  \A t \in Tenants \ hit : reg[t].status = "active" => hotel[t].slug \in dns \cap site /\ t \in redis

(* No row of a living tenant disappears, except by the late cleanup of an earlier tenant of the same
   slug: a deletion that is rolled back destroys nothing. *)
LivingRowsStand ==
  [][\A r \in rows \ rows' : ~hotel'[r[1]].live \/ r[1] \in hit']_tenancyVars
=============================================================================
