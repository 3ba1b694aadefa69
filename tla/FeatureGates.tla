---------------------------- MODULE FeatureGates ----------------------------
(***************************************************************************)
(* What a tenant may use (internal/handler/plan_gate.go, feature_matrix.go,*)
(* feature_matrix_handler.go, plan_features_handler.go, module_handler.go, *)
(* config_handler.go).  Two middlewares decide every staff request, each   *)
(* from a cache of 30 seconds; the platform edits the configuration they   *)
(* are loaded from, and every edit leaves a goroutine that stores a        *)
(* snapshot of the whole.                                                  *)
(***************************************************************************)
EXTENDS Naturals, FiniteSets

CONSTANTS
  Plans,         \* plan tiers in use
  Features,      \* modules, of moduleRegistry
  Roles,         \* roles of the feature matrix
  Requests,      \* concurrent staff requests
  Savers,        \* bound: saveConfigSnapshot goroutines in flight
  MaxEdits,      \* bound: edits of the platform
  MaxGateFaults  \* bound: failing reads and writes

VARIABLES
  plan,       \* hotels.plan_tier
  masked,     \* hotels.modules: the modules switched off for this tenant
  over,       \* plan_features: overrides <<plan, feature, included>>
  denied,     \* client_role_permissions with enabled = false: <<role, feature>>
  policy,     \* backup_configurations.enabled
  planConf,   \* planGateState.conf
  featConf,   \* featureGateState.conf: no denials cached, or one set of them
  req,        \* a request between its steps
  editor,     \* the matrix editor: between its commit and the invalidation, or not
  saver,      \* a saveConfigSnapshot between its reads
  snapshot,   \* tenant_configs
  edits, gateFaults,
  planStale,  \* history: the plan cache was filled before, or across, the last edit, or blindly
  featStale,  \* history: the matrix cache was filled by a load that an edit overtook
  saverRace   \* history: two snapshots overlapped, or a part of one could not be read or stored

config == <<plan, masked, over, denied, policy>>
gateVars == <<config, planConf, featConf, req, editor, saver, snapshot, edits, gateFaults, planStale, featStale, saverRace>>

NoPlan == "none"
NoReq == [at |-> "idle", feature |-> NoPlan, roles |-> {}, plan |-> NoPlan, masked |-> {}, denied |-> {}, late |-> FALSE, doubt |-> FALSE]
NoConf == [plan |-> NoPlan, masked |-> {}, over |-> {}]
NoSave == [at |-> "idle", plan |-> NoPlan, masked |-> {}, denied |-> {}, policy |-> FALSE]
Shot(p, m, d, b) == [plan |-> p, masked |-> m, denied |-> d, policy |-> b]

GatesInit ==
  /\ plan \in Plans /\ masked = {} /\ over = {} /\ denied = {} /\ policy = FALSE
  /\ planConf = NoConf /\ featConf = {}
  /\ req = [r \in Requests |-> NoReq] /\ editor = "idle"
  /\ saver = [g \in Savers |-> NoSave] /\ snapshot = Shot(plan, {}, {}, FALSE)
  /\ edits = 0 /\ gateFaults = 0 /\ planStale = FALSE /\ featStale = FALSE /\ saverRace = FALSE

-----------------------------------------------------------------------------
(* The plan catalogue.                                                     *)

planRank(p) == CASE p = "premium" -> 2 [] p = "pro" -> 1 [] OTHER -> 0
moduleMinRank(f) == IF f \in {"revenue", "channel_manager", "procurement", "night_audit"} THEN 1 ELSE 0
planFeatureDefault(p, f) == planRank(p) >= moduleMinRank(f)

(* The overrides of one plan, and what they make of a feature. *)
loadPlanFeatureOverrides(p) == {o \in over : o[1] = p}
Included(p, f, overrides) ==
  IF \E o \in overrides : o[2] = f THEN <<p, f, TRUE>> \in overrides ELSE planFeatureDefault(p, f)

(* Module-backed features that the portal shows: the plan includes them and the mask does not hide them. *)
planAwareModules(p, hidden, overrides) == {f \in Features : Included(p, f, overrides) /\ f \notin hidden}

-----------------------------------------------------------------------------
(* The gates.  Platform administrators pass both and are left out.  A      *)
(* request's doubt records that it was decided on a configuration an edit  *)
(* had overtaken.                                                          *)

PlanAllows(conf, f) == Included(conf.plan, f, conf.over) /\ f \notin conf.masked
AnyRoleRefused(deny, roles, f) == \A role \in roles : <<role, f>> \notin deny
MatrixAllows(deny, roles, f) == \E role \in roles : <<role, f>> \notin deny

Answer(r, verdict, doubt) == req' = [req EXCEPT ![r] = [NoReq EXCEPT !.at = verdict, !.doubt = req[r].doubt \/ doubt]]
PassPlan(r, conf, doubt) ==
  IF PlanAllows(conf, req[r].feature)
  THEN req' = [req EXCEPT ![r] = [NoReq EXCEPT !.at = "matrix", !.feature = req[r].feature, !.roles = req[r].roles,
                                               !.doubt = req[r].doubt \/ doubt]]
  ELSE Answer(r, "refused", doubt)
PassMatrix(r, deny, doubt) ==
  Answer(r, IF MatrixAllows(deny, req[r].roles, req[r].feature) THEN "allowed" ELSE "refused", doubt)

Blip == gateFaults < MaxGateFaults /\ gateFaults' = gateFaults + 1

(* What a load has found, the overrides unread if blind. *)
LoadedConf(r, blind) ==
  [plan |-> req[r].plan, masked |-> req[r].masked, over |-> IF blind THEN {} ELSE loadPlanFeatureOverrides(req[r].plan)]

StaffRequest(r) ==
  /\ req[r].at \in {"idle", "allowed", "refused", "open"}
  /\ \E f \in Features, roles \in SUBSET Roles \ {{}} :
       req' = [req EXCEPT ![r] = [NoReq EXCEPT !.at = "plan", !.feature = f, !.roles = roles]]
  /\ UNCHANGED <<config, planConf, featConf, editor, saver, snapshot, edits, gateFaults, planStale, featStale, saverRace>>

(* planGateState.confFor and the decision: the cache, or the hotel and then the overrides, two queries.
   The hotel's failure lets the request pass; the overrides' failure counts as no override, and is
   cached. *)
planGate(r) ==
  /\ \/ /\ req[r].at = "plan" /\ planConf # NoConf
        /\ PassPlan(r, planConf, planStale) /\ UNCHANGED <<planConf, gateFaults, planStale>>
     \/ /\ req[r].at = "plan" /\ planConf = NoConf
        /\ \/ /\ req' = [req EXCEPT ![r].at = "overrides", ![r].plan = plan, ![r].masked = masked, ![r].late = FALSE]
              /\ UNCHANGED gateFaults
           \/ Blip /\ Answer(r, "open", FALSE)
        /\ UNCHANGED <<planConf, planStale>>
     \/ /\ req[r].at = "overrides"
        /\ \E blind \in BOOLEAN :
             /\ IF blind THEN Blip ELSE UNCHANGED gateFaults
             /\ planConf' = LoadedConf(r, blind) /\ PassPlan(r, LoadedConf(r, blind), req[r].late \/ blind)
             /\ planStale' = (req[r].late \/ blind)
  /\ UNCHANGED <<config, featConf, editor, saver, snapshot, edits, featStale, saverRace>>

(* featureGateState.confFor and the decision: refused when every role of the caller is denied. *)
featureGate(r) ==
  /\ \/ /\ req[r].at = "matrix" /\ featConf # {}
        /\ (\E d \in featConf : PassMatrix(r, d, featStale \/ editor # "idle")) /\ UNCHANGED <<featConf, gateFaults, featStale>>
     \/ /\ req[r].at = "matrix" /\ featConf = {}
        /\ \/ req' = [req EXCEPT ![r].at = "denials", ![r].denied = denied, ![r].late = FALSE] /\ UNCHANGED gateFaults
           \/ Blip /\ Answer(r, "open", FALSE)
        /\ UNCHANGED <<featConf, featStale>>
     \/ /\ req[r].at = "denials"
        /\ featConf' = {req[r].denied} /\ PassMatrix(r, req[r].denied, req[r].late)
        /\ featStale' = req[r].late
        /\ UNCHANGED gateFaults
  /\ UNCHANGED <<config, planConf, editor, saver, snapshot, edits, planStale, saverRace>>

PlanConfExpires ==
  /\ planConf # NoConf /\ planConf' = NoConf /\ planStale' = FALSE
  /\ UNCHANGED <<config, featConf, req, editor, saver, snapshot, edits, gateFaults, featStale, saverRace>>
FeatConfExpires ==
  /\ featConf # {} /\ featConf' = {} /\ featStale' = FALSE
  /\ UNCHANGED <<config, planConf, req, editor, saver, snapshot, edits, gateFaults, planStale, saverRace>>

-----------------------------------------------------------------------------
(* Snapshots.                                                              *)

SaverIdle(g) == saver[g].at = "idle"
NoGoroutine == UNCHANGED <<saver, saverRace>>
(* go saveConfigSnapshot *)
Save ==
  /\ \E g \in Savers : SaverIdle(g) /\ saver' = [saver EXCEPT ![g] = [NoSave EXCEPT !.at = "tenant"]]
  /\ saverRace' = (saverRace \/ \E g \in Savers : ~SaverIdle(g))

(* buildTenantConfig, a query for each part; a part that cannot be read gets its default. *)
buildTenantConfig(g) ==
  \/ /\ saver[g].at = "tenant"
     /\ \/ saver' = [saver EXCEPT ![g].at = "modules", ![g].plan = plan] /\ UNCHANGED <<gateFaults, saverRace>>
        \/ saver' = [saver EXCEPT ![g].at = "modules", ![g].plan = "basic"] /\ Blip /\ saverRace' = TRUE
  \/ /\ saver[g].at = "modules"
     /\ \/ saver' = [saver EXCEPT ![g].at = "denials", ![g].masked = masked] /\ UNCHANGED <<gateFaults, saverRace>>
        \/ saver' = [saver EXCEPT ![g].at = "denials"] /\ Blip /\ saverRace' = TRUE
  \/ /\ saver[g].at = "denials"
     /\ \/ saver' = [saver EXCEPT ![g].at = "policy", ![g].denied = denied] /\ UNCHANGED <<gateFaults, saverRace>>
        \/ saver' = [saver EXCEPT ![g].at = "policy"] /\ Blip /\ saverRace' = TRUE
  \/ /\ saver[g].at = "policy"
     /\ \/ saver' = [saver EXCEPT ![g].at = "store", ![g].policy = policy] /\ UNCHANGED <<gateFaults, saverRace>>
        \/ saver' = [saver EXCEPT ![g].at = "store"] /\ Blip /\ saverRace' = TRUE

saveConfigSnapshot(g) ==
  /\ \/ buildTenantConfig(g) /\ UNCHANGED snapshot
     \/ /\ saver[g].at = "store" /\ saver' = [saver EXCEPT ![g] = NoSave]
        /\ \/ /\ snapshot' = Shot(saver[g].plan, saver[g].masked, saver[g].denied, saver[g].policy)
              /\ UNCHANGED <<gateFaults, saverRace>>
           \/ UNCHANGED snapshot /\ Blip /\ saverRace' = TRUE
  /\ UNCHANGED <<config, planConf, featConf, req, editor, edits, planStale, featStale>>

(* The console asks for config.json. *)
DownloadTenantConfigJSON ==
  /\ Save
  /\ UNCHANGED <<config, planConf, featConf, req, editor, snapshot, edits, gateFaults, planStale, featStale>>

-----------------------------------------------------------------------------
(* Edits.  Only the matrix editor invalidates a cache.                     *)

Edit == edits < MaxEdits /\ edits' = edits + 1
(* Loads that have read what an edit now changes are overtaken by it, and a request that is under way is
   no longer decided on one configuration. *)
Overtake(step) == req' = [r \in Requests |-> [req[r] EXCEPT !.late = @ \/ req[r].at = step, !.doubt = @ \/ req[r].at \in {"plan", "overrides", "matrix", "denials"}]]
PlanChanged == planStale' = (planStale \/ planConf # NoConf) /\ Overtake("overrides")

UpdateTenantPlan ==
  /\ Edit /\ plan' \in Plans /\ PlanChanged /\ Save
  /\ UNCHANGED <<masked, over, denied, policy, planConf, featConf, editor, snapshot, gateFaults, featStale>>

ModulesWithoutSnapshot ==
  /\ Edit /\ masked' \in SUBSET Features /\ PlanChanged /\ NoGoroutine
  /\ UNCHANGED <<plan, over, denied, policy, planConf, featConf, editor, snapshot, gateFaults, featStale>>
UpdatePlatformTenantModules ==
  /\ Edit /\ masked' \in SUBSET Features /\ PlanChanged /\ Save
  /\ UNCHANGED <<plan, over, denied, policy, planConf, featConf, editor, snapshot, gateFaults, featStale>>

UpdatePlatformPlanFeatures ==
  /\ Edit /\ PlanChanged
  /\ \E p \in Plans, f \in Features, on \in BOOLEAN : over' = {o \in over : o[1] # p \/ o[2] # f} \cup {<<p, f, on>>}
  /\ UNCHANGED <<plan, masked, denied, policy, planConf, featConf, editor, saver, snapshot, gateFaults, featStale, saverRace>>

(* The transaction, then the invalidation, then the snapshot. *)
UpdatePlatformTenantFeatureMatrix ==
  \/ /\ editor = "idle" /\ Edit /\ editor' = "committed"
     /\ \E d \in SUBSET (Roles \X Features) : denied' = d
     /\ Overtake("denials")
     /\ UNCHANGED <<plan, masked, over, policy, planConf, featConf, saver, snapshot, gateFaults, planStale, featStale, saverRace>>
  \/ /\ editor = "committed" /\ editor' = "idle" /\ Save
     /\ featConf' = {} /\ featStale' = FALSE
     /\ UNCHANGED <<config, planConf, req, snapshot, edits, gateFaults, planStale>>

UpdatePlatformTenantBackupConfig ==
  /\ Edit /\ policy' \in BOOLEAN /\ Save
  /\ UNCHANGED <<plan, masked, over, denied, planConf, featConf, req, editor, snapshot, gateFaults, planStale, featStale>>

GatesNext ==
  \/ \E r \in Requests : StaffRequest(r) \/ planGate(r) \/ featureGate(r)
  \/ PlanConfExpires \/ FeatConfExpires
  \/ \E g \in Savers : saveConfigSnapshot(g)
  \/ DownloadTenantConfigJSON
  \/ UpdateTenantPlan \/ UpdatePlatformTenantModules \/ UpdatePlatformPlanFeatures
  \/ UpdatePlatformTenantFeatureMatrix \/ UpdatePlatformTenantBackupConfig

GatesSpec == GatesInit /\ [][GatesNext]_gateVars

-----------------------------------------------------------------------------
(* The plan gate's cache is what the database said when it was loaded: it differs from the configuration
   in force only when an edit came after or into the load, or the overrides could not be read. *)
PlanCacheAgrees ==
  planConf # NoConf /\ ~planStale =>
    planConf = [plan |-> plan, masked |-> masked, over |-> loadPlanFeatureOverrides(plan)]

(* "invalidate the gate's cache on write so edits take effect immediately": once an edit of the matrix
   has returned, the cached denials are the stored ones, unless a load that began before the edit was
   stored after the invalidation. *)
MatrixEditsAreLive ==
  featConf # {} /\ editor = "idle" /\ ~featStale => featConf = {denied}

(* A request decided on caches that no edit overtook gets the answer of the configuration in force: it
   passes exactly when the plan includes the feature, the mask leaves it on and some role of the caller
   is not denied.  (An answer "open" is one the gates gave because they could not read.) *)
GatesDecideRight ==
  [][\A r \in Requests :
       req'[r].at \in {"allowed", "refused"} /\ req[r].at # req'[r].at
       /\ ~req'[r].doubt =>
         (req'[r].at = "allowed") =
            (/\ req[r].feature \in planAwareModules(plan, masked, loadPlanFeatureOverrides(plan))
             /\ \E role \in req[r].roles : <<role, req[r].feature>> \notin denied)]_gateVars

(* When no goroutine is left and none overlapped or failed, the stored snapshot is the configuration. *)
SnapshotCurrent ==
  (\A g \in Savers : SaverIdle(g)) /\ editor = "idle" /\ ~saverRace => snapshot = Shot(plan, masked, denied, policy)
=============================================================================
