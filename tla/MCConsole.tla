------------------------------ MODULE MCConsole -----------------------------
(* The gates and the accounts for TLC.  A behaviour exercises one part, chosen at the start: requests
   passing the gates, snapshots of the configuration, users and roles, or admins and their passwords. *)
EXTENDS FeatureGates, Accounts, TLC
CONSTANTS a1, a2, r1, r2, h1, h2, m1, m2

VARIABLE part
vars == <<gateVars, accountVars, part>>

Names == <<h1, h2>>
Admins == [h \in {h1, h2} |-> IF h = h1 THEN m1 ELSE m2]
(* Requests and goroutines are the same two values in every part. *)
Sym == Permutations({a1, a2}) \cup Permutations({r1, r2})

Init ==
  /\ GatesInit /\ AccountsInit
  /\ part \in {"gates", "snapshots", "roles", "admins"}
  /\ part \in {"roles", "admins"} => plan = "basic"

GatesPart ==
  /\ part = "gates" /\ UNCHANGED accountVars
  /\ \/ \E r \in Requests : StaffRequest(r) \/ planGate(r) \/ featureGate(r)
     \/ PlanConfExpires \/ FeatConfExpires
     \/ UpdateTenantPlan \/ UpdatePlatformTenantModules \/ UpdatePlatformPlanFeatures
     \/ UpdatePlatformTenantFeatureMatrix

SnapshotsPart ==
  /\ part = "snapshots" /\ UNCHANGED accountVars
  /\ \/ \E g \in Savers : saveConfigSnapshot(g)
     \/ DownloadTenantConfigJSON
     \/ UpdateTenantPlan \/ UpdatePlatformTenantModules
     \/ UpdatePlatformTenantFeatureMatrix \/ UpdatePlatformTenantBackupConfig

RolesPart == part = "roles" /\ RolesNext /\ UNCHANGED gateVars
AdminsPart == part = "admins" /\ AdminsNext /\ UNCHANGED gateVars

Next == UNCHANGED part /\ (GatesPart \/ SnapshotsPart \/ RolesPart \/ AdminsPart)
Spec == Init /\ [][Next]_vars
=============================================================================
