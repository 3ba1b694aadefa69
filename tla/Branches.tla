------------------------------ MODULE Branches ------------------------------
(* Branches (properties rows) of one client: the first one from onboarding   *)
(* (hotel_handler.go) or from createBranchFor, the plan's ceiling, and       *)
(* DeleteBranch, which promotes another branch to primary in its transaction *)
(* (branch_handler.go).  Branches are numbered in the order of created_at.   *)
EXTENDS Integers, FiniteSets, FiniteSetsExt

CONSTANTS
  Admins,           \* requests in flight
  MaxProperties,    \* the plan's ceiling
  MaxBorn           \* bound: branches ever created

ASSUME BranchesAssumption == MaxProperties \in Nat \ {0} /\ MaxBorn \in Nat

VARIABLES
  client,      \* the client's row exists
  branches,    \* committed rows
  primary,     \* those of them with is_primary
  born,        \* branches created so far
  admin,       \* requests between their statements
  unmarked,    \* history: onboarding stored a branch, which it does not mark primary
  hasty,       \* history: a branch was inserted after the count it relied on had changed
  torn         \* history: a deletion committed after the branches changed under it

branchVars == <<client, branches, primary, born, admin, unmarked, hasty, torn>>

NoAdmin == [at |-> "idle", seen |-> {}, gone |-> 0, want |-> 0, pick |-> 0]

BranchesInit ==
    /\ client \in BOOLEAN          \* onboarded here, or created by the operator
    /\ branches = {} /\ primary = {} /\ born = 0
    /\ admin = [a \in Admins |-> NoAdmin]
    /\ unmarked = FALSE /\ hasty = FALSE /\ torn = FALSE

Moves(a, r) == admin' = [admin EXCEPT ![a] = r]
AddBranch(isPrimary) ==
    /\ born < MaxBorn /\ born' = born + 1
    /\ branches' = branches \cup {born + 1}
    /\ primary' = IF isPrimary THEN primary \cup {born + 1} ELSE primary

-----------------------------------------------------------------------------
(* Onboarding inserts the client, then its property if one was named; the     *)
(* second may fail and leaves the first.  A taken slug is a conflict.        *)
CreateHotel(a) ==
    \/ /\ admin[a].at = "idle" /\ ~client /\ client' = TRUE
       /\ Moves(a, [NoAdmin EXCEPT !.at = "property", !.seen = branches])
       /\ UNCHANGED <<branches, primary, born, unmarked, hasty, torn>>
    \/ /\ admin[a].at = "property" /\ Moves(a, NoAdmin)
       /\ \/ AddBranch(FALSE) /\ unmarked' = TRUE /\ hasty' = (hasty \/ branches # admin[a].seen)
          \/ UNCHANGED <<branches, primary, born, unmarked, hasty>>
       /\ UNCHANGED <<client, torn>>

(* One read gives the plan and the count.                                    *)
CountBranches(a) ==
    /\ admin[a].at = "idle" /\ client
    /\ Cardinality(branches) < MaxProperties
    /\ Moves(a, [NoAdmin EXCEPT !.at = "insert", !.seen = branches])
    /\ UNCHANGED <<client, branches, primary, born, unmarked, hasty, torn>>

isPrimary(seen) == seen = {}

InsertBranch(a) ==
    /\ admin[a].at = "insert" /\ Moves(a, NoAdmin)
    /\ AddBranch(isPrimary(admin[a].seen))
    /\ hasty' = (hasty \/ branches # admin[a].seen)
    /\ UNCHANGED <<client, unmarked, torn>>

createBranchFor(a) == CountBranches(a) \/ InsertBranch(a)

-----------------------------------------------------------------------------
(* A row another transaction has deleted or updated makes a statement wait.  *)
LockedByOthers(a, b) == \E o \in Admins \ {a} : b \in {admin[o].gone, admin[o].pick}

(* DELETE ... RETURNING is_primary.                                          *)
SkipPromotion(a) ==
    /\ admin[a].at = "idle"
    /\ \E b \in branches : /\ ~LockedByOthers(a, b)
                           /\ Moves(a, [at |-> "commit", seen |-> branches, gone |-> b, want |-> 0, pick |-> 0])
    /\ UNCHANGED <<client, branches, primary, born, unmarked, hasty, torn>>
DeleteRow(a) ==
    /\ admin[a].at = "idle"
    /\ \E b \in branches : /\ ~LockedByOthers(a, b)
                           /\ Moves(a, [at |-> IF b \in primary THEN "promote" ELSE "commit",
                                        seen |-> branches, gone |-> b, want |-> 0, pick |-> 0])
    /\ UNCHANGED <<client, branches, primary, born, unmarked, hasty, torn>>

(* The UPDATE's subselect names the oldest branch that others have committed *)
(* and this transaction has not deleted.                                     *)
ChooseOldest(a) ==
    LET rest == branches \ {admin[a].gone} IN
    /\ admin[a].at = "promote"
    /\ Moves(a, IF rest = {} THEN [admin[a] EXCEPT !.at = "commit"]
                             ELSE [admin[a] EXCEPT !.at = "update", !.want = Min(rest)])
    /\ UNCHANGED <<client, branches, primary, born, unmarked, hasty, torn>>

(* If that branch is locked the UPDATE waits for it, and finds no row when   *)
(* it was deleted meanwhile.                                                 *)
PromoteOldest(a) ==
    LET b == admin[a].want IN
    /\ admin[a].at = "update" /\ ~LockedByOthers(a, b)
    /\ Moves(a, [admin[a] EXCEPT !.at = "commit", !.pick = IF b \in branches THEN b ELSE 0])
    /\ UNCHANGED <<client, branches, primary, born, unmarked, hasty, torn>>

CommitDelete(a) ==
    /\ admin[a].at = "commit" /\ Moves(a, NoAdmin)
    /\ branches' = branches \ {admin[a].gone}
    /\ primary' = (primary \cup {admin[a].pick}) \cap branches'
    /\ torn' = (torn \/ branches # admin[a].seen)
    /\ UNCHANGED <<client, born, unmarked, hasty>>

(* An error, a lost connection or a deadlock undoes the transaction.         *)
RollbackDelete(a) ==
    /\ admin[a].at \in {"promote", "update", "commit"} /\ Moves(a, NoAdmin)
    /\ UNCHANGED <<client, branches, primary, born, unmarked, hasty, torn>>

DeleteBranch(a) == DeleteRow(a) \/ ChooseOldest(a) \/ PromoteOldest(a) \/ CommitDelete(a) \/ RollbackDelete(a)

BranchesNext == \E a \in Admins : CreateHotel(a) \/ createBranchFor(a) \/ DeleteBranch(a)

BranchesSpec == BranchesInit /\ [][BranchesNext]_branchVars

-----------------------------------------------------------------------------
(* A client with branches has one primary, through any mix of creations,     *)
(* deletions and rollbacks.  None is left only when the first branch came    *)
(* unmarked from onboarding, a creation relied on an outdated count or the   *)
(* branches changed under a deletion before it committed; two come only from *)
(* two creations that both found no branch, never from deletions.            *)
OnePrimary ==
    /\ branches # {} /\ ~unmarked /\ ~hasty /\ ~torn => primary # {}
    /\ Cardinality(primary) > 1 => hasty

(* The plan's ceiling holds unless a creation relied on an outdated count.   *)
WithinPlan == Cardinality(branches) > MaxProperties => hasty
=============================================================================
