------------------------------- MODULE Linen -------------------------------
(* Linen stock of one item (housekeeping_handler.go): a transaction row is  *)
(* inserted and the counters are updated by a second statement.             *)
EXTENDS Integers, FiniteSets, FiniteSetsExt

CONSTANTS
  Porters,       \* requests in flight
  Bundles,       \* quantities of a request
  Stocked,       \* pieces the item starts with
  MaxMoves,      \* bound: requests accepted
  MaxLinenFaults

ASSUME LinenAssumption == Bundles \subseteq Nat \ {0} /\ Stocked \in Nat /\ MaxMoves \in Nat

VARIABLES
  linen,       \* linen_inventory: total_count, in_use, in_laundry, damaged
  issued, returned,   \* linen_transactions: sums of quantity by type
  porter,      \* requests between their two statements
  moves,       \* requests accepted so far
  skipped,     \* history: quantity logged whose counter update failed, issues minus returns
  clamped,     \* history: GREATEST(..., 0) cut a counter, or more came back damaged than came back
  linenFaults

linenVars == <<linen, issued, returned, porter, moves, skipped, clamped, linenFaults>>

NoPorter == [at |-> "idle", q |-> 0, d |-> 0]
Greatest0(n) == IF n < 0 THEN 0 ELSE n

LinenInit ==
    /\ linen = [total |-> Stocked, in_use |-> 0, laundry |-> 0, damaged |-> 0]
    /\ issued = 0 /\ returned = 0
    /\ porter = [p \in Porters |-> NoPorter]
    /\ moves = 0 /\ skipped = 0 /\ clamped = FALSE /\ linenFaults = 0

Logged(p, at, q, d) ==
    /\ porter[p].at = "idle" /\ moves < MaxMoves
    /\ moves' = moves + 1
    /\ porter' = [porter EXCEPT ![p] = [at |-> at, q |-> q, d |-> d]]
    /\ UNCHANGED <<linen, skipped, clamped, linenFaults>>

(* The counter update fails: the row stays, the counters do not move.       *)
Unapplied(p, q) ==
    /\ linenFaults < MaxLinenFaults
    /\ linenFaults' = linenFaults + 1
    /\ skipped' = skipped + q
    /\ UNCHANGED <<linen, clamped>>

----------------------------------------------------------------------------
IssueInsert(p, q) == Logged(p, "issue", q, 0) /\ issued' = issued + q /\ UNCHANGED returned

AppliedIssueKeepingTotal(q) == [linen EXCEPT !.in_use = @ + q]
AppliedIssue(q) == [linen EXCEPT !.in_use = @ + q, !.total = Greatest0(@ - q)]

IssueUpdate(p) ==
    /\ porter[p].at = "issue"
    /\ porter' = [porter EXCEPT ![p] = NoPorter]
    /\ \/ /\ linen' = AppliedIssue(porter[p].q)
          /\ clamped' = (clamped \/ linen.total < porter[p].q)
          /\ UNCHANGED <<skipped, linenFaults>>
       \/ Unapplied(p, porter[p].q)
    /\ UNCHANGED <<issued, returned, moves>>

IssueLinen(p) == (\E q \in Bundles : IssueInsert(p, q)) \/ IssueUpdate(p)

(* ReturnLinen checks the quantity but not the damaged count.               *)
ReturnInsert(p, q, d) == Logged(p, "return", q, d) /\ returned' = returned + q /\ UNCHANGED issued

AppliedReturn(q, d) ==
    [linen EXCEPT !.in_use = Greatest0(@ - q), !.laundry = @ + Greatest0(q - d), !.damaged = @ + d]

ReturnUpdate(p) ==
    LET j == porter[p] IN
    /\ j.at = "return"
    /\ porter' = [porter EXCEPT ![p] = NoPorter]
    /\ \/ /\ linen' = AppliedReturn(j.q, j.d)
          /\ clamped' = (clamped \/ linen.in_use < j.q \/ j.q < j.d)
          /\ UNCHANGED <<skipped, linenFaults>>
       \/ Unapplied(p, - j.q)
    /\ UNCHANGED <<issued, returned, moves>>

ReturnLinen(p) ==
    (\E q \in Bundles, d \in 0 .. 2 : ReturnInsert(p, q, d)) \/ ReturnUpdate(p)

LinenNext == \E p \in Porters : IssueLinen(p) \/ ReturnLinen(p)

LinenSpec == LinenInit /\ [][LinenNext]_linenVars

----------------------------------------------------------------------------
(* No piece appears or disappears: the four counters add up to the stock    *)
(* until a counter was cut at zero or more pieces came back damaged than    *)
(* came back, which IssueLinen and ReturnLinen do not refuse.               *)
PiecesConserved ==
    ~clamped => linen.total + linen.in_use + linen.laundry + linen.damaged = Stocked

OnTheWay(p) ==
    CASE porter[p].at = "issue" -> porter[p].q
      [] porter[p].at = "return" -> - porter[p].q
      [] OTHER -> 0

(* Moreover in_use is what the transaction rows say was issued and not      *)
(* returned, but for rows whose counter update is to come or has failed.    *)
LinenConserved ==
    /\ PiecesConserved
    /\ ~clamped => linen.in_use = issued - returned - skipped - MapThenSumSet(OnTheWay, Porters)
============================================================================
