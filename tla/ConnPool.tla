------------------------------ MODULE ConnPool ------------------------------
(* Connections of a tenant's pool while tables are opened (OpenSession of   *)
(* pos_dinein_handler.go): the transaction keeps one connection and locks   *)
(* the table's row, and the accounting customer is looked up on the pool,   *)
(* which takes a second connection for the time of the lookup.  Neither     *)
(* wait has a limit.                                                        *)
EXTENDS Naturals, FiniteSets

CONSTANTS
  Waiters,      \* requests
  Boards,      \* restaurant tables
  MaxConns      \* connections of the pool

ASSUME PoolAssumption == MaxConns \in Nat \ {0} /\ IsFiniteSet(Waiters)

VARIABLES
  free,       \* idle connections
  opening,    \* per request: where OpenSession is, and for which table
  tableLock,  \* who holds the row lock of a table, or none
  taken       \* tables with an open session

connVars == <<free, opening, tableLock, taken>>

Unlocked == "unlocked"
Resting == [at |-> "rest", table |-> "none"]

ConnInit ==
    /\ free = MaxConns
    /\ opening = [w \in Waiters |-> Resting]
    /\ tableLock = [t \in Boards |-> Unlocked]
    /\ taken = {}

----------------------------------------------------------------------------
(* Begin takes a connection.                                                *)
BeginTx(w, t) ==
    /\ opening[w].at = "rest" /\ free > 0
    /\ free' = free - 1
    /\ opening' = [opening EXCEPT ![w] = [at |-> "lock", table |-> t]]
    /\ UNCHANGED <<tableLock, taken>>

(* SELECT ... FOR UPDATE; a table already taken ends the transaction, and   *)
(* an anonymous party needs no customer.                                    *)
LockTable(w) ==
    LET t == opening[w].table IN
    /\ opening[w].at = "lock" /\ tableLock[t] = Unlocked
    /\ IF t \in taken
       THEN /\ opening' = [opening EXCEPT ![w] = Resting]
            /\ free' = free + 1
            /\ UNCHANGED tableLock
       ELSE /\ \E at \in {"customer", "commit"} : opening' = [opening EXCEPT ![w].at = at]
            /\ tableLock' = [tableLock EXCEPT ![t] = w]
            /\ UNCHANGED free
    /\ UNCHANGED taken

(* Each statement of ensureAccountingCustomer takes a connection of the     *)
(* pool and returns it.                                                     *)
BorrowConn(w) ==
    /\ opening[w].at = "customer" /\ free > 0
    /\ free' = free - 1
    /\ opening' = [opening EXCEPT ![w].at = "lookup"]
    /\ UNCHANGED <<tableLock, taken>>

KeepConn(w) ==
    /\ opening[w].at = "lookup"
    /\ opening' = [opening EXCEPT ![w].at = "commit"]
    /\ UNCHANGED <<free, tableLock, taken>>

ReturnConn(w) ==
    /\ opening[w].at = "lookup"
    /\ free' = free + 1
    /\ \E at \in {"customer", "commit"} : opening' = [opening EXCEPT ![w].at = at]
    /\ UNCHANGED <<tableLock, taken>>

(* The session is inserted and the table occupied, or the insert is refused *)
(* and the transaction rolled back; either way its connection returns.      *)
EndTx(w) ==
    /\ opening[w].at = "commit"
    /\ taken' \in {taken, taken \cup {opening[w].table}}
    /\ tableLock' = [tableLock EXCEPT ![opening[w].table] = Unlocked]
    /\ free' = free + 1
    /\ opening' = [opening EXCEPT ![w] = Resting]

OpenSessionTx(w) ==
    \/ \E t \in Boards : BeginTx(w, t)
    \/ LockTable(w) \/ BorrowConn(w) \/ ReturnConn(w) \/ EndTx(w)

(* The table is settled and cleaned.                                        *)
FreeTable(t) ==
    /\ t \in taken /\ tableLock[t] = Unlocked
    /\ taken' = taken \ {t}
    /\ UNCHANGED <<free, opening, tableLock>>

ConnNext == (\E w \in Waiters : OpenSessionTx(w)) \/ \E t \in Boards : FreeTable(t)

ConnSpec == ConnInit /\ [][ConnNext]_connVars

----------------------------------------------------------------------------
InTx == {w \in Waiters : opening[w].at # "rest"}
Moving(w) ==
    \/ opening[w].at \in {"lookup", "commit"}
    \/ opening[w].at = "lock" /\ tableLock[opening[w].table] = Unlocked
    \/ opening[w].at = "customer" /\ free > 0

(* While fewer tables are being opened than the pool has connections, one   *)
(* of them can go on: the requests never all wait on each other's           *)
(* connections and row locks.  With as many as connections they can, and no *)
(* wait has a limit.                                                        *)
SomeoneMoves == (InTx # {} /\ Cardinality(InTx) < MaxConns) => \E w \in InTx : Moving(w)
=============================================================================
