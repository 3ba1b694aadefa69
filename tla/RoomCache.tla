----------------------------- MODULE RoomCache -----------------------------
(* The cached room lists and dashboard counters of one hotel                *)
(* (room_handler.go, dashboard_handler.go, bulk_handler.go, cache.go).      *)
(* Readers fill a key that is missing from what they read in the database;  *)
(* writers of a room delete the keys afterwards.  Entries expire.           *)
EXTENDS Integers, FiniteSets

CONSTANTS
  Chambers,          \* rooms
  Hands,            \* requests in flight
  ListKeys,         \* what is listed: "all", statuses, and "stats" for the dashboard
  RoomStates,       \* room statuses a write sets
  MaxWrites,        \* bound: writes to rooms
  MaxCacheFaults    \* bound: Redis calls that fail

ASSUME RoomCacheAssumption == "absent" \notin RoomStates /\ MaxWrites \in Nat

VARIABLES
  rooms,      \* rooms.status, "absent" when there is no row
  cached,     \* Redis: what each key holds, None when missing
  hand,       \* requests between their statements
  stale,      \* history: keys left holding an old list, and for a known reason
  writes, cacheFaults

roomCacheVars == <<rooms, cached, hand, stale, writes, cacheFaults>>

None == {"none"}
NoHand == [at |-> "idle", key |-> "", list |-> {}, overtaken |-> FALSE]

(* ListRooms by status, or GetStats' counters: what the key stands for now. *)
ListRooms(key) ==
    CASE key = "all" -> {<<r, rooms[r]>> : r \in {x \in Chambers : rooms[x] # "absent"}}
      [] key = "stats" -> {<<s, Cardinality({r \in Chambers : rooms[r] = s})>>
                            : s \in {"occupied", "available"}}
      [] OTHER -> {<<r, key>> : r \in {x \in Chambers : rooms[x] = key}}

(* The keys invalidateRooms deletes: the lists of four of the five statuses *)
(* are among them, the list of rooms out of order is not.                   *)
ForgetsStats == {"all", "available", "occupied", "cleaning", "maintenance"}
Invalidated == {"stats", "all", "available", "occupied", "cleaning", "maintenance"}

RoomCacheInit ==
    /\ rooms = [r \in Chambers |-> "absent"]
    /\ cached = [key \in ListKeys |-> None]
    /\ hand = [h \in Hands |-> NoHand]
    /\ stale = {}
    /\ writes = 0 /\ cacheFaults = 0

CacheFails == cacheFaults < MaxCacheFaults /\ cacheFaults' = cacheFaults + 1

----------------------------------------------------------------------------
(* List and Stats: a hit answers; a miss reads the database, stores what it *)
(* read and answers.  A failed Get is a miss, a failed Set is ignored.      *)
ReadMiss(h, key) ==
    /\ hand[h].at = "idle"
    /\ \/ cached[key] = None /\ UNCHANGED cacheFaults
       \/ cached[key] # None /\ CacheFails
    /\ hand' = [hand EXCEPT ![h] = [NoHand EXCEPT !.at = "fill", !.key = key, !.list = ListRooms(key)]]
    /\ UNCHANGED <<rooms, cached, stale, writes>>

Fill(h) ==
    /\ hand[h].at = "fill"
    /\ \/ /\ cached' = [cached EXCEPT ![hand[h].key] = hand[h].list]
          /\ stale' = IF hand[h].overtaken THEN stale \cup {hand[h].key} ELSE stale \ {hand[h].key}
          /\ UNCHANGED cacheFaults
       \/ CacheFails /\ UNCHANGED <<cached, stale>>
    /\ hand' = [hand EXCEPT ![h] = NoHand]
    /\ UNCHANGED <<rooms, writes>>

List(h) == (\E key \in ListKeys : ReadMiss(h, key)) \/ Fill(h)

(* A write to rooms overtakes the readers that have read and not stored.    *)
Write(r, s) ==
    /\ writes < MaxWrites /\ writes' = writes + 1
    /\ rooms' = [rooms EXCEPT ![r] = s]

Overtake(j) == [hand[j] EXCEPT !.overtaken = @ \/ hand[j].at = "fill"]

(* Create, Update, UpdateStatus and Delete write and then delete the keys,  *)
(* ignoring an error of the cache.                                          *)
ChangeRoom(h, r, s) ==
    /\ hand[h].at = "idle" /\ rooms[r] # s
    /\ Write(r, s)
    /\ hand' = [j \in Hands |-> IF j = h THEN [NoHand EXCEPT !.at = "drop"] ELSE Overtake(j)]
    /\ UNCHANGED <<cached, stale, cacheFaults>>

(* The bulk import inserts row after row and deletes the keys at the end.   *)
Import(h, r, s) ==
    /\ hand[h].at = "idle" \/ (hand[h].at = "drop" /\ hand[h].key = "import")
    /\ rooms[r] = "absent"
    /\ Write(r, s)
    /\ hand' = [j \in Hands |-> IF j = h THEN [NoHand EXCEPT !.at = "drop", !.key = "import"] ELSE Overtake(j)]
    /\ UNCHANGED <<cached, stale, cacheFaults>>

invalidateRooms(h) ==
    /\ hand[h].at = "drop"
    /\ \/ /\ cached' = [key \in ListKeys |-> IF key \in Invalidated THEN None ELSE cached[key]]
          /\ stale' = stale \ Invalidated
          /\ UNCHANGED cacheFaults
       \/ CacheFails /\ stale' = stale \cup ListKeys /\ UNCHANGED cached
    /\ hand' = [hand EXCEPT ![h] = NoHand]
    /\ UNCHANGED <<rooms, writes>>

(* The front desk, housekeeping and channel cancellations set room statuses *)
(* and leave the cache alone.                                               *)
FrontDeskWrites(r, s) ==
    /\ rooms[r] \notin {s, "absent"}
    /\ Write(r, s)
    /\ hand' = [j \in Hands |-> Overtake(j)]
    /\ stale' = stale \cup {key \in ListKeys : cached[key] # None}
    /\ UNCHANGED <<cached, cacheFaults>>

(* Redis drops an entry when its TTL is over.                               *)
Expire(key) ==
    /\ cached[key] # None
    /\ cached' = [cached EXCEPT ![key] = None]
    /\ stale' = stale \ {key}
    /\ UNCHANGED <<rooms, hand, writes, cacheFaults>>

RoomCacheNext ==
    \/ \E h \in Hands :
          \/ List(h) \/ invalidateRooms(h)
          \/ \E r \in Chambers, s \in RoomStates \cup {"absent"} : ChangeRoom(h, r, s)
          \/ \E r \in Chambers, s \in RoomStates : Import(h, r, s)
    \/ \E r \in Chambers, s \in RoomStates : FrontDeskWrites(r, s)
    \/ \E key \in ListKeys : Expire(key)

RoomCacheSpec == RoomCacheInit /\ [][RoomCacheNext]_roomCacheVars

----------------------------------------------------------------------------
(* A room list, or the dashboard, is served out of date only while a write  *)
(* is about to delete it, or because the deletion failed, the write came    *)
(* from the front desk, or a reader stored what it had read before a write. *)
(* The list of rooms out of order is excepted: no writer deletes it.        *)
StaleOnlyIfKnown ==
    \A key \in ListKeys \cap {"stats", "all", "available", "occupied", "cleaning", "maintenance"} :
        \/ cached[key] = None
        \/ cached[key] = ListRooms(key)
        \/ key \in stale
        \/ \E h \in Hands : hand[h].at = "drop"
=============================================================================
