----------------------------- MODULE RateLimit -----------------------------
(* The per-hotel request quota (rate_limit.go, IncrementWithTTL): a counter *)
(* per minute in Redis, compared with the quota of the hotel's plan as the  *)
(* plan gate last cached it.  A Redis error lets the request through.       *)
EXTENDS Integers, FiniteSets

CONSTANTS
  Hits,            \* requests in flight
  Quota,           \* planMinuteQuota: rank -> requests a minute
  Minutes,         \* bound: minutes, from 0
  MaxArrivals,     \* bound: requests of one minute
  MaxRateFaults    \* bound: Redis calls and plan reads that fail

ASSUME RateAssumption ==
  /\ Minutes \in Nat /\ 0 \in DOMAIN Quota
  /\ \A r \in DOMAIN Quota : Quota[r] \in Nat /\ Quota[0] <= Quota[r]

VARIABLES
  minute,        \* time.Now().Unix() / 60
  rank,          \* the plan rank confFor answers
  bucket,        \* Redis: the counter of each minute, 0 when the key is missing
  hit,           \* requests between reading the clock and being counted
  admitted,      \* requests let through, by the minute they were counted in
  excused,       \* history: requests let through because Redis failed, by minute
  restarts,      \* history: times a minute's key expired, letting the count begin again
  best,          \* history: the highest rank the hotel had
  rateFaults

rateVars == <<minute, rank, bucket, hit, admitted, excused, restarts, best, rateFaults>>

NoHit == [at |-> "idle", b |-> 0, limit |-> 0]

RateInit ==
    /\ minute = 0
    /\ rank \in DOMAIN Quota
    /\ bucket = [b \in 0 .. Minutes |-> 0]
    /\ hit = [h \in Hits |-> NoHit]
    /\ admitted = [b \in 0 .. Minutes |-> 0]
    /\ excused = [b \in 0 .. Minutes |-> 0]
    /\ restarts = [b \in 0 .. Minutes |-> 0]
    /\ best = rank /\ rateFaults = 0

----------------------------------------------------------------------------
(* The limit of the plan, or of the lowest plan when the plan cannot be     *)
(* read; then the bucket of the current minute.                             *)
ReadLimit(h) ==
    /\ hit[h].at = "idle"
    /\ \/ /\ hit' = [hit EXCEPT ![h] = [at |-> "limited", b |-> 0, limit |-> Quota[rank]]]
          /\ UNCHANGED rateFaults
       \/ /\ rateFaults < MaxRateFaults
          /\ rateFaults' = rateFaults + 1
          /\ hit' = [hit EXCEPT ![h] = [at |-> "limited", b |-> 0, limit |-> Quota[0]]]
    /\ UNCHANGED <<minute, rank, bucket, admitted, excused, restarts, best>>

ReadClock(h) ==
    /\ hit[h].at = "limited" /\ bucket[minute] < MaxArrivals
    /\ hit' = [hit EXCEPT ![h].at = "timed", ![h].b = minute]
    /\ UNCHANGED <<minute, rank, bucket, admitted, excused, restarts, best, rateFaults>>

OverByOne(count, limit) == count > limit + 1
Over(count, limit) == count > limit

(* INCR and PEXPIRE run as one script.                                      *)
Count(h) ==
    LET b == hit[h].b  count == bucket[b] + 1 IN
    /\ hit[h].at = "timed"
    /\ \/ /\ bucket' = [bucket EXCEPT ![b] = count]
          /\ admitted' = IF Over(count, hit[h].limit) THEN admitted
                         ELSE [admitted EXCEPT ![b] = @ + 1]
          /\ UNCHANGED <<excused, rateFaults>>
       \/ /\ rateFaults < MaxRateFaults
          /\ rateFaults' = rateFaults + 1
          /\ admitted' = [admitted EXCEPT ![b] = @ + 1]
          /\ excused' = [excused EXCEPT ![b] = @ + 1]
          /\ UNCHANGED bucket
    /\ hit' = [hit EXCEPT ![h] = NoHit]
    /\ UNCHANGED <<minute, rank, restarts, best>>

clientRateLimit(h) == ReadLimit(h) \/ ReadClock(h) \/ Count(h)

(* A minute passes; a key lives one minute from its first hit, so it may be *)
(* gone in the next while a slow request still counts on it.                *)
Tick == minute < Minutes /\ minute' = minute + 1
        /\ UNCHANGED <<rank, bucket, hit, admitted, excused, restarts, best, rateFaults>>

KeyExpires(b) ==
    /\ b < minute /\ bucket[b] > 0
    /\ bucket' = [bucket EXCEPT ![b] = 0]
    /\ restarts' = [restarts EXCEPT ![b] = @ + 1]
    /\ UNCHANGED <<minute, rank, hit, admitted, excused, best, rateFaults>>

ChangePlan(r) ==
    /\ r # rank /\ rank' = r
    /\ best' = IF Quota[r] > Quota[best] THEN r ELSE best
    /\ UNCHANGED <<minute, bucket, hit, admitted, excused, restarts, rateFaults>>

RateNext ==
    \/ \E h \in Hits : clientRateLimit(h)
    \/ Tick
    \/ \E b \in 0 .. Minutes : KeyExpires(b)
    \/ \E r \in DOMAIN Quota : ChangePlan(r)

RateSpec == RateInit /\ [][RateNext]_rateVars

----------------------------------------------------------------------------
(* Whatever requests overlap, and however the plan changes meanwhile, a     *)
(* minute admits no more than the best plan's quota, but for requests Redis *)
(* failed to count and a count begun again by requests that came late to a  *)
(* minute whose key had expired.                                            *)
AdmittedWithinQuota ==
    \A b \in 0 .. Minutes :
        admitted[b] <= Quota[best] * (1 + restarts[b]) + excused[b]
=============================================================================
