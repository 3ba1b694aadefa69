----------------------------- MODULE AiGateway -----------------------------
(* Calls to the language-model providers (ai_service.go): callAI tries      *)
(* Cerebras and then Groq, each up to three times, behind one circuit       *)
(* breaker whose two counters are read and written by separate atomic       *)
(* operations.  A call that fails is answered by a locally built reply.     *)
EXTENDS Integers, FiniteSets

CONSTANTS
  Askers,         \* requests in flight
  Keyed,          \* providers with an API key, of "cerebras" and "groq"
  Threshold,      \* failures that open the breaker
  MaxSends,       \* bound: requests sent to providers
  MaxClock        \* bound: passages of the recovery time

ASSUME AiAssumption == Threshold \in Nat \ {0} /\ MaxSends \in Nat /\ MaxClock \in Nat

Attempts == 3
NeverFailed == - 1

VARIABLES
  failures, lastFailure,  \* the breaker; time counts recovery periods
  clock,
  ask,          \* calls under way
  sends,        \* requests sent
  sinceOpen     \* history: requests each caller sent since the breaker opened

aiVars == <<failures, lastFailure, clock, ask, sends, sinceOpen>>

NoAsk == [at |-> "idle", of |-> "none", try |-> 0]

AiInit ==
    /\ failures = 0 /\ lastFailure = NeverFailed /\ clock = 0
    /\ ask = [a \in Askers |-> NoAsk]
    /\ sends = 0 /\ sinceOpen = [a \in Askers |-> 0]

(* isOpen loads the failures, then, only when there are enough, the time.   *)
Tripped == failures >= Threshold
Recent == lastFailure = clock

(* What the caller does with no reply: the next provider, or the fallback.  *)
AfterFailure(a) ==
    IF ask[a].of = "cerebras"
    THEN [ask[a] EXCEPT !.at = "check", !.of = "groq", !.try = 0]
    ELSE NoAsk

----------------------------------------------------------------------------
(* callAI: callCerebras is skipped without its key; callGroq gives up only  *)
(* when neither key is configured.                                          *)
Ask(a) ==
    /\ ask[a].at = "idle" /\ Keyed # {}
    /\ ask' = [ask EXCEPT ![a] = [at |-> "check", try |-> 0,
                                  of |-> IF "cerebras" \in Keyed THEN "cerebras" ELSE "groq"]]
    /\ UNCHANGED <<failures, lastFailure, clock, sends, sinceOpen>>

CheckFailuresNever(a) ==
    /\ ask[a].at = "check"
    /\ ask' = [ask EXCEPT ![a].at = "send"]
    /\ UNCHANGED <<failures, lastFailure, clock, sends, sinceOpen>>

CheckFailures(a) ==
    /\ ask[a].at = "check"
    /\ ask' = [ask EXCEPT ![a].at = IF Tripped THEN "check_time" ELSE "send"]
    /\ UNCHANGED <<failures, lastFailure, clock, sends, sinceOpen>>

CheckTime(a) ==
    /\ ask[a].at = "check_time"
    /\ ask' = [ask EXCEPT ![a] = IF Recent THEN AfterFailure(a) ELSE [@ EXCEPT !.at = "send"]]
    /\ UNCHANGED <<failures, lastFailure, clock, sends, sinceOpen>>

isOpen(a) == CheckFailures(a) \/ CheckTime(a)

(* One HTTP request of the attempt loop; the loop does not ask the breaker. *)
Send(a) ==
    /\ ask[a].at = "send" /\ sends < MaxSends
    /\ sends' = sends + 1
    /\ sinceOpen' = IF Tripped /\ Recent THEN [sinceOpen EXCEPT ![a] = @ + 1] ELSE sinceOpen
    /\ ask' = [ask EXCEPT ![a].at = "wait", ![a].try = @ + 1]
    /\ UNCHANGED <<failures, lastFailure, clock>>

NextTry(a) == IF ask[a].try < Attempts THEN [ask[a] EXCEPT !.at = "send"] ELSE AfterFailure(a)

(* A transport error or a status other than 200 is recorded: the count, and *)
(* then the time.                                                           *)
Fails(a) ==
    /\ ask[a].at = "wait"
    /\ failures' = failures + 1
    /\ ask' = [ask EXCEPT ![a].at = "record"]
    /\ UNCHANGED <<lastFailure, clock, sends, sinceOpen>>

recordFailure(a) ==
    /\ ask[a].at = "record"
    /\ lastFailure' = clock
    /\ ask' = [ask EXCEPT ![a] = NextTry(a)]
    /\ UNCHANGED <<failures, clock, sends, sinceOpen>>

(* A reply of the wrong shape is tried again and not recorded; the body is  *)
(* read after the request's context was cancelled and may be cut short.     *)
BadShape(a) ==
    /\ ask[a].at = "wait"
    /\ ask' = [ask EXCEPT ![a] = NextTry(a)]
    /\ UNCHANGED <<failures, lastFailure, clock, sends, sinceOpen>>

(* A reply resets the count, however many failures came meanwhile.          *)
Succeeds(a) ==
    /\ ask[a].at = "wait"
    /\ failures' = 0
    /\ sinceOpen' = [b \in Askers |-> 0]
    /\ ask' = [ask EXCEPT ![a] = NoAsk]
    /\ UNCHANGED <<lastFailure, clock, sends>>

(* The caller's context ends between attempts.                              *)
Cancelled(a) ==
    /\ ask[a].at = "send" /\ ask[a].try > 0
    /\ ask' = [ask EXCEPT ![a] = AfterFailure(a)]
    /\ UNCHANGED <<failures, lastFailure, clock, sends, sinceOpen>>

callProvider(a) ==
    isOpen(a) \/ Send(a) \/ Fails(a) \/ recordFailure(a) \/ BadShape(a) \/ Succeeds(a) \/ Cancelled(a)

RecoveryPasses ==
    /\ clock < MaxClock /\ clock' = clock + 1
    /\ sinceOpen' = [b \in Askers |-> 0]
    /\ UNCHANGED <<failures, lastFailure, ask, sends>>

AiNext ==
    \/ \E a \in Askers : Ask(a) \/ callProvider(a)
    \/ RecoveryPasses

AiSpec == AiInit /\ [][AiNext]_aiVars

----------------------------------------------------------------------------
(* The breaker keeps failing providers from being asked: while it is open,  *)
(* and until a reply or the recovery time closes it, only the calls already *)
(* admitted send what is left of their attempts, and the one whose failure  *)
(* opened it has fewer left: although isOpen and recordFailure each take    *)
(* two steps and the attempt loop never looks.                              *)
BreakerHolds ==
    /\ \A a \in Askers : sinceOpen[a] <= Attempts
    /\ Askers # {} => \E a \in Askers : sinceOpen[a] < Attempts
=============================================================================
