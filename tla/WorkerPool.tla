----------------------------- MODULE WorkerPool -----------------------------
(***************************************************************************)
(* The process and its asynchronous worker pool (internal/worker/pool.go    *)
(* and the shutdown sequence of cmd/server/main.go).  Requests hand jobs to *)
(* SubmitOrRun: a job goes on the bounded queue, or, when that is full,     *)
(* runs in a goroutine of its own that nobody waits for.  On a signal the   *)
(* server stops taking requests, closes the queue and waits, each for a     *)
(* limited time; then the process ends and what it held in memory is gone.  *)
(***************************************************************************)
EXTENDS Integers, Sequences, FiniteSets

CONSTANTS
    Jobs,         \* jobs handed to the pool (bounds the requests)
    Workers,      \* worker goroutines
    QueueSize,    \* capacity of the jobs channel
    MaxRestarts   \* bound: how often the process ends and is started again

ASSUME PoolAssumption ==
    /\ IsFiniteSet(Jobs)
    /\ Workers \in Nat \ {0} /\ QueueSize \in Nat \ {0} /\ MaxRestarts \in Nat

VARIABLES
    at,         \* where each job is
    queue,      \* the jobs channel
    exited,     \* workers that have left their loop
    server,     \* how far main has got
    counted,    \* submitted, completed, failed, dropped
    uncounted,  \* jobs sent whose submitter has not incremented submitted yet
    restarts

pool == <<at, queue, exited, server, counted, uncounted, restarts>>

Places == {"new", "asked", "queued", "running", "detached", "ended", "panicked", "lost"}
ServerStates == {"up", "stopping", "draining", "drained", "timed_out"}
Zero == [submitted |-> 0, completed |-> 0, failed |-> 0, dropped |-> 0]

Queued == {j \in Jobs : at[j] = "queued"}
Running == {j \in Jobs : at[j] = "running"}
InMemory == {j \in Jobs : at[j] \in {"asked", "queued", "running", "detached"}}
Closed == server \in {"draining", "drained", "timed_out"}
Runs(j) == at[j] \in {"running", "detached"}

PoolInit ==
    /\ at = [j \in Jobs |-> "new"]
    /\ queue = <<>>
    /\ exited = 0
    /\ server = "up"
    /\ counted = Zero
    /\ uncounted = {}
    /\ restarts = 0

-----------------------------------------------------------------------------
(* A request that will submit job j arrives while the server listens. *)
Arrive(j) ==
    /\ server = "up"
    /\ at[j] = "new"
    /\ at' = [at EXCEPT ![j] = "asked"]
    /\ UNCHANGED <<queue, exited, server, counted, uncounted, restarts>>

(* Submit counts the job once the worker may already have it. *)
Enqueue(j) ==
    /\ at[j] = "asked" /\ ~Closed
    /\ Len(queue) < QueueSize
    /\ at' = [at EXCEPT ![j] = "queued"]
    /\ queue' = Append(queue, j)
    /\ uncounted' = uncounted \cup {j}
    /\ UNCHANGED <<exited, server, counted, restarts>>

CountSubmitted(j) ==
    /\ j \in uncounted
    /\ counted' = [counted EXCEPT !.submitted = @ + 1]
    /\ uncounted' = uncounted \ {j}
    /\ UNCHANGED <<at, queue, exited, server, restarts>>

(* The queue is full: a detached goroutine runs the job. *)
Detach(j) ==
    /\ at[j] = "asked" /\ ~Closed
    /\ Len(queue) >= QueueSize
    /\ at' = [at EXCEPT ![j] = "detached"]
    /\ counted' = [counted EXCEPT !.dropped = @ + 1]
    /\ UNCHANGED <<queue, exited, server, uncounted, restarts>>

(* A send on the closed channel panics; the request is answered 500. *)
SubmitPanics(j) ==
    /\ at[j] = "asked" /\ Closed
    /\ at' = [at EXCEPT ![j] = "panicked"]
    /\ UNCHANGED <<queue, exited, server, counted, uncounted, restarts>>

SubmitOrRun(j) == Enqueue(j) \/ Detach(j) \/ SubmitPanics(j)

-----------------------------------------------------------------------------
IdleWorker == Cardinality(Running) + exited < Workers

Take ==
    /\ queue # <<>> /\ IdleWorker
    /\ at' = [at EXCEPT ![Head(queue)] = "running"]
    /\ queue' = Tail(queue)
    /\ UNCHANGED <<exited, server, counted, uncounted, restarts>>

(* The job returns, with an error or a panic when ~ok. *)
exec(j, ok) ==
    /\ at[j] = "running"
    /\ at' = [at EXCEPT ![j] = "ended"]
    /\ counted' = IF ok THEN [counted EXCEPT !.completed = @ + 1]
                        ELSE [counted EXCEPT !.failed = @ + 1]
    /\ UNCHANGED <<queue, exited, server, uncounted, restarts>>

DetachedEnds(j) ==
    /\ at[j] = "detached"
    /\ at' = [at EXCEPT ![j] = "ended"]
    /\ UNCHANGED <<queue, exited, server, counted, uncounted, restarts>>

Return(j, ok) == exec(j, ok) \/ DetachedEnds(j)

LeaveOnClose ==
    /\ Closed /\ IdleWorker
    /\ exited' = exited + 1
    /\ UNCHANGED <<at, queue, server, counted, uncounted, restarts>>

(* A worker leaves its loop when the channel is closed and empty. *)
LeaveLoop ==
    /\ Closed /\ queue = <<>> /\ IdleWorker
    /\ exited' = exited + 1
    /\ UNCHANGED <<at, queue, server, counted, uncounted, restarts>>

-----------------------------------------------------------------------------
(* main: a signal; the listener closed and its requests over or out of      *)
(* time, close(jobs); the drain over or out of time.                        *)
Signal ==
    /\ server = "up"
    /\ server' = "stopping"
    /\ UNCHANGED <<at, queue, exited, counted, uncounted, restarts>>

CloseJobs ==
    /\ server = "stopping"
    /\ server' = "draining"
    /\ UNCHANGED <<at, queue, exited, counted, uncounted, restarts>>

Shutdown ==
    /\ server = "draining"
    /\ \/ exited = Workers /\ server' = "drained"
       \/ server' = "timed_out"
    /\ UNCHANGED <<at, queue, exited, counted, uncounted, restarts>>

(* The process ends, by itself or after Shutdown, and is started again.     *)
Restart ==
    /\ restarts < MaxRestarts
    /\ restarts' = restarts + 1
    /\ at' = [j \in Jobs |-> IF j \in InMemory THEN "lost" ELSE at[j]]
    /\ queue' = <<>>
    /\ exited' = 0
    /\ server' = "up"
    /\ counted' = Zero
    /\ uncounted' = {}

PoolStep == Take \/ LeaveLoop \/ (\E j \in Jobs : CountSubmitted(j))
MainStep == Signal \/ CloseJobs \/ Shutdown \/ Restart

PoolNext ==
    \/ \E j \in Jobs : Arrive(j) \/ SubmitOrRun(j) \/ (\E ok \in BOOLEAN : Return(j, ok))
    \/ PoolStep
    \/ MainStep

PoolSpec == PoolInit /\ [][PoolNext]_pool

-----------------------------------------------------------------------------
PoolTypeOK ==
    /\ at \in [Jobs -> Places]
    /\ queue \in Seq(Jobs)
    /\ exited \in 0 .. Workers
    /\ server \in ServerStates
    /\ counted \in [submitted : Nat, completed : Nat, failed : Nat, dropped : Nat]
    /\ uncounted \subseteq Jobs
    /\ restarts \in 0 .. MaxRestarts

(* Shutdown "waits for in-flight + queued jobs to drain": when it reports   *)
(* the pool drained, every job the queue accepted has been run to its end.  *)
DrainRunsAll == server = "drained" => Queued \cup Running = {}

(* The counters Shutdown reports account for every accepted job: the ones   *)
(* completed and failed are the ones submitted, except for those a worker   *)
(* was faster to run than Submit to count.                                  *)
CountersAccount ==
    counted.completed + counted.failed + Cardinality(Queued) + Cardinality(Running)
        = counted.submitted + Cardinality(uncounted)
=============================================================================
