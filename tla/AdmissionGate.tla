--------------------------- MODULE AdmissionGate ---------------------------
(***************************************************************************)
(* Admission to the solve endpoints, gateway/src/admission.rs, as the      *)
(* handlers of /vrp and /vrp/allocate use it: the counter of waiters, the  *)
(* depth check in front of it, the semaphore with its queue, the queue     *)
(* timeout, and the drop of a handler whose client disconnects.            *)
(*                                                                         *)
(* The gateway runs on several worker threads, so the load of the counter, *)
(* the increment, the first poll of the semaphore and the decrement are    *)
(* separate steps; a task that is between two of them occupies a thread.   *)
(***************************************************************************)
EXTENDS Integers, Sequences, FiniteSets

CONSTANTS
    Slots,         \* request slots; a slot is reused once it is answered
    Concurrency,   \* concurrency.max(1)
    MaxDepth,      \* max_queue_depth, 0 disables the check
    Threads        \* worker threads of the runtime

ASSUME GateAssumption ==
    /\ IsFiniteSet(Slots)
    /\ Concurrency \in Nat \ {0}
    /\ MaxDepth \in Nat
    /\ Threads \in Nat \ {0}

(* "entering": passed the depth check; "polling": counted, about to poll   *)
(* the semaphore; "queued": in its queue; "granted": a released permit was *)
(* assigned to it, it has not run since; "leaving": holds a permit, still  *)
(* counted; "givingUp": timed out, still counted; "solving": in the rest   *)
(* of the handler.                                                         *)
Places == {"idle", "entering", "polling", "queued", "granted", "leaving",
           "givingUp", "solving"}

OnThread == {"entering", "polling", "leaving", "givingUp"}
Counted == {"polling", "queued", "granted", "leaving", "givingUp"}
Holding == {"granted", "leaving", "solving"}

VARIABLES
    place,     \* where each request is
    waiting,   \* the AtomicUsize
    permits,   \* permits of the semaphore that nobody holds
    queue,     \* the semaphore's queue of waiters
    verdict    \* how the last request of each slot was answered

gateVars == <<place, waiting, permits, queue, verdict>>

At(S) == {r \in Slots : place[r] \in S}

(* What each variable ranges over.                                         *)
GateTypeOK ==
    /\ place \in [Slots -> Places]
    /\ waiting \in Nat
    /\ permits \in 0..Concurrency
    /\ queue \in Seq(Slots)
    /\ verdict \in [Slots -> {"none", "admitted", "tooDeep", "timedOut"}]

GateInit ==
    /\ place = [r \in Slots |-> "idle"]
    /\ waiting = 0
    /\ permits = Concurrency
    /\ queue = <<>>
    /\ verdict = [r \in Slots |-> "none"]

-----------------------------------------------------------------------------
(* A task starts running on a worker thread that is free.                  *)
ThreadFree == Cardinality(At(OnThread)) < Threads

MoveTo(r, to) == place' = [place EXCEPT ![r] = to]

(* Mutant: one more waiter than the limit.                                 *)
TooDeepOffByOne == MaxDepth > 0 /\ waiting > MaxDepth

(* The depth check is on and the counter has reached the limit.            *)
TooDeep == MaxDepth > 0 /\ waiting >= MaxDepth

(* enter() loads the counter: past the limit the request is refused.       *)
Refuse(r) ==
    /\ place[r] = "idle"
    /\ ThreadFree
    /\ TooDeep
    /\ verdict' = [verdict EXCEPT ![r] = "tooDeep"]
    /\ UNCHANGED <<place, waiting, permits, queue>>

(* enter() loads the counter and finds room.                               *)
Pass(r) ==
    /\ place[r] = "idle"
    /\ ThreadFree
    /\ ~TooDeep
    /\ MoveTo(r, "entering")
    /\ verdict' = [verdict EXCEPT ![r] = "none"]
    /\ UNCHANGED <<waiting, permits, queue>>

(* fetch_add, and the guard that will undo it.                             *)
Count(r) ==
    /\ place[r] = "entering"
    /\ MoveTo(r, "polling")
    /\ waiting' = waiting + 1
    /\ UNCHANGED <<permits, queue, verdict>>

(* The first poll of acquire_owned: a free permit is taken, otherwise the  *)
(* task joins the queue and yields its thread.                             *)
Poll(r) ==
    /\ place[r] = "polling"
    /\ \/ permits > 0 /\ MoveTo(r, "leaving")
          /\ permits' = permits - 1 /\ UNCHANGED queue
       \/ permits = 0 /\ MoveTo(r, "queued")
          /\ queue' = Append(queue, r) /\ UNCHANGED permits
    /\ UNCHANGED <<waiting, verdict>>

(* Mutant: the task that was assigned a permit is not woken.               *)
GrantedLost(r) == place[r] = "granted" /\ UNCHANGED gateVars

(* The task that was assigned a permit runs again.  timeout() polls the    *)
(* acquisition before the clock, so an expired deadline does not matter.   *)
Granted(r) ==
    /\ place[r] = "granted"
    /\ ThreadFree
    /\ MoveTo(r, "leaving")
    /\ UNCHANGED <<waiting, permits, queue, verdict>>

(* The semaphore's queue without r, which is in it once.                   *)
Without(r) ==
    [i \in 1..(Len(queue) - 1) |->
        IF \E j \in 1..i : queue[j] = r THEN queue[i + 1] ELSE queue[i]]

(* The deadline passes in the queue.                                       *)
TimeOut(r) ==
    /\ place[r] = "queued"
    /\ ThreadFree
    /\ MoveTo(r, "givingUp")
    /\ queue' = Without(r)
    /\ UNCHANGED <<waiting, permits, verdict>>

(* enter() returns and its guard is dropped: into the rest of the handler  *)
(* with a permit, or to the 503 without.                                   *)
Leave(r) ==
    /\ place[r] \in {"leaving", "givingUp"}
    /\ waiting' = waiting - 1
    /\ \/ place[r] = "leaving" /\ MoveTo(r, "solving")
          /\ verdict' = [verdict EXCEPT ![r] = "admitted"]
       \/ place[r] = "givingUp" /\ MoveTo(r, "idle")
          /\ verdict' = [verdict EXCEPT ![r] = "timedOut"]
    /\ UNCHANGED <<permits, queue>>

(* Mutant: a released permit is put back although somebody is queued.      *)
ReleaseUnassigned(p, q) ==
    /\ place' = p
    /\ permits' = permits + 1
    /\ queue' = q

(* Mutant: a dropped permit is forgotten.                                  *)
ReleaseForgotten(p, q) == place' = p /\ UNCHANGED <<permits, queue>>

(* A permit is dropped while the tasks are at p and q is the queue: it is  *)
(* assigned to the head of the queue, or returned when there is none.      *)
Release(p, q) ==
    \/ /\ q = <<>>
       /\ place' = p
       /\ permits' = permits + 1
       /\ queue' = q
    \/ /\ q # <<>>
       /\ place' = [p EXCEPT ![Head(q)] = "granted"]
       /\ queue' = Tail(q)
       /\ UNCHANGED permits

(* The handler ends, one way or the other, and drops its permit.           *)
Finish(r) ==
    /\ place[r] = "solving"
    /\ Release([place EXCEPT ![r] = "idle"], queue)
    /\ UNCHANGED <<waiting, verdict>>

(* Mutant: the count is undone by hand after the await, not by a guard.    *)
UncountLeaks(r) == waiting

(* The guard of a dropped task, if it has one, undoes the count.           *)
Uncount(r) == IF place[r] \in Counted THEN waiting - 1 ELSE waiting

(* The client disconnects and the handler is dropped at its await: out of  *)
(* the queue, or giving back a permit it holds or was assigned.            *)
Drop(r) ==
    /\ place[r] \in {"queued", "granted", "solving"}
    /\ \/ place[r] = "queued" /\ MoveTo(r, "idle") /\ queue' = Without(r)
          /\ UNCHANGED permits
       \/ place[r] \in {"granted", "solving"}
          /\ Release([place EXCEPT ![r] = "idle"], queue)
    /\ waiting' = Uncount(r)
    /\ UNCHANGED verdict

-----------------------------------------------------------------------------
Run(r) == Count(r) \/ Poll(r) \/ Granted(r) \/ Leave(r)

GateNext == \E r \in Slots :
           \/ Refuse(r) \/ Pass(r) \/ Run(r)
           \/ TimeOut(r) \/ Finish(r) \/ Drop(r)

(* A running task goes on, a task that was woken is given a thread, a      *)
(* deadline fires, and a solve ends: its calls all have timeouts.          *)
GateFairness == \A r \in Slots :
    SF_gateVars(Run(r)) /\ SF_gateVars(TimeOut(r)) /\ WF_gateVars(Finish(r))

GateSpec == GateInit /\ [][GateNext]_gateVars /\ GateFairness

-----------------------------------------------------------------------------
(* Properties.                                                             *)

(* The waiter count is exact at every moment, across refusals, time-outs,  *)
(* grants and disconnections: it counts the requests that hold a guard.    *)
WaiterCountExact == waiting = Cardinality(At(Counted))

(* No permit is lost and none is made: free, assigned and held ones are    *)
(* Concurrency together, so no more than Concurrency solves ever run.      *)
PermitsConserved == permits + Cardinality(At(Holding)) = Concurrency

(* Nobody is left queued while a permit is free, and nobody is queued      *)
(* twice or after leaving the queue.                                       *)
QueueIsSound ==
    /\ queue # <<>> => permits = 0
    /\ \A i, j \in DOMAIN queue : queue[i] = queue[j] => i = j
    /\ {queue[i] : i \in DOMAIN queue} = At({"queued"})

(* What the depth check really bounds: the threads that can be between the *)
(* load and the increment at once each add one waiter to the limit.        *)
DepthOvershoot == MaxDepth > 0 => waiting <= MaxDepth + Threads - 1

(* Every request that gets in line is let in, times out or disconnects.    *)
EveryWaiterIsAnswered ==
    \A r \in Slots :
       (place[r] \in Counted \cup {"entering"})
          ~> (place[r] \in {"idle", "solving"})
=============================================================================
