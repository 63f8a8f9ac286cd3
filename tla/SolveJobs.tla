----------------------------- MODULE SolveJobs -----------------------------
(***************************************************************************)
(* The job layer of the VRP library, vrp/jobs.py: SolveService and the     *)
(* thread pool it drives, with the withdrawal loop of vrp/depots.py that a *)
(* job runs at its end.                                                    *)
(*                                                                         *)
(* Client threads call register, solve, cancel and wait.  Each call is     *)
(* split where the code releases a lock or blocks, so the model has the    *)
(* interleavings the threads have.  A worker thread executes _run, one     *)
(* action per stretch of code between two accesses of shared state.        *)
(*                                                                         *)
(* A plan is reduced to what jobs.py distinguishes: its cost, and whether  *)
(* it draws more from a depot than the depot holds.  A budget is counted   *)
(* in chunks of CHUNK_ITERATIONS.  The local variables best and solution   *)
(* of _run always hold the plan last published, so incumbent stands for    *)
(* the three of them.                                                      *)
(***************************************************************************)
EXTENDS Naturals, Sequences, FiniteSets

CONSTANTS
    Clients,     \* threads calling the service
    Problems,    \* problem ids register() can hand out
    Keys,        \* idempotency keys the clients supply
    Jobs,        \* job ids solve() can hand out
    NoKey,       \* idempotency_key=None
    NoJob,       \* a dictionary lookup that found nothing
    NoPlan,      \* incumbent=None
    Workers,     \* max_workers of the pool
    MaxChunks,   \* bound: the largest budget, in chunks
    MaxCost,     \* bound: plan costs are 0..MaxCost
    MaxRounds    \* max_rounds of solve_within_inventory

ASSUME JobsAssumption ==
    /\ NoKey \notin Keys
    /\ NoJob \notin Jobs \cup (Problems \X (Keys \cup {NoKey}))
    /\ Workers \in Nat \ {0}
    /\ MaxChunks \in Nat
    /\ MaxCost \in Nat
    /\ MaxRounds \in Nat

Plan == [cost : 0..MaxCost, over : BOOLEAN]

ASSUME NoPlanAssumption == NoPlan \notin Plan

Statuses == {"QUEUED", "RUNNING", "DONE", "CANCELLED", "FAILED"}

Requests == Problems \X (Keys \cup {NoKey})

(* Where a job's execution of _run stands.  "unsubmitted": pool.submit has *)
(* not been called; "ended": the future is resolved.                       *)
RunStates == {"unsubmitted", "pooled", "compile", "loop", "search",
              "inventory", "withdraw", "finish", "ended"}

ClientStates == {"idle", "submit", "assign",
                 "cancelRead", "cancelBlocked", "cancelBlind", "cancelWaited",
                 "waitRead", "waitBlocked", "waitBlind", "waitWaited"}

(* Whether some cancel() of a job has returned, and if so whether one of   *)
(* them had waited for the job's future or all found it unset.             *)
CancelReturns == {"none", "blind", "waited"}

VARIABLES
    problems,    \* _problems: the ids registered so far
    byKey,       \* _by_key: (problem, key) -> job id
    req,         \* the request that created each job, NoJob before (history)
    budget,      \* job.iterations, in chunks
    status,      \* job.status
    incumbent,   \* job.incumbent
    cancelled,   \* job.cancelled, an Event
    future,      \* job.future is not None
    pool,        \* the executor's FIFO of submitted jobs
    run,         \* the program counter of _run for each job
    done,        \* chunks of search finished
    round,       \* rounds of solve_within_inventory finished
    pc,          \* the program counter of each client
    target,      \* the job each client's call is about
    handed,      \* jobs whose handle some caller holds
    returned     \* how cancel() calls have returned, per job (history)

registryVars == <<problems, byKey, req, budget>>
workerVars == <<pool, run, done, round>>
clientVars == <<pc, target>>
vars == <<registryVars, status, incumbent, cancelled, future, workerVars,
          clientVars, handed, returned>>

Created == {j \in Jobs : req[j] # NoJob}

(* What each variable ranges over.                                         *)
TypeOK ==
    /\ problems \subseteq Problems
    /\ byKey \in [Problems \X Keys -> Jobs \cup {NoJob}]
    /\ req \in [Jobs -> Requests \cup {NoJob}]
    /\ budget \in [Jobs -> 0..MaxChunks]
    /\ status \in [Jobs -> Statuses]
    /\ incumbent \in [Jobs -> Plan \cup {NoPlan}]
    /\ cancelled \in [Jobs -> BOOLEAN]
    /\ future \in [Jobs -> BOOLEAN]
    /\ pool \in Seq(Jobs)
    /\ run \in [Jobs -> RunStates]
    /\ done \in [Jobs -> 0..MaxChunks]
    /\ round \in [Jobs -> 0..MaxRounds]
    /\ pc \in [Clients -> ClientStates]
    /\ target \in [Clients -> Jobs \cup {NoJob}]
    /\ handed \subseteq Jobs
    /\ returned \in [Jobs -> CancelReturns]

Init ==
    /\ problems = {}
    /\ byKey = [pk \in Problems \X Keys |-> NoJob]
    /\ req = [j \in Jobs |-> NoJob]
    /\ budget = [j \in Jobs |-> 0]
    /\ status = [j \in Jobs |-> "QUEUED"]
    /\ incumbent = [j \in Jobs |-> NoPlan]
    /\ cancelled = [j \in Jobs |-> FALSE]
    /\ future = [j \in Jobs |-> FALSE]
    /\ pool = <<>>
    /\ run = [j \in Jobs |-> "unsubmitted"]
    /\ done = [j \in Jobs |-> 0]
    /\ round = [j \in Jobs |-> 0]
    /\ pc = [c \in Clients |-> "idle"]
    /\ target = [c \in Clients |-> NoJob]
    /\ handed = {}
    /\ returned = [j \in Jobs |-> "none"]

-----------------------------------------------------------------------------
(* Client calls.                                                           *)

(* register(): a fresh problem id enters the registry, under _lock.        *)
Register(p) ==
    /\ p \notin problems
    /\ problems' = problems \cup {p}
    /\ UNCHANGED <<byKey, req, budget, status, incumbent, cancelled, future,
                   workerVars, clientVars, handed, returned>>

(* solve() when the key was already seen for this problem: the retry joins *)
(* the job that is there.                                                  *)
SolveJoin(c, p, k) ==
    /\ pc[c] = "idle"
    /\ p \in problems
    /\ byKey[<<p, k>>] # NoJob
    /\ handed' = handed \cup {byKey[<<p, k>>]}
    /\ UNCHANGED <<registryVars, status, incumbent, cancelled, future,
                   workerVars, clientVars, returned>>

(* Mutant: the index is never written.                                     *)
IndexForgets(p, k, j) == byKey

(* _by_key after job j was created for problem p with key k.               *)
Index(p, k, j) == IF k = NoKey THEN byKey ELSE [byKey EXCEPT ![<<p, k>>] = j]

(* solve() otherwise, its locked part: the job enters _jobs and, with a    *)
(* key, the index.  The pool has not been told yet.                        *)
SolveCreate(c, p, k, j, n) ==
    /\ pc[c] = "idle"
    /\ p \in problems
    /\ k # NoKey => byKey[<<p, k>>] = NoJob
    /\ j \notin Created
    /\ req' = [req EXCEPT ![j] = <<p, k>>]
    /\ budget' = [budget EXCEPT ![j] = n]
    /\ byKey' = Index(p, k, j)
    /\ pc' = [pc EXCEPT ![c] = "submit"]
    /\ target' = [target EXCEPT ![c] = j]
    /\ UNCHANGED <<problems, status, incumbent, cancelled, future, workerVars,
                   handed, returned>>

(* pool.submit(self._run, job), outside the lock.                          *)
SolveSubmit(c) ==
    /\ pc[c] = "submit"
    /\ pool' = Append(pool, target[c])
    /\ run' = [run EXCEPT ![target[c]] = "pooled"]
    /\ pc' = [pc EXCEPT ![c] = "assign"]
    /\ UNCHANGED <<registryVars, status, incumbent, cancelled, future, done,
                   round, target, handed, returned>>

(* job.future = <the result of submit>, and the handle is returned.        *)
SolveAssign(c) ==
    /\ pc[c] = "assign"
    /\ future' = [future EXCEPT ![target[c]] = TRUE]
    /\ handed' = handed \cup {target[c]}
    /\ pc' = [pc EXCEPT ![c] = "idle"]
    /\ target' = [target EXCEPT ![c] = NoJob]
    /\ UNCHANGED <<registryVars, status, incumbent, cancelled, workerVars,
                   returned>>

(* cancel(): find the job and set its event.                               *)
CancelSet(c, j) ==
    /\ pc[c] = "idle"
    /\ j \in handed
    /\ cancelled' = [cancelled EXCEPT ![j] = TRUE]
    /\ pc' = [pc EXCEPT ![c] = "cancelRead"]
    /\ target' = [target EXCEPT ![c] = j]
    /\ UNCHANGED <<registryVars, status, incumbent, future, workerVars, handed,
                   returned>>

(* wait(): find the job.                                                   *)
WaitBegin(c, j) ==
    /\ pc[c] = "idle"
    /\ j \in handed
    /\ pc' = [pc EXCEPT ![c] = "waitRead"]
    /\ target' = [target EXCEPT ![c] = j]
    /\ UNCHANGED <<registryVars, status, incumbent, cancelled, future,
                   workerVars, handed, returned>>

(* if job.future is not None: the unlocked read both calls make.           *)
ReadFuture(c) ==
    /\ \/ /\ pc[c] = "cancelRead"
          /\ pc' = [pc EXCEPT ![c] = IF future[target[c]]
                                     THEN "cancelBlocked" ELSE "cancelBlind"]
       \/ /\ pc[c] = "waitRead"
          /\ pc' = [pc EXCEPT ![c] = IF future[target[c]]
                                     THEN "waitBlocked" ELSE "waitBlind"]
    /\ UNCHANGED <<registryVars, status, incumbent, cancelled, future,
                   workerVars, target, handed, returned>>

(* Mutant: a running future is taken for a resolved one.                   *)
ResolvedEarly(j) == run[j] \notin {"unsubmitted", "pooled"}

(* The future of job j has its result: _run has returned.                  *)
Resolved(j) == run[j] = "ended"

(* future.result(timeout=...) returns.                                     *)
ResultReady(c) ==
    /\ \/ /\ pc[c] = "cancelBlocked"
          /\ pc' = [pc EXCEPT ![c] = "cancelWaited"]
       \/ /\ pc[c] = "waitBlocked"
          /\ pc' = [pc EXCEPT ![c] = "waitWaited"]
    /\ Resolved(target[c])
    /\ UNCHANGED <<registryVars, status, incumbent, cancelled, future,
                   workerVars, target, handed, returned>>

(* The call comes back.                                                    *)
Return(c) ==
    /\ pc' = [pc EXCEPT ![c] = "idle"]
    /\ target' = [target EXCEPT ![c] = NoJob]

(* future.result(timeout=...) raises TimeoutError, out of cancel or wait.  *)
ResultTimeout(c) ==
    /\ pc[c] \in {"cancelBlocked", "waitBlocked"}
    /\ ~Resolved(target[c])
    /\ Return(c)
    /\ UNCHANGED <<registryVars, status, incumbent, cancelled, future,
                   workerVars, handed, returned>>

(* The status cancel() leaves where it finds s.                            *)
StatusOnCancel(s) == IF s = "DONE" THEN s ELSE "CANCELLED"

(* The last part of cancel(), under job.lock.                              *)
CancelFinish(c) ==
    /\ pc[c] \in {"cancelBlind", "cancelWaited"}
    /\ Return(c)
    /\ returned' = [returned EXCEPT ![target[c]] =
                        IF pc[c] = "cancelWaited" THEN "waited"
                        ELSE IF @ = "none" THEN "blind" ELSE @]
    /\ status' = [status EXCEPT ![target[c]] = StatusOnCancel(@)]
    /\ UNCHANGED <<registryVars, incumbent, cancelled, future, workerVars,
                   handed>>

(* The last part of wait(), under job.lock.                                *)
WaitFinish(c) ==
    /\ pc[c] \in {"waitBlind", "waitWaited"}
    /\ Return(c)
    /\ UNCHANGED <<registryVars, status, incumbent, cancelled, future,
                   workerVars, handed, returned>>

-----------------------------------------------------------------------------
(* The pool and _run.                                                      *)

(* Mutant: a worker whose job ended is not given back to the pool.         *)
BusyForEver == {j \in Jobs : run[j] \notin {"unsubmitted", "pooled"}}

(* The jobs that occupy a worker.                                          *)
Busy == {j \in Jobs : run[j] \notin {"unsubmitted", "pooled", "ended"}}

(* A free worker takes the oldest job; _run writes RUNNING, unlocked.      *)
RunStart(j) ==
    /\ pool # <<>>
    /\ j = Head(pool)
    /\ Cardinality(Busy) < Workers
    /\ pool' = Tail(pool)
    /\ status' = [status EXCEPT ![j] = "RUNNING"]
    /\ run' = [run EXCEPT ![j] = "compile"]
    /\ UNCHANGED <<registryVars, incumbent, cancelled, future, done, round,
                   clientVars, handed, returned>>

Goto(j, from, to) ==
    /\ run[j] = from
    /\ run' = [run EXCEPT ![j] = to]

(* compile_problem succeeded.                                              *)
RunCompile(j) ==
    /\ Goto(j, "compile", "loop")
    /\ UNCHANGED <<registryVars, status, incumbent, cancelled, future, pool,
                   done, round, clientVars, handed, returned>>

(* The loop test: budget left and the event not set.                       *)
RunTest(j) ==
    /\ Goto(j, "loop", IF done[j] < budget[j] /\ ~cancelled[j]
                       THEN "search" ELSE "inventory")
    /\ UNCHANGED <<registryVars, status, incumbent, cancelled, future, pool,
                   done, round, clientVars, handed, returned>>

(* PyVRP's answer to a chunk warm-started from plan s: never a worse plan. *)
WarmStarted(s) == {t \in Plan : s # NoPlan => t.cost <= s.cost}

(* One chunk of search, then the incumbent is published under job.lock.    *)
RunChunk(j) ==
    /\ Goto(j, "search", "loop")
    /\ \E t \in WarmStarted(incumbent[j]) :
          incumbent' = [incumbent EXCEPT ![j] = t]
    /\ done' = [done EXCEPT ![j] = @ + 1]
    /\ UNCHANGED <<registryVars, status, cancelled, future, pool, round,
                   clientVars, handed, returned>>

(* After the loop: the withdrawal loop runs unless the event is set or no  *)
(* depot is over-drawn.  With no chunk run (a budget of zero) the name     *)
(* solution is unbound and the test raises: see RunFail.                   *)
RunInventory(j) ==
    /\ cancelled[j] \/ incumbent[j] # NoPlan
    /\ Goto(j, "inventory", IF ~cancelled[j] /\ incumbent[j].over
                            THEN "withdraw" ELSE "finish")
    /\ UNCHANGED <<registryVars, status, incumbent, cancelled, future, pool,
                   done, round, clientVars, handed, returned>>

(* for _ in range(max_rounds + 1): another round may follow this one.      *)
RoundsLeft(j) == round[j] < MaxRounds

(* A round of solve_within_inventory: a cold solve still over-draws some   *)
(* depot, and the locks that withdraw the excess lead to another round.    *)
RunWithdraw(j) ==
    /\ run[j] = "withdraw"
    /\ RoundsLeft(j)
    /\ round' = [round EXCEPT ![j] = @ + 1]
    /\ UNCHANGED <<registryVars, status, incumbent, cancelled, future, pool,
                   run, done, clientVars, handed, returned>>

(* Mutant: the last round's plan is returned without looking at it.        *)
WithdrawnPlansUnchecked == Plan

(* What solve_within_inventory can return: it raises rather than give back *)
(* a plan that over-draws a depot.                                         *)
WithdrawnPlans == {t \in Plan : ~t.over}

(* The round that over-draws nothing: its plan, of any cost, is published. *)
RunWithdrawn(j) ==
    /\ Goto(j, "withdraw", "finish")
    /\ \E t \in WithdrawnPlans : incumbent' = [incumbent EXCEPT ![j] = t]
    /\ UNCHANGED <<registryVars, status, cancelled, future, pool, done, round,
                   clientVars, handed, returned>>

(* Mutant: the event is not looked at again before DONE is written.        *)
StatusAtEndAlways(j) == "DONE"

(* The status _run leaves when nothing raised.                             *)
StatusAtEnd(j) == IF cancelled[j] THEN status[j] ELSE "DONE"

(* The end of _run, under job.lock: DONE unless the event is set.          *)
RunFinish(j) ==
    /\ Goto(j, "finish", "ended")
    /\ status' = [status EXCEPT ![j] = StatusAtEnd(j)]
    /\ UNCHANGED <<registryVars, incumbent, cancelled, future, pool, done,
                   round, clientVars, handed, returned>>

(* except Exception: compiling, searching or mapping raised, solution was  *)
(* unbound, or the withdrawal loop gave up.                                *)
RunFail(j) ==
    /\ \/ run[j] \in {"compile", "search", "withdraw"}
       \/ run[j] = "inventory" /\ ~cancelled[j] /\ incumbent[j] = NoPlan
    /\ run' = [run EXCEPT ![j] = "ended"]
    /\ status' = [status EXCEPT ![j] = "FAILED"]
    /\ UNCHANGED <<registryVars, incumbent, cancelled, future, pool, done,
                   round, clientVars, handed, returned>>

-----------------------------------------------------------------------------
RunStep(j) ==
    \/ RunStart(j)
    \/ RunCompile(j)
    \/ RunTest(j)
    \/ RunChunk(j)
    \/ RunInventory(j)
    \/ RunWithdraw(j)
    \/ RunWithdrawn(j)
    \/ RunFinish(j)
    \/ RunFail(j)

(* What a client thread does on its own once it is inside a call.          *)
ClientStep(c) ==
    \/ SolveSubmit(c)
    \/ SolveAssign(c)
    \/ ReadFuture(c)
    \/ ResultReady(c)
    \/ ResultTimeout(c)
    \/ CancelFinish(c)
    \/ WaitFinish(c)

ClientCall(c) ==
    \/ \E p \in Problems, k \in Keys : SolveJoin(c, p, k)
    \/ \E p \in Problems, k \in Keys \cup {NoKey}, j \in Jobs,
          n \in 0..MaxChunks : SolveCreate(c, p, k, j, n)
    \/ \E j \in Jobs : CancelSet(c, j) \/ WaitBegin(c, j)

Next ==
    \/ \E p \in Problems : Register(p)
    \/ \E c \in Clients : ClientCall(c) \/ ClientStep(c)
    \/ \E j \in Jobs : RunStep(j)

(* The operating system schedules every thread that can run; nobody has to *)
(* make a call.                                                            *)
Fairness ==
    /\ \A c \in Clients : WF_vars(ClientStep(c))
    /\ \A j \in Jobs : WF_vars(RunStep(j))

Spec == Init /\ [][Next]_vars /\ Fairness

-----------------------------------------------------------------------------
(* Properties.                                                             *)

(* solve() with a key starts at most one job per problem and key, however  *)
(* the retries interleave: two jobs share a request only if it is keyless. *)
OneJobPerKey ==
    \A i, j \in Created : i # j /\ req[i] = req[j] => req[i][2] = NoKey

(* The plan a job finishes with is within every depot's stock: a cancel    *)
(* that slips in anywhere between the over_drawn test and the final lock   *)
(* never lets _run report DONE over a plan that skipped the withdrawal.    *)
DonePlanIsWithinStock ==
    \A j \in Jobs :
       status[j] = "DONE" => incumbent[j] # NoPlan /\ ~incumbent[j].over

(* A published plan is never taken back, and is only ever replaced by one  *)
(* that costs no more, save that an over-drawn one may be replaced by a    *)
(* dearer plan within stock (NFR-03's anytime incumbent).                  *)
IncumbentNeverWorsens ==
    [][\A j \in Jobs : incumbent[j] # NoPlan =>
          /\ incumbent'[j] # NoPlan
          /\ \/ incumbent'[j].cost <= incumbent[j].cost
             \/ incumbent[j].over /\ ~incumbent'[j].over]_vars

(* Once a cancel that waited for the worker has returned, neither the      *)
(* status nor the plan it handed back changes again, whatever retries,     *)
(* waits and further cancels follow.                                       *)
WaitedCancelIsFinal ==
    [][\A j \in Jobs :
          returned[j] = "waited" =>
             status'[j] = status[j] /\ incumbent'[j] = incumbent[j]]_vars

(* DONE is final: a cancel that loses the race leaves it alone.            *)
DoneIsFinal ==
    [][\A j \in Jobs : status[j] = "DONE" => status'[j] = "DONE"]_vars

(* Every job that solve() created is run to its end, also when it was      *)
(* cancelled while pooled and when there are more jobs than workers.       *)
EveryJobEnds ==
    \A j \in Jobs : (req[j] # NoJob) ~> (run[j] = "ended")

(* The job layer implements the anytime promise of AnytimePlan: the plan   *)
(* is the published incumbent, complete is DONE.                           *)
Anytime == INSTANCE AnytimePlan
             WITH plan <- incumbent,
                  complete <- {j \in Jobs : status[j] = "DONE"}

AnytimeSpec == Anytime!Spec

-----------------------------------------------------------------------------
(* What the repository says of this code and the code does not do.         *)

(* After cancel() returned, the job is CANCELLED (or had finished): what   *)
(* the tests of the service assert of a cancelled job.                     *)
CancelReturnedMeansSettled ==
    \A j \in Jobs :
       returned[j] # "none" => status[j] \in {"CANCELLED", "DONE"}
=============================================================================
