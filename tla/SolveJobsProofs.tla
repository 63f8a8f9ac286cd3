-------------------------- MODULE SolveJobsProofs --------------------------
(***************************************************************************)
(* What SolveJobs guarantees for any number of clients, problems, keys,    *)
(* jobs, workers, chunks and rounds.                                       *)
(***************************************************************************)
EXTENDS SolveJobs, SequenceTheorems, TLAPS

(* A client inside a call holds a job that was created; handles and pool   *)
(* entries name created jobs too.                                          *)
Held ==
    /\ \A c \in Clients : pc[c] # "idle" => target[c] \in Created
    /\ handed \subseteq Created
    /\ \A j \in Jobs : run[j] # "unsubmitted" => j \in Created

(* A job is submitted once, by the client that created it.                 *)
Submitting ==
    /\ \A c \in Clients : pc[c] = "submit" => run[target[c]] = "unsubmitted"
    /\ \A c, d \in Clients :
          pc[c] = "submit" /\ pc[d] = "submit" /\ target[c] = target[d] =>
             c = d

(* A job waits in the pool's queue once, and nowhere else.                 *)
Queued ==
    /\ \A i \in 1..Len(pool) : run[pool[i]] = "pooled"
    /\ \A i, k \in 1..Len(pool) : pool[i] = pool[k] => i = k

(* The index and the jobs agree.                                           *)
Indexed ==
    /\ \A pk \in Problems \X Keys :
          byKey[pk] # NoJob => req[byKey[pk]] = pk
    /\ \A j \in Created : req[j][2] # NoKey => byKey[req[j]] = j

(* The incumbent is within stock.                                          *)
Sound(j) == incumbent[j] # NoPlan /\ ~incumbent[j].over

(* What each stage of _run knows of its job.                               *)
Staged ==
    \A j \in Jobs :
       /\ run[j] = "search" => done[j] < budget[j]
       /\ run[j] \in {"unsubmitted", "pooled"} => incumbent[j] = NoPlan
       /\ run[j] = "withdraw" => incumbent[j] # NoPlan /\ incumbent[j].over
       /\ run[j] = "finish" /\ ~cancelled[j] => Sound(j)
       /\ status[j] = "DONE" => run[j] = "ended" /\ Sound(j)

(* A cancel that waited is behind the end of _run.                         *)
Waited ==
    /\ \A c \in Clients : pc[c] = "cancelWaited" => run[target[c]] = "ended"
    /\ \A j \in Jobs : returned[j] = "waited" =>
          run[j] = "ended" /\ status[j] \in {"DONE", "CANCELLED"}

Inv ==
    /\ TypeOK
    /\ Held
    /\ Submitting
    /\ Queued
    /\ Indexed
    /\ Staged
    /\ Waited

-----------------------------------------------------------------------------
(* The service starts with nothing registered and no thread inside a call. *)
LEMMA InvInit == Init => Inv
  BY JobsAssumption, NoPlanAssumption
  DEF Init, Inv, Held, Submitting, Queued, Indexed, Staged, Waited, Created,
      TypeOK, Statuses, Requests, RunStates, ClientStates, CancelReturns, Plan

(* The oldest entry of the pool's queue is a job that was submitted and    *)
(* has not started, and the rest of the queue does not hold it.            *)
LEMMA HeadOfPool ==
    ASSUME Inv, pool # <<>>
    PROVE  /\ Head(pool) \in Jobs
           /\ run[Head(pool)] = "pooled"
           /\ Tail(pool) \in Seq(Jobs)
           /\ Len(Tail(pool)) = Len(pool) - 1
           /\ \A i \in 1..Len(Tail(pool)) : Tail(pool)[i] = pool[i + 1]
           /\ \A i \in 1..Len(Tail(pool)) : Tail(pool)[i] # Head(pool)
<1>1. pool \in Seq(Jobs) /\ Len(pool) \in Nat
  BY DEF Inv, TypeOK
<1>2. /\ Head(pool) \in Jobs
      /\ Tail(pool) \in Seq(Jobs)
      /\ Len(Tail(pool)) = Len(pool) - 1
      /\ \A i \in 1..Len(Tail(pool)) : Tail(pool)[i] = pool[i + 1]
  BY <1>1, HeadTailProperties
<1>3. 1 \in 1..Len(pool) /\ Head(pool) = pool[1]
  BY <1>1
<1>4. run[Head(pool)] = "pooled"
  BY <1>3 DEF Inv, Queued
<1>5. ASSUME NEW i \in 1..Len(Tail(pool))
      PROVE  Tail(pool)[i] # Head(pool)
  BY <1>1, <1>2, <1>3 DEF Inv, Queued
<1>. QED  BY <1>2, <1>4, <1>5

(* Every step keeps the types.  Held makes target[c] a job inside a call;  *)
(* Staged bounds the chunk counter.                                        *)
LEMMA TypeStep ==
    ASSUME Inv, [Next]_vars
    PROVE  TypeOK'
<1>. USE JobsAssumption, NoPlanAssumption
       DEF Inv, Held, Staged, Created, registryVars, workerVars, clientVars,
           TypeOK, Statuses, Requests, RunStates, ClientStates, CancelReturns,
           Plan
<1>1. ASSUME NEW p \in Problems, Register(p)
       PROVE  TypeOK'
  BY <1>1 DEF Register
<1>2. ASSUME NEW c \in Clients, NEW p \in Problems, NEW k \in Keys,
              SolveJoin(c, p, k)
       PROVE  TypeOK'
  BY <1>2 DEF SolveJoin
<1>3. ASSUME NEW c \in Clients, NEW p \in Problems,
              NEW k \in Keys \cup {NoKey},
              NEW j \in Jobs, NEW n \in 0..MaxChunks,
              SolveCreate(c, p, k, j, n)
       PROVE  TypeOK'
  BY <1>3 DEF SolveCreate, Index, Created
<1>4. ASSUME NEW c \in Clients, NEW j \in Jobs, CancelSet(c, j)
       PROVE  TypeOK'
  BY <1>4 DEF CancelSet
<1>5. ASSUME NEW c \in Clients, NEW j \in Jobs, WaitBegin(c, j)
       PROVE  TypeOK'
  BY <1>5 DEF WaitBegin
<1>6. ASSUME NEW c \in Clients, SolveSubmit(c)
       PROVE  TypeOK'
  <2>1. Append(pool, target[c]) \in Seq(Jobs)
    BY <1>6, AppendProperties DEF SolveSubmit
  <2>. QED  BY <1>6, <2>1 DEF SolveSubmit
<1>7. ASSUME NEW c \in Clients, SolveAssign(c)
       PROVE  TypeOK'
  BY <1>7 DEF SolveAssign
<1>8. ASSUME NEW c \in Clients, ReadFuture(c)
       PROVE  TypeOK'
  BY <1>8 DEF ReadFuture
<1>9. ASSUME NEW c \in Clients, ResultReady(c)
       PROVE  TypeOK'
  BY <1>9 DEF ResultReady, Resolved
<1>10. ASSUME NEW c \in Clients, ResultTimeout(c)
       PROVE  TypeOK'
  BY <1>10 DEF ResultTimeout, Resolved, Return
<1>11. ASSUME NEW c \in Clients, CancelFinish(c)
       PROVE  TypeOK'
  BY <1>11 DEF CancelFinish, Return, StatusOnCancel
<1>12. ASSUME NEW c \in Clients, WaitFinish(c)
       PROVE  TypeOK'
  BY <1>12 DEF WaitFinish, Return
<1>13. ASSUME NEW j \in Jobs, RunStart(j)
       PROVE  TypeOK'
  BY <1>13, HeadOfPool DEF RunStart
<1>14. ASSUME NEW j \in Jobs, RunCompile(j)
       PROVE  TypeOK'
  BY <1>14 DEF RunCompile, Goto
<1>15. ASSUME NEW j \in Jobs, RunTest(j)
       PROVE  TypeOK'
  BY <1>15 DEF RunTest, Goto
<1>16. ASSUME NEW j \in Jobs, RunChunk(j)
       PROVE  TypeOK'
  BY <1>16 DEF RunChunk, Goto, WarmStarted
<1>17. ASSUME NEW j \in Jobs, RunInventory(j)
       PROVE  TypeOK'
  BY <1>17 DEF RunInventory, Goto
<1>18. ASSUME NEW j \in Jobs, RunWithdraw(j)
       PROVE  TypeOK'
  <2>1. round' \in [Jobs -> 0..MaxRounds]
    BY <1>18 DEF RunWithdraw, RoundsLeft
  <2>. QED  BY <1>18, <2>1 DEF RunWithdraw
<1>19. ASSUME NEW j \in Jobs, RunWithdrawn(j)
       PROVE  TypeOK'
  <2>1. incumbent' \in [Jobs -> Plan \cup {NoPlan}]
    BY <1>19 DEF RunWithdrawn, WithdrawnPlans
  <2>2. run' \in [Jobs -> RunStates]
    BY <1>19 DEF RunWithdrawn, Goto
  <2>. QED  BY <1>19, <2>1, <2>2 DEF RunWithdrawn
<1>20. ASSUME NEW j \in Jobs, RunFinish(j)
       PROVE  TypeOK'
  <2>1. status' \in [Jobs -> Statuses]
    BY <1>20 DEF RunFinish, StatusAtEnd
  <2>. QED  BY <1>20, <2>1 DEF RunFinish, Goto
<1>21. ASSUME NEW j \in Jobs, RunFail(j)
       PROVE  TypeOK'
  BY <1>21 DEF RunFail
<1>22. CASE UNCHANGED vars
  BY <1>22 DEF vars
<1>. QED
  BY <1>1, <1>2, <1>3, <1>4, <1>5, <1>6, <1>7, <1>8, <1>9, <1>10, <1>11, <1>12,
     <1>13, <1>14, <1>15, <1>16, <1>17, <1>18, <1>19, <1>20, <1>21, <1>22
  DEF Next, ClientCall, ClientStep, RunStep

(* Every step keeps Held.                                                  *)
LEMMA HeldStep ==
    ASSUME Inv, [Next]_vars
    PROVE  Held'
<1>. USE JobsAssumption, NoPlanAssumption
       DEF Inv, Held, Submitting, Created, registryVars, workerVars,
           clientVars, TypeOK, Statuses, Requests, RunStates, ClientStates,
           CancelReturns, Plan
<1>1. ASSUME NEW p \in Problems, Register(p)
       PROVE  Held'
  BY <1>1 DEF Register
<1>2. ASSUME NEW c \in Clients, NEW p \in Problems, NEW k \in Keys,
              SolveJoin(c, p, k)
       PROVE  Held'
  <2>1. byKey[<<p, k>>] \in Created
    BY <1>2 DEF SolveJoin, Indexed
  <2>. QED  BY <1>2, <2>1 DEF SolveJoin
<1>3. ASSUME NEW c \in Clients, NEW p \in Problems,
              NEW k \in Keys \cup {NoKey},
              NEW j \in Jobs, NEW n \in 0..MaxChunks,
              SolveCreate(c, p, k, j, n)
       PROVE  Held'
  BY <1>3 DEF SolveCreate, Index, Created
<1>4. ASSUME NEW c \in Clients, NEW j \in Jobs, CancelSet(c, j)
       PROVE  Held'
  BY <1>4 DEF CancelSet
<1>5. ASSUME NEW c \in Clients, NEW j \in Jobs, WaitBegin(c, j)
       PROVE  Held'
  BY <1>5 DEF WaitBegin
<1>6. ASSUME NEW c \in Clients, SolveSubmit(c)
       PROVE  Held'
  BY <1>6 DEF SolveSubmit
<1>7. ASSUME NEW c \in Clients, SolveAssign(c)
       PROVE  Held'
  BY <1>7 DEF SolveAssign
<1>8. ASSUME NEW c \in Clients, ReadFuture(c)
       PROVE  Held'
  BY <1>8 DEF ReadFuture
<1>9. ASSUME NEW c \in Clients, ResultReady(c)
       PROVE  Held'
  BY <1>9 DEF ResultReady, Resolved
<1>10. ASSUME NEW c \in Clients, ResultTimeout(c)
       PROVE  Held'
  BY <1>10 DEF ResultTimeout, Resolved, Return
<1>11. ASSUME NEW c \in Clients, CancelFinish(c)
       PROVE  Held'
  BY <1>11 DEF CancelFinish, Return, StatusOnCancel
<1>12. ASSUME NEW c \in Clients, WaitFinish(c)
       PROVE  Held'
  BY <1>12 DEF WaitFinish, Return
<1>13. ASSUME NEW j \in Jobs, RunStart(j)
       PROVE  Held'
  <2>1. /\ j \in Created
        /\ run' = [run EXCEPT ![j] = "compile"]
        /\ UNCHANGED <<pc, target, handed, req>>
    BY <1>13, HeadOfPool DEF RunStart
  <2>. QED  BY <2>1
<1>14. ASSUME NEW j \in Jobs, RunCompile(j)
       PROVE  Held'
  BY <1>14 DEF RunCompile, Goto
<1>15. ASSUME NEW j \in Jobs, RunTest(j)
       PROVE  Held'
  BY <1>15 DEF RunTest, Goto
<1>16. ASSUME NEW j \in Jobs, RunChunk(j)
       PROVE  Held'
  BY <1>16 DEF RunChunk, Goto, WarmStarted
<1>17. ASSUME NEW j \in Jobs, RunInventory(j)
       PROVE  Held'
  BY <1>17 DEF RunInventory, Goto
<1>18. ASSUME NEW j \in Jobs, RunWithdraw(j)
       PROVE  Held'
  BY <1>18 DEF RunWithdraw, RoundsLeft
<1>19. ASSUME NEW j \in Jobs, RunWithdrawn(j)
       PROVE  Held'
  BY <1>19 DEF RunWithdrawn, Goto, WithdrawnPlans
<1>20. ASSUME NEW j \in Jobs, RunFinish(j)
       PROVE  Held'
  BY <1>20 DEF RunFinish, Goto, StatusAtEnd
<1>21. ASSUME NEW j \in Jobs, RunFail(j)
       PROVE  Held'
  BY <1>21 DEF RunFail
<1>22. CASE UNCHANGED vars
  BY <1>22 DEF vars
<1>. QED
  BY <1>1, <1>2, <1>3, <1>4, <1>5, <1>6, <1>7, <1>8, <1>9, <1>10, <1>11, <1>12,
     <1>13, <1>14, <1>15, <1>16, <1>17, <1>18, <1>19, <1>20, <1>21, <1>22
  DEF Next, ClientCall, ClientStep, RunStep

(* Every step keeps Submitting: a new job has no other client and no run,  *)
(* and a worker only moves jobs that have left the submitter's hands.      *)
LEMMA SubmittingStep ==
    ASSUME Inv, [Next]_vars
    PROVE  Submitting'
<1>. USE JobsAssumption, NoPlanAssumption
       DEF Inv, Held, Submitting, Created, registryVars, workerVars,
           clientVars, TypeOK, Statuses, Requests, RunStates, ClientStates,
           CancelReturns, Plan
<1>1. ASSUME NEW c \in Clients, NEW p \in Problems,
              NEW k \in Keys \cup {NoKey},
              NEW j \in Jobs, NEW n \in 0..MaxChunks,
              SolveCreate(c, p, k, j, n)
       PROVE  Submitting'
  BY <1>1 DEF SolveCreate, Index, Created
<1>2. ASSUME NEW c \in Clients, NEW j \in Jobs, CancelSet(c, j)
       PROVE  Submitting'
  BY <1>2 DEF CancelSet
<1>3. ASSUME NEW c \in Clients, NEW j \in Jobs, WaitBegin(c, j)
       PROVE  Submitting'
  BY <1>3 DEF WaitBegin
<1>4. ASSUME NEW c \in Clients, SolveSubmit(c)
       PROVE  Submitting'
  BY <1>4 DEF SolveSubmit
<1>5. ASSUME NEW c \in Clients, SolveAssign(c)
       PROVE  Submitting'
  BY <1>5 DEF SolveAssign
<1>6. ASSUME NEW c \in Clients, ReadFuture(c)
       PROVE  Submitting'
  <2>1. PICK x \in ClientStates \ {"submit"} : pc' = [pc EXCEPT ![c] = x]
    BY <1>6 DEF ReadFuture
  <2>2. UNCHANGED <<run, target>>
    BY <1>6 DEF ReadFuture
  <2>. QED  BY <2>1, <2>2
<1>7. ASSUME NEW c \in Clients, ResultReady(c)
       PROVE  Submitting'
  <2>1. PICK x \in ClientStates \ {"submit"} : pc' = [pc EXCEPT ![c] = x]
    BY <1>7 DEF ResultReady
  <2>2. UNCHANGED <<run, target>>
    BY <1>7 DEF ResultReady
  <2>. QED  BY <2>1, <2>2
<1>8. ASSUME NEW c \in Clients, ResultTimeout(c)
       PROVE  Submitting'
  BY <1>8 DEF ResultTimeout, Resolved, Return
<1>9. ASSUME NEW c \in Clients, CancelFinish(c)
       PROVE  Submitting'
  BY <1>9 DEF CancelFinish, Return, StatusOnCancel
<1>10. ASSUME NEW c \in Clients, WaitFinish(c)
       PROVE  Submitting'
  BY <1>10 DEF WaitFinish, Return
<1>11. ASSUME NEW j \in Jobs, RunStart(j)
       PROVE  Submitting'
  <2>1. /\ run[j] = "pooled"
        /\ run' = [run EXCEPT ![j] = "compile"]
        /\ UNCHANGED <<pc, target>>
    BY <1>11, HeadOfPool DEF RunStart
  <2>. QED  BY <2>1
<1>12. ASSUME NEW j \in Jobs, RunCompile(j)
       PROVE  Submitting'
  BY <1>12 DEF RunCompile, Goto
<1>13. ASSUME NEW j \in Jobs, RunTest(j)
       PROVE  Submitting'
  BY <1>13 DEF RunTest, Goto
<1>14. ASSUME NEW j \in Jobs, RunChunk(j)
       PROVE  Submitting'
  BY <1>14 DEF RunChunk, Goto, WarmStarted
<1>15. ASSUME NEW j \in Jobs, RunInventory(j)
       PROVE  Submitting'
  BY <1>15 DEF RunInventory, Goto
<1>16. ASSUME NEW j \in Jobs, RunWithdrawn(j)
       PROVE  Submitting'
  BY <1>16 DEF RunWithdrawn, Goto, WithdrawnPlans
<1>17. ASSUME NEW j \in Jobs, RunFinish(j)
       PROVE  Submitting'
  BY <1>17 DEF RunFinish, Goto, StatusAtEnd
<1>18. ASSUME NEW j \in Jobs, RunFail(j)
       PROVE  Submitting'
  BY <1>18 DEF RunFail
<1>19. CASE UNCHANGED <<pc, target, run>>
  BY <1>19
<1>. QED
  BY <1>1, <1>2, <1>3, <1>4, <1>5, <1>6, <1>7, <1>8, <1>9, <1>10, <1>11, <1>12,
     <1>13, <1>14, <1>15, <1>16, <1>17, <1>18, <1>19
    DEF Next, ClientCall, ClientStep, RunStep, vars, Register, SolveJoin,
      RunWithdraw

(* Every step keeps Queued: an entry is added for a job that was not       *)
(* submitted before, leaves when its run starts, and a run under way is    *)
(* not in the queue.                                                       *)
LEMMA QueuedStep ==
    ASSUME Inv, [Next]_vars
    PROVE  Queued'
<1>0. /\ pool \in Seq(Jobs) /\ Len(pool) \in Nat
      /\ \A i \in 1..Len(pool) : pool[i] \in Jobs
      /\ run \in [Jobs -> RunStates]
  BY DEF Inv, TypeOK
<1>1. ASSUME NEW c \in Clients, SolveSubmit(c)
      PROVE  Queued'
  <2>1. /\ target[c] \in Jobs
        /\ run[target[c]] = "unsubmitted"
        /\ run' = [run EXCEPT ![target[c]] = "pooled"]
        /\ pool' = Append(pool, target[c])
    BY <1>1 DEF SolveSubmit, Inv, Held, Submitting, Created
  <2>2. /\ Len(pool') = Len(pool) + 1
        /\ pool'[Len(pool) + 1] = target[c]
        /\ \A i \in 1..Len(pool) : pool'[i] = pool[i]
    BY <1>0, <2>1, AppendProperties
  <2>3. \A i \in 1..Len(pool) : pool[i] # target[c]
    BY <2>1 DEF Inv, Queued
  <2>4. \A i \in 1..Len(pool') : run'[pool'[i]] = "pooled"
    BY <1>0, <2>1, <2>2 DEF Inv, Queued
  <2>5. ASSUME NEW i \in 1..Len(pool'), NEW k \in 1..Len(pool'),
               pool'[i] = pool'[k]
        PROVE  i = k
    BY <1>0, <2>2, <2>3, <2>5 DEF Inv, Queued
  <2>. QED  BY <2>4, <2>5 DEF Queued
<1>2. ASSUME NEW j \in Jobs, RunStart(j)
      PROVE  Queued'
  <2>1. /\ j = Head(pool) /\ pool # <<>>
        /\ pool' = Tail(pool)
        /\ run' = [run EXCEPT ![j] = "compile"]
    BY <1>2 DEF RunStart
  <2>2. \A i \in 1..Len(pool') :
           i + 1 \in 1..Len(pool) /\ pool'[i] = pool[i + 1]
    BY <1>0, <2>1, HeadOfPool
  <2>3. \A i \in 1..Len(pool') : pool'[i] \in Jobs /\ pool'[i] # j
    BY <1>0, <2>1, <2>2, HeadOfPool
  <2>4. \A i \in 1..Len(pool') : run'[pool'[i]] = "pooled"
    BY <1>0, <2>1, <2>2, <2>3 DEF Inv, Queued
  <2>5. \A i, k \in 1..Len(pool') : pool'[i] = pool'[k] => i = k
    BY <1>0, <2>2 DEF Inv, Queued
  <2>. QED  BY <2>4, <2>5 DEF Queued
<1>3. ASSUME NEW j \in Jobs, RunStep(j), ~RunStart(j)
      PROVE  Queued'
  <2>1. /\ run[j] # "pooled" /\ pool' = pool
        /\ \A i \in Jobs \ {j} : run'[i] = run[i]
    BY <1>0, <1>3
    DEF RunStep, Goto, RunCompile, RunTest, RunChunk, RunInventory,
        RunWithdraw, RunWithdrawn, RunFinish, RunFail
  <2>. QED  BY <1>0, <2>1 DEF Inv, Queued
<1>4. CASE UNCHANGED <<run, pool>>
  BY <1>4 DEF Inv, Queued
<1>5. ASSUME NEW c \in Clients, ClientCall(c) \/ ClientStep(c)
      PROVE  SolveSubmit(c) \/ UNCHANGED <<run, pool>>
  BY <1>5
  DEF ClientCall, ClientStep, workerVars, SolveJoin, SolveCreate, SolveAssign,
      CancelSet, WaitBegin, ReadFuture, ResultReady, ResultTimeout,
      CancelFinish, WaitFinish
<1>6. CASE (\E p \in Problems : Register(p)) \/ UNCHANGED vars
  BY <1>4, <1>6 DEF Register, vars, workerVars
<1>. QED
  BY <1>1, <1>2, <1>3, <1>4, <1>5, <1>6 DEF Next

(* Only solve()'s locked part writes the index, and it writes both sides.  *)
LEMMA IndexedStep ==
    ASSUME Inv, [Next]_vars
    PROVE  Indexed'
<1>. USE JobsAssumption, NoPlanAssumption
       DEF Inv, Indexed, Created, registryVars, workerVars, clientVars,
           TypeOK, Statuses, Requests, RunStates, ClientStates, CancelReturns,
           Plan
<1>1. ASSUME NEW c \in Clients, NEW p \in Problems,
              NEW k \in Keys \cup {NoKey},
              NEW j \in Jobs, NEW n \in 0..MaxChunks,
              SolveCreate(c, p, k, j, n)
       PROVE  Indexed'
  <2>1. /\ req[j] = NoJob /\ <<p, k>> # NoJob
        /\ req' = [req EXCEPT ![j] = <<p, k>>]
        /\ k # NoKey => byKey[<<p, k>>] = NoJob
        /\ byKey' = Index(p, k, j)
    BY <1>1 DEF SolveCreate
  <2>2. \A pk \in Problems \X Keys : byKey[pk] # j
    <3>1. SUFFICES ASSUME NEW pk \in Problems \X Keys, byKey[pk] = j
                   PROVE  FALSE
      OBVIOUS
    <3>2. req[j] = pk
      BY <3>1
    <3>3. pk # NoJob
      OBVIOUS
    <3>. QED  BY <2>1, <3>2, <3>3
  <2>3. CASE k = NoKey
    BY <2>1, <2>2, <2>3 DEF Index
  <2>4. CASE k # NoKey
    <3>1. <<p, k>> \in Problems \X Keys
          /\ byKey' = [byKey EXCEPT ![<<p, k>>] = j]
      BY <2>1, <2>4 DEF Index
    <3>2. \A pk \in Problems \X Keys :
             byKey'[pk] # NoJob => req'[byKey'[pk]] = pk
      BY <2>1, <2>2, <3>1
    <3>3. \A i \in Jobs : req'[i] # NoJob /\ req'[i][2] # NoKey =>
             byKey'[req'[i]] = i
      <4>1. TAKE i \in Jobs
      <4>2. CASE i = j
        BY <2>1, <3>1, <4>2
      <4>3. CASE i # j
        <5>1. HAVE req'[i] # NoJob /\ req'[i][2] # NoKey
        <5>2. req'[i] = req[i] /\ req[i] \in Problems \X Keys
          BY <2>1, <4>3, <5>1
        <5>3. byKey[req[i]] = i
          BY <5>1, <5>2
        <5>4. req[i] # <<p, k>>
          <6>1. byKey[<<p, k>>] = NoJob /\ i # NoJob
            BY <2>1, <2>4
          <6>. QED  BY ONLY <5>3, <6>1
        <5>5. byKey'[req[i]] = byKey[req[i]]
          BY <3>1, <5>2, <5>4
        <5>. QED  BY <5>2, <5>3, <5>5
      <4>. QED  BY <4>2, <4>3
    <3>. QED  BY <3>2, <3>3
  <2>. QED  BY <2>3, <2>4
<1>2. CASE UNCHANGED <<byKey, req>>
  BY <1>2
<1>. QED
  BY <1>1, <1>2
    DEF Next, ClientCall, ClientStep, RunStep, vars, Register, SolveJoin,
      CancelSet, WaitBegin, SolveSubmit, SolveAssign, ReadFuture, ResultReady,
      ResultTimeout, CancelFinish, WaitFinish, RunStart, RunCompile, RunTest,
      RunChunk, RunInventory, RunWithdraw, RunWithdrawn, RunFinish, RunFail,
      Goto, Return

(* Every step keeps Staged.                                                *)
LEMMA StagedStep ==
    ASSUME Inv, [Next]_vars
    PROVE  Staged'
<1>. USE JobsAssumption, NoPlanAssumption
       DEF Inv, Held, Submitting, Staged, Sound, Created, registryVars,
           workerVars, clientVars, TypeOK, Statuses, Requests, RunStates,
           ClientStates, CancelReturns, Plan
<1>1. ASSUME NEW p \in Problems, Register(p)
       PROVE  Staged'
  BY <1>1 DEF Register
<1>2. ASSUME NEW c \in Clients, NEW p \in Problems, NEW k \in Keys,
              SolveJoin(c, p, k)
       PROVE  Staged'
  BY <1>2 DEF SolveJoin
<1>3. ASSUME NEW c \in Clients, NEW p \in Problems,
              NEW k \in Keys \cup {NoKey},
              NEW j \in Jobs, NEW n \in 0..MaxChunks,
              SolveCreate(c, p, k, j, n)
       PROVE  Staged'
  BY <1>3 DEF SolveCreate, Index, Created
<1>4. ASSUME NEW c \in Clients, NEW j \in Jobs, CancelSet(c, j)
       PROVE  Staged'
  BY <1>4 DEF CancelSet
<1>5. ASSUME NEW c \in Clients, NEW j \in Jobs, WaitBegin(c, j)
       PROVE  Staged'
  BY <1>5 DEF WaitBegin
<1>6. ASSUME NEW c \in Clients, SolveSubmit(c)
       PROVE  Staged'
  BY <1>6 DEF SolveSubmit
<1>7. ASSUME NEW c \in Clients, SolveAssign(c)
       PROVE  Staged'
  BY <1>7 DEF SolveAssign
<1>8. ASSUME NEW c \in Clients, ReadFuture(c)
       PROVE  Staged'
  BY <1>8 DEF ReadFuture
<1>9. ASSUME NEW c \in Clients, ResultReady(c)
       PROVE  Staged'
  BY <1>9 DEF ResultReady, Resolved
<1>10. ASSUME NEW c \in Clients, ResultTimeout(c)
       PROVE  Staged'
  BY <1>10 DEF ResultTimeout, Resolved, Return
<1>11. ASSUME NEW c \in Clients, CancelFinish(c)
       PROVE  Staged'
  BY <1>11 DEF CancelFinish, Return, StatusOnCancel
<1>12. ASSUME NEW c \in Clients, WaitFinish(c)
       PROVE  Staged'
  BY <1>12 DEF WaitFinish, Return
<1>13. ASSUME NEW j \in Jobs, RunStart(j)
       PROVE  Staged'
  BY <1>13, HeadOfPool DEF RunStart
<1>14. ASSUME NEW j \in Jobs, RunCompile(j)
       PROVE  Staged'
  BY <1>14 DEF RunCompile, Goto
<1>15. ASSUME NEW j \in Jobs, RunTest(j)
       PROVE  Staged'
  BY <1>15 DEF RunTest, Goto
<1>16. ASSUME NEW j \in Jobs, RunChunk(j)
       PROVE  Staged'
  BY <1>16 DEF RunChunk, Goto, WarmStarted
<1>17. ASSUME NEW j \in Jobs, RunInventory(j)
       PROVE  Staged'
  BY <1>17 DEF RunInventory, Goto
<1>18. ASSUME NEW j \in Jobs, RunWithdraw(j)
       PROVE  Staged'
  BY <1>18 DEF RunWithdraw, RoundsLeft
<1>19. ASSUME NEW j \in Jobs, RunWithdrawn(j)
       PROVE  Staged'
  BY <1>19 DEF RunWithdrawn, Goto, WithdrawnPlans
<1>20. ASSUME NEW j \in Jobs, RunFinish(j)
       PROVE  Staged'
  BY <1>20 DEF RunFinish, Goto, StatusAtEnd
<1>21. ASSUME NEW j \in Jobs, RunFail(j)
       PROVE  Staged'
  BY <1>21 DEF RunFail
<1>22. CASE UNCHANGED vars
  BY <1>22 DEF vars
<1>. QED
  BY <1>1, <1>2, <1>3, <1>4, <1>5, <1>6, <1>7, <1>8, <1>9, <1>10, <1>11, <1>12,
     <1>13, <1>14, <1>15, <1>16, <1>17, <1>18, <1>19, <1>20, <1>21, <1>22
  DEF Next, ClientCall, ClientStep, RunStep

(* Every step keeps Waited.                                                *)
LEMMA WaitedStep ==
    ASSUME Inv, [Next]_vars
    PROVE  Waited'
<1>. USE JobsAssumption, NoPlanAssumption
       DEF Inv, Held, Submitting, Waited, Created, registryVars, workerVars,
           clientVars, TypeOK, Statuses, Requests, RunStates, ClientStates,
           CancelReturns, Plan
<1>1. ASSUME NEW p \in Problems, Register(p)
       PROVE  Waited'
  BY <1>1 DEF Register
<1>2. ASSUME NEW c \in Clients, NEW p \in Problems, NEW k \in Keys,
              SolveJoin(c, p, k)
       PROVE  Waited'
  BY <1>2 DEF SolveJoin
<1>3. ASSUME NEW c \in Clients, NEW p \in Problems,
              NEW k \in Keys \cup {NoKey},
              NEW j \in Jobs, NEW n \in 0..MaxChunks,
              SolveCreate(c, p, k, j, n)
       PROVE  Waited'
  BY <1>3 DEF SolveCreate, Index, Created
<1>4. ASSUME NEW c \in Clients, NEW j \in Jobs, CancelSet(c, j)
       PROVE  Waited'
  BY <1>4 DEF CancelSet
<1>5. ASSUME NEW c \in Clients, NEW j \in Jobs, WaitBegin(c, j)
       PROVE  Waited'
  BY <1>5 DEF WaitBegin
<1>6. ASSUME NEW c \in Clients, SolveSubmit(c)
       PROVE  Waited'
  BY <1>6 DEF SolveSubmit
<1>7. ASSUME NEW c \in Clients, SolveAssign(c)
       PROVE  Waited'
  BY <1>7 DEF SolveAssign
<1>8. ASSUME NEW c \in Clients, ReadFuture(c)
       PROVE  Waited'
  BY <1>8 DEF ReadFuture
<1>9. ASSUME NEW c \in Clients, ResultReady(c)
       PROVE  Waited'
  BY <1>9 DEF ResultReady, Resolved
<1>10. ASSUME NEW c \in Clients, ResultTimeout(c)
       PROVE  Waited'
  BY <1>10 DEF ResultTimeout, Resolved, Return
<1>11. ASSUME NEW c \in Clients, CancelFinish(c)
       PROVE  Waited'
  BY <1>11 DEF CancelFinish, Return, StatusOnCancel
<1>12. ASSUME NEW c \in Clients, WaitFinish(c)
       PROVE  Waited'
  BY <1>12 DEF WaitFinish, Return
<1>13. ASSUME NEW j \in Jobs, RunStart(j)
       PROVE  Waited'
  <2>1. /\ run[j] = "pooled" /\ run' = [run EXCEPT ![j] = "compile"]
        /\ status' = [status EXCEPT ![j] = "RUNNING"]
        /\ UNCHANGED <<pc, target, returned>>
    BY <1>13, HeadOfPool DEF RunStart
  <2>. QED  BY <2>1
<1>14. ASSUME NEW j \in Jobs, RunCompile(j)
       PROVE  Waited'
  BY <1>14 DEF RunCompile, Goto
<1>15. ASSUME NEW j \in Jobs, RunTest(j)
       PROVE  Waited'
  BY <1>15 DEF RunTest, Goto
<1>16. ASSUME NEW j \in Jobs, RunChunk(j)
       PROVE  Waited'
  BY <1>16 DEF RunChunk, Goto, WarmStarted
<1>17. ASSUME NEW j \in Jobs, RunInventory(j)
       PROVE  Waited'
  BY <1>17 DEF RunInventory, Goto
<1>18. ASSUME NEW j \in Jobs, RunWithdraw(j)
       PROVE  Waited'
  BY <1>18 DEF RunWithdraw, RoundsLeft
<1>19. ASSUME NEW j \in Jobs, RunWithdrawn(j)
       PROVE  Waited'
  BY <1>19 DEF RunWithdrawn, Goto, WithdrawnPlans
<1>20. ASSUME NEW j \in Jobs, RunFinish(j)
       PROVE  Waited'
  BY <1>20 DEF RunFinish, Goto, StatusAtEnd
<1>21. ASSUME NEW j \in Jobs, RunFail(j)
       PROVE  Waited'
  BY <1>21 DEF RunFail
<1>22. CASE UNCHANGED vars
  BY <1>22 DEF vars
<1>. QED
  BY <1>1, <1>2, <1>3, <1>4, <1>5, <1>6, <1>7, <1>8, <1>9, <1>10, <1>11, <1>12,
     <1>13, <1>14, <1>15, <1>16, <1>17, <1>18, <1>19, <1>20, <1>21, <1>22
  DEF Next, ClientCall, ClientStep, RunStep

-----------------------------------------------------------------------------
(* Every step keeps the inductive invariant.                               *)
LEMMA InvStep == Inv /\ [Next]_vars => Inv'
  BY TypeStep, HeldStep, SubmittingStep, QueuedStep, IndexedStep, StagedStep,
     WaitedStep
  DEF Inv

(* The inductive invariant holds in every reachable state.                 *)
THEOREM InvHolds == Spec => []Inv
  BY InvInit, InvStep, PTL DEF Spec

(* Types are kept by every interleaving of clients and workers.            *)
THEOREM TypeCorrect == Spec => []TypeOK
<1>1. Inv => TypeOK
  BY DEF Inv
<1>. QED  BY <1>1, InvHolds, PTL

(* However many clients retry at once, solve() starts at most one job per  *)
(* problem and idempotency key.                                            *)
THEOREM Idempotent == Spec => []OneJobPerKey
<1>1. Inv => OneJobPerKey
  BY DEF Inv, Indexed, OneJobPerKey
<1>. QED  BY <1>1, InvHolds, PTL

(* A job reported DONE carries a plan that over-draws no depot, wherever a *)
(* cancel interleaves with the end of _run.                                *)
THEOREM DoneWithinStock == Spec => []DonePlanIsWithinStock
<1>1. Inv => DonePlanIsWithinStock
  BY DEF Inv, Staged, Sound, DonePlanIsWithinStock
<1>. QED  BY <1>1, InvHolds, PTL

(* After a cancel that waited for the worker, the job's status and plan    *)
(* never change again.                                                     *)
THEOREM CancelIsFinal == Spec => WaitedCancelIsFinal
<1>1. ASSUME Inv, [Next]_vars, NEW j \in Jobs, returned[j] = "waited"
      PROVE  status'[j] = status[j] /\ incumbent'[j] = incumbent[j]
  <2>1. /\ status \in [Jobs -> Statuses]
        /\ incumbent \in [Jobs -> Plan \cup {NoPlan}]
        /\ run[j] = "ended" /\ status[j] \in {"DONE", "CANCELLED"}
    BY <1>1 DEF Inv, TypeOK, Waited
  <2>2. ASSUME NEW i \in Jobs, RunStep(i)
        PROVE  status'[j] = status[j] /\ incumbent'[j] = incumbent[j]
    <3>1. i # j
      BY <1>1, <2>1, <2>2, HeadOfPool
      DEF RunStep, Goto, RunStart, RunCompile, RunTest, RunChunk,
          RunInventory, RunWithdraw, RunWithdrawn, RunFinish, RunFail
    <3>2. \/ UNCHANGED status
          \/ \E s \in Statuses : status' = [status EXCEPT ![i] = s]
      BY <2>1, <2>2
      DEF RunStep, RunStart, RunCompile, RunTest, RunChunk, RunInventory,
          RunWithdraw, RunWithdrawn, RunFinish, RunFail, StatusAtEnd, Statuses
    <3>3. \/ UNCHANGED incumbent
          \/ \E t \in Plan : incumbent' = [incumbent EXCEPT ![i] = t]
      BY <2>2
      DEF RunStep, RunStart, RunCompile, RunTest, RunChunk, RunInventory,
          RunWithdraw, RunWithdrawn, RunFinish, RunFail, WarmStarted,
          WithdrawnPlans
    <3>. QED  BY <2>1, <3>1, <3>2, <3>3
  <2>3. ASSUME NEW c \in Clients, CancelFinish(c)
        PROVE  status'[j] = status[j] /\ incumbent'[j] = incumbent[j]
    BY <2>1, <2>3 DEF CancelFinish, StatusOnCancel
  <2>4. CASE UNCHANGED <<status, incumbent>>
    BY <2>4
  <2>5. ASSUME NEW c \in Clients, ClientCall(c) \/ ClientStep(c)
        PROVE  CancelFinish(c) \/ UNCHANGED <<status, incumbent>>
    BY <2>5
    DEF ClientCall, ClientStep, SolveJoin, SolveCreate, SolveSubmit,
        SolveAssign, CancelSet, WaitBegin, ReadFuture, ResultReady,
        ResultTimeout, WaitFinish
  <2>6. CASE (\E p \in Problems : Register(p)) \/ UNCHANGED vars
    BY <2>4, <2>6 DEF Register, vars
  <2>. QED
    BY <1>1, <2>2, <2>3, <2>4, <2>5, <2>6 DEF Next
<1>2. Inv /\ [Next]_vars =>
        [\A j \in Jobs : returned[j] = "waited" =>
            status'[j] = status[j] /\ incumbent'[j] = incumbent[j]]_vars
  BY <1>1
<1>. QED  BY <1>2, InvHolds, PTL DEF Spec, WaitedCancelIsFinal

(* The set of finished jobs, as the abstract specification sees it.        *)
Finished == {j \in Jobs : status[j] = "DONE"}

(* Every step of a worker improves, repairs or completes one job's plan,   *)
(* and every other step is invisible to who only looks at plans.           *)
LEMMA AnytimeStep ==
    ASSUME Inv, [Next]_vars
    PROVE  [Anytime!Next]_<<incumbent, Finished>>
<1>0. /\ status \in [Jobs -> Statuses]
      /\ incumbent \in [Jobs -> Plan \cup {NoPlan}]
      /\ run \in [Jobs -> RunStates]
      /\ \A j \in Jobs : status[j] = "DONE" => run[j] = "ended"
  BY DEF Inv, TypeOK, Staged
<1>1. ASSUME NEW j \in Jobs, RunChunk(j)
      PROVE  Anytime!Improve(j)
  <2>1. run[j] = "search" /\ j \notin Finished /\ UNCHANGED Finished
    BY <1>0, <1>1 DEF RunChunk, Goto, Finished
  <2>. QED
    BY <1>0, <1>1, <2>1
    DEF RunChunk, WarmStarted, Plan, Anytime!Improve, Anytime!Plans, Finished
<1>2. ASSUME NEW j \in Jobs, RunWithdrawn(j)
      PROVE  Anytime!Repair(j)
  <2>1. /\ run[j] = "withdraw" /\ j \notin Finished /\ UNCHANGED Finished
        /\ incumbent[j] # NoPlan /\ incumbent[j].over
    BY <1>0, <1>2 DEF RunWithdrawn, Goto, Finished, Inv, Staged
  <2>. QED
    BY <1>0, <1>2, <2>1
    DEF RunWithdrawn, WithdrawnPlans, Plan, Anytime!Repair, Anytime!Plans,
        Finished
<1>3. ASSUME NEW j \in Jobs, RunFinish(j)
      PROVE  Anytime!Complete(j) \/ UNCHANGED <<incumbent, Finished>>
  <2>1. run[j] = "finish" /\ UNCHANGED incumbent
    BY <1>3 DEF RunFinish, Goto
  <2>2. CASE cancelled[j]
    BY <1>0, <1>3, <2>1, <2>2 DEF RunFinish, StatusAtEnd, Finished
  <2>3. CASE ~cancelled[j]
    <3>1. incumbent[j] # NoPlan /\ ~incumbent[j].over
      BY <2>1, <2>3 DEF Inv, Staged, Sound
    <3>2. status' = [status EXCEPT ![j] = "DONE"]
      BY <1>3, <2>3 DEF RunFinish, StatusAtEnd
    <3>3. Finished' = Finished \cup {j}
      BY <1>0, <3>2 DEF Finished
    <3>. QED
      BY <2>1, <3>1, <3>3 DEF Anytime!Complete, Finished
  <2>. QED  BY <2>2, <2>3
<1>4. ASSUME NEW j \in Jobs, RunStart(j) \/ RunFail(j)
      PROVE  UNCHANGED <<incumbent, Finished>>
  <2>1. /\ UNCHANGED incumbent /\ run[j] # "ended"
        /\ \E s \in {"RUNNING", "FAILED"} :
              status' = [status EXCEPT ![j] = s]
    BY <1>4, HeadOfPool DEF RunStart, RunFail
  <2>. QED  BY <1>0, <2>1 DEF Finished
<1>5. ASSUME NEW c \in Clients, CancelFinish(c)
      PROVE  UNCHANGED <<incumbent, Finished>>
  <2>1. target[c] \in Jobs
    BY <1>5 DEF CancelFinish, Inv, Held, Created
  <2>. QED
    BY <1>0, <1>5, <2>1 DEF CancelFinish, StatusOnCancel, Finished
<1>6. CASE UNCHANGED <<status, incumbent>>
  BY <1>6 DEF Finished
<1>7. ASSUME NEW j \in Jobs, RunStep(j)
      PROVE  \/ RunChunk(j) \/ RunWithdrawn(j) \/ RunFinish(j)
             \/ RunStart(j) \/ RunFail(j) \/ UNCHANGED <<status, incumbent>>
  BY <1>7 DEF RunStep, RunCompile, RunTest, RunInventory, RunWithdraw
<1>8. ASSUME NEW c \in Clients, ClientCall(c) \/ ClientStep(c)
      PROVE  CancelFinish(c) \/ UNCHANGED <<status, incumbent>>
  BY <1>8
  DEF ClientCall, ClientStep, SolveJoin, SolveCreate, SolveSubmit,
      SolveAssign, CancelSet, WaitBegin, ReadFuture, ResultReady,
      ResultTimeout, WaitFinish
<1>9. CASE (\E p \in Problems : Register(p)) \/ UNCHANGED vars
  BY <1>6, <1>9 DEF Register, vars
<1>. QED
  BY <1>1, <1>2, <1>3, <1>4, <1>5, <1>6, <1>7, <1>8, <1>9
  DEF Next, Anytime!Next

(* The job layer implements the anytime promise.                           *)
THEOREM ImplementsAnytime == Spec => AnytimeSpec
<1>1. Init => Anytime!Init
  BY DEF Init, Anytime!Init
<1>2. Inv /\ [Next]_vars => [Anytime!Next]_<<incumbent, Finished>>
  BY AnytimeStep
<1>. QED
  BY <1>1, <1>2, InvHolds, PTL DEF Spec, AnytimeSpec, Anytime!Spec, Finished

(* A published plan is never withdrawn, and never replaced by a dearer one *)
(* except to bring an over-drawn plan within stock.                        *)
THEOREM NeverWorse == Spec => IncumbentNeverWorsens
<1>1. ASSUME Inv, [Next]_vars, NEW j \in Jobs, incumbent[j] # NoPlan
      PROVE  /\ incumbent'[j] # NoPlan
             /\ \/ incumbent'[j].cost <= incumbent[j].cost
                \/ incumbent[j].over /\ ~incumbent'[j].over
  <2>1. /\ incumbent \in [Jobs -> Plan \cup {NoPlan}]
        /\ incumbent[j].cost \in Nat
    BY <1>1, JobsAssumption DEF Inv, TypeOK, Plan
  <2>2. ASSUME NEW i \in Jobs, Anytime!Improve(i)
        PROVE  /\ incumbent'[j] # NoPlan
               /\ incumbent'[j].cost <= incumbent[j].cost
    BY <1>1, <2>1, <2>2, NoPlanAssumption
    DEF Anytime!Improve, Anytime!Plans, Plan
  <2>3. ASSUME NEW i \in Jobs, Anytime!Repair(i)
        PROVE  /\ incumbent'[j] # NoPlan
               /\ \/ incumbent'[j].cost <= incumbent[j].cost
                  \/ incumbent[j].over /\ ~incumbent'[j].over
    <3>1. CASE i = j
      BY <2>1, <2>3, <3>1, NoPlanAssumption
      DEF Anytime!Repair, Anytime!Plans, Plan
    <3>2. CASE i # j
      BY <1>1, <2>1, <2>3, <3>2 DEF Anytime!Repair
    <3>. QED  BY <3>1, <3>2
  <2>4. CASE UNCHANGED incumbent
    BY <1>1, <2>1, <2>4
  <2>. QED
    BY <1>1, <2>2, <2>3, <2>4, AnytimeStep DEF Anytime!Next, Anytime!Complete
<1>2. Inv /\ [Next]_vars =>
        [\A j \in Jobs : incumbent[j] # NoPlan =>
            /\ incumbent'[j] # NoPlan
            /\ \/ incumbent'[j].cost <= incumbent[j].cost
               \/ incumbent[j].over /\ ~incumbent'[j].over]_vars
  BY <1>1
<1>. QED  BY <1>2, InvHolds, PTL DEF Spec, IncumbentNeverWorsens

(* DONE is final, whatever cancels follow.                                 *)
THEOREM DoneStays == Spec => DoneIsFinal
<1>1. ASSUME Inv, [Next]_vars, NEW j \in Jobs, status[j] = "DONE"
      PROVE  status'[j] = "DONE"
  <2>1. Finished \subseteq Finished'
    BY <1>1, AnytimeStep
    DEF Anytime!Next, Anytime!Improve, Anytime!Repair, Anytime!Complete,
        Finished
  <2>. QED  BY <1>1, <2>1 DEF Finished
<1>2. Inv /\ [Next]_vars =>
        [\A j \in Jobs : status[j] = "DONE" => status'[j] = "DONE"]_vars
  BY <1>1
<1>. QED  BY <1>2, InvHolds, PTL DEF Spec, DoneIsFinal
=============================================================================
