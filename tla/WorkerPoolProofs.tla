-------------------------- MODULE WorkerPoolProofs --------------------------
(***************************************************************************)
(* Proofs about WorkerPool, for any number of executions, workers, clients *)
(* and faults.  The inductive invariant IInv adds to the properties what   *)
(* relates a worker's local state to the row it works on.                  *)
(***************************************************************************)
EXTENDS WorkerPool, TLAPS

-----------------------------------------------------------------------------
(* Type correctness.                                                       *)

\* The worker-local steps assign values of the right types.
LEMMA LocalTypes ==
  ASSUME TypeOK, NEW w \in Worker
  PROVE  /\ \A k \in Kinds : Return(w, k) =>
              /\ pc' \in [Worker -> PC]
              /\ held' \in [Worker -> Leases]
              /\ outcome' \in [Worker -> Outcomes]
         /\ \A to \in PC : Goto(w, to) =>
              /\ pc' \in [Worker -> PC]
              /\ held' = held /\ outcome' = outcome /\ refusal' = refusal
         /\ CallSucceeds(w) \/ CallFails(w) \/ Fault => faults' \in Nat
<1>1. held[w].exec \in Execution \cup {NoExecution}
  BY DEF TypeOK, Leases
<1>2. \A k \in Kinds : Reported(k, held[w].exec) \in Outcomes
  BY <1>1 DEF Outcomes, Reported
<1>3. NoLease \in Leases /\ "idle" \in PC
  BY DEF NoLease, Lease, Leases, PC
<1>4. CallSucceeds(w) \/ CallFails(w) \/ Fault => faults' \in Nat
  BY DEF TypeOK, CallSucceeds, CallFails, Fault
<1> QED
  BY <1>1, <1>2, <1>3, <1>4 DEF TypeOK, Return, Goto

\* Every statement keeps the table's columns typed.
LEMMA StoreTypes ==
  ASSUME StoreTypeOK, NEW e \in Execution, NEW a \in Nat, NEW s \in Decided
  PROVE  ClaimRow(e) \/ RetireRow(e) \/ CompleteRow(e, a, s) \/ FailRow(e, a)
           \/ ReattemptRow(e) \/ ExpireLease(e) \/ Enqueue(e)
           \/ UNCHANGED table => StoreTypeOK'
<1>1. /\ {"pending", "running", "failed", s} \subseteq Status
      /\ {"none", s} \subseteq Results
  BY DEF Status, Results, Decided
<1>2. Append(enqueued, e) \in Seq(Execution)
  BY DEF StoreTypeOK
<1>3. CASE ClaimRow(e) \/ RetireRow(e)
  BY <1>1, <1>3 DEF StoreTypeOK, ClaimRow, RetireRow
<1>4. CASE CompleteRow(e, a, s)
  BY <1>1, <1>4 DEF StoreTypeOK, CompleteRow
<1>5. CASE FailRow(e, a)
  BY <1>1, <1>5 DEF StoreTypeOK, FailRow
<1>6. CASE ReattemptRow(e)
  BY <1>1, <1>6 DEF StoreTypeOK, ReattemptRow
<1>7. CASE ExpireLease(e)
  BY <1>7 DEF StoreTypeOK, ExpireLease
<1>8. CASE Enqueue(e) \/ UNCHANGED table
  BY <1>1, <1>2, <1>8 DEF StoreTypeOK, Enqueue, table, row
<1> QED
  BY <1>3, <1>4, <1>5, <1>6, <1>7, <1>8

\* A worker in an attempt holds an execution; retire and the outcome calls
\* address a row that exists.
HoldsWork == \A w \in Worker : InAttempt(w) => held[w].exec \in Execution

TypeInv == TypeOK /\ HoldsWork

\* Every step keeps every variable in its type and every holder its work.
LEMMA TypeStep == TypeInv /\ [Next]_vars => TypeInv'
<1> SUFFICES ASSUME TypeInv, [Next]_vars PROVE TypeInv'
  OBVIOUS
<1> USE WorkerPoolAssumption DEF TypeInv
<1>0. /\ PC = {"idle", "retiring", "claimed", "running", "completing",
                "failing", "refused", "stopped"}
      /\ Kinds = {"none", "answered", "failed", "abandoned"}
      /\ "failed" \in Decided
      /\ Reported("none", NoExecution) \in Outcomes
      /\ NoLease \in Leases
  BY DEF PC, Kinds, Decided, Reported, Outcomes, NoLease, Lease, Leases
<1>1. ASSUME NEW w \in Worker, ClaimWork(w) PROVE TypeInv'
  <2>1. PICK e \in Execution :
          /\ ClaimRow(e)
          /\ pc' = [pc EXCEPT ![w] =
                      IF e \in Trusts[w] THEN "claimed" ELSE "retiring"]
          /\ held' = [held EXCEPT ![w] = Lease(e, attempt[e] + 1)]
    BY <1>1 DEF ClaimWork
  <2>2. Lease(e, attempt[e] + 1) \in Leases /\ Lease(e, attempt[e] + 1).exec = e
    BY DEF TypeOK, StoreTypeOK, Lease, Leases
  <2>3. StoreTypeOK'
    BY <2>1, <1>0, StoreTypes DEF TypeOK
  <2>4. TypeOK'
    BY <1>0, <1>1, <2>1, <2>2, <2>3, LocalTypes DEF TypeOK, ClaimWork, clientVars
  <2>5. HoldsWork'
    BY <2>1, <2>2 DEF TypeOK, HoldsWork, InAttempt
  <2> QED
    BY <2>4, <2>5
<1>2. ASSUME NEW w \in Worker, ClaimLost(w) PROVE TypeInv'
  <2>1. StoreTypeOK'
    BY <1>0, <1>2, StoreTypes DEF TypeOK, ClaimLost
  <2> QED
    BY <1>2, <2>1, LocalTypes
       DEF TypeOK, ClaimLost, clientVars, workerVars, HoldsWork, InAttempt
<1>3. ASSUME NEW w \in Worker, Retire(w) PROVE TypeInv'
  <2>1. held[w].exec \in Execution
    BY <1>3 DEF Retire, HoldsWork, InAttempt
  <2>2. StoreTypeOK'
    BY <1>0, <1>3, <2>1, StoreTypes DEF TypeOK, Retire
  <2>3. TypeOK'
    BY <1>0, <1>3, <2>2, LocalTypes DEF TypeOK, Retire, clientVars
  <2>4. HoldsWork'
    BY <1>3 DEF TypeOK, Retire, HoldsWork, InAttempt
  <2> QED
    BY <2>3, <2>4
<1>4. ASSUME NEW w \in Worker, GetPlan(w) \/ RunSpine(w) \/ Classify(w)
      PROVE TypeInv'
  <2>1. StoreTypeOK'
    BY <1>4 DEF TypeOK, GetPlan, RunSpine, Classify, StoreTypeOK, table, row
  <2>2. refusal' \in [Worker -> {"none", "superseded", "not_queued"}]
    BY <1>4 DEF TypeOK, GetPlan, RunSpine, Classify, Goto, Refusal
  <2>3. TypeOK'
    BY <1>0, <1>4, <2>1, <2>2, LocalTypes
       DEF TypeOK, GetPlan, RunSpine, Classify, clientVars
  <2>4. HoldsWork'
    BY <1>4 DEF TypeOK, GetPlan, RunSpine, Classify, Goto, Return, HoldsWork, InAttempt
  <2> QED
    BY <2>3, <2>4
<1>5. ASSUME NEW w \in Worker, CompleteWork(w) \/ FailWork(w) PROVE TypeInv'
  <2>1. /\ held[w].exec \in Execution
        /\ held[w].attempt \in Nat
        /\ Answer[held[w].exec] \in Decided
    BY <1>5 DEF TypeOK, CompleteWork, FailWork, HoldsWork, InAttempt, Leases
  <2>2. \/ CompleteRow(held[w].exec, held[w].attempt, Answer[held[w].exec])
        \/ FailRow(held[w].exec, held[w].attempt)
        \/ UNCHANGED table
    BY <1>5 DEF CompleteWork, FailWork
  <2>3. StoreTypeOK'
    BY <2>1, <2>2, StoreTypes DEF TypeOK
  <2>4. TypeOK'
    BY <1>0, <1>5, <2>3, LocalTypes DEF TypeOK, CompleteWork, FailWork, clientVars
  <2>5. HoldsWork'
    BY <1>5 DEF TypeOK, CompleteWork, FailWork, Goto, Return, HoldsWork, InAttempt
  <2> QED
    BY <2>4, <2>5
<1>6. ASSUME NEW w \in Worker, Stop(w) \/ Start(w) \/ Cancel(w) \/ Crash(w)
      PROVE TypeInv'
  <2>1. StoreTypeOK'
    BY <1>6 DEF TypeOK, Stop, Start, Cancel, Crash, StoreTypeOK, table, row
  <2>2. TypeOK'
    BY <1>0, <1>6, <2>1, LocalTypes DEF TypeOK, Stop, Start, Cancel, Crash, clientVars
  <2>3. HoldsWork'
    BY <1>6 DEF TypeOK, Stop, Start, Cancel, Crash, Goto, HoldsWork, InAttempt
  <2> QED
    BY <2>2, <2>3
<1>7. ASSUME NEW e \in Execution,
             LeaseLapses(e) \/ LeaseLapsesInAttempt(e) \/ Submit(e)
      PROVE TypeInv'
  <2>1. StoreTypeOK'
    BY <1>0, <1>7, StoreTypes DEF TypeOK, LeaseLapses, LeaseLapsesInAttempt, Submit
  <2>2. faults' \in Nat
    BY <1>7 DEF TypeOK, LeaseLapses, LeaseLapsesInAttempt, Submit, Fault
  <2> QED
    BY <1>7, <2>1, <2>2
       DEF TypeOK, LeaseLapses, LeaseLapsesInAttempt, Submit, HoldsWork,
           InAttempt, workerVars, clientVars
<1>8. ASSUME NEW c \in Client, ReattemptCheck(c) \/ ReattemptWrite(c)
      PROVE TypeInv'
  <2>1. StoreTypeOK'
    <3>1. CASE ReattemptCheck(c)
      BY <3>1 DEF TypeOK, ReattemptCheck, StoreTypeOK, table, row
    <3>2. CASE ReattemptWrite(c)
      BY <1>0, <3>2, StoreTypes DEF TypeOK, ReattemptWrite
    <3> QED
      BY <1>8, <3>1, <3>2
  <2>2. /\ request' \in [Client -> Execution \cup {NoExecution}]
        /\ reattempts' \in Nat
    BY <1>8 DEF TypeOK, ReattemptCheck, ReattemptWrite
  <2> QED
    BY <1>8, <2>1, <2>2
       DEF TypeOK, ReattemptCheck, ReattemptWrite, HoldsWork, InAttempt, workerVars
<1>9. CASE UNCHANGED vars
  BY <1>9 DEF TypeOK, StoreTypeOK, HoldsWork, InAttempt, vars, table, row,
              workerVars, clientVars
<1> QED
  BY <1>1, <1>2, <1>3, <1>4, <1>5, <1>6, <1>7, <1>8, <1>9
     DEF Next, WorkerStep, PollEmpty

\* The empty table and idle workers are typed.
LEMMA TypeInit == Init => TypeInv
<1> SUFFICES ASSUME Init PROVE TypeInv
  OBVIOUS
<1>1. StoreTypeOK
  BY DEF Init, StoreInit, StoreTypeOK, Status, Results
<1>2. /\ pc \in [Worker -> PC]
      /\ held \in [Worker -> Leases]
      /\ outcome \in [Worker -> Outcomes]
  BY DEF Init, PC, NoLease, Lease, Leases, Reported, Kinds, Outcomes
<1>3. HoldsWork
  BY DEF Init, HoldsWork, InAttempt
<1> QED
  BY <1>1, <1>2, <1>3 DEF Init, TypeOK, TypeInv

\* Every variable keeps its type, in any number of steps of any number of
\* workers and callers.
THEOREM TypeCorrect == Spec => []TypeOK
BY TypeInit, TypeStep, PTL DEF Spec, TypeInv

-----------------------------------------------------------------------------
(* Generations.                                                            *)

\* Worker w claims e: it takes the generation after the row's, and no other
\* worker moves.
TakesGeneration(w, e) ==
  /\ held'[w] = Lease(e, attempt[e] + 1)
  /\ attempt'[e] = attempt[e] + 1
  /\ \A v \in Worker \ {w} : pc'[v] = pc[v] /\ held'[v] = held[v]

\* What a step does to generations: the rows' only grow, and a worker is in
\* an attempt after it because it already was, or because it just claimed.
LEMMA GenerationEffect ==
  ASSUME TypeInv, [Next]_vars
  PROVE  /\ \A e \in Execution : attempt'[e] >= attempt[e]
         /\ \A w \in Worker : InAttempt(w)' =>
              \/ InAttempt(w) /\ held'[w] = held[w]
              \/ \E e \in Execution : TakesGeneration(w, e)
<1> USE DEF TypeInv, TypeOK, StoreTypeOK
<1>1. ASSUME UNCHANGED attempt
      PROVE  \A e \in Execution : attempt'[e] >= attempt[e]
  BY <1>1
<1>2. ASSUME NEW w \in Worker, ClaimWork(w)
      PROVE  /\ \A e \in Execution : attempt'[e] >= attempt[e]
             /\ \E e \in Execution : TakesGeneration(w, e)
             /\ \A v \in Worker \ {w} : pc'[v] = pc[v] /\ held'[v] = held[v]
  BY <1>2 DEF ClaimWork, ClaimRow, TakesGeneration
<1>3. ASSUME NEW w \in Worker, ClaimLost(w)
      PROVE  /\ \A e \in Execution : attempt'[e] >= attempt[e]
             /\ UNCHANGED <<pc, held>>
  BY <1>3 DEF ClaimLost, ClaimRow, workerVars
<1>4. ASSUME NEW w \in Worker,
             \/ Retire(w) \/ GetPlan(w) \/ RunSpine(w) \/ CompleteWork(w)
             \/ FailWork(w) \/ Classify(w) \/ Stop(w) \/ Start(w)
             \/ Cancel(w) \/ Crash(w)
      PROVE  /\ UNCHANGED attempt
             /\ \A v \in Worker : InAttempt(v)' => InAttempt(v) /\ held'[v] = held[v]
  <2>1. UNCHANGED attempt
    BY <1>4 DEF Retire, GetPlan, RunSpine, CompleteWork, FailWork, Classify,
                Stop, Start, Cancel, Crash, RetireRow, CompleteRow, FailRow,
                table, row
  <2>2. CASE GetPlan(w) \/ RunSpine(w) \/ CompleteWork(w) \/ FailWork(w) \/ Classify(w)
    BY <2>1, <2>2 DEF GetPlan, RunSpine, CompleteWork, FailWork, Classify, Goto,
                      Return, InAttempt
  <2>3. CASE Retire(w) \/ Stop(w) \/ Start(w) \/ Cancel(w) \/ Crash(w)
    BY <2>1, <2>3 DEF Retire, Stop, Start, Cancel, Crash, Goto, InAttempt
  <2> QED
    BY <1>4, <2>1, <2>2, <2>3
<1>5. ASSUME NEW e \in Execution,
             LeaseLapses(e) \/ LeaseLapsesInAttempt(e) \/ Submit(e)
      PROVE  UNCHANGED <<attempt, pc, held>>
  BY <1>5 DEF LeaseLapses, LeaseLapsesInAttempt, Submit, ExpireLease, Enqueue,
              table, row, workerVars
<1>6. ASSUME NEW c \in Client, ReattemptCheck(c) \/ ReattemptWrite(c)
      PROVE  /\ \A e \in Execution : attempt'[e] >= attempt[e]
             /\ UNCHANGED <<pc, held>>
  BY <1>6 DEF ReattemptCheck, ReattemptWrite, ReattemptRow, table, row, workerVars
<1>7. ASSUME UNCHANGED vars
      PROVE  UNCHANGED <<attempt, pc, held>>
  BY <1>7 DEF vars, table, row, workerVars
<1>8. ASSUME UNCHANGED <<pc, held>>
      PROVE  \A w \in Worker : InAttempt(w)' => InAttempt(w) /\ held'[w] = held[w]
  BY <1>8 DEF InAttempt
<1>9. CASE \E w \in Worker : ClaimWork(w)
  BY <1>2, <1>9 DEF InAttempt
<1>10. CASE Next /\ ~(\E w \in Worker : ClaimWork(w))
  BY <1>1, <1>3, <1>4, <1>5, <1>6, <1>7, <1>8, <1>10
     DEF Next, WorkerStep, PollEmpty
<1> QED
  BY <1>1, <1>7, <1>8, <1>9, <1>10

\* A worker in an attempt holds a generation its row has reached.
HeldWasClaimed ==
  \A w \in Worker : InAttempt(w) => held[w].attempt <= attempt[held[w].exec]

GenerationInv == TypeInv /\ HeldWasClaimed /\ AttemptsAreDistinct

\* A claim takes a generation beyond every one held, so no step makes two
\* workers hold the same one.
LEMMA GenerationStep == GenerationInv /\ [Next]_vars => GenerationInv'
<1> SUFFICES ASSUME GenerationInv, [Next]_vars PROVE GenerationInv'
  OBVIOUS
<1> USE DEF GenerationInv
<1>1. TypeInv'
  BY TypeStep
<1>2. /\ \A e \in Execution : attempt[e] \in Nat /\ attempt'[e] \in Nat
      /\ \A w \in Worker : held[w].attempt \in Nat /\ held'[w].attempt \in Nat
  BY <1>1 DEF TypeInv, TypeOK, StoreTypeOK, Leases
<1>3. \A e, n : Lease(e, n).exec = e /\ Lease(e, n).attempt = n
  BY DEF Lease
<1>4. HeldWasClaimed'
  <2> SUFFICES ASSUME NEW w \in Worker, InAttempt(w)'
               PROVE  held'[w].attempt <= attempt'[held'[w].exec]
    BY DEF HeldWasClaimed
  <2>1. CASE InAttempt(w) /\ held'[w] = held[w]
    <3>1. held[w].exec \in Execution /\ held[w].attempt <= attempt[held[w].exec]
      BY <2>1 DEF HeldWasClaimed, TypeInv, HoldsWork
    <3>2. attempt'[held[w].exec] >= attempt[held[w].exec]
      BY <3>1, GenerationEffect
    <3> QED
      BY <1>2, <2>1, <3>1, <3>2
  <2>2. CASE \E e \in Execution : TakesGeneration(w, e)
    BY <1>2, <1>3, <2>2 DEF TakesGeneration
  <2> QED
    BY <2>1, <2>2, GenerationEffect
<1>5. AttemptsAreDistinct'
  <2> SUFFICES ASSUME NEW v \in Worker, NEW w \in Worker, v # w,
                      InAttempt(v)', InAttempt(w)'
               PROVE  held'[v] # held'[w]
    BY DEF AttemptsAreDistinct
  <2>1. ASSUME NEW x \in Worker, NEW y \in Worker, x # y, InAttempt(x)', InAttempt(y)',
               \E e \in Execution : TakesGeneration(x, e)
        PROVE  held'[x] # held'[y]
    <3>1. PICK e \in Execution : TakesGeneration(x, e)
      BY <2>1
    <3>2. InAttempt(y) /\ held'[y] = held[y]
      BY <2>1, <3>1 DEF TakesGeneration, InAttempt
    <3>3. held[y].exec \in Execution /\ held[y].attempt <= attempt[held[y].exec]
      BY <3>2 DEF HeldWasClaimed, TypeInv, HoldsWork
    <3> QED
      BY <1>2, <1>3, <3>1, <3>2, <3>3 DEF TakesGeneration
  <2>2. CASE /\ InAttempt(v) /\ held'[v] = held[v]
             /\ InAttempt(w) /\ held'[w] = held[w]
    BY <2>2 DEF AttemptsAreDistinct
  <2> QED
    BY <2>1, <2>2, GenerationEffect
<1> QED
  BY <1>1, <1>4, <1>5

\* No worker is in an attempt when the pool starts.
LEMMA GenerationInit == Init => GenerationInv
<1> SUFFICES ASSUME Init PROVE GenerationInv
  OBVIOUS
<1>1. \A w \in Worker : ~InAttempt(w)
  BY DEF Init, InAttempt
<1> QED
  BY <1>1, TypeInit DEF GenerationInv, HeldWasClaimed, AttemptsAreDistinct

\* Two workers in an attempt at one execution are always different generations
\* of it: the attempt a lease lapsed under is never confused with the attempt
\* that took the execution over.
THEOREM AttemptsStayDistinct == Spec => []AttemptsAreDistinct
BY GenerationInit, GenerationStep, PTL DEF Spec, GenerationInv

\* A new generation never begins under a live lease, and no generation comes
\* back: the retry rule of the attempt model, for the rows themselves.
THEOREM GenerationsAlwaysFollowLeases == Spec => GenerationsFollowLeases
<1> DEFINE Step == \A e \in Execution :
             /\ attempt'[e] >= attempt[e]
             /\ attempt'[e] # attempt[e] =>
                  status[e] # "running" \/ e \notin leased
<1>1. TypeInv /\ [Next]_vars => Step
  <2> SUFFICES ASSUME TypeInv, [Next]_vars, NEW e \in Execution,
                      attempt'[e] # attempt[e]
               PROVE  status[e] # "running" \/ e \notin leased
    BY GenerationEffect
  <2> USE DEF TypeInv, TypeOK, StoreTypeOK
  <2>1. ASSUME NEW w \in Worker, ClaimWork(w) \/ ClaimLost(w)
        PROVE  status[e] # "running" \/ e \notin leased
    <3>1. PICK x \in Execution : OldestClaimable(x) /\ ClaimRow(x)
      BY <2>1 DEF ClaimWork, ClaimLost
    <3>2. x = e
      BY <3>1 DEF ClaimRow
    <3>3. Claimable(e)
      BY <3>1, <3>2 DEF OldestClaimable
    <3> QED
      BY <3>3 DEF Claimable
  <2>2. ASSUME NEW c \in Client, ReattemptWrite(c)
        PROVE  status[e] # "running"
    BY <2>2 DEF ReattemptWrite, ReattemptRow, Reattemptable, table, row
  <2>3. ASSUME NEW w \in Worker,
               \/ Retire(w) \/ GetPlan(w) \/ RunSpine(w) \/ CompleteWork(w)
               \/ FailWork(w) \/ Classify(w) \/ Stop(w) \/ Start(w)
               \/ Cancel(w) \/ Crash(w)
        PROVE  UNCHANGED attempt
    BY <2>3 DEF Retire, GetPlan, RunSpine, CompleteWork, FailWork, Classify,
                Stop, Start, Cancel, Crash, RetireRow, CompleteRow, FailRow,
                table, row
  <2>4. ASSUME NEW x \in Execution,
               LeaseLapses(x) \/ LeaseLapsesInAttempt(x) \/ Submit(x)
        PROVE  UNCHANGED attempt
    BY <2>4 DEF LeaseLapses, LeaseLapsesInAttempt, Submit, ExpireLease, Enqueue,
                table, row
  <2>5. ASSUME NEW c \in Client, ReattemptCheck(c) PROVE UNCHANGED attempt
    BY <2>5 DEF ReattemptCheck, table, row
  <2>6. UNCHANGED vars => UNCHANGED attempt
    BY DEF vars, table, row
  <2> QED
    BY <2>1, <2>2, <2>3, <2>4, <2>5, <2>6 DEF Next, WorkerStep, PollEmpty
<1>2. Step => [Step]_vars
  OBVIOUS
<1> QED
  BY <1>1, <1>2, TypeInit, TypeStep, PTL DEF Spec, GenerationsFollowLeases

-----------------------------------------------------------------------------
(* Answers, when every worker runs one build.                              *)

Working == {"claimed", "running", "completing", "failing", "refused"}

\* Only rows the worker's build reads are worked on; the others are retired.
TrustDecidesPath ==
  \A w \in Worker :
    /\ pc[w] = "retiring" => held[w].exec \notin Trusts[w]
    /\ pc[w] \in Working => held[w].exec \in Trusts[w]

\* An answer sits in a decided row, and only in a row the builds read.
AnswersAreTrusted ==
  \A e \in Execution : result[e] # "none" =>
    /\ status[e] = result[e]
    /\ \A w \in Worker : e \in Trusts[w]

AnswerInv == GenerationInv /\ TrustDecidesPath /\ AnswersAreTrusted

\* What one step does to a row that carries an answer.
RowKept(e) ==
  /\ result'[e] = result[e]
  /\ status'[e] = status[e]
  /\ attempt'[e] = attempt[e]

\* No statement touches an answered row: the claim and the reattempt do not
\* select it, an outcome needs a running row, and a retire needs a row nobody
\* reads, which never had an answer.
LEMMA AnswersKept ==
  ASSUME UniformTrust, AnswerInv, [Next]_vars, NEW e \in Execution,
         result[e] # "none"
  PROVE  RowKept(e)
<1> USE DEF AnswerInv, GenerationInv, TypeInv, TypeOK, StoreTypeOK
<1>1. status[e] \in Decided /\ \A w \in Worker : e \in Trusts[w]
  BY DEF AnswersAreTrusted, Results
<1>2. status[e] \notin {"absent", "pending", "running"}
  BY <1>1 DEF Decided
<1>3. ASSUME NEW x \in Execution, ClaimRow(x), OldestClaimable(x) PROVE RowKept(e)
  <2>1. x # e
    BY <1>2, <1>3 DEF OldestClaimable, Claimable
  <2> QED
    BY <1>3, <2>1 DEF ClaimRow, RowKept
<1>4. ASSUME NEW w \in Worker, Retire(w) PROVE RowKept(e)
  <2>1. held[w].exec # e
    BY <1>1, <1>4 DEF Retire, TrustDecidesPath
  <2> QED
    BY <1>4, <2>1 DEF Retire, RetireRow, RowKept, table, row
<1>5. ASSUME NEW w \in Worker, CompleteWork(w) \/ FailWork(w) PROVE RowKept(e)
  BY <1>2, <1>5 DEF CompleteWork, FailWork, CompleteRow, FailRow, HeldBy,
                    RowKept, table, row
<1>6. ASSUME NEW w \in Worker,
             \/ GetPlan(w) \/ RunSpine(w) \/ Classify(w) \/ Stop(w)
             \/ Start(w) \/ Cancel(w) \/ Crash(w)
      PROVE  RowKept(e)
  BY <1>6 DEF GetPlan, RunSpine, Classify, Stop, Start, Cancel, Crash, RowKept,
              table, row
<1>7. ASSUME NEW x \in Execution,
             LeaseLapses(x) \/ LeaseLapsesInAttempt(x) \/ Submit(x)
      PROVE  RowKept(e)
  BY <1>2, <1>7 DEF LeaseLapses, LeaseLapsesInAttempt, Submit, ExpireLease,
                    Enqueue, RowKept, table, row
<1>8. ASSUME NEW c \in Client, ReattemptCheck(c) \/ ReattemptWrite(c)
      PROVE  RowKept(e)
  BY <1>8 DEF ReattemptCheck, ReattemptWrite, ReattemptRow, Reattemptable,
              RowKept, table, row
<1>9. UNCHANGED vars => RowKept(e)
  BY DEF vars, RowKept, table, row
<1> QED
  BY <1>3, <1>4, <1>5, <1>6, <1>7, <1>8, <1>9
     DEF Next, WorkerStep, PollEmpty, ClaimWork, ClaimLost

\* An answer is stored only by a worker that could read the row.
LEMMA AnswersAppear ==
  ASSUME AnswerInv, [Next]_vars, NEW e \in Execution,
         result[e] = "none", result'[e] # "none"
  PROVE  \E w \in Worker : /\ pc[w] = "completing"
                            /\ held[w].exec = e
                            /\ status'[e] = result'[e]
<1> USE DEF AnswerInv, GenerationInv, TypeInv, TypeOK, StoreTypeOK
<1>1. ASSUME NEW w \in Worker, CompleteWork(w)
      PROVE  pc[w] = "completing" /\ held[w].exec = e /\ status'[e] = result'[e]
  BY <1>1 DEF CompleteWork, CompleteRow, table, row
<1>2. ASSUME NEW w \in Worker,
             ClaimWork(w) \/ ClaimLost(w) \/ Retire(w) \/ FailWork(w)
      PROVE  result'[e] = "none"
  BY <1>2 DEF ClaimWork, ClaimLost, Retire, FailWork, ClaimRow, RetireRow,
              FailRow, table, row
<1>3. ASSUME NEW w \in Worker,
             \/ GetPlan(w) \/ RunSpine(w) \/ Classify(w) \/ Stop(w)
             \/ Start(w) \/ Cancel(w) \/ Crash(w)
      PROVE  UNCHANGED result
  BY <1>3 DEF GetPlan, RunSpine, Classify, Stop, Start, Cancel, Crash, table, row
<1>4. ASSUME NEW x \in Execution,
             LeaseLapses(x) \/ LeaseLapsesInAttempt(x) \/ Submit(x)
      PROVE  UNCHANGED result
  BY <1>4 DEF LeaseLapses, LeaseLapsesInAttempt, Submit, ExpireLease, Enqueue,
              table, row
<1>5. ASSUME NEW c \in Client, ReattemptCheck(c) \/ ReattemptWrite(c)
      PROVE  UNCHANGED result
  BY <1>5 DEF ReattemptCheck, ReattemptWrite, ReattemptRow, table, row
<1>6. UNCHANGED vars => UNCHANGED result
  BY DEF vars, table, row
<1> QED
  BY <1>1, <1>2, <1>3, <1>4, <1>5, <1>6 DEF Next, WorkerStep, PollEmpty

\* A worker keeps to the path its build chose when it claimed.
LEMMA PathKept ==
  ASSUME TypeInv, TrustDecidesPath, [Next]_vars
  PROVE  TrustDecidesPath'
<1> USE DEF TypeInv, TypeOK, Working
<1>1. ASSUME NEW w \in Worker, ClaimWork(w) PROVE TrustDecidesPath'
  <2>1. PICK e \in Execution :
          /\ pc' = [pc EXCEPT ![w] =
                      IF e \in Trusts[w] THEN "claimed" ELSE "retiring"]
          /\ held' = [held EXCEPT ![w] = Lease(e, attempt[e] + 1)]
    BY <1>1 DEF ClaimWork
  <2>2. held'[w].exec = e
    BY <2>1 DEF Lease
  <2> QED
    BY <2>1, <2>2 DEF TrustDecidesPath
<1>2. ASSUME NEW w \in Worker,
             \/ GetPlan(w) \/ RunSpine(w) \/ CompleteWork(w)
             \/ FailWork(w) \/ Classify(w)
      PROVE  TrustDecidesPath'
  BY <1>2 DEF GetPlan, RunSpine, CompleteWork, FailWork, Classify, Goto, Return,
              TrustDecidesPath
<1>3. ASSUME NEW w \in Worker,
             Retire(w) \/ Stop(w) \/ Start(w) \/ Cancel(w) \/ Crash(w)
      PROVE  TrustDecidesPath'
  BY <1>3 DEF Retire, Stop, Start, Cancel, Crash, Goto, TrustDecidesPath
<1>4. UNCHANGED workerVars => TrustDecidesPath'
  BY DEF workerVars, TrustDecidesPath
<1> QED
  BY <1>1, <1>2, <1>3, <1>4
     DEF Next, WorkerStep, PollEmpty, ClaimLost, LeaseLapses,
         LeaseLapsesInAttempt, Submit, ReattemptCheck, ReattemptWrite, vars

\* Every step keeps answers in decided rows that the whole fleet can read.
LEMMA AnswerStep ==
  ASSUME UniformTrust PROVE AnswerInv /\ [Next]_vars => AnswerInv'
<1> SUFFICES ASSUME AnswerInv, [Next]_vars PROVE AnswerInv'
  OBVIOUS
<1>1. GenerationInv' /\ TrustDecidesPath'
  BY GenerationStep, PathKept DEF AnswerInv, GenerationInv
<1>2. ASSUME NEW e \in Execution, result'[e] # "none"
      PROVE  status'[e] = result'[e] /\ \A w \in Worker : e \in Trusts[w]
  <2>1. CASE result[e] # "none"
    BY <2>1, AnswersKept DEF AnswerInv, AnswersAreTrusted, RowKept
  <2>2. CASE result[e] = "none"
    <3>1. PICK w \in Worker : /\ pc[w] = "completing"
                              /\ held[w].exec = e
                              /\ status'[e] = result'[e]
      BY <1>2, <2>2, AnswersAppear
    <3>2. e \in Trusts[w]
      BY <3>1 DEF AnswerInv, TrustDecidesPath, Working
    <3> QED
      BY <3>1, <3>2 DEF UniformTrust
  <2> QED
    BY <2>1, <2>2
<1> QED
  BY <1>1, <1>2 DEF AnswerInv, AnswersAreTrusted

\* The empty table carries no answer.
LEMMA AnswerInit == Init => AnswerInv
<1> SUFFICES ASSUME Init PROVE AnswerInv
  OBVIOUS
<1>1. TrustDecidesPath
  BY DEF Init, TrustDecidesPath, Working
<1>2. AnswersAreTrusted
  BY DEF Init, StoreInit, AnswersAreTrusted
<1> QED
  BY <1>1, <1>2, GenerationInit DEF AnswerInv

\* With one build in the fleet, an answer once stored is never replaced,
\* dropped or reopened: not by a late Fail, a reclaim, a reattempt, or the
\* retire of a row nobody can read.
THEOREM AnswersStayFinal == ASSUME UniformTrust PROVE Spec => AnswersAreFinal
<1> DEFINE Kept == \A e \in Execution : result[e] # "none" =>
             /\ result'[e] = result[e]
             /\ status'[e] = status[e]
             /\ attempt'[e] = attempt[e]
<1>1. AnswerInv /\ [Next]_vars => [Kept]_vars
  BY AnswersKept DEF RowKept
<1> QED
  BY <1>1, AnswerInit, AnswerStep, PTL DEF Spec, AnswersAreFinal

-----------------------------------------------------------------------------
(* Outcomes, when every worker runs one build.                             *)

\* While a worker's generation is still the row's, the row is running; a
\* refused worker's generation no longer is.
HolderIsRunning ==
  \A w \in Worker :
    /\ pc[w] \in Working \ {"refused"} /\ held[w].attempt = attempt[held[w].exec] =>
         status[held[w].exec] = "running"
    /\ pc[w] = "refused" => held[w].attempt # attempt[held[w].exec]

OutcomeInv == AnswerInv /\ HolderIsRunning

\* A running row leaves running in its own generation only through a worker
\* that holds that generation, or a retire.
LEMMA RunningEnds ==
  ASSUME TypeInv, [Next]_vars, NEW e \in Execution,
         status[e] = "running", status'[e] # "running", attempt'[e] = attempt[e]
  PROVE  \E v \in Worker :
           \/ pc[v] = "retiring" /\ held[v].exec = e
           \/ /\ pc[v] \in {"completing", "failing"} /\ pc'[v] = "idle"
              /\ held[v].exec = e /\ held[v].attempt = attempt[e]
<1> USE DEF TypeInv, TypeOK, StoreTypeOK
<1>1. ASSUME NEW v \in Worker, Retire(v)
      PROVE  pc[v] = "retiring" /\ held[v].exec = e
  BY <1>1 DEF Retire, RetireRow, table, row
<1>2. ASSUME NEW v \in Worker, CompleteWork(v) \/ FailWork(v)
      PROVE  /\ pc[v] \in {"completing", "failing"} /\ pc'[v] = "idle"
             /\ held[v].exec = e /\ held[v].attempt = attempt[e]
  BY <1>2 DEF CompleteWork, FailWork, CompleteRow, FailRow, HeldBy, Goto, Return,
              table, row
<1>3. ASSUME NEW v \in Worker, ClaimWork(v) \/ ClaimLost(v)
      PROVE  status'[e] = "running"
  BY <1>3 DEF ClaimWork, ClaimLost, ClaimRow
<1>4. ASSUME NEW v \in Worker,
             \/ GetPlan(v) \/ RunSpine(v) \/ Classify(v) \/ Stop(v)
             \/ Start(v) \/ Cancel(v) \/ Crash(v)
      PROVE  UNCHANGED status
  BY <1>4 DEF GetPlan, RunSpine, Classify, Stop, Start, Cancel, Crash, table, row
<1>5. ASSUME NEW x \in Execution,
             LeaseLapses(x) \/ LeaseLapsesInAttempt(x) \/ Submit(x)
      PROVE  status'[e] = "running"
  BY <1>5 DEF LeaseLapses, LeaseLapsesInAttempt, Submit, ExpireLease, Enqueue,
              table, row
<1>6. ASSUME NEW c \in Client, ReattemptCheck(c) \/ ReattemptWrite(c)
      PROVE  status'[e] = "running"
  BY <1>6 DEF ReattemptCheck, ReattemptWrite, ReattemptRow, Reattemptable,
              table, row
<1>7. UNCHANGED vars => UNCHANGED status
  BY DEF vars, table, row
<1> QED
  BY <1>1, <1>2, <1>3, <1>4, <1>5, <1>6, <1>7 DEF Next, WorkerStep, PollEmpty

\* A worker on its way to an outcome was already on it, with the same attempt,
\* or claims in this step.
LEMMA WorkingEffect ==
  ASSUME TypeInv, [Next]_vars, NEW w \in Worker, pc'[w] \in Working
  PROVE  \/ pc[w] \in Working /\ held'[w] = held[w]
         \/ \E e \in Execution : /\ TakesGeneration(w, e)
                                  /\ status'[e] = "running"
                                  /\ pc'[w] = "claimed"
<1> USE DEF TypeInv, TypeOK, StoreTypeOK, Working
<1>1. ASSUME NEW v \in Worker, ClaimWork(v)
      PROVE  \/ pc[w] \in Working /\ held'[w] = held[w]
             \/ \E e \in Execution : /\ TakesGeneration(w, e)
                                      /\ status'[e] = "running"
                                      /\ pc'[w] = "claimed"
  <2>1. PICK e \in Execution :
          /\ ClaimRow(e)
          /\ pc' = [pc EXCEPT ![v] =
                      IF e \in Trusts[v] THEN "claimed" ELSE "retiring"]
          /\ held' = [held EXCEPT ![v] = Lease(e, attempt[e] + 1)]
    BY <1>1 DEF ClaimWork
  <2> QED
    BY <2>1 DEF ClaimRow, TakesGeneration
<1>2. ASSUME NEW v \in Worker,
             \/ GetPlan(v) \/ RunSpine(v) \/ CompleteWork(v)
             \/ FailWork(v) \/ Classify(v)
      PROVE  pc[w] \in Working /\ held'[w] = held[w]
  BY <1>2 DEF GetPlan, RunSpine, CompleteWork, FailWork, Classify, Goto, Return
<1>3. ASSUME NEW v \in Worker,
             Retire(v) \/ Stop(v) \/ Start(v) \/ Cancel(v) \/ Crash(v)
      PROVE  pc[w] \in Working /\ held'[w] = held[w]
  BY <1>3 DEF Retire, Stop, Start, Cancel, Crash, Goto
<1>4. UNCHANGED workerVars => pc[w] \in Working /\ held'[w] = held[w]
  BY DEF workerVars
<1> QED
  BY <1>1, <1>2, <1>3, <1>4
     DEF Next, WorkerStep, PollEmpty, ClaimLost, LeaseLapses,
         LeaseLapsesInAttempt, Submit, ReattemptCheck, ReattemptWrite, vars

\* A worker becomes refused only when its generation is not the running one,
\* and the table is as it was.
LEMMA RefusedEffect ==
  ASSUME TypeInv, [Next]_vars, NEW w \in Worker, pc'[w] = "refused"
  PROVE  \/ pc[w] = "refused"
         \/ /\ pc[w] \in {"completing", "failing"}
            /\ ~HeldBy(held[w].exec, held[w].attempt)
            /\ UNCHANGED table
<1> USE DEF TypeInv, TypeOK
<1>1. ASSUME NEW v \in Worker, CompleteWork(v) \/ FailWork(v)
      PROVE  \/ pc[w] = "refused"
             \/ /\ pc[w] \in {"completing", "failing"}
                /\ ~HeldBy(held[w].exec, held[w].attempt)
                /\ UNCHANGED table
  BY <1>1 DEF CompleteWork, FailWork, Goto, Return
<1>2. ASSUME NEW v \in Worker,
             \/ ClaimWork(v) \/ GetPlan(v) \/ RunSpine(v) \/ Classify(v)
      PROVE  pc[w] = "refused"
  BY <1>2 DEF ClaimWork, GetPlan, RunSpine, Classify, Goto, Return
<1>3. ASSUME NEW v \in Worker,
             Retire(v) \/ Stop(v) \/ Start(v) \/ Cancel(v) \/ Crash(v)
      PROVE  pc[w] = "refused"
  BY <1>3 DEF Retire, Stop, Start, Cancel, Crash, Goto
<1>4. UNCHANGED workerVars => pc[w] = "refused"
  BY DEF workerVars
<1> QED
  BY <1>1, <1>2, <1>3, <1>4
     DEF Next, WorkerStep, PollEmpty, ClaimLost, LeaseLapses,
         LeaseLapsesInAttempt, Submit, ReattemptCheck, ReattemptWrite, vars

\* Every step keeps a current generation running until its holder decides it.
LEMMA OutcomeStep ==
  ASSUME UniformTrust PROVE OutcomeInv /\ [Next]_vars => OutcomeInv'
<1> SUFFICES ASSUME OutcomeInv, [Next]_vars PROVE OutcomeInv'
  OBVIOUS
<1> USE DEF OutcomeInv
<1>1. AnswerInv'
  BY AnswerStep
<1>2. TypeInv /\ TypeInv' /\ GenerationInv
  BY <1>1 DEF AnswerInv, GenerationInv
<1>3. /\ \A e \in Execution : attempt[e] \in Nat /\ attempt'[e] \in Nat
      /\ \A w \in Worker : held[w].attempt \in Nat
  BY <1>2 DEF TypeInv, TypeOK, StoreTypeOK, Leases
<1>4. ASSUME NEW w \in Worker, pc[w] \in Working
      PROVE  /\ held[w].exec \in Execution
             /\ held[w].exec \in Trusts[w]
             /\ held[w].attempt <= attempt[held[w].exec]
             /\ attempt[held[w].exec] <= attempt'[held[w].exec]
             /\ InAttempt(w)
  <2>1. InAttempt(w)
    BY <1>4 DEF InAttempt, Working
  <2>2. held[w].exec \in Execution /\ held[w].exec \in Trusts[w]
    BY <1>2, <1>4, <2>1 DEF TypeInv, HoldsWork, AnswerInv, TrustDecidesPath
  <2>3. held[w].attempt <= attempt[held[w].exec]
    BY <2>1, <1>2 DEF GenerationInv, HeldWasClaimed
  <2>4. attempt'[held[w].exec] >= attempt[held[w].exec]
    BY <1>2, <2>2, GenerationEffect
  <2> QED
    BY <1>3, <2>1, <2>2, <2>3, <2>4
<1>5. ASSUME NEW w \in Worker, pc'[w] \in Working \ {"refused"},
             held'[w].attempt = attempt'[held'[w].exec]
      PROVE  status'[held'[w].exec] = "running"
  <2>1. CASE pc[w] \in Working /\ held'[w] = held[w]
    <3> DEFINE e == held[w].exec
    <3>1. /\ e \in Execution /\ e \in Trusts[w] /\ InAttempt(w)
          /\ held[w].attempt = attempt[e] /\ attempt'[e] = attempt[e]
      BY <1>3, <1>4, <1>5, <2>1
    <3>2. pc[w] # "refused"
      BY <3>1 DEF HolderIsRunning
    <3>3. status[e] = "running"
      BY <2>1, <3>1, <3>2 DEF HolderIsRunning
    <3>4. ASSUME status'[e] # "running" PROVE FALSE
      <4>1. PICK v \in Worker :
              \/ pc[v] = "retiring" /\ held[v].exec = e
              \/ /\ pc[v] \in {"completing", "failing"} /\ pc'[v] = "idle"
                 /\ held[v].exec = e /\ held[v].attempt = attempt[e]
        BY <1>2, <3>1, <3>3, <3>4, RunningEnds
      <4>2. pc[v] # "retiring"
        BY <3>1, <4>1 DEF AnswerInv, TrustDecidesPath, UniformTrust
      <4>3. held[v] = held[w] /\ InAttempt(v)
        BY <1>2, <3>1, <4>1, <4>2 DEF TypeInv, TypeOK, Leases, InAttempt
      <4>4. v = w
        BY <1>2, <3>1, <4>3 DEF GenerationInv, AttemptsAreDistinct
      <4> QED
        BY <1>5, <4>1, <4>2, <4>4 DEF Working
    <3> QED
      BY <2>1, <3>4
  <2>2. CASE \E e \in Execution : TakesGeneration(w, e) /\ status'[e] = "running"
    BY <2>2 DEF TakesGeneration, Lease
  <2> QED
    BY <1>2, <1>5, <2>1, <2>2, WorkingEffect
<1>6. ASSUME NEW w \in Worker, pc'[w] = "refused"
      PROVE  held'[w].attempt # attempt'[held'[w].exec]
  <2>1. pc[w] \in Working /\ held'[w] = held[w]
    BY <1>2, <1>6, WorkingEffect DEF Working
  <2>2. CASE pc[w] = "refused"
    <3>1. held[w].attempt # attempt[held[w].exec]
      BY <2>2 DEF HolderIsRunning
    <3> QED
      BY <1>3, <1>4, <2>1, <3>1
  <2>3. CASE /\ pc[w] \in {"completing", "failing"}
             /\ ~HeldBy(held[w].exec, held[w].attempt)
             /\ UNCHANGED table
    <3>1. held[w].attempt # attempt[held[w].exec]
      BY <2>1, <2>3 DEF HolderIsRunning, HeldBy, Working
    <3> QED
      BY <2>1, <2>3, <3>1 DEF table, row
  <2> QED
    BY <1>2, <1>6, <2>2, <2>3, RefusedEffect
<1> QED
  BY <1>1, <1>5, <1>6 DEF HolderIsRunning

\* Nobody holds a generation when the pool starts.
LEMMA OutcomeInit == Init => OutcomeInv
BY AnswerInit DEF Init, OutcomeInv, HolderIsRunning, Working

\* With one build in the fleet, a worker whose outcome is refused is always
\* told it was superseded: no other worker ever decides its generation, and
\* between the refused statement and the one that classifies it nothing can
\* make the generation its own again.
THEOREM RefusedAlwaysSuperseded ==
  ASSUME UniformTrust PROVE Spec => []RefusedMeansSuperseded
<1>1. Init => RefusedMeansSuperseded
  BY DEF Init, RefusedMeansSuperseded
<1>2. OutcomeInv /\ RefusedMeansSuperseded /\ [Next]_vars => RefusedMeansSuperseded'
  <2> SUFFICES ASSUME OutcomeInv, RefusedMeansSuperseded, [Next]_vars
               PROVE  RefusedMeansSuperseded'
    OBVIOUS
  <2> USE DEF OutcomeInv, AnswerInv, GenerationInv, TypeInv, TypeOK,
              RefusedMeansSuperseded
  <2>1. ASSUME NEW w \in Worker, Classify(w) PROVE RefusedMeansSuperseded'
    <3>1. Refusal(held[w].exec, held[w].attempt) = "superseded"
      BY <2>1 DEF Classify, HolderIsRunning, Refusal
    <3> QED
      BY <2>1, <3>1 DEF Classify
  <2>2. ASSUME NEW w \in Worker, Start(w) PROVE RefusedMeansSuperseded'
    BY <2>2 DEF Start
  <2>3. ASSUME NEW w \in Worker,
               \/ ClaimWork(w) \/ ClaimLost(w) \/ Retire(w) \/ GetPlan(w)
               \/ RunSpine(w) \/ CompleteWork(w) \/ FailWork(w) \/ Stop(w)
               \/ Cancel(w) \/ Crash(w)
        PROVE  UNCHANGED refusal
    BY <2>3 DEF ClaimWork, ClaimLost, Retire, GetPlan, RunSpine, CompleteWork,
                FailWork, Stop, Cancel, Crash, Goto, workerVars
  <2>4. ASSUME NEW e \in Execution,
               LeaseLapses(e) \/ LeaseLapsesInAttempt(e) \/ Submit(e)
        PROVE  UNCHANGED refusal
    BY <2>4 DEF LeaseLapses, LeaseLapsesInAttempt, Submit, workerVars
  <2>5. ASSUME NEW c \in Client, ReattemptCheck(c) \/ ReattemptWrite(c)
        PROVE  UNCHANGED refusal
    BY <2>5 DEF ReattemptCheck, ReattemptWrite, workerVars
  <2>6. UNCHANGED vars => UNCHANGED refusal
    BY DEF vars, workerVars
  <2> QED
    BY <2>1, <2>2, <2>3, <2>4, <2>5, <2>6 DEF Next, WorkerStep, PollEmpty
<1> QED
  BY <1>1, <1>2, OutcomeInit, OutcomeStep, PTL DEF Spec

-----------------------------------------------------------------------------
(* What was reported as answered.                                          *)

\* A worker comes to report an answer only by storing it in the same step.
LEMMA AnswersReported ==
  ASSUME TypeInv, [Next]_vars, NEW w \in Worker,
         outcome'[w].kind = "answered"
  PROVE  \/ outcome'[w] = outcome[w]
         \/ /\ outcome'[w].exec \in Execution
            /\ status'[outcome'[w].exec] = Answer[outcome'[w].exec]
            /\ result'[outcome'[w].exec] = Answer[outcome'[w].exec]
<1> USE DEF TypeInv, TypeOK, StoreTypeOK, Reported
<1>1. ASSUME NEW v \in Worker, CompleteWork(v)
      PROVE  \/ outcome'[w] = outcome[w]
             \/ /\ outcome'[w].exec \in Execution
                /\ status'[outcome'[w].exec] = Answer[outcome'[w].exec]
                /\ result'[outcome'[w].exec] = Answer[outcome'[w].exec]
  <2>1. held[v].exec \in Execution
    BY <1>1 DEF CompleteWork, HoldsWork, InAttempt
  <2> QED
    BY <1>1, <2>1 DEF CompleteWork, CompleteRow, Goto, Return
<1>2. ASSUME NEW v \in Worker,
             GetPlan(v) \/ RunSpine(v) \/ FailWork(v) \/ Classify(v)
      PROVE  outcome'[w] = outcome[w]
  BY <1>2 DEF GetPlan, RunSpine, FailWork, Classify, Goto, Return
<1>3. ASSUME NEW v \in Worker,
             \/ ClaimWork(v) \/ ClaimLost(v) \/ Retire(v) \/ Stop(v)
             \/ Start(v) \/ Cancel(v) \/ Crash(v)
      PROVE  outcome'[w] = outcome[w]
  BY <1>3 DEF ClaimWork, ClaimLost, Retire, Stop, Start, Cancel, Crash, Goto,
              workerVars
<1>4. UNCHANGED workerVars => outcome'[w] = outcome[w]
  BY DEF workerVars
<1> QED
  BY <1>1, <1>2, <1>3, <1>4
     DEF Next, WorkerStep, PollEmpty, LeaseLapses, LeaseLapsesInAttempt,
         Submit, ReattemptCheck, ReattemptWrite, vars

\* With one build in the fleet, what any worker ever reported as answered is
\* in the table, under the status the computation has, for as long as the
\* report stands.
THEOREM AnsweredStaysStored ==
  ASSUME UniformTrust PROVE Spec => []AnsweredIsStored
<1> DEFINE Named == \A w \in Worker :
             outcome[w].kind = "answered" => outcome[w].exec \in Execution
<1>1. Init => AnsweredIsStored /\ Named
  BY DEF Init, AnsweredIsStored, Reported
<1>2. AnswerInv /\ AnsweredIsStored /\ Named /\ [Next]_vars
        => (AnsweredIsStored /\ Named)'
  <2> SUFFICES ASSUME AnswerInv, AnsweredIsStored, Named, [Next]_vars,
                      NEW w \in Worker, outcome'[w].kind = "answered"
               PROVE  /\ outcome'[w].exec \in Execution
                      /\ status'[outcome'[w].exec] = Answer[outcome'[w].exec]
                      /\ result'[outcome'[w].exec] = Answer[outcome'[w].exec]
    BY DEF AnsweredIsStored
  <2>1. CASE outcome'[w] = outcome[w]
    <3> DEFINE e == outcome[w].exec
    <3>1. e \in Execution /\ status[e] = Answer[e] /\ result[e] = Answer[e]
      BY <2>1 DEF AnsweredIsStored
    <3>2. result[e] # "none"
      BY <3>1, WorkerPoolAssumption DEF Decided
    <3>3. RowKept(e)
      BY <3>1, <3>2, AnswersKept
    <3> QED
      BY <2>1, <3>1, <3>3 DEF RowKept
  <2> QED
    BY <2>1, AnswersReported DEF AnswerInv, GenerationInv
<1> QED
  BY <1>1, <1>2, AnswerInit, AnswerStep, PTL DEF Spec

-----------------------------------------------------------------------------
(* The contract of ports.ExecutionStore.                                   *)

\* Every step of the pool is a step of the contract or leaves its state alone,
\* when every build reads every row: no worker is then ever retiring one.
LEMMA ContractStep ==
  ASSUME EveryRowTrusted, AnswerInv, [Next]_vars
  PROVE  [Contract!Next]_<<status, result, attempt>>
<1> USE DEF AnswerInv, GenerationInv, TypeInv, TypeOK, StoreTypeOK
<1> DEFINE Row == <<status, result, attempt>>
<1>1. ASSUME NEW e \in Execution, OldestClaimable(e), ClaimRow(e)
      PROVE  Contract!Next
  <2>1. status[e] \in {"pending", "running"}
    BY <1>1 DEF OldestClaimable, Claimable
  <2>2. Contract!Claim(e)
    BY <1>1, <2>1 DEF ClaimRow, Contract!Claim
  <2> QED
    BY <2>2 DEF Contract!Next
<1>2. ASSUME NEW w \in Worker, Retire(w) PROVE FALSE
  BY <1>2 DEF Retire, TrustDecidesPath, EveryRowTrusted, HoldsWork, InAttempt
<1>3. ASSUME NEW w \in Worker, CompleteWork(w)
      PROVE  Contract!Next \/ UNCHANGED Row
  <2> DEFINE e == held[w].exec
  <2>1. e \in Execution
    BY <1>3 DEF CompleteWork, HoldsWork, InAttempt
  <2>2. Answer[e] \in Contract!Decided
    BY <2>1, WorkerPoolAssumption DEF Decided, Contract!Decided
  <2>3. ASSUME CompleteRow(e, held[w].attempt, Answer[e]) PROVE Contract!Next
    <3>1. Contract!Complete(e, Answer[e])
      BY <2>3 DEF CompleteRow, HeldBy, Contract!Complete
    <3> QED
      BY <2>1, <2>2, <3>1 DEF Contract!Next
  <2> QED
    BY <1>3, <2>3 DEF CompleteWork, table, row
<1>4. ASSUME NEW w \in Worker, FailWork(w)
      PROVE  Contract!Next \/ UNCHANGED Row
  <2> DEFINE e == held[w].exec
  <2>1. e \in Execution
    BY <1>4 DEF FailWork, HoldsWork, InAttempt
  <2>2. ASSUME FailRow(e, held[w].attempt) PROVE Contract!Next
    <3>1. status[e] = "running" /\ result[e] = "none"
      BY <2>1, <2>2 DEF FailRow, HeldBy, AnswersAreTrusted, Results, Decided
    <3>2. result' = result
      BY <2>2, <3>1 DEF FailRow
    <3>3. Contract!Fail(e)
      BY <2>2, <3>1, <3>2 DEF FailRow, Contract!Fail
    <3> QED
      BY <2>1, <3>3 DEF Contract!Next
  <2> QED
    BY <1>4, <2>2 DEF FailWork, table, row
<1>5. ASSUME NEW w \in Worker,
             \/ GetPlan(w) \/ RunSpine(w) \/ Classify(w) \/ Stop(w)
             \/ Start(w) \/ Cancel(w) \/ Crash(w)
      PROVE  UNCHANGED Row
  BY <1>5 DEF GetPlan, RunSpine, Classify, Stop, Start, Cancel, Crash, table, row
<1>6. ASSUME NEW e \in Execution, LeaseLapses(e) \/ LeaseLapsesInAttempt(e)
      PROVE  UNCHANGED Row
  BY <1>6 DEF LeaseLapses, LeaseLapsesInAttempt, ExpireLease
<1>7. ASSUME NEW e \in Execution, Submit(e)
      PROVE  Contract!Next \/ UNCHANGED Row
  <2>1. Contract!Enqueue(e) \/ UNCHANGED Row
    BY <1>7 DEF Submit, Enqueue, Contract!Enqueue, table, row
  <2> QED
    BY <2>1 DEF Contract!Next
<1>8. ASSUME NEW c \in Client, ReattemptWrite(c)
      PROVE  Contract!Next \/ UNCHANGED Row
  <2> DEFINE e == request[c]
  <2>1. e \in Execution
    BY <1>8 DEF ReattemptWrite
  <2>2. Contract!Reattempt(e) \/ UNCHANGED Row
    BY <1>8 DEF ReattemptWrite, ReattemptRow, Reattemptable, Contract!Reattempt,
                table, row
  <2> QED
    BY <2>1, <2>2 DEF Contract!Next
<1>9. ASSUME NEW c \in Client, ReattemptCheck(c) PROVE UNCHANGED Row
  BY <1>9 DEF ReattemptCheck, table, row
<1>10. UNCHANGED vars => UNCHANGED Row
  BY DEF vars, table, row
<1> QED
  BY <1>1, <1>2, <1>3, <1>4, <1>5, <1>6, <1>7, <1>8, <1>9, <1>10
     DEF Next, WorkerStep, PollEmpty, ClaimWork, ClaimLost

\* When every build reads every row, the pool of workers, callers and the
\* Postgres statements between them implement the contract every adapter owes.
THEOREM PoolImplementsContract ==
  ASSUME EveryRowTrusted PROVE Spec => ImplementsContract
<1>1. Init => Contract!Init
  BY DEF Init, StoreInit, Contract!Init
<1>2. AnswerInv /\ [Next]_vars => [Contract!Next]_<<status, result, attempt>>
  BY ContractStep
<1>3. UniformTrust
  BY DEF EveryRowTrusted, UniformTrust
<1>4. AnswerInv /\ [Next]_vars => AnswerInv'
  BY <1>3, AnswerStep
<1> QED
  BY <1>1, <1>2, <1>4, AnswerInit, PTL
     DEF Spec, ImplementsContract, Contract!Spec, Contract!vars
=============================================================================
