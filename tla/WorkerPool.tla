----------------------------- MODULE WorkerPool -----------------------------
(***************************************************************************)
(* Workers draining the Postgres queue while callers submit executions and *)
(* reattempt failed ones.  A worker's attempt is the sequence of calls     *)
(* worker.attempt makes: claim, read the plan and check the identity, run  *)
(* the spine, report the outcome.  Between any two of them its lease may   *)
(* lapse, its process may crash or be told to stop, and another worker may *)
(* claim the same execution.                                               *)
(*                                                                         *)
(* Trusts[w] is the set of rows worker w's build can decode and verify     *)
(* (storage format, content hash, codec): the others it claims and then    *)
(* retires.  ReadsPlan[w] is the set of executions whose stored plan its   *)
(* build can read and rebuild.  Answer[e] is the outcome of e's            *)
(* computation, the same for every attempt: execution is deterministic.    *)
(***************************************************************************)
EXTENDS PostgresExecutions, FiniteSets

CONSTANTS Worker,          \* worker processes
          Client,          \* callers of the reattempt endpoint
          Trusts,          \* [Worker -> SUBSET Execution]
          ReadsPlan,       \* [Worker -> SUBSET Execution]
          Answer,          \* [Execution -> Decided]
          NoExecution,     \* no execution: a zero attempt, outcome or request
          MaxFaults,       \* bound: crashes, stops, lost calls, stalls
          MaxReattempts,   \* bound: reattempt requests
          MaxAttempts      \* bound: generations of an execution that lapses

ASSUME WorkerPoolAssumption ==
  /\ Trusts \in [Worker -> SUBSET Execution]
  /\ ReadsPlan \in [Worker -> SUBSET Execution]
  /\ Answer \in [Execution -> Decided]
  /\ NoExecution \notin Execution
  /\ MaxFaults \in Nat
  /\ MaxReattempts \in Nat
  /\ MaxAttempts \in Nat

VARIABLES pc,          \* where each worker is in its loop
          held,        \* the ExecutionAttempt each worker is processing
          cancelled,   \* the workers whose context is done
          outcome,     \* the ExecutionOutcome each worker last reported
          refusal,     \* why each worker's last outcome was refused
          request,     \* each reattempt request in flight
          faults,      \* faults so far
          reattempts   \* reattempt requests so far

workerVars == <<pc, held, cancelled, outcome, refusal>>
clientVars == <<request, reattempts>>
vars == <<table, workerVars, clientVars, faults>>

PC == {"idle", "retiring", "claimed", "running", "completing", "failing",
       "refused", "stopped"}

Lease(e, a) == [exec |-> e, attempt |-> a]
NoLease == Lease(NoExecution, 0)
Leases == [exec : Execution \cup {NoExecution}, attempt : Nat]

Reported(k, e) == [kind |-> k, exec |-> e]
Kinds == {"none", "answered", "failed", "abandoned"}
Outcomes == [kind : Kinds, exec : Execution \cup {NoExecution}]

\* A worker is in an attempt from its claim to the outcome it reports.
InAttempt(w) == pc[w] \notin {"idle", "stopped"}

Init ==
  /\ StoreInit
  /\ pc = [w \in Worker |-> "idle"]
  /\ held = [w \in Worker |-> NoLease]
  /\ cancelled = {}
  /\ outcome = [w \in Worker |-> Reported("none", NoExecution)]
  /\ refusal = [w \in Worker |-> "none"]
  /\ request = [c \in Client |-> NoExecution]
  /\ faults = 0
  /\ reattempts = 0

-----------------------------------------------------------------------------
(* Local bookkeeping of a worker's step.                                   *)

Goto(w, to) ==
  /\ pc' = [pc EXCEPT ![w] = to]
  /\ UNCHANGED <<held, outcome, refusal>>

\* attempt returns: the outcome is reported and the worker polls again.
Return(w, kind) ==
  /\ pc' = [pc EXCEPT ![w] = "idle"]
  /\ held' = [held EXCEPT ![w] = NoLease]
  /\ outcome' = [outcome EXCEPT ![w] = Reported(kind, held[w].exec)]

\* A transient failure of this call, charged to the fault budget.
Fault == faults < MaxFaults /\ faults' = faults + 1

\* The call fails: with a done context it always does, otherwise it is a fault.
CallFails(w) == IF w \in cancelled THEN UNCHANGED faults ELSE Fault

CallSucceeds(w) == w \notin cancelled /\ UNCHANGED faults

-----------------------------------------------------------------------------
(* The worker.                                                             *)

\* RunOnce claims the oldest available execution.  The claim has committed
\* when the adapter looks at the row it got.
ClaimWork(w) ==
  /\ pc[w] = "idle"
  /\ CallSucceeds(w)
  /\ \E e \in Execution :
       /\ OldestClaimable(e)
       /\ ClaimRow(e)
       /\ pc' = [pc EXCEPT ![w] = IF e \in Trusts[w] THEN "claimed" ELSE "retiring"]
       /\ held' = [held EXCEPT ![w] = Lease(e, attempt[e] + 1)]
  /\ UNCHANGED <<cancelled, outcome, refusal, clientVars>>

\* Nothing to claim: the worker sleeps and polls again.
PollEmpty(w) ==
  /\ pc[w] = "idle"
  /\ w \notin cancelled
  /\ \A e \in Execution : ~OldestClaimable(e)
  /\ UNCHANGED vars

\* The claim commits and its answer never reaches the worker.
ClaimLost(w) ==
  /\ pc[w] = "idle"
  /\ w \notin cancelled
  /\ Fault
  /\ \E e \in Execution : OldestClaimable(e) /\ ClaimRow(e)
  /\ UNCHANGED <<workerVars, clientVars>>

\* Claim's second statement, for a row this build cannot trust.  RunOnce
\* returns an error either way, no outcome is reported, and Run polls on.
Retire(w) ==
  /\ pc[w] = "retiring"
  /\ \/ CallSucceeds(w) /\ RetireRow(held[w].exec)
     \/ CallFails(w) /\ UNCHANGED table
  /\ pc' = [pc EXCEPT ![w] = "idle"]
  /\ held' = [held EXCEPT ![w] = NoLease]
  /\ UNCHANGED <<cancelled, outcome, refusal, clientVars>>

\* The plan's row is in a format this build knows and still rebuilds.
PlanReadable(w) == held[w].exec \in ReadsPlan[w]

\* GetPlan and verifyIdentity: an absent plan or a mismatched identity fails
\* the execution.  Any error leaves it claimable: the storage being out of
\* reach, and the integrity error every read of an unreadable plan gives.
GetPlan(w) ==
  /\ pc[w] = "claimed"
  /\ \/ PlanReadable(w) /\ CallSucceeds(w) /\ Goto(w, "running")
     \/ PlanReadable(w) /\ CallSucceeds(w) /\ Goto(w, "failing")
     \/ ~PlanReadable(w) /\ CallSucceeds(w)
                         /\ Return(w, "abandoned") /\ UNCHANGED refusal
     \/ CallFails(w) /\ Return(w, "abandoned") /\ UNCHANGED refusal
  /\ UNCHANGED <<table, cancelled, clientVars>>

\* runner.Run and app.Project.  An answer (a semantic rejection included) is
\* completed; invalid input, an internal error, a panic or a contradicted
\* identity is failed; cancellation or a missing dependency abandons.
RunSpine(w) ==
  /\ pc[w] = "running"
  /\ \/ UNCHANGED faults /\ Goto(w, "completing")
     \/ UNCHANGED faults /\ Goto(w, "failing")
     \/ CallFails(w) /\ Return(w, "abandoned") /\ UNCHANGED refusal
  /\ UNCHANGED <<table, cancelled, clientVars>>

\* Complete.  Its statement lands, or matches no row, or the call fails with
\* the statement applied or not: the worker cannot tell which.
CompleteWork(w) ==
  LET e == held[w].exec
      a == held[w].attempt IN
  /\ pc[w] = "completing"
  /\ \/ CallSucceeds(w) /\ CompleteRow(e, a, Answer[e])
                        /\ Return(w, "answered") /\ UNCHANGED refusal
     \/ CallSucceeds(w) /\ ~HeldBy(e, a) /\ Goto(w, "refused") /\ UNCHANGED table
     \/ CallFails(w) /\ Return(w, "abandoned") /\ UNCHANGED <<table, refusal>>
     \/ Fault /\ CompleteRow(e, a, Answer[e])
              /\ Return(w, "abandoned") /\ UNCHANGED refusal
  /\ UNCHANGED <<cancelled, clientVars>>

\* fail.  A done context records nothing and abandons the attempt.
FailWork(w) ==
  LET e == held[w].exec
      a == held[w].attempt IN
  /\ pc[w] = "failing"
  /\ \/ CallSucceeds(w) /\ FailRow(e, a)
                        /\ Return(w, "failed") /\ UNCHANGED refusal
     \/ CallSucceeds(w) /\ ~HeldBy(e, a) /\ Goto(w, "refused") /\ UNCHANGED table
     \/ CallFails(w) /\ Return(w, "abandoned") /\ UNCHANGED <<table, refusal>>
     \/ Fault /\ FailRow(e, a)
              /\ Return(w, "abandoned") /\ UNCHANGED refusal
  /\ UNCHANGED <<cancelled, clientVars>>

\* The outcome was refused: a second statement says why, and the attempt is
\* reported abandoned whatever it says.
Classify(w) ==
  /\ pc[w] = "refused"
  /\ \/ CallSucceeds(w) /\ refusal' = [refusal EXCEPT
                             ![w] = Refusal(held[w].exec, held[w].attempt)]
     \/ CallFails(w) /\ UNCHANGED refusal
  /\ Return(w, "abandoned")
  /\ UNCHANGED <<table, cancelled, clientVars>>

\* The process is told to stop: its context is done from here on.
Cancel(w) ==
  /\ pc[w] # "stopped"
  /\ w \notin cancelled
  /\ Fault
  /\ cancelled' = cancelled \cup {w}
  /\ UNCHANGED <<table, pc, held, outcome, refusal, clientVars>>

\* Run sees the done context between two attempts, and returns nil.
Stop(w) ==
  /\ pc[w] = "idle"
  /\ w \in cancelled
  /\ Goto(w, "stopped")
  /\ UNCHANGED <<table, cancelled, clientVars, faults>>

\* The process dies, in an attempt or between two.
Crash(w) ==
  /\ pc[w] # "stopped"
  /\ Fault
  /\ pc' = [pc EXCEPT ![w] = "stopped"]
  /\ held' = [held EXCEPT ![w] = NoLease]
  /\ UNCHANGED <<table, cancelled, outcome, refusal, clientVars>>

\* A new worker process, with nothing of its predecessor's.
Start(w) ==
  /\ pc[w] = "stopped"
  /\ pc' = [pc EXCEPT ![w] = "idle"]
  /\ cancelled' = cancelled \ {w}
  /\ outcome' = [outcome EXCEPT ![w] = Reported("none", NoExecution)]
  /\ refusal' = [refusal EXCEPT ![w] = "none"]
  /\ UNCHANGED <<table, held, clientVars, faults>>

-----------------------------------------------------------------------------
(* The clock and the callers.                                              *)

StillWorking(e) ==
  \E w \in Worker : InAttempt(w) /\ held[w] = Lease(e, attempt[e])

\* The lease of an attempt nobody works on runs out.
LeaseLapses(e) ==
  /\ ~StillWorking(e)
  /\ attempt[e] < MaxAttempts
  /\ ExpireLease(e)
  /\ UNCHANGED <<workerVars, clientVars, faults>>

\* The lease runs out under a worker slower than the lease: a fault.
LeaseLapsesInAttempt(e) ==
  /\ StillWorking(e)
  /\ Fault
  /\ ExpireLease(e)
  /\ UNCHANGED <<workerVars, clientVars>>

\* CreateExecution: the same identity may be submitted any number of times.
Submit(e) ==
  /\ Enqueue(e)
  /\ UNCHANGED <<workerVars, clientVars, faults>>

\* ReattemptExecution reads the record and refuses unless it may be retried.
ReattemptCheck(c) ==
  /\ request[c] = NoExecution
  /\ reattempts < MaxReattempts
  /\ \E e \in Execution : /\ Reattemptable(e)
                          /\ request' = [request EXCEPT ![c] = e]
  /\ reattempts' = reattempts + 1
  /\ UNCHANGED <<table, workerVars, faults>>

\* ... and then calls Reattempt, which decides again, in its WHERE clause.
ReattemptWrite(c) ==
  /\ request[c] # NoExecution
  /\ \/ ReattemptRow(request[c])
     \/ ~Reattemptable(request[c]) /\ UNCHANGED table
  /\ request' = [request EXCEPT ![c] = NoExecution]
  /\ UNCHANGED <<workerVars, reattempts, faults>>

-----------------------------------------------------------------------------
WorkerStep(w) ==
  \/ ClaimWork(w) \/ PollEmpty(w) \/ Retire(w) \/ GetPlan(w) \/ RunSpine(w)
  \/ CompleteWork(w) \/ FailWork(w) \/ Classify(w) \/ Stop(w) \/ Start(w)

Next ==
  \/ \E w \in Worker : WorkerStep(w) \/ ClaimLost(w) \/ Cancel(w) \/ Crash(w)
  \/ \E e \in Execution : LeaseLapses(e) \/ LeaseLapsesInAttempt(e) \/ Submit(e)
  \/ \E c \in Client : ReattemptCheck(c) \/ ReattemptWrite(c)

ClaimOf(e) ==
  \E w \in Worker : ClaimWork(w) /\ held'[w].exec = e

\* A worker that is not stuck takes its next step, a stopped process is
\* restarted, and time passes.  Callers owe nothing.  An execution that is the
\* next in line again and again is claimed in the end, even when older ones
\* are abandoned over and over: a worker that abandons one polls at once, and
\* the lease it leaves behind outlasts many polls.
Fairness ==
  /\ \A w \in Worker : WF_vars(WorkerStep(w))
  /\ \A e \in Execution : WF_vars(LeaseLapses(e)) /\ SF_vars(ClaimOf(e))

Spec == Init /\ [][Next]_vars
FairSpec == Spec /\ Fairness

-----------------------------------------------------------------------------
(* Properties.                                                             *)

\* Every variable keeps its type.
TypeOK ==
  /\ StoreTypeOK
  /\ pc \in [Worker -> PC]
  /\ held \in [Worker -> Leases]
  /\ cancelled \in SUBSET Worker
  /\ outcome \in [Worker -> Outcomes]
  /\ refusal \in [Worker -> {"none", "superseded", "not_queued"}]
  /\ request \in [Client -> Execution \cup {NoExecution}]
  /\ faults \in Nat
  /\ reattempts \in Nat

\* Two workers in an attempt at the same execution are different generations
\* of it: the AttemptID tells a worker that lost its lease from the one that
\* took it over, across lapses, crashes, lost claims and reattempts.
AttemptsAreDistinct ==
  \A v, w \in Worker :
    v # w /\ InAttempt(v) /\ InAttempt(w) => held[v] # held[w]

\* What a worker reports as answered stays readable: the row carries the
\* answer, and no later claim, lapse, retry or stale worker takes it away.
AnsweredIsStored ==
  \A w \in Worker : outcome[w].kind = "answered" =>
    LET e == outcome[w].exec IN
      status[e] = Answer[e] /\ result[e] = Answer[e]

\* A stored answer is final: the row that carries one never changes again.
AnswersAreFinal ==
  [][\A e \in Execution : result[e] # "none" =>
       /\ result'[e] = result[e]
       /\ status'[e] = status[e]
       /\ attempt'[e] = attempt[e]]_vars

\* A new generation begins only when the previous one has ended or its lease
\* has run out; generations only grow.
GenerationsFollowLeases ==
  [][\A e \in Execution :
       /\ attempt'[e] >= attempt[e]
       /\ attempt'[e] # attempt[e] =>
            status[e] # "running" \/ e \notin leased]_vars

\* A worker whose outcome is refused is told it was superseded: nobody else
\* ever decides the generation it holds.
RefusedMeansSuperseded ==
  \A w \in Worker : refusal[w] # "not_queued"

\* One build: what one worker can read, every worker can.
UniformTrust == \A v, w \in Worker : Trusts[v] = Trusts[w]

\* ... and every build reads every row.
EveryRowTrusted == \A w \in Worker : Trusts[w] = Execution

\* A build cannot read this execution's plan: its attempts are abandoned, and
\* its lease lapses and it is claimed again, without end.
PlanUnreadable(e) == \E w \in Worker : e \notin ReadsPlan[w]

\* Every execution submitted is eventually decided, whatever order workers
\* crash, stall and lose calls in, once the faults stop, and however often
\* older executions with an unreadable plan come back ahead of it.
EverySubmissionSettles ==
  \A e \in Execution :
    status[e] \in {"pending", "running"} ~> status[e] \in Decided \/ PlanUnreadable(e)

\* The queue implements the contract of ports.ExecutionStore.
Contract == INSTANCE ExecutionContract WITH answer <- result

ImplementsContract == Contract!Spec
=============================================================================
