---------------------------- MODULE MCWorkerPool ----------------------------
(***************************************************************************)
(* Instances of WorkerPool for TLC: two executions, one that succeeds and  *)
(* one the semantics rejects, and the builds the workers may run.          *)
(***************************************************************************)
EXTENDS WorkerPool

CONSTANTS e1, e2, w1, w2

MCAnswer == [e \in Execution |-> IF e = e1 THEN "succeeded" ELSE "failed"]

\* Every build reads every row, or every plan.
AllTrusted == [w \in Worker |-> Execution]

\* A row w1's build cannot decode and w2's can.
RowPoisoned == [w \in Worker |-> IF w = w1 THEN Execution \ {e1} ELSE Execution]

\* A plan no build can read, of an execution whose own row is sound.
PlanPoisoned == [w \in Worker |-> Execution \ {e2}]

\* A rolling deploy: w1 runs the older build, which cannot read e2.
MixedBuilds == [w \in Worker |-> IF w = w1 THEN Execution \ {e2} ELSE Execution]

-----------------------------------------------------------------------------
(* An execution with an unreadable plan is claimed and abandoned for ever, *)
(* and its generations with it.  Generations are only ever compared with   *)
(* those the workers hold, so the numbers of an execution nobody holds may *)
(* start over: the instance is finite and the execution still comes back.  *)
Renumber(e) ==
  /\ attempt[e] >= MaxAttempts
  /\ \A w \in Worker : held[w].exec # e
  /\ attempt' = [attempt EXCEPT ![e] = 1]
  /\ UNCHANGED <<status, leased, result, enqueued, workerVars, clientVars, faults>>

RenumberedNext ==
  \/ Next
  \/ \E e \in Execution : Renumber(e)

RenumberedSpec ==
  /\ Init
  /\ [][RenumberedNext]_vars
  /\ Fairness
  /\ \A e \in Execution : WF_vars(Renumber(e))
=============================================================================
