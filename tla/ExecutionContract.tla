-------------------------- MODULE ExecutionContract --------------------------
(***************************************************************************)
(* What ports.ExecutionStore promises of one execution, whatever adapter   *)
(* keeps it: the lifecycle absent -> pending -> running -> decided, the    *)
(* attempt generation that every claim and every reattempt advances, and   *)
(* the answer, which once stored is never replaced.  The memory and the    *)
(* Postgres adapters are shown to implement this specification.            *)
(***************************************************************************)
EXTENDS Naturals

CONSTANT Execution      \* the execution identities that may be submitted

VARIABLES status,       \* ExecutionStatus, or "absent" before Enqueue
          answer,       \* the stored ExecutionResult's status, or "none"
          attempt       \* the AttemptID generation of the execution

vars == <<status, answer, attempt>>

Decided == {"succeeded", "failed"}
Status  == {"absent", "pending", "running"} \cup Decided
Answers == {"none"} \cup Decided

Init ==
  /\ status  = [e \in Execution |-> "absent"]
  /\ answer  = [e \in Execution |-> "none"]
  /\ attempt = [e \in Execution |-> 0]

\* A pending execution is stored once; a resubmission finds it.
Enqueue(e) ==
  /\ status[e] = "absent"
  /\ status' = [status EXCEPT ![e] = "pending"]
  /\ UNCHANGED <<answer, attempt>>

\* A lease is minted, with a generation no earlier claim ever held.
Claim(e) ==
  /\ status[e] \in {"pending", "running"}
  /\ status'  = [status EXCEPT ![e] = "running"]
  /\ attempt' = [attempt EXCEPT ![e] = @ + 1]
  /\ UNCHANGED answer

\* The computation answered: success, or a deterministic semantic rejection.
Complete(e, s) ==
  /\ status[e] = "running"
  /\ status' = [status EXCEPT ![e] = s]
  /\ answer' = [answer EXCEPT ![e] = s]
  /\ UNCHANGED attempt

\* The computation could not be attempted: failed, and no answer.
Fail(e) ==
  /\ status[e] = "running"
  /\ status' = [status EXCEPT ![e] = "failed"]
  /\ UNCHANGED <<answer, attempt>>

\* Only a failure that carries no answer goes back to the queue.
Reattempt(e) ==
  /\ status[e] = "failed"
  /\ answer[e] = "none"
  /\ status'  = [status EXCEPT ![e] = "pending"]
  /\ attempt' = [attempt EXCEPT ![e] = @ + 1]
  /\ UNCHANGED answer

Next ==
  \E e \in Execution :
    \/ Enqueue(e)
    \/ Claim(e)
    \/ \E s \in Decided : Complete(e, s)
    \/ Fail(e)
    \/ Reattempt(e)

Spec == Init /\ [][Next]_vars
=============================================================================
