------------------------- MODULE PostgresExecutions -------------------------
(***************************************************************************)
(* The executions table of the Postgres adapter, one operator per SQL      *)
(* statement and one variable per column.  A statement is atomic; what the *)
(* Go code does between two statements is not, so a method that issues two *)
(* of them (Claim followed by retire, a refused Complete followed by its   *)
(* classification) is two steps of the modules that use this one.          *)
(*                                                                         *)
(* now() and lease_expires_at are abstracted to the set of rows whose      *)
(* lease is live.  failure_reason is left out: it is written with every    *)
(* status and nothing branches on it.                                      *)
(***************************************************************************)
EXTENDS Naturals, Sequences

CONSTANT Execution

VARIABLES status,     \* status, or "absent" where there is no row
          leased,      \* the rows with a lease_expires_at still ahead
          attempt,     \* current_attempt_id
          result,      \* the stored result's status, or "none" for NULL
          enqueued     \* the row identities in enqueued_at order

row   == <<status, leased, attempt, result>>
table == <<row, enqueued>>

Decided == {"succeeded", "failed"}
Status  == {"absent", "pending", "running"} \cup Decided
Results == {"none"} \cup Decided

StoreTypeOK ==
  /\ status \in [Execution -> Status]
  /\ leased \in SUBSET Execution
  /\ attempt \in [Execution -> Nat]
  /\ result \in [Execution -> Results]
  /\ enqueued \in Seq(Execution)

StoreInit ==
  /\ status = [e \in Execution |-> "absent"]
  /\ leased = {}
  /\ attempt = [e \in Execution |-> 0]
  /\ result = [e \in Execution |-> "none"]
  /\ enqueued = << >>

-----------------------------------------------------------------------------
\* INSERT ... ON CONFLICT (tenant_id, execution_id) DO NOTHING.
Enqueue(e) ==
  \/ /\ status[e] = "absent"
     /\ status' = [status EXCEPT ![e] = "pending"]
     /\ enqueued' = Append(enqueued, e)
     /\ UNCHANGED <<leased, attempt, result>>
  \/ /\ status[e] # "absent"
     /\ UNCHANGED table

\* Variants of the claim's WHERE clause: without the lease, without the
\* status, and without the running rows whose lease ran out.
ClaimableUnderLease(e) == status[e] \in {"pending", "running"}
ClaimableDecided(e) == status[e] # "absent" /\ e \notin leased
ClaimablePendingOnly(e) == status[e] = "pending"

Claimable(e) ==
  \/ status[e] = "pending"
  \/ status[e] = "running" /\ e \notin leased

\* ORDER BY enqueued_at LIMIT 1 over the claimable rows.
OldestClaimable(e) ==
  \E i \in DOMAIN enqueued :
    /\ enqueued[i] = e
    /\ Claimable(e)
    /\ \A j \in 1..(i - 1) : ~Claimable(enqueued[j])

\* A variant of the claim that reuses the generation of the previous one.
ClaimRowSameGeneration(e) ==
  /\ status' = [status EXCEPT ![e] = "running"]
  /\ leased' = leased \cup {e}
  /\ UNCHANGED <<attempt, result, enqueued>>

\* The claiming UPDATE: running, leased, and a generation of its own.
ClaimRow(e) ==
  /\ status' = [status EXCEPT ![e] = "running"]
  /\ leased' = leased \cup {e}
  /\ attempt' = [attempt EXCEPT ![e] = @ + 1]
  /\ UNCHANGED <<result, enqueued>>

\* retire's UPDATE.  Its WHERE clause names the row and nothing else: neither
\* the status nor the generation of the row is looked at.
RetireRow(e) ==
  /\ status' = [status EXCEPT ![e] = "failed"]
  /\ leased' = leased \ {e}
  /\ result' = [result EXCEPT ![e] = "none"]
  /\ UNCHANGED <<attempt, enqueued>>

\* A variant of the outcome's WHERE clause that does not ask whose row it is.
HeldByAnyone(e, a) == status[e] = "running"

\* The WHERE clause of Complete and of Fail.
HeldBy(e, a) == status[e] = "running" /\ attempt[e] = a

CompleteRow(e, a, s) ==
  /\ HeldBy(e, a)
  /\ status' = [status EXCEPT ![e] = s]
  /\ leased' = leased \ {e}
  /\ result' = [result EXCEPT ![e] = s]
  /\ UNCHANGED <<attempt, enqueued>>

FailRow(e, a) ==
  /\ HeldBy(e, a)
  /\ status' = [status EXCEPT ![e] = "failed"]
  /\ leased' = leased \ {e}
  /\ result' = [result EXCEPT ![e] = "none"]
  /\ UNCHANGED <<attempt, enqueued>>

\* classifyRefusedOutcome: a second statement, run after the refused UPDATE.
Refusal(e, a) == IF attempt[e] # a THEN "superseded" ELSE "not_queued"

\* A variant of the eligibility test that does not ask for a NULL result.
ReattemptableAnswered(e) == status[e] = "failed"

Reattemptable(e) == status[e] = "failed" /\ result[e] = "none"

ReattemptRow(e) ==
  /\ Reattemptable(e)
  /\ status' = [status EXCEPT ![e] = "pending"]
  /\ leased' = leased \ {e}
  /\ attempt' = [attempt EXCEPT ![e] = @ + 1]
  /\ UNCHANGED <<result, enqueued>>

\* now() passes lease_expires_at.
ExpireLease(e) ==
  /\ e \in leased
  /\ leased' = leased \ {e}
  /\ UNCHANGED <<status, attempt, result, enqueued>>
=============================================================================
