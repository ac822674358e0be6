-------------------------- MODULE MemoryExecutions --------------------------
(***************************************************************************)
(* The in-memory execution queue: a map of entries, the order they were    *)
(* enqueued in, and a claim cursor that walks past decided entries at the  *)
(* head and never looks at them again.  Every method runs under the        *)
(* store's mutex, so each is one step.  The callers are whoever holds an   *)
(* AttemptID: a worker that still has its lease, one that lost it, or a    *)
(* caller presenting the zero value.                                       *)
(*                                                                         *)
(* An execution here is a (tenant, execution identity) key.                *)
(***************************************************************************)
EXTENDS Integers, Sequences

CONSTANTS Execution,
          MaxLapses,        \* bound: leases that run out
          MaxReattempts     \* bound: reattempts

ASSUME MemoryAssumption == MaxLapses \in Nat /\ MaxReattempts \in Nat

VARIABLES executions,       \* Store.executions
          executionOrder,   \* Store.executionOrder
          claimCursor,      \* Store.claimCursor: entries before it are skipped
          reply,            \* what the last outcome call was answered
          lapses, reattempts

storeVars == <<executions, executionOrder, claimCursor>>
vars == <<storeVars, reply, lapses, reattempts>>

Decided == {"succeeded", "failed"}

\* executionEntry; an absent map key is an entry with status "absent".
Entry == [status : {"absent", "pending", "running"} \cup Decided,
          lease : {"none", "live"}, attempt : Nat,
          result : {"none"} \cup Decided]

AbsentEntry == [status |-> "absent", lease |-> "none", attempt |-> 0,
                result |-> "none"]

Replies == {"none", "ok", "not_queued", "superseded"}

Terminal(e) == executions[e].status \in Decided

Init ==
  /\ executions = [e \in Execution |-> AbsentEntry]
  /\ executionOrder = << >>
  /\ claimCursor = 0
  /\ reply = "none"
  /\ lapses = 0
  /\ reattempts = 0

\* Idempotent: an entry already present is left alone, decided or not.
Enqueue(e) ==
  /\ IF executions[e].status = "absent"
     THEN /\ executions' = [executions EXCEPT ![e].status = "pending"]
          /\ executionOrder' = Append(executionOrder, e)
     ELSE UNCHANGED <<executions, executionOrder>>
  /\ UNCHANGED <<claimCursor, reply, lapses, reattempts>>

-----------------------------------------------------------------------------
Claimable(e) ==
  \/ executions[e].status = "pending"
  \/ executions[e].status = "running" /\ executions[e].lease = "none"

\* The first loop of Claim: c is the cursor once it has passed every decided
\* entry at the head.
AdvancesTo(c) ==
  /\ c \in claimCursor..Len(executionOrder)
  /\ \A i \in (claimCursor + 1)..c : Terminal(executionOrder[i])
  /\ c < Len(executionOrder) => ~Terminal(executionOrder[c + 1])

\* The second loop: the first claimable entry after the cursor is leased, or
\* there is none and only the cursor has moved.
ClaimFrom(c) ==
  \/ \E k \in (c + 1)..Len(executionOrder) :
       /\ Claimable(executionOrder[k])
       /\ \A i \in (c + 1)..(k - 1) : ~Claimable(executionOrder[i])
       /\ executions' = [executions EXCEPT
            ![executionOrder[k]].status = "running",
            ![executionOrder[k]].lease = "live",
            ![executionOrder[k]].attempt = @ + 1]
  \/ /\ \A k \in (c + 1)..Len(executionOrder) : ~Claimable(executionOrder[k])
     /\ UNCHANGED executions

Claim ==
  \E c \in 0..Len(executionOrder) :
    /\ AdvancesTo(c)
    /\ ClaimFrom(c)
    /\ claimCursor' = c
    /\ UNCHANGED <<executionOrder, reply, lapses, reattempts>>

-----------------------------------------------------------------------------
\* A variant that does not ask whether the execution is running.
OutcomeReplyByGeneration(e, a) ==
  IF executions[e].attempt # a THEN "superseded" ELSE "ok"

\* Who may report an outcome, in the order Complete and Fail ask: present,
\* not decided, running, and the generation that holds the execution.
OutcomeReply(e, a) ==
  IF executions[e].status # "running" THEN "not_queued"
  ELSE IF executions[e].attempt # a THEN "superseded" ELSE "ok"

Complete(e, a, s) ==
  /\ reply' = OutcomeReply(e, a)
  /\ IF OutcomeReply(e, a) = "ok"
     THEN executions' = [executions EXCEPT ![e].status = s, ![e].result = s,
                                           ![e].lease = "none"]
     ELSE UNCHANGED executions
  /\ UNCHANGED <<executionOrder, claimCursor, lapses, reattempts>>

Fail(e, a) ==
  /\ reply' = OutcomeReply(e, a)
  /\ IF OutcomeReply(e, a) = "ok"
     THEN executions' = [executions EXCEPT ![e].status = "failed",
                                           ![e].result = "none",
                                           ![e].lease = "none"]
     ELSE UNCHANGED executions
  /\ UNCHANGED <<executionOrder, claimCursor, lapses, reattempts>>

\* Variants that leave the cursor where it is, and that step back too far.
RewindNever(e) == UNCHANGED claimCursor
RewindTooFar(e) ==
  \E i \in DOMAIN executionOrder :
    /\ executionOrder[i] = e
    /\ claimCursor' = IF i <= claimCursor THEN i - 2 ELSE claimCursor

\* The cursor goes back to an entry it has already passed.
Rewind(e) ==
  \E i \in DOMAIN executionOrder :
    /\ executionOrder[i] = e
    /\ claimCursor' = IF i <= claimCursor THEN i - 1 ELSE claimCursor

Reattempt(e) ==
  /\ reattempts < MaxReattempts
  /\ executions[e].status = "failed"
  /\ executions[e].result = "none"
  /\ executions' = [executions EXCEPT ![e].status = "pending",
                                      ![e].lease = "none",
                                      ![e].attempt = @ + 1]
  /\ Rewind(e)
  /\ reattempts' = reattempts + 1
  /\ UNCHANGED <<executionOrder, reply, lapses>>

\* time.Now passes the entry's leaseExpiry.
LeaseLapses(e) ==
  /\ lapses < MaxLapses
  /\ executions[e].lease = "live"
  /\ executions' = [executions EXCEPT ![e].lease = "none"]
  /\ lapses' = lapses + 1
  /\ UNCHANGED <<executionOrder, claimCursor, reply, reattempts>>

\* An attempt somebody may hold: handed out by a claim, or the zero value.
Report(e) ==
  \E a \in 0..executions[e].attempt :
    Fail(e, a) \/ \E s \in Decided : Complete(e, a, s)

Next ==
  \/ Claim
  \/ \E e \in Execution :
       Enqueue(e) \/ Report(e) \/ Reattempt(e) \/ LeaseLapses(e)

Spec == Init /\ [][Next]_vars

\* The in-process worker keeps polling.
FairSpec == Spec /\ WF_vars(Claim)

-----------------------------------------------------------------------------
(* Properties.                                                             *)

\* Every variable keeps its type.
TypeOK ==
  /\ executions \in [Execution -> Entry]
  /\ executionOrder \in Seq(Execution)
  /\ claimCursor \in 0..Len(executionOrder)
  /\ reply \in Replies
  /\ lapses \in Nat
  /\ reattempts \in Nat

\* Claim skips the entries before the cursor for good, which is right only
\* while every one of them is decided: reattempting one must bring the cursor
\* back.
CursorSkipsOnlyDecided ==
  \A i \in 1..claimCursor : Terminal(executionOrder[i])

\* A pending execution is claimed however many claims, reports and reattempts
\* of others come between.
PendingIsServed ==
  \A e \in Execution :
    executions[e].status = "pending" ~> executions[e].status # "pending"

\* The queue implements the contract of ports.ExecutionStore.
Contract == INSTANCE ExecutionContract
  WITH status  <- [e \in Execution |-> executions[e].status],
       answer  <- [e \in Execution |-> executions[e].result],
       attempt <- [e \in Execution |-> executions[e].attempt]

ImplementsContract == Contract!Spec
=============================================================================
