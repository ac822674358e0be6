----------------------- MODULE MemoryExecutionsProofs -----------------------
(***************************************************************************)
(* The in-memory queue, for any executions and any number of leases and    *)
(* reattempts: its claim cursor skips decided entries only, and it         *)
(* implements the contract of ports.ExecutionStore.                        *)
(***************************************************************************)
EXTENDS MemoryExecutions, TLAPS

-----------------------------------------------------------------------------
(* The inductive invariant.                                                *)

\* An execution has one place in the order, and was enqueued.  Without it a
\* rewind to one place of a reattempted execution would leave another skipped.
OrderIsOnce ==
  /\ \A i, j \in 1..Len(executionOrder) :
        executionOrder[i] = executionOrder[j] => i = j
  /\ \A i \in 1..Len(executionOrder) :
        executions[executionOrder[i]].status # "absent"

\* Only a decided entry holds an answer.
UndecidedHasNoResult ==
  \A e \in Execution : ~Terminal(e) => executions[e].result = "none"

QueueInv == TypeOK /\ OrderIsOnce /\ UndecidedHasNoResult /\ CursorSkipsOnlyDecided

LEMMA QueueInit == Init => QueueInv
<1> SUFFICES ASSUME Init PROVE QueueInv
  OBVIOUS
<1>1. TypeOK
  BY DEF Init, TypeOK, AbsentEntry, Entry, Replies
<1> QED
  BY <1>1 DEF Init, QueueInv, OrderIsOnce, UndecidedHasNoResult, CursorSkipsOnlyDecided,
              AbsentEntry

\* The entries that Claim, an outcome and Reattempt leave behind.
ClaimedEntry(e) == [executions[e] EXCEPT !.status = "running", !.lease = "live", !.attempt = @ + 1]
ReportedEntry(e, s, r) == [executions[e] EXCEPT !.status = s, !.result = r, !.lease = "none"]
ReattemptedEntry(e) == [executions[e] EXCEPT !.status = "pending", !.lease = "none", !.attempt = @ + 1]

LEMMA EntriesLeft ==
  ASSUME TypeOK, NEW e \in Execution
  PROVE  /\ /\ ClaimedEntry(e) \in Entry /\ ClaimedEntry(e).status = "running"
            /\ ClaimedEntry(e).result = executions[e].result
            /\ ClaimedEntry(e).attempt = executions[e].attempt + 1
         /\ /\ ReattemptedEntry(e) \in Entry /\ ReattemptedEntry(e).status = "pending"
            /\ ReattemptedEntry(e).result = executions[e].result
            /\ ReattemptedEntry(e).attempt = executions[e].attempt + 1
         /\ \A s \in Decided, r \in {"none"} \cup Decided :
              /\ ReportedEntry(e, s, r) \in Entry /\ ReportedEntry(e, s, r).status = s
              /\ ReportedEntry(e, s, r).result = r
              /\ ReportedEntry(e, s, r).attempt = executions[e].attempt
<1>1. executions[e] \in Entry /\ executions[e].attempt + 1 \in Nat
  BY DEF TypeOK, Entry
<1>2. /\ ClaimedEntry(e) \in Entry /\ ClaimedEntry(e).status = "running"
      /\ ClaimedEntry(e).result = executions[e].result
      /\ ClaimedEntry(e).attempt = executions[e].attempt + 1
  <2>1. ClaimedEntry(e) \in Entry
    BY <1>1 DEF ClaimedEntry, Entry
  <2>2. ClaimedEntry(e).status = "running" /\ ClaimedEntry(e).result = executions[e].result
    BY <1>1 DEF ClaimedEntry, Entry
  <2>3. ClaimedEntry(e).attempt = executions[e].attempt + 1
    BY <1>1 DEF ClaimedEntry, Entry
  <2> QED
    BY <2>1, <2>2, <2>3
<1>3. /\ ReattemptedEntry(e) \in Entry /\ ReattemptedEntry(e).status = "pending"
      /\ ReattemptedEntry(e).result = executions[e].result
      /\ ReattemptedEntry(e).attempt = executions[e].attempt + 1
  <2>1. ReattemptedEntry(e) \in Entry
    BY <1>1 DEF ReattemptedEntry, Entry
  <2>2. ReattemptedEntry(e).status = "pending" /\ ReattemptedEntry(e).result = executions[e].result
    BY <1>1 DEF ReattemptedEntry, Entry
  <2>3. ReattemptedEntry(e).attempt = executions[e].attempt + 1
    BY <1>1 DEF ReattemptedEntry, Entry
  <2> QED
    BY <2>1, <2>2, <2>3
<1>4. ASSUME NEW s \in Decided, NEW r \in {"none"} \cup Decided
      PROVE  /\ ReportedEntry(e, s, r) \in Entry /\ ReportedEntry(e, s, r).status = s
             /\ ReportedEntry(e, s, r).result = r
             /\ ReportedEntry(e, s, r).attempt = executions[e].attempt
  <2>1. ReportedEntry(e, s, r) \in Entry
    BY <1>1 DEF ReportedEntry, Entry
  <2>2. ReportedEntry(e, s, r).status = s /\ ReportedEntry(e, s, r).result = r
    BY <1>1 DEF ReportedEntry, Entry
  <2>3. ReportedEntry(e, s, r).attempt = executions[e].attempt
    BY <1>1 DEF ReportedEntry, Entry
  <2> QED
    BY <2>1, <2>2, <2>3
<1> QED
  BY <1>2, <1>3, <1>4

\* What becomes of the queue's entries when one of them is rewritten.
LEMMA OneEntry ==
  ASSUME TypeOK, NEW e \in Execution, NEW entry \in Entry, executions' = [executions EXCEPT ![e] = entry]
  PROVE  /\ executions' \in [Execution -> Entry]
         /\ executions'[e] = entry
         /\ \A f \in Execution : f # e => executions'[f] = executions[f]
BY DEF TypeOK

\* A new execution goes to the end of the order, where no cursor has been; a known one changes nothing.
LEMMA EnqueueKeeps ==
  ASSUME QueueInv, NEW e \in Execution, Enqueue(e) PROVE QueueInv'
<1> USE DEF QueueInv
<1>1. CASE executions[e].status # "absent"
  <2>1. UNCHANGED vars
    BY <1>1 DEF Enqueue, vars, storeVars
  <2> QED
    BY <2>1 DEF TypeOK, OrderIsOnce, UndecidedHasNoResult, CursorSkipsOnlyDecided, Terminal,
                vars, storeVars
<1>2. CASE executions[e].status = "absent"
  <2> DEFINE n == Len(executionOrder)
  <2>1. /\ executions' = [executions EXCEPT ![e].status = "pending"]
        /\ executionOrder' = Append(executionOrder, e)
        /\ UNCHANGED <<claimCursor, reply, lapses, reattempts>>
    BY <1>2 DEF Enqueue
  <2>2. /\ n \in Nat /\ Len(executionOrder') = n + 1 /\ executionOrder'[n + 1] = e
        /\ \A i \in 1..n : executionOrder'[i] = executionOrder[i] /\ executionOrder[i] \in Execution
    BY <2>1 DEF TypeOK
  <2>3. \A i \in 1..n : executionOrder[i] # e
    BY <1>2, <2>2 DEF OrderIsOnce
  <2>4. TypeOK'
    <3>1. executions' \in [Execution -> Entry]
      BY <2>1 DEF TypeOK, Entry
    <3>2. executionOrder' \in Seq(Execution)
      BY <2>1 DEF TypeOK
    <3> QED
      BY <2>1, <2>2, <3>1, <3>2 DEF TypeOK
  <2>5. OrderIsOnce'
    BY <2>1, <2>2, <2>3 DEF OrderIsOnce, TypeOK
  <2>6. UndecidedHasNoResult'
    BY <1>2, <2>1 DEF UndecidedHasNoResult, TypeOK, Terminal, Decided
  <2>7. CursorSkipsOnlyDecided'
    BY <2>1, <2>2, <2>3 DEF CursorSkipsOnlyDecided, TypeOK, Terminal
  <2> QED
    BY <2>4, <2>5, <2>6, <2>7
<1> QED
  BY <1>1, <1>2

\* Claim moves the cursor past decided entries only, and stops at the first that is not.
LEMMA ClaimKeeps == ASSUME QueueInv, Claim PROVE QueueInv'
<1> USE DEF QueueInv
<1>1. PICK c \in 0..Len(executionOrder) :
        /\ AdvancesTo(c) /\ ClaimFrom(c) /\ claimCursor' = c
        /\ UNCHANGED <<executionOrder, reply, lapses, reattempts>>
  BY DEF Claim
<1>2. Len(executionOrder) \in Nat /\ \A i \in 1..Len(executionOrder) : executionOrder[i] \in Execution
  BY DEF TypeOK
\* The entries the cursor passes are decided, old and new.
<1>3. \A i \in 1..c : Terminal(executionOrder[i])
  BY <1>1, <1>2 DEF AdvancesTo, CursorSkipsOnlyDecided, TypeOK
<1>4. CASE UNCHANGED executions
  BY <1>1, <1>2, <1>3, <1>4
     DEF TypeOK, OrderIsOnce, UndecidedHasNoResult, CursorSkipsOnlyDecided, Terminal
<1>5. ASSUME NEW k \in (c + 1)..Len(executionOrder), Claimable(executionOrder[k]),
             executions' = [executions EXCEPT ![executionOrder[k]].status = "running",
                                              ![executionOrder[k]].lease = "live",
                                              ![executionOrder[k]].attempt = @ + 1]
      PROVE  QueueInv'
  <2> DEFINE e == executionOrder[k]
  <2>1. e \in Execution /\ executions[e] \in Entry /\ ~Terminal(e) /\ executions[e].status # "absent"
    BY <1>2, <1>5 DEF Claimable, Terminal, Decided, TypeOK
  <2> HIDE DEF e
  <2>8. executions' = [executions EXCEPT ![e] = ClaimedEntry(e)]
    BY <1>5 DEF ClaimedEntry, e
  <2>2. /\ executions'[e] = ClaimedEntry(e)
        /\ \A f \in Execution : f # e => executions'[f] = executions[f]
        /\ executions' \in [Execution -> Entry]
    BY <2>1, <2>8, EntriesLeft, OneEntry
  <2>3. executions'[e].status = "running" /\ executions'[e].result = executions[e].result
    BY <2>1, <2>2, EntriesLeft
  <2>4. TypeOK'
    BY <1>1, <2>2 DEF TypeOK
  <2>5. OrderIsOnce'
    BY <1>1, <1>2, <2>2, <2>3 DEF OrderIsOnce
  <2>6. UndecidedHasNoResult'
    BY <2>1, <2>2, <2>3 DEF UndecidedHasNoResult, Terminal
  <2>7. CursorSkipsOnlyDecided'
    BY <1>1, <1>2, <1>3, <2>1, <2>2 DEF CursorSkipsOnlyDecided, Terminal
  <2> QED
    BY <2>4, <2>5, <2>6, <2>7
<1> QED
  BY <1>1, <1>4, <1>5 DEF ClaimFrom

\* Reporting an outcome and losing a lease change one entry that is not decided, and not to
\* absent or to an undecided entry with an answer.
LEMMA EntryKeeps ==
  ASSUME QueueInv, NEW e \in Execution, NEW entry \in Entry, ~Terminal(e),
         entry.status # "absent", entry.status \notin Decided => entry.result = "none",
         executions' = [executions EXCEPT ![e] = entry],
         UNCHANGED <<executionOrder, claimCursor>>, reply' \in Replies, lapses' \in Nat,
         reattempts' \in Nat
  PROVE  QueueInv'
<1> USE DEF QueueInv
<1>1. /\ executions'[e] = entry /\ executions' \in [Execution -> Entry]
      /\ \A f \in Execution : f # e => executions'[f] = executions[f]
  BY DEF TypeOK
<1>2. Len(executionOrder) \in Nat /\ \A i \in 1..Len(executionOrder) : executionOrder[i] \in Execution
  BY DEF TypeOK
<1>3. TypeOK'
  BY <1>1 DEF TypeOK
<1>4. OrderIsOnce'
  BY <1>1, <1>2 DEF OrderIsOnce
<1>5. UndecidedHasNoResult'
  BY <1>1 DEF UndecidedHasNoResult, Terminal
<1>6. CursorSkipsOnlyDecided'
  BY <1>1, <1>2 DEF CursorSkipsOnlyDecided, Terminal, TypeOK
<1> QED
  BY <1>3, <1>4, <1>5, <1>6

\* A call that only answers.
LEMMA QueueStutters == QueueInv /\ UNCHANGED storeVars /\ reply' \in Replies /\ lapses' \in Nat
                         /\ reattempts' \in Nat => QueueInv'
BY DEF QueueInv, TypeOK, OrderIsOnce, UndecidedHasNoResult, CursorSkipsOnlyDecided, Terminal, storeVars

\* A report decides the entry or is refused; what is decided stays behind the cursor.
LEMMA OutcomeKeeps ==
  ASSUME QueueInv, NEW e \in Execution, NEW a,
         Fail(e, a) \/ \E s \in Decided : Complete(e, a, s)
  PROVE  QueueInv'
<1>1. OutcomeReply(e, a) \in Replies
  BY DEF OutcomeReply, Replies
<1>2. CASE OutcomeReply(e, a) # "ok"
  <2>1. UNCHANGED storeVars /\ reply' \in Replies /\ UNCHANGED <<lapses, reattempts>>
    BY <1>1, <1>2 DEF Fail, Complete, storeVars
  <2> QED
    BY <2>1, QueueStutters DEF QueueInv, TypeOK
<1>3. CASE OutcomeReply(e, a) = "ok"
  <2>1. executions[e].status = "running" /\ ~Terminal(e) /\ executions[e] \in Entry
    BY <1>3 DEF OutcomeReply, Terminal, Decided, QueueInv, TypeOK
  <2>2. PICK s \in Decided, r \in {"none"} \cup Decided :
          executions' = [executions EXCEPT ![e].status = s, ![e].result = r, ![e].lease = "none"]
    <3>1. ASSUME Fail(e, a)
          PROVE  executions' = [executions EXCEPT ![e].status = "failed", ![e].result = "none", ![e].lease = "none"]
      BY <1>3, <3>1 DEF Fail
    <3>2. ASSUME NEW s \in Decided, Complete(e, a, s)
          PROVE  executions' = [executions EXCEPT ![e].status = s, ![e].result = s, ![e].lease = "none"]
      BY <1>3, <3>2 DEF Complete
    <3>3. "failed" \in Decided /\ Decided \subseteq {"none"} \cup Decided /\ "none" \in {"none"} \cup Decided
      BY DEF Decided
    <3> QED
      BY <3>1, <3>2, <3>3, Zenon
  <2> DEFINE entry == ReportedEntry(e, s, r)
  <2>3. entry \in Entry /\ entry.status = s
    BY EntriesLeft DEF QueueInv
  <2>4. UNCHANGED <<executionOrder, claimCursor, lapses, reattempts>> /\ reply' \in Replies
    BY <1>1 DEF Fail, Complete
  <2>5. executions' = [executions EXCEPT ![e] = entry]
    BY <2>2 DEF ReportedEntry
  <2>6. lapses' \in Nat /\ reattempts' \in Nat
    BY <2>4 DEF QueueInv, TypeOK
  <2>7. entry.status # "absent" /\ entry.status \in Decided
    BY <2>3 DEF Decided
  <2> HIDE DEF entry
  <2> QED
    BY <2>1, <2>3, <2>4, <2>5, <2>6, <2>7, EntryKeeps
<1> QED
  BY <1>2, <1>3

\* A lapsed lease is not a status: the entry is as undecided as before.
LEMMA LapseKeeps ==
  ASSUME QueueInv, NEW e \in Execution, LeaseLapses(e) PROVE QueueInv'
<1> USE DEF QueueInv
<1>1. executions[e] \in Entry
  BY DEF TypeOK
<1>2. /\ executions' \in [Execution -> Entry]
      /\ \A f \in Execution : /\ executions'[f].status = executions[f].status
                              /\ executions'[f].result = executions[f].result
  BY <1>1 DEF LeaseLapses, TypeOK, Entry
<1>3. Len(executionOrder) \in Nat /\ \A i \in 1..Len(executionOrder) : executionOrder[i] \in Execution
  BY DEF TypeOK
<1>4. /\ UNCHANGED <<executionOrder, claimCursor, reply, reattempts>> /\ lapses' = lapses + 1
  BY DEF LeaseLapses
<1> QED
  BY <1>2, <1>3, <1>4 DEF TypeOK, OrderIsOnce, UndecidedHasNoResult, CursorSkipsOnlyDecided, Terminal

\* Reattempt makes a decided entry pending and brings the cursor back before it.
LEMMA ReattemptKeeps ==
  ASSUME QueueInv, NEW e \in Execution, Reattempt(e) PROVE QueueInv'
<1> USE DEF QueueInv
<1>1. executions[e] \in Entry /\ executions[e].result = "none"
  BY DEF TypeOK, Reattempt
<1>2. /\ executions' \in [Execution -> Entry]
      /\ executions'[e].status = "pending" /\ executions'[e].result = "none"
      /\ \A f \in Execution : f # e => executions'[f] = executions[f]
  <2>1. executions' = [executions EXCEPT ![e] = ReattemptedEntry(e)]
    BY DEF Reattempt, ReattemptedEntry
  <2> QED
    BY <1>1, <2>1, EntriesLeft, OneEntry
<1>3. UNCHANGED <<executionOrder, reply, lapses>> /\ reattempts' = reattempts + 1
  BY DEF Reattempt
<1>4. PICK i \in 1..Len(executionOrder) :
        /\ executionOrder[i] = e
        /\ claimCursor' = IF i <= claimCursor THEN i - 1 ELSE claimCursor
  BY DEF Reattempt, Rewind, TypeOK
<1>5. Len(executionOrder) \in Nat /\ \A j \in 1..Len(executionOrder) : executionOrder[j] \in Execution
  BY DEF TypeOK
<1>6. claimCursor' \in 0..Len(executionOrder) /\ claimCursor' < i /\ claimCursor' <= claimCursor
  BY <1>4, <1>5 DEF TypeOK
<1>7. TypeOK'
  BY <1>2, <1>3, <1>6 DEF TypeOK
<1>8. OrderIsOnce'
  BY <1>2, <1>3, <1>5 DEF OrderIsOnce
<1>9. UndecidedHasNoResult'
  BY <1>2 DEF UndecidedHasNoResult, Terminal
<1>10. CursorSkipsOnlyDecided'
  <2> SUFFICES ASSUME NEW j \in 1..claimCursor' PROVE Terminal(executionOrder[j])'
    BY DEF CursorSkipsOnlyDecided
  <2>1. j \in 1..claimCursor /\ j \in 1..Len(executionOrder) /\ j # i
    BY <1>6 DEF TypeOK
  <2>2. executionOrder[j] # e
    BY <1>4, <2>1 DEF OrderIsOnce
  <2> QED
    BY <1>2, <1>3, <1>5, <2>1, <2>2 DEF CursorSkipsOnlyDecided, Terminal
<1> QED
  BY <1>7, <1>8, <1>9, <1>10

\* Every step keeps the invariant.
LEMMA QueueStep == QueueInv /\ [Next]_vars => QueueInv'
<1> SUFFICES ASSUME QueueInv, [Next]_vars PROVE QueueInv'
  OBVIOUS
<1>1. CASE UNCHANGED vars
  BY <1>1, QueueStutters DEF vars, storeVars, QueueInv, TypeOK
<1>2. ASSUME NEW e \in Execution, Report(e) PROVE QueueInv'
  BY <1>2, OutcomeKeeps DEF Report
<1> QED
  BY <1>1, <1>2, ClaimKeeps, EnqueueKeeps, ReattemptKeeps, LapseKeeps DEF Next

LEMMA QueueAlways == Spec => []QueueInv
BY QueueInit, QueueStep, PTL DEF Spec

\* Every variable of the memory store keeps its type.
THEOREM QueueTypeCorrect == Spec => []TypeOK
<1>1. QueueInv => TypeOK
  BY DEF QueueInv
<1> QED
  BY <1>1, QueueAlways, PTL

\* Whatever is enqueued, claimed, reported and reattempted, in any order, the
\* cursor of Claim never leaves an execution behind that could still be claimed.
THEOREM CursorNeverSkipsWork == Spec => []CursorSkipsOnlyDecided
<1>1. QueueInv => CursorSkipsOnlyDecided
  BY DEF QueueInv
<1> QED
  BY <1>1, QueueAlways, PTL

-----------------------------------------------------------------------------
(* The contract.                                                           *)

\* The variables of the contract, as the entries hold them.
Held == <<[e \in Execution |-> executions[e].status],
          [e \in Execution |-> executions[e].result],
          [e \in Execution |-> executions[e].attempt]>>

\* What one rewritten entry is to the contract.
LEMMA HeldChange ==
  ASSUME NEW before \in [Execution -> Entry], NEW e \in Execution, NEW entry \in Entry,
         NEW after, after = [before EXCEPT ![e] = entry]
  PROVE  /\ [f \in Execution |-> after[f].status]
              = [[f \in Execution |-> before[f].status] EXCEPT ![e] = entry.status]
         /\ [f \in Execution |-> after[f].result]
              = [[f \in Execution |-> before[f].result] EXCEPT ![e] = entry.result]
         /\ [f \in Execution |-> after[f].attempt]
              = [[f \in Execution |-> before[f].attempt] EXCEPT ![e] = entry.attempt]
         /\ entry.result = before[e].result =>
              [f \in Execution |-> after[f].result] = [f \in Execution |-> before[f].result]
         /\ entry.attempt = before[e].attempt =>
              [f \in Execution |-> after[f].attempt] = [f \in Execution |-> before[f].attempt]
<1>1. \A f \in Execution : after[f] = IF f = e THEN entry ELSE before[f]
  OBVIOUS
<1>2. entry.result = before[e].result => \A f \in Execution : after[f].result = before[f].result
  BY <1>1
<1>3. entry.attempt = before[e].attempt => \A f \in Execution : after[f].attempt = before[f].attempt
  BY <1>1
<1>4. /\ [f \in Execution |-> after[f].status]
            = [[f \in Execution |-> before[f].status] EXCEPT ![e] = entry.status]
      /\ [f \in Execution |-> after[f].result]
            = [[f \in Execution |-> before[f].result] EXCEPT ![e] = entry.result]
      /\ [f \in Execution |-> after[f].attempt]
            = [[f \in Execution |-> before[f].attempt] EXCEPT ![e] = entry.attempt]
  OBVIOUS
<1> QED
  BY <1>2, <1>3, <1>4

\* Every step of the queue is a step of the contract, or one the contract does not see.
LEMMA QueueContractStep ==
  ASSUME QueueInv, [Next]_vars PROVE [Contract!Next]_Held
<1> SUFFICES Contract!Next \/ UNCHANGED Held
  OBVIOUS
<1> USE DEF QueueInv, Held
<1>1. CASE UNCHANGED vars
  BY <1>1 DEF vars, storeVars
<1>2. ASSUME NEW e \in Execution, Enqueue(e) PROVE Contract!Next \/ UNCHANGED Held
  <2>1. CASE executions[e].status # "absent"
    BY <1>2, <2>1 DEF Enqueue
  <2>2. CASE executions[e].status = "absent"
    <3>0. executions \in [Execution -> Entry]
      BY DEF TypeOK
    <3> DEFINE entry == [executions[e] EXCEPT !.status = "pending"]
    <3>1. entry \in Entry /\ entry.status = "pending" /\ entry.result = executions[e].result
          /\ entry.attempt = executions[e].attempt
      BY DEF TypeOK, Entry
    <3>2. executions' = [executions EXCEPT ![e] = entry]
      BY <1>2, <2>2 DEF Enqueue
    <3> HIDE DEF entry
    <3>3. Contract!Enqueue(e)
      BY <2>2, <3>0, <3>1, <3>2, HeldChange DEF Contract!Enqueue
    <3> QED
      BY <3>3 DEF Contract!Next
  <2> QED
    BY <2>1, <2>2
<1>3. CASE Claim
  <2>1. PICK c \in 0..Len(executionOrder) : ClaimFrom(c)
    BY <1>3 DEF Claim
  <2>2. ASSUME NEW k \in (c + 1)..Len(executionOrder), Claimable(executionOrder[k]),
               executions' = [executions EXCEPT ![executionOrder[k]].status = "running",
                                                ![executionOrder[k]].lease = "live",
                                                ![executionOrder[k]].attempt = @ + 1]
        PROVE  Contract!Next
    <3>1. PICK e \in Execution : e = executionOrder[k] /\ executions[e].status \in {"pending", "running"}
      BY <2>2 DEF TypeOK, Claimable
    <3>2. executions' = [executions EXCEPT ![e] = ClaimedEntry(e)]
      BY <2>2, <3>1 DEF ClaimedEntry
    <3>4. executions \in [Execution -> Entry]
      BY DEF TypeOK
    <3>3. /\ [f \in Execution |-> executions'[f].status]
                = [[f \in Execution |-> executions[f].status] EXCEPT ![e] = "running"]
          /\ [f \in Execution |-> executions'[f].result] = [f \in Execution |-> executions[f].result]
          /\ [f \in Execution |-> executions'[f].attempt]
                = [[f \in Execution |-> executions[f].attempt] EXCEPT ![e] = executions[e].attempt + 1]
      <4> DEFINE entry == ClaimedEntry(e)
      <4>1. /\ entry \in Entry /\ entry.status = "running" /\ entry.result = executions[e].result
            /\ entry.attempt = executions[e].attempt + 1
        BY EntriesLeft
      <4> HIDE DEF entry
      <4>2. executions' = [executions EXCEPT ![e] = entry]
        BY <3>2 DEF entry
      <4> QED
        BY <3>4, <4>1, <4>2, HeldChange
    <3>5. Contract!Claim(e)
      BY <3>1, <3>3 DEF Contract!Claim
    <3> QED
      BY <3>1, <3>5 DEF Contract!Next
  <2> QED
    BY <2>1, <2>2 DEF ClaimFrom
<1>4. ASSUME NEW e \in Execution, Report(e) PROVE Contract!Next \/ UNCHANGED Held
  <2>1. PICK a \in 0..executions[e].attempt : Fail(e, a) \/ \E s \in Decided : Complete(e, a, s)
    BY <1>4 DEF Report
  <2>2. CASE OutcomeReply(e, a) # "ok"
    BY <2>1, <2>2 DEF Fail, Complete
  <2>3. CASE OutcomeReply(e, a) = "ok"
    <3>1. executions[e].status = "running" /\ executions[e].result = "none"
      BY <2>3 DEF OutcomeReply, UndecidedHasNoResult, Terminal, Decided
    <3>4. executions \in [Execution -> Entry] /\ "failed" \in Decided
      BY DEF TypeOK, Decided
    <3>2. ASSUME Fail(e, a) PROVE Contract!Fail(e)
      <4>1. executions' = [executions EXCEPT ![e] = ReportedEntry(e, "failed", "none")]
        BY <2>3, <3>2 DEF Fail, ReportedEntry
      <4>2. /\ [f \in Execution |-> executions'[f].status]
                  = [[f \in Execution |-> executions[f].status] EXCEPT ![e] = "failed"]
            /\ [f \in Execution |-> executions'[f].result] = [f \in Execution |-> executions[f].result]
            /\ [f \in Execution |-> executions'[f].attempt] = [f \in Execution |-> executions[f].attempt]
        <5> DEFINE entry == ReportedEntry(e, "failed", "none")
        <5>1. /\ entry \in Entry /\ entry.status = "failed" /\ entry.result = executions[e].result
              /\ entry.attempt = executions[e].attempt
          BY <3>1, <3>4, EntriesLeft
        <5> HIDE DEF entry
        <5>2. executions' = [executions EXCEPT ![e] = entry]
          BY <4>1 DEF entry
        <5> QED
          BY <3>4, <5>1, <5>2, HeldChange
      <4> QED
        BY <3>1, <4>2 DEF Contract!Fail
    <3>3. ASSUME NEW s \in Decided, Complete(e, a, s) PROVE Contract!Complete(e, s)
      <4>1. executions' = [executions EXCEPT ![e] = ReportedEntry(e, s, s)]
        BY <2>3, <3>3 DEF Complete, ReportedEntry
      <4>2. /\ [f \in Execution |-> executions'[f].status]
                  = [[f \in Execution |-> executions[f].status] EXCEPT ![e] = s]
            /\ [f \in Execution |-> executions'[f].result]
                  = [[f \in Execution |-> executions[f].result] EXCEPT ![e] = s]
            /\ [f \in Execution |-> executions'[f].attempt] = [f \in Execution |-> executions[f].attempt]
        <5> DEFINE entry == ReportedEntry(e, s, s)
        <5>1. /\ entry \in Entry /\ entry.status = s /\ entry.result = s
              /\ entry.attempt = executions[e].attempt
          BY EntriesLeft
        <5> HIDE DEF entry
        <5>2. executions' = [executions EXCEPT ![e] = entry]
          BY <4>1 DEF entry
        <5> QED
          BY <3>4, <5>1, <5>2, HeldChange
      <4> QED
        BY <3>1, <4>2 DEF Contract!Complete
    <3> QED
      BY <2>1, <3>2, <3>3 DEF Contract!Next, Contract!Decided, Decided
  <2> QED
    BY <2>2, <2>3
<1>5. ASSUME NEW e \in Execution, Reattempt(e) PROVE Contract!Next
  <2>2. executions' = [executions EXCEPT ![e] = ReattemptedEntry(e)]
    BY <1>5 DEF Reattempt, ReattemptedEntry
  <2>3. executions \in [Execution -> Entry]
    BY DEF TypeOK
  <2>4. /\ [f \in Execution |-> executions'[f].status]
              = [[f \in Execution |-> executions[f].status] EXCEPT ![e] = "pending"]
        /\ [f \in Execution |-> executions'[f].result] = [f \in Execution |-> executions[f].result]
        /\ [f \in Execution |-> executions'[f].attempt]
              = [[f \in Execution |-> executions[f].attempt] EXCEPT ![e] = executions[e].attempt + 1]
    <3> DEFINE entry == ReattemptedEntry(e)
    <3>1. /\ entry \in Entry /\ entry.status = "pending" /\ entry.result = executions[e].result
          /\ entry.attempt = executions[e].attempt + 1
      BY EntriesLeft
    <3> HIDE DEF entry
    <3>2. executions' = [executions EXCEPT ![e] = entry]
      BY <2>2 DEF entry
    <3> QED
      BY <2>3, <3>1, <3>2, HeldChange
  <2>1. Contract!Reattempt(e)
    BY <1>5, <2>4 DEF Reattempt, Contract!Reattempt
  <2> QED
    BY <2>1 DEF Contract!Next
<1>6. ASSUME NEW e \in Execution, LeaseLapses(e) PROVE UNCHANGED Held
  BY <1>6 DEF LeaseLapses, TypeOK, Entry
<1> QED
  BY <1>1, <1>2, <1>3, <1>4, <1>5, <1>6 DEF Next

\* The memory store implements the contract every adapter owes, as the Postgres
\* one does: cursor, leases and superseded reports are invisible in it.
THEOREM MemoryImplementsContract == Spec => ImplementsContract
<1>1. Init => Contract!Init
  BY DEF Init, AbsentEntry, Contract!Init
<1>2. QueueInv /\ [Next]_vars => [Contract!Next]_Held
  BY QueueContractStep
<1> QED
  BY <1>1, <1>2, QueueAlways, PTL DEF Spec, ImplementsContract, Contract!Spec, Contract!vars, Held
=============================================================================
