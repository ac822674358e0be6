---------------------------- MODULE PatchMachine ----------------------------
(***************************************************************************)
(* ApplyPatch and UndoPatch over one patch, an operation at a time.  The   *)
(* operations of the patch are chosen as the loop reaches them, in any     *)
(* canonical order: by rank, and in any order within a rank, where the     *)
(* code sorts by the bytes of the payloads.                                *)
(*                                                                         *)
(* trail is a history of the candidates the application went through; its  *)
(* first state is the predecessor and its last the result the receipt      *)
(* binds.                                                                  *)
(***************************************************************************)
EXTENDS Patch

CONSTANT MaxOperations      \* bound: operations in a patch

ASSUME MachineAssumption == MaxOperations \in Nat

VARIABLES pc,       \* where the application or the undo is
          work,     \* the isolated candidate, or the state of the outcome
          patch,    \* the operations, in canonical order
          trail,    \* the candidates so far
          index     \* the operations still to undo

vars == <<pc, work, patch, trail, index>>

Predecessor == trail[1]
Result == trail[Len(trail)]

Init ==
  /\ \E s \in State : Closed(s) /\ work = s /\ trail = <<s>>
  /\ patch = << >>
  /\ index = 0
  /\ pc = "applying"

InOrder(op) == patch # << >> => Rank(patch[Len(patch)]) <= Rank(op)

\* One turn of ApplyPatch's loop: a rejection returns the predecessor.
ApplyOperation(op) ==
  /\ pc = "applying"
  /\ Len(patch) < MaxOperations
  /\ InOrder(op)
  /\ \/ /\ Refusal(op, work) = "none"
        /\ work' = Staged(op, work)
        /\ patch' = Append(patch, op)
        /\ trail' = Append(trail, Staged(op, work))
        /\ UNCHANGED pc
     \/ /\ Refusal(op, work) # "none"
        /\ pc' = "rejected"
        /\ work' = Predecessor
        /\ UNCHANGED <<patch, trail>>
  /\ UNCHANGED index

\* A variant without the search for dangling relations.
FinishUnchecked ==
  /\ pc = "applying"
  /\ patch # << >>
  /\ pc' = "accepted"
  /\ UNCHANGED <<work, patch, trail, index>>

\* The dangling-relation check, the new state and its receipt.
FinishApply ==
  /\ pc = "applying"
  /\ patch # << >>
  /\ \/ Closed(work) /\ pc' = "accepted" /\ UNCHANGED work
     \/ ~Closed(work) /\ pc' = "rejected" /\ work' = Predecessor
  /\ UNCHANGED <<patch, trail, index>>

\* UndoPatch is given the state and the patch its receipt names.
BeginUndo ==
  /\ pc = "accepted"
  /\ pc' = "undoing"
  /\ index' = Len(patch)
  /\ UNCHANGED <<work, patch, trail>>

\* One turn of UndoPatch's loop, from the last operation to the first: a
\* rejection returns the state it was given.
UndoOperation ==
  /\ pc = "undoing"
  /\ index > 0
  /\ \/ /\ UndoRefusal(patch[index], work) = "none"
        /\ work' = Unstaged(patch[index], work)
        /\ index' = index - 1
        /\ UNCHANGED pc
     \/ /\ UndoRefusal(patch[index], work) # "none"
        /\ pc' = "undo_rejected"
        /\ work' = Result
        /\ UNCHANGED index
  /\ UNCHANGED <<patch, trail>>

\* NewState, and the comparison with the predecessor the receipt binds.
FinishUndo ==
  /\ pc = "undoing"
  /\ index = 0
  /\ \/ Closed(work) /\ work = Predecessor /\ pc' = "undone" /\ UNCHANGED work
     \/ ~(Closed(work) /\ work = Predecessor) /\ pc' = "undo_failed" /\ work' = Result
  /\ UNCHANGED <<patch, trail, index>>

Next ==
  \/ \E op \in Operation : ApplyOperation(op)
  \/ FinishApply \/ BeginUndo \/ UndoOperation \/ FinishUndo

Spec == Init /\ [][Next]_vars

-----------------------------------------------------------------------------
(* Properties.                                                             *)

\* Every variable keeps its type.
TypeOK ==
  /\ pc \in {"applying", "accepted", "rejected", "undoing", "undone",
             "undo_rejected", "undo_failed"}
  /\ work \in State
  /\ patch \in Seq(Operation)
  /\ trail \in Seq(State)
  /\ index \in Nat

\* An outcome is a graph NewState accepts, whether the patch was accepted,
\* rejected half way or undone: no relation of it dangles, though candidates
\* in between may have dangling ones.
OutcomesAreClosed == pc \notin {"applying", "undoing"} => Closed(work)

\* An accepted patch can be undone: no operation's inverse is refused, though
\* it meets a candidate that operations after it have changed back, and the
\* state at the end is the predecessor.
AcceptedPatchesUndo == pc \notin {"undo_rejected", "undo_failed"}
=============================================================================
