------------------------------- MODULE Spine -------------------------------
(***************************************************************************)
(* One run of the progressive spine: compile, bind, then for every         *)
(* transformation in plan order execute it, seal the checkpoints declared  *)
(* after it and assess each under every profile.                           *)
(*                                                                         *)
(* Each kernel operation answers with a value, a typed failure, a Go error *)
(* or a contradictory outcome that is none of these; which one is up to    *)
(* the kernel.  The context may be done at any moment and is looked at     *)
(* before each operation only.                                             *)
(*                                                                         *)
(* A transformation, checkpoint or profile is its place in the plan.       *)
(***************************************************************************)
EXTENDS Naturals, Sequences

CONSTANTS Transformations,    \* how many the plan has
          Checkpoints,        \* how many the plan declares
          Profiles,           \* how many were compiled
          After               \* the transformation each checkpoint follows

Checkpoint == 1 .. Checkpoints
Profile == 1 .. Profiles

ASSUME SpineAssumption ==
  /\ Transformations \in Nat \ {0}
  /\ Checkpoints \in Nat /\ Profiles \in Nat
  /\ After \in [Checkpoint -> 1 .. Transformations]

VARIABLES pc,           \* where the run is
          context,      \* "live" or "done"
          late,         \* history: operations completed once the context was done
          open,         \* the phases the observer saw begin and not end
          established,  \* "nothing", "plan" or "execution"
          accepted,     \* the length of the journal, and the state it leads to
          at,           \* the checkpoint the boundary's loop is at
          under,        \* the profile the assessment loop is at
          sealed,       \* the checkpoints of the frontier
          assessed,     \* its assessments: checkpoint and profile
          disowned,     \* history: checkpoints that failed to re-verify
          status,       \* SpineStatus of the returned result, "" before
          failure,      \* the typed failure in it
          error,        \* the Go error beside it
          verdict       \* how the observer saw the spine phase end

place == <<pc, at, under>>
frontier == <<established, accepted, sealed, assessed>>
outcome == <<status, failure, error, verdict>>
vars == <<place, context, late, open, frontier, disowned, outcome>>

Init ==
  /\ pc = "start" /\ context = "live" /\ late = 0
  /\ open = <<"spine">>
  /\ established = "nothing" /\ accepted = 0
  /\ at = 0 /\ under = 0
  /\ sealed = {} /\ assessed = {} /\ disowned = {}
  /\ status = "" /\ failure = "" /\ error = "" /\ verdict = ""

-----------------------------------------------------------------------------
(* What the dispatcher tells the observer.                                 *)

Begin(phase) == open' = Append(open, phase)

\* End the innermost phase.  Ending any other one is noted.
Ended(phases, phase) ==
  IF phases # << >> /\ phases[Len(phases)] = phase
  THEN SubSeq(phases, 1, Len(phases) - 1)
  ELSE Append(phases, "misnested")

End(phase) == open' = Ended(open, phase)

\* "none" is the absence of a phase, as in machinery's phaseOpen = false.
EndBoth(phase, result) ==
  /\ open' = IF phase = "none" THEN Ended(open, "spine")
             ELSE Ended(Ended(open, phase), "spine")
  /\ verdict' = result

-----------------------------------------------------------------------------
(* The ways a run ends.                                                    *)

\* frontierResult: before a plan exists the result is the zero result.
FrontierStatus == IF established = "nothing" THEN "zero" ELSE "failed"

\* A cause of invalid input counts at the initial boundary only.
ClassifyMachinery(cause, initial) ==
  IF cause = "invalid_input" /\ initial = "later" THEN "internal" ELSE cause

\* A variant that leaves the phase of the failed operation open.
MachineryLeavingPhase(phase, cause, initial) ==
  /\ EndBoth("none", ClassifyMachinery(cause, initial))
  /\ status' = FrontierStatus /\ failure' = "" /\ error' = cause
  /\ pc' = "returned"

\* Operational inability: the frontier and an error.
Machinery(phase, cause, initial) ==
  /\ EndBoth(phase, ClassifyMachinery(cause, initial))
  /\ status' = FrontierStatus /\ failure' = "" /\ error' = cause
  /\ pc' = "returned"

\* A typed rejection: the frontier and one failure, no error.
SemanticRejection(phase, kind) ==
  /\ EndBoth(phase, kind)
  /\ status' = FrontierStatus /\ failure' = kind /\ error' = ""
  /\ pc' = "returned"

\* The causes an operation's error may carry.  A contradictory outcome is an
\* internal error.
Cause == {"internal", "infrastructure", "invalid_input"}
FailureKind == {"protected", "integrity"}

-----------------------------------------------------------------------------
(* The context, and the check of it before each operation.                 *)

\* Cancellation or the deadline, at any moment until the run returns.
ContextDone ==
  /\ context = "live" /\ pc # "returned"
  /\ context' = "done"
  /\ UNCHANGED <<place, late, open, frontier, disowned, outcome>>

\* The check at the head of step `from': a done context ends the run with
\* nothing open but the spine.
Cancelled(from, initial) ==
  /\ pc = from /\ context = "done"
  /\ Machinery("none", "cancelled", initial)
  /\ UNCHANGED <<at, under, context, late, frontier, disowned>>

\* A variant that goes on whether the context is done or not.
ProceedRegardless(from, to) ==
  /\ pc = from
  /\ pc' = to
  /\ UNCHANGED <<at, under, context, late, frontier, disowned, outcome>>

\* The context is live: on to the operation.
Proceed(from, to) ==
  /\ pc = from /\ context = "live"
  /\ pc' = to
  /\ UNCHANGED <<at, under, context, late, frontier, disowned, outcome>>

\* An operation answers.
Answer(from) ==
  /\ pc = from
  /\ late' = IF context = "done" THEN late + 1 ELSE late
  /\ UNCHANGED context

-----------------------------------------------------------------------------
(* Compile and bind.                                                       *)

\* validateRequest: a request with a part missing.
IncompleteRequest ==
  /\ pc = "start" /\ context = "live"
  /\ EndBoth("none", "invalid_input")
  /\ status' = "zero" /\ failure' = "" /\ error' = "invalid_input"
  /\ pc' = "returned"
  /\ UNCHANGED <<at, under, context, late, frontier, disowned>>

StartCompile == Proceed("start", "compile") /\ Begin("compile")

Compile ==
  /\ Answer("compile")
  /\ \/ \E cause \in Cause : Machinery("compile", cause, "initial")
        /\ UNCHANGED established
     \/ /\ EndBoth("compile", "invalid_plan")
        /\ status' = "invalid_plan" /\ failure' = "compilation" /\ error' = ""
        /\ pc' = "returned"
        /\ UNCHANGED established
     \/ /\ established' = "plan"
        /\ End("compile")
        /\ pc' = "bind_check"
        /\ UNCHANGED outcome
  /\ UNCHANGED <<at, under, accepted, sealed, assessed, disowned>>

\* BindRun is no phase of its own.
StartBind == Proceed("bind_check", "bind") /\ UNCHANGED open

Bind ==
  /\ Answer("bind")
  /\ \/ \E cause \in Cause : Machinery("none", cause, "initial")
        /\ UNCHANGED established
     \/ /\ established' = "execution"
        /\ pc' = "transition_check"
        /\ UNCHANGED <<open, outcome>>
  /\ UNCHANGED <<at, under, accepted, sealed, assessed, disowned>>

-----------------------------------------------------------------------------
(* The loop over the transformations.                                      *)

\* A variant whose loop runs once too often.
StartTransitionOnceMore ==
  /\ accepted <= Transformations
  /\ Proceed("transition_check", "transition")
  /\ Begin("transition")

StartTransition ==
  /\ accepted < Transformations
  /\ Proceed("transition_check", "transition")
  /\ Begin("transition")

Transition ==
  /\ Answer("transition")
  /\ \/ /\ \/ \E cause \in Cause : Machinery("transition", cause, "later")
           \/ \E kind \in FailureKind : SemanticRejection("transition", kind)
        /\ UNCHANGED <<accepted, at>>
     \/ /\ accepted' = accepted + 1
        /\ End("transition")
        /\ pc' = "boundary" /\ at' = 1
        /\ UNCHANGED outcome
  /\ UNCHANGED <<under, established, sealed, assessed, disowned>>

\* Whether the loop over the plan's checkpoints is at one of this boundary.
Declared == at \in Checkpoint /\ After[at] = accepted

\* A checkpoint of this boundary is next to be sealed, others are passed over.
NextCheckpoint ==
  /\ pc = "boundary"
  /\ \/ Declared /\ pc' = "seal_check" /\ UNCHANGED at
     \/ at \in Checkpoint /\ ~Declared /\ at' = at + 1 /\ UNCHANGED pc
     \/ at \notin Checkpoint /\ pc' = "transition_check" /\ UNCHANGED at
  /\ UNCHANGED <<under, context, late, open, frontier, disowned, outcome>>

\* All transformations are done: the run has succeeded.
Succeed ==
  /\ pc = "transition_check" /\ accepted = Transformations
  /\ EndBoth("none", "success")
  /\ status' = "succeeded" /\ failure' = "" /\ error' = ""
  /\ pc' = "returned"
  /\ UNCHANGED <<at, under, context, late, frontier, disowned>>

-----------------------------------------------------------------------------
(* sealAndAssess.                                                          *)

StartSeal == Proceed("seal_check", "seal") /\ Begin("seal")

Seal ==
  /\ Answer("seal")
  /\ \/ /\ \/ \E cause \in Cause : Machinery("seal", cause, "later")
           \/ SemanticRejection("seal", "integrity")
        /\ UNCHANGED <<sealed, under>>
     \/ /\ sealed' = sealed \cup {at}
        /\ End("seal")
        /\ pc' = "assess_check" /\ under' = 1
        /\ UNCHANGED outcome
  /\ UNCHANGED <<at, established, accepted, assessed, disowned>>

StartAssess ==
  /\ under \in Profile
  /\ Proceed("assess_check", "assess")
  /\ Begin("assess")

\* A variant that drops the checkpoint and keeps what depends on it.
ExcludeCheckpointOnly(c) ==
  /\ sealed' = sealed \ {c}
  /\ UNCHANGED assessed

\* excludeUnverifiedCheckpoint: it leaves with every assessment of it.
ExcludeUnverifiedCheckpoint(c) ==
  /\ sealed' = sealed \ {c}
  /\ assessed' = {a \in assessed : a[1] # c}

Assess ==
  /\ Answer("assess")
  /\ \/ /\ \E cause \in Cause : Machinery("assess", cause, "later")
        /\ UNCHANGED <<sealed, assessed, disowned, under>>
     \/ /\ SemanticRejection("assess", "integrity")
        /\ \/ UNCHANGED <<sealed, assessed, disowned>>
           \/ ExcludeUnverifiedCheckpoint(at) /\ disowned' = disowned \cup {at}
        /\ UNCHANGED under
     \/ /\ assessed' = assessed \cup {<<at, under>>}
        /\ End("assess")
        /\ pc' = "assess_check" /\ under' = under + 1
        /\ UNCHANGED <<sealed, disowned, outcome>>
  /\ UNCHANGED <<at, established, accepted>>

\* A variant that seals one checkpoint of a boundary only.
CheckpointDoneLeaves ==
  /\ pc = "assess_check" /\ under \notin Profile
  /\ pc' = "transition_check" /\ at' = at + 1
  /\ UNCHANGED <<under, context, late, open, frontier, disowned, outcome>>

\* Every profile is done: on to the next checkpoint.
CheckpointDone ==
  /\ pc = "assess_check" /\ under \notin Profile
  /\ pc' = "boundary" /\ at' = at + 1
  /\ UNCHANGED <<under, context, late, open, frontier, disowned, outcome>>

-----------------------------------------------------------------------------

CheckContext ==
  \/ Cancelled("start", "initial")
  \/ Cancelled("bind_check", "initial")
  \/ accepted < Transformations /\ Cancelled("transition_check", "later")
  \/ Cancelled("seal_check", "later")
  \/ under \in Profile /\ Cancelled("assess_check", "later")

Next ==
  \/ ContextDone \/ CheckContext
  \/ IncompleteRequest \/ StartCompile \/ Compile \/ StartBind \/ Bind
  \/ StartTransition \/ Transition \/ NextCheckpoint \/ Succeed
  \/ StartSeal \/ Seal \/ StartAssess \/ Assess \/ CheckpointDone

Spec == Init /\ [][Next]_vars

-----------------------------------------------------------------------------
(* Properties.                                                             *)

\* Every variable keeps its type.
TypeOK ==
  /\ pc \in {"start", "compile", "bind_check", "bind", "transition_check",
             "transition", "boundary", "seal_check", "seal", "assess_check",
             "assess", "returned"}
  /\ context \in {"live", "done"}
  /\ late \in Nat
  /\ open \in Seq({"spine", "compile", "transition", "seal", "assess", "misnested"})
  /\ established \in {"nothing", "plan", "execution"}
  /\ accepted \in 0 .. Transformations
  /\ at \in Nat /\ under \in Nat
  /\ sealed \subseteq Checkpoint /\ disowned \subseteq Checkpoint
  /\ assessed \subseteq Checkpoint \X Profile
  /\ status \in {"", "zero", "succeeded", "failed", "invalid_plan"}
  /\ failure \in {"", "compilation"} \cup FailureKind
  /\ error \in {"", "cancelled"} \cup Cause
  /\ verdict \in {"", "success", "invalid_plan", "cancelled"} \cup Cause \cup FailureKind

\* At every moment, and so wherever the run stops, the frontier depends on
\* nothing outside it: an assessment is kept with its checkpoint, a checkpoint
\* with the journal prefix it seals, and a checkpoint that did not re-verify is
\* not kept.
FrontierIsClosed ==
  /\ \A a \in assessed : a[1] \in sealed
  /\ \A c \in sealed : After[c] <= accepted
  /\ sealed \cap disowned = {}

\* A run that stops short loses nothing it had finished: every checkpoint of an
\* earlier boundary is kept with every assessment of it.  A run that succeeds
\* has all of both.
NothingFinishedIsLost ==
  pc = "returned" =>
    /\ \A c \in Checkpoint : After[c] < accepted =>
         c \in sealed /\ \A p \in Profile : <<c, p>> \in assessed
    /\ status = "succeeded" =>
         /\ accepted = Transformations
         /\ sealed = Checkpoint /\ assessed = Checkpoint \X Profile

\* What the observer saw is what the caller got: every phase that began has
\* ended, innermost first, and the spine's verdict is a success, a typed failure
\* or an inability exactly when the returned value is one.  Input is blamed only
\* before an execution exists.
ObserverSawTheOutcome ==
  /\ \A i \in 1 .. Len(open) : open[i] # "misnested"
  /\ pc = "returned" =>
       /\ open = << >>
       /\ verdict = "success" <=> status = "succeeded"
       /\ verdict \in FailureKind \cup {"invalid_plan"} <=> failure # ""
       /\ verdict \in Cause \cup {"cancelled"} <=> error # ""
       /\ ~(failure # "" /\ error # "")
       /\ verdict = "invalid_input" => established # "execution"

\* Once the context is done at most the operation under way completes.
LittleHappensLate == late <= 1
=============================================================================
