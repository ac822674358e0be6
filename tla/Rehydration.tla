----------------------------- MODULE Rehydration -----------------------------
(***************************************************************************)
(* A stored execution becomes kernel artifacts again: its stored inputs    *)
(* are executed once more, and everything the store recorded must match.   *)
(*                                                                         *)
(* Execution is deterministic, so what the spine answers is a constant     *)
(* function of the plan, its profiles and the input; the spine itself is   *)
(* the subject of Spine and Runs.                                          *)
(***************************************************************************)
EXTENDS Comparisons

CONSTANT Answer       \* [PlanID -> [case -> [status, sealed]]]: the status of the run, and how
                      \* many of the plan's checkpoints it seals before it ends

ASSUME AnswerAssumption ==
    \A plan \in DOMAIN PlanOf, case \in Cases :
        /\ Answer[plan][case].status \in {"succeeded", "failed"}
        /\ Answer[plan][case].sealed \in 0 .. Len(PlanOf[plan].checkpoints)

\* The identities a plan and an input derive.  One run, under two executors, is two executions.
BindRun(plan, input) ==
    [run |-> <<"semantic-run.v1", plan, input.case, input.world>>,
     execution |-> <<"execution.v1", plan, input.case, input.world, input.executor>>]

ArtifactOf(plan, input, key) ==
    [id |-> <<"checkpoint-claim.v1", BindRun(plan, input).run, key>>, key |-> key, checkpointID |-> CheckpointID(plan, key)]

AssessmentOf(artifact, profile) == [id |-> <<artifact.id, profile>>, artifact |-> artifact.id, profile |-> profile]

\* app.Run over a stored plan and an input.
Run(plan, profiles, input) ==
    LET answer == Answer[plan][input.case]
        sealed == [i \in 1 .. answer.sealed |-> ArtifactOf(plan, input, PlanOf[plan].checkpoints[i])]
    IN  [plan |-> plan, run |-> BindRun(plan, input).run, execution |-> BindRun(plan, input).execution,
         status |-> answer.status, checkpoints |-> sealed,
         assessments |-> {AssessmentOf(sealed[i], profile) : i \in DOMAIN sealed, profile \in profiles}]

-----------------------------------------------------------------------------
(* The stored plan: declarations, compiled again whenever it is read.      *)

\* The declarations, and the digest of the compilation input they were.
PlanRow(d) == [declarations |-> d, inputDigest |-> d]

\* A variant that is content with the plan's identity.
RebuildsThePlan(id, row) == row.declarations.plan = id

\* rebuild: the declarations compile to the plan and are the compilation input that was stored.
Rebuilds(id, row) == row.declarations.plan = id /\ row.inputDigest = row.declarations

\* The plans GetPlan answers; it reports the others as absent or as an integrity failure.
Readable(plans) == {id \in DOMAIN plans : Rebuilds(id, plans[id])}
GetPlan(plans, id) == plans[id].declarations

-----------------------------------------------------------------------------
(* The stored form.                                                        *)

RequestOf(plan, input) ==
    [execution |-> BindRun(plan, input).execution, run |-> BindRun(plan, input).run, plan |-> plan, input |-> input]

\* Everything a result holds, under the identity of the request.
Labelled(request, result) ==
    [execution |-> request.execution, status |-> result.status,
     checkpoints |-> result.checkpoints, assessments |-> result.assessments]

\* Project: None when the result is of another run or execution than the request says.
Project(request, result) ==
    IF result.run = request.run /\ result.execution = request.execution THEN Labelled(request, result) ELSE None

RequestDiverges(request, result) ==
    result.plan # request.plan \/ result.run # request.run \/ result.execution # request.execution

\* divergence: the status, the failure, and every checkpoint and assessment, in their order.
Divergence(derived, stored) == derived # stored

\* A variant that takes a failed execution for one that was never attempted.
ClassifyByStatus(row) ==
    CASE row.status \in {"pending", "running"} -> IF row.result = None THEN "pending" ELSE "integrity"
      [] row.status = "succeeded" -> IF row.result = None THEN "integrity" ELSE "verify"
      [] row.status = "failed" -> "unattempted"
      [] OTHER -> "integrity"

\* The status and the presence of a result; the combinations that cannot be are faults.
ClassifyLifecycle(row) ==
    CASE row.status \in {"pending", "running"} -> IF row.result = None THEN "pending" ELSE "integrity"
      [] row.status = "succeeded" -> IF row.result = None THEN "integrity" ELSE "verify"
      [] row.status = "failed" -> IF row.result = None THEN "unattempted" ELSE "verify"
      [] OTHER -> "integrity"

\* A variant that labels what it re-derived with what the row claims, and compares that.
VerifyLabels(row, plans) ==
    IF row.request.plan \notin Readable(plans) THEN None
    ELSE LET result == Run(row.request.plan, GetPlan(plans, row.request.plan).profiles, row.request.input)
         IN  IF Labelled(row.request, result) = row.result[1] THEN <<result>> ELSE None

\* The re-execution of a row that has a result: the fresh result, or None for an integrity
\* failure (the plan is gone, an identity or any field of the projection differs).
Verify(row, plans) ==
    IF row.request.plan \notin Readable(plans) THEN None
    ELSE LET result == Run(row.request.plan, GetPlan(plans, row.request.plan).profiles, row.request.input)
         IN  IF /\ ~RequestDiverges(row.request, result)
                /\ ~Divergence(Project(row.request, result), row.result[1])
             THEN <<result>> ELSE None

-----------------------------------------------------------------------------
(* What is taken from a verified result.                                   *)

\* Where a checkpoint with this key, identity or checkpoint was sealed; the first is taken.
SealedWith(result, member, value) == {i \in DOMAIN result.checkpoints : result.checkpoints[i][member] = value}
FirstSealedWith(result, member, value) == result.checkpoints[Min(SealedWith(result, member, value))]

\* The assessments of an artifact under a profile.
AssessmentsUnder(result, artifact, profile) ==
    {a \in result.assessments : a.artifact = artifact.id /\ a.profile = profile}
OneOf(assessments) == CHOOSE a \in assessments : TRUE

\* ReceiptFor: only for an artifact of this very result.
ReceiptFor(result, artifact) ==
    IF artifact \in Range(result.checkpoints)
    THEN <<[execution |-> result.execution, run |-> result.run, artifact |-> artifact.id]>> ELSE None

\* Publishable: the gate's evidence for one checkpoint key under one profile.
Publishable(result, key, profile) ==
    LET sealed == FirstSealedWith(result, "key", key)
        assessed == AssessmentsUnder(result, sealed, profile)
    IN  IF SealedWith(result, "key", key) = {} \/ assessed = {} THEN None
        ELSE <<[checkpoint |-> sealed, plan |-> result.plan, assessment |-> OneOf(assessed),
                receipt |-> ReceiptFor(result, sealed)[1]]>>

\* resolvePublishable: the named artifact gives the key, the named assessment the profile.
ResolvePublishable(result, artifactID, assessmentID) ==
    LET named == {a \in result.assessments : a.id = assessmentID /\ a.artifact = artifactID}
    IN  IF SealedWith(result, "id", artifactID) = {} \/ named = {} THEN None
        ELSE Publishable(result, FirstSealedWith(result, "id", artifactID).key, OneOf(named).profile)

\* A variant that takes the first checkpoint the run sealed for the one the comparison is about.
CompareFirstSealed(result, checkpoint, profile) ==
    LET assessed == AssessmentsUnder(result, result.checkpoints[1], profile)
    IN  IF result.checkpoints = <<>> THEN [reason |-> "checkpoint_not_sealed"]
        ELSE IF assessed = {} THEN [reason |-> "not_assessed"]
        ELSE [reason |-> "none", checkpoint |-> result.checkpoints[1], assessment |-> OneOf(assessed)]

\* assembleCase, from a verified result: a compared case, or why there is none.
CompareCase(result, checkpoint, profile) ==
    LET sealed == FirstSealedWith(result, "checkpointID", checkpoint)
        assessed == AssessmentsUnder(result, sealed, profile)
    IN  IF SealedWith(result, "checkpointID", checkpoint) = {} THEN [reason |-> "checkpoint_not_sealed"]
        ELSE IF assessed = {} THEN [reason |-> "not_assessed"]
        ELSE [reason |-> "none", checkpoint |-> sealed, assessment |-> OneOf(assessed)]

=============================================================================
