-------------------------------- MODULE Runs --------------------------------
(***************************************************************************)
(* What a caller does with a plan: BindRun, ExecuteTransition, Seal and    *)
(* Assess (internal/semantic/binding.go, execute.go, journal_verify.go,    *)
(* checkpoint.go, profile.go).  Each takes artifacts the caller holds, in  *)
(* any mixture, and starts by replaying or recomputing what they claim.    *)
(*                                                                         *)
(* The members of an artifact are private and every constructor derives    *)
(* its identity from them, so the checks that an artifact has the digest   *)
(* it carries are true and left out; the checks that artifacts belong      *)
(* together are what is here.                                              *)
(***************************************************************************)
EXTENDS Executor

\* BindRun, with one schema and one policy.
BindRun(plan, initial, world, executor) == [plan |-> plan, initial |-> initial, world |-> world, executor |-> executor]

Transformations(binding) == binding.plan.transformations

-----------------------------------------------------------------------------
(* Journals.                                                               *)

\* exactPassingInvariantResults.
ExactPassingResults(declarations, results) ==
    /\ Len(declarations) = Len(results)
    /\ \A i \in DOMAIN results : results[i].passed
    /\ ResultsEncodable(results)
    /\ \A d \in Range(declarations) :
          \E i \in DOMAIN results :
              <<results[i].key, results[i].code, results[i].scope, results[i].boundary>> = <<d.key, d.code, d.scope, d.appliesAfter>>

\* What replayVerifiedJournal objects to in the next entry of a journal, "" for nothing.
EntryIssue(binding, n, state, entry) ==
    IF \/ n > Len(Transformations(binding))
       \/ entry.rule # Transformations(binding)[n].decl.id
       \/ entry.predecessor # StateDigest(state)
       \/ ~ExactPassingResults(Transformations(binding)[n].invariants, entry.results)
      THEN "artifact_link_inconsistent"
    ELSE LET applied == ApplyPatch(state, entry.patch)
         IN  IF applied.code # "none" \/ StateDigest(applied.state) # entry.result THEN "replay_divergence" ELSE ""

\* The replay one entry further, given the issue with the entry.
ReplayStep(before, entry, issue) ==
    IF issue # "" THEN [before EXCEPT !.issue = issue]
    ELSE [state |-> ApplyPatch(before.state, entry.patch).state,
          journal |-> AppendAccepted(before.journal, entry), issue |-> ""]

\* replayVerifiedJournal: the state and the entries it got to, and the issue it stopped at.
ReplayVerifiedJournal(binding, journal) ==
    LET Step(before, n) ==
            IF before.issue # "" THEN before
            ELSE ReplayStep(before, journal[n], EntryIssue(binding, n, before.state, journal[n]))
    IN  FoldLeftDomain(Step, [state |-> binding.initial, journal |-> <<>>, issue |-> ""], journal)

-----------------------------------------------------------------------------
(* ExecuteTransition.                                                      *)

\* integrityTransitionOutcome and journalIntegrityTransitionOutcome: the verified part is given back.
IntegrityFailure(verified, code) ==
    Outcome("integrity", verified.state, verified.journal, JournalResults(verified.journal), <<[kind |-> "integrity", code |-> code]>>)

\* A variant that runs the rule on the state it was handed.
StateIsTheReplayedAlways(state, verified) == TRUE

\* The state handed in is the one the journal leads to.
StateIsTheReplayed(state, verified) == StateDigest(state) = StateDigest(verified.state)

ExecuteVerified(binding, rule, state, journal, verified) ==
    LET next == Len(journal) + 1
    IN  IF verified.issue # "" THEN IntegrityFailure(verified, verified.issue)
        ELSE IF ~StateIsTheReplayed(state, verified) THEN IntegrityFailure(verified, "artifact_link_inconsistent")
        ELSE IF next > Len(Transformations(binding)) \/ Transformations(binding)[next].decl.id # rule THEN Error(state, journal)
        ELSE ExecuteRule(Transformations(binding)[next], state, journal)

ExecuteTransition(binding, rule, state, journal) ==
    ExecuteVerified(binding, rule, state, journal, ReplayVerifiedJournal(binding, journal))

-----------------------------------------------------------------------------
(* Seal.                                                                   *)

\* A variant that takes the boundary before the rule.
CheckpointBoundaryBefore(plan, key) ==
    LET c == CHOOSE x \in Range(plan.checkpoints) : x.key = key
    IN  (CHOOSE n \in DOMAIN plan.transformations : plan.transformations[n].decl.id = c.after) - 1

\* checkpointBoundary: the length of the prefix the checkpoint stands for.
CheckpointBoundary(plan, key) ==
    LET c == CHOOSE x \in Range(plan.checkpoints) : x.key = key
    IN  CHOOSE n \in DOMAIN plan.transformations : plan.transformations[n].decl.id = c.after

\* A variant that commits to the history before the last rule.
ArtifactWithoutLastEntry(binding, key, state, journal, results) ==
    [checkpoint |-> key, checkpointID |-> CheckpointID(binding.plan, key), plan |-> PlanID(binding.plan),
     run |-> SemanticRunID(binding), input |-> InputID(binding.initial, binding.world), policy |-> PolicyID,
     stateDigest |-> StateDigest(state), journalPrefixDigest |-> JournalPrefixDigest(binding, Front(journal)),
     invariantResultDigest |-> InvariantResultDigest(results)]

\* The artifact, and its identity.
NewCheckpointArtifact(binding, key, state, journal, results) ==
    [checkpoint |-> key, checkpointID |-> CheckpointID(binding.plan, key), plan |-> PlanID(binding.plan),
     run |-> SemanticRunID(binding), input |-> InputID(binding.initial, binding.world), policy |-> PolicyID,
     stateDigest |-> StateDigest(state), journalPrefixDigest |-> JournalPrefixDigest(binding, journal),
     invariantResultDigest |-> InvariantResultDigest(results)]

Refused(code) == [status |-> "integrity", code |-> code]

\* The end of Seal: what is known of the artifact is not contradicted.
SealArtifact(artifact, known) ==
    IF \E a \in known : CheckpointArtifactID(a) = CheckpointArtifactID(artifact)
                          /\ CheckpointArtifactDigest(a) # CheckpointArtifactDigest(artifact)
      THEN Refused("artifact_link_inconsistent")
      ELSE [status |-> "sealed", artifact |-> artifact]

SealVerified(binding, key, prefix, state, results, known, verified) ==
    IF verified.issue # "" THEN Refused(verified.issue)
    ELSE IF Len(verified.journal) # prefix THEN Refused("artifact_link_inconsistent")
    ELSE IF ~StateIsTheReplayed(state, verified) THEN Refused("replay_divergence")
    ELSE IF \/ ~ExactPassingResults(FlattenSeq([n \in 1 .. prefix |-> Transformations(binding)[n].invariants]), results)
            \/ InvariantResultDigest(results) # InvariantResultDigest(JournalResults(verified.journal))
           THEN Refused("artifact_link_inconsistent")
    ELSE SealArtifact(NewCheckpointArtifact(binding, key, verified.state, verified.journal, results), known)

\* Seal: "sealed" with the artifact, or "integrity" with a code.
Seal(binding, key, state, journal, results, known) ==
    IF key \notin {c.key : c \in Range(binding.plan.checkpoints)} THEN Refused("artifact_link_inconsistent")
    ELSE SealVerified(binding, key, CheckpointBoundary(binding.plan, key), state, results, known,
                      ReplayVerifiedJournal(binding, journal))

-----------------------------------------------------------------------------
(* Assess.                                                                 *)

\* evaluateProfileOverState: for each entity of the kind, the requirements it lacks.
EvaluateProfile(state, profile) ==
    LET selected == {ref \in DOMAIN state.ents : ref[1] = profile.declaration.scope.entity}
        missing(ref) == {r \in profile.declaration.requirements : state.ents[ref][r.field[2]] = NoValue}
        entities == [ref \in selected |-> missing(ref)]
    IN  [verdict |-> IF \A ref \in selected : missing(ref) = {} THEN "ready" ELSE "needs_input", entities |-> entities]

AssessmentOf(checkpoint, profile, answer) ==
    [checkpoint |-> CheckpointArtifactID(checkpoint), profile |-> ProfileID(profile),
     verdict |-> answer.verdict, entities |-> answer.entities]

\* The end of Assess: an answer under this identity is this answer.
AnswerAssessment(assessment, known) ==
    IF \E a \in known : /\ AssessmentID(a.checkpoint, a.profile) = AssessmentID(assessment.checkpoint, assessment.profile)
                         /\ AssessmentDigest(a) # AssessmentDigest(assessment)
      THEN Refused("assessment_identity_conflict")
      ELSE [status |-> "assessed", assessment |-> assessment]

\* Assess: "assessed" with the answer, or "integrity" with a code.
Assess(checkpoint, state, profile, known) ==
    IF StateDigest(state) # checkpoint.stateDigest THEN Refused("artifact_link_inconsistent")
    ELSE AnswerAssessment(AssessmentOf(checkpoint, profile, EvaluateProfile(state, profile)), known)

-----------------------------------------------------------------------------
(* The structural difference of two states (diff.go), which maiden-lane    *)
(* diff prints.  A state is the graph of Executor; a difference lists      *)
(* created and deleted entities by reference alone.                        *)

PresentFields(image) == {f \in DOMAIN image : image[f] # NoValue}

\* A variant that goes through the candidate's fields only.
FieldDiffsOfCandidate(before, after) ==
    {[name |-> f, baseline |-> before[f], candidate |-> after[f]]
       : f \in {f \in PresentFields(after) : f \notin PresentFields(before) \/ ~ValueEqual(before[f], after[f])}}

\* The fields either entity has that only one has, or that are not Equal.
FieldDiffs(before, after) ==
    LET names == PresentFields(before) \cup PresentFields(after)
        oneSided(f) == (f \in PresentFields(before)) # (f \in PresentFields(after))
    IN  {[name |-> f, baseline |-> before[f], candidate |-> after[f]]
           : f \in {f \in names : oneSided(f) \/ ~ValueEqual(before[f], after[f])}}

\* DiffStates; two states with one digest are not looked into.
DiffStates(baseline, candidate) ==
    LET same == StateDigest(baseline) = StateDigest(candidate)
        both == DOMAIN baseline.ents \cap DOMAIN candidate.ents
        diffs == [ref \in both |-> FieldDiffs(baseline.ents[ref], candidate.ents[ref])]
    IN  [identical |-> same,
         created   |-> IF same THEN {} ELSE DOMAIN candidate.ents \ both,
         deleted   |-> IF same THEN {} ELSE DOMAIN baseline.ents \ both,
         modified  |-> IF same THEN <<>> ELSE Restrict(diffs, {ref \in both : diffs[ref] # {}}),
         added     |-> IF same THEN {} ELSE candidate.rels \ baseline.rels,
         removed   |-> IF same THEN {} ELSE baseline.rels \ candidate.rels]
=============================================================================
