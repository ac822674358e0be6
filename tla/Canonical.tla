----------------------------- MODULE Canonical -----------------------------
(***************************************************************************)
(* Content identities (internal/semantic/canonical.go).  Every artifact is *)
(* encoded into bytes under a domain tag and named by their digest.  Here  *)
(* a digest is what was hashed: a tuple of the tag and exactly the members *)
(* the encoder writes, so two artifacts have one identity when their       *)
(* encoders cannot tell them apart.  Sorted lists without duplicates are   *)
(* sets; expressions are encoded to numbers, as in the code.               *)
(***************************************************************************)
EXTENDS Compiler

CONSTANT Required   \* the paths with RequiredAtConstruction

-----------------------------------------------------------------------------
(* Declarations.                                                           *)

\* encodeSchema.
SchemaDigest == <<"schema.v1", Declared, Required, Relations>>

\* encodeSelectorPayload and encodeFieldAssignments.
EncodeSelector(s) ==
    <<s.kind, s.members, [i \in DOMAIN s.where |-> EncodeExpr(s.where[i])], [i \in DOMAIN s.groupBy |-> EncodeExpr(s.groupBy[i])]>>
EncodeAssignments(assigns) == [i \in DOMAIN assigns |-> <<assigns[i].target, EncodeExpr(assigns[i].value)>>]

\* A variant that writes neither of the two switches of a merge.
PayloadWithoutSwitches(d) ==
    <<EncodeSelector(d.sel), d.target, EncodeExpr(d.disc), EncodeExpr(d.guard), EncodeAssignments(d.assigns)>>

MergePayload(d) ==
    <<EncodeSelector(d.sel), d.target, EncodeExpr(d.disc), EncodeExpr(d.guard), d.retain, d.reanchor,
      EncodeAssignments(d.assigns)>>

\* encodeTransformationDeclaration: the members of the payload that is present.
EncodeTransformation(d) ==
    <<d.id, d.op, d.reads, d.writes, d.after>> \o
    CASE d.op = "select_assign" -> <<EncodeSelector(d.sel), EncodeExpr(d.guard), EncodeAssignments(d.assigns)>>
      [] d.op = "insert" -> <<EncodeSelector(d.sel), d.target, EncodeExpr(d.disc), EncodeExpr(d.guard), EncodeAssignments(d.assigns)>>
      [] d.op = "delete" -> <<EncodeSelector(d.sel), EncodeExpr(d.guard)>>
      [] d.op \in RelationOperators -> <<EncodeSelector(d.sel), EncodeSelector(d.to), d.relation, EncodeExpr(d.guard)>>
      [] d.op = "merge" -> MergePayload(d)
      [] d.op = "split" -> <<EncodeSelector(d.sel), d.target, EncodeExpr(d.guard), d.retain,
                             [i \in DOMAIN d.partitions |-> <<EncodeExpr(d.partitions[i].disc), EncodeAssignments(d.partitions[i].assigns)>>]>>

\* encodeRuleset: the rules, the obligations they imply and the checkpoints.
RulesetDigest(ruleset) ==
    <<"ruleset.v1", [i \in DOMAIN ruleset.transformations |-> EncodeTransformation(ruleset.transformations[i])],
      [i \in DOMAIN ruleset.transformations |-> Invariants(ruleset.transformations[i])], ruleset.checkpoints>>

\* encodeCompilationInput, of a request in normal form.
CompilationInputDigest(request) ==
    <<"compilation-input.v1", SchemaDigest, RulesetDigest(NormalizeRuleset(request)), NormalizeProfiles(request.profiles).profiles>>

\* encodePlan.
PlanID(plan) ==
    <<"plan.v1", SchemaDigest, RulesetDigest(plan.ruleset),
      [n \in DOMAIN plan.transformations |->
          LET t == plan.transformations[n]
          IN  <<EncodeTransformation(t.decl), t.reads, t.writes, t.accesses, t.dependencies, t.level, t.invariants>>],
      plan.checkpoints, "changes.v1">>

\* encodeCompiledProfile and encodeCompilationFailure.
ProfileID(profile) == <<"compiled-profile.v1", SchemaDigest, profile.declaration, profile.proofs>>
CompilationFailureDigest(request, diagnostics) ==
    <<"compilation-failure.v1", CompilationInputDigest(request), "INVALID_PLAN", diagnostics>>

-----------------------------------------------------------------------------
(* Entities, states and patches.                                           *)

\* SourceEntityID: an exact source key, under its lineage and kind.
SourceEntityID(lineage, kind, key) == <<0, lineage, Code[kind], key>>

\* A variant that names the rule and the key, and not the entities the new one comes from.
SyntheticIDWithoutProgenitors(lineage, kind, rule, progenitors, discriminator) ==
    <<1, lineage, Code[kind], rule>> \o EncodeValue(discriminator)

RefLess(p, q) == IF p[1] # q[1] THEN Code[p[1]] < Code[q[1]] ELSE TextLess(p[2], q[2])

\* SyntheticEntityID: the progenitors in canonical order, each by its id, and the discriminator.
SyntheticEntityID(lineage, kind, rule, progenitors, discriminator) ==
    LET ordered == SetToSortSeq(progenitors, RefLess)
    IN  <<1, lineage, Code[kind], rule, Len(ordered)>>
        \o FlattenSeq([i \in DOMAIN ordered |-> <<Len(ordered[i][2])>> \o ordered[i][2]])
        \o EncodeValue(discriminator)

\* encodeState and encodePatch: a state and a list of operations are their own identity.
StateDigest(state) == <<"state.v1", SchemaDigest, state>>
PatchDigest(operations) == <<"patch.v1", SchemaDigest, operations>>

-----------------------------------------------------------------------------
(* Runs, journals, checkpoints and assessments.                            *)

\* encodeProvenancePolicy, encodeInputIdentity, encodeSemanticRunIdentity,
\* encodeExecutorIdentity and encodeExecutionIdentity.
PolicyID == <<"provenance-policy.v1", "changes.v1">>
InputID(initial, world) == <<"input.v1", StateDigest(initial), world>>
SemanticRunID(binding) == <<"semantic-run.v1", InputID(binding.initial, binding.world), PlanID(binding.plan)>>
ExecutionID(binding) == <<"execution.v1", SemanticRunID(binding), binding.executor, PolicyID>>

\* encodeInvariantResults: refused when two results have one key.
ResultsEncodable(results) == IsInjective([i \in DOMAIN results |-> results[i].key])
InvariantResultDigest(results) == <<"invariant-results.v1", Range(results)>>

\* encodeJournalEntry and encodeJournalPrefix.
JournalEntryDigest(entry) ==
    <<"journal-entry.v1", entry.rule, entry.predecessor, entry.result, PatchDigest(entry.patch), entry.evidence,
      InvariantResultDigest(entry.results)>>
JournalPrefixDigest(binding, journal) ==
    <<"journal-prefix.v1", SemanticRunID(binding), PolicyID, [i \in DOMAIN journal |-> JournalEntryDigest(journal[i])]>>

\* encodeCheckpointID.
CheckpointID(plan, key) == <<"checkpoint-id.v1", PlanID(plan), key>>

\* encodeCheckpointArtifactID: the claim a sealed checkpoint is named by.
CheckpointArtifactID(a) ==
    <<"checkpoint-claim.v1", a.run, a.checkpointID, a.stateDigest, a.journalPrefixDigest, a.invariantResultDigest, a.policy>>

\* encodeCheckpointArtifact: the complete manifest.
CheckpointArtifactDigest(a) == <<"checkpoint-artifact.v1", a>>

\* encodeAssessmentID and encodeAssessment.
AssessmentID(checkpoint, profile) == <<"assessment-id.v1", checkpoint, profile>>
AssessmentDigest(a) == <<"assessment.v1", a.checkpoint, a.profile, a.verdict, a.entities>>
=============================================================================
