------------------------------ MODULE Executor ------------------------------
(***************************************************************************)
(* What the rules of a plan do to a state (internal/semantic/patch.go,     *)
(* execute.go, execute_select.go, execute_structural.go): the seven        *)
(* operators, their refusals with the evidence, and the commit of a patch. *)
(* The operators over one selector differ in the outputs of a group and in *)
(* the operations made of them; all else they do in the same order.        *)
(*                                                                         *)
(* A state is [lineage, ents, rels]: what each reference <<kind, id>> of   *)
(* an entity holds (an image over all field names, NoValue where absent)   *)
(* and triples <<from, to, kind>>.  A journal is a sequence of entries, a  *)
(* binding a plan with an initial state, a world and an executor.          *)
(* References and facts are sets, sorted lists in the code.                *)
(***************************************************************************)
EXTENDS Canonical

CONSTANT Gone   \* what a reference to no entity holds while a patch is applied

FieldNames == {path[2] : path \in DOMAIN Declared}

\* The operations of patches.  Only the operations are used, so the sets of references, of
\* relations and of values are not needed.
P == INSTANCE Patch WITH Ref <- {}, Relation <- {}, Field <- FieldNames, Value <- {},
                         Required <- {}, Absent <- NoValue, Gone <- Gone

RefOf(entity) == <<entity.kind, entity.id>>
RefsOf(members) == {RefOf(members[i]) : i \in DOMAIN members}
ImageOf(fields) == [f \in FieldNames |-> IF f \in DOMAIN fields THEN fields[f] ELSE NoValue]

\* state.entities: in the order of kinds and ids.
EntitiesOf(state) ==
    LET refs == SetToSortSeq(DOMAIN state.ents, RefLess)
        held(ref) == {f \in FieldNames : state.ents[ref][f] # NoValue}
    IN  [i \in DOMAIN refs |-> [kind |-> refs[i][1], id |-> refs[i][2], fields |-> Restrict(state.ents[refs[i]], held(refs[i]))]]

-----------------------------------------------------------------------------
(* Patches: NewPatch and ApplyPatch over whole lists.                      *)

OpRef(op) == IF op.kind \in {"relate", "unrelate"} THEN op.relation[1] ELSE op.ref
OpKey(op) ==
    <<P!Rank(op)>> \o <<Code[OpRef(op)[1]]>> \o OpRef(op)[2]
    \o (IF op.kind \in {"relate", "unrelate"} THEN op.relation[2][2] ELSE <<>>)

\* validateEntityFields: declared fields of the declared kinds, and the required ones.
ValidImage(kind, image) ==
    /\ \A f \in FieldNames : image[f] # NoValue => ValidValue(image[f]) /\ FieldKind(<<kind, f>>) = image[f].kind
    /\ \A path \in Required : path[1] = kind => image[path[2]] # NoValue

\* validateOperation and validateOperationAgainstSchema.
ValidOperation(op) ==
    CASE op.kind \in {"insert", "delete"} -> ValidImage(op.ref[1], op.entity)
      [] op.kind = "update" -> \A f \in DOMAIN op.after : ValidValue(op.after[f]) /\ op.after[f].kind = FieldKind(<<op.ref[1], f>>)
      [] OTHER -> Relations[op.relation[3]] = <<op.relation[1][1], op.relation[2][1]>>

\* NewPatch: the operations in canonical order, or a refusal.
NewPatch(operations) ==
    [ok |-> operations # <<>> /\ \A i \in DOMAIN operations : ValidOperation(operations[i]),
     operations |-> SortSeq(operations, LAMBDA a, b : TextLess(OpKey(a), OpKey(b)))]

\* The entities an operation names.
Named(op) == IF op.kind \in {"relate", "unrelate"} THEN {op.relation[1], op.relation[2]} ELSE {op.ref}

\* One operation on the candidate, or its refusal, after which nothing more is done.
Stage(op, before, refusal) ==
    IF refusal # "none" THEN [before EXCEPT !.code = refusal] ELSE [before EXCEPT !.graph = P!Staged(op, @)]
StageNext(before, op) == IF before.code # "none" THEN before ELSE Stage(op, before, P!Refusal(op, before.graph))

\* A relation left dangling refuses the whole patch.
Close(state, last) ==
    CASE last.code # "none" -> [code |-> last.code, state |-> state]
      [] ~P!Closed(last.graph) -> [code |-> "dangling_relation", state |-> state]
      [] OTHER -> [code |-> "none",
                   state |-> [lineage |-> state.lineage,
                              ents |-> Restrict(last.graph.ents, {ref \in DOMAIN last.graph.ents : last.graph.ents[ref] # Gone}),
                              rels |-> last.graph.rels]]

\* ApplyPatch: the candidate after every operation, or the first refusal.
ApplyPatch(state, operations) ==
    LET open == P!Graph([ref \in DOMAIN state.ents \cup UNION {Named(operations[i]) : i \in DOMAIN operations} |->
                            IF ref \in DOMAIN state.ents THEN state.ents[ref] ELSE Gone], state.rels)
    IN  Close(state, FoldLeft(StageNext, [code |-> "none", graph |-> open], operations))

-----------------------------------------------------------------------------
(* Evidence and results.                                                   *)

NamesRead(trees) == {SplitFieldPath(path)[2] : path \in ReadsOf(trees)}
MemberFacts(members, trees) == RefsOf(members) \X NamesRead(trees)

\* invariantResult, with evidenceForInvariant: the facts the obligation reads.
InvariantResult(inv, passed, refs, facts) ==
    [key |-> inv.key, scope |-> inv.scope, boundary |-> inv.appliesAfter, passed |-> passed, code |-> inv.code,
     entities |-> refs, facts |-> {fact \in facts : fact[2] \in {SplitFieldPath(p)[2] : p \in inv.reads}}]

\* passingResults, and passingResultsBeforeCandidate: every obligation is a precondition.
PassingResults(invs, refs, facts) == [i \in DOMAIN invs |-> InvariantResult(invs[i], TRUE, refs, facts)]

\* A variant that takes the first obligation with the code for the one that failed.
FailureResultsByCode(invs, suffix, refs, facts) ==
    LET at == Min({i \in DOMAIN invs : invs[i].code = CodeOf(suffix)})
    IN  [i \in 1 .. at |-> InvariantResult(invs[i], i # at, refs, facts)]

\* evaluatedFailureResults: the obligations up to the one that failed.
EvaluatedFailureResults(invs, suffix, refs, facts) ==
    LET at == CHOOSE i \in DOMAIN invs : invs[i].key[2] = suffix
    IN  [i \in 1 .. at |-> InvariantResult(invs[i], i # at, refs, facts)]

\* journalInvariantResults.
JournalResults(journal) == FlattenSeq([i \in DOMAIN journal |-> journal[i].results])

Outcome(status, state, journal, results, failure) ==
    [status |-> status, state |-> state, journal |-> journal, results |-> results, failure |-> failure]

\* A returned error: no report, and what was given is given back.
Error(state, journal) == Outcome("error", state, journal, <<>>, <<>>)

\* protectedFailure, and what rejectInvariantAtKey and rejectOperation answer with it.
ProtectedFailure(rule, state, code, results, refs, facts, patch) ==
    <<[kind |-> "protected", rule |-> rule, predecessor |-> StateDigest(state), code |-> code, results |-> results,
       entities |-> refs, facts |-> facts, patch |-> patch]>>
Rejected(t, state, journal, code, results, refs, facts, patch) ==
    Outcome("rejected", state, journal, JournalResults(journal) \o results,
            ProtectedFailure(t.decl.id, state, code, results, refs, facts, patch))
Reject(t, state, journal, suffix, refs, facts) ==
    Rejected(t, state, journal, CodeOf(suffix), EvaluatedFailureResults(t.invariants, suffix, refs, facts), refs, facts, <<>>)
RejectOperation(t, state, journal, code, refs, facts, patch) ==
    Rejected(t, state, journal, code, PassingResults(t.invariants, refs, facts), refs, facts, <<PatchDigest(patch)>>)

\* newJournalEntry.
NewJournalEntry(rule, state, candidate, patch, facts, results) ==
    [rule |-> rule, predecessor |-> StateDigest(state), result |-> StateDigest(candidate), patch |-> patch,
     evidence |-> facts, results |-> results]

\* AppendAccepted: an entry that does not continue the journal is left out without a word.
AppendAccepted(journal, entry) ==
    IF journal # <<>> /\ entry.predecessor # journal[Len(journal)].result THEN journal ELSE Append(journal, entry)

\* commitStructuralOperations, and the end of executeSelectAndAssign.
Accepted(state, journal) == Outcome("accepted", state, journal, JournalResults(journal), <<>>)
CommitApplied(t, state, journal, operations, applied, refs, facts) ==
    IF applied.code # "none"
      THEN RejectOperation(t, state, journal, applied.code, refs, facts, operations)
      ELSE Accepted(applied.state,
                    AppendAccepted(journal, NewJournalEntry(t.decl.id, state, applied.state, operations, facts,
                                                            PassingResults(t.invariants, refs, facts))))
CommitPatch(t, state, journal, patch, refs, facts) ==
    IF ~patch.ok
      THEN Error(state, journal)
      ELSE CommitApplied(t, state, journal, patch.operations, ApplyPatch(state, patch.operations), refs, facts)
Commit(t, state, journal, operations, refs, facts) == CommitPatch(t, state, journal, NewPatch(operations), refs, facts)

-----------------------------------------------------------------------------
(* The operators over one selector.                                        *)

MembersOf(groups) == FlattenSeq([i \in DOMAIN groups |-> groups[i].members])

\* An output of a group: the entity it is made for (<<>>: the group), the discriminator of
\* what it makes (<<>>: nothing new) and the assignments.
Output(bound, disc, assigns) == [bound |-> bound, disc |-> disc, assigns |-> assigns]

\* The outputs of a group: one per member, one for the group, or one per member and partition.
Outputs(d, members) ==
    LET each(disc) == [i \in DOMAIN members |-> Output(<<members[i]>>, disc, d.assigns)]
    IN  CASE d.op \in {"select_assign", "delete"} -> each(<<>>)
          [] d.op = "insert" /\ d.sel.groupBy = <<>> -> each(<<d.disc>>)
          [] d.op \in {"insert", "merge"} -> <<Output(<<>>, <<d.disc>>, d.assigns)>>
          [] d.op = "split" ->
               FlattenSeq([i \in DOMAIN members |->
                   [p \in DOMAIN d.partitions |-> Output(<<members[i]>>, <<d.partitions[p].disc>>, d.partitions[p].assigns)]])

Subjects(u, members) == IF u.bound = <<>> THEN members ELSE u.bound

\* The expressions of an output, in the order they are evaluated.
Expressions(u) == u.disc \o [i \in DOMAIN u.assigns |-> u.assigns[i].value]

\* One evaluation: whether it failed, what it adds to the evidence, and what the report of
\* its failure names.
Evaluation(fault, facts, faultRefs, faultFacts) ==
    [fault |-> fault, facts |-> facts, faultRefs |-> faultRefs, faultFacts |-> faultFacts]

Guard(d, members) == AsBool(EvaluateGroupNode(d.guard, members, <<>>))

\* The evaluation of an expression of an output.
OutputEvaluation(d, members, u, e) ==
    Evaluation(EvaluateGroupValue(e, members, u.bound).err # "", MemberFacts(Subjects(u, members), {e}),
               IF d.op = "merge" THEN {} ELSE RefsOf(Subjects(u, members)), MemberFacts(members, {e}))
OutputEvaluations(d, members, u) == [i \in DOMAIN Expressions(u) |-> OutputEvaluation(d, members, u, Expressions(u)[i])]

\* A group that was run: its members, whether the guard admits it, and the evaluations: the
\* guard, and for an admitted group every expression of every output.  The facts of a split's
\* guard are not collected.
GroupRun(d, members, guard) ==
    LET guardFacts == MemberFacts(members, {d.guard})
        admitted == guard.err = "" /\ guard.boolean
        outputs == Outputs(d, members)
    IN  [members |-> members, admitted |-> admitted,
         evaluations |->
            <<Evaluation(guard.err # "", IF d.op = "split" THEN {} ELSE guardFacts, RefsOf(members), guardFacts)>>
            \o (IF admitted THEN FlattenSeq([i \in DOMAIN outputs |-> OutputEvaluations(d, members, outputs[i])]) ELSE <<>>)]
RunGroups(d, groups) == [i \in DOMAIN groups |-> GroupRun(d, groups[i].members, Guard(d, groups[i].members))]

\* The groups the guard admits, and their members.
Qualified(runs) == SelectSeq(runs, LAMBDA g : g.admitted)
Sources(qualified) == RefsOf(MembersOf(qualified))

\* The reference of the entity an output makes, and the fields it sets.
NewRef(d, state, members, u) ==
    <<d.target, SyntheticEntityID(state.lineage, d.target, d.id, RefsOf(Subjects(u, members)),
                                  EvaluateGroupValue(u.disc[1], members, u.bound).value)>>
NewFields(u, members) ==
    [f \in {u.assigns[i].target[2] : i \in DOMAIN u.assigns} |->
        LET last == Max({i \in DOMAIN u.assigns : u.assigns[i].target[2] = f})
        IN  EvaluateGroupValue(u.assigns[last].value, members, u.bound).value]

\* What executeSelectAndAssign and executeDeleteEntity do with a member, and what
\* executeInsertEntity, executeMergeEntities and executeSplitEntity make for an output.
AssignMember(state, ref, after) == P!Update(ref, [f \in DOMAIN after |-> state.ents[ref][f]], after)
DeleteMember(state, ref) == P!Delete(ref, state.ents[ref])
InsertOutput(d, state, members, u, fields) == P!Insert(NewRef(d, state, members, u), ImageOf(fields))

OutputOperation(d, state, members, u, fields) ==
    CASE d.op = "select_assign" -> AssignMember(state, RefOf(u.bound[1]), fields)
      [] d.op = "delete"        -> DeleteMember(state, RefOf(u.bound[1]))
      [] OTHER                  -> InsertOutput(d, state, members, u, fields)

\* One operation for every output of every group admitted.
GroupOperations(d, state, members, outputs) ==
    [i \in DOMAIN outputs |-> OutputOperation(d, state, members, outputs[i], NewFields(outputs[i], members))]
OutputOperations(d, state, qualified) ==
    FlattenSeq([i \in DOMAIN qualified |-> GroupOperations(d, state, qualified[i].members, Outputs(d, qualified[i].members))])

\* The relations of entities that are deleted, and the deletions.
Unrelations(state, refs) == SetToSeq({P!Unrelate(r) : r \in {x \in state.rels : x[1] \in refs \/ x[2] \in refs}})
Deletions(state, refs) == SetToSeq({P!Delete(ref, state.ents[ref]) : ref \in refs})

\* What a source was merged into: the output of its group; any other entity stays.
MergedTarget(qualified, outputs, ref) ==
    LET of == {k \in DOMAIN qualified : ref \in RefsOf(qualified[k].members)}
    IN  IF of = {} THEN ref ELSE outputs[CHOOSE k \in of : TRUE].ref

\* ReanchorRelations: the relations of the sources, moved to what these were merged into,
\* where the two ends still differ and the relation admits their kinds.
Reanchored(state, qualified, outputs) ==
    LET sources == Sources(qualified)
        anchored == {<<MergedTarget(qualified, outputs, r[1]), MergedTarget(qualified, outputs, r[2]), r[3]>>
                       : r \in {x \in state.rels : x[1] \in sources \/ x[2] \in sources}}
    IN  SetToSeq({P!Relate(r) : r \in {x \in anchored : x[1] # x[2] /\ Relations[x[3]] = <<x[1][1], x[2][1]>>}})

\* A variant that deletes the sources and leaves their relations alone.
MergeWithoutUnrelating(d, state, qualified, outputs) ==
    outputs \o (IF d.retain THEN <<>> ELSE Deletions(state, Sources(qualified)))

\* executeMergeEntities: unless they are retained, the sources go with their relations.
ExecuteMergeEntities(d, state, qualified, outputs) ==
    IF d.retain THEN outputs
    ELSE outputs \o Unrelations(state, Sources(qualified))
                 \o (IF d.reanchor THEN Reanchored(state, qualified, outputs) ELSE <<>>)
                 \o Deletions(state, Sources(qualified))

\* executeSplitEntity.
ExecuteSplitEntity(d, state, qualified, outputs) ==
    IF d.retain THEN outputs
    ELSE outputs \o Unrelations(state, Sources(qualified)) \o Deletions(state, Sources(qualified))

\* What an operator commits, from what its outputs made.
OperatorOperations(d, state, qualified, outputs) ==
    CASE d.op = "merge" -> ExecuteMergeEntities(d, state, qualified, outputs)
      [] d.op = "split" -> ExecuteSplitEntity(d, state, qualified, outputs)
      [] OTHER          -> outputs

Inserted(operations) == {operations[i].ref : i \in {k \in DOMAIN operations : operations[k].kind = "insert"}}
CommitQualified(t, state, journal, qualified, operations, facts) ==
    Commit(t, state, journal, operations, Sources(qualified) \cup Inserted(operations), facts)

RejectMembers(t, state, journal, suffix, members, trees) ==
    Reject(t, state, journal, suffix, RefsOf(members), MemberFacts(members, trees))

\* What the operators over one selector have in common: the obligations in their order, and
\* the commit of the operations.  First the evaluations, up to the first that fails.
FactsOf(evaluations, n) == UNION {evaluations[i].facts : i \in 1 .. n}
RejectEvaluation(t, state, journal, evaluations, n) ==
    Reject(t, state, journal, "04-evaluable", evaluations[n].faultRefs,
           FactsOf(evaluations, n - 1) \cup evaluations[n].faultFacts)
ExecuteQualified(t, state, journal, runs, qualified, facts) ==
    IF qualified = <<>>
      THEN RejectMembers(t, state, journal, "05-guard", MembersOf(runs), {t.decl.guard})
      ELSE CommitQualified(t, state, journal, qualified,
                           OperatorOperations(t.decl, state, qualified, OutputOperations(t.decl, state, qualified)), facts)
ExecuteEvaluated(t, state, journal, runs, evaluations) ==
    LET faults == {i \in DOMAIN evaluations : evaluations[i].fault}
    IN  IF faults # {}
          THEN RejectEvaluation(t, state, journal, evaluations, Min(faults))
          ELSE ExecuteQualified(t, state, journal, runs, Qualified(runs), FactsOf(evaluations, Len(evaluations)))
ExecuteRuns(t, state, journal, runs) ==
    ExecuteEvaluated(t, state, journal, runs, FlattenSeq([i \in DOMAIN runs |-> runs[i].evaluations]))

\* selectorFaultEvidence, the cardinality and the selection; then the groups are run.
ExecuteSelection(t, state, journal, selection) ==
    LET d == t.decl
    IN  IF selection.err # "" THEN RejectMembers(t, state, journal, "01-selector-evaluable", selection.fault, SelectorTrees(d.sel))
        ELSE IF selection.violations # <<>>
               THEN RejectMembers(t, state, journal, "02-cardinality", MembersOf(selection.violations), {d.guard})
        ELSE IF selection.groups = <<>> THEN RejectMembers(t, state, journal, "03-selection-nonempty", <<>>, {})
        ELSE ExecuteRuns(t, state, journal, RunGroups(d, selection.groups))
ExecuteSelected(t, state, journal) == ExecuteSelection(t, state, journal, Select(t.decl.sel, EntitiesOf(state)))

-----------------------------------------------------------------------------
(* The operators over two selectors.                                       *)

\* A pair of a selected source and a selected target, with what the guard says of it.
PairRun(d, pair) == [pair |-> pair, held |-> AsBool(EvaluateExpr(d.guard, pair))]
PairRuns(d, sources, targets) ==
    FlattenSeq([i \in DOMAIN sources |-> [j \in DOMAIN targets |-> PairRun(d, <<sources[i], targets[j]>>)]])

RelationOf(d, pair) == <<RefOf(pair[1]), RefOf(pair[2]), d.relation>>
PairOperation(d, pair) == IF d.op = "relate" THEN P!Relate(RelationOf(d, pair)) ELSE P!Unrelate(RelationOf(d, pair))

\* The pairs, as their runs: evaluated until one fails, and the admitted ones committed.
ExecutePairs(t, state, journal, runs, qualified, members) ==
    LET d == t.decl
        faults == {i \in DOMAIN runs : runs[i].held.err # ""}
        facts(n) == UNION {MemberFacts(runs[i].pair, {d.guard}) : i \in 1 .. n}
    IN  CASE runs = <<>>    -> RejectMembers(t, state, journal, "03-selection-nonempty", <<>>, {})
          [] faults # {}    -> Reject(t, state, journal, "04-evaluable", RefsOf(runs[Min(faults)].pair), facts(Min(faults)))
          [] qualified = <<>> -> Reject(t, state, journal, "05-guard", RefsOf(members), facts(Len(runs)))
          [] OTHER -> Commit(t, state, journal, [i \in DOMAIN qualified |-> PairOperation(d, qualified[i].pair)],
                             UNION {RefsOf(qualified[i].pair) : i \in DOMAIN qualified}, facts(Len(runs)))
ExecutePairRuns(t, state, journal, runs, members) ==
    ExecutePairs(t, state, journal, runs, SelectSeq(runs, LAMBDA run : run.held.boolean), members)

\* The endpoints in turn: a fault or a violation of the first is reported before the second's.
ExecuteEndpoints(t, state, journal, from, to) ==
    LET d == t.decl
        bad == IF from.err # "" \/ from.violations # <<>> THEN from ELSE to
        trees == SelectorTrees(IF from.err # "" THEN d.sel ELSE d.to)
        sources == MembersOf(from.groups)
        targets == MembersOf(to.groups)
    IN  CASE bad.err # "" -> RejectMembers(t, state, journal, "01-selector-evaluable", bad.fault, trees)
          [] bad.violations # <<>> -> RejectMembers(t, state, journal, "02-cardinality", MembersOf(bad.violations), {d.guard})
          [] OTHER -> ExecutePairRuns(t, state, journal, PairRuns(d, sources, targets), sources \o targets)

\* executeRelationMutation: every pair of a selected source and a selected target.
ExecuteRelationMutation(t, state, journal) ==
    ExecuteEndpoints(t, state, journal, Select(t.decl.sel, EntitiesOf(state)), Select(t.decl.to, EntitiesOf(state)))

\* The switch of ExecuteTransition.
ExecuteRule(t, state, journal) ==
    IF t.decl.op \in RelationOperators THEN ExecuteRelationMutation(t, state, journal) ELSE ExecuteSelected(t, state, journal)
=============================================================================
