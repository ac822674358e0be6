------------------------------ MODULE Compiler ------------------------------
(***************************************************************************)
(* Compile (internal/semantic/compile.go): a request is normalised, every  *)
(* rule is checked and its accesses derived, the rules are ordered, and    *)
(* the answer is a plan with its profiles or the set of diagnostics.       *)
(*                                                                         *)
(* A rule declaration is a record with the members of every operator; the  *)
(* ones its operator does not use are empty:                               *)
(*   id, op, payloads (the operators a payload is present for),            *)
(*   sel (the from-selector of a relation rule), to, relation, target,     *)
(*   disc, guard, assigns (of [target, value]), partitions (of [disc,      *)
(*   assigns]), retain, reanchor, reads, writes, after (as authored).      *)
(* A path is <<kind, field>>; ids and keys are numbers in name order.      *)
(***************************************************************************)
EXTENDS GroupExpressions, RuleGraph

CONSTANTS Relations,    \* the declared relations: [kind -> <<from kind, to kind>>]
          MaxExprNodes  \* maxExprNodes

Operators == {"select_assign", "insert", "delete", "relate", "unrelate", "merge", "split"}
RelationOperators == {"relate", "unrelate"}

EntityKinds == {path[1] : path \in DOMAIN Declared}

-----------------------------------------------------------------------------
(* Normalisation.                                                          *)

\* normalizeFieldSet, normalizeRuleSet, normalizeProfileSet: a sorted list without duplicates.
NormalizeSet(s) == [ok |-> IsInjective(s), set |-> Range(s)]

RECURSIVE Subtrees(_, _)
\* The nodes of a tree with their depth, as many as there are positions.
Subtrees(e, depth) ==
    <<depth>> \o FlattenSeq([i \in DOMAIN e.args |-> Subtrees(e.args[i], depth + 1)])

\* checkAuthoredExprBound.
CheckAuthoredExprBound(e) ==
    LET nodes == Subtrees(e, 0)
    IN  Len(nodes) <= MaxExprNodes /\ \A i \in DOMAIN nodes : nodes[i] <= MaxExprDepth

SelectorTrees(s) == Range(s.where) \cup Range(s.groupBy)
AssignmentTrees(assigns) == {assigns[i].value : i \in DOMAIN assigns}

\* The trees of the payload, in checkAuthoredPayloadBounds.
PayloadTrees(d) ==
    SelectorTrees(d.sel) \cup {d.guard} \cup AssignmentTrees(d.assigns)
    \cup (IF d.op \in RelationOperators THEN SelectorTrees(d.to) ELSE {})
    \cup (IF d.op \in {"insert", "merge"} THEN {d.disc} ELSE {})
    \cup UNION {{d.partitions[i].disc} \cup AssignmentTrees(d.partitions[i].assigns) : i \in DOMAIN d.partitions}

PathLess(p, q) == TextLess(<<Code[p[1]], Code[p[2]]>>, <<Code[q[1]], Code[q[2]]>>)

\* A variant that leaves the assignments as they were authored.
PayloadAsAuthored(d) == d.assigns

\* normalizeTransformationPayload: only the assignments of a select-assign are sorted.
NormalizePayload(d) ==
    IF d.op = "select_assign" THEN SortSeq(d.assigns, LAMBDA a, b : PathLess(a.target, b.target)) ELSE d.assigns

NormalizeTransformation(d) ==
    [d EXCEPT !.reads = Range(@), !.writes = Range(@), !.after = Range(@), !.assigns = NormalizePayload(d)]

\* normalizeRuleset.
NormalizeRuleset(request) ==
    LET rules == request.rules
    IN  [ok |-> /\ \A i \in DOMAIN rules :
                      /\ \A e \in PayloadTrees(rules[i]) : CheckAuthoredExprBound(e)
                      /\ NormalizeSet(rules[i].reads).ok /\ NormalizeSet(rules[i].writes).ok
                      /\ NormalizeSet(rules[i].after).ok
                /\ IsInjective([i \in DOMAIN rules |-> rules[i].id])
                /\ IsInjective([i \in DOMAIN request.checkpoints |-> request.checkpoints[i].key]),
         transformations |-> SortSeq([i \in DOMAIN rules |-> NormalizeTransformation(rules[i])],
                                     LAMBDA a, b : a.id < b.id),
         checkpoints |-> SortSeq(request.checkpoints, LAMBDA a, b : a.key < b.key)]

\* normalizeProfiles.
NormalizeProfiles(profiles) ==
    [ok |-> /\ \A i \in DOMAIN profiles : IsInjective(profiles[i].requirements) /\ NormalizeSet(profiles[i].implies).ok
            /\ IsInjective([i \in DOMAIN profiles |-> profiles[i].key]),
     profiles |-> SortSeq([i \in DOMAIN profiles |->
                              [profiles[i] EXCEPT !.requirements = Range(@), !.implies = Range(@)]],
                          LAMBDA a, b : a.key < b.key)]

-----------------------------------------------------------------------------
(* deriveTransformation.                                                   *)

Diagnostic(code, subject, detail) == <<code, subject, detail>>
Unsupported(d, detail) == {Diagnostic("UNSUPPORTED_OPERATOR", d.id, detail)}

\* validateFieldPath: of the kind expected, where one is.
ValidFieldPath(path, kind) == path \in DOMAIN Declared /\ (kind # "" => path[1] = kind)
UnknownFields(paths, kind, subject) ==
    {Diagnostic("UNKNOWN_FIELD", subject, path) : path \in {p \in paths : ~ValidFieldPath(p, kind)}}

ReadsOf(trees) == UNION {ReadFieldPaths(e) : e \in trees}
SelectorReads(s) == ReadsOf(SelectorTrees(s))
GroupingReads(s) == ReadsOf(Range(s.groupBy))
ValueReads(d) ==
    ReadsOf(AssignmentTrees(d.assigns) \cup (IF d.op \in {"insert", "merge"} THEN {d.disc} ELSE {})
            \cup UNION {{d.partitions[i].disc} \cup AssignmentTrees(d.partitions[i].assigns) : i \in DOMAIN d.partitions})

\* The kind a path of a relation guard stands for.
EndpointPath(d, path) ==
    CASE SplitFieldPath(path)[1] = "from" -> <<d.sel.kind, path[2]>>
      [] SplitFieldPath(path)[1] = "to"   -> <<d.to.kind, path[2]>>
      [] OTHER                            -> path

\* reads and writes, as derived.
DerivedReads(d) ==
    IF d.op \in RelationOperators
      THEN SelectorReads(d.sel) \cup SelectorReads(d.to) \cup {EndpointPath(d, p) : p \in ReadFieldPaths(d.guard)}
      ELSE SelectorReads(d.sel) \cup ReadFieldPaths(d.guard) \cup ValueReads(d)
DerivedWrites(d) ==
    {d.assigns[i].target : i \in DOMAIN d.assigns}
    \cup UNION {{d.partitions[i].assigns[j].target : j \in DOMAIN d.partitions[i].assigns} : i \in DOMAIN d.partitions}

\* The kind of the entities a rule writes, and the scope its values are evaluated in.
TargetKind(d) == IF d.op = "select_assign" THEN d.sel.kind ELSE d.target
ValueScope(d) ==
    CASE d.op = "select_assign" -> "member-in-group"
      [] d.op = "merge" \/ (d.op = "insert" /\ d.sel.groupBy # <<>>) -> "group"
      [] OTHER -> "member"

AssignmentDiagnostics(d, assigns) ==
    UNION {LET target == assigns[i].target
               type == CheckExprInScope(d.sel.kind, assigns[i].value, ValueScope(d), 0)
               known == ValidFieldPath(target, TargetKind(d))
           IN  UnknownFields({target}, TargetKind(d), d.id)
               \cup (IF \/ \E j \in 1 .. i - 1 : assigns[j].target = target
                        \/ type = "invalid"
                        \/ d.op = "select_assign" /\ ~CheckPathsBindKind(assigns[i].value, d.sel.kind)
                        \/ known /\ Declared[target] # type
                     THEN Unsupported(d, target) ELSE {})
             : i \in DOMAIN assigns}

Discriminating(kind, e, scope) == CheckExprInScope(kind, e, scope, 0) \in {"string", "int64", "atom"}

\* What the operators over one selector have in common: its paths and the guard's, of its
\* kind; the selector; the guard.
SourceDiagnostics(d) ==
    UnknownFields(SelectorReads(d.sel) \cup ReadFieldPaths(d.guard), d.sel.kind, d.id)
    \cup (IF ~CompileSelector(d.sel) THEN Unsupported(d, "selector") ELSE {})
    \cup (IF CheckExprInScope(d.sel.kind, d.guard, "group", 0) # "bool" THEN Unsupported(d, "guard") ELSE {})

SelectAssignDiagnostics(d) ==
    SourceDiagnostics(d) \cup AssignmentDiagnostics(d, d.assigns)
    \cup (IF CompileSelector(d.sel) /\ d.sel.groupBy = <<>> THEN Unsupported(d, "selector_ungrouped") ELSE {})
    \cup (IF d.assigns = <<>> THEN Unsupported(d, "assignments_empty") ELSE {})

TargetDiagnostics(d) == IF d.target \notin EntityKinds THEN Unsupported(d, "target_entity_kind") ELSE {}

InsertDiagnostics(d) ==
    SourceDiagnostics(d) \cup TargetDiagnostics(d) \cup AssignmentDiagnostics(d, d.assigns)
    \cup UnknownFields(ReadFieldPaths(d.disc), d.sel.kind, d.id)
    \cup (IF Discriminating(d.sel.kind, d.disc, ValueScope(d)) THEN {} ELSE Unsupported(d, "discriminator"))

DeleteDiagnostics(d) == SourceDiagnostics(d)

\* The checks of an insert, all of them in the scope of a group.
MergeDiagnostics(d) == InsertDiagnostics(d)

SplitDiagnostics(d) ==
    SourceDiagnostics(d) \cup TargetDiagnostics(d)
    \cup (IF d.partitions = <<>> THEN Unsupported(d, "partitions_empty") ELSE {})
    \cup UNION {AssignmentDiagnostics(d, d.partitions[i].assigns)
                \cup (IF Discriminating(d.sel.kind, d.partitions[i].disc, "member") THEN {}
                      ELSE Unsupported(d, "partition_discriminator")) : i \in DOMAIN d.partitions}

RelationDiagnostics(d) ==
    (IF d.relation \notin DOMAIN Relations THEN Unsupported(d, "relation_kind")
     ELSE IF Relations[d.relation] # <<d.sel.kind, d.to.kind>> THEN Unsupported(d, "endpoint_kind_mismatch")
     ELSE {})
    \cup (IF ~CompileSelector(d.sel) THEN Unsupported(d, "from_selector") ELSE {})
    \cup (IF ~CompileSelector(d.to) THEN Unsupported(d, "to_selector") ELSE {})
    \cup (IF CheckRelationGuard(d.guard, d.sel.kind, d.to.kind) # "bool" THEN Unsupported(d, "guard") ELSE {})

Access(kind, mode, name) == [kind |-> kind, mode |-> mode, name |-> name]

\* The entities and relations an operator reads and writes.
OperatorAccesses(d) ==
    IF d.op \in RelationOperators
      THEN {Access("entity", "read", d.sel.kind), Access("entity", "read", d.to.kind),
            Access("relation", "write", d.relation)}
      ELSE {Access("entity", "read", d.sel.kind)}
           \cup (IF d.op \in {"insert", "merge", "split"} THEN {Access("entity", "write", d.target)} ELSE {})
           \cup (IF d.op \in {"select_assign", "delete"} \/ (d.op \in {"merge", "split"} /\ ~d.retain)
                   THEN {Access("entity", "write", d.sel.kind)} ELSE {})

\* The five obligations of a rule, in the order of their keys.
Obligations == <<"01-selector-evaluable", "02-cardinality", "03-selection-nonempty", "04-evaluable", "05-guard">>
CodeOf(suffix) ==
    CASE suffix \in {"01-selector-evaluable", "04-evaluable"} -> "SELECTION_EXPRESSION_UNAVAILABLE"
      [] suffix = "02-cardinality"                            -> "SELECTION_CARDINALITY_INVALID"
      [] suffix = "03-selection-nonempty"                     -> "SELECTION_EMPTY"
      [] suffix = "05-guard"                                  -> "SELECTION_GUARD_UNSATISFIED"

Invariants(d) ==
    LET twoSided == d.op \in RelationOperators
        selection == SelectorReads(d.sel) \cup (IF twoSided THEN SelectorReads(d.to) ELSE {})
        grouping == GroupingReads(d.sel) \cup (IF twoSided THEN GroupingReads(d.to) ELSE {})
        guard == ReadFieldPaths(d.guard)
    IN  [i \in DOMAIN Obligations |->
            [key |-> <<d.id, Obligations[i]>>, code |-> CodeOf(Obligations[i]), scope |-> "rule_precondition",
             reads |-> CASE i = 1 -> selection [] i \in {2, 3} -> grouping
                         [] i = 4 -> guard \cup ValueReads(d) [] i = 5 -> guard,
             appliesAfter |-> d.id]]

OperatorDiagnostics(d) ==
    CASE d.op = "select_assign"     -> SelectAssignDiagnostics(d)
      [] d.op = "insert"            -> InsertDiagnostics(d)
      [] d.op = "delete"            -> DeleteDiagnostics(d)
      [] d.op \in RelationOperators -> RelationDiagnostics(d)
      [] d.op = "merge"             -> MergeDiagnostics(d)
      [] d.op = "split"             -> SplitDiagnostics(d)

\* deriveTransformation: the derived members and the diagnostics.  A rule without the payload
\* of its operator derives nothing.
DeriveTransformation(d) ==
    LET present == d.op \in d.payloads
        reads == IF present THEN DerivedReads(d) ELSE {}
        writes == IF present THEN DerivedWrites(d) ELSE {}
    IN  [decl |-> d, reads |-> reads, writes |-> writes,
         accesses |-> (IF present THEN OperatorAccesses(d) ELSE {})
                      \cup {Access("field", "read", p) : p \in reads} \cup {Access("field", "write", p) : p \in writes},
         invariants |-> IF present THEN Invariants(d) ELSE <<>>,
         diagnostics |->
            UnknownFields(d.reads \cup d.writes, "", d.id)
            \cup (IF d.payloads # {d.op} THEN Unsupported(d, "operator_union") ELSE {})
            \cup (CASE d.op \notin Operators -> Unsupported(d, "operator_kind")
                    [] d.op \in Operators /\ ~present -> {}
                    [] OTHER -> OperatorDiagnostics(d))
            \cup (IF d.reads # reads THEN {Diagnostic("DECLARED_ACCESS_MISMATCH", d.id, "reads")} ELSE {})
            \cup (IF d.writes # writes THEN {Diagnostic("DECLARED_ACCESS_MISMATCH", d.id, "writes")} ELSE {})]

-----------------------------------------------------------------------------
(* Profiles and checkpoints.                                               *)

\* A variant with the inclusion the wrong way round.
ProfileImpliesReversed(source, target) ==
    /\ source.scope = target.scope /\ source.aggregation = target.aggregation
    /\ source.requirements \subseteq target.requirements

\* profileImplies: the same scope, and every requirement of the target is one of the source.
ProfileImplies(source, target) ==
    /\ source.scope = target.scope /\ source.aggregation = target.aggregation
    /\ target.requirements \subseteq source.requirements

\* compileProfiles: each profile with the implications proved, and its diagnostics.
CompileProfile(profiles, p) ==
    LET targets(key) == {q \in Range(profiles) : q.key = key}
        proved == {key \in p.implies : \E q \in targets(key) : ProfileImplies(p, q)}
        unprovable(detail) == {Diagnostic("PROFILE_ORDER_UNPROVABLE", p.key, detail)}
    IN  [declaration |-> p, proofs |-> proved,
         diagnostics |->
            (IF p.scope.kind = "all_of_kind" /\ p.aggregation = "all_selected" /\ p.scope.entity \in EntityKinds
               THEN {} ELSE unprovable("profile_shape"))
            \cup (IF \A r \in p.requirements : r.kind = "field_present" THEN {} ELSE unprovable("requirement_tag"))
            \cup UnknownFields({r.field : r \in p.requirements}, p.scope.entity, p.key)
            \cup UNION {unprovable(key) : key \in p.implies \ proved}]

\* orderCheckpoints: by position of the rule, then by key.
OrderCheckpoints(checkpoints, order) ==
    LET position(id) == CHOOSE n \in DOMAIN order : order[n] = id
    IN  SortSeq(checkpoints, LAMBDA a, b :
            IF position(a.after) # position(b.after) THEN position(a.after) < position(b.after) ELSE a.key < b.key)

-----------------------------------------------------------------------------
(* Compile.                                                                *)

\* What the graph knows of the rules.
GraphOf(derived) ==
    [id \in {derived[i].decl.id : i \in DOMAIN derived} |->
        LET t == CHOOSE x \in Range(derived) : x.decl.id = id
        IN  [reads |-> t.reads, writes |-> t.writes, after |-> t.decl.after]]

\* resolveDependencies and validateCheckpointBoundaries: what they object to.
GraphDiagnostics(rules, checkpoints) ==
    UNION {{Diagnostic("UNSUPPORTED_OPERATOR", id, <<"dependency", unknown>>) : unknown \in UnknownDependencies(rules, id)}
             : id \in DOMAIN rules}
    \cup {Diagnostic("WRITE_CONFLICT_UNRESOLVED", <<c[1], c[2]>>, c[3]) : c \in WriteConflicts(rules)}
    \cup {Diagnostic("UNSUPPORTED_OPERATOR", checkpoints[i].key, <<"checkpoint_after", checkpoints[i].after>>)
            : i \in {k \in DOMAIN checkpoints : checkpoints[k].after \notin DOMAIN rules}}

\* The rule with this id, with its place in the order.
Placed(derived, dependencies, id, level) ==
    LET t == CHOOSE x \in Range(derived) : x.decl.id = id
    IN  [decl |-> t.decl, reads |-> t.reads, writes |-> t.writes, accesses |-> t.accesses,
         invariants |-> t.invariants, dependencies |-> dependencies[id], level |-> level]

PlanOf(ruleset, derived, dependencies, order, levels) ==
    [ruleset |-> [transformations |-> ruleset.transformations, checkpoints |-> ruleset.checkpoints],
     transformations |-> [n \in DOMAIN order |-> Placed(derived, dependencies, order[n], levels[n])],
     checkpoints |-> OrderCheckpoints(ruleset.checkpoints, order)]

\* What every stage objects to.
Diagnostics(ruleset, derived, rules, order, profiles) ==
    UNION {derived[i].diagnostics : i \in DOMAIN derived}
    \cup GraphDiagnostics(rules, ruleset.checkpoints)
    \cup (IF Len(order) # Len(derived) THEN {Diagnostic("DEPENDENCY_CYCLE", "ruleset", "dependency_graph")} ELSE {})
    \cup UNION {profiles[i].diagnostics : i \in DOMAIN profiles}

\* The end of Compile.
CompileAnswer(ruleset, derived, dependencies, order, profiles, diagnostics) ==
    IF diagnostics # {} THEN [status |-> "failure", diagnostics |-> diagnostics]
    ELSE [status |-> "plan",
          plan |-> PlanOf(ruleset, derived, dependencies, order, Levels(dependencies, order)),
          profiles |-> [i \in DOMAIN profiles |-> [declaration |-> profiles[i].declaration, proofs |-> profiles[i].proofs]]]

\* The stages of Compile, each handed what the stages before it answered.
CompileOrdered(ruleset, derived, rules, dependencies, order, profiles) ==
    CompileAnswer(ruleset, derived, dependencies, order, profiles, Diagnostics(ruleset, derived, rules, order, profiles))

CompileGraph(ruleset, derived, rules, dependencies, profiles) ==
    CompileOrdered(ruleset, derived, rules, dependencies, TopologicalOrder(dependencies), profiles)

CompileRules(ruleset, derived, rules, profiles) ==
    CompileGraph(ruleset, derived, rules, Dependencies(rules), profiles)

CompileDerived(ruleset, derived, profiles) == CompileRules(ruleset, derived, GraphOf(derived), profiles)

CompileNormalized(ruleset, profiles) ==
    IF ~ruleset.ok \/ ~profiles.ok THEN [status |-> "error"]
    ELSE CompileDerived(ruleset,
                        [i \in DOMAIN ruleset.transformations |-> DeriveTransformation(ruleset.transformations[i])],
                        [i \in DOMAIN profiles.profiles |-> CompileProfile(profiles.profiles, profiles.profiles[i])])

\* Compile: "error" for a request without canonical form, "failure" with the diagnostics, or
\* "plan".
Compile(request) == CompileNormalized(NormalizeRuleset(request), NormalizeProfiles(request.profiles))
=============================================================================
