------------------------------- MODULE Kernel -------------------------------
(***************************************************************************)
(* A caller of the semantic kernel.  It compiles a request, binds the plan *)
(* to initial states, and hands the artifacts it holds to                  *)
(* ExecuteTransition, Seal and Assess in any mixture: a state of another   *)
(* run, a journal that is behind, a rule out of turn, a call repeated.     *)
(* The kernel keeps nothing between calls, so what a call does depends on  *)
(* what it is handed alone.                                                *)
(***************************************************************************)
EXTENDS Runs

CONSTANTS Requests,   \* the compilation requests
          Initials,   \* the initial states
          MaxRuns     \* how many runs the caller has

VARIABLES request,    \* what was compiled, <<>> before
          compiled,   \* what Compile answered
          held,       \* for each run, the [state, journal] pairs its accepted calls returned
          reports,    \* for each run, the protected failures
          sealed,     \* the checkpoint artifacts
          answers     \* the assessments

vars == <<request, compiled, held, reports, sealed, answers>>

Compiled == compiled.status = "plan"
Plan == compiled.plan
RuleIDs == {Plan.transformations[n].decl.id : n \in DOMAIN Plan.transformations}
HeldOutcomes == UNION {held[b] : b \in DOMAIN held}
HeldStates == {h.state : h \in HeldOutcomes}
HeldJournals == {h.journal : h \in HeldOutcomes}

Init ==
    /\ request = <<>>
    /\ compiled = [status |-> "none"]
    /\ held = <<>>
    /\ reports = <<>>
    /\ sealed = {}
    /\ answers = {}

CompileRequest(r) ==
    /\ request = <<>>
    /\ request' = <<r>>
    /\ compiled' = Compile(r)
    /\ UNCHANGED <<held, reports, sealed, answers>>

Bind(initial) ==
    /\ Compiled /\ Cardinality(DOMAIN held) < MaxRuns
    /\ \E b \in {BindRun(Plan, initial, "world", "interpreter")} \ DOMAIN held :
          /\ held' = held @@ (b :> {[state |-> initial, journal |-> <<>>]})
          /\ reports' = reports @@ (b :> {})
    /\ UNCHANGED <<request, compiled, sealed, answers>>

\* A call of ExecuteTransition; what an integrity failure or an error gives back is dropped.
Execute(b, rule, state, journal) ==
    /\ \E outcome \in {ExecuteTransition(b, rule, state, journal)} :
          /\ held' = IF outcome.status = "accepted"
                       THEN [held EXCEPT ![b] = @ \cup {[state |-> outcome.state, journal |-> outcome.journal]}] ELSE held
          /\ reports' = IF outcome.status = "rejected" THEN [reports EXCEPT ![b] = @ \cup {outcome.failure[1]}] ELSE reports
    /\ UNCHANGED <<request, compiled, sealed, answers>>

SealCheckpoint(b, key, state, journal, results) ==
    /\ \E outcome \in {Seal(b, key, state, journal, results, sealed)} :
          sealed' = IF outcome.status = "sealed" THEN sealed \cup {outcome.artifact} ELSE sealed
    /\ UNCHANGED <<request, compiled, held, reports, answers>>

AssessCheckpoint(artifact, state, profile) ==
    /\ \E outcome \in {Assess(artifact, state, profile, answers)} :
          answers' = IF outcome.status = "assessed" THEN answers \cup {outcome.assessment} ELSE answers
    /\ UNCHANGED <<request, compiled, held, reports, sealed>>

\* The calls are made in the order of a run, rules before checkpoints before assessments. No call
\* is handed what a later one returns, so every combination of what is held, sealed and answered
\* is still reached.
Next ==
    \/ \E r \in Requests : CompileRequest(r)
    \/ \E initial \in Initials : Bind(initial)
    \/ sealed = {} /\ \E b \in DOMAIN held : \E rule \in RuleIDs, state \in HeldStates, journal \in HeldJournals :
           Execute(b, rule, state, journal)
    \/ answers = {} /\ \E b \in DOMAIN held : \E c \in Range(Plan.checkpoints), one, other \in HeldOutcomes :
           \/ SealCheckpoint(b, c.key, one.state, one.journal, JournalResults(other.journal))
           \/ SealCheckpoint(b, c.key, one.state, other.journal, JournalResults(one.journal))
    \/ \E artifact \in sealed : \E state \in HeldStates, i \in DOMAIN compiled.profiles :
           AssessCheckpoint(artifact, state, compiled.profiles[i])

Spec == Init /\ [][Next]_vars

-----------------------------------------------------------------------------
(* Plans.                                                                  *)

\* The rules run one after the other, without the verification: the states on the way, and
\* the outcome of the last.
Interpret(transformations, initial) ==
    LET run[n \in 0 .. Len(transformations)] ==
            IF n = 0 THEN Outcome("accepted", initial, <<>>, <<>>, <<>>)
            ELSE IF run[n - 1].status # "accepted" THEN run[n - 1]
            ELSE ExecuteRule(transformations[n], run[n - 1].state, run[n - 1].journal)
    IN  run

\* What a step adds to a run: the pairs accepted calls return, and the protected failures.
Added(before, after, b) == after[b] \ (IF b \in DOMAIN before THEN before[b] ELSE {})

AssignsOnly(plan) == \A n \in DOMAIN plan.transformations : plan.transformations[n].decl.op = "select_assign"

\* The orders of the rules that run each after the rules it depends on.
Schedules(ts) ==
    LET ids(order, n) == {ts[order[k]].decl.id : k \in 1 .. n - 1}
    IN  {order \in SetToSeqs(DOMAIN ts) : \A n \in DOMAIN order : ts[order[n]].dependencies \subseteq ids(order, n)}

\* Names are not meaning: the compiled order breaks ties by the names of the rules, and for a
\* plan of assignments any other order its dependencies allow accepts the same inputs and ends
\* in the same state.
\* Rules that write a common field, or of which one reads what another writes, are ordered
\* by a dependency, or the plan is refused (resolveDependencies).
SchedulesAgree(plan) ==
    AssignsOnly(plan) =>
        \A initial \in Initials, order \in Schedules(plan.transformations) :
            LET n == Len(plan.transformations)
                chosen == Interpret(plan.transformations, initial)[n]
                other == Interpret([k \in 1 .. n |-> plan.transformations[order[k]]], initial)[n]
            IN  /\ chosen.status = other.status
                /\ chosen.status = "accepted" => chosen.state = other.state

\* The request with its rules, their assignments, their dependencies and its profiles authored
\* the other way round.
Shuffled(r) ==
    [r EXCEPT !.rules = [i \in DOMAIN @ |->
                            LET d == @[Len(@) + 1 - i]
                            IN  [d EXCEPT !.after = Reverse(@), !.reads = Reverse(@), !.writes = Reverse(@),
                                          !.assigns = IF d.op = "select_assign" THEN Reverse(@) ELSE @]],
              !.checkpoints = Reverse(@), !.profiles = Reverse(@)]

\* Authoring order is not meaning: the request authored the other way round compiles to the
\* same answer, identities included (normalizeRuleset, normalizeProfiles, and everything
\* derived after them).  The assignments of the other operators are compiled as authored.
AuthoringOrderIsForgotten(r, answer) == Compile(Shuffled(r)) = answer

Compilations == [r \in Requests |-> Compile(r)]

\* A plan's identity stands for what the plan does: two requests with one PlanID take every
\* initial state to the same outcome (encodePlan).
PlanIdentityIsBehaviour(plan) ==
    \A r \in Requests :
        LET other == Compilations[r]
            n == Len(plan.transformations)
        IN  (other.status = "plan" /\ PlanID(other.plan) = PlanID(plan)) =>
                \A initial \in Initials :
                    Interpret(other.plan.transformations, initial)[n] = Interpret(plan.transformations, initial)[n]

\* A plan is what it does: neither the order its rules were authored in nor, of assignments,
\* the one they are scheduled in shows, and its identity stands for it.
PlansAreWhatTheyDo ==
    [][(compiled' # compiled /\ Compiled') =>
          /\ SchedulesAgree(Plan')
          /\ AuthoringOrderIsForgotten(request'[1], compiled')
          /\ PlanIdentityIsBehaviour(Plan')]_vars

\* An implication the compiler proved holds of every state: where the profile is Ready, so is
\* each profile it implies (profileImplies).
ImplicationsAreSound(profiles, state) ==
    \A i, j \in DOMAIN profiles :
        /\ profiles[j].declaration.key \in profiles[i].proofs
        /\ EvaluateProfile(state, profiles[i]).verdict = "ready"
        => EvaluateProfile(state, profiles[j]).verdict = "ready"

-----------------------------------------------------------------------------
(* Runs.                                                                   *)

\* Whatever mixture of artifacts was handed in, an accepted history is the plan: each pair of
\* state and journal a call returned is what the first rules of the plan, in order, make of
\* the run's initial state, with one entry for each.
HistoryIsThePlan(b, h) ==
    LET run == Interpret(b.plan.transformations, b.initial)[Len(h.journal)]
    IN  run.status = "accepted" /\ run.state = h.state /\ run.journal = h.journal

\* A sealed checkpoint is the plan's prefix up to its rule, with every obligation on the way
\* passed.
SealedIsThePrefix(b, a) ==
    LET c == CHOOSE x \in Range(b.plan.checkpoints) : x.key = a.checkpoint
        n == CHOOSE k \in DOMAIN b.plan.transformations : b.plan.transformations[k].decl.id = c.after
        run == Interpret(b.plan.transformations, b.initial)[n]
    IN  /\ SemanticRunID(b) = a.run
        /\ run.status = "accepted" /\ StateDigest(run.state) = a.stateDigest
        /\ JournalPrefixDigest(b, run.journal) = a.journalPrefixDigest
        /\ \A i \in DOMAIN run.results : run.results[i].passed

\* What a caller is given is the plan's: the histories its calls return and the checkpoints
\* they seal.
ArtifactsAreThePlans ==
    [][/\ \A b \in DOMAIN held' : \A h \in Added(held, held', b) : HistoryIsThePlan(b, h)
       /\ \A a \in sealed' \ sealed : \E b \in DOMAIN held' : SealedIsThePrefix(b, a)]_vars

\* A rule that creates an entity without a field its kind must have.
Incomplete(d) ==
    LET built == {{d.assigns[i].target : i \in DOMAIN d.assigns}}
        parts == {{d.partitions[p].assigns[i].target : i \in DOMAIN d.partitions[p].assigns} : p \in DOMAIN d.partitions}
        lacks(targets) == \E path \in Required : path[1] = d.target /\ path \notin targets
    IN  \/ d.op \in {"insert", "merge"} /\ \E targets \in built : lacks(targets)
        \/ d.op = "split" /\ \E targets \in parts : lacks(targets)

\* A caller that hands each call what the last one returned is answered: the next rule is
\* accepted or rejected with an attributed failure, the checkpoint at the boundary is sealed
\* and the sealed state assessed, and no call is refused as inconsistent or ends in an error.
\* The exception is a rule that builds an entity without a required field: it compiles and
\* NewPatch refuses what it builds with an error no report names.
NextRuleIsAnswered(b, h) ==
    LET next == Len(h.journal) + 1
        ts == b.plan.transformations
    IN  next <= Len(ts) =>
            \/ ExecuteTransition(b, ts[next].decl.id, h.state, h.journal).status \in {"accepted", "rejected"}
            \/ Incomplete(ts[next].decl)
CheckpointIsAnswered(b, h, profiles, artifacts, assessments) ==
    \A c \in Range(b.plan.checkpoints) :
        (h.journal # <<>> /\ h.journal[Len(h.journal)].rule = c.after) =>
            LET outcome == Seal(b, c.key, h.state, h.journal, JournalResults(h.journal), artifacts)
            IN  /\ outcome.status = "sealed"
                /\ \A i \in DOMAIN profiles :
                      Assess(outcome.artifact, h.state, profiles[i], assessments).status = "assessed"

-----------------------------------------------------------------------------
(* Failure reports.                                                        *)

\* Whether an obligation of a rule over one selector holds in a state, from what it says.
Holds(d, suffix, state) ==
    LET selection == Select(d.sel, EntitiesOf(state))
        groups == selection.groups
        admitted(g) == Guard(d, g.members)
    IN  CASE suffix = "01-selector-evaluable" -> selection.err = ""
          [] suffix = "02-cardinality"        -> selection.violations = <<>>
          [] suffix = "03-selection-nonempty" -> groups # <<>>
          [] suffix = "04-evaluable" ->
               \A g \in Range(groups) :
                   /\ admitted(g).err = ""
                   /\ admitted(g).boolean =>
                         \A u \in Range(Outputs(d, g.members)) : \A e \in Range(Expressions(u)) :
                             EvaluateGroupValue(e, g.members, u.bound).err = ""
          [] suffix = "05-guard" -> \E g \in Range(groups) : admitted(g).boolean

\* A failure report tells the truth: each obligation it says passed holds in the state the
\* rule was run on, the one it says failed does not, and the code is the failed one's.
\* (A rule over two selectors claims obligations of a selection it has not made yet.)
ReportIsTrue(b, report) ==
    LET t == CHOOSE x \in Range(b.plan.transformations) : x.decl.id = report.rule
        state == report.predecessor[3]
    IN  t.decl.op \notin RelationOperators =>
            /\ \A i \in DOMAIN report.results :
                  report.results[i].passed = Holds(t.decl, report.results[i].key[2], state)
            /\ report.patch = <<>> => ~report.results[Len(report.results)].passed
                                      /\ report.results[Len(report.results)].code = report.code

\* The kernel's answers can be relied on: an honest call gets one, a failure report is true, and
\* an implication between profiles holds.
AnswersAreTrue ==
    [][/\ \A b \in DOMAIN held' : \A h \in Added(held, held', b) :
             NextRuleIsAnswered(b, h) /\ ImplicationsAreSound(compiled.profiles, h.state)
       /\ vars' # vars => \A b \in DOMAIN held' : \A h \in held'[b] :
             CheckpointIsAnswered(b, h, compiled.profiles, sealed', answers')
       /\ \A b \in DOMAIN reports' : \A report \in Added(reports, reports', b) : ReportIsTrue(b, report)]_vars

\* A synthetic entity is new: an insert or a merge never collides with an entity there is or
\* one the same rule makes, whatever discriminator its groups share (SyntheticEntityID).
\* Only partitions of one split can be given one discriminator.
SyntheticEntitiesAreNew(b, report) ==
    report.code = "identity_collision" =>
        \E t \in Range(b.plan.transformations) : t.decl.id = report.rule /\ t.decl.op = "split"

\* A merge or a split takes the relations of its sources with it: it is never refused for
\* a relation left dangling or re-anchored twice, and no state has one.
RelationsFollowTheirSources(b, report) ==
    report.code \in {"dangling_relation", "relation_already_present", "relation_endpoint_missing"} =>
        \E t \in Range(b.plan.transformations) : t.decl.id = report.rule /\ t.decl.op \in {"delete", "relate"}
RelationsAreAnchored(state) == \A r \in state.rels : r[1] \in DOMAIN state.ents /\ r[2] \in DOMAIN state.ents

-----------------------------------------------------------------------------
(* Differences.                                                            *)

\* The baseline with a difference carried out; what a created entity holds is the candidate's.
CarriedOut(diff, baseline, candidate) ==
    LET refs == (DOMAIN baseline.ents \ diff.deleted) \cup diff.created
        changed(ref, f) == {d \in (IF ref \in DOMAIN diff.modified THEN diff.modified[ref] ELSE {}) : d.name = f}
    IN  [baseline EXCEPT
            !.ents = [ref \in refs |->
                        IF ref \in diff.created THEN candidate.ents[ref]
                        ELSE [f \in FieldNames |-> IF changed(ref, f) = {} THEN baseline.ents[ref][f]
                                                   ELSE (CHOOSE d \in changed(ref, f) : TRUE).candidate]],
            !.rels = (@ \cup diff.added) \ diff.removed]

\* A difference is the whole change: of any two states held, carrying out the difference on
\* the one gives the other (DiffStates).
DifferencesAreWhole(states) == \A one, other \in states : CarriedOut(DiffStates(one, other), one, other) = other

\* The journal accounts for the change: what differs between a run's initial state and a state
\* it reached was inserted, deleted, updated, related or unrelated by a patch in the journal
\* that came with it (DiffStates, ApplyPatch).
DifferencesAreAccounted(b, h) ==
    LET diff == DiffStates(b.initial, h.state)
        ops == UNION {Range(h.journal[n].patch) : n \in DOMAIN h.journal}
        Patched(kind, ref) == \E op \in ops : op.kind = kind /\ op.ref = ref
    IN  /\ \A ref \in diff.created : Patched("insert", ref)
        /\ \A ref \in diff.deleted : Patched("delete", ref)
        /\ \A ref \in DOMAIN diff.modified : \A d \in diff.modified[ref] :
               \E op \in ops : op.kind = "update" /\ op.ref = ref /\ d.name \in DOMAIN op.after
        /\ \A r \in diff.added : P!Relate(r) \in ops
        /\ \A r \in diff.removed : P!Unrelate(r) \in ops

\* Rules keep the structure: what they create is new, relations follow what they move, and what
\* they changed is the difference of the states.
StructureIsKept ==
    [][/\ \A b \in DOMAIN reports' : \A report \in Added(reports, reports', b) :
             SyntheticEntitiesAreNew(b, report) /\ RelationsFollowTheirSources(b, report)
       /\ \A b \in DOMAIN held' : \A h \in Added(held, held', b) :
             RelationsAreAnchored(h.state) /\ DifferencesAreAccounted(b, h)
       /\ held' # held => DifferencesAreWhole(HeldStates')]_vars
=============================================================================
