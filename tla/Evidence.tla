------------------------------ MODULE Evidence ------------------------------
(***************************************************************************)
(* How a comparison gets its evidence.  Plans, corpora and comparisons are *)
(* stored; callers run a corpus under a plan, case by case, or ask how far *)
(* it is; workers answer the executions meanwhile; an assembly walks the   *)
(* corpus under both plans and re-derives every case.  A call is abandoned *)
(* where its context is cancelled or a store fails, and what it did until  *)
(* then stays done.  Rows of the stores may be edited from outside.        *)
(***************************************************************************)
EXTENDS Rehydration

CONSTANTS Declarations,    \* what POST /plans compiles: [plan, profiles]
          CorpusRequests,  \* what POST /corpora carries: sequences of cases
          Questions,       \* what POST /comparisons carries
          Submitted,       \* the cases POST /executions carries
          Replacements,    \* the cases an edit writes in the place of others
          Callers,         \* the callers of RunCorpus and CorpusProgress
          Settings,        \* [world, executor] of every side
          MaxRuns,         \* how many corpus runs are started
          MaxEdits,        \* how many rows are edited
          MaxAssemblies    \* how many assemblies are started

ASSUME EvidenceAssumption ==
    /\ \A d \in Declarations : d.plan \in DOMAIN PlanOf
    /\ CorpusRequests \subseteq Seq(Cases)
    /\ Submitted \subseteq Cases /\ Replacements \subseteq Cases

Tenant == "tenant"

VARIABLES plans,        \* PlanID -> its row
          corpora,      \* CorpusID -> its row
          comparisons,  \* ComparisonID -> its row
          executions,   \* ExecutionID -> its row
          replies,      \* the answers to POST /plans and to POST /corpora
          asked,        \* the comparisons that were created
          calls,        \* caller -> the corpus run it is in the middle of
          reports,      \* the corpus runs that returned
          assembly,     \* the assembly under way
          assemblies,   \* the ones that returned
          edits,        \* how many rows were edited
          started       \* how many corpus runs and assemblies were started

stores == <<plans, corpora, comparisons, executions>>
vars == <<stores, replies, asked, calls, reports, assembly, assemblies, edits, started>>

Idle == [at |-> "idle"]
Put(store, key, row) == [k \in DOMAIN store \cup {key} |-> IF k \in DOMAIN store THEN store[k] ELSE row]
Answered(row) == row.result # None /\ row.status \in {"succeeded", "failed"}

Init ==
    /\ plans = <<>> /\ corpora = <<>> /\ comparisons = <<>> /\ executions = <<>>
    /\ replies = [plans |-> {}, corpora |-> {}] /\ asked = {}
    /\ calls = [c \in Callers |-> Idle] /\ reports = {}
    /\ assembly = Idle /\ assemblies = {}
    /\ edits = 0 /\ started = [runs |-> 0, assemblies |-> 0]

-----------------------------------------------------------------------------
(* Plans, corpora and comparisons.                                         *)

\* A variant that keeps the first plan of an identity whatever it was compiled from.
KeepFirstPlan(d) ==
    /\ plans' = Put(plans, d.plan, PlanRow(d))
    /\ replies' = [replies EXCEPT !.plans = @ \cup {[of |-> d, status |-> "created"]}]

\* The plan's identity does not commit to the profiles; the row does, and a second
\* compilation input under one identity is refused.
PutPlan(d) ==
    /\ plans' = Put(plans, d.plan, PlanRow(d))
    /\ replies' = [replies EXCEPT !.plans = @ \cup
           {[of |-> d, status |-> IF plans'[d.plan].inputDigest = d THEN "created" ELSE "integrity"]}]

CreatePlan(d) ==
    /\ PutPlan(d)
    /\ UNCHANGED <<corpora, comparisons, executions, asked, calls, reports, assembly, assemblies, edits, started>>

CreateCorpus(cases) ==
    LET corpus == NewCorpus(cases)
    IN  /\ corpora' = IF corpus = None THEN corpora ELSE Put(corpora, corpus.id, CorpusRow(corpus))
        /\ replies' = [replies EXCEPT !.corpora = @ \cup {[of |-> cases, status |-> IF corpus = None THEN "invalid" ELSE "created"]}]
        /\ UNCHANGED <<plans, comparisons, executions, asked, calls, reports, assembly, assemblies, edits, started>>

\* Both plans and both checkpoints must exist, the pairs must form a policy, and the policy
\* must relate the two checkpoints.
CreateComparison(q) ==
    LET policy == NewComparisonPolicy(q.baselinePlan, q.candidatePlan, q.pairs)
        comparison == NewComparison([baseline |-> CheckpointID(q.baselinePlan, q.baseline),
                                     candidate |-> CheckpointID(q.candidatePlan, q.candidate),
                                     profile |-> q.profile, world |-> q.world, corpus |-> q.corpus, policy |-> policy])
    IN  /\ {q.baselinePlan, q.candidatePlan} \subseteq Readable(plans)
        /\ Declares(q.baselinePlan, q.baseline) /\ Declares(q.candidatePlan, q.candidate)
        /\ policy # None /\ comparison # None
        /\ comparisons' = Put(comparisons, ComparisonID(comparison), ProjectComparison(Tenant, comparison))
        /\ asked' = asked \cup {comparison}
        /\ UNCHANGED <<plans, corpora, executions, replies, calls, reports, assembly, assemblies, edits, started>>

-----------------------------------------------------------------------------
(* The executions.                                                         *)

Change(e, row) ==
    /\ executions' = [executions EXCEPT ![e] = row]
    /\ UNCHANGED <<plans, corpora, comparisons, replies, asked, calls, reports, assembly, assemblies, edits, started>>

Claim(e) == executions[e].status = "pending" /\ Change(e, [executions[e] EXCEPT !.status = "running"])

\* The worker re-derives the identities before it runs and projects what it computed.
Complete(e) ==
    LET request == executions[e].request
        result == Run(request.plan, GetPlan(plans, request.plan).profiles, request.input)
    IN  /\ executions[e].status = "running" /\ request.plan \in Readable(plans)
        /\ Project(request, result) # None
        /\ Change(e, [executions[e] EXCEPT !.status = result.status, !.result = <<Project(request, result)>>])

Fail(e) == executions[e].status = "running" /\ Change(e, [executions[e] EXCEPT !.status = "failed"])

Reattempt(e) ==
    /\ executions[e].status = "failed" /\ executions[e].result = None
    /\ Change(e, [executions[e] EXCEPT !.status = "pending"])

-----------------------------------------------------------------------------
(* RunCorpus and CorpusProgress.                                           *)

InputOf(case) == [case |-> case, world |-> Settings.world, executor |-> Settings.executor]

Enter(c, call) == calls' = [calls EXCEPT ![c] = call]

\* The corpus and the plan must be there, under one schema.
StartRun(c, id, plan, enqueue) ==
    LET corpus == ReadCorpus(corpora[id], id)
    IN  /\ calls[c] = Idle /\ started.runs < MaxRuns
        /\ id \in DOMAIN corpora /\ corpus # None /\ plan \in Readable(plans)
        /\ corpus.schema = PlanOf[plan].schema
        /\ Enter(c, [at |-> IF enqueue THEN "enqueue" ELSE "read", number |-> started.runs, enqueue |-> enqueue, corpus |-> corpus, plan |-> plan, runs |-> <<>>])
        /\ started' = [started EXCEPT !.runs = @ + 1]
        /\ UNCHANGED <<stores, replies, asked, reports, assembly, assemblies, edits>>

\* POST /executions: the same identities, so a corpus run finds what a client submitted.
Submit(plan, input) ==
    /\ SchemaOf[input.case] = PlanOf[plan].schema /\ input.case \in Codable
    /\ executions' = Put(executions, BindRun(plan, input).execution, [request |-> RequestOf(plan, input), status |-> "pending", result |-> None])
    /\ UNCHANGED <<plans, corpora, comparisons, replies, asked, calls, reports, assembly, assemblies, edits, started>>

CaseAt(call) == call.corpus.cases[Len(call.runs) + 1]
ExecutionAt(call) == BindRun(call.plan, InputOf(CaseAt(call))).execution

\* The case is done with: its run is appended, and the call returns after the last.  (The
\* lifecycle the run also reports decides nothing and is left out.)
CaseDone(c, answered, enqueued) ==
    LET call == calls[c]
        runs == Append(call.runs, [execution |-> ExecutionAt(call), answered |-> answered, enqueued |-> enqueued])
    IN  IF Len(runs) = Len(call.corpus.cases)
        THEN /\ Enter(c, Idle)
             /\ reports' = reports \cup {[number |-> call.number, enqueue |-> call.enqueue, runs |-> runs]}
        ELSE /\ Enter(c, [call EXCEPT !.at = IF call.enqueue THEN "enqueue" ELSE "read", !.runs = runs])
             /\ UNCHANGED reports

\* A variant of Enqueue that says created of an execution that was there.
EnqueueAsNew(c) ==
    LET call == calls[c]
        row == [request |-> RequestOf(call.plan, InputOf(CaseAt(call))), status |-> "pending", result |-> None]
    IN  /\ executions' = Put(executions, ExecutionAt(call), row)
        /\ CaseDone(c, FALSE, TRUE)

\* Created, or found: what is found has to be read, and that is another call of the store.
Enqueue(c) ==
    LET call == calls[c]
        row == [request |-> RequestOf(call.plan, InputOf(CaseAt(call))), status |-> "pending", result |-> None]
    IN  IF ExecutionAt(call) \in DOMAIN executions
        THEN Enter(c, [call EXCEPT !.at = "read"]) /\ UNCHANGED <<executions, reports>>
        ELSE executions' = Put(executions, ExecutionAt(call), row) /\ CaseDone(c, FALSE, TRUE)

EnqueueCase(c) ==
    /\ calls[c].at = "enqueue"
    /\ Enqueue(c)
    /\ UNCHANGED <<plans, corpora, comparisons, replies, asked, assembly, assemblies, edits, started>>

\* A variant that takes a terminal status for an answer.
CaseTerminal(row) == row.status \in {"succeeded", "failed"}

\* A terminal status alone is no answer: an execution that was given up on has no result.
CaseAnswered(row) == Answered(row)

ReadCase(c) ==
    LET e == ExecutionAt(calls[c])
    IN  /\ calls[c].at = "read"
        /\ IF e \in DOMAIN executions
           THEN CaseDone(c, CaseAnswered(executions[e]), FALSE)
           ELSE CaseDone(c, FALSE, FALSE)
        /\ UNCHANGED <<stores, replies, asked, assembly, assemblies, edits, started>>

\* A store fails or the context is done: no run is returned, and what was enqueued stays.
AbandonRun(c) ==
    /\ calls[c] # Idle
    /\ Enter(c, Idle)
    /\ UNCHANGED <<stores, replies, asked, reports, assembly, assemblies, edits, started>>

CompleteRun(report) == \A i \in DOMAIN report.runs : report.runs[i].answered

-----------------------------------------------------------------------------
(* AssembleComparison.                                                     *)

Assembling(a) ==
    /\ assembly' = a
    /\ UNCHANGED <<stores, replies, asked, calls, reports, edits>>

PlanOfSide(comparison, side) == IF side = 1 THEN comparison.policy.baselinePlan ELSE comparison.policy.candidatePlan
CheckpointOfSide(comparison, side) == IF side = 1 THEN comparison.baseline ELSE comparison.candidate
AssembledExecution(a) == BindRun(PlanOfSide(a.comparison, a.side), InputOf(a.corpus.cases[a.index])).execution

BeginAssembly(id) ==
    LET comparison == RehydrateComparison(Tenant, id, comparisons[id], Readable(plans))
        corpus == ReadCorpus(corpora[comparison.corpus], comparison.corpus)
    IN  /\ assembly = Idle /\ started.assemblies < MaxAssemblies
        /\ comparison # None /\ comparison.world = Settings.world
        /\ comparison.corpus \in DOMAIN corpora /\ corpus # None
        /\ \A plan \in {comparison.policy.baselinePlan, comparison.policy.candidatePlan} : PlanOf[plan].schema = corpus.schema
        /\ Assembling([at |-> "read", comparison |-> comparison, id |-> id, corpus |-> corpus, side |-> 1, index |-> 1,
                       cases |-> <<<<>>, <<>>>>, missing |-> {}, row |-> None])
        /\ started' = [started EXCEPT !.assemblies = @ + 1]
        /\ UNCHANGED assemblies

\* The case contributed, or is missing for the reason given.  After the last case of the last
\* side the assembly returns; evidence with a case missing is dropped whole.
CaseAssembled(compared) ==
    LET e == AssembledExecution(assembly)
        a == [assembly EXCEPT !.cases[assembly.side] = IF compared.reason = "none" THEN Append(@, compared) ELSE @,
                              !.missing = IF compared.reason = "none" THEN @
                                          ELSE @ \cup {[execution |-> e, reason |-> compared.reason, answered |-> e \in DOMAIN executions /\ Answered(executions[e])]},
                              !.at = "read", !.row = None]
        last == a.index = Len(a.corpus.cases)
    IN  IF last /\ a.side = 2
        THEN /\ Assembling(Idle)
             /\ assemblies' = assemblies \cup
                    {[comparison |-> a.comparison, id |-> a.id, corpus |-> a.corpus, missing |-> a.missing,
                      evidence |-> IF a.missing = {} THEN a.cases ELSE <<<<>>, <<>>>>]}
             /\ UNCHANGED started
        ELSE /\ Assembling(IF last THEN [a EXCEPT !.side = 2, !.index = 1] ELSE [a EXCEPT !.index = @ + 1])
             /\ UNCHANGED <<assemblies, started>>

\* Rehydrate reads the row once.
ReadStored ==
    LET e == AssembledExecution(assembly)
        lifecycle == ClassifyLifecycle(executions[e])
    IN  /\ assembly.at = "read"
        /\ IF e \notin DOMAIN executions THEN CaseAssembled([reason |-> "not_executed"])
           ELSE CASE lifecycle = "pending" -> CaseAssembled([reason |-> "not_answered"])
                  [] lifecycle = "unattempted" -> CaseAssembled([reason |-> "unattempted"])
                  [] lifecycle = "verify" -> Assembling([assembly EXCEPT !.at = "verify", !.row = <<executions[e]>>]) /\ UNCHANGED <<assemblies, started>>
                  [] lifecycle = "integrity" -> Assembling(Idle) /\ UNCHANGED <<assemblies, started>>

\* The re-execution ends, and is compared with the row as it was read.
VerifyStored ==
    LET verified == Verify(assembly.row[1], plans)
    IN  /\ assembly.at = "verify"
        /\ IF verified = None THEN Assembling(Idle) /\ UNCHANGED <<assemblies, started>>
           ELSE CaseAssembled(CompareCase(verified[1], CheckpointOfSide(assembly.comparison, assembly.side), assembly.comparison.profile))

AbandonAssembly == assembly # Idle /\ Assembling(Idle) /\ UNCHANGED <<assemblies, started>>

-----------------------------------------------------------------------------
(* The edits.                                                              *)

Edited ==
    /\ edits < MaxEdits
    /\ edits' = edits + 1
    /\ UNCHANGED <<replies, asked, calls, reports, assembly, assemblies, started>>

\* The declarations of a plan are overwritten with others.
EditPlan(id, d) ==
    /\ Edited /\ plans[id].declarations # d
    /\ plans' = [plans EXCEPT ![id].declarations = d]
    /\ UNCHANGED <<corpora, comparisons, executions>>

\* The row keeps its key and says, consistently, that another input ran under it.
EditExecution(e, input) ==
    LET plan == executions[e].request.plan
        request == [RequestOf(plan, input) EXCEPT !.execution = e]
        result == Run(plan, GetPlan(plans, plan).profiles, input)
    IN  /\ Edited /\ executions[e].request.input # input
        /\ executions' = [executions EXCEPT ![e] = [request |-> request, status |-> result.status, result |-> <<Labelled(request, result)>>]]
        /\ UNCHANGED <<plans, corpora, comparisons>>

\* The row of one comparison is overwritten with the components of another.
EditComparison(id, other) ==
    /\ Edited /\ id # other
    /\ comparisons' = [comparisons EXCEPT ![id] = comparisons[other]]
    /\ UNCHANGED <<plans, corpora, executions>>

\* A case of a stored corpus is replaced.
EditCorpus(id, i, case) ==
    /\ Edited /\ corpora[id].document[i] # case
    /\ corpora' = [corpora EXCEPT ![id].document[i] = case]
    /\ UNCHANGED <<plans, comparisons, executions>>

-----------------------------------------------------------------------------
Next ==
    \/ \E d \in Declarations : CreatePlan(d)
    \/ \E cases \in CorpusRequests : CreateCorpus(cases)
    \/ \E q \in Questions : CreateComparison(q)
    \/ \E plan \in Readable(plans), case \in Submitted : Submit(plan, InputOf(case))
    \/ \E e \in DOMAIN executions : Claim(e) \/ Complete(e) \/ Fail(e) \/ Reattempt(e)
    \/ \E c \in Callers, id \in DOMAIN corpora, plan \in DOMAIN plans, enqueue \in BOOLEAN : StartRun(c, id, plan, enqueue)
    \/ \E c \in Callers : EnqueueCase(c) \/ ReadCase(c) \/ AbandonRun(c)
    \/ \E id \in DOMAIN comparisons : BeginAssembly(id)
    \/ ReadStored \/ VerifyStored \/ AbandonAssembly
    \/ \E id \in DOMAIN plans, d \in Declarations : EditPlan(id, d)
    \/ \E e \in DOMAIN executions, case \in Replacements : EditExecution(e, InputOf(case))
    \/ \E id, other \in DOMAIN comparisons : EditComparison(id, other)
    \/ \E id \in DOMAIN corpora, case \in Replacements : \E i \in DOMAIN corpora[id].document : EditCorpus(id, i, case)

Spec == Init /\ [][Next]_vars

-----------------------------------------------------------------------------
(* Properties.                                                             *)

\* What was accepted is what is read: the profiles a client was told its plan has are the ones
\* executions of the plan are assessed under, or the plan cannot be read, whatever became of the
\* stored declarations (PutPlan's check of the stored input, and rebuild's).
PlansKeepTheirProfiles ==
    \A r \in replies.plans :
        r.status = "created" /\ r.of.plan \in Readable(plans) => GetPlan(plans, r.of.plan).profiles = r.of.profiles

\* A corpus is the cases that were sent: a request is accepted for a corpus of exactly its
\* cases, and the order it lists them in is not meaning (NewCorpus).
CorporaAreTheirCases ==
    \A r \in replies.corpora :
        r.status = "created" =>
            \E id \in DOMAIN corpora : id[2] = Len(r.of) /\ Range(id[3]) = Range(r.of)

\* A stored execution is created once however many callers run its corpus at the same time and
\* however many calls were abandoned half way: no two returned runs count it as theirs, and a
\* run that returns has left no case out (resolveCorpusRun and Enqueue).
EachCaseIsCreatedOnce ==
    \A r, s \in reports :
        /\ r.enqueue => \A i \in DOMAIN r.runs : r.runs[i].execution \in DOMAIN executions
        /\ r # s => \A i \in DOMAIN r.runs, j \in DOMAIN s.runs :
               (r.runs[i].enqueued /\ s.runs[j].enqueued) => r.runs[i].execution # s.runs[j].execution

\* A side that was reported complete has its answers, then and ever after: every case has a
\* terminal row with a result, although executions fail and are reattempted (CorpusRun.Complete).
CompleteStaysAnswered ==
    edits = 0 => \A r \in reports : CompleteRun(r) => \A i \in DOMAIN r.runs : Answered(executions[r.runs[i].execution])

\* The comparison an assembly works on is one that was created, under the identity it was asked
\* for, whatever happened to the stored rows (RehydrateComparison).
ComparisonsAreAuthentic ==
    \A a \in assemblies \cup (IF assembly = Idle THEN {} ELSE {assembly}) :
        a.comparison \in asked /\ ComparisonID(a.comparison) = a.id

\* Evidence covers the whole corpus, in its order, on both sides, and each compared case is what
\* the kernel derives from that case under that side's plan: not from another case, not from
\* a row that was edited, not from a smaller corpus (assembleSide, Rehydrate).
EvidenceIsTheCorpus ==
    \A a \in assemblies : a.missing = {} =>
        \A side \in 1 .. 2 :
            LET derived(i) == ArtifactOf(PlanOfSide(a.comparison, side), InputOf(a.corpus.cases[i]),
                                         CheckpointOfSide(a.comparison, side)[3])
            IN  /\ VerifyCorpusIdentity(a.corpus.cases, a.comparison.corpus)
                /\ Len(a.evidence[side]) = Len(a.corpus.cases)
                /\ \A i \in DOMAIN a.evidence[side] :
                       /\ a.evidence[side][i].checkpoint = derived(i)
                       /\ a.evidence[side][i].assessment = AssessmentOf(derived(i), a.comparison.profile)

\* The reason holds of the case.
IsMissing(m, profile) ==
    CASE m.reason \in {"not_executed", "not_answered", "unattempted"} -> ~m.answered
      [] m.reason = "checkpoint_not_sealed" -> Answer[m.execution[2]][m.execution[3]].sealed < Len(PlanOf[m.execution[2]].checkpoints)
      [] m.reason = "not_assessed" -> profile \notin plans[m.execution[2]].inputDigest.profiles

\* A case is reported missing for a reason that is true: one that has an answer is never missing
\* for want of one, and a checkpoint is missing only where the kernel seals none (assembleCase,
\* classifyLifecycle).
MissingCasesAreMissing ==
    \A a \in assemblies : \A m \in a.missing : IsMissing(m, a.comparison.profile)

\* An assembly is about the comparison it was asked for and the corpus its author sent: what it
\* gathers is that evidence, and what it misses is missing.
AssembledIsTheComparison ==
    /\ CorporaAreTheirCases
    /\ ComparisonsAreAuthentic
    /\ EvidenceIsTheCorpus
    /\ MissingCasesAreMissing

\* The stored executions with a result.
WithResult == {e \in DOMAIN executions : executions[e].result # None}

\* What is published is what was named, and one story: the artifact and the assessment the client
\* named, both of the execution it named, whatever names it mixes and whatever the rows say
\* (CreatePublication, resolvePublishable, Publishable, ReceiptFor).
ResolvedIsWhatWasNamed ==
    LET artifacts == UNION {Range(executions[e].result[1].checkpoints) : e \in WithResult}
        assessments == UNION {executions[e].result[1].assessments : e \in WithResult}
    IN  \A e \in WithResult :
            LET verified == IF ClassifyLifecycle(executions[e]) = "verify" THEN Verify(executions[e], plans) ELSE None
            IN  verified # None =>
                    \A artifact \in artifacts, assessment \in assessments :
                        LET found == ResolvePublishable(verified[1], artifact.id, assessment.id)
                        IN  found # None =>
                                /\ found[1].checkpoint.id = artifact.id /\ found[1].assessment.id = assessment.id
                                /\ found[1].assessment.artifact = artifact.id
                                /\ found[1].receipt.execution = e /\ found[1].plan = e[2]
                                /\ artifact.id[2] = <<"semantic-run.v1", e[2], e[3], e[4]>>

\* ports.PlanStore: PutPlan "returns an error only for an incomplete record or a cancelled
\* context".  Every declaration here compiles and is complete.
CompletePlansAreStored == \A r \in replies.plans : r.status = "created"
=============================================================================
