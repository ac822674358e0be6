----------------------------- MODULE MCEvidence -----------------------------
(***************************************************************************)
(* Two plans with two checkpoints each; a corpus of two cases, the second  *)
(* of which the candidate plan rejects after its first checkpoint; a case  *)
(* outside the corpus, and one whose values the codec does not decode.     *)
(***************************************************************************)
EXTENDS Evidence, TLC

CONSTANTS c1, c2

MCCases == 1 .. 4
MCCodable == 1 .. 3
MCSchemaOf == [c \in MCCases |-> "s"]
MCPlanOf == ("b" :> [schema |-> "s", checkpoints |-> <<1, 2>>]) @@ ("c" :> [schema |-> "s", checkpoints |-> <<1, 2>>])

Whole == [status |-> "succeeded", sealed |-> 2]
MCAnswer == ("b" :> [c \in MCCases |-> Whole])
         @@ ("c" :> [c \in MCCases |-> IF c = 2 THEN [status |-> "failed", sealed |-> 1] ELSE Whole])

MCSettings == [world |-> "w", executor |-> "x"]

Declared(p, profiles) == [plan |-> p, profiles |-> profiles]
\* The same rules under other profiles: one identity, another compilation input.
MCDeclarations == {Declared("b", {"ready"}), Declared("b", {"strict"}), Declared("c", {"ready"})}

MCCorpusRequests == {<<2, 1>>, <<1, 1, 2>>, <<4>>}

Question(baseline, candidate, pairs) ==
    [baselinePlan |-> "b", candidatePlan |-> "c", baseline |-> baseline, candidate |-> candidate, pairs |-> pairs,
     profile |-> "ready", world |-> "w", corpus |-> CorpusID(<<1, 2>>)]
Pair(b, c) == [baseline |-> b, candidate |-> c]
MCQuestions == {Question(1, 1, <<Pair(2, 2), Pair(1, 1)>>), Question(2, 2, <<Pair(1, 1), Pair(2, 2)>>)}

MCSubmitted == {1, 2}
MCReplacements == {2, 3}

\* Bounds.  Everything is stored before it is used.
Stored ==
    /\ Cardinality(replies.plans) = 3 /\ Cardinality(replies.corpora) = 3 /\ Cardinality(asked) = 2
Quiet == executions = <<>> /\ started.runs + started.assemblies + edits = 0
SetupFirst == Stored \/ Quiet'

\* A behaviour is about runs of the corpus under one plan, or about an assembly and edits: the two
\* meet in the executions alone, which are submitted and move in every way during either.  Where
\* plan b was stored with the other profile, only its executions are submitted.
OnlyOfB == \A e \in DOMAIN executions' : e[2] = "b"
OneConcern ==
    /\ Quiet' \/ "ready" \in plans["b"].inputDigest.profiles \/ (started.runs' + edits' = 0 /\ OnlyOfB)
    /\ started.runs' = 0 \/ (started.assemblies' + edits' = 0 /\ OnlyOfB)

\* Edits are of the first case: its answered executions, and its place in the corpus.
FirstIsEdited ==
    edits' > edits =>
        /\ \A e \in DOMAIN executions : executions'[e] # executions[e] => e[3] = 1 /\ executions[e].result # None
        /\ \A id \in DOMAIN corpora : Len(corpora[id].document) = 2 => corpora'[id].document[2] = corpora[id].document[2]

\* At most one execution is running and at most one is given up at a time.
OneMoves ==
    /\ Cardinality({e \in DOMAIN executions' : executions'[e].status = "running"}) <= 1
    /\ Cardinality({e \in DOMAIN executions' : executions'[e].status = "failed" /\ executions'[e].result = None}) <= 1

\* An execution the assembly has passed no longer moves, and nothing does once it has returned.
Gathered(side, index) == side < assembly.side \/ (side = assembly.side /\ index < assembly.index)
Passed == {BindRun(PlanOfSide(assembly.comparison, s[1]), InputOf(assembly.corpus.cases[s[2]])).execution :
              s \in {t \in (1 .. 2) \X (1 .. 2) : Gathered(t[1], t[2])}}
Forward ==
    /\ assemblies = {}
    /\ assembly # Idle => UNCHANGED <<corpora, comparisons>>
    /\ assembly # Idle =>
           \A e \in Passed : IF e \in DOMAIN executions THEN executions'[e] = executions[e] ELSE e \notin DOMAIN executions'
CallerSymmetry == Permutations(Callers)
=============================================================================
