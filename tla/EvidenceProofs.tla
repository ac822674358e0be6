--------------------------- MODULE EvidenceProofs ---------------------------
(***************************************************************************)
(* What the evidence of a comparison is, for any plans, corpora, callers   *)
(* and edits, and for any number of runs and assemblies.                   *)
(***************************************************************************)
EXTENDS Evidence, FiniteSetTheorems, SequenceTheorems, TLAPS

-----------------------------------------------------------------------------
(* The order of a corpus.                                                  *)

\* A set of numbers that is not empty has a least one.
LEMMA LeastNumber ==
  ASSUME NEW T, T \subseteq Nat, T # {}
  PROVE  Min(T) \in T
<1> DEFINE R == {ss \in Nat \X Nat : ss[1] < ss[2]}
<1>1. IsWellFoundedOn(R, Nat)
  BY NatLessThanWellFounded, Zenon DEF OpToRel
<1> HIDE DEF R
<1>2. PICK n \in T : \A m \in T : ~(<<m, n>> \in R)
  BY <1>1, WFMin
<1>3. \A m \in T : ~(m < n)
  BY <1>2 DEF R
<1>4. \E x \in T : \A y \in T : x <= y
  BY <1>3
<1> QED
  BY <1>4 DEF Min

\* Behind how many others of a finite set of numbers a number stands.
LEMMA RankIsInjective ==
  ASSUME NEW S, S \subseteq Nat, IsFiniteSet(S), NEW c \in S, NEW e \in S, c < e
  PROVE  /\ Cardinality({d \in S : d < c}) \in Nat
         /\ Cardinality({d \in S : d < e}) \in Nat
         /\ Cardinality({d \in S : d < c}) < Cardinality({d \in S : d < e})
         /\ Cardinality({d \in S : d < e}) < Cardinality(S)
<1> DEFINE C == {d \in S : d < c}
           E == {d \in S : d < e}
<1>1. c \in Nat /\ e \in Nat /\ (\A d \in S : d \in Nat)
  OBVIOUS
<1>2. C \subseteq E /\ E \subseteq S /\ c \in E /\ c \notin C /\ e \notin E
  <2>1. \A d \in S : d < c => d < e
    BY <1>1
  <2>2. ~(c < c) /\ ~(e < e)
    BY <1>1
  <2> QED
    BY <2>1, <2>2, Zenon
<1>3. IsFiniteSet(E) /\ IsFiniteSet(C)
  BY <1>2, FS_Subset
<1> HIDE DEF C, E
<1>4. Cardinality(C) \in Nat /\ Cardinality(E) \in Nat /\ Cardinality(S) \in Nat
  BY <1>3, FS_CardinalityType
<1>5. Cardinality(C) <= Cardinality(E) /\ (Cardinality(C) = Cardinality(E) => C = E)
  BY <1>2, <1>3, FS_Subset
<1>6. Cardinality(E) <= Cardinality(S) /\ (Cardinality(E) = Cardinality(S) => E = S)
  BY <1>2, FS_Subset
<1>7. Cardinality(C) < Cardinality(E) /\ Cardinality(E) < Cardinality(S)
  BY <1>2, <1>4, <1>5, <1>6
<1> QED
  BY <1>4, <1>7 DEF C, E

\* Every place in the order is taken by one case.
LEMMA RankIsOnto ==
  ASSUME NEW S, S \subseteq Nat, IsFiniteSet(S), NEW n \in Nat, Cardinality(S) = n,
         NEW i \in 1 .. n
  PROVE  \E c \in S : Cardinality({d \in S : d < c}) = i - 1
<1> DEFINE Rank(c) == Cardinality({d \in S : d < c})
           rank == [c \in S |-> Rank(c)]
<1>1. \A c \in S : Rank(c) \in 0 .. (n - 1)
  <2> TAKE c \in S
  <2>1. {d \in S : d < c} \subseteq S /\ c \notin {d \in S : d < c}
    OBVIOUS
  <2>2. Rank(c) \in Nat /\ Rank(c) <= n /\ Rank(c) # n
    BY <2>1, FS_Subset, FS_CardinalityType
  <2> HIDE DEF Rank
  <2> QED
    BY <2>2
<1>2. \A c, e \in S : c # e => Rank(c) # Rank(e)
  <2> SUFFICES ASSUME NEW c \in S, NEW e \in S, c # e PROVE Rank(c) # Rank(e)
    OBVIOUS
  <2>1. c < e \/ e < c
    OBVIOUS
  <2>2. ASSUME NEW x \in S, NEW y \in S, x < y PROVE Rank(x) # Rank(y)
    <3>1. Rank(x) \in Nat /\ Rank(y) \in Nat /\ Rank(x) < Rank(y)
      BY <2>2, RankIsInjective, Zenon
    <3> HIDE DEF Rank
    <3> QED
      BY <3>1
  <2> QED
    BY <2>1, <2>2
<1> HIDE DEF Rank
<1>3. rank \in Injection(S, 0 .. (n - 1))
  BY <1>1, <1>2 DEF Injection, IsInjective
<1>4. IsFiniteSet(0 .. (n - 1)) /\ Cardinality(0 .. (n - 1)) = n
  BY FS_Interval
<1>5. rank \in Surjection(S, 0 .. (n - 1))
  BY <1>3, <1>4, FS_Injection
<1>6. i - 1 \in 0 .. (n - 1)
  OBVIOUS
<1>7. \E c \in S : rank[c] = i - 1
  BY <1>5, <1>6 DEF Surjection
<1> QED
  BY <1>7 DEF Rank

\* Sorting keeps the cases: none is lost, none is added, and none is doubled.
LEMMA InOrderKeeps ==
  ASSUME NEW cases \in Seq(Cases), IsInjective(cases)
  PROVE  /\ InOrder(cases) \in Seq(Cases)
         /\ Len(InOrder(cases)) = Len(cases)
         /\ Range(InOrder(cases)) = Range(cases)
<1> DEFINE S == Range(cases)
           n == Len(cases)
           Rank(c) == Cardinality({d \in S : d < c})
           At(i) == CHOOSE c \in S : Rank(c) = i - 1
<1>1. n \in Nat /\ DOMAIN cases = 1 .. n
  OBVIOUS
<1>2. S \subseteq Cases /\ S \subseteq Nat
  <2>1. Cases \subseteq Nat
    BY ComparisonsAssumption
  <2>2. \A i \in DOMAIN cases : cases[i] \in Cases
    OBVIOUS
  <2> QED
    BY <2>1, <2>2 DEF Range
<1>3. cases \in Bijection(1 .. n, S)
  <2>1. cases \in [1 .. n -> S]
    BY <1>1 DEF Range
  <2>2. \A c \in S : \E i \in 1 .. n : cases[i] = c
    BY <1>1 DEF Range
  <2> HIDE DEF S, n
  <2> QED
    BY <2>1, <2>2 DEF Bijection, Injection, Surjection
<1>4. IsFiniteSet(S) /\ Cardinality(S) = n
  <2>1. ExistsBijection(1 .. n, S)
    BY <1>3 DEF ExistsBijection
  <2> QED
    BY <1>1, <2>1, FS_CountingElements, FS_NatBijection
<1>5. ASSUME NEW i \in 1 .. n PROVE At(i) \in S /\ Rank(At(i)) = i - 1
  <2>1. \E c \in S : Rank(c) = i - 1
    BY <1>1, <1>2, <1>4, RankIsOnto
  <2> HIDE DEF Rank
  <2> QED
    BY <2>1
<1>6. ASSUME NEW c \in S PROVE Rank(c) \in Nat /\ Rank(c) + 1 \in 1 .. n
  <2>1. {d \in S : d < c} \subseteq S /\ c \notin {d \in S : d < c}
    BY <1>2
  <2>2. Rank(c) \in Nat /\ Rank(c) <= n /\ Rank(c) # n
    BY <1>1, <1>4, <2>1, FS_Subset, FS_CardinalityType
  <2> HIDE DEF Rank
  <2> QED
    BY <1>1, <2>2
<1>7. ASSUME NEW c \in S, NEW e \in S, Rank(c) = Rank(e) PROVE c = e
  <2>1. ASSUME NEW x \in S, NEW y \in S, x < y PROVE Rank(x) # Rank(y)
    <3>1. Rank(x) \in Nat /\ Rank(y) \in Nat /\ Rank(x) < Rank(y)
      BY <1>2, <1>4, <2>1, RankIsInjective, Zenon
    <3> HIDE DEF Rank
    <3> QED
      BY <3>1
  <2>2. c < e \/ e < c \/ c = e
    BY <1>2, <1>7
  <2> HIDE DEF Rank
  <2> QED
    BY <1>7, <2>1, <2>2
<1>8. InOrder(cases) = [i \in 1 .. n |-> At(i)]
  BY <1>1, Zenon DEF InOrder
<1> HIDE DEF At, S, n, Rank
<1>9. InOrder(cases) \in Seq(Cases) /\ Len(InOrder(cases)) = n
  <2>1. [i \in 1 .. n |-> At(i)] \in [1 .. n -> Cases]
    BY <1>2, <1>5
  <2> QED
    BY <1>1, <1>8, <2>1
<1>10. Range(InOrder(cases)) = S
  <2>1. Range(InOrder(cases)) \subseteq S
    BY <1>5, <1>8 DEF Range
  <2>2. ASSUME NEW c \in S PROVE \E i \in 1 .. n : At(i) = c
    <3> DEFINE i == Rank(c) + 1
    <3>1. i \in 1 .. n
      BY <1>6
    <3>2. At(i) \in S /\ Rank(At(i)) = i - 1
      BY <1>5, <3>1
    <3>3. i - 1 = Rank(c)
      BY <1>1, <1>6
    <3> QED
      BY <1>7, <3>1, <3>2, <3>3
  <2>3. S \subseteq Range(InOrder(cases))
    BY <1>8, <2>2 DEF Range
  <2> QED
    BY <2>1, <2>3
<1> QED
  BY <1>9, <1>10 DEF S, n

\* An accepted request is a corpus of its own cases.
LEMMA NewCorpusKeeps ==
  ASSUME NEW cases \in Seq(Cases), NewCorpus(cases) # None
  PROVE  LET corpus == NewCorpus(cases) IN
         /\ corpus.cases \in Seq(Cases) /\ corpus.cases # <<>>
         /\ corpus.id = CorpusID(corpus.cases)
         /\ Len(corpus.cases) = Len(cases) /\ Range(corpus.cases) = Range(cases)
<1> DEFINE ordered == InOrder(cases)
<1>1. cases # <<>> /\ IsInjective(cases)
  BY DEF NewCorpus
<1>2. NewCorpus(cases) = [cases |-> ordered, schema |-> SchemaOf[ordered[1]], id |-> CorpusID(ordered)]
  BY DEF NewCorpus
<1>3. ordered \in Seq(Cases) /\ Len(ordered) = Len(cases) /\ Range(ordered) = Range(cases)
  BY <1>1, InOrderKeeps
<1> HIDE DEF ordered
<1>4. ordered # <<>>
  <2>1. Len(cases) # 0
    BY <1>1, EmptySeq
  <2> QED
    BY <1>3, <2>1
<1> QED
  BY <1>2, <1>3, <1>4

\* The corpus that is read is the one its identity names.
LEMMA ReadCorpusKeeps ==
  ASSUME NEW row, NEW id, row.document \in Seq(Cases), ReadCorpus(row, id) # None
  PROVE  LET corpus == ReadCorpus(row, id) IN
         corpus.cases \in Seq(Cases) /\ VerifyCorpusIdentity(corpus.cases, id)
<1>1. /\ NewCorpus(row.document) # None
      /\ NewCorpus(row.document).id = id
      /\ ReadCorpus(row, id) = NewCorpus(row.document)
  BY DEF ReadCorpus
<1> QED
  BY <1>1, NewCorpusKeeps DEF VerifyCorpusIdentity

-----------------------------------------------------------------------------
(* Identities.                                                             *)

\* The fields of a policy and of a comparison.
IsPolicy(p) ==
  p = [baselinePlan |-> p.baselinePlan, candidatePlan |-> p.candidatePlan,
       correspondences |-> p.correspondences]

IsComparison(c) ==
  /\ c = [baseline |-> c.baseline, candidate |-> c.candidate, profile |-> c.profile,
          world |-> c.world, corpus |-> c.corpus, policy |-> c.policy]
  /\ IsPolicy(c.policy)

\* A policy that is accepted is about the two plans it was made for.
LEMMA NewPolicyIsPolicy ==
  ASSUME NEW b, NEW k, NEW pairs, NewComparisonPolicy(b, k, pairs) # None
  PROVE  /\ IsPolicy(NewComparisonPolicy(b, k, pairs))
         /\ NewComparisonPolicy(b, k, pairs).baselinePlan = b
         /\ NewComparisonPolicy(b, k, pairs).candidatePlan = k
<1> DEFINE policy == NewComparisonPolicy(b, k, pairs)
<1>1. PICK s : policy = [baselinePlan |-> b, candidatePlan |-> k, correspondences |-> s]
  BY Zenon DEF NewComparisonPolicy
<1> HIDE DEF policy
<1>2. IsPolicy(policy) /\ policy.baselinePlan = b /\ policy.candidatePlan = k
  BY <1>1 DEF IsPolicy
<1> QED
  BY <1>2 DEF policy

\* One identity, one policy: the digest commits to every field.
LEMMA PolicyIDIsInjective ==
  ASSUME NEW p, NEW q, IsPolicy(p), IsPolicy(q), PolicyID(p) = PolicyID(q)
  PROVE  p = q
<1>1. /\ p.baselinePlan = q.baselinePlan /\ p.candidatePlan = q.candidatePlan
      /\ p.correspondences = q.correspondences
  BY DEF PolicyID
<1> QED
  BY <1>1 DEF IsPolicy

\* One identity, one comparison.
LEMMA ComparisonIDIsInjective ==
  ASSUME NEW c, NEW d, IsComparison(c), IsComparison(d), ComparisonID(c) = ComparisonID(d)
  PROVE  c = d
<1>1. /\ c.baseline = d.baseline /\ c.candidate = d.candidate /\ c.profile = d.profile
      /\ c.world = d.world /\ c.corpus = d.corpus /\ PolicyID(c.policy) = PolicyID(d.policy)
  BY DEF ComparisonID
<1>2. c.policy = d.policy
  BY <1>1, PolicyIDIsInjective DEF IsComparison
<1> QED
  BY <1>1, <1>2 DEF IsComparison

\* What is rehydrated has the identity it was asked for by.
LEMMA RehydratedIsAsked ==
  ASSUME NEW tenant, NEW id, NEW record, NEW readable,
         RehydrateComparison(tenant, id, record, readable) # None
  PROVE  /\ IsComparison(RehydrateComparison(tenant, id, record, readable))
         /\ ComparisonID(RehydrateComparison(tenant, id, record, readable)) = id
<1>1. /\ RehydrateComparison(tenant, id, record, readable) = Rebuilt(record)
      /\ RebuiltPolicy(record) # None /\ Rebuilt(record) # None
      /\ ComparisonID(Rebuilt(record)) = id
  BY DEF RehydrateComparison
<1>2. IsPolicy(RebuiltPolicy(record))
  BY <1>1, NewPolicyIsPolicy DEF RebuiltPolicy
<1>3. IsComparison(Rebuilt(record))
  <2>1. Rebuilt(record) = [baseline |-> record.baseline, candidate |-> record.candidate, profile |-> record.profile,
                           world |-> record.world, corpus |-> record.corpus, policy |-> RebuiltPolicy(record)]
    BY <1>1 DEF Rebuilt, NewComparison
  <2> QED
    BY <1>2, <2>1 DEF IsComparison
<1> QED
  BY <1>1, <1>3

\* One execution identity, one plan, case, world and executor, and so one run.
LEMMA ExecutionIsInjective ==
  ASSUME NEW p, NEW i, NEW q, NEW j, BindRun(p, i).execution = BindRun(q, j).execution
  PROVE  /\ p = q /\ i.case = j.case /\ i.world = j.world
         /\ BindRun(p, i).run = BindRun(q, j).run
BY DEF BindRun

-----------------------------------------------------------------------------
(* What is taken from a verified result.                                   *)

\* A row that verifies is the re-execution of its own request, under the
\* profiles its plan was stored with.
LEMMA VerifiedIsRederived ==
  ASSUME NEW row, NEW store, Verify(row, store) # None
  PROVE  LET plan == row.request.plan
             input == row.request.input
         IN  /\ plan \in DOMAIN store
             /\ Verify(row, store)[1] = Run(plan, store[plan].inputDigest.profiles, input)
             /\ BindRun(plan, input).execution = row.request.execution
<1> DEFINE plan == row.request.plan
           input == row.request.input
           result == Run(plan, GetPlan(store, plan).profiles, input)
<1>1. /\ plan \in Readable(store)
      /\ ~RequestDiverges(row.request, result)
      /\ Verify(row, store) = <<result>>
  BY DEF Verify
<1>2. plan \in DOMAIN store /\ GetPlan(store, plan) = store[plan].inputDigest
  BY <1>1 DEF Readable, Rebuilds, GetPlan
<1>3. result.execution = BindRun(plan, input).execution
  BY DEF Run
<1>4. result.execution = row.request.execution
  BY <1>1 DEF RequestDiverges
<1> HIDE DEF plan, input
<1> QED
  BY <1>1, <1>2, <1>3, <1>4 DEF plan, input

\* The artifacts of a run, and its assessments.
LEMMA RunSeals ==
  ASSUME NEW plan \in DOMAIN PlanOf, NEW profiles, NEW input, input.case \in Cases
  PROVE  LET result == Run(plan, profiles, input)
             sealed == Answer[plan][input.case].sealed
         IN  /\ result.plan = plan
             /\ result.execution = BindRun(plan, input).execution
             /\ result.run = BindRun(plan, input).run
             /\ DOMAIN result.checkpoints = 1 .. sealed
             /\ sealed \in 0 .. Len(PlanOf[plan].checkpoints)
             /\ \A i \in 1 .. sealed :
                  result.checkpoints[i] = ArtifactOf(plan, input, PlanOf[plan].checkpoints[i])
             /\ result.assessments =
                  {AssessmentOf(result.checkpoints[i], profile) : i \in 1 .. sealed, profile \in profiles}
<1> DEFINE answer == Answer[plan][input.case]
           sealed == [i \in 1 .. answer.sealed |-> ArtifactOf(plan, input, PlanOf[plan].checkpoints[i])]
<1>1. answer.sealed \in 0 .. Len(PlanOf[plan].checkpoints)
  BY AnswerAssumption
<1>2. /\ Run(plan, profiles, input).plan = plan
      /\ Run(plan, profiles, input).execution = BindRun(plan, input).execution
      /\ Run(plan, profiles, input).run = BindRun(plan, input).run
      /\ Run(plan, profiles, input).checkpoints = sealed
      /\ Run(plan, profiles, input).assessments =
           {AssessmentOf(sealed[i], profile) : i \in DOMAIN sealed, profile \in profiles}
  BY DEF Run
<1>3. DOMAIN sealed = 1 .. answer.sealed
  OBVIOUS
<1>4. \A i \in 1 .. answer.sealed : sealed[i] = ArtifactOf(plan, input, PlanOf[plan].checkpoints[i])
  OBVIOUS
<1> HIDE DEF sealed
<1> QED
  BY <1>1, <1>2, <1>3, <1>4

\* The fields of an artifact and of an assessment.
LEMMA ArtifactFields ==
  ASSUME NEW plan, NEW input, NEW key
  PROVE  LET a == ArtifactOf(plan, input, key) IN
         /\ a.id = <<"checkpoint-claim.v1", BindRun(plan, input).run, key>>
         /\ a.key = key
         /\ a.checkpointID = CheckpointID(plan, key)
BY DEF ArtifactOf

LEMMA AssessmentFields ==
  ASSUME NEW artifact, NEW profile
  PROVE  LET m == AssessmentOf(artifact, profile) IN
         m.id = <<artifact.id, profile>> /\ m.artifact = artifact.id /\ m.profile = profile
BY DEF AssessmentOf

\* The first of what was sealed under a value has that value.
LEMMA FirstSealedIsSealed ==
  ASSUME NEW plan \in DOMAIN PlanOf, NEW profiles, NEW input, input.case \in Cases,
         NEW member, NEW value, SealedWith(Run(plan, profiles, input), member, value) # {}
  PROVE  LET result == Run(plan, profiles, input)
             first == FirstSealedWith(result, member, value)
         IN  /\ first[member] = value
             /\ \E i \in 1 .. Answer[plan][input.case].sealed :
                  first = result.checkpoints[i] /\ first = ArtifactOf(plan, input, PlanOf[plan].checkpoints[i])
<1> DEFINE result == Run(plan, profiles, input)
           T == SealedWith(result, member, value)
           n == Answer[plan][input.case].sealed
<1>1. /\ DOMAIN result.checkpoints = 1 .. n
      /\ n \in 0 .. Len(PlanOf[plan].checkpoints)
      /\ \A i \in 1 .. n : result.checkpoints[i] = ArtifactOf(plan, input, PlanOf[plan].checkpoints[i])
  BY RunSeals
<1>2. n \in Nat
  BY <1>1
<1> HIDE DEF result, n
<1>3. T \subseteq 1 .. n /\ T # {} /\ \A i \in T : result.checkpoints[i][member] = value
  BY <1>1 DEF SealedWith, result
<1>4. T \subseteq Nat
  BY <1>2, <1>3
<1>5. Min(T) \in T
  BY <1>3, <1>4, LeastNumber
<1>6. FirstSealedWith(result, member, value) = result.checkpoints[Min(T)]
  BY DEF FirstSealedWith
<1> HIDE DEF T
<1> QED
  BY <1>1, <1>3, <1>5, <1>6 DEF result, n

\* The assessment that is found is the artifact's under the profile, and none
\* is found only where the profile is not one of the run's.
LEMMA AssessmentFound ==
  ASSUME NEW plan \in DOMAIN PlanOf, NEW profiles, NEW input, input.case \in Cases,
         NEW i \in 1 .. Answer[plan][input.case].sealed, NEW profile
  PROVE  LET result == Run(plan, profiles, input)
             artifact == result.checkpoints[i]
             found == AssessmentsUnder(result, artifact, profile)
         IN  /\ found # {} => OneOf(found) = AssessmentOf(artifact, profile)
             /\ found = {} => profile \notin profiles
<1> DEFINE result == Run(plan, profiles, input)
           artifact == result.checkpoints[i]
           found == AssessmentsUnder(result, artifact, profile)
           n == Answer[plan][input.case].sealed
<1>1. result.assessments = {AssessmentOf(result.checkpoints[j], f) : j \in 1 .. n, f \in profiles}
  BY RunSeals
<1> HIDE DEF result, n
<1>2. ASSUME NEW m \in found PROVE m = AssessmentOf(artifact, profile)
  <2>1. m \in result.assessments /\ m.artifact = artifact.id /\ m.profile = profile
    BY <1>2 DEF AssessmentsUnder
  <2>2. PICK j \in 1 .. n, f \in profiles : m = AssessmentOf(result.checkpoints[j], f)
    BY <1>1, <2>1
  <2>3. m.id = <<m.artifact, m.profile>>
    BY <2>2, AssessmentFields
  <2>4. m = [id |-> <<m.artifact, m.profile>>, artifact |-> m.artifact, profile |-> m.profile]
    BY <2>2 DEF AssessmentOf
  <2> QED
    BY <2>1, <2>4 DEF AssessmentOf
<1>3. found # {} => OneOf(found) \in found
  BY DEF OneOf
<1>4. profile \in profiles => AssessmentOf(artifact, profile) \in found
  <2>1. profile \in profiles => AssessmentOf(artifact, profile) \in result.assessments
    BY <1>1 DEF n
  <2> QED
    BY <2>1, AssessmentFields DEF AssessmentsUnder
<1> HIDE DEF found, artifact
<1>5. (found # {} => OneOf(found) = AssessmentOf(artifact, profile)) /\ (found = {} => profile \notin profiles)
  BY <1>2, <1>3, <1>4
<1> QED
  BY <1>5 DEF found, artifact, result

\* What a case contributes: the artifact the kernel derives for the checkpoint
\* and its assessment, or a reason that holds.
Contribution(plan, input, checkpoint, profile) ==
  LET artifact == ArtifactOf(plan, input, checkpoint[3])
  IN  [reason |-> "none", checkpoint |-> artifact, assessment |-> AssessmentOf(artifact, profile)]

\* What a case of a verified run contributes is what the kernel derives from it, and where it
\* contributes nothing the reason is true.
LEMMA CompareCaseIsTrue ==
  ASSUME NEW plan \in DOMAIN PlanOf, NEW profiles, NEW input, input.case \in Cases,
         NEW checkpoint, NEW profile
  PROVE  LET compared == CompareCase(Run(plan, profiles, input), checkpoint, profile) IN
         \/ compared = Contribution(plan, input, checkpoint, profile)
         \/ /\ compared.reason = "checkpoint_not_sealed"
            /\ \A i \in 1 .. Answer[plan][input.case].sealed :
                 CheckpointID(plan, PlanOf[plan].checkpoints[i]) # checkpoint
         \/ compared.reason = "not_assessed" /\ profile \notin profiles
<1> DEFINE result == Run(plan, profiles, input)
           T == SealedWith(result, "checkpointID", checkpoint)
           first == FirstSealedWith(result, "checkpointID", checkpoint)
           found == AssessmentsUnder(result, first, profile)
           compared == CompareCase(result, checkpoint, profile)
           n == Answer[plan][input.case].sealed
<1>1. compared = IF T = {} THEN [reason |-> "checkpoint_not_sealed"]
                 ELSE IF found = {} THEN [reason |-> "not_assessed"]
                 ELSE [reason |-> "none", checkpoint |-> first, assessment |-> OneOf(found)]
  BY DEF CompareCase
<1>2. ASSUME T = {}, NEW i \in 1 .. n PROVE CheckpointID(plan, PlanOf[plan].checkpoints[i]) # checkpoint
  <2>1. i \in DOMAIN result.checkpoints /\ result.checkpoints[i] = ArtifactOf(plan, input, PlanOf[plan].checkpoints[i])
    BY RunSeals
  <2>2. result.checkpoints[i]["checkpointID"] # checkpoint
    BY <1>2, <2>1 DEF SealedWith
  <2> QED
    BY <2>1, <2>2, ArtifactFields
<1>3. ASSUME T # {}
      PROVE  /\ first = ArtifactOf(plan, input, checkpoint[3])
             /\ found # {} => OneOf(found) = AssessmentOf(first, profile)
             /\ found = {} => profile \notin profiles
  <2>1. /\ first["checkpointID"] = checkpoint
        /\ \E i \in 1 .. n : first = result.checkpoints[i] /\ first = ArtifactOf(plan, input, PlanOf[plan].checkpoints[i])
    BY <1>3, FirstSealedIsSealed
  <2>2. PICK i \in 1 .. n : first = result.checkpoints[i] /\ first = ArtifactOf(plan, input, PlanOf[plan].checkpoints[i])
    BY <2>1
  <2>3. checkpoint = CheckpointID(plan, PlanOf[plan].checkpoints[i])
    BY <2>1, <2>2, ArtifactFields
  <2>4. checkpoint[3] = PlanOf[plan].checkpoints[i]
    BY <2>3 DEF CheckpointID
  <2>5. /\ found # {} => OneOf(found) = AssessmentOf(first, profile)
        /\ found = {} => profile \notin profiles
    <3> DEFINE under == AssessmentsUnder(result, result.checkpoints[i], profile)
    <3>1. /\ under # {} => OneOf(under) = AssessmentOf(result.checkpoints[i], profile)
          /\ under = {} => profile \notin profiles
      BY AssessmentFound
    <3>2. found = under
      BY <2>2
    <3> HIDE DEF under, found, first
    <3> QED
      BY <2>2, <3>1, <3>2
  <2> QED
    BY <2>2, <2>4, <2>5
<1> HIDE DEF compared, T, first, found
<1>4. \/ compared = Contribution(plan, input, checkpoint, profile)
      \/ compared.reason = "checkpoint_not_sealed" /\ T = {}
      \/ compared.reason = "not_assessed" /\ profile \notin profiles
  BY <1>1, <1>3 DEF Contribution
<1> QED
  BY <1>2, <1>4 DEF compared

\* What is resolved for publication is the artifact and the assessment that
\* were named, of the one run.
LEMMA ResolvedIsNamed ==
  ASSUME NEW plan \in DOMAIN PlanOf, NEW profiles, NEW input, input.case \in Cases,
         NEW artifactID, NEW assessmentID,
         ResolvePublishable(Run(plan, profiles, input), artifactID, assessmentID) # None
  PROVE  LET found == ResolvePublishable(Run(plan, profiles, input), artifactID, assessmentID)[1] IN
         /\ found.checkpoint.id = artifactID /\ found.assessment.id = assessmentID
         /\ found.assessment.artifact = artifactID
         /\ found.receipt.execution = BindRun(plan, input).execution
         /\ found.plan = plan
         /\ artifactID[2] = BindRun(plan, input).run
<1> DEFINE result == Run(plan, profiles, input)
           n == Answer[plan][input.case].sealed
           named == {a \in result.assessments : a.id = assessmentID /\ a.artifact = artifactID}
           key == FirstSealedWith(result, "id", artifactID).key
           profile == OneOf(named).profile
           sealed == FirstSealedWith(result, "key", key)
           assessed == AssessmentsUnder(result, sealed, profile)
<1>1. /\ SealedWith(result, "id", artifactID) # {} /\ named # {}
      /\ ResolvePublishable(result, artifactID, assessmentID) = Publishable(result, key, profile)
  BY DEF ResolvePublishable
<1>2. PICK i \in 1 .. n : /\ FirstSealedWith(result, "id", artifactID).id = artifactID
                          /\ FirstSealedWith(result, "id", artifactID) = ArtifactOf(plan, input, PlanOf[plan].checkpoints[i])
  BY <1>1, FirstSealedIsSealed
<1>3. artifactID = <<"checkpoint-claim.v1", BindRun(plan, input).run, key>>
  <2>1. \A k : /\ ArtifactOf(plan, input, k).id = <<"checkpoint-claim.v1", BindRun(plan, input).run, k>>
              /\ ArtifactOf(plan, input, k).key = k
    BY ArtifactFields
  <2>2. key = PlanOf[plan].checkpoints[i]
    BY <1>2, <2>1
  <2> QED
    BY <1>2, <2>1, <2>2
<1>4. /\ SealedWith(result, "key", key) # {} /\ assessed # {}
      /\ Publishable(result, key, profile) =
           <<[checkpoint |-> sealed, plan |-> result.plan, assessment |-> OneOf(assessed),
              receipt |-> ReceiptFor(result, sealed)[1]]>>
  BY <1>1 DEF Publishable
<1>5. PICK j \in 1 .. n : /\ sealed.key = key
                          /\ sealed = result.checkpoints[j]
                          /\ sealed = ArtifactOf(plan, input, PlanOf[plan].checkpoints[j])
  BY <1>4, FirstSealedIsSealed
<1>6. sealed.id = artifactID
  BY <1>3, <1>5, ArtifactFields
<1>7. OneOf(assessed) = AssessmentOf(sealed, profile)
  <2> DEFINE under == AssessmentsUnder(result, result.checkpoints[j], profile)
  <2> HIDE DEF sealed, profile
  <2>1. /\ under # {} => OneOf(under) = AssessmentOf(result.checkpoints[j], profile)
        /\ under = {} => profile \notin profiles
    BY AssessmentFound
  <2>2. assessed = under
    BY <1>5
  <2> HIDE DEF under, assessed
  <2> QED
    BY <1>4, <1>5, <2>1, <2>2
<1>8. assessmentID = <<artifactID, profile>>
  <2>1. OneOf(named) \in named
    BY <1>1 DEF OneOf
  <2>2. OneOf(named) \in result.assessments /\ OneOf(named).id = assessmentID /\ OneOf(named).artifact = artifactID
    BY <2>1
  <2>3. result.assessments = {AssessmentOf(result.checkpoints[l], f) : l \in 1 .. n, f \in profiles}
    BY RunSeals
  <2>4. PICK l \in 1 .. n, f \in profiles : OneOf(named) = AssessmentOf(result.checkpoints[l], f)
    BY <2>2, <2>3
  <2>5. OneOf(named).id = <<OneOf(named).artifact, profile>>
    <3> DEFINE m == AssessmentOf(result.checkpoints[l], f)
    <3>1. m.id = <<m.artifact, m.profile>>
      BY AssessmentFields
    <3> HIDE DEF m
    <3> QED
      BY <2>4, <3>1 DEF m
  <2> QED
    BY <2>2, <2>5
<1>9. ReceiptFor(result, sealed)[1].execution = BindRun(plan, input).execution /\ result.plan = plan
  <2>1. /\ DOMAIN result.checkpoints = 1 .. n
        /\ result.execution = BindRun(plan, input).execution /\ result.plan = plan
    BY RunSeals
  <2>2. sealed \in Range(result.checkpoints)
    BY <1>5, <2>1 DEF Range
  <2> QED
    BY <2>1, <2>2 DEF ReceiptFor
<1>10. AssessmentOf(sealed, profile).id = assessmentID /\ AssessmentOf(sealed, profile).artifact = artifactID
  <2>1. /\ AssessmentOf(sealed, profile).id = <<sealed.id, profile>>
        /\ AssessmentOf(sealed, profile).artifact = sealed.id
    BY AssessmentFields
  <2> HIDE DEF sealed, profile
  <2> QED
    BY <1>6, <1>8, <2>1
<1> HIDE DEF result, key, profile, sealed, assessed
<1>11. ResolvePublishable(result, artifactID, assessmentID)[1] =
         [checkpoint |-> sealed, plan |-> result.plan, assessment |-> AssessmentOf(sealed, profile),
          receipt |-> ReceiptFor(result, sealed)[1]]
  BY <1>1, <1>4, <1>7
<1> QED
  BY <1>3, <1>6, <1>9, <1>10, <1>11 DEF result

-----------------------------------------------------------------------------
(* The inductive invariant.                                                *)

\* The input a plan was accepted with stays in its row, whatever is edited.
PlansInv ==
  /\ replies = [plans |-> replies.plans, corpora |-> replies.corpora]
  /\ DOMAIN plans \subseteq DOMAIN PlanOf
  /\ \A id \in DOMAIN plans :
       plans[id] = [declarations |-> plans[id].declarations, inputDigest |-> plans[id].inputDigest]
  /\ \A r \in replies.plans : r.status = "created" =>
       r.of.plan \in DOMAIN plans /\ plans[r.of.plan].inputDigest = r.of

\* A stored corpus is a list of cases, and every accepted one is stored.
CorporaInv ==
  /\ \A id \in DOMAIN corpora :
       /\ corpora[id] = [document |-> corpora[id].document, schema |-> corpora[id].schema,
                         count |-> corpora[id].count]
       /\ corpora[id].document \in Seq(Cases)
  /\ CorporaAreTheirCases

\* A row is filed under the execution its request names.
ExecutionsInv ==
  \A e \in DOMAIN executions :
    LET row == executions[e] IN
    /\ row = [request |-> row.request, status |-> row.status, result |-> row.result]
    /\ row.request.execution = e
    /\ row.request.plan \in DOMAIN PlanOf /\ row.request.input.case \in Cases

\* A comparison is filed under its identity, and is about declared checkpoints.
ComparisonsInv ==
  /\ \A id \in DOMAIN comparisons : \E c \in asked : ComparisonID(c) = id
  /\ \A c \in asked :
       /\ IsComparison(c)
       /\ c.policy.baselinePlan \in DOMAIN PlanOf /\ c.policy.candidatePlan \in DOMAIN PlanOf
       /\ c.baseline \in DeclaredIdentities(c.policy.baselinePlan)
       /\ c.candidate \in DeclaredIdentities(c.policy.candidatePlan)

\* A corpus run under way.
ExecutionIDs == {BindRun(plan, InputOf(case)).execution : plan \in DOMAIN PlanOf, case \in Cases}
CaseRuns == [execution : ExecutionIDs, answered : BOOLEAN, enqueued : BOOLEAN]

IsCall(k) ==
  /\ k = [at |-> k.at, number |-> k.number, enqueue |-> k.enqueue, corpus |-> k.corpus,
          plan |-> k.plan, runs |-> k.runs]
  /\ k.at \in {"enqueue", "read"}
  /\ k.plan \in DOMAIN PlanOf /\ k.corpus.cases \in Seq(Cases)
  /\ k.runs \in Seq(CaseRuns) /\ Len(k.runs) < Len(k.corpus.cases)

\* What a run says of a case, and of all its cases, under way or returned, is
\* so of the stored executions.
IsSo(run, enqueue, store, edited) ==
  /\ enqueue \/ run.enqueued => run.execution \in DOMAIN store
  /\ edited = 0 /\ run.answered => run.execution \in DOMAIN store /\ Answered(store[run.execution])

StillSo(h, store, edited) == \A i \in DOMAIN h.runs : IsSo(h.runs[i], h.enqueue, store, edited)

\* The executions a run created, and two runs that created none in common.
Enqueued(h) == {h.runs[i].execution : i \in {j \in DOMAIN h.runs : h.runs[j].enqueued}}
Apart(h, k) == Enqueued(h) \cap Enqueued(k) = {}

Busy == {c \in Callers : calls[c] # Idle}

CallsInv ==
  /\ edits \in Nat
  /\ DOMAIN calls = Callers
  /\ \A c \in Busy :
       /\ IsCall(calls[c]) /\ StillSo(calls[c], executions, edits)
       /\ calls[c].enqueue /\ calls[c].at = "read" => ExecutionAt(calls[c]) \in DOMAIN executions
  /\ \A r \in reports : StillSo(r, executions, edits)
  /\ \A c, d \in Busy : c # d => Apart(calls[c], calls[d])
  /\ \A c \in Busy, r \in reports : Apart(calls[c], r)
  /\ \A r, s \in reports : r # s => Apart(r, s)

\* What the first n cases of a side contribute.
Collected(comparison, corpus, side, n) ==
  [i \in 1 .. n |->
     Contribution(PlanOfSide(comparison, side), InputOf(corpus.cases[i]),
                  CheckpointOfSide(comparison, side), comparison.profile)]

\* A reason that holds of the case, and goes on to hold.
TrueReason(m, profile, store) ==
  \/ m.reason \in {"not_executed", "not_answered", "unattempted"} /\ ~m.answered
  \/ /\ m.reason = "checkpoint_not_sealed"
     /\ Answer[m.execution[2]][m.execution[3]].sealed < Len(PlanOf[m.execution[2]].checkpoints)
  \/ /\ m.reason = "not_assessed"
     /\ m.execution[2] \in DOMAIN store /\ profile \notin store[m.execution[2]].inputDigest.profiles

\* What an assembly is about, under way or returned.
IsAbout(a, questions, store) ==
  /\ a.comparison \in questions /\ ComparisonID(a.comparison) = a.id
  /\ a.corpus.cases \in Seq(Cases) /\ VerifyCorpusIdentity(a.corpus.cases, a.comparison.corpus)
  /\ \A m \in a.missing : TrueReason(m, a.comparison.profile, store)

\* How many cases of a side an assembly is past.
Past(a, side) ==
  IF side < a.side THEN Len(a.corpus.cases) ELSE IF side = a.side THEN a.index - 1 ELSE 0

AssemblyFields == {"at", "comparison", "id", "corpus", "side", "index", "cases", "missing", "row"}

IsAssembly(a, questions, store) ==
  /\ DOMAIN a = AssemblyFields /\ DOMAIN a.cases = 1 .. 2
  /\ a.at \in {"read", "verify"} /\ a.side \in 1 .. 2 /\ a.index \in 1 .. Len(a.corpus.cases)
  /\ IsAbout(a, questions, store)
  /\ a.missing = {} =>
       \A side \in 1 .. 2 : a.cases[side] = Collected(a.comparison, a.corpus, side, Past(a, side))
  /\ a.at = "verify" => a.row[1].request.execution = AssembledExecution(a)

IsAssembled(a, questions, store) ==
  /\ IsAbout(a, questions, store)
  /\ a.missing = {} =>
       \A side \in 1 .. 2 :
         a.evidence[side] = Collected(a.comparison, a.corpus, side, Len(a.corpus.cases))

AssemblyInv ==
  /\ assembly = Idle \/ IsAssembly(assembly, asked, plans)
  /\ \A a \in assemblies : IsAssembled(a, asked, plans)

\* The stores and the calls together, and all of it.
StoresInv == PlansInv /\ CorporaInv /\ ExecutionsInv /\ ComparisonsInv /\ CallsInv

EvidenceInv == StoresInv /\ AssemblyInv

-----------------------------------------------------------------------------
(* What each kind of step leaves alone.                                    *)

Work(e) == Claim(e) \/ Complete(e) \/ Fail(e) \/ Reattempt(e)
CallStep(c) == EnqueueCase(c) \/ ReadCase(c) \/ AbandonRun(c)
AssemblyStep == ReadStored \/ VerifyStored \/ AbandonAssembly
Submission == \E plan \in Readable(plans), case \in Submitted : Submit(plan, InputOf(case))
Starting == \E c \in Callers, id \in DOMAIN corpora, plan \in DOMAIN plans, enqueue \in BOOLEAN :
              StartRun(c, id, plan, enqueue)
PlanEdit == \E id \in DOMAIN plans, d \in Declarations : EditPlan(id, d)
ExecutionEdit == \E e \in DOMAIN executions, case \in Replacements : EditExecution(e, InputOf(case))
ComparisonEdit == \E id, other \in DOMAIN comparisons : EditComparison(id, other)
CorpusEdit == \E id \in DOMAIN corpora, case \in Replacements : \E i \in DOMAIN corpora[id].document :
                EditCorpus(id, i, case)

\* A worker or a reattempt touches executions only.
LEMMA WorkFrame ==
  ASSUME NEW e, Work(e)
  PROVE  UNCHANGED <<plans, corpora, comparisons, replies, asked, calls, reports, assembly, assemblies, edits>>
BY DEF Work, Claim, Complete, Fail, Reattempt, Change

\* A call of a corpus run touches executions, its own state and the reports.
LEMMA CallFrame ==
  ASSUME NEW c, CallStep(c)
  PROVE  UNCHANGED <<plans, corpora, comparisons, replies, asked, assembly, assemblies, edits>>
BY DEF CallStep, EnqueueCase, ReadCase, AbandonRun, stores

\* Starting a run touches the calls only.
LEMMA StartFrame ==
  ASSUME Starting
  PROVE  UNCHANGED <<plans, corpora, comparisons, executions, replies, asked, reports, assembly, assemblies, edits>>
BY DEF Starting, StartRun, stores

\* An assembly reads the stores and changes none.
LEMMA AssemblingFrame ==
  ASSUME NEW a, Assembling(a)
  PROVE  UNCHANGED <<plans, corpora, comparisons, executions, replies, asked, calls, reports, edits>>
BY DEF Assembling, stores

LEMMA CaseAssembledFrame ==
  ASSUME NEW compared, CaseAssembled(compared)
  PROVE  UNCHANGED <<plans, corpora, comparisons, executions, replies, asked, calls, reports, edits>>
<1>1. \E a : Assembling(a)
  BY Zenon DEF CaseAssembled
<1> QED
  BY <1>1, AssemblingFrame

LEMMA AssemblyFrame ==
  ASSUME AssemblyStep \/ \E id : BeginAssembly(id)
  PROVE  UNCHANGED <<plans, corpora, comparisons, executions, replies, asked, calls, reports, edits>>
<1>1. CASE \E id : BeginAssembly(id)
  <2>1. \E a : Assembling(a)
    BY <1>1, Zenon DEF BeginAssembly
  <2> QED
    BY <2>1, AssemblingFrame
<1>2. CASE ReadStored
  <2> DEFINE lifecycle == ClassifyLifecycle(executions[AssembledExecution(assembly)])
  <2>1. \/ \E compared : CaseAssembled(compared)
        \/ \E a : Assembling(a)
    <3>1. lifecycle \in {"pending", "unattempted", "verify", "integrity"}
      BY DEF ClassifyLifecycle
    <3> HIDE DEF lifecycle
    <3> QED
      BY <1>2, <3>1 DEF ReadStored, lifecycle
  <2> QED
    BY <2>1, AssemblingFrame, CaseAssembledFrame
<1>3. CASE VerifyStored
  <2>1. \/ \E compared : CaseAssembled(compared)
        \/ \E a : Assembling(a)
    BY <1>3, Zenon DEF VerifyStored
  <2> QED
    BY <2>1, AssemblingFrame, CaseAssembledFrame
<1>4. CASE AbandonAssembly
  BY <1>4, AssemblingFrame DEF AbandonAssembly
<1> QED
  BY <1>1, <1>2, <1>3, <1>4 DEF AssemblyStep

\* A step is one of these.
LEMMA Steps ==
  ASSUME [Next]_vars
  PROVE  \/ \E d \in Declarations : CreatePlan(d)
         \/ \E cases \in CorpusRequests : CreateCorpus(cases)
         \/ \E q \in Questions : CreateComparison(q)
         \/ Submission
         \/ \E e \in DOMAIN executions : Work(e)
         \/ Starting
         \/ \E c \in Callers : CallStep(c)
         \/ \E id \in DOMAIN comparisons : BeginAssembly(id)
         \/ AssemblyStep
         \/ PlanEdit \/ ExecutionEdit \/ ComparisonEdit \/ CorpusEdit
         \/ UNCHANGED vars
BY Zenon DEF Next, Submission, Work, Starting, CallStep, AssemblyStep, PlanEdit, ExecutionEdit,
       ComparisonEdit, CorpusEdit

\* An edit touches one row of one store, and is counted.
LEMMA EditFrame ==
  ASSUME PlanEdit \/ ExecutionEdit \/ ComparisonEdit \/ CorpusEdit
  PROVE  edits' = edits + 1 /\ UNCHANGED <<replies, asked, calls, reports, assembly, assemblies>>
<1>1. Edited
  BY DEF PlanEdit, ExecutionEdit, ComparisonEdit, CorpusEdit, EditPlan, EditExecution, EditComparison, EditCorpus
<1> QED
  BY <1>1 DEF Edited

-----------------------------------------------------------------------------
(* The plans.                                                              *)

\* Steps other than these leave plans and replies alone.
LEMMA PlansFrame ==
  ASSUME [Next]_vars
  PROVE  \/ \E d \in Declarations : CreatePlan(d)
         \/ \E cases \in CorpusRequests : CreateCorpus(cases)
         \/ PlanEdit
         \/ UNCHANGED <<plans, replies>>
<1>1. CASE \E q \in Questions : CreateComparison(q)
  BY <1>1 DEF CreateComparison
<1>2. CASE Submission
  BY <1>2 DEF Submission, Submit
<1>3. CASE \E e \in DOMAIN executions : Work(e)
  BY <1>3, WorkFrame
<1>4. CASE Starting
  BY <1>4, StartFrame
<1>5. CASE \E c \in Callers : CallStep(c)
  BY <1>5, CallFrame
<1>6. CASE AssemblyStep \/ \E id \in DOMAIN comparisons : BeginAssembly(id)
  BY <1>6, AssemblyFrame
<1>7. CASE ExecutionEdit \/ ComparisonEdit \/ CorpusEdit
  <2>1. UNCHANGED plans
    BY <1>7 DEF ExecutionEdit, ComparisonEdit, CorpusEdit, EditExecution, EditComparison, EditCorpus
  <2> QED
    BY <1>7, <2>1, EditFrame
<1>8. CASE UNCHANGED vars
  BY <1>8 DEF vars, stores
<1> QED
  BY <1>1, <1>2, <1>3, <1>4, <1>5, <1>6, <1>7, <1>8, Steps

\* No step takes a plan away or changes the input it was accepted with.
LEMMA PlansGrow ==
  ASSUME PlansInv, [Next]_vars
  PROVE  /\ DOMAIN plans \subseteq DOMAIN plans'
         /\ \A id \in DOMAIN plans : plans'[id].inputDigest = plans[id].inputDigest
<1>1. CASE \E d \in Declarations : CreatePlan(d)
  <2>1. PICK d \in Declarations : plans' = Put(plans, d.plan, PlanRow(d))
    BY <1>1 DEF CreatePlan, PutPlan
  <2> QED
    BY <2>1 DEF Put
<1>2. CASE PlanEdit
  <2>1. PICK id \in DOMAIN plans, d \in Declarations : plans' = [plans EXCEPT ![id].declarations = d]
    BY <1>2 DEF PlanEdit, EditPlan
  <2>2. DOMAIN plans' = DOMAIN plans
    BY <2>1
  <2>3. \A k \in DOMAIN plans : plans'[k].inputDigest = plans[k].inputDigest
    <3> TAKE k \in DOMAIN plans
    <3>1. CASE k # id
      BY <2>1, <3>1
    <3>2. CASE k = id
      <4>1. plans'[k] = [plans[k] EXCEPT !.declarations = d]
        BY <2>1, <3>2
      <4>2. plans[k] = [declarations |-> plans[k].declarations, inputDigest |-> plans[k].inputDigest]
        BY DEF PlansInv
      <4> QED
        BY <4>1, <4>2
    <3> QED
      BY <3>1, <3>2
  <2> QED
    BY <2>2, <2>3
<1>3. CASE UNCHANGED plans
  BY <1>3
<1>4. CASE \E cases \in CorpusRequests : CreateCorpus(cases)
  BY <1>3, <1>4 DEF CreateCorpus
<1> QED
  BY <1>1, <1>2, <1>3, <1>4, PlansFrame

\* Every step keeps the plans: only a new plan is added or a declaration edited.
LEMMA PlansKept ==
  ASSUME PlansInv, [Next]_vars
  PROVE  PlansInv'
<1>1. CASE \E d \in Declarations : CreatePlan(d)
  <2>1. PICK d \in Declarations : PutPlan(d)
    BY <1>1 DEF CreatePlan
  <2>2. plans' = Put(plans, d.plan, PlanRow(d))
    BY <2>1 DEF PutPlan
  <2>3. PICK reply : /\ reply = [of |-> d, status |-> IF plans'[d.plan].inputDigest = d THEN "created" ELSE "integrity"]
                     /\ replies' = [replies EXCEPT !.plans = @ \cup {reply}]
    BY <2>1, Zenon DEF PutPlan
  <2>4. replies' = [plans |-> replies.plans \cup {reply}, corpora |-> replies.corpora]
    BY <2>3 DEF PlansInv
  <2>5. reply.of = d /\ (reply.status = "created" => plans'[d.plan].inputDigest = d)
    BY <2>3
  <2>6. /\ DOMAIN plans' = DOMAIN plans \cup {d.plan}
        /\ \A k \in DOMAIN plans : plans'[k] = plans[k]
        /\ d.plan \notin DOMAIN plans => plans'[d.plan] = PlanRow(d)
    BY <2>2 DEF Put
  <2>7. d.plan \in DOMAIN plans' /\ d.plan \in DOMAIN PlanOf
    BY <2>6, EvidenceAssumption
  <2>8. DOMAIN plans' \subseteq DOMAIN PlanOf
    BY <2>6, <2>7 DEF PlansInv
  <2>9. \A id \in DOMAIN plans' :
          plans'[id] = [declarations |-> plans'[id].declarations, inputDigest |-> plans'[id].inputDigest]
    <3> TAKE id \in DOMAIN plans'
    <3>1. CASE id \in DOMAIN plans
      BY <2>6, <3>1 DEF PlansInv
    <3>2. CASE id \notin DOMAIN plans
      BY <2>6, <3>2 DEF PlanRow
    <3> QED
      BY <3>1, <3>2
  <2>10. \A r \in replies'.plans : r.status = "created" =>
          r.of.plan \in DOMAIN plans' /\ plans'[r.of.plan].inputDigest = r.of
    <3> TAKE r \in replies'.plans
    <3>1. CASE r = reply
      BY <2>5, <2>7, <3>1
    <3>2. CASE r \in replies.plans
      BY <2>6, <3>2 DEF PlansInv
    <3> QED
      BY <2>4, <3>1, <3>2
  <2>11. replies' = [plans |-> replies'.plans, corpora |-> replies'.corpora]
    BY <2>4
  <2> QED
    BY <2>8, <2>9, <2>10, <2>11 DEF PlansInv
<1>2. CASE \E cases \in CorpusRequests : CreateCorpus(cases)
  <2>1. UNCHANGED plans /\ \E reply : replies' = [replies EXCEPT !.corpora = @ \cup {reply}]
    BY <1>2, Zenon DEF CreateCorpus
  <2>2. PICK reply : replies' = [replies EXCEPT !.corpora = @ \cup {reply}]
    BY <2>1
  <2>3. replies' = [plans |-> replies.plans, corpora |-> replies.corpora \cup {reply}]
    BY <2>2 DEF PlansInv
  <2>4. replies'.plans = replies.plans /\ replies' = [plans |-> replies'.plans, corpora |-> replies'.corpora]
    BY <2>3
  <2> QED
    BY <2>1, <2>4 DEF PlansInv
<1>3. CASE PlanEdit
  <2>1. PICK id \in DOMAIN plans, d \in Declarations : plans' = [plans EXCEPT ![id].declarations = d]
    BY <1>3 DEF PlanEdit, EditPlan
  <2>2. UNCHANGED replies
    BY <1>3, EditFrame
  <2>3. DOMAIN plans' = DOMAIN plans /\ \A k \in DOMAIN plans : plans'[k].inputDigest = plans[k].inputDigest
    BY <2>1, PlansGrow
  <2>4. \A k \in DOMAIN plans' :
          plans'[k] = [declarations |-> plans'[k].declarations, inputDigest |-> plans'[k].inputDigest]
    <3> TAKE k \in DOMAIN plans'
    <3>1. CASE k # id
      BY <2>1, <3>1 DEF PlansInv
    <3>2. CASE k = id
      <4>1. plans'[k] = [plans[k] EXCEPT !.declarations = d]
        BY <2>1, <3>2
      <4>2. plans[k] = [declarations |-> plans[k].declarations, inputDigest |-> plans[k].inputDigest]
        BY <2>3 DEF PlansInv
      <4> QED
        BY <4>1, <4>2
    <3> QED
      BY <3>1, <3>2
  <2> QED
    BY <2>2, <2>3, <2>4 DEF PlansInv
<1>4. CASE UNCHANGED <<plans, replies>>
  BY <1>4 DEF PlansInv
<1> QED
  BY <1>1, <1>2, <1>3, <1>4, PlansFrame

LEMMA PlansInit == Init => PlansInv
BY DEF Init, PlansInv

\* The profiles a client was told its plan has are the ones executions of the
\* plan are assessed under, or the plan cannot be read: for any declarations,
\* any number of compilations under one identity and any edits of the rows.
THEOREM AcceptedProfilesAreKept == Spec => []PlansKeepTheirProfiles
<1>1. PlansInv => PlansKeepTheirProfiles
  BY DEF PlansInv, PlansKeepTheirProfiles, Readable, Rebuilds, GetPlan
<1>2. PlansInv /\ [Next]_vars => PlansInv'
  BY PlansKept
<1> QED
  BY <1>1, <1>2, PlansInit, PTL DEF Spec

-----------------------------------------------------------------------------
(* The executions.                                                         *)

\* A new execution is filed under its own identity, and one that was there
\* stays what it was.
LEMMA PendingRowKept ==
  ASSUME ExecutionsInv, NEW plan \in DOMAIN PlanOf, NEW input, input.case \in Cases,
         executions' = Put(executions, BindRun(plan, input).execution,
                           [request |-> RequestOf(plan, input), status |-> "pending", result |-> None])
  PROVE  /\ ExecutionsInv'
         /\ DOMAIN executions' = DOMAIN executions \cup {BindRun(plan, input).execution}
         /\ \A e \in DOMAIN executions : executions'[e] = executions[e]
<1> DEFINE id == BindRun(plan, input).execution
           request == RequestOf(plan, input)
           row == [request |-> request, status |-> "pending", result |-> None]
<1>1. /\ DOMAIN executions' = DOMAIN executions \cup {id}
      /\ \A e \in DOMAIN executions : executions'[e] = executions[e]
      /\ id \notin DOMAIN executions => executions'[id] = row
  BY DEF Put
<1>2. request.execution = id /\ request.plan = plan /\ request.input = input
  BY DEF RequestOf
<1> HIDE DEF id, request
<1>3. ASSUME NEW e \in DOMAIN executions'
      PROVE  LET r == executions'[e] IN
             /\ r = [request |-> r.request, status |-> r.status, result |-> r.result]
             /\ r.request.execution = e
             /\ r.request.plan \in DOMAIN PlanOf /\ r.request.input.case \in Cases
  <2>1. CASE e \in DOMAIN executions
    BY <1>1, <2>1 DEF ExecutionsInv
  <2>2. CASE e \notin DOMAIN executions
    BY <1>1, <1>2, <1>3, <2>2
  <2> QED
    BY <2>1, <2>2
<1>4. ExecutionsInv'
  BY <1>3 DEF ExecutionsInv
<1> QED
  BY <1>1, <1>4 DEF id

\* A worker changes the status and the result of one row, and leaves the
\* answers alone.
LEMMA WorkedRowKept ==
  ASSUME ExecutionsInv, NEW e \in DOMAIN executions, Work(e)
  PROVE  /\ ExecutionsInv'
         /\ DOMAIN executions' = DOMAIN executions
         /\ \A k \in DOMAIN executions : Answered(executions[k]) => executions'[k] = executions[k]
<1>1. PICK status, result :
        executions' = [executions EXCEPT ![e] = [request |-> executions[e].request, status |-> status, result |-> result]]
  <2>1. executions[e] = [request |-> executions[e].request, status |-> executions[e].status, result |-> executions[e].result]
    BY DEF ExecutionsInv
  <2>2. PICK row : /\ executions' = [executions EXCEPT ![e] = row]
                   /\ \/ \E s : row = [executions[e] EXCEPT !.status = s]
                      \/ \E s, t : row = [executions[e] EXCEPT !.status = s, !.result = t]
    <3>1. CASE Claim(e) \/ Fail(e) \/ Reattempt(e)
      BY <3>1, Zenon DEF Claim, Fail, Reattempt, Change
    <3>2. CASE Complete(e)
      <4> DEFINE request == executions[e].request
                 ran == Run(request.plan, GetPlan(plans, request.plan).profiles, request.input)
                 worked == [executions[e] EXCEPT !.status = ran.status, !.result = <<Project(request, ran)>>]
      <4>1. executions' = [executions EXCEPT ![e] = worked]
        BY <3>2, Zenon DEF Complete, Change
      <4>2. \E s, t : worked = [executions[e] EXCEPT !.status = s, !.result = t]
        BY Zenon
      <4> HIDE DEF worked
      <4> QED
        BY <4>1, <4>2
    <3> QED
      BY <3>1, <3>2 DEF Work
  <2>3. \E s, t : row = [request |-> executions[e].request, status |-> s, result |-> t]
    BY <2>1, <2>2
  <2> QED
    BY <2>2, <2>3
<1>2. ~Answered(executions[e])
  BY DEF Work, Claim, Complete, Fail, Reattempt, Answered
<1>3. DOMAIN executions' = DOMAIN executions
  BY <1>1
<1>4. /\ executions'[e] = [request |-> executions[e].request, status |-> status, result |-> result]
      /\ \A k \in DOMAIN executions \ {e} : executions'[k] = executions[k]
  BY <1>1
<1>5. ExecutionsInv'
  BY <1>3, <1>4 DEF ExecutionsInv
<1> QED
  BY <1>2, <1>3, <1>4, <1>5

\* An edited row keeps its key.
LEMMA EditedRowKept ==
  ASSUME ExecutionsInv, ExecutionEdit
  PROVE  ExecutionsInv' /\ DOMAIN executions' = DOMAIN executions
<1>1. PICK e \in DOMAIN executions, case \in Replacements : EditExecution(e, InputOf(case))
  BY DEF ExecutionEdit
<1> DEFINE plan == executions[e].request.plan
           request == [RequestOf(plan, InputOf(case)) EXCEPT !.execution = e]
<1>2. PICK status, result :
        executions' = [executions EXCEPT ![e] = [request |-> request, status |-> status, result |-> result]]
  BY <1>1, Zenon DEF EditExecution
<1>3. request.execution = e /\ request.plan = plan /\ request.input = InputOf(case)
  BY DEF RequestOf
<1>4. InputOf(case).case \in Cases /\ plan \in DOMAIN PlanOf
  BY EvidenceAssumption DEF InputOf, ExecutionsInv
<1> HIDE DEF request, plan
<1>5. DOMAIN executions' = DOMAIN executions
  BY <1>2
<1>6. /\ executions'[e] = [request |-> request, status |-> status, result |-> result]
      /\ \A k \in DOMAIN executions \ {e} : executions'[k] = executions[k]
  BY <1>2
<1>7. ExecutionsInv'
  BY <1>3, <1>4, <1>5, <1>6 DEF ExecutionsInv
<1> QED
  BY <1>5, <1>7

\* The case a call is at is one of its corpus.
LEMMA NextCase ==
  ASSUME NEW k, IsCall(k)
  PROVE  /\ CaseAt(k) \in Cases
         /\ InputOf(CaseAt(k)).case \in Cases
         /\ ExecutionAt(k) \in ExecutionIDs
<1>1. /\ k.plan \in DOMAIN PlanOf /\ k.corpus.cases \in Seq(Cases)
      /\ Len(k.runs) \in Nat /\ Len(k.runs) < Len(k.corpus.cases)
  <2>1. k.runs \in Seq(CaseRuns)
    BY DEF IsCall
  <2> QED
    BY <2>1 DEF IsCall
<1>2. CaseAt(k) \in Cases
  BY <1>1 DEF CaseAt
<1> QED
  BY <1>1, <1>2 DEF ExecutionAt, ExecutionIDs, InputOf

\* A call that is at a case is under way.
LEMMA CallUnderWay ==
  ASSUME CallsInv, NEW c \in Callers, calls[c].at # "idle"
  PROVE  c \in Busy /\ IsCall(calls[c])
<1>1. c \in Busy
  BY DEF Busy, Idle
<1> QED
  BY <1>1 DEF CallsInv

\* A corpus run's enqueue adds its row and leaves those that are there as they are.
LEMMA CalledRowKept ==
  ASSUME ExecutionsInv, CallsInv, NEW c \in Callers, CallStep(c)
  PROVE  /\ ExecutionsInv'
         /\ DOMAIN executions \subseteq DOMAIN executions'
         /\ \A e \in DOMAIN executions : executions'[e] = executions[e]
<1>1. CASE UNCHANGED executions
  BY <1>1 DEF ExecutionsInv
<1>2. CASE EnqueueCase(c)
  <2>1. IsCall(calls[c])
    BY <1>2, CallUnderWay DEF EnqueueCase
  <2> DEFINE plan == calls[c].plan
             input == InputOf(CaseAt(calls[c]))
  <2>2. \/ UNCHANGED executions
        \/ executions' = Put(executions, BindRun(plan, input).execution,
                             [request |-> RequestOf(plan, input), status |-> "pending", result |-> None])
    BY <1>2, Zenon DEF EnqueueCase, Enqueue, ExecutionAt
  <2>3. plan \in DOMAIN PlanOf /\ input.case \in Cases
    BY <2>1, NextCase DEF IsCall
  <2> HIDE DEF plan, input
  <2> QED
    BY <1>1, <2>2, <2>3, PendingRowKept
<1>3. CASE ReadCase(c) \/ AbandonRun(c)
  BY <1>1, <1>3 DEF ReadCase, AbandonRun, stores
<1> QED
  BY <1>2, <1>3 DEF CallStep

\* So does a submission.
LEMMA SubmittedRowKept ==
  ASSUME PlansInv, ExecutionsInv, Submission
  PROVE  /\ ExecutionsInv'
         /\ DOMAIN executions \subseteq DOMAIN executions'
         /\ \A e \in DOMAIN executions : executions'[e] = executions[e]
<1>1. PICK plan \in Readable(plans), case \in Submitted : Submit(plan, InputOf(case))
  BY DEF Submission
<1>2. plan \in DOMAIN PlanOf /\ InputOf(case).case \in Cases
  BY EvidenceAssumption DEF PlansInv, Readable, InputOf
<1>3. executions' = Put(executions, BindRun(plan, InputOf(case)).execution,
                        [request |-> RequestOf(plan, InputOf(case)), status |-> "pending", result |-> None])
  BY <1>1 DEF Submit
<1> QED
  BY <1>2, <1>3, PendingRowKept

\* Executions are never lost, and as long as no row is edited an answer stays
\* the answer.
LEMMA RowsKept ==
  ASSUME PlansInv, ExecutionsInv, CallsInv, [Next]_vars
  PROVE  /\ ExecutionsInv'
         /\ DOMAIN executions \subseteq DOMAIN executions'
         /\ edits' \in Nat
         /\ edits' = 0 =>
              /\ edits = 0
              /\ \A e \in DOMAIN executions : Answered(executions[e]) => executions'[e] = executions[e]
<1> DEFINE Kept == /\ ExecutionsInv'
                   /\ DOMAIN executions \subseteq DOMAIN executions'
                   /\ \A e \in DOMAIN executions : Answered(executions[e]) => executions'[e] = executions[e]
<1>1. edits \in Nat
  BY DEF CallsInv
<1>2. CASE UNCHANGED <<executions, edits>>
  <2>1. Kept
    BY <1>2 DEF ExecutionsInv
  <2> QED
    BY <1>1, <1>2, <2>1
<1>3. CASE Submission
  <2>1. Kept
    BY <1>3, SubmittedRowKept
  <2>2. UNCHANGED edits
    BY <1>3 DEF Submission, Submit
  <2> QED
    BY <1>1, <2>1, <2>2
<1>4. CASE \E e \in DOMAIN executions : Work(e)
  <2>1. Kept
    BY <1>4, WorkedRowKept
  <2>2. UNCHANGED edits
    BY <1>4, WorkFrame
  <2> QED
    BY <1>1, <2>1, <2>2
<1>5. CASE \E c \in Callers : CallStep(c)
  <2>1. Kept
    BY <1>5, CalledRowKept
  <2>2. UNCHANGED edits
    BY <1>5, CallFrame
  <2> QED
    BY <1>1, <2>1, <2>2
<1>6. CASE PlanEdit \/ ExecutionEdit \/ ComparisonEdit \/ CorpusEdit
  <2>1. edits' = edits + 1
    BY <1>6, EditFrame
  <2>2. ExecutionEdit \/ UNCHANGED executions
    BY <1>6 DEF PlanEdit, ComparisonEdit, CorpusEdit, EditPlan, EditComparison, EditCorpus
  <2>3. ExecutionsInv' /\ DOMAIN executions' = DOMAIN executions
    BY <2>2, EditedRowKept DEF ExecutionsInv
  <2> QED
    BY <1>1, <2>1, <2>3
<1>7. CASE \/ \E d \in Declarations : CreatePlan(d)
           \/ \E cases \in CorpusRequests : CreateCorpus(cases)
           \/ \E q \in Questions : CreateComparison(q)
  BY <1>2, <1>7 DEF CreatePlan, CreateCorpus, CreateComparison
<1>8. CASE Starting
  BY <1>2, <1>8, StartFrame
<1>9. CASE AssemblyStep \/ \E id \in DOMAIN comparisons : BeginAssembly(id)
  BY <1>2, <1>9, AssemblyFrame
<1>10. CASE UNCHANGED vars
  BY <1>2, <1>10 DEF vars, stores
<1> QED
  BY <1>3, <1>4, <1>5, <1>6, <1>7, <1>8, <1>9, <1>10, Steps

-----------------------------------------------------------------------------
(* The corpora.                                                            *)

LEMMA CorporaInit == Init => CorporaInv
BY DEF Init, CorporaInv, CorporaAreTheirCases

\* An accepted request is stored under the identity of its cases.
LEMMA CorpusCreated ==
  ASSUME PlansInv, CorporaInv, NEW cases \in CorpusRequests, CreateCorpus(cases)
  PROVE  CorporaInv'
<1> DEFINE corpus == NewCorpus(cases)
           reply == [of |-> cases, status |-> IF corpus = None THEN "invalid" ELSE "created"]
<1>1. corpora' = IF corpus = None THEN corpora ELSE Put(corpora, corpus.id, CorpusRow(corpus))
  BY DEF CreateCorpus
<1>2. replies' = [plans |-> replies.plans, corpora |-> replies.corpora \cup {reply}]
  <2>1. replies' = [replies EXCEPT !.corpora = @ \cup {reply}]
    BY DEF CreateCorpus
  <2>2. replies = [plans |-> replies.plans, corpora |-> replies.corpora]
    BY DEF PlansInv
  <2> HIDE DEF reply
  <2> QED
    BY <2>1, <2>2
<1>3. replies'.corpora = replies.corpora \cup {reply}
  BY <1>2
<1>4. cases \in Seq(Cases)
  BY EvidenceAssumption
<1>5. reply.of = cases /\ (reply.status = "created" => corpus # None)
  OBVIOUS
<1>6. corpus # None =>
        /\ corpus.cases \in Seq(Cases) /\ corpus.id = CorpusID(corpus.cases)
        /\ Len(corpus.cases) = Len(cases) /\ Range(corpus.cases) = Range(cases)
  BY <1>4, NewCorpusKeeps
<1> HIDE DEF corpus, reply
<1>7. /\ DOMAIN corpora' = DOMAIN corpora \cup (IF corpus = None THEN {} ELSE {corpus.id})
      /\ \A id \in DOMAIN corpora : corpora'[id] = corpora[id]
      /\ corpus # None /\ corpus.id \notin DOMAIN corpora => corpora'[corpus.id] = CorpusRow(corpus)
  BY <1>1 DEF Put
<1>8. ASSUME NEW id \in DOMAIN corpora'
      PROVE  /\ corpora'[id] = [document |-> corpora'[id].document, schema |-> corpora'[id].schema,
                                count |-> corpora'[id].count]
             /\ corpora'[id].document \in Seq(Cases)
  <2>1. CASE id \in DOMAIN corpora
    BY <1>7, <2>1 DEF CorporaInv
  <2>2. CASE id \notin DOMAIN corpora
    <3>1. corpus # None /\ id = corpus.id /\ corpora'[id] = CorpusRow(corpus)
      BY <1>7, <1>8, <2>2
    <3> QED
      BY <1>6, <3>1 DEF CorpusRow
  <2> QED
    BY <2>1, <2>2
<1>9. ASSUME NEW r \in replies'.corpora, r.status = "created"
      PROVE  \E id \in DOMAIN corpora' : id[2] = Len(r.of) /\ Range(id[3]) = Range(r.of)
  <2>1. CASE r = reply
    <3>1. corpus.id \in DOMAIN corpora' /\ corpus.id = <<"replay-corpus.v1", Len(cases), corpus.cases>>
      BY <1>5, <1>6, <1>7, <1>9, <2>1 DEF CorpusID
    <3>2. corpus.id[2] = Len(r.of) /\ Range(corpus.id[3]) = Range(r.of)
      BY <1>5, <1>6, <1>9, <2>1, <3>1
    <3> QED
      BY <3>1, <3>2
  <2>2. CASE r \in replies.corpora
    <3>1. PICK id \in DOMAIN corpora : id[2] = Len(r.of) /\ Range(id[3]) = Range(r.of)
      BY <1>9, <2>2 DEF CorporaInv, CorporaAreTheirCases
    <3> QED
      BY <1>7, <3>1
  <2> QED
    BY <1>3, <1>9, <2>1, <2>2
<1> QED
  BY <1>8, <1>9 DEF CorporaInv, CorporaAreTheirCases

\* An edited corpus is still a list of cases, and still stored under its identity.
LEMMA CorpusEdited ==
  ASSUME CorporaInv, CorpusEdit
  PROVE  CorporaInv'
<1>1. PICK id, case, i :
        /\ id \in DOMAIN corpora /\ case \in Replacements /\ i \in DOMAIN corpora[id].document
        /\ corpora' = [corpora EXCEPT ![id].document[i] = case]
  BY DEF CorpusEdit, EditCorpus
<1>2. UNCHANGED replies
  BY EditFrame
<1> DEFINE old == corpora[id].document
<1>3. old \in Seq(Cases) /\ case \in Cases
  BY <1>1, EvidenceAssumption DEF CorporaInv
<1>4. [old EXCEPT ![i] = case] \in Seq(Cases)
  BY <1>1, <1>3
<1>5. corpora'[id] = [corpora[id] EXCEPT !.document = [old EXCEPT ![i] = case]]
  BY <1>1
<1>6. corpora[id] = [document |-> old, schema |-> corpora[id].schema, count |-> corpora[id].count]
  BY <1>1 DEF CorporaInv
<1> HIDE DEF old
<1>7. corpora'[id] = [document |-> [old EXCEPT ![i] = case], schema |-> corpora[id].schema, count |-> corpora[id].count]
  BY <1>1, <1>5, <1>6
<1>8. DOMAIN corpora' = DOMAIN corpora /\ \A k \in DOMAIN corpora \ {id} : corpora'[k] = corpora[k]
  BY <1>1
<1>9. ASSUME NEW k \in DOMAIN corpora'
      PROVE  /\ corpora'[k] = [document |-> corpora'[k].document, schema |-> corpora'[k].schema,
                               count |-> corpora'[k].count]
             /\ corpora'[k].document \in Seq(Cases)
  <2>1. CASE k = id
    BY <1>4, <1>7, <2>1
  <2>2. CASE k # id
    BY <1>8, <1>9, <2>2 DEF CorporaInv
  <2> QED
    BY <2>1, <2>2
<1> QED
  BY <1>2, <1>8, <1>9 DEF CorporaInv, CorporaAreTheirCases

\* Every step keeps the corpora.
LEMMA CorporaKept ==
  ASSUME PlansInv, CorporaInv, [Next]_vars
  PROVE  CorporaInv'
<1>1. CASE UNCHANGED <<corpora, replies>>
  BY <1>1 DEF CorporaInv, CorporaAreTheirCases
<1>2. CASE \E d \in Declarations : CreatePlan(d)
  <2>1. UNCHANGED corpora /\ \E reply : replies' = [replies EXCEPT !.plans = @ \cup {reply}]
    BY <1>2, Zenon DEF CreatePlan, PutPlan
  <2>2. replies'.corpora = replies.corpora
    BY <2>1 DEF PlansInv
  <2> QED
    BY <2>1, <2>2 DEF CorporaInv, CorporaAreTheirCases
<1>3. CASE \E cases \in CorpusRequests : CreateCorpus(cases)
  BY <1>3, CorpusCreated
<1>4. CASE \E q \in Questions : CreateComparison(q)
  BY <1>1, <1>4 DEF CreateComparison
<1>5. CASE Submission
  BY <1>1, <1>5 DEF Submission, Submit
<1>6. CASE \E e \in DOMAIN executions : Work(e)
  BY <1>1, <1>6, WorkFrame
<1>7. CASE Starting
  BY <1>1, <1>7, StartFrame
<1>8. CASE \E c \in Callers : CallStep(c)
  BY <1>1, <1>8, CallFrame
<1>9. CASE AssemblyStep \/ \E id \in DOMAIN comparisons : BeginAssembly(id)
  BY <1>1, <1>9, AssemblyFrame
<1>10. CASE PlanEdit \/ ExecutionEdit \/ ComparisonEdit
  <2>1. UNCHANGED corpora
    BY <1>10 DEF PlanEdit, ExecutionEdit, ComparisonEdit, EditPlan, EditExecution, EditComparison
  <2> QED
    BY <1>1, <1>10, <2>1, EditFrame
<1>11. CASE CorpusEdit
  BY <1>11, CorpusEdited
<1>12. CASE UNCHANGED vars
  BY <1>1, <1>12 DEF vars, stores
<1> QED
  BY <1>2, <1>3, <1>4, <1>5, <1>6, <1>7, <1>8, <1>9, <1>10, <1>11, <1>12, Steps

-----------------------------------------------------------------------------
(* The comparisons.                                                        *)

LEMMA ComparisonsInit == Init => ComparisonsInv
BY DEF Init, ComparisonsInv

\* A comparison is stored under its identity and is then among those that were asked for.
LEMMA ComparisonCreated ==
  ASSUME PlansInv, ComparisonsInv, NEW q \in Questions, CreateComparison(q)
  PROVE  ComparisonsInv' /\ asked \subseteq asked'
<1> DEFINE policy == NewComparisonPolicy(q.baselinePlan, q.candidatePlan, q.pairs)
           request == [baseline |-> CheckpointID(q.baselinePlan, q.baseline),
                       candidate |-> CheckpointID(q.candidatePlan, q.candidate),
                       profile |-> q.profile, world |-> q.world, corpus |-> q.corpus, policy |-> policy]
           comparison == NewComparison(request)
<1>1. /\ {q.baselinePlan, q.candidatePlan} \subseteq Readable(plans)
      /\ Declares(q.baselinePlan, q.baseline) /\ Declares(q.candidatePlan, q.candidate)
      /\ policy # None /\ comparison # None
      /\ comparisons' = Put(comparisons, ComparisonID(comparison), ProjectComparison(Tenant, comparison))
      /\ asked' = asked \cup {comparison}
  BY Zenon DEF CreateComparison
<1>2. comparison = request
  BY <1>1 DEF NewComparison
<1>3. IsPolicy(policy) /\ policy.baselinePlan = q.baselinePlan /\ policy.candidatePlan = q.candidatePlan
  BY <1>1, NewPolicyIsPolicy
<1>4. q.baselinePlan \in DOMAIN PlanOf /\ q.candidatePlan \in DOMAIN PlanOf
  BY <1>1 DEF Readable, PlansInv
<1>5. /\ CheckpointID(q.baselinePlan, q.baseline) \in DeclaredIdentities(q.baselinePlan)
      /\ CheckpointID(q.candidatePlan, q.candidate) \in DeclaredIdentities(q.candidatePlan)
  BY <1>1 DEF Declares, DeclaredIdentities
<1> HIDE DEF policy
<1>6. /\ IsComparison(comparison)
      /\ comparison.policy.baselinePlan \in DOMAIN PlanOf /\ comparison.policy.candidatePlan \in DOMAIN PlanOf
      /\ comparison.baseline \in DeclaredIdentities(comparison.policy.baselinePlan)
      /\ comparison.candidate \in DeclaredIdentities(comparison.policy.candidatePlan)
  BY <1>2, <1>3, <1>4, <1>5 DEF IsComparison
<1> HIDE DEF comparison
<1>7. DOMAIN comparisons' = DOMAIN comparisons \cup {ComparisonID(comparison)}
  BY <1>1 DEF Put
<1>8. \A id \in DOMAIN comparisons' : \E c \in asked' : ComparisonID(c) = id
  BY <1>1, <1>7 DEF ComparisonsInv
<1> QED
  BY <1>1, <1>6, <1>8 DEF ComparisonsInv

\* Every step keeps the comparisons, and no comparison is forgotten.
LEMMA ComparisonsKept ==
  ASSUME PlansInv, ComparisonsInv, [Next]_vars
  PROVE  ComparisonsInv' /\ asked \subseteq asked'
<1>1. CASE UNCHANGED <<comparisons, asked>>
  BY <1>1 DEF ComparisonsInv
<1>2. CASE \E q \in Questions : CreateComparison(q)
  BY <1>2, ComparisonCreated
<1>3. CASE \/ \E d \in Declarations : CreatePlan(d)
           \/ \E cases \in CorpusRequests : CreateCorpus(cases)
  BY <1>1, <1>3 DEF CreatePlan, CreateCorpus
<1>4. CASE Submission
  BY <1>1, <1>4 DEF Submission, Submit
<1>5. CASE \E e \in DOMAIN executions : Work(e)
  BY <1>1, <1>5, WorkFrame
<1>6. CASE Starting
  BY <1>1, <1>6, StartFrame
<1>7. CASE \E c \in Callers : CallStep(c)
  BY <1>1, <1>7, CallFrame
<1>8. CASE AssemblyStep \/ \E id \in DOMAIN comparisons : BeginAssembly(id)
  BY <1>1, <1>8, AssemblyFrame
<1>9. CASE PlanEdit \/ ExecutionEdit \/ CorpusEdit
  <2>1. UNCHANGED comparisons
    BY <1>9 DEF PlanEdit, ExecutionEdit, CorpusEdit, EditPlan, EditExecution, EditCorpus
  <2> QED
    BY <1>1, <1>9, <2>1, EditFrame
<1>10. CASE ComparisonEdit
  <2>1. DOMAIN comparisons' = DOMAIN comparisons
    BY <1>10 DEF ComparisonEdit, EditComparison
  <2> QED
    BY <1>10, <2>1, EditFrame DEF ComparisonsInv
<1>11. CASE UNCHANGED vars
  BY <1>1, <1>11 DEF vars, stores
<1> QED
  BY <1>2, <1>3, <1>4, <1>5, <1>6, <1>7, <1>8, <1>9, <1>10, <1>11, Steps

-----------------------------------------------------------------------------
(* The corpus runs.                                                        *)

LEMMA CallsInit == Init => CallsInv
<1> SUFFICES ASSUME Init PROVE CallsInv
  OBVIOUS
<1>1. DOMAIN calls = Callers /\ Busy = {} /\ reports = {} /\ edits = 0
  BY DEF Init, Busy
<1> QED
  BY <1>1 DEF CallsInv

\* What was said stays so while executions are kept and answers stay.
LEMMA StillSoKept ==
  ASSUME NEW h, NEW store, NEW later, NEW n, NEW m,
         StillSo(h, store, n), DOMAIN store \subseteq DOMAIN later,
         m = 0 => n = 0 /\ \A e \in DOMAIN store : Answered(store[e]) => later[e] = store[e]
  PROVE  StillSo(h, later, m)
BY DEF StillSo, IsSo

\* The executions a run created are stored.
LEMMA EnqueuedIsStored ==
  ASSUME NEW h, NEW store, NEW n, StillSo(h, store, n)
  PROVE  Enqueued(h) \subseteq DOMAIN store
BY DEF StillSo, IsSo, Enqueued

\* The run of one more case is appended.
LEMMA OneMoreCase ==
  ASSUME NEW k, IsCall(k), NEW store, NEW n, StillSo(k, store, n),
         NEW last \in CaseRuns, IsSo(last, k.enqueue, store, n),
         NEW h, h.enqueue = k.enqueue, h.runs = Append(k.runs, last)
  PROVE  /\ StillSo(h, store, n)
         /\ \A e \in Enqueued(h) : e \in Enqueued(k) \/ (last.enqueued /\ e = last.execution)
<1> DEFINE len == Len(k.runs)
<1>1. k.runs \in Seq(CaseRuns)
  BY DEF IsCall
<1>2. /\ len \in Nat /\ DOMAIN k.runs = 1 .. len
      /\ DOMAIN h.runs = 1 .. len + 1
      /\ \A i \in 1 .. len : h.runs[i] = k.runs[i]
      /\ h.runs[len + 1] = last
  BY <1>1
<1>3. \A i \in DOMAIN h.runs : (i \in DOMAIN k.runs /\ h.runs[i] = k.runs[i]) \/ h.runs[i] = last
  BY <1>2
<1>4. StillSo(h, store, n)
  BY <1>3 DEF StillSo
<1>5. ASSUME NEW i \in DOMAIN h.runs, h.runs[i].enqueued
      PROVE  h.runs[i].execution \in Enqueued(k) \/ (last.enqueued /\ h.runs[i].execution = last.execution)
  <2>1. CASE i \in DOMAIN k.runs /\ h.runs[i] = k.runs[i]
    <3>1. i \in DOMAIN k.runs /\ k.runs[i].enqueued /\ h.runs[i].execution = k.runs[i].execution
      BY <1>5, <2>1
    <3>2. i \in {j \in DOMAIN k.runs : k.runs[j].enqueued}
      BY <3>1
    <3>3. k.runs[i].execution \in Enqueued(k)
      BY <3>2 DEF Enqueued
    <3> QED
      BY <3>1, <3>3
  <2>2. CASE h.runs[i] = last
    BY <1>5, <2>2
  <2> QED
    BY <1>3, <2>1, <2>2
<1>6. \A e \in Enqueued(h) : e \in Enqueued(k) \/ (last.enqueued /\ e = last.execution)
  <2> SUFFICES ASSUME NEW e \in Enqueued(h)
               PROVE  e \in Enqueued(k) \/ (last.enqueued /\ e = last.execution)
    OBVIOUS
  <2>1. PICK i \in DOMAIN h.runs : h.runs[i].enqueued /\ e = h.runs[i].execution
    BY DEF Enqueued
  <2> QED
    BY <1>5, <2>1
<1> QED
  BY <1>4, <1>6

\* How the executions may change while a call is under way (RowsKept).
RowsGrow ==
  /\ DOMAIN executions \subseteq DOMAIN executions'
  /\ edits' \in Nat
  /\ edits' = 0 =>
       /\ edits = 0
       /\ \A e \in DOMAIN executions : Answered(executions[e]) => executions'[e] = executions[e]

\* A call goes on as h, returns h, or is abandoned: what h created and was
\* stored before, the call had created.
LEMMA CallReplaced ==
  ASSUME CallsInv, RowsGrow, NEW c \in Callers, NEW h,
         StillSo(h, executions', edits'),
         Enqueued(h) \cap DOMAIN executions \subseteq (IF c \in Busy THEN Enqueued(calls[c]) ELSE {}),
         \/ /\ calls' = [calls EXCEPT ![c] = h] /\ reports' = reports
            /\ IsCall(h)
            /\ h.enqueue /\ h.at = "read" => ExecutionAt(h) \in DOMAIN executions'
         \/ calls' = [calls EXCEPT ![c] = Idle] /\ reports' \in {reports, reports \cup {h}}
  PROVE  CallsInv'
<1>1. /\ DOMAIN calls = Callers /\ DOMAIN calls' = Callers
      /\ calls'[c] \in {h, Idle}
      /\ \A d \in Callers \ {c} : calls'[d] = calls[d]
  BY DEF CallsInv
<1>2. \A d \in Busy' \ {c} : d \in Busy /\ calls'[d] = calls[d]
  BY <1>1 DEF Busy
<1>3. c \in Busy' => /\ calls'[c] = h /\ reports' = reports /\ IsCall(h)
                     /\ h.enqueue /\ h.at = "read" => ExecutionAt(h) \in DOMAIN executions'
  BY <1>1 DEF Busy
<1>4. \A o : StillSo(o, executions, edits) => StillSo(o, executions', edits')
  BY StillSoKept DEF RowsGrow
<1>5. ASSUME NEW o, StillSo(o, executions, edits), c \in Busy => Apart(calls[c], o)
      PROVE  Apart(h, o) /\ Apart(o, h)
  <2>1. Enqueued(o) \subseteq DOMAIN executions
    BY <1>5, EnqueuedIsStored
  <2> QED
    BY <1>5, <2>1 DEF Apart
<1>6. \A d \in Busy \ {c} : Apart(h, calls[d]) /\ Apart(calls[d], h)
  BY <1>5 DEF CallsInv
<1>7. \A r \in reports : Apart(h, r) /\ Apart(r, h)
  BY <1>5 DEF CallsInv
<1>8. \A d \in Busy' :
        /\ IsCall(calls'[d]) /\ StillSo(calls'[d], executions', edits')
        /\ calls'[d].enqueue /\ calls'[d].at = "read" => ExecutionAt(calls'[d]) \in DOMAIN executions'
  <2> TAKE d \in Busy'
  <2>1. CASE d = c
    BY <1>3, <2>1
  <2>2. CASE d # c
    <3>1. d \in Busy /\ calls'[d] = calls[d]
      BY <1>2, <2>2
    <3> QED
      BY <1>4, <3>1 DEF CallsInv, RowsGrow
  <2> QED
    BY <2>1, <2>2
<1>9. \A r \in reports' : StillSo(r, executions', edits')
  BY <1>4 DEF CallsInv
<1>10. \A d, f \in Busy' : d # f => Apart(calls'[d], calls'[f])
  <2> SUFFICES ASSUME NEW d \in Busy', NEW f \in Busy', d # f PROVE Apart(calls'[d], calls'[f])
    OBVIOUS
  <2>1. CASE d = c
    BY <1>2, <1>3, <1>6, <2>1
  <2>2. CASE f = c
    BY <1>2, <1>3, <1>6, <2>2
  <2>3. CASE d # c /\ f # c
    BY <1>2, <2>3 DEF CallsInv
  <2> QED
    BY <2>1, <2>2, <2>3
<1>11. \A d \in Busy', r \in reports' : Apart(calls'[d], r)
  <2> SUFFICES ASSUME NEW d \in Busy', NEW r \in reports' PROVE Apart(calls'[d], r)
    OBVIOUS
  <2>1. CASE d = c
    BY <1>3, <1>7, <2>1
  <2>2. CASE d # c
    <3>1. d \in Busy /\ calls'[d] = calls[d] /\ (r \in reports \/ r = h)
      BY <1>2, <2>2
    <3> QED
      BY <1>6, <2>2, <3>1 DEF CallsInv
  <2> QED
    BY <2>1, <2>2
<1>12. \A r, s \in reports' : r # s => Apart(r, s)
  <2>1. \A r \in reports' : r \in reports \/ r = h
    OBVIOUS
  <2> QED
    BY <1>7, <2>1 DEF CallsInv
<1> QED
  BY <1>1, <1>8, <1>9, <1>10, <1>11, <1>12 DEF CallsInv, RowsGrow

\* A run starts with nothing to answer for.
LEMMA RunStarted ==
  ASSUME PlansInv, CorporaInv, CallsInv, Starting
  PROVE  CallsInv'
<1>1. PICK c \in Callers, id \in DOMAIN corpora, plan \in DOMAIN plans, enqueue \in BOOLEAN :
        StartRun(c, id, plan, enqueue)
  BY DEF Starting
<1> DEFINE corpus == ReadCorpus(corpora[id], id)
           h == [at |-> IF enqueue THEN "enqueue" ELSE "read", number |-> started.runs, enqueue |-> enqueue,
                 corpus |-> corpus, plan |-> plan, runs |-> <<>>]
<1>2. corpus # None /\ calls[c] = Idle /\ calls' = [calls EXCEPT ![c] = h]
  BY <1>1 DEF StartRun, Enter
<1>3. RowsGrow /\ UNCHANGED reports
  BY StartFrame DEF RowsGrow, CallsInv
<1>4. corpus.cases \in Seq(Cases) /\ corpus.cases # <<>>
  <2>1. corpora[id].document \in Seq(Cases)
    BY DEF CorporaInv
  <2> QED
    BY <1>2, <2>1, ReadCorpusKeeps DEF VerifyCorpusIdentity
<1> HIDE DEF corpus
<1>5. Len(corpus.cases) > 0
  BY <1>4, EmptySeq
<1>6. /\ h.at = (IF enqueue THEN "enqueue" ELSE "read") /\ h.enqueue = enqueue /\ h.corpus = corpus
      /\ h.plan = plan /\ h.runs = <<>>
      /\ h = [at |-> h.at, number |-> h.number, enqueue |-> h.enqueue, corpus |-> h.corpus,
              plan |-> h.plan, runs |-> h.runs]
  OBVIOUS
<1> HIDE DEF h
<1>7. plan \in DOMAIN PlanOf
  BY DEF PlansInv
<1>8. IsCall(h)
  BY <1>4, <1>5, <1>6, <1>7 DEF IsCall
<1>9. StillSo(h, executions', edits') /\ Enqueued(h) = {}
  BY <1>6 DEF StillSo, Enqueued
<1>10. ~(h.enqueue /\ h.at = "read")
  BY <1>6
<1> QED
  BY <1>2, <1>3, <1>8, <1>9, <1>10, CallReplaced

\* The fields of a call after a case.
LEMMA CallGoesOn ==
  ASSUME NEW k, IsCall(k), NEW at, NEW runs
  PROVE  [k EXCEPT !.at = at, !.runs = runs] =
           [at |-> at, number |-> k.number, enqueue |-> k.enqueue, corpus |-> k.corpus, plan |-> k.plan, runs |-> runs]
<1>1. PICK a, n, e, c, p, r : k = [at |-> a, number |-> n, enqueue |-> e, corpus |-> c, plan |-> p, runs |-> r]
  BY Zenon DEF IsCall
<1> DEFINE m == [k EXCEPT !.at = at]
<1>2. m = [at |-> at, number |-> n, enqueue |-> e, corpus |-> c, plan |-> p, runs |-> r]
  BY <1>1
<1>3. [k EXCEPT !.at = at, !.runs = runs] = [m EXCEPT !.runs = runs]
  OBVIOUS
<1>4. k.number = n /\ k.enqueue = e /\ k.corpus = c /\ k.plan = p
  BY <1>1
<1> HIDE DEF m
<1>5. [m EXCEPT !.runs = runs] = [at |-> at, number |-> n, enqueue |-> e, corpus |-> c, plan |-> p, runs |-> runs]
  BY <1>2
<1> QED
  BY <1>3, <1>4, <1>5

\* The run of a case is counted as created only where the execution was not
\* stored, and as answered only where the row has its answer.
LEMMA CaseDoneKept ==
  ASSUME CallsInv, RowsGrow, NEW c \in Busy, NEW answered \in BOOLEAN, NEW enqueued \in BOOLEAN,
         CaseDone(c, answered, enqueued),
         enqueued => ExecutionAt(calls[c]) \notin DOMAIN executions,
         calls[c].enqueue \/ enqueued => ExecutionAt(calls[c]) \in DOMAIN executions',
         edits' = 0 /\ answered =>
           ExecutionAt(calls[c]) \in DOMAIN executions' /\ Answered(executions'[ExecutionAt(calls[c])])
  PROVE  CallsInv'
<1> DEFINE call == calls[c]
           e == ExecutionAt(call)
           last == [execution |-> e, answered |-> answered, enqueued |-> enqueued]
           runs == Append(call.runs, last)
           done == [number |-> call.number, enqueue |-> call.enqueue, runs |-> runs]
           at == IF call.enqueue THEN "enqueue" ELSE "read"
           more == [call EXCEPT !.at = at, !.runs = runs]
<1>1. IsCall(call) /\ StillSo(call, executions', edits') /\ c \in Callers
  BY StillSoKept DEF CallsInv, RowsGrow, Busy
<1>2. IF Len(runs) = Len(call.corpus.cases)
      THEN calls' = [calls EXCEPT ![c] = Idle] /\ reports' = reports \cup {done}
      ELSE calls' = [calls EXCEPT ![c] = more] /\ reports' = reports
  BY Zenon DEF CaseDone, Enter
<1>3. more = [at |-> at, number |-> call.number, enqueue |-> call.enqueue, corpus |-> call.corpus,
              plan |-> call.plan, runs |-> runs]
  <2> HIDE DEF call, runs, at
  <2> QED
    BY <1>1, CallGoesOn
<1>4. ASSUME NEW h, h.enqueue = call.enqueue, h.runs = runs
      PROVE  /\ StillSo(h, executions', edits')
             /\ Enqueued(h) \cap DOMAIN executions \subseteq Enqueued(call)
             /\ runs \in Seq(CaseRuns) /\ Len(runs) = Len(call.runs) + 1
  <2>1. e \in ExecutionIDs
    BY <1>1, NextCase
  <2>2. /\ last \in CaseRuns /\ IsSo(last, call.enqueue, executions', edits')
        /\ last.enqueued => last.execution \notin DOMAIN executions
    <3>1. last.execution = e /\ last.answered = answered /\ last.enqueued = enqueued /\ last \in CaseRuns
      <4> HIDE DEF e
      <4> QED
        BY <2>1 DEF CaseRuns
    <3> HIDE DEF last
    <3> QED
      BY <3>1 DEF IsSo
  <2>3. h.runs = Append(call.runs, last)
    BY <1>4
  <2> HIDE DEF last, call, runs
  <2>4. /\ StillSo(h, executions', edits')
        /\ \A x \in Enqueued(h) : x \in Enqueued(call) \/ (last.enqueued /\ x = last.execution)
        /\ h.runs \in Seq(CaseRuns) /\ Len(h.runs) = Len(call.runs) + 1
    <3>1. StillSo(h, executions', edits')
      BY <1>1, <1>4, <2>2, <2>3, OneMoreCase
    <3>2. \A x \in Enqueued(h) : x \in Enqueued(call) \/ (last.enqueued /\ x = last.execution)
      BY <1>1, <1>4, <2>2, <2>3, OneMoreCase
    <3>3. h.runs \in Seq(CaseRuns) /\ Len(h.runs) = Len(call.runs) + 1
      BY <1>1, <2>2, <2>3 DEF IsCall
    <3> QED
      BY <3>1, <3>2, <3>3
  <2> QED
    BY <1>4, <2>2, <2>4
<1> HIDE DEF runs, more, at
<1>5. done.enqueue = call.enqueue /\ done.runs = runs
  OBVIOUS
<1>6. more.enqueue = call.enqueue /\ more.runs = runs
  BY <1>3
<1> HIDE DEF done
<1>7. CASE Len(runs) = Len(call.corpus.cases)
  <2>1. /\ StillSo(done, executions', edits')
        /\ Enqueued(done) \cap DOMAIN executions \subseteq Enqueued(call)
    BY <1>4, <1>5
  <2> QED
    BY <1>1, <1>2, <1>7, <2>1, CallReplaced
<1>8. CASE Len(runs) # Len(call.corpus.cases)
  <2>1. /\ StillSo(more, executions', edits')
        /\ Enqueued(more) \cap DOMAIN executions \subseteq Enqueued(call)
        /\ runs \in Seq(CaseRuns) /\ Len(runs) = Len(call.runs) + 1
    BY <1>4, <1>6
  <2>2. Len(runs) < Len(call.corpus.cases)
    <3>1. call.corpus.cases \in Seq(Cases) /\ call.runs \in Seq(CaseRuns) /\ Len(call.runs) < Len(call.corpus.cases)
      BY <1>1 DEF IsCall
    <3> HIDE DEF call
    <3> QED
      BY <1>8, <2>1, <3>1
  <2>3. IsCall(more)
    <3>1. call.plan \in DOMAIN PlanOf /\ call.corpus.cases \in Seq(Cases) /\ at \in {"enqueue", "read"}
      BY <1>1 DEF IsCall, at
    <3> HIDE DEF call
    <3> QED
      BY <1>3, <2>1, <2>2, <3>1 DEF IsCall
  <2>4. ~(more.enqueue /\ more.at = "read")
    BY <1>3 DEF at
  <2> QED
    BY <1>1, <1>2, <1>8, <2>1, <2>3, <2>4, CallReplaced
<1> QED
  BY <1>7, <1>8

\* A call records what it found and what it enqueued, and a run that is reported is the call.
LEMMA CallStepKept ==
  ASSUME CallsInv, RowsGrow, NEW c \in Callers, CallStep(c)
  PROVE  CallsInv'
<1> DEFINE call == calls[c]
           e == ExecutionAt(call)
<1>1. CASE EnqueueCase(c) /\ e \in DOMAIN executions
  <2> DEFINE h == [call EXCEPT !.at = "read"]
  <2>1. /\ calls' = [calls EXCEPT ![c] = h] /\ UNCHANGED <<executions, reports>>
        /\ c \in Busy /\ IsCall(call)
    BY <1>1, CallUnderWay, Zenon DEF EnqueueCase, Enqueue, Enter
  <2>2. h = [at |-> "read", number |-> call.number, enqueue |-> call.enqueue, corpus |-> call.corpus,
             plan |-> call.plan, runs |-> call.runs]
    <3>1. call = [at |-> call.at, number |-> call.number, enqueue |-> call.enqueue, corpus |-> call.corpus,
                  plan |-> call.plan, runs |-> call.runs]
      BY <2>1 DEF IsCall
    <3> HIDE DEF call
    <3> QED
      BY <3>1
  <2> HIDE DEF h
  <2>3. IsCall(h) /\ ExecutionAt(h) = e /\ h.runs = call.runs /\ h.enqueue = call.enqueue
    BY <2>1, <2>2 DEF IsCall, ExecutionAt, CaseAt
  <2>4. StillSo(call, executions', edits')
    BY <2>1, StillSoKept DEF CallsInv, RowsGrow
  <2>5. StillSo(h, executions', edits') /\ Enqueued(h) = Enqueued(call)
    BY <2>3, <2>4 DEF StillSo, Enqueued
  <2>6. ExecutionAt(h) \in DOMAIN executions'
    BY <1>1, <2>1, <2>3
  <2> QED
    BY <2>1, <2>3, <2>5, <2>6, CallReplaced
<1>2. CASE EnqueueCase(c) /\ e \notin DOMAIN executions
  <2>1. CaseDone(c, FALSE, TRUE) /\ e \in DOMAIN executions' /\ c \in Busy
    <3>1. /\ call.at = "enqueue" /\ CaseDone(c, FALSE, TRUE)
          /\ executions' = Put(executions, e, [request |-> RequestOf(call.plan, InputOf(CaseAt(call))),
                                               status |-> "pending", result |-> None])
      BY <1>2, Zenon DEF EnqueueCase, Enqueue
    <3> HIDE DEF e
    <3> QED
      BY <3>1, CallUnderWay DEF Put
  <2> QED
    BY <1>2, <2>1, CaseDoneKept
<1>3. CASE ReadCase(c)
  <2>1. c \in Busy /\ UNCHANGED executions
    BY <1>3, CallUnderWay DEF ReadCase, stores
  <2>2. call.enqueue => e \in DOMAIN executions'
    BY <1>3, <2>1 DEF CallsInv, ReadCase
  <2>3. CASE e \in DOMAIN executions
    <3>1. CaseDone(c, Answered(executions[e]), FALSE) /\ Answered(executions[e]) \in BOOLEAN
      <4>1. CaseDone(c, Answered(executions[e]), FALSE)
        BY <1>3, <2>3 DEF ReadCase, CaseAnswered
      <4>2. Answered(executions[e]) \in BOOLEAN
        BY DEF Answered
      <4> QED
        BY <4>1, <4>2
    <3>2. PICK answered \in BOOLEAN : answered = Answered(executions[e])
      BY <3>1
    <3>3. CaseDone(c, answered, FALSE) /\ (answered => Answered(executions'[e]))
      BY <2>1, <3>1, <3>2
    <3> QED
      BY <2>1, <2>2, <2>3, <3>3, CaseDoneKept
  <2>4. CASE e \notin DOMAIN executions
    <3>1. CaseDone(c, FALSE, FALSE)
      BY <1>3, <2>4 DEF ReadCase
    <3> QED
      BY <2>1, <2>2, <3>1, CaseDoneKept
  <2> QED
    BY <2>3, <2>4
<1>4. CASE AbandonRun(c)
  <2>1. calls' = [calls EXCEPT ![c] = Idle] /\ reports' = reports /\ c \in Busy
    BY <1>4 DEF AbandonRun, Enter, Busy
  <2>2. StillSo(call, executions', edits')
    BY <2>1, StillSoKept DEF CallsInv, RowsGrow
  <2> QED
    BY <2>1, <2>2, CallReplaced
<1> QED
  BY <1>1, <1>2, <1>3, <1>4 DEF CallStep

\* Every step keeps the calls and the reports: rows are only added, and an answer only goes when a
\* row is edited.
LEMMA CallsKept ==
  ASSUME PlansInv, CorporaInv, ExecutionsInv, CallsInv, [Next]_vars
  PROVE  CallsInv'
<1>1. RowsGrow
  BY RowsKept DEF RowsGrow
<1>2. CASE UNCHANGED <<calls, reports>>
  <2>1. \A o : StillSo(o, executions, edits) => StillSo(o, executions', edits')
    BY <1>1, StillSoKept DEF RowsGrow
  <2>2. Busy' = Busy
    BY <1>2 DEF Busy
  <2> QED
    BY <1>1, <1>2, <2>1, <2>2 DEF CallsInv, RowsGrow
<1>3. CASE Starting
  BY <1>3, RunStarted
<1>4. CASE \E c \in Callers : CallStep(c)
  BY <1>1, <1>4, CallStepKept
<1>5. CASE \/ \E d \in Declarations : CreatePlan(d)
           \/ \E cases \in CorpusRequests : CreateCorpus(cases)
           \/ \E q \in Questions : CreateComparison(q)
  BY <1>2, <1>5 DEF CreatePlan, CreateCorpus, CreateComparison
<1>6. CASE Submission
  BY <1>2, <1>6 DEF Submission, Submit
<1>7. CASE \E e \in DOMAIN executions : Work(e)
  BY <1>2, <1>7, WorkFrame
<1>8. CASE AssemblyStep \/ \E id \in DOMAIN comparisons : BeginAssembly(id)
  BY <1>2, <1>8, AssemblyFrame
<1>9. CASE PlanEdit \/ ExecutionEdit \/ ComparisonEdit \/ CorpusEdit
  BY <1>2, <1>9, EditFrame
<1>10. CASE UNCHANGED vars
  BY <1>2, <1>10 DEF vars
<1> QED
  BY <1>3, <1>4, <1>5, <1>6, <1>7, <1>8, <1>9, <1>10, Steps

\* Every step keeps the stores and the calls consistent: rows are filed under
\* what they are, and what a run said of its cases is still so.
THEOREM StoresCorrect == Spec => []StoresInv
<1>1. Init => ExecutionsInv
  BY DEF Init, ExecutionsInv
<1>2. Init => StoresInv
  BY <1>1, PlansInit, CorporaInit, ComparisonsInit, CallsInit DEF StoresInv
<1>3. StoresInv /\ [Next]_vars => StoresInv'
  <2> SUFFICES ASSUME StoresInv, [Next]_vars PROVE StoresInv'
    OBVIOUS
  <2>1. PlansInv' /\ CorporaInv'
    BY PlansKept, CorporaKept DEF StoresInv
  <2>2. ExecutionsInv'
    BY RowsKept DEF StoresInv
  <2>3. ComparisonsInv'
    BY ComparisonsKept DEF StoresInv
  <2>4. CallsInv'
    BY CallsKept DEF StoresInv
  <2> QED
    BY <2>1, <2>2, <2>3, <2>4 DEF StoresInv
<1> QED
  BY <1>2, <1>3, PTL DEF Spec

\* However many callers run a corpus at the same time, and wherever their
\* calls are abandoned, no two returned runs count one execution as created by
\* them, and every case of a run that returned is stored.
THEOREM CasesAreCreatedOnce == Spec => []EachCaseIsCreatedOnce
<1>1. CallsInv => EachCaseIsCreatedOnce
  <2> SUFFICES ASSUME CallsInv, NEW r \in reports, NEW s \in reports
               PROVE  /\ r.enqueue => \A i \in DOMAIN r.runs : r.runs[i].execution \in DOMAIN executions
                      /\ r # s => \A i \in DOMAIN r.runs, j \in DOMAIN s.runs :
                           (r.runs[i].enqueued /\ s.runs[j].enqueued) => r.runs[i].execution # s.runs[j].execution
    BY DEF EachCaseIsCreatedOnce
  <2>1. r.enqueue => \A i \in DOMAIN r.runs : r.runs[i].execution \in DOMAIN executions
    BY DEF CallsInv, StillSo, IsSo
  <2>2. ASSUME r # s, NEW i \in DOMAIN r.runs, NEW j \in DOMAIN s.runs, r.runs[i].enqueued, s.runs[j].enqueued
        PROVE  r.runs[i].execution # s.runs[j].execution
    <3>1. Enqueued(r) \cap Enqueued(s) = {}
      BY <2>2 DEF CallsInv, Apart
    <3>2. r.runs[i].execution \in Enqueued(r) /\ s.runs[j].execution \in Enqueued(s)
      BY <2>2 DEF Enqueued
    <3> QED
      BY <3>1, <3>2
  <2> QED
    BY <2>1, <2>2
<1>2. StoresInv => EachCaseIsCreatedOnce
  BY <1>1 DEF StoresInv
<1> QED
  BY <1>2, StoresCorrect, PTL

\* A corpus run that was reported complete has its answers ever after, as long
\* as no row is edited: executions that fail and are reattempted are none of
\* those it counted.
THEOREM CompleteRunsStayAnswered == Spec => []CompleteStaysAnswered
<1>1. StoresInv => CompleteStaysAnswered
  <2> SUFFICES ASSUME CallsInv, edits = 0, NEW r \in reports, CompleteRun(r), NEW i \in DOMAIN r.runs
               PROVE  Answered(executions[r.runs[i].execution])
    BY DEF StoresInv, CompleteStaysAnswered
  <2>1. IsSo(r.runs[i], r.enqueue, executions, edits) /\ r.runs[i].answered
    BY DEF CallsInv, StillSo, CompleteRun
  <2> QED
    BY <2>1 DEF IsSo
<1> QED
  BY <1>1, StoresCorrect, PTL

\* What a publication is made of is what its author named: the artifact, the
\* assessment of that artifact, the execution, its plan and its run, whatever
\* names are mixed and whatever the stored rows were edited to.
THEOREM ResolvedIsNamedAlways == Spec => []ResolvedIsWhatWasNamed
<1>1. StoresInv => ResolvedIsWhatWasNamed
  <2> DEFINE artifacts == UNION {Range(executions[x].result[1].checkpoints) : x \in WithResult}
             assessments == UNION {executions[x].result[1].assessments : x \in WithResult}
  <2> SUFFICES ASSUME StoresInv, NEW e \in WithResult,
                      Verify(executions[e], plans) # None,
                      NEW artifact \in artifacts, NEW assessment \in assessments,
                      ResolvePublishable(Verify(executions[e], plans)[1], artifact.id, assessment.id) # None
               PROVE  LET found == ResolvePublishable(Verify(executions[e], plans)[1], artifact.id, assessment.id)[1] IN
                      /\ found.checkpoint.id = artifact.id /\ found.assessment.id = assessment.id
                      /\ found.assessment.artifact = artifact.id
                      /\ found.receipt.execution = e /\ found.plan = e[2]
                      /\ artifact.id[2] = <<"semantic-run.v1", e[2], e[3], e[4]>>
    BY DEF ResolvedIsWhatWasNamed
  <2> HIDE DEF artifacts, assessments
  <2> DEFINE row == executions[e]
             plan == row.request.plan
             input == row.request.input
             profiles == plans[plan].inputDigest.profiles
  <2>1. plan \in DOMAIN PlanOf /\ input.case \in Cases /\ row.request.execution = e
    BY DEF StoresInv, ExecutionsInv, WithResult
  <2>2. /\ Verify(row, plans)[1] = Run(plan, profiles, input)
        /\ BindRun(plan, input).execution = row.request.execution
    BY VerifiedIsRederived
  <2>3. /\ e = <<"execution.v1", plan, input.case, input.world, input.executor>>
        /\ BindRun(plan, input).run = <<"semantic-run.v1", plan, input.case, input.world>>
    BY <2>1, <2>2 DEF BindRun
  <2>4. e[2] = plan /\ BindRun(plan, input).run = <<"semantic-run.v1", e[2], e[3], e[4]>>
    BY <2>3
  <2> DEFINE found == ResolvePublishable(Run(plan, profiles, input), artifact.id, assessment.id)
  <2>5. found # None
    BY <2>2
  <2>6. /\ found[1].checkpoint.id = artifact.id /\ found[1].assessment.id = assessment.id
        /\ found[1].assessment.artifact = artifact.id
        /\ found[1].receipt.execution = BindRun(plan, input).execution
        /\ found[1].plan = plan
        /\ artifact.id[2] = BindRun(plan, input).run
    <3> HIDE DEF plan, input, profiles
    <3> QED
      BY <2>1, <2>5, ResolvedIsNamed
  <2>7. ResolvePublishable(Verify(row, plans)[1], artifact.id, assessment.id) = found
    BY <2>2
  <2> HIDE DEF found, plan, input
  <2> QED
    BY <2>1, <2>2, <2>4, <2>6, <2>7
<1> QED
  BY <1>1, StoresCorrect, PTL

-----------------------------------------------------------------------------
(* The assemblies.                                                         *)

LEMMA AssemblyInit == Init => AssemblyInv
BY DEF Init, AssemblyInv

\* What an assembly is about stays so while comparisons are only added and the
\* plans keep the input they were accepted with.
LEMMA AboutKept ==
  ASSUME NEW a, NEW questions, NEW more, NEW store, NEW later,
         IsAbout(a, questions, store), questions \subseteq more, DOMAIN store \subseteq DOMAIN later,
         \A id \in DOMAIN store : later[id].inputDigest = store[id].inputDigest
  PROVE  IsAbout(a, more, later)
<1>1. \A m \in a.missing : TrueReason(m, a.comparison.profile, later)
  <2> TAKE m \in a.missing
  <2>1. TrueReason(m, a.comparison.profile, store)
    BY DEF IsAbout
  <2> QED
    BY <2>1 DEF TrueReason
<1> QED
  BY <1>1 DEF IsAbout

\* No case is collected at first, and the next one is appended.
LEMMA CollectedNone ==
  ASSUME NEW comparison, NEW corpus, NEW side
  PROVE  Collected(comparison, corpus, side, 0) = <<>>
BY DEF Collected

\* One more case collected.
LEMMA CollectedOne ==
  ASSUME NEW comparison, NEW corpus, NEW side, NEW n \in Nat
  PROVE  Append(Collected(comparison, corpus, side, n),
                Contribution(PlanOfSide(comparison, side), InputOf(corpus.cases[n + 1]),
                             CheckpointOfSide(comparison, side), comparison.profile))
           = Collected(comparison, corpus, side, n + 1)
<1> DEFINE F(i) == Contribution(PlanOfSide(comparison, side), InputOf(corpus.cases[i]),
                                CheckpointOfSide(comparison, side), comparison.profile)
           S == {F(i) : i \in 1 .. n + 1}
           before == Collected(comparison, corpus, side, n)
           after == Collected(comparison, corpus, side, n + 1)
<1>1. before = [i \in 1 .. n |-> F(i)] /\ after = [i \in 1 .. n + 1 |-> F(i)]
  BY DEF Collected
<1> HIDE DEF F, before, after
<1>2. before \in Seq(S) /\ Len(before) = n
  <2>1. before \in [1 .. n -> S]
    BY <1>1
  <2> HIDE DEF S
  <2> QED
    BY <1>1, <2>1
<1>3. after \in Seq(S) /\ Len(after) = n + 1
  <2>1. after \in [1 .. n + 1 -> S]
    BY <1>1
  <2> HIDE DEF S
  <2> QED
    BY <1>1, <2>1
<1>4. F(n + 1) \in S
  OBVIOUS
<1> HIDE DEF S
<1>5. /\ Append(before, F(n + 1)) \in Seq(S) /\ Len(Append(before, F(n + 1))) = n + 1
      /\ \A i \in 1 .. n : Append(before, F(n + 1))[i] = before[i]
      /\ Append(before, F(n + 1))[n + 1] = F(n + 1)
  BY <1>2, <1>4, AppendProperties
<1>6. \A i \in 1 .. n + 1 : Append(before, F(n + 1))[i] = after[i]
  <2> TAKE i \in 1 .. n + 1
  <2>1. CASE i \in 1 .. n
    BY <1>1, <1>5, <2>1
  <2>2. CASE i = n + 1
    <3>1. after[i] = F(i)
      BY <1>1
    <3>2. F(i) = F(n + 1)
      BY <2>2
    <3> QED
      BY <1>5, <2>2, <3>1, <3>2
  <2>3. i \in 1 .. n \/ i = n + 1
    OBVIOUS
  <2> QED
    BY <2>1, <2>2, <2>3, Zenon
<1>7. Append(before, F(n + 1)) = after
  BY <1>3, <1>5, <1>6, SeqEqual
<1> QED
  BY <1>7 DEF before, after, F

\* The case an assembly is at, what it should contribute, and its absence.
ExpectedOf(a) ==
  Contribution(PlanOfSide(a.comparison, a.side), InputOf(a.corpus.cases[a.index]),
               CheckpointOfSide(a.comparison, a.side), a.comparison.profile)

AbsenceOf(a, reason, store) ==
  [execution |-> AssembledExecution(a), reason |-> reason,
   answered |-> AssembledExecution(a) \in DOMAIN store /\ Answered(store[AssembledExecution(a)])]

\* A case that contributes what it should, or is missing for a true reason,
\* takes the assembly one case further.
LEMMA CaseAssembledKept ==
  ASSUME AssemblyInv, assembly # Idle, NEW compared, CaseAssembled(compared),
         \/ compared = ExpectedOf(assembly)
         \/ /\ compared.reason # "none"
            /\ TrueReason(AbsenceOf(assembly, compared.reason, executions), assembly.comparison.profile, plans)
  PROVE  AssemblyInv'
<1> DEFINE old == assembly
           m == AbsenceOf(old, compared.reason, executions)
           len == Len(old.corpus.cases)
           contributes == compared.reason = "none"
           a == [old EXCEPT !.cases[old.side] = IF compared.reason = "none" THEN Append(@, compared) ELSE @,
                            !.missing = IF compared.reason = "none" THEN @ ELSE @ \cup {m},
                            !.at = "read", !.row = None]
           b == IF a.index = Len(a.corpus.cases) THEN [a EXCEPT !.side = 2, !.index = 1] ELSE [a EXCEPT !.index = @ + 1]
           done == [comparison |-> a.comparison, id |-> a.id, corpus |-> a.corpus, missing |-> a.missing,
                    evidence |-> IF a.missing = {} THEN a.cases ELSE <<<<>>, <<>>>>]
<1>1. IsAssembly(old, asked, plans) /\ UNCHANGED <<asked, plans>>
  BY CaseAssembledFrame DEF AssemblyInv
<1>2. IF a.index = Len(a.corpus.cases) /\ a.side = 2
      THEN assembly' = Idle /\ assemblies' = assemblies \cup {done}
      ELSE assembly' = b /\ assemblies' = assemblies
  BY Zenon DEF CaseAssembled, Assembling, AbsenceOf
<1>3. /\ DOMAIN a = AssemblyFields /\ a.at = "read"
      /\ a.comparison = old.comparison /\ a.id = old.id /\ a.corpus = old.corpus
      /\ a.side = old.side /\ a.index = old.index
      /\ a.missing = IF compared.reason = "none" THEN old.missing ELSE old.missing \cup {m}
      /\ a.cases = [old.cases EXCEPT ![old.side] = IF compared.reason = "none" THEN Append(@, compared) ELSE @]
  <2>1. DOMAIN old = AssemblyFields
    BY <1>1 DEF IsAssembly
  <2> HIDE DEF old, m
  <2> QED
    BY <2>1 DEF AssemblyFields
<1> HIDE DEF a
<1>4. /\ old.side \in 1 .. 2 /\ old.index \in 1 .. len /\ DOMAIN old.cases = 1 .. 2
      /\ len \in Nat /\ IsAbout(old, asked, plans)
      /\ old.missing = {} =>
           \A side \in 1 .. 2 : old.cases[side] = Collected(old.comparison, old.corpus, side, Past(old, side))
  <2>1. old.corpus.cases \in Seq(Cases)
    BY <1>1 DEF IsAssembly, IsAbout
  <2> QED
    BY <1>1, <2>1 DEF IsAssembly
<1> HIDE DEF old, m, len, b, done
<1>5. IsAbout(a, asked, plans)
  <2>1. \A x \in a.missing : x \in old.missing \/ (x = m /\ compared.reason # "none")
    BY <1>3
  <2>2. compared.reason # "none" => TrueReason(m, old.comparison.profile, plans)
    BY DEF old, m, ExpectedOf, Contribution
  <2> QED
    BY <1>3, <1>4, <2>1, <2>2 DEF IsAbout
<1>6. DOMAIN a.cases = 1 .. 2
  BY <1>3, <1>4
<1>7. ASSUME a.missing = {}, NEW side \in 1 .. 2
      PROVE  a.cases[side] = Collected(old.comparison, old.corpus, side,
                                       IF side = old.side THEN old.index ELSE Past(old, side))
  <2>1. compared.reason = "none" /\ old.missing = {}
    BY <1>3, <1>7
  <2>2. compared = ExpectedOf(old)
    BY <2>1 DEF old
  <2>3. CASE side # old.side
    <3>1. a.cases[side] = old.cases[side]
      BY <1>3, <1>4, <2>3
    <3> QED
      BY <1>4, <2>1, <2>3, <3>1
  <2>4. CASE side = old.side
    <3> DEFINE n == old.index - 1
    <3>1. n \in Nat /\ n + 1 = old.index /\ Past(old, side) = n
      BY <1>4, <2>4 DEF Past
    <3>2. old.cases[side] = Collected(old.comparison, old.corpus, side, n)
      BY <1>4, <2>1, <3>1
    <3>3. a.cases[side] = Append(old.cases[side], compared)
      BY <1>3, <1>4, <2>1, <2>4
    <3> HIDE DEF n
    <3>4. compared = Contribution(PlanOfSide(old.comparison, side), InputOf(old.corpus.cases[n + 1]),
                                  CheckpointOfSide(old.comparison, side), old.comparison.profile)
      BY <2>2, <2>4, <3>1 DEF ExpectedOf
    <3>5. a.cases[side] = Collected(old.comparison, old.corpus, side, n + 1)
      <4> DEFINE before == Collected(old.comparison, old.corpus, side, n)
                 expected == Contribution(PlanOfSide(old.comparison, side), InputOf(old.corpus.cases[n + 1]),
                                          CheckpointOfSide(old.comparison, side), old.comparison.profile)
      <4>1. Append(before, expected) = Collected(old.comparison, old.corpus, side, n + 1)
        BY <3>1, CollectedOne
      <4> HIDE DEF before, expected
      <4> QED
        BY <3>2, <3>3, <3>4, <4>1 DEF before, expected
    <3> QED
      BY <2>4, <3>1, <3>5
  <2> QED
    BY <2>3, <2>4
<1>8. CASE a.index = Len(a.corpus.cases) /\ a.side = 2
  <2>1. /\ done.comparison = a.comparison /\ done.id = a.id /\ done.corpus = a.corpus /\ done.missing = a.missing
        /\ a.missing = {} => done.evidence = a.cases
    BY DEF done
  <2>2. IsAbout(done, asked, plans)
    BY <1>5, <2>1 DEF IsAbout
  <2>3. old.index = len /\ old.side = 2
    BY <1>3, <1>8 DEF len
  <2>4. ASSUME a.missing = {}, NEW side \in 1 .. 2
        PROVE  done.evidence[side] = Collected(done.comparison, done.corpus, side, Len(done.corpus.cases))
    <3>1. (IF side = old.side THEN old.index ELSE Past(old, side)) = len
      BY <2>3 DEF Past, len
    <3> QED
      <4>1. a.cases[side] = Collected(old.comparison, old.corpus, side,
                                      IF side = old.side THEN old.index ELSE Past(old, side))
        BY <1>7, <2>4
      <4>2. a.cases[side] = Collected(old.comparison, old.corpus, side, len)
        BY <3>1, <4>1
      <4>3. done.evidence = a.cases /\ done.comparison = old.comparison /\ done.corpus = old.corpus
        BY <1>3, <2>1, <2>4
      <4> QED
        BY <4>2, <4>3 DEF len
  <2>5. IsAssembled(done, asked, plans)
    BY <2>1, <2>2, <2>4 DEF IsAssembled
  <2>6. assembly' = Idle /\ assemblies' = assemblies \cup {done}
    BY <1>2, <1>8
  <2> QED
    BY <1>1, <2>5, <2>6 DEF AssemblyInv
<1>9. CASE ~(a.index = Len(a.corpus.cases) /\ a.side = 2)
  <2>1. /\ DOMAIN b = AssemblyFields /\ b.at = "read"
        /\ b.comparison = a.comparison /\ b.id = a.id /\ b.corpus = a.corpus
        /\ b.missing = a.missing /\ b.cases = a.cases
        /\ old.index = len => b.side = 2 /\ b.index = 1
        /\ old.index # len => b.side = old.side /\ b.index = old.index + 1
    BY <1>3 DEF b, AssemblyFields, len
  <2>2. IsAbout(b, asked, plans)
    BY <1>5, <2>1 DEF IsAbout
  <2>3. b.side \in 1 .. 2 /\ b.index \in 1 .. len /\ (old.index = len => old.side = 1)
    BY <1>3, <1>4, <1>9, <2>1 DEF len
  <2>4. ASSUME NEW side \in 1 .. 2
        PROVE  Past(b, side) = IF side = old.side THEN old.index ELSE Past(old, side)
    <3>1. Len(b.corpus.cases) = len /\ Len(old.corpus.cases) = len
      BY <1>3, <2>1 DEF len
    <3>2. CASE old.index = len
      BY <1>4, <2>1, <2>3, <3>1, <3>2 DEF Past
    <3>3. CASE old.index # len
      BY <1>4, <2>1, <3>1, <3>3 DEF Past
    <3> QED
      BY <3>2, <3>3
  <2>5. b.missing = {} =>
          \A side \in 1 .. 2 : b.cases[side] = Collected(b.comparison, b.corpus, side, Past(b, side))
    BY <1>3, <1>7, <2>1, <2>4
  <2>6. IsAssembly(b, asked, plans)
    BY <1>3, <1>6, <2>1, <2>2, <2>3, <2>5 DEF IsAssembly, len
  <2>7. assembly' = b /\ assemblies' = assemblies
    BY <1>2, <1>9
  <2> QED
    BY <1>1, <2>6, <2>7 DEF AssemblyInv
<1> QED
  BY <1>8, <1>9

\* An assembly begins with a comparison that was asked for, its corpus and no case collected.
LEMMA AssemblyBegun ==
  ASSUME CorporaInv, ComparisonsInv, AssemblyInv, NEW id \in DOMAIN comparisons, BeginAssembly(id)
  PROVE  AssemblyInv'
<1> DEFINE comparison == RehydrateComparison(Tenant, id, comparisons[id], Readable(plans))
           corpus == ReadCorpus(corpora[comparison.corpus], comparison.corpus)
           a == [at |-> "read", comparison |-> comparison, id |-> id, corpus |-> corpus, side |-> 1, index |-> 1,
                 cases |-> <<<<>>, <<>>>>, missing |-> {}, row |-> None]
<1>1. /\ comparison # None /\ comparison.corpus \in DOMAIN corpora /\ corpus # None
      /\ assembly' = a /\ UNCHANGED assemblies
  BY Zenon DEF BeginAssembly, Assembling
<1>2. UNCHANGED <<asked, plans>>
  BY AssemblyFrame
<1>3. IsComparison(comparison) /\ ComparisonID(comparison) = id
  BY <1>1, RehydratedIsAsked
<1> HIDE DEF comparison
<1>4. comparison \in asked
  <2>1. PICK c \in asked : ComparisonID(c) = id /\ IsComparison(c)
    BY DEF ComparisonsInv
  <2> QED
    BY <1>3, <2>1, ComparisonIDIsInjective
<1>5. corpus.cases \in Seq(Cases) /\ VerifyCorpusIdentity(corpus.cases, comparison.corpus)
  <2>1. corpora[comparison.corpus].document \in Seq(Cases)
    BY <1>1 DEF CorporaInv
  <2> QED
    BY <1>1, <2>1, ReadCorpusKeeps
<1> HIDE DEF corpus
<1>6. 1 \in 1 .. Len(corpus.cases)
  BY <1>5, EmptySeq DEF VerifyCorpusIdentity
<1>7. /\ DOMAIN a = AssemblyFields /\ a.at = "read" /\ a.comparison = comparison /\ a.id = id
      /\ a.corpus = corpus /\ a.side = 1 /\ a.index = 1 /\ a.cases = <<<<>>, <<>>>> /\ a.missing = {}
  BY DEF AssemblyFields
<1> HIDE DEF a
<1>8. IsAbout(a, asked, plans)
  BY <1>3, <1>4, <1>5, <1>7 DEF IsAbout
<1>9. \A side \in 1 .. 2 : a.cases[side] = Collected(a.comparison, a.corpus, side, Past(a, side))
  <2> TAKE side \in 1 .. 2
  <2>1. Past(a, side) = 0 /\ a.cases[side] = <<>>
    BY <1>7 DEF Past
  <2> QED
    BY <2>1, CollectedNone
<1>10. IsAssembly(a, asked, plans)
  BY <1>6, <1>7, <1>8, <1>9 DEF IsAssembly
<1> QED
  BY <1>1, <1>2, <1>10 DEF AssemblyInv

\* Which side of a comparison an assembly is at, as the kernel knows it.
LEMMA SideIsDeclared ==
  ASSUME ComparisonsInv, NEW a, IsAssembly(a, asked, plans)
  PROVE  /\ PlanOfSide(a.comparison, a.side) \in DOMAIN PlanOf
         /\ a.corpus.cases[a.index] \in Cases
         /\ InputOf(a.corpus.cases[a.index]).case = a.corpus.cases[a.index]
         /\ CheckpointOfSide(a.comparison, a.side) \in DeclaredIdentities(PlanOfSide(a.comparison, a.side))
         /\ AssembledExecution(a)[2] = PlanOfSide(a.comparison, a.side)
         /\ AssembledExecution(a)[3] = a.corpus.cases[a.index]
<1>1. a.comparison \in asked /\ a.corpus.cases \in Seq(Cases) /\ a.index \in 1 .. Len(a.corpus.cases)
  BY DEF IsAssembly, IsAbout
<1>2. /\ PlanOfSide(a.comparison, a.side) \in DOMAIN PlanOf
      /\ CheckpointOfSide(a.comparison, a.side) \in DeclaredIdentities(PlanOfSide(a.comparison, a.side))
  BY <1>1 DEF ComparisonsInv, PlanOfSide, CheckpointOfSide
<1>3. a.corpus.cases[a.index] \in Cases
  BY <1>1
<1> QED
  BY <1>2, <1>3 DEF AssembledExecution, BindRun, InputOf

\* A case is left out before it is verified only where it has no answer.
LEMMA StoredRead ==
  ASSUME AssemblyInv, ExecutionsInv, ReadStored
  PROVE  AssemblyInv'
<1> DEFINE e == AssembledExecution(assembly)
           lifecycle == ClassifyLifecycle(executions[e])
<1>1. assembly.at = "read"
  BY DEF ReadStored
<1>2. assembly # Idle /\ IsAssembly(assembly, asked, plans)
  BY <1>1 DEF AssemblyInv, Idle
<1>3. UNCHANGED <<asked, plans>>
  BY AssemblyFrame DEF AssemblyStep
<1>4. ASSUME NEW reason \in {"not_executed", "not_answered", "unattempted"},
             CaseAssembled([reason |-> reason]),
             ~(e \in DOMAIN executions /\ Answered(executions[e]))
      PROVE  AssemblyInv'
  <2> DEFINE compared == [reason |-> reason]
             m == AbsenceOf(assembly, reason, executions)
  <2>1. compared.reason = reason
    OBVIOUS
  <2>2. m.reason = reason /\ ~m.answered
    BY <1>4 DEF AbsenceOf
  <2> HIDE DEF compared, m
  <2>3. TrueReason(m, assembly.comparison.profile, plans)
    BY <2>2 DEF TrueReason
  <2>4. CaseAssembled(compared) /\ compared.reason # "none"
    BY <1>4, <2>1 DEF compared
  <2>5. TrueReason(AbsenceOf(assembly, compared.reason, executions), assembly.comparison.profile, plans)
    BY <2>1, <2>3 DEF m
  <2> QED
    BY <1>2, <2>4, <2>5, CaseAssembledKept
<1>5. CASE e \notin DOMAIN executions
  <2>1. CaseAssembled([reason |-> "not_executed"])
    BY <1>5 DEF ReadStored
  <2> QED
    BY <1>4, <1>5, <2>1
<1>6. CASE e \in DOMAIN executions
  <2>1. lifecycle \in {"pending", "unattempted", "verify", "integrity"}
    BY DEF ClassifyLifecycle
  <2>2. lifecycle \in {"pending", "unattempted"} => ~Answered(executions[e])
    BY DEF ClassifyLifecycle, Answered
  <2>3. /\ lifecycle = "pending" => CaseAssembled([reason |-> "not_answered"])
        /\ lifecycle = "unattempted" => CaseAssembled([reason |-> "unattempted"])
        /\ lifecycle = "verify" => /\ Assembling([assembly EXCEPT !.at = "verify", !.row = <<executions[e]>>])
                                   /\ UNCHANGED assemblies
        /\ lifecycle = "integrity" => Assembling(Idle) /\ UNCHANGED assemblies
    <3> HIDE DEF lifecycle
    <3> QED
      BY <1>6 DEF ReadStored, lifecycle
  <2> HIDE DEF lifecycle
  <2>4. CASE lifecycle = "pending" \/ lifecycle = "unattempted"
    BY <1>4, <2>2, <2>3, <2>4
  <2>5. CASE lifecycle = "integrity"
    BY <1>3, <2>3, <2>5 DEF Assembling, AssemblyInv
  <2>6. CASE lifecycle = "verify"
    <3> DEFINE a == [assembly EXCEPT !.at = "verify", !.row = <<executions[e]>>]
    <3>1. assembly' = a /\ UNCHANGED assemblies
      BY <2>3, <2>6 DEF Assembling
    <3>2. DOMAIN assembly = AssemblyFields
      BY <1>2 DEF IsAssembly
    <3> HIDE DEF e
    <3>3. /\ DOMAIN a = AssemblyFields /\ a.at = "verify" /\ a.row[1] = executions[e]
          /\ a.comparison = assembly.comparison /\ a.id = assembly.id /\ a.corpus = assembly.corpus
          /\ a.side = assembly.side /\ a.index = assembly.index
          /\ a.cases = assembly.cases /\ a.missing = assembly.missing
      BY <3>2 DEF AssemblyFields
    <3> HIDE DEF a
    <3>4. a.row[1].request.execution = AssembledExecution(a)
      BY <1>6, <3>3 DEF ExecutionsInv, AssembledExecution, e
    <3>5. IsAbout(a, asked, plans)
      BY <1>2, <3>3 DEF IsAssembly, IsAbout
    <3>6. \A side : Past(a, side) = Past(assembly, side)
      BY <3>3 DEF Past
    <3>7. IsAssembly(a, asked, plans)
      BY <1>2, <3>3, <3>4, <3>5, <3>6 DEF IsAssembly
    <3> QED
      BY <1>3, <3>1, <3>7 DEF AssemblyInv
  <2> QED
    BY <2>1, <2>4, <2>5, <2>6
<1> QED
  BY <1>5, <1>6

\* A row that verifies under the identity the assembly asked for is the run of
\* that case under that side's plan, whatever the row says.
LEMMA VerifiedCase ==
  ASSUME ComparisonsInv, NEW a, IsAssembly(a, asked, plans), a.at = "verify", Verify(a.row[1], plans) # None
  PROVE  LET compared == CompareCase(Verify(a.row[1], plans)[1], CheckpointOfSide(a.comparison, a.side), a.comparison.profile)
         IN  \/ compared = ExpectedOf(a)
             \/ /\ compared.reason # "none"
                /\ TrueReason(AbsenceOf(a, compared.reason, executions), a.comparison.profile, plans)
<1> DEFINE row == a.row[1]
           plan == PlanOfSide(a.comparison, a.side)
           case == a.corpus.cases[a.index]
           checkpoint == CheckpointOfSide(a.comparison, a.side)
           profile == a.comparison.profile
           rowPlan == row.request.plan
           rowInput == row.request.input
           profiles == plans[rowPlan].inputDigest.profiles
           compared == CompareCase(Verify(row, plans)[1], checkpoint, profile)
<1>1. /\ plan \in DOMAIN PlanOf /\ case \in Cases /\ InputOf(case).case = case
      /\ checkpoint \in DeclaredIdentities(plan)
      /\ AssembledExecution(a)[2] = plan /\ AssembledExecution(a)[3] = case
  BY SideIsDeclared
<1>2. /\ rowPlan \in DOMAIN plans
      /\ Verify(row, plans)[1] = Run(rowPlan, profiles, rowInput)
      /\ BindRun(rowPlan, rowInput).execution = row.request.execution
  BY VerifiedIsRederived
<1>3. BindRun(rowPlan, rowInput).execution = BindRun(plan, InputOf(case)).execution
  BY <1>2 DEF IsAssembly, AssembledExecution
<1>4. /\ rowPlan = plan /\ rowInput.case = case
      /\ BindRun(rowPlan, rowInput).run = BindRun(plan, InputOf(case)).run
  <2> HIDE DEF rowPlan, rowInput, plan, case
  <2>1. /\ rowPlan = plan /\ rowInput.case = InputOf(case).case
        /\ BindRun(rowPlan, rowInput).run = BindRun(plan, InputOf(case)).run
    BY <1>3, ExecutionIsInjective
  <2> QED
    BY <1>1, <2>1
<1>5. compared = CompareCase(Run(rowPlan, profiles, rowInput), checkpoint, profile)
  BY <1>2
<1> HIDE DEF row, plan, case, checkpoint, profile, rowPlan, rowInput, compared
<1>6. \/ compared = Contribution(rowPlan, rowInput, checkpoint, profile)
      \/ /\ compared.reason = "checkpoint_not_sealed"
         /\ \A i \in 1 .. Answer[rowPlan][rowInput.case].sealed :
              CheckpointID(rowPlan, PlanOf[rowPlan].checkpoints[i]) # checkpoint
      \/ compared.reason = "not_assessed" /\ profile \notin profiles
  <2>1. rowPlan \in DOMAIN PlanOf /\ rowInput.case \in Cases
    BY <1>1, <1>4
  <2> HIDE DEF profiles
  <2> QED
    BY <1>5, <2>1, CompareCaseIsTrue
<1>7. CASE compared = Contribution(rowPlan, rowInput, checkpoint, profile)
  <2>1. Contribution(rowPlan, rowInput, checkpoint, profile) = Contribution(plan, InputOf(case), checkpoint, profile)
    BY <1>4 DEF Contribution, ArtifactOf
  <2>2. compared = ExpectedOf(a)
    BY <1>7, <2>1 DEF ExpectedOf, plan, case, checkpoint, profile
  <2> QED
    BY <2>2 DEF compared, row, checkpoint, profile
<1>8. ASSUME NEW reason, compared.reason = reason, reason # "none", TrueReason(AbsenceOf(a, reason, executions), profile, plans)
      PROVE  /\ compared.reason # "none"
             /\ TrueReason(AbsenceOf(a, compared.reason, executions), profile, plans)
  BY <1>8
<1>9. CASE /\ compared.reason = "checkpoint_not_sealed"
           /\ \A i \in 1 .. Answer[rowPlan][rowInput.case].sealed :
                CheckpointID(rowPlan, PlanOf[rowPlan].checkpoints[i]) # checkpoint
  <2> DEFINE m == AbsenceOf(a, "checkpoint_not_sealed", executions)
  <2>1. m.reason = "checkpoint_not_sealed" /\ m.execution[2] = plan /\ m.execution[3] = case
    BY <1>1 DEF AbsenceOf
  <2>2. PICK j \in DOMAIN PlanOf[plan].checkpoints : checkpoint = CheckpointID(plan, PlanOf[plan].checkpoints[j])
    BY <1>1 DEF DeclaredIdentities, Range
  <2>3. /\ PlanOf[plan].checkpoints \in Seq(Nat)
        /\ Answer[plan][case].sealed \in 0 .. Len(PlanOf[plan].checkpoints)
    BY <1>1, ComparisonsAssumption, AnswerAssumption
  <2>4. j \notin 1 .. Answer[plan][case].sealed
    BY <1>4, <1>9, <2>2
  <2>5. Answer[plan][case].sealed < Len(PlanOf[plan].checkpoints)
    BY <2>2, <2>3, <2>4
  <2> HIDE DEF m
  <2>6. TrueReason(m, profile, plans)
    BY <2>1, <2>5 DEF TrueReason
  <2> QED
    BY <1>8, <1>9, <2>6 DEF m, compared, row, checkpoint, profile
<1>10. CASE compared.reason = "not_assessed" /\ profile \notin profiles
  <2> DEFINE m == AbsenceOf(a, "not_assessed", executions)
  <2>1. m.reason = "not_assessed" /\ m.execution[2] = plan
    BY <1>1 DEF AbsenceOf
  <2> HIDE DEF m
  <2>2. TrueReason(m, profile, plans)
    BY <1>2, <1>4, <1>10, <2>1 DEF TrueReason, profiles
  <2> QED
    BY <1>8, <1>10, <2>2 DEF m, compared, row, checkpoint, profile
<1> QED
  BY <1>6, <1>7, <1>9, <1>10

\* The row that was read earlier is verified against the plans of now: what it contributes, or why
\* nothing, is true of the case.
LEMMA StoredVerified ==
  ASSUME ComparisonsInv, AssemblyInv, VerifyStored
  PROVE  AssemblyInv'
<1>1. assembly.at = "verify"
  BY DEF VerifyStored
<1>2. assembly # Idle /\ IsAssembly(assembly, asked, plans)
  BY <1>1 DEF AssemblyInv, Idle
<1>3. UNCHANGED <<asked, plans>>
  BY AssemblyFrame DEF AssemblyStep
<1> DEFINE verified == Verify(assembly.row[1], plans)
<1>4. CASE verified = None
  <2>1. Assembling(Idle) /\ UNCHANGED assemblies
    BY <1>4 DEF VerifyStored
  <2> QED
    BY <1>3, <2>1 DEF Assembling, AssemblyInv
<1>5. CASE verified # None
  <2> DEFINE compared == CompareCase(verified[1], CheckpointOfSide(assembly.comparison, assembly.side), assembly.comparison.profile)
  <2>1. CaseAssembled(compared)
    BY <1>5 DEF VerifyStored
  <2>2. \/ compared = ExpectedOf(assembly)
        \/ /\ compared.reason # "none"
           /\ TrueReason(AbsenceOf(assembly, compared.reason, executions), assembly.comparison.profile, plans)
    BY <1>1, <1>2, <1>5, VerifiedCase
  <2> HIDE DEF compared
  <2> QED
    BY <1>2, <2>1, <2>2, CaseAssembledKept
<1> QED
  BY <1>4, <1>5

\* Every step keeps the assembly under way and those that ended.
LEMMA AssemblyKept ==
  ASSUME StoresInv, AssemblyInv, [Next]_vars
  PROVE  AssemblyInv'
<1>1. CASE UNCHANGED <<assembly, assemblies>>
  <2>1. /\ asked \subseteq asked' /\ DOMAIN plans \subseteq DOMAIN plans'
        /\ \A id \in DOMAIN plans : plans'[id].inputDigest = plans[id].inputDigest
    BY PlansGrow, ComparisonsKept DEF StoresInv
  <2>2. \A a : IsAbout(a, asked, plans) => IsAbout(a, asked', plans')
    BY <2>1, AboutKept
  <2> QED
    BY <1>1, <2>2 DEF AssemblyInv, IsAssembly, IsAssembled
<1>2. CASE \E id \in DOMAIN comparisons : BeginAssembly(id)
  BY <1>2, AssemblyBegun DEF StoresInv
<1>3. CASE ReadStored
  BY <1>3, StoredRead DEF StoresInv
<1>4. CASE VerifyStored
  BY <1>4, StoredVerified DEF StoresInv
<1>5. CASE AbandonAssembly
  <2>1. UNCHANGED <<asked, plans>>
    BY <1>5, AssemblyFrame DEF AssemblyStep
  <2> QED
    BY <1>5, <2>1 DEF AbandonAssembly, Assembling, AssemblyInv
<1>6. CASE \/ \E d \in Declarations : CreatePlan(d)
           \/ \E cases \in CorpusRequests : CreateCorpus(cases)
           \/ \E q \in Questions : CreateComparison(q)
  BY <1>1, <1>6 DEF CreatePlan, CreateCorpus, CreateComparison
<1>7. CASE Submission
  BY <1>1, <1>7 DEF Submission, Submit
<1>8. CASE \E e \in DOMAIN executions : Work(e)
  BY <1>1, <1>8, WorkFrame
<1>9. CASE Starting
  BY <1>1, <1>9, StartFrame
<1>10. CASE \E c \in Callers : CallStep(c)
  BY <1>1, <1>10, CallFrame
<1>11. CASE PlanEdit \/ ExecutionEdit \/ ComparisonEdit \/ CorpusEdit
  BY <1>1, <1>11, EditFrame
<1>12. CASE UNCHANGED vars
  BY <1>1, <1>12 DEF vars
<1> QED
  BY <1>2, <1>3, <1>4, <1>5, <1>6, <1>7, <1>8, <1>9, <1>10, <1>11, <1>12, Steps DEF AssemblyStep

\* An assembly is about the comparison it was asked for and the corpus its
\* author sent; with no case missing its evidence is, case by case and on both
\* sides, what the kernel derives; and a case is missing for a true reason.
\* This holds for any corpora, plans and callers, and whatever the stored rows
\* were edited to before and while it was assembled.
THEOREM AssembledIsTheComparisonAlways == Spec => []AssembledIsTheComparison
<1>1. Spec => []EvidenceInv
  <2>1. StoresInv /\ AssemblyInv /\ [Next]_vars => AssemblyInv'
    BY AssemblyKept
  <2>2. Spec => []AssemblyInv
    BY <2>1, AssemblyInit, StoresCorrect, PTL DEF Spec
  <2> QED
    BY <2>2, StoresCorrect, PTL DEF EvidenceInv
<1>2. EvidenceInv => CorporaAreTheirCases
  BY DEF EvidenceInv, StoresInv, CorporaInv
<1>3. EvidenceInv => ComparisonsAreAuthentic
  BY DEF EvidenceInv, AssemblyInv, IsAssembly, IsAssembled, IsAbout, ComparisonsAreAuthentic
<1>4. EvidenceInv => EvidenceIsTheCorpus
  <2> SUFFICES ASSUME EvidenceInv, NEW a \in assemblies, a.missing = {}, NEW side \in 1 .. 2
               PROVE  LET derived(i) == ArtifactOf(PlanOfSide(a.comparison, side), InputOf(a.corpus.cases[i]),
                                                   CheckpointOfSide(a.comparison, side)[3])
                      IN  /\ VerifyCorpusIdentity(a.corpus.cases, a.comparison.corpus)
                          /\ Len(a.evidence[side]) = Len(a.corpus.cases)
                          /\ \A i \in DOMAIN a.evidence[side] :
                               /\ a.evidence[side][i].checkpoint = derived(i)
                               /\ a.evidence[side][i].assessment = AssessmentOf(derived(i), a.comparison.profile)
    BY DEF EvidenceIsTheCorpus
  <2> DEFINE n == Len(a.corpus.cases)
             Derived(i) == ArtifactOf(PlanOfSide(a.comparison, side), InputOf(a.corpus.cases[i]),
                                      CheckpointOfSide(a.comparison, side)[3])
             F(i) == [reason |-> "none", checkpoint |-> Derived(i),
                      assessment |-> AssessmentOf(Derived(i), a.comparison.profile)]
  <2>1. /\ VerifyCorpusIdentity(a.corpus.cases, a.comparison.corpus)
        /\ a.corpus.cases \in Seq(Cases)
        /\ a.evidence[side] = Collected(a.comparison, a.corpus, side, n)
    BY DEF EvidenceInv, AssemblyInv, IsAssembled, IsAbout
  <2>2. a.evidence[side] = [i \in 1 .. n |-> F(i)]
    BY <2>1 DEF Collected, Contribution
  <2>3. n \in Nat
    BY <2>1
  <2>4. \A i \in 1 .. n : /\ a.evidence[side][i].checkpoint = Derived(i)
                          /\ a.evidence[side][i].assessment = AssessmentOf(Derived(i), a.comparison.profile)
    BY <2>2
  <2>5. Len(a.evidence[side]) = n /\ DOMAIN a.evidence[side] = 1 .. n
    <3> HIDE DEF F, n
    <3> QED
      BY <2>2, <2>3
  <2> HIDE DEF Derived
  <2> QED
    BY <2>1, <2>4, <2>5 DEF Derived
<1>5. EvidenceInv => MissingCasesAreMissing
  <2> SUFFICES ASSUME EvidenceInv, NEW a \in assemblies, NEW m \in a.missing
               PROVE  IsMissing(m, a.comparison.profile)
    BY DEF MissingCasesAreMissing
  <2>1. TrueReason(m, a.comparison.profile, plans)
    BY DEF EvidenceInv, AssemblyInv, IsAssembled, IsAbout
  <2> QED
    BY <2>1 DEF TrueReason, IsMissing
<1>6. EvidenceInv => AssembledIsTheComparison
  BY <1>2, <1>3, <1>4, <1>5 DEF AssembledIsTheComparison
<1> QED
  BY <1>1, <1>6, PTL
=============================================================================
