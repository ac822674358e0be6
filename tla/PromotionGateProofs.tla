------------------------ MODULE PromotionGateProofs ------------------------
(***************************************************************************)
(* What the gate's authorization means, for every policy and every         *)
(* candidate: the nine clauses agree on one checkpoint and one comparison. *)
(***************************************************************************)
EXTENDS PromotionGate, FiniteSetTheorems, WellFoundedInduction, TLAPS

\* A decision that authorizes was made under an established policy and has
\* passed each clause.
LEMMA EveryClausePassed ==
  ASSUME NEW q, NEW c, Authorized(Decide(q, c))
  PROVE  /\ StaticValidation(c) = "pass"
         /\ ReadyAssessment(q, c) = "pass"
         /\ ComparisonCorpus(q, c) = "pass"
         /\ NoMetricRegression(q, c) = "pass"
         /\ DigestConsistency(c) = "pass"
         /\ CertifiedBackend(c) = "pass"
<1>1. Established(q)
  BY DEF Authorized, Decide, Clause
<1>2. \A k \in Clause : Verdicts(q, c)[k] = "pass"
  BY <1>1 DEF Authorized, Decide
<1> QED
  BY <1>2 DEF Verdicts, Clause

\* The clauses over the candidate alone tie its parts to one checkpoint.
LEMMA ClausesTieTheCandidate ==
  ASSUME NEW q, NEW c,
         StaticValidation(c) = "pass", ReadyAssessment(q, c) = "pass",
         DigestConsistency(c) = "pass", CertifiedBackend(c) = "pass"
  PROVE  /\ c.plan = c.checkpoint.plan
         /\ c.witness = c.checkpoint.witness
         /\ c.assessment.of = c.checkpoint
         /\ c.assessment.profile = q.profile
         /\ c.assessment.verdict = "ready"
         /\ c.execution = ExecutionID(c.checkpoint, c.executor)
         /\ c.executor \in Certified
<1>1. c.plan = c.checkpoint.plan
  BY DEF StaticValidation
<1>2. c.witness = c.checkpoint.witness
  BY DEF DigestConsistency, WitnessVerifies
<1>3. /\ c.assessment.of = c.checkpoint
      /\ c.assessment.profile = q.profile
      /\ c.assessment.verdict = "ready"
  BY DEF ReadyAssessment
<1>4. /\ c.execution = ExecutionID(c.checkpoint, c.executor)
      /\ c.executor \in Certified
  BY DEF CertifiedBackend
<1> QED
  BY <1>1, <1>2, <1>3, <1>4

\* A side that covers the corpus has one case per corpus digest, in order, and
\* every one of them answers the question.
LEMMA CoveringSide ==
  ASSUME NEW cases, NEW id, NEW question,
         SideCovers(cases, id, question) = "pass"
  PROVE  /\ cases # << >>
         /\ [i \in DOMAIN cases |-> cases[i].checkpoint.initial] = question.corpus
         /\ \A i \in DOMAIN cases : CaseAnswers(cases[i], id, question) = "pass"
<1> DEFINE Check(k) == CaseAnswers(k, id, question)
<1>1. FirstRefusal(cases, Check) = "pass" => \A i \in DOMAIN cases : Check(cases[i]) = "pass"
  BY DEF FirstRefusal
<1>2. FirstRefusal(cases, Check) = "pass"
  BY DEF SideCovers
<1>3. cases # << >> /\ VerifyCorpus(cases, question.corpus)
  BY DEF SideCovers
<1> QED
  BY <1>1, <1>2, <1>3 DEF VerifyCorpus

\* What an answering case is.
LEMMA AnsweringCase ==
  ASSUME NEW k, NEW id, NEW question, CaseAnswers(k, id, question) = "pass"
  PROVE  /\ CheckpointID(k.checkpoint) = id
         /\ k.checkpoint.world = question.world
         /\ k.assessment.of = k.checkpoint
         /\ k.assessment.profile = question.profile
BY DEF CaseAnswers

\* A candidate case that keeps its readiness is compared with a baseline case
\* that started from the same state.
LEMMA KeptReadiness ==
  ASSUME NEW k, NEW baseline, NEW f, CaseKeepsReadiness(k, baseline, f) = "pass"
  PROVE  \E j \in DOMAIN baseline :
           /\ baseline[j].checkpoint.initial = k.checkpoint.initial
           /\ baseline[j].assessment.verdict = "ready" => k.assessment.verdict = "ready"
BY DEF CaseKeepsReadiness, Indexed, Ready

\* The metric clause compared every candidate case.
LEMMA EveryCaseCompared ==
  ASSUME NEW q, NEW c, NoMetricRegression(q, c) = "pass"
  PROVE  \A i \in DOMAIN c.comparison.candidate :
           CaseKeepsReadiness(c.comparison.candidate[i], c.comparison.baseline,
                              q.profile) = "pass"
<1> DEFINE Keeps(x) == CaseKeepsReadiness(x, c.comparison.baseline, q.profile)
<1>1. FirstRefusal(c.comparison.candidate, Keeps) = "pass" =>
        \A i \in DOMAIN c.comparison.candidate : Keeps(c.comparison.candidate[i]) = "pass"
  BY DEF FirstRefusal
<1>2. FirstRefusal(c.comparison.candidate, Keeps) = "pass"
  BY DEF NoMetricRegression
<1> QED
  BY <1>1, <1>2

\* The comparison clause found both sides covering the corpus, for the profile
\* the target requires and the checkpoint declaration being promoted.
LEMMA BothSidesCover ==
  ASSUME NEW q, NEW c, ComparisonCorpus(q, c) = "pass"
  PROVE  LET e == c.comparison IN
         /\ e.question.profile = q.profile
         /\ e.question.candidate = CheckpointID(c.checkpoint)
         /\ SideCovers(e.baseline, e.question.baseline, e.question) = "pass"
         /\ SideCovers(e.candidate, e.question.candidate, e.question) = "pass"
BY DEF ComparisonCorpus, Comparable

\* The comparison of a corpus without duplicates is case by case.
LEMMA ClausesTieTheComparison ==
  ASSUME NEW q, NEW c,
         ComparisonCorpus(q, c) = "pass", NoMetricRegression(q, c) = "pass",
         c.comparison.question.corpus \in Corpora
  PROVE  OneComparison(q, c)
<1> DEFINE e == c.comparison
           b == e.baseline
           k == e.candidate
           s == e.question.corpus
<1>1. /\ e.question.profile = q.profile
      /\ e.question.candidate = CheckpointID(c.checkpoint)
  BY BothSidesCover
<1>2. /\ b # << >>
      /\ [i \in DOMAIN b |-> b[i].checkpoint.initial] = s
      /\ \A i \in DOMAIN b : CaseAnswers(b[i], e.question.baseline, e.question) = "pass"
  BY BothSidesCover, CoveringSide
<1>3. /\ [i \in DOMAIN k |-> k[i].checkpoint.initial] = s
      /\ \A i \in DOMAIN k : CaseAnswers(k[i], e.question.candidate, e.question) = "pass"
  BY BothSidesCover, CoveringSide
<1>4. \A i \in DOMAIN k : CaseKeepsReadiness(k[i], b, q.profile) = "pass"
  BY EveryCaseCompared
<1>5. \A i, j \in DOMAIN s : s[i] = s[j] => i = j
  BY GateAssumption
<1> HIDE DEF b, k, s
<1>6. DOMAIN b = DOMAIN s /\ \A i \in DOMAIN b : b[i].checkpoint.initial = s[i]
  BY <1>2
<1>7. DOMAIN k = DOMAIN s /\ \A i \in DOMAIN k : k[i].checkpoint.initial = s[i]
  BY <1>3
<1>8. ASSUME NEW i \in DOMAIN b, b[i].assessment.verdict = "ready"
      PROVE  k[i].assessment.verdict = "ready"
  <2>1. PICK j \in DOMAIN b :
          /\ b[j].checkpoint.initial = k[i].checkpoint.initial
          /\ b[j].assessment.verdict = "ready" => k[i].assessment.verdict = "ready"
    BY <1>4, <1>6, <1>7, <1>8, KeptReadiness
  <2>2. i = j
    BY <2>1, <1>5, <1>6, <1>7, <1>8
  <2> QED
    BY <2>1, <2>2, <1>8
<1>9. ASSUME NEW i \in DOMAIN b
      PROVE  /\ b[i].checkpoint.world = e.question.world
             /\ b[i].assessment.of = b[i].checkpoint
             /\ b[i].assessment.profile = e.question.profile
             /\ CheckpointID(k[i].checkpoint) = e.question.candidate
             /\ k[i].checkpoint.world = e.question.world
             /\ k[i].assessment.of = k[i].checkpoint
             /\ k[i].assessment.profile = e.question.profile
  BY <1>2, <1>3, <1>6, <1>7, <1>9, AnsweringCase
<1>10. /\ b # << >> /\ DOMAIN b = DOMAIN k
       /\ \A i \in DOMAIN b :
            /\ b[i].checkpoint.initial = k[i].checkpoint.initial
            /\ b[i].checkpoint.world = k[i].checkpoint.world
            /\ CheckpointID(k[i].checkpoint) = CheckpointID(c.checkpoint)
            /\ b[i].assessment.of = b[i].checkpoint
            /\ k[i].assessment.of = k[i].checkpoint
            /\ b[i].assessment.profile = q.profile
            /\ k[i].assessment.profile = q.profile
            /\ b[i].assessment.verdict = "ready" => k[i].assessment.verdict = "ready"
  BY <1>1, <1>2, <1>6, <1>7, <1>8, <1>9
<1> QED
  BY <1>10 DEF OneComparison, b, k

\* The gate's authorization, for every policy and every candidate whose
\* comparison names a corpus: one checkpoint, and one comparison of it.
THEOREM AuthorizedMeansOneStory ==
  ASSUME NEW q, NEW c, Authorized(Decide(q, c)),
         c.comparison.question.corpus \in Corpora
  PROVE  OneCheckpoint(q, c) /\ OneComparison(q, c)
<1>1. OneCheckpoint(q, c)
  BY EveryClausePassed, ClausesTieTheCandidate DEF OneCheckpoint
<1>2. OneComparison(q, c)
  BY EveryClausePassed, ClausesTieTheComparison
<1> QED
  BY <1>1, <1>2

-----------------------------------------------------------------------------
(* The decisions of the gate's own runs.                                   *)

\* A question, evidence and a candidate have their fields, and a question names
\* a corpus.
IsQuestion(r) ==
  \E b, k, f, w : \E s \in Corpora : r = Question(b, k, f, w, s)

Evidence(r, b, k) == [question |-> r, baseline |-> b, candidate |-> k]

IsEvidence(e) ==
  \E r, b, k : e = Evidence(r, b, k) /\ (r # None => IsQuestion(r))

Evidenced(a, p, m, i, e, x, d) ==
  [checkpoint |-> a, plan |-> p, assessment |-> m, witness |-> i,
   execution |-> e, executor |-> x, comparison |-> d]

IsCandidate(c) ==
  \E a, p, m, i, e, x, d :
    c = Evidenced(a, p, m, i, e, x, d) /\ (d # None => IsEvidence(d))

\* A question with one field changed is still one about a corpus.
LEMMA QuestionVaries ==
  ASSUME NEW r, IsQuestion(r), NEW t \in VaryQuestion(r)
  PROVE  IsQuestion(t)
<1>1. PICK b, k, f, w : \E s \in Corpora : r = Question(b, k, f, w, s)
  BY DEF IsQuestion
<1>2. PICK s \in Corpora : r = Question(b, k, f, w, s)
  BY <1>1
<1>3. CASE t \in Vary(r, "baseline", Plan)
  BY <1>2, <1>3 DEF Vary, Question, IsQuestion
<1>4. CASE t \in Vary(r, "candidate", Plan)
  BY <1>2, <1>4 DEF Vary, Question, IsQuestion
<1>5. CASE t \in Vary(r, "profile", Profile)
  BY <1>2, <1>5 DEF Vary, Question, IsQuestion
<1>6. CASE t \in Vary(r, "world", World)
  BY <1>2, <1>6 DEF Vary, Question, IsQuestion
<1>7. CASE t \in Vary(r, "corpus", Corpora)
  BY <1>2, <1>7 DEF Vary, Question, IsQuestion
<1> QED
  BY <1>3, <1>4, <1>5, <1>6, <1>7 DEF VaryQuestion

\* Evidence keeps its shape when one side of it changes.
LEMMA EvidenceVaries ==
  ASSUME NEW e, IsEvidence(e), NEW part \in {"baseline", "candidate"}, NEW v
  PROVE  IsEvidence([e EXCEPT ![part] = v])
<1>1. PICK r, b, k : e = Evidence(r, b, k) /\ (r # None => IsQuestion(r))
  BY DEF IsEvidence
<1>2. [e EXCEPT !["baseline"] = v] = Evidence(r, v, k)
  BY <1>1 DEF Evidence
<1>3. [e EXCEPT !["candidate"] = v] = Evidence(r, b, v)
  BY <1>1 DEF Evidence
<1>4. CASE part = "baseline"
  BY <1>1, <1>2, <1>4, Zenon DEF IsEvidence
<1>5. CASE part = "candidate"
  BY <1>1, <1>3, <1>5, Zenon DEF IsEvidence
<1> QED
  BY <1>4, <1>5

\* ... and when it is for another question, or for none.
LEMMA EvidenceReasks ==
  ASSUME NEW e, IsEvidence(e), NEW v, v # None => IsQuestion(v)
  PROVE  IsEvidence([e EXCEPT !.question = v])
<1>1. PICK r, b, k : e = Evidence(r, b, k)
  BY DEF IsEvidence
<1>2. [e EXCEPT !.question = v] = Evidence(v, b, k)
  BY <1>1 DEF Evidence
<1> QED
  BY <1>2 DEF IsEvidence

\* A candidate is any seven parts whose comparison is evidence or missing.
LEMMA EvidencedIsCandidate ==
  ASSUME NEW a, NEW p, NEW m, NEW i, NEW e, NEW x, NEW d, d # None => IsEvidence(d)
  PROVE  IsCandidate(Evidenced(a, p, m, i, e, x, d))
BY DEF IsCandidate

\* Changing a part other than the comparison keeps a candidate one, ...
LEMMA CandidateFieldsVary ==
  ASSUME NEW c, IsCandidate(c), NEW v
  PROVE  /\ IsCandidate([c EXCEPT !.checkpoint = v])
         /\ IsCandidate([c EXCEPT !.plan = v])
         /\ IsCandidate([c EXCEPT !.assessment = v])
         /\ IsCandidate([c EXCEPT !.witness = v])
         /\ IsCandidate([c EXCEPT !.execution = v])
         /\ IsCandidate([c EXCEPT !.executor = v])
<1>1. PICK a, p, m, i, e, x, d :
        c = Evidenced(a, p, m, i, e, x, d) /\ (d # None => IsEvidence(d))
  BY DEF IsCandidate
<1>2. [c EXCEPT !.checkpoint = v] = Evidenced(v, p, m, i, e, x, d)
  BY <1>1 DEF Evidenced
<1>3. [c EXCEPT !.plan = v] = Evidenced(a, v, m, i, e, x, d)
  BY <1>1 DEF Evidenced
<1>4. [c EXCEPT !.assessment = v] = Evidenced(a, p, v, i, e, x, d)
  BY <1>1 DEF Evidenced
<1>5. [c EXCEPT !.witness = v] = Evidenced(a, p, m, v, e, x, d)
  BY <1>1 DEF Evidenced
<1>6. [c EXCEPT !.execution = v] = Evidenced(a, p, m, i, v, x, d)
  BY <1>1 DEF Evidenced
<1>7. [c EXCEPT !.executor = v] = Evidenced(a, p, m, i, e, v, d)
  BY <1>1 DEF Evidenced
<1> QED
  BY <1>1, <1>2, <1>3, <1>4, <1>5, <1>6, <1>7, EvidencedIsCandidate

\* ... whichever part it is, ...
LEMMA CandidateVaries ==
  ASSUME NEW c, IsCandidate(c), NEW v,
         NEW part \in {"checkpoint", "plan", "assessment", "witness", "execution", "executor"}
  PROVE  IsCandidate([c EXCEPT ![part] = v])
<1>1. CASE part = "checkpoint"
  BY <1>1, CandidateFieldsVary, Zenon
<1>2. CASE part = "plan"
  BY <1>2, CandidateFieldsVary, Zenon
<1>3. CASE part = "assessment"
  BY <1>3, CandidateFieldsVary, Zenon
<1>4. CASE part = "witness"
  BY <1>4, CandidateFieldsVary, Zenon
<1>5. CASE part = "execution"
  BY <1>5, CandidateFieldsVary, Zenon
<1>6. CASE part = "executor"
  BY <1>6, CandidateFieldsVary, Zenon
<1> QED
  BY <1>1, <1>2, <1>3, <1>4, <1>5, <1>6

\* ... and so does changing the comparison for other evidence.
LEMMA CandidateCompares ==
  ASSUME NEW c, IsCandidate(c), NEW v, v # None => IsEvidence(v)
  PROVE  IsCandidate([c EXCEPT !.comparison = v])
<1>1. PICK a, p, m, i, e, x, d : c = Evidenced(a, p, m, i, e, x, d)
  BY DEF IsCandidate
<1>2. [c EXCEPT !.comparison = v] = Evidenced(a, p, m, i, e, x, v)
  BY <1>1 DEF Evidenced
<1> QED
  BY <1>2 DEF IsCandidate

\* The inductive invariant: the candidate keeps its shape, and a decision is
\* the gate's answer about the candidate and the policy as they still are.
Inv ==
  /\ IsCandidate(candidate)
  /\ decision # None => decision = Decide(policy, candidate)

\* The evidence a run starts from.
LEMMA CoherentIsCandidate ==
  ASSUME NEW q, NEW p, NEW o, NEW w, NEW i, NEW x, NEW corpus \in Corpora, NEW v,
         NEW bv, NEW cv
  PROVE  IsCandidate(CoherentCandidate(q, p, o, w, i, x, corpus, v, bv, cv))
<1> DEFINE a == [plan |-> p, world |-> w, initial |-> corpus[1], witness |-> i]
           r == Question(o, p, q.profile, w, corpus)
           e == Evidence(r, Side(o, w, i, corpus, q.profile, bv),
                            Side(p, w, i, corpus, q.profile, cv))
<1>1. CoherentCandidate(q, p, o, w, i, x, corpus, v, bv, cv)
        = Evidenced(a, p, Assessed(a, q.profile, v), i, ExecutionID(a, x), x, e)
  BY DEF CoherentCandidate, Evidenced, Evidence
<1>2. IsQuestion(r)
  BY DEF IsQuestion
<1>3. IsEvidence(e)
  BY <1>2 DEF IsEvidence
<1> HIDE DEF a, e
<1> QED
  BY <1>1, <1>3, EvidencedIsCandidate

\* The invariant holds initially.
LEMMA InitInv == Init => Inv
<1> SUFFICES ASSUME Init PROVE Inv
  OBVIOUS
<1>1. decision = None
  BY DEF Init
<1>2. Coherent(policy, candidate)
  BY DEF Init
<1>3. \E p, o \in Plan, w \in World, i \in Witness, x \in Certified,
         corpus \in Corpora, v \in Verdict :
      \E bv, cv \in [DOMAIN corpus -> Verdict] :
        candidate = CoherentCandidate(policy, p, o, w, i, x, corpus, v, bv, cv)
  BY <1>2, Zenon DEF Coherent
<1>4. IsCandidate(candidate)
  BY <1>3, CoherentIsCandidate, Zenon
<1> QED
  BY <1>1, <1>4 DEF Inv

\* Substituting a part keeps the invariant: nothing is decided yet.
LEMMA SubstitutePartKeeps ==
  ASSUME Inv, SubstitutePart
  PROVE  Inv'
<1>1. decision' = None
  BY DEF SubstitutePart, Substituted, Undecided
<1>2. IsCandidate(candidate)
  BY DEF Inv
<1>3. \A v : /\ IsCandidate([candidate EXCEPT !.checkpoint = v])
             /\ IsCandidate([candidate EXCEPT !.plan = v])
             /\ IsCandidate([candidate EXCEPT !.assessment = v])
             /\ IsCandidate([candidate EXCEPT !.witness = v])
             /\ IsCandidate([candidate EXCEPT !.execution = v])
             /\ IsCandidate([candidate EXCEPT !.executor = v])
  BY <1>2, CandidateFieldsVary
<1>4. IsCandidate(candidate')
  <2>1. CASE \E a \in VaryArtifact(candidate.checkpoint) :
               candidate' = [candidate EXCEPT !.checkpoint = a]
    BY <1>3, <2>1, Zenon
  <2>2. CASE \E m \in VaryAssessment(candidate.assessment) :
               candidate' = [candidate EXCEPT !.assessment = m]
    BY <1>3, <2>2, Zenon
  <2>3. CASE \E e \in VaryExecution(candidate.execution) :
               candidate' = [candidate EXCEPT !.execution = e]
    BY <1>3, <2>3, Zenon
  <2>4. CASE candidate' \in Vary(candidate, "plan", Plan)
    BY <1>3, <2>4, Zenon DEF Vary
  <2>5. CASE candidate' \in Vary(candidate, "witness", Witness)
    BY <1>3, <2>5, Zenon DEF Vary
  <2>6. CASE candidate' \in Vary(candidate, "executor", Backend)
    BY <1>3, <2>6, Zenon DEF Vary
  <2> QED
    BY <2>1, <2>2, <2>3, <2>4, <2>5, <2>6 DEF SubstitutePart
<1> QED
  BY <1>1, <1>4 DEF Inv

\* The evidence of a candidate that has any.
LEMMA CandidateHasEvidence ==
  ASSUME NEW c, IsCandidate(c), c.comparison # None
  PROVE  IsEvidence(c.comparison)
BY DEF IsCandidate, Evidenced

\* The question of evidence that answers one.
LEMMA EvidenceHasQuestion ==
  ASSUME NEW e, IsEvidence(e), e.question # None
  PROVE  IsQuestion(e.question)
BY DEF IsEvidence, Evidence

\* Substituting evidence keeps the invariant.
LEMMA SubstituteEvidenceKeeps ==
  ASSUME Inv, SubstituteEvidence
  PROVE  Inv'
<1> DEFINE e == candidate.comparison
<1>1. decision' = None
  BY DEF SubstituteEvidence, Substituted, Undecided
<1>2. IsCandidate(candidate) /\ IsEvidence(e)
  BY CandidateHasEvidence DEF Inv, SubstituteEvidence
<1>3. CASE /\ e.question # None
           /\ \E q \in VaryQuestion(e.question) :
                candidate' = [candidate EXCEPT !.comparison.question = q]
  <2>1. PICK q \in VaryQuestion(e.question) :
          candidate' = [candidate EXCEPT !.comparison = [e EXCEPT !.question = q]]
    BY <1>3
  <2>2. IsEvidence([e EXCEPT !.question = q])
    BY <1>2, <1>3, EvidenceHasQuestion, QuestionVaries, EvidenceReasks
  <2> QED
    BY <1>1, <1>2, <2>1, <2>2, CandidateCompares DEF Inv
<1>4. CASE \E side \in {"baseline", "candidate"} : \E v :
             candidate' = [candidate EXCEPT !.comparison = [e EXCEPT ![side] = v]]
  <2>0. PICK side \in {"baseline", "candidate"} : \E v :
          candidate' = [candidate EXCEPT !.comparison = [e EXCEPT ![side] = v]]
    BY <1>4
  <2>1. PICK v : candidate' = [candidate EXCEPT !.comparison = [e EXCEPT ![side] = v]]
    BY <2>0
  <2>2. IsEvidence([e EXCEPT ![side] = v])
    BY <1>2, EvidenceVaries
  <2> QED
    BY <1>1, <1>2, <2>1, <2>2, CandidateCompares DEF Inv
<1> QED
  BY <1>3, <1>4 DEF SubstituteEvidence

\* Leaving a part out keeps the invariant.
LEMMA RemovePartKeeps ==
  ASSUME Inv, RemovePart
  PROVE  Inv'
<1> DEFINE e == candidate.comparison
<1>1. decision' = None
  BY DEF RemovePart, Removed, Undecided
<1>2. IsCandidate(candidate)
  BY DEF Inv
<1>3. CASE \E part \in DOMAIN candidate : candidate' = [candidate EXCEPT ![part] = None]
  <2>1. PICK part \in DOMAIN candidate : candidate' = [candidate EXCEPT ![part] = None]
    BY <1>3
  <2>2. DOMAIN candidate = {"checkpoint", "plan", "assessment", "witness",
                            "execution", "executor", "comparison"}
    BY <1>2 DEF IsCandidate, Evidenced
  <2>3. CASE part = "comparison"
    BY <1>1, <1>2, <2>1, <2>3, CandidateCompares DEF Inv
  <2>4. CASE part # "comparison"
    BY <1>1, <1>2, <2>1, <2>2, <2>4, CandidateVaries DEF Inv
  <2> QED
    BY <2>3, <2>4
<1>4. CASE e # None /\ candidate' = [candidate EXCEPT !.comparison.question = None]
  <2>1. candidate' = [candidate EXCEPT !.comparison = [e EXCEPT !.question = None]]
    BY <1>4
  <2>2. IsEvidence([e EXCEPT !.question = None])
    BY <1>2, <1>4, CandidateHasEvidence, EvidenceReasks
  <2> QED
    BY <1>1, <1>2, <2>1, <2>2, CandidateCompares DEF Inv
<1>5. CASE e # None /\ \E side \in {"baseline", "candidate"} : \E v :
             candidate' = [candidate EXCEPT !.comparison = [e EXCEPT ![side] = v]]
  <2>0. PICK side \in {"baseline", "candidate"} : \E v :
          candidate' = [candidate EXCEPT !.comparison = [e EXCEPT ![side] = v]]
    BY <1>5
  <2>1. PICK v : candidate' = [candidate EXCEPT !.comparison = [e EXCEPT ![side] = v]]
    BY <2>0
  <2>2. IsEvidence([e EXCEPT ![side] = v])
    BY <1>2, <1>5, CandidateHasEvidence, EvidenceVaries
  <2> QED
    BY <1>1, <1>2, <2>1, <2>2, CandidateCompares DEF Inv
<1> QED
  BY <1>3, <1>4, <1>5 DEF RemovePart

\* Every step keeps the invariant.
LEMMA NextInv == Inv /\ [Next]_vars => Inv'
<1> SUFFICES ASSUME Inv, [Next]_vars PROVE Inv'
  OBVIOUS
<1>1. CASE RemovePolicy
  BY <1>1 DEF RemovePolicy, Removed, Undecided, Inv
<1>2. CASE Evaluate
  BY <1>2 DEF Evaluate, Inv
<1>3. CASE UNCHANGED vars
  BY <1>3 DEF vars, Inv
<1> QED
  BY <1>1, <1>2, <1>3, SubstitutePartKeeps, SubstituteEvidenceKeeps,
     RemovePartKeeps DEF Next

\* What a candidate that is authorized must have supplied.
LEMMA AuthorizedNamesACorpus ==
  ASSUME NEW q, NEW c, IsCandidate(c), Authorized(Decide(q, c))
  PROVE  c.comparison.question.corpus \in Corpora
<1>1. c.comparison # None /\ c.comparison.question # None
  BY EveryClausePassed DEF ComparisonCorpus, Comparable
<1>2. IsQuestion(c.comparison.question)
  BY <1>1, CandidateHasEvidence, EvidenceHasQuestion
<1> QED
  BY <1>2 DEF IsQuestion, Question

\* Whatever combination of parts is substituted, missing or coherent, an
\* authorized decision is about one checkpoint and one comparison.
THEOREM AuthorizationsAreOneStory == Spec => []AuthorizationIsOneStory
<1>1. Inv => AuthorizationIsOneStory
  <2> SUFFICES ASSUME Inv, decision # None, Authorized(decision)
               PROVE  OneCheckpoint(policy, candidate) /\ OneComparison(policy, candidate)
    BY DEF AuthorizationIsOneStory
  <2>1. IsCandidate(candidate) /\ Authorized(Decide(policy, candidate))
    BY DEF Inv
  <2>2. candidate.comparison.question.corpus \in Corpora
    BY <2>1, AuthorizedNamesACorpus
  <2> QED
    BY <2>1, <2>2, AuthorizedMeansOneStory
<1> QED
  BY <1>1, InitInv, NextInv, PTL DEF Spec

-----------------------------------------------------------------------------
(* Evidence with parts left out.                                           *)

\* A part is the one it was, or it was not supplied.
PartOf(v, x) == v = None \/ v = x

\* What is left of one side, of its comparison and of the whole candidate.
SideOf(cases, whole) ==
  /\ cases = [n \in DOMAIN whole |-> cases[n]]
  /\ \A n \in DOMAIN whole : \E a, m :
       /\ cases[n] = [checkpoint |-> a, assessment |-> m]
       /\ PartOf(a, whole[n].checkpoint)
       /\ PartOf(m, whole[n].assessment)

EvidenceOf(e, whole) ==
  \E r, b, k :
    /\ e = Evidence(r, b, k)
    /\ PartOf(r, whole.question)
    /\ SideOf(b, whole.baseline)
    /\ SideOf(k, whole.candidate)

RestOf(c, whole) ==
  \E a, p, m, i, e, x, d :
    /\ c = Evidenced(a, p, m, i, e, x, d)
    /\ PartOf(a, whole.checkpoint)
    /\ PartOf(p, whole.plan)
    /\ PartOf(m, whole.assessment)
    /\ PartOf(i, whole.witness)
    /\ PartOf(e, whole.execution)
    /\ PartOf(x, whole.executor)
    /\ d = None \/ EvidenceOf(d, whole.comparison)

\* The inductive invariant about absence: as long as nothing was substituted,
\* candidate and policy are what is left of evidence that was coherent.
NothingForeign ==
  /\ forged \in Nat
  /\ \E v, k, f : policy = [version |-> v, key |-> k, profile |-> f]
  /\ forged = 0 =>
       \E q, whole :
         /\ Coherent(q, whole)
         /\ PartOf(policy.profile, q.profile)
         /\ RestOf(candidate, whole)

\* A side with one part of one case left out is still left of the same side.
LEMMA SideLosesAPart ==
  ASSUME NEW cases, NEW whole, SideOf(cases, whole), NEW n \in DOMAIN cases,
         NEW part \in {"checkpoint", "assessment"}
  PROVE  SideOf([cases EXCEPT ![n] = [cases[n] EXCEPT ![part] = None]], whole)
<1> DEFINE less == [cases EXCEPT ![n] = [cases[n] EXCEPT ![part] = None]]
<1>1. DOMAIN cases = DOMAIN whole
  BY DEF SideOf
<1>2. less = [j \in DOMAIN whole |-> less[j]]
  BY <1>1
<1>3. ASSUME NEW j \in DOMAIN whole
      PROVE  \E a, m : /\ less[j] = [checkpoint |-> a, assessment |-> m]
                       /\ PartOf(a, whole[j].checkpoint)
                       /\ PartOf(m, whole[j].assessment)
  <2>1. PICK a, m : /\ cases[j] = [checkpoint |-> a, assessment |-> m]
                    /\ PartOf(a, whole[j].checkpoint)
                    /\ PartOf(m, whole[j].assessment)
    BY DEF SideOf
  <2>2. CASE j # n
    BY <1>1, <2>1, <2>2
  <2>3. CASE j = n /\ part = "checkpoint"
    <3>1. less[j] = [cases[j] EXCEPT !["checkpoint"] = None]
      BY <1>1, <2>3
    <3>2. [cases[j] EXCEPT !["checkpoint"] = None] = [checkpoint |-> None, assessment |-> m]
      BY <2>1
    <3>3. less[j] = [checkpoint |-> None, assessment |-> m]
      BY <3>1, <3>2
    <3>4. \A v : PartOf(None, v)
      BY DEF PartOf
    <3> HIDE DEF less
    <3> QED
      BY <2>1, <3>3, <3>4, Zenon
  <2>4. CASE j = n /\ part = "assessment"
    <3>1. less[j] = [cases[j] EXCEPT !["assessment"] = None]
      BY <1>1, <2>4
    <3>2. [cases[j] EXCEPT !["assessment"] = None] = [checkpoint |-> a, assessment |-> None]
      BY <2>1
    <3>3. less[j] = [checkpoint |-> a, assessment |-> None]
      BY <3>1, <3>2
    <3>4. \A v : PartOf(None, v)
      BY DEF PartOf
    <3> HIDE DEF less
    <3> QED
      BY <2>1, <3>3, <3>4, Zenon
  <2> QED
    BY <2>2, <2>3, <2>4
<1> HIDE DEF less
<1>4. SideOf(less, whole)
  BY <1>2, <1>3 DEF SideOf
<1> QED
  BY <1>4 DEF less

\* A candidate with one of its seven parts left out.
LEMMA CandidateLosesAPart ==
  ASSUME NEW c, NEW whole, RestOf(c, whole), NEW part \in DOMAIN c
  PROVE  RestOf([c EXCEPT ![part] = None], whole)
<1>1. PICK a, p, m, i, e, x, d :
        /\ c = Evidenced(a, p, m, i, e, x, d)
        /\ PartOf(a, whole.checkpoint)
        /\ PartOf(p, whole.plan)
        /\ PartOf(m, whole.assessment)
        /\ PartOf(i, whole.witness)
        /\ PartOf(e, whole.execution)
        /\ PartOf(x, whole.executor)
        /\ d = None \/ EvidenceOf(d, whole.comparison)
  BY DEF RestOf
<1>2. part \in {"checkpoint", "plan", "assessment", "witness", "execution",
                "executor", "comparison"}
  BY <1>1 DEF Evidenced
<1>3. \A v : PartOf(None, v)
  BY DEF PartOf
<1>4. CASE part = "checkpoint"
  <2>1. [c EXCEPT ![part] = None] = Evidenced(None, p, m, i, e, x, d)
    BY <1>1, <1>4 DEF Evidenced
  <2> QED
    BY <2>1, <1>1, <1>3, Zenon DEF RestOf
<1>5. CASE part = "plan"
  <2>1. [c EXCEPT ![part] = None] = Evidenced(a, None, m, i, e, x, d)
    BY <1>1, <1>5 DEF Evidenced
  <2> QED
    BY <2>1, <1>1, <1>3, Zenon DEF RestOf
<1>6. CASE part = "assessment"
  <2>1. [c EXCEPT ![part] = None] = Evidenced(a, p, None, i, e, x, d)
    BY <1>1, <1>6 DEF Evidenced
  <2> QED
    BY <2>1, <1>1, <1>3, Zenon DEF RestOf
<1>7. CASE part = "witness"
  <2>1. [c EXCEPT ![part] = None] = Evidenced(a, p, m, None, e, x, d)
    BY <1>1, <1>7 DEF Evidenced
  <2> QED
    BY <2>1, <1>1, <1>3, Zenon DEF RestOf
<1>8. CASE part = "execution"
  <2>1. [c EXCEPT ![part] = None] = Evidenced(a, p, m, i, None, x, d)
    BY <1>1, <1>8 DEF Evidenced
  <2> QED
    BY <2>1, <1>1, <1>3, Zenon DEF RestOf
<1>9. CASE part = "executor"
  <2>1. [c EXCEPT ![part] = None] = Evidenced(a, p, m, i, e, None, d)
    BY <1>1, <1>9 DEF Evidenced
  <2> QED
    BY <2>1, <1>1, <1>3, Zenon DEF RestOf
<1>10. CASE part = "comparison"
  <2>1. [c EXCEPT ![part] = None] = Evidenced(a, p, m, i, e, x, None)
    BY <1>1, <1>10 DEF Evidenced
  <2> QED
    BY <2>1, <1>1, <1>3, Zenon DEF RestOf
<1> QED
  BY <1>2, <1>4, <1>5, <1>6, <1>7, <1>8, <1>9, <1>10

\* A candidate whose comparison lost something of its own.
LEMMA CandidateKeepsLess ==
  ASSUME NEW c, NEW whole, RestOf(c, whole), NEW d, EvidenceOf(d, whole.comparison)
  PROVE  RestOf([c EXCEPT !.comparison = d], whole)
<1>1. PICK a, p, m, i, e, x, g :
        /\ c = Evidenced(a, p, m, i, e, x, g)
        /\ PartOf(a, whole.checkpoint)
        /\ PartOf(p, whole.plan)
        /\ PartOf(m, whole.assessment)
        /\ PartOf(i, whole.witness)
        /\ PartOf(e, whole.execution)
        /\ PartOf(x, whole.executor)
  BY DEF RestOf
<1>2. [c EXCEPT !.comparison = d] = Evidenced(a, p, m, i, e, x, d)
  BY <1>1 DEF Evidenced
<1> QED
  BY <1>1, <1>2, Zenon DEF RestOf

\* The comparison of what is left of a candidate.
LEMMA RestHasEvidence ==
  ASSUME NEW c, NEW whole, RestOf(c, whole), c.comparison # None
  PROVE  EvidenceOf(c.comparison, whole.comparison)
BY DEF RestOf, Evidenced

\* Every way of leaving a part out leaves a rest of the same evidence.
LEMMA RemovalLeavesARest ==
  ASSUME RemovePart, NEW whole, RestOf(candidate, whole)
  PROVE  RestOf(candidate', whole)
<1> DEFINE e == candidate.comparison
<1>1. CASE \E part \in DOMAIN candidate : candidate' = [candidate EXCEPT ![part] = None]
  BY <1>1, CandidateLosesAPart
<1>2. CASE e # None /\ candidate' = [candidate EXCEPT !.comparison.question = None]
  <2>1. candidate' = [candidate EXCEPT !.comparison = [e EXCEPT !.question = None]]
    BY <1>2
  <2>2. PICK r, b, k : /\ e = Evidence(r, b, k)
                       /\ SideOf(b, whole.comparison.baseline)
                       /\ SideOf(k, whole.comparison.candidate)
    BY <1>2, RestHasEvidence DEF EvidenceOf
  <2>3. [e EXCEPT !.question = None] = Evidence(None, b, k)
    BY <2>2 DEF Evidence
  <2>4. EvidenceOf([e EXCEPT !.question = None], whole.comparison)
    BY <2>2, <2>3 DEF EvidenceOf, PartOf
  <2> QED
    BY <2>1, <2>4, CandidateKeepsLess
<1>3. ASSUME e # None,
             NEW side \in {"baseline", "candidate"}, NEW part \in {"checkpoint", "assessment"},
             NEW n \in DOMAIN e[side],
             candidate' = [candidate EXCEPT !.comparison[side][n][part] = None]
      PROVE  RestOf(candidate', whole)
  <2> DEFINE less == [e[side] EXCEPT ![n] = [e[side][n] EXCEPT ![part] = None]]
  <2>1. candidate' = [candidate EXCEPT !.comparison = [e EXCEPT ![side] = less]]
    BY <1>3
  <2>2. PICK r, b, k : /\ e = Evidence(r, b, k)
                       /\ PartOf(r, whole.comparison.question)
                       /\ SideOf(b, whole.comparison.baseline)
                       /\ SideOf(k, whole.comparison.candidate)
    BY <1>3, RestHasEvidence DEF EvidenceOf
  <2>3. EvidenceOf([e EXCEPT ![side] = less], whole.comparison)
    <3>1. CASE side = "baseline"
      <4>1. e[side] = b
        BY <2>2, <3>1 DEF Evidence
      <4>2. SideOf(less, whole.comparison.baseline)
        BY <2>2, <4>1, <1>3, SideLosesAPart
      <4> HIDE DEF less
      <4>3. [e EXCEPT ![side] = less] = Evidence(r, less, k)
        BY <2>2, <3>1 DEF Evidence
      <4> QED
        BY <2>2, <4>2, <4>3, Zenon DEF EvidenceOf
    <3>2. CASE side = "candidate"
      <4>1. e[side] = k
        BY <2>2, <3>2 DEF Evidence
      <4>2. SideOf(less, whole.comparison.candidate)
        BY <2>2, <4>1, <1>3, SideLosesAPart
      <4> HIDE DEF less
      <4>3. [e EXCEPT ![side] = less] = Evidence(r, b, less)
        BY <2>2, <3>2 DEF Evidence
      <4> QED
        BY <2>2, <4>2, <4>3, Zenon DEF EvidenceOf
    <3> QED
      BY <3>1, <3>2
  <2> QED
    BY <2>1, <2>3, CandidateKeepsLess
<1> QED
  BY <1>1, <1>2, <1>3 DEF RemovePart

\* Coherent evidence is all of itself.
LEMMA CoherentIsWhole ==
  ASSUME NEW q, NEW c, Coherent(q, c)
  PROVE  RestOf(c, c)
<1>1. PICK p, o \in Plan, w \in World, i \in Witness, x \in Certified,
           s \in Corpora, v \in Verdict :
      \E bv, cv \in [DOMAIN s -> Verdict] :
        c = CoherentCandidate(q, p, o, w, i, x, s, v, bv, cv)
  BY Zenon DEF Coherent
<1>2. PICK bv, cv \in [DOMAIN s -> Verdict] :
        c = CoherentCandidate(q, p, o, w, i, x, s, v, bv, cv)
  BY <1>1
<1>3. \A t : PartOf(t, t)
  BY DEF PartOf
<1>4. ASSUME NEW y, NEW vs
      PROVE  SideOf(Side(y, w, i, s, q.profile, vs), Side(y, w, i, s, q.profile, vs))
  BY <1>3 DEF SideOf, Side, Case
<1> DEFINE a == [plan |-> p, world |-> w, initial |-> s[1], witness |-> i]
           r == Question(o, p, q.profile, w, s)
           b == Side(o, w, i, s, q.profile, bv)
           k == Side(p, w, i, s, q.profile, cv)
<1>5. c = Evidenced(a, p, Assessed(a, q.profile, v), i, ExecutionID(a, x), x, Evidence(r, b, k))
  BY <1>2 DEF CoherentCandidate, Evidenced, Evidence
<1>6. SideOf(b, b) /\ SideOf(k, k)
  BY <1>4
<1> HIDE DEF a, r, b, k
<1>7. EvidenceOf(Evidence(r, b, k), Evidence(r, b, k))
  <2>1. /\ Evidence(r, b, k).question = r
        /\ Evidence(r, b, k).baseline = b
        /\ Evidence(r, b, k).candidate = k
    BY DEF Evidence
  <2> QED
    BY <2>1, <1>3, <1>6, Zenon DEF EvidenceOf
<1>8. /\ c.checkpoint = a /\ c.plan = p /\ c.assessment = Assessed(a, q.profile, v)
      /\ c.witness = i /\ c.execution = ExecutionID(a, x) /\ c.executor = x
      /\ c.comparison = Evidence(r, b, k)
  BY <1>5 DEF Evidenced
<1>9. /\ PartOf(a, c.checkpoint)
      /\ PartOf(p, c.plan)
      /\ PartOf(Assessed(a, q.profile, v), c.assessment)
      /\ PartOf(i, c.witness)
      /\ PartOf(ExecutionID(a, x), c.execution)
      /\ PartOf(x, c.executor)
      /\ EvidenceOf(Evidence(r, b, k), c.comparison)
  BY <1>3, <1>7, <1>8
<1> QED
  BY <1>5, <1>9, Zenon DEF RestOf

\* A coherent candidate is what is left of itself.
LEMMA NothingForeignInit == Init => NothingForeign
<1> SUFFICES ASSUME Init PROVE NothingForeign
  OBVIOUS
<1>1. forged \in Nat
  BY DEF Init
<1>2. \E v, k, f : policy = [version |-> v, key |-> k, profile |-> f]
  <2>1. policy = [version |-> policy.version, key |-> policy.key, profile |-> policy.profile]
    BY DEF Init
  <2> QED
    BY <2>1
<1>3. Coherent(policy, candidate) /\ RestOf(candidate, candidate)
  BY CoherentIsWhole DEF Init
<1>4. PartOf(policy.profile, policy.profile)
  BY DEF PartOf
<1> QED
  BY <1>1, <1>2, <1>3, <1>4, Zenon DEF NothingForeign

\* Removing a part leaves less of the same evidence; substituting one is counted.
LEMMA NothingForeignKept == NothingForeign /\ [Next]_vars => NothingForeign'
<1> SUFFICES ASSUME NothingForeign, [Next]_vars PROVE NothingForeign'
  OBVIOUS
<1>1. CASE SubstitutePart \/ SubstituteEvidence
  <2>1. forged' = forged + 1 /\ UNCHANGED policy
    BY <1>1 DEF SubstitutePart, SubstituteEvidence, Substituted
  <2>2. forged' \in Nat /\ forged' # 0
    BY <2>1 DEF NothingForeign
  <2> QED
    BY <2>1, <2>2 DEF NothingForeign
<1>2. CASE RemovePart
  <2>1. UNCHANGED <<forged, policy>>
    BY <1>2 DEF RemovePart, Removed
  <2> QED
    BY <1>2, <2>1, RemovalLeavesARest, Zenon DEF NothingForeign
<1>3. CASE RemovePolicy
  <2>1. UNCHANGED <<forged, candidate>>
    BY <1>3 DEF RemovePolicy, Removed
  <2>2. policy'.profile = None /\ \E v, k, f : policy' = [version |-> v, key |-> k, profile |-> f]
    <3>1. PICK v, k, f : policy = [version |-> v, key |-> k, profile |-> f]
      BY DEF NothingForeign
    <3>2. CASE policy' = [version |-> 0, key |-> None, profile |-> None]
      BY <3>2
    <3>3. CASE policy' = [policy EXCEPT !.profile = None]
      <4>1. policy' = [version |-> v, key |-> k, profile |-> None]
        BY <3>1, <3>3
      <4> QED
        BY <4>1
    <3> QED
      BY <1>3, <3>2, <3>3 DEF RemovePolicy
  <2>3. \A t : PartOf(policy'.profile, t)
    BY <2>2 DEF PartOf
  <2> QED
    BY <2>1, <2>2, <2>3, Zenon DEF NothingForeign
<1>4. CASE Evaluate \/ UNCHANGED vars
  <2>1. UNCHANGED <<forged, candidate, policy>>
    BY <1>4 DEF Evaluate, vars
  <2> QED
    BY <2>1, Zenon DEF NothingForeign
<1> QED
  BY <1>1, <1>2, <1>3, <1>4 DEF Next

\* A set of numbers that is not empty has a least one.
LEMMA LeastNumber ==
  ASSUME NEW T, T \subseteq Nat, T # {}
  PROVE  \E n \in T : \A m \in T : n <= m
<1> DEFINE R == {ss \in Nat \X Nat : ss[1] < ss[2]}
<1>1. IsWellFoundedOn(R, Nat)
  BY NatLessThanWellFounded, Zenon DEF OpToRel
<1> HIDE DEF R
<1>2. PICK n \in T : \A m \in T : ~(<<m, n>> \in R)
  BY <1>1, WFMin
<1>3. \A m \in T : ~(m < n)
  BY <1>2 DEF R
<1> QED
  BY <1>3

\* A loop over cases each of which passes or is absent ends in one of the two:
\* the first that does not pass is absent, and all before it pass.
LEMMA FirstIsAbsent ==
  ASSUME NEW s \in Seq(Digest), NEW answer,
         \A n \in DOMAIN s : answer[n] \in {"pass", "absent"},
         ~ \A n \in DOMAIN s : answer[n] = "pass"
  PROVE  \E n \in DOMAIN s : /\ answer[n] = "absent"
                             /\ \A j \in 1..(n - 1) : answer[j] = "pass"
<1> DEFINE T == {n \in DOMAIN s : answer[n] # "pass"}
<1>1. T \subseteq Nat /\ T # {} /\ DOMAIN s = 1..Len(s) /\ Len(s) \in Nat
  OBVIOUS
<1>2. PICK n \in T : \A m \in T : n <= m
  BY <1>1, LeastNumber
<1>3. \A j \in 1..(n - 1) : j \in DOMAIN s /\ j \notin T
  BY <1>1, <1>2
<1> QED
  BY <1>2, <1>3

\* The checkpoint a case of the corpus ended in.
Made(p, w, d, i) == [plan |-> p, world |-> w, initial |-> d, witness |-> i]

\* What is left of a side, case by case.
LeftOf(cases, p, w, i, s, f, vs) ==
  /\ DOMAIN cases = DOMAIN s
  /\ \A n \in DOMAIN s :
       /\ PartOf(cases[n].checkpoint, Made(p, w, s[n], i))
       /\ PartOf(cases[n].assessment, Assessed(Made(p, w, s[n], i), f, vs[n]))

\* What is left of a coherent side, case by case.
LEMMA SideIsLeft ==
  ASSUME NEW cases, NEW p, NEW w, NEW i, NEW s, NEW f, NEW vs,
         SideOf(cases, Side(p, w, i, s, f, vs))
  PROVE  LeftOf(cases, p, w, i, s, f, vs)
<1> DEFINE whole == Side(p, w, i, s, f, vs)
<1>1. DOMAIN whole = DOMAIN s
  BY DEF Side
<1>2. ASSUME NEW n \in DOMAIN s
      PROVE  /\ whole[n].checkpoint = Made(p, w, s[n], i)
             /\ whole[n].assessment = Assessed(Made(p, w, s[n], i), f, vs[n])
  BY DEF Side, Case, Made
<1> HIDE DEF whole
<1>3. SideOf(cases, whole)
  BY DEF whole
<1>4. DOMAIN cases = DOMAIN s
  BY <1>1, <1>3 DEF SideOf
<1>5. ASSUME NEW n \in DOMAIN s
      PROVE  /\ PartOf(cases[n].checkpoint, whole[n].checkpoint)
             /\ PartOf(cases[n].assessment, whole[n].assessment)
  BY <1>1, <1>3 DEF SideOf
<1> QED
  BY <1>2, <1>4, <1>5 DEF LeftOf

\* A candidate case that is there passes under its own profile.
LEMMA LeftCasePasses ==
  ASSUME NEW cases, NEW p, NEW w, NEW i, NEW s, NEW f, NEW vs,
         LeftOf(cases, p, w, i, s, f, vs), NEW n \in DOMAIN s
  PROVE  /\ CaseUnder(cases[n], f) \in {"pass", "absent"}
         /\ \A o, c, corpus :
              CaseAnswers(cases[n], p, Question(o, c, f, w, corpus)) \in {"pass", "absent"}
         /\ CaseUnder(cases[n], f) = "pass" =>
              /\ cases[n].checkpoint = Made(p, w, s[n], i)
              /\ cases[n].assessment # None
              /\ cases[n].assessment = Assessed(Made(p, w, s[n], i), f, vs[n])
         /\ \A o, c, corpus :
              CaseAnswers(cases[n], p, Question(o, c, f, w, corpus)) = "pass" =>
                cases[n].checkpoint = Made(p, w, s[n], i)
<1>1. /\ PartOf(cases[n].checkpoint, Made(p, w, s[n], i))
      /\ PartOf(cases[n].assessment, Assessed(Made(p, w, s[n], i), f, vs[n]))
  BY DEF LeftOf
<1>2. /\ Made(p, w, s[n], i).plan = p
      /\ Made(p, w, s[n], i).world = w
      /\ Assessed(Made(p, w, s[n], i), f, vs[n]).of = Made(p, w, s[n], i)
      /\ Assessed(Made(p, w, s[n], i), f, vs[n]).profile = f
  BY DEF Made, Assessed
<1>3. \A o, c, corpus : /\ Question(o, c, f, w, corpus).world = w
                        /\ Question(o, c, f, w, corpus).profile = f
  BY DEF Question
<1>4. CASE cases[n].checkpoint = None \/ cases[n].assessment = None
  BY <1>4 DEF CaseUnder, CaseAnswers
<1>5. CASE /\ cases[n].checkpoint # None /\ cases[n].assessment # None
           /\ cases[n].checkpoint = Made(p, w, s[n], i)
           /\ cases[n].assessment = Assessed(Made(p, w, s[n], i), f, vs[n])
  BY <1>2, <1>3, <1>5 DEF CaseUnder, CaseAnswers, CheckpointID
<1> QED
  BY <1>1, <1>4, <1>5 DEF PartOf

\* What is left of a side covers the corpus or is absent.
LEMMA LeftSideCovers ==
  ASSUME NEW cases, NEW p, NEW w, NEW i, NEW s \in Corpora, NEW f, NEW vs, NEW o, NEW c,
         LeftOf(cases, p, w, i, s, f, vs)
  PROVE  SideCovers(cases, p, Question(o, c, f, w, s)) \in {"pass", "absent"}
<1> DEFINE question == Question(o, c, f, w, s)
           Check(k) == CaseAnswers(k, p, question)
<1>1. s \in Seq(Digest) /\ DOMAIN cases = DOMAIN s
  BY GateAssumption DEF LeftOf
<1>2. \A n \in DOMAIN s : Check(cases[n]) \in {"pass", "absent"}
  BY LeftCasePasses
<1>3. \A n \in DOMAIN s : Check(cases[n]) = "pass" => cases[n].checkpoint = Made(p, w, s[n], i)
  BY LeftCasePasses
<1>4. question.corpus = s
  BY DEF Question
<1> HIDE DEF Check, question
<1>5. FirstRefusal(cases, Check) \in {"pass", "absent"}
  <2>1. CASE \A n \in DOMAIN s : Check(cases[n]) = "pass"
    BY <2>1, <1>1 DEF FirstRefusal
  <2>2. CASE ~ \A n \in DOMAIN s : Check(cases[n]) = "pass"
    <3> DEFINE answer == [n \in DOMAIN s |-> Check(cases[n])]
    <3>1. /\ \A n \in DOMAIN s : answer[n] \in {"pass", "absent"}
          /\ ~ \A n \in DOMAIN s : answer[n] = "pass"
      BY <1>2, <2>2
    <3> HIDE DEF answer
    <3>2. PICK n \in DOMAIN s : /\ answer[n] = "absent"
                                /\ \A j \in 1..(n - 1) : answer[j] = "pass"
      BY <1>1, <3>1, FirstIsAbsent
    <3>3. \A j \in 1..(n - 1) : j \in DOMAIN s
      BY <1>1, <3>2
    <3>4. Check(cases[n]) = "absent" /\ \A j \in 1..(n - 1) : Check(cases[j]) = "pass"
      BY <3>2, <3>3 DEF answer
    <3> QED
      BY <1>1, <3>4 DEF FirstRefusal
  <2> QED
    BY <2>1, <2>2
<1>6. FirstRefusal(cases, Check) = "pass" => \A n \in DOMAIN s : Check(cases[n]) = "pass"
  BY <1>1 DEF FirstRefusal
<1>7. (\A n \in DOMAIN s : Check(cases[n]) = "pass") =>
        [n \in DOMAIN cases |-> cases[n].checkpoint.initial] = s
  <2> SUFFICES ASSUME \A n \in DOMAIN s : Check(cases[n]) = "pass"
               PROVE  [n \in DOMAIN cases |-> cases[n].checkpoint.initial] = s
    OBVIOUS
  <2>1. \A n \in DOMAIN s : cases[n].checkpoint.initial = s[n]
    <3>1. \A n \in DOMAIN s : Made(p, w, s[n], i).initial = s[n]
      BY DEF Made
    <3> QED
      BY <1>3, <3>1
  <2>2. s = [n \in DOMAIN s |-> s[n]]
    BY <1>1
  <2> QED
    BY <1>1, <2>1, <2>2
<1>8. SideCovers(cases, p, question) =
        IF cases = << >> THEN "absent"
        ELSE IF FirstRefusal(cases, Check) # "pass" THEN FirstRefusal(cases, Check)
        ELSE IF VerifyCorpus(cases, question.corpus) THEN "pass" ELSE "fail"
  BY DEF SideCovers, Check
<1>9. SideCovers(cases, p, question) \in {"pass", "absent"}
  BY <1>4, <1>5, <1>6, <1>7, <1>8 DEF VerifyCorpus
<1> QED
  BY <1>9 DEF question

\* The metric clause over what is left of two sides of one corpus is adverse
\* only when a ready case stopped being ready.
LEMMA LeftSidesRegress ==
  ASSUME NEW q, NEW c, NEW p, NEW o, NEW w, NEW i, NEW s \in Corpora, NEW bv, NEW cv,
         LeftOf(c.comparison.baseline, o, w, i, s, q.profile, bv),
         LeftOf(c.comparison.candidate, p, w, i, s, q.profile, cv),
         NoMetricRegression(q, c) = "fail"
  PROVE  Regressed(c)
<1> DEFINE b == c.comparison.baseline
           k == c.comparison.candidate
           f == q.profile
           Under(x) == CaseUnder(x, f)
           Keeps(x) == CaseKeepsReadiness(x, b, f)
<1>1. s \in Seq(Digest) /\ (\A n, j \in DOMAIN s : s[n] = s[j] => n = j)
  BY GateAssumption
<1>2. DOMAIN b = DOMAIN s /\ DOMAIN k = DOMAIN s
  BY DEF LeftOf
<1>3. \A n \in DOMAIN s : Under(b[n]) \in {"pass", "absent"}
  BY LeftCasePasses
<1>4. \A n \in DOMAIN s : Under(k[n]) \in {"pass", "absent"}
  BY LeftCasePasses
<1>5. \A n \in DOMAIN s : Under(b[n]) = "pass" =>
        /\ b[n].checkpoint = Made(o, w, s[n], i)
        /\ b[n].assessment # None
  BY LeftCasePasses
<1>6. \A n \in DOMAIN s : Under(k[n]) = "pass" =>
        /\ k[n].checkpoint = Made(p, w, s[n], i)
        /\ k[n].assessment # None
  BY LeftCasePasses
<1>7. /\ Len(b) = Len(k)
      /\ \/ FirstRefusal(b, Under) # "pass" /\ FirstRefusal(b, Under) = "fail"
         \/ /\ FirstRefusal(b, Under) = "pass"
            /\ FirstRefusal(k, Keeps) = "fail"
         \/ /\ FirstRefusal(b, Under) = "pass"
            /\ FirstRefusal(k, Keeps) = "pass"
            /\ Cardinality(Ready(k)) < Cardinality(Ready(b))
  <2>1. Len(b) = Len(k)
    BY <1>1, <1>2
  <2> QED
    BY <2>1 DEF NoMetricRegression
<1>8. ASSUME FirstRefusal(b, Under) = "pass", NEW n \in DOMAIN s
      PROVE  Under(b[n]) = "pass"
  BY <1>2, <1>8 DEF FirstRefusal
<1>9. ASSUME FirstRefusal(b, Under) = "pass", NEW n \in DOMAIN s, NEW d, d = s[n]
      PROVE  Indexed(b, d, n) /\ \A j \in DOMAIN b : Indexed(b, d, j) => j = n
  <2>1. \A j \in DOMAIN s : b[j].checkpoint.initial = s[j]
    <3>1. \A j \in DOMAIN s : Made(o, w, s[j], i).initial = s[j]
      BY DEF Made
    <3> QED
      BY <1>5, <1>8, <1>9, <3>1
  <2>2. \A j \in DOMAIN s : j \in Nat
    BY <1>1
  <2> QED
    BY <1>1, <1>2, <1>9, <2>1, <2>2 DEF Indexed
<1> HIDE DEF Under
<1>10. FirstRefusal(b, Under) # "fail"
  <2>1. CASE \A n \in DOMAIN s : Under(b[n]) = "pass"
    BY <1>2, <2>1 DEF FirstRefusal
  <2>2. CASE ~ \A n \in DOMAIN s : Under(b[n]) = "pass"
    <3> DEFINE answer == [n \in DOMAIN s |-> Under(b[n])]
    <3>1. /\ \A n \in DOMAIN s : answer[n] \in {"pass", "absent"}
          /\ ~ \A n \in DOMAIN s : answer[n] = "pass"
      BY <1>3, <2>2
    <3> HIDE DEF answer
    <3>2. PICK n \in DOMAIN s : /\ answer[n] = "absent"
                                /\ \A j \in 1..(n - 1) : answer[j] = "pass"
      BY <1>1, <3>1, FirstIsAbsent
    <3>3. \A j \in 1..(n - 1) : j \in DOMAIN s
      BY <1>1, <3>2
    <3>4. Under(b[n]) = "absent" /\ \A j \in 1..(n - 1) : Under(b[j]) = "pass"
      BY <3>2, <3>3 DEF answer
    <3> QED
      BY <1>2, <3>4 DEF FirstRefusal
  <2> QED
    BY <2>1, <2>2
<1>11. ASSUME FirstRefusal(b, Under) = "pass", NEW n \in DOMAIN s, Keeps(k[n]) \notin {"pass", "absent"}
       PROVE  Regressed(c)
  <2>1. CaseUnder(k[n], f) = "pass"
    BY <1>4, <1>11 DEF CaseKeepsReadiness, Under
  <2>2. k[n].checkpoint = Made(p, w, s[n], i) /\ k[n].assessment # None
    BY <1>6, <2>1 DEF Under
  <2>3. k[n].checkpoint.initial = s[n]
    BY <2>2 DEF Made
  <2>4. Indexed(b, k[n].checkpoint.initial, n)
    BY <1>9, <1>11, <2>3
  <2>5. n \in Ready(b) /\ k[n].assessment.verdict # "ready"
    BY <1>2, <1>11, <2>1, <2>4 DEF CaseKeepsReadiness
  <2>6. b[n].assessment # None
    BY <1>5, <1>8, <1>11
  <2> QED
    BY <1>2, <2>2, <2>5, <2>6 DEF Ready, Regressed
<1>12. ASSUME FirstRefusal(b, Under) = "pass", FirstRefusal(k, Keeps) = "pass"
       PROVE  ~(Cardinality(Ready(k)) < Cardinality(Ready(b)))
  <2>1. \A n \in DOMAIN s : Keeps(k[n]) = "pass"
    BY <1>2, <1>12 DEF FirstRefusal
  <2>2. ASSUME NEW n \in Ready(b) PROVE n \in Ready(k)
    <3>1. n \in DOMAIN s
      BY <1>2 DEF Ready
    <3>2. CaseUnder(k[n], f) = "pass"
      BY <2>1, <3>1 DEF CaseKeepsReadiness
    <3>3. k[n].checkpoint = Made(p, w, s[n], i)
      BY <1>6, <3>1, <3>2 DEF Under
    <3>4. k[n].checkpoint.initial = s[n]
      BY <3>3 DEF Made
    <3>5. PICK j \in DOMAIN b : /\ Indexed(b, k[n].checkpoint.initial, j)
                                /\ j \in Ready(b) => k[n].assessment.verdict = "ready"
      BY <2>1, <3>1 DEF CaseKeepsReadiness
    <3>6. j = n
      BY <1>9, <1>12, <3>1, <3>4, <3>5
    <3> QED
      BY <1>2, <2>2, <3>1, <3>5, <3>6 DEF Ready
  <2>3. IsFiniteSet(Ready(k))
    <3>1. IsFiniteSet(1..Len(s))
      BY <1>1, FS_Interval
    <3>2. Ready(k) \subseteq 1..Len(s)
      BY <1>1, <1>2 DEF Ready
    <3> QED
      BY <3>1, <3>2, FS_Subset
  <2>4. /\ Cardinality(Ready(b)) <= Cardinality(Ready(k))
        /\ Cardinality(Ready(b)) \in Nat /\ Cardinality(Ready(k)) \in Nat
    BY <2>2, <2>3, FS_Subset, FS_CardinalityType
  <2> QED
    BY <2>4
<1>13. CASE FirstRefusal(b, Under) = "pass" /\ FirstRefusal(k, Keeps) = "fail"
  <2>1. CASE \E n \in DOMAIN s : Keeps(k[n]) \notin {"pass", "absent"}
    BY <1>11, <1>13, <2>1
  <2>2. CASE \A n \in DOMAIN s : Keeps(k[n]) \in {"pass", "absent"}
    <3> DEFINE answer == [n \in DOMAIN s |-> Keeps(k[n])]
    <3>1. /\ \A n \in DOMAIN s : answer[n] \in {"pass", "absent"}
          /\ ~ \A n \in DOMAIN s : answer[n] = "pass"
      BY <1>2, <1>13, <2>2 DEF FirstRefusal
    <3> HIDE DEF answer
    <3>2. PICK n \in DOMAIN s : /\ answer[n] = "absent"
                                /\ \A j \in 1..(n - 1) : answer[j] = "pass"
      BY <1>1, <3>1, FirstIsAbsent
    <3>3. \A j \in 1..(n - 1) : j \in DOMAIN s
      BY <1>1, <3>2
    <3>4. Keeps(k[n]) = "absent" /\ \A j \in 1..(n - 1) : Keeps(k[j]) = "pass"
      BY <3>2, <3>3 DEF answer
    <3> HIDE DEF Keeps
    <3> QED
      BY <1>2, <1>13, <3>4 DEF FirstRefusal
  <2> QED
    BY <2>1, <2>2
<1> QED
  BY <1>7, <1>10, <1>12, <1>13

\* Over what is left of coherent evidence, the adverse answers are the two.
LEMMA RestIsNotAdverse ==
  ASSUME NEW q, NEW t, NEW whole, NEW c,
         Coherent(t, whole), RestOf(c, whole), q.profile = t.profile,
         NEW k \in Clause, Verdicts(q, c)[k] = "fail"
  PROVE  \/ k = "ready_assessment" /\ c.assessment.verdict # "ready"
         \/ k = "no_metric_regression" /\ Regressed(c)
<1>1. PICK p, o \in Plan, w \in World, i \in Witness, x \in Certified,
           s \in Corpora, v \in Verdict :
      \E bv, cv \in [DOMAIN s -> Verdict] :
        whole = CoherentCandidate(t, p, o, w, i, x, s, v, bv, cv)
  BY Zenon DEF Coherent
<1>2. PICK bv, cv \in [DOMAIN s -> Verdict] :
        whole = CoherentCandidate(t, p, o, w, i, x, s, v, bv, cv)
  BY <1>1
<1> DEFINE f == t.profile
           a == Made(p, w, s[1], i)
           r == Question(o, p, f, w, s)
<1>3. /\ whole.checkpoint = a
      /\ whole.plan = p
      /\ whole.assessment = Assessed(a, f, v)
      /\ whole.witness = i
      /\ whole.execution = ExecutionID(a, x)
      /\ whole.executor = x
      /\ whole.comparison = Evidence(r, Side(o, w, i, s, f, bv), Side(p, w, i, s, f, cv))
  BY <1>2 DEF CoherentCandidate, Made, Evidence
<1>4. a.plan = p /\ a.witness = i /\ Assessed(a, f, v).of = a /\ Assessed(a, f, v).profile = f
  BY DEF Made, Assessed
<1>5. r.profile = f /\ r.baseline = o /\ r.candidate = p
  BY DEF Question
<1> HIDE DEF a, r, f
<1>6. /\ PartOf(c.checkpoint, a)
      /\ PartOf(c.plan, p)
      /\ PartOf(c.assessment, Assessed(a, f, v))
      /\ PartOf(c.witness, i)
      /\ PartOf(c.execution, ExecutionID(a, x))
      /\ PartOf(c.executor, x)
  BY <1>3 DEF RestOf, Evidenced
<1>7. ASSUME c.comparison # None
      PROVE  /\ PartOf(c.comparison.question, r)
             /\ LeftOf(c.comparison.baseline, o, w, i, s, f, bv)
             /\ LeftOf(c.comparison.candidate, p, w, i, s, f, cv)
  <2>1. /\ PartOf(c.comparison.question, r)
        /\ SideOf(c.comparison.baseline, Side(o, w, i, s, f, bv))
        /\ SideOf(c.comparison.candidate, Side(p, w, i, s, f, cv))
    <3>1. EvidenceOf(c.comparison, whole.comparison)
      BY <1>7, RestHasEvidence
    <3> QED
      BY <1>3, <3>1 DEF EvidenceOf, Evidence
  <2> QED
    BY <2>1, SideIsLeft
<1>8. StaticValidation(c) # "fail"
  BY <1>4, <1>6 DEF StaticValidation, Sealed, PartOf
<1>9. ReadyAssessment(q, c) = "fail" => c.assessment.verdict # "ready"
  BY DEF ReadyAssessment
<1>10. PinnedIdentities(c) # "fail"
  BY <1>4, <1>6 DEF PinnedIdentities, Sealed, PartOf
<1>11. DigestConsistency(c) # "fail"
  BY <1>4, <1>6 DEF DigestConsistency, WitnessVerifies, Sealed, PartOf
<1>12. CertifiedBackend(c) # "fail"
  BY <1>6 DEF CertifiedBackend, Sealed, PartOf
<1>13. SealedWithProvenance(c) # "fail" /\ ProtectedInvariants(c) # "fail"
  BY DEF SealedWithProvenance, ProtectedInvariants
<1>14. ComparisonCorpus(q, c) # "fail"
  <2>1. CASE ~Comparable(q, c)
    BY <2>1 DEF ComparisonCorpus
  <2>2. CASE Comparable(q, c)
    <3>1. c.comparison # None /\ c.comparison.question = r /\ c.checkpoint = a
      BY <1>6, <1>7, <2>2 DEF Comparable, Sealed, PartOf
    <3>2. /\ SideCovers(c.comparison.baseline, o, r) \in {"pass", "absent"}
          /\ SideCovers(c.comparison.candidate, p, r) \in {"pass", "absent"}
      BY <1>7, <3>1, LeftSideCovers DEF r
    <3>3. CheckpointID(c.checkpoint) = p
      BY <1>4, <3>1 DEF CheckpointID
    <3> QED
      BY <1>5, <2>2, <3>1, <3>2, <3>3 DEF ComparisonCorpus
  <2> QED
    BY <2>1, <2>2
<1>15. NoMetricRegression(q, c) = "fail" => Regressed(c)
  <2>1. SUFFICES ASSUME NoMetricRegression(q, c) = "fail" PROVE Regressed(c)
    OBVIOUS
  <2>2. c.comparison # None
    BY <2>1 DEF NoMetricRegression, Comparable
  <2> QED
    BY <1>7, <2>1, <2>2, LeftSidesRegress DEF f
<1> QED
  BY <1>8, <1>9, <1>10, <1>11, <1>12, <1>13, <1>14, <1>15 DEF Verdicts, Clause

\* Missing evidence is never held against a candidate: whatever was left out of
\* evidence that was coherent, an adverse answer is a checkpoint that is not
\* ready or a ready case that stopped being ready.
THEOREM AbsencesAreNotAdverse == Spec => []AbsenceIsNotAdverse
<1>1. Inv /\ NothingForeign => AbsenceIsNotAdverse
  <2> SUFFICES ASSUME Inv, NothingForeign, decision # None, forged = 0,
                      NEW k \in Clause, decision[k] = "fail"
               PROVE  \/ k = "ready_assessment" /\ candidate.assessment.verdict # "ready"
                      \/ k = "no_metric_regression" /\ Regressed(candidate)
    BY DEF AbsenceIsNotAdverse
  <2>1. decision = Decide(policy, candidate)
    BY DEF Inv
  <2>2. Established(policy) /\ Verdicts(policy, candidate)[k] = "fail"
    BY <2>1 DEF Decide
  <2>3. PICK q, whole : /\ Coherent(q, whole)
                        /\ PartOf(policy.profile, q.profile)
                        /\ RestOf(candidate, whole)
    BY DEF NothingForeign
  <2>4. policy.profile = q.profile
    BY <2>2, <2>3 DEF Established, PartOf
  <2> QED
    BY <2>2, <2>3, <2>4, RestIsNotAdverse
<1> QED
  BY <1>1, InitInv, NextInv, NothingForeignInit, NothingForeignKept, PTL DEF Spec
=============================================================================
