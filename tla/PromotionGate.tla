--------------------------- MODULE PromotionGate ---------------------------
(***************************************************************************)
(* The promotion gate: nine clauses over the evidence a caller assembled   *)
(* for one sealed checkpoint, and the decision, which authorizes only when *)
(* every one of them passes.                                               *)
(*                                                                         *)
(* Identities are digests of what they identify, so an artifact stands for *)
(* its own identity, an assessment names the artifact it was taken         *)
(* against, a corpus is the sequence of its case digests, and an execution *)
(* identity is the run and the executor it was derived from.  What the     *)
(* caller did not supply is None.  The evidence starts out coherent; then  *)
(* a caller substitutes parts of it, up to MaxDefects of them, before the  *)
(* gate is asked.                                                          *)
(***************************************************************************)
EXTENDS Naturals, Sequences, FiniteSets

CONSTANTS None,
          Profile, Plan, World, Digest, Witness, Backend,
          Certified,        \* certifiedBackends
          Corpora,          \* the corpora NewCorpus accepts: sequences of
                            \* case digests, none of them twice
          MaxDefects        \* bound: parts of the evidence substituted

ASSUME GateAssumption ==
  /\ Certified \subseteq Backend
  /\ Corpora \subseteq Seq(Digest)
  /\ \A s \in Corpora : \A i, j \in DOMAIN s : s[i] = s[j] => i = j
  /\ MaxDefects \in Nat

VARIABLES policy, candidate, forged, removed, decision

vars == <<policy, candidate, forged, removed, decision>>

Artifact == [plan : Plan, world : World, initial : Digest, witness : Witness]
Verdict == {"ready", "needs_input"}
Assessed(a, f, v) == [of |-> a, profile |-> f, verdict |-> v]
Case(a, f, v) == [checkpoint |-> a, assessment |-> Assessed(a, f, v)]

\* CheckpointID commits to the plan (and the key, of which there is one here),
\* SemanticRunID to the input and the plan.
CheckpointID(a) == a.plan
RunID(a) == <<a.initial, a.world, a.plan>>
ExecutionID(a, x) == [run |-> RunID(a), executor |-> x]

-----------------------------------------------------------------------------
(* Clauses over the candidate alone.                                       *)

Sealed(c) == c.checkpoint # None

WitnessVerifies(c) == c.witness # None /\ c.witness = c.checkpoint.witness

StaticValidation(c) ==
  IF ~Sealed(c) \/ c.plan = None THEN "absent"
  ELSE IF c.plan # c.checkpoint.plan THEN "fail" ELSE "pass"

\* Sealing requires the only provenance policy there is.
SealedWithProvenance(c) == IF Sealed(c) THEN "pass" ELSE "absent"

ProtectedInvariants(c) ==
  IF Sealed(c) /\ WitnessVerifies(c) THEN "pass" ELSE "absent"

ReadyAssessment(q, c) ==
  IF ~Sealed(c) \/ c.assessment = None THEN "absent"
  ELSE IF c.assessment.of # c.checkpoint THEN "absent"
  ELSE IF c.assessment.profile # q.profile THEN "absent"
  ELSE IF c.assessment.verdict # "ready" THEN "fail" ELSE "pass"

PinnedIdentities(c) ==
  IF ~Sealed(c) \/ c.plan = None \/ c.assessment = None \/ c.execution = None
  THEN "absent"
  ELSE IF c.plan # c.checkpoint.plan \/ c.assessment.of # c.checkpoint
  THEN "fail" ELSE "pass"

DigestConsistency(c) ==
  IF ~Sealed(c) \/ c.assessment = None \/ c.witness = None THEN "absent"
  ELSE IF ~WitnessVerifies(c) \/ c.assessment.of # c.checkpoint
  THEN "fail" ELSE "pass"

CertifiedBackend(c) ==
  IF ~Sealed(c) \/ c.executor = None \/ c.execution = None THEN "absent"
  ELSE IF c.execution # ExecutionID(c.checkpoint, c.executor) THEN "fail"
  ELSE IF c.executor \notin Certified THEN "fail" ELSE "pass"

-----------------------------------------------------------------------------
(* Clauses over the comparison.                                            *)

\* A loop that returns at the first case that does not pass.
FirstRefusal(cases, Check(_)) ==
  IF \A i \in DOMAIN cases : Check(cases[i]) = "pass" THEN "pass"
  ELSE IF \E i \in DOMAIN cases :
            /\ Check(cases[i]) = "absent"
            /\ \A j \in 1..(i - 1) : Check(cases[j]) = "pass"
  THEN "absent" ELSE "fail"

\* One case of one side answers the comparison's question.
CaseAnswers(k, id, question) ==
  IF k.checkpoint = None \/ k.assessment = None THEN "absent"
  ELSE IF /\ CheckpointID(k.checkpoint) = id
          /\ k.checkpoint.world = question.world
          /\ k.assessment.of = k.checkpoint
          /\ k.assessment.profile = question.profile
  THEN "pass" ELSE "fail"

\* A variant that counts the cases and does not look at which they are.
VerifyCorpusByCount(cases, corpus) == Len(cases) = Len(corpus)

\* VerifyCorpusIdentity: these digests, in this order, are that corpus.
VerifyCorpus(cases, corpus) ==
  /\ cases # << >>
  /\ [i \in DOMAIN cases |-> cases[i].checkpoint.initial] = corpus

SideCovers(cases, id, question) ==
  LET Check(k) == CaseAnswers(k, id, question) IN
  IF cases = << >> THEN "absent"
  ELSE IF FirstRefusal(cases, Check) # "pass" THEN FirstRefusal(cases, Check)
  ELSE IF VerifyCorpus(cases, question.corpus) THEN "pass" ELSE "fail"

\* Evidence that answers a comparison under the profile the target requires.
Comparable(q, c) ==
  /\ Sealed(c)
  /\ c.comparison # None
  /\ c.comparison.question # None
  /\ c.comparison.question.profile = q.profile

ComparisonCorpus(q, c) ==
  IF ~Comparable(q, c) THEN "absent"
  ELSE LET e == c.comparison
           baseline == SideCovers(e.baseline, e.question.baseline, e.question)
           side == SideCovers(e.candidate, e.question.candidate, e.question)
       IN IF CheckpointID(c.checkpoint) # e.question.candidate THEN "fail"
          ELSE IF baseline # "pass" THEN baseline ELSE side

Ready(cases) == {i \in DOMAIN cases : cases[i].assessment.verdict = "ready"}

\* The baseline case an initial state is indexed to: the last one wins.
Indexed(cases, d, i) ==
  /\ i \in DOMAIN cases
  /\ cases[i].checkpoint.initial = d
  /\ \A j \in DOMAIN cases : cases[j].checkpoint.initial = d => j <= i

\* A variant that asks for the profile before it asks whether there is an
\* assessment, whose profile then reads as the empty one.
CaseUnderProfileFirst(k, f) ==
  IF k.assessment = None THEN "fail"
  ELSE IF k.checkpoint = None THEN "absent"
  ELSE IF k.assessment.profile # f THEN "fail" ELSE "pass"

CaseUnder(k, f) ==
  IF k.checkpoint = None \/ k.assessment = None THEN "absent"
  ELSE IF k.assessment.profile # f THEN "fail" ELSE "pass"

\* A candidate case has a baseline case, and is ready if that one is.
CaseKeepsReadiness(k, baseline, f) ==
  IF CaseUnder(k, f) # "pass" THEN CaseUnder(k, f)
  ELSE IF \E i \in DOMAIN baseline :
            /\ Indexed(baseline, k.checkpoint.initial, i)
            /\ i \in Ready(baseline) => k.assessment.verdict = "ready"
  THEN "pass" ELSE "fail"

NoMetricRegression(q, c) ==
  IF ~Comparable(q, c) THEN "absent"
  ELSE LET b == c.comparison.baseline
           k == c.comparison.candidate
           Under(x) == CaseUnder(x, q.profile)
           Keeps(x) == CaseKeepsReadiness(x, b, q.profile)
       IN IF b = << >> \/ k = << >> THEN "absent"
          ELSE IF Len(b) # Len(k) THEN "fail"
          ELSE IF FirstRefusal(b, Under) # "pass" THEN FirstRefusal(b, Under)
          ELSE IF FirstRefusal(k, Keeps) # "pass" THEN FirstRefusal(k, Keeps)
          ELSE IF Cardinality(Ready(k)) < Cardinality(Ready(b)) THEN "fail"
          ELSE "pass"

-----------------------------------------------------------------------------
(* The decision.                                                           *)

Established(q) == q.version > 0 /\ q.key # None /\ q.profile # None

Clause == {"static_validation", "sealed_with_provenance",
           "protected_invariants", "ready_assessment", "pinned_identities",
           "comparison_corpus", "no_metric_regression", "digest_consistency",
           "certified_backend"}

Verdicts(q, c) ==
  [k \in Clause |->
     CASE k = "static_validation"      -> StaticValidation(c)
       [] k = "sealed_with_provenance" -> SealedWithProvenance(c)
       [] k = "protected_invariants"   -> ProtectedInvariants(c)
       [] k = "ready_assessment"       -> ReadyAssessment(q, c)
       [] k = "pinned_identities"      -> PinnedIdentities(c)
       [] k = "comparison_corpus"      -> ComparisonCorpus(q, c)
       [] k = "no_metric_regression"   -> NoMetricRegression(q, c)
       [] k = "digest_consistency"     -> DigestConsistency(c)
       [] k = "certified_backend"      -> CertifiedBackend(c)]

\* A policy that is not one establishes nothing about the candidate.
Decide(q, c) ==
  IF Established(q) THEN Verdicts(q, c) ELSE [k \in Clause |-> "absent"]

Authorized(d) == \A k \in Clause : d[k] = "pass"

-----------------------------------------------------------------------------
(* The evidence a caller assembles.                                        *)

Question(b, k, f, w, corpus) ==
  [baseline |-> b, candidate |-> k, profile |-> f, world |-> w, corpus |-> corpus]

Side(p, w, i, corpus, f, verdicts) ==
  [n \in DOMAIN corpus |->
     Case([plan |-> p, world |-> w, initial |-> corpus[n], witness |-> i],
          f, verdicts[n])]

\* Coherent evidence: one profile, two plans over one corpus in one world, and
\* the checkpoint a certified backend produced under the second plan.
CoherentCandidate(q, p, o, w, i, x, corpus, v, bv, cv) ==
  LET a == [plan |-> p, world |-> w, initial |-> corpus[1], witness |-> i]
  IN [checkpoint |-> a, plan |-> p,
      assessment |-> Assessed(a, q.profile, v), witness |-> i,
      execution |-> ExecutionID(a, x), executor |-> x,
      comparison |-> [question |-> Question(o, p, q.profile, w, corpus),
                      baseline |-> Side(o, w, i, corpus, q.profile, bv),
                      candidate |-> Side(p, w, i, corpus, q.profile, cv)]]

Coherent(q, c) ==
  \E p, o \in Plan, w \in World, i \in Witness, x \in Certified,
     corpus \in Corpora, v \in Verdict :
  \E bv, cv \in [DOMAIN corpus -> Verdict] :
    /\ p # o
    /\ c = CoherentCandidate(q, p, o, w, i, x, corpus, v, bv, cv)

Init ==
  /\ policy \in [version : {1}, key : {"target"}, profile : Profile]
  /\ Coherent(policy, candidate)
  /\ forged = 0
  /\ removed = 0
  /\ decision = None

\* The values that differ from a record in one field.
Vary(r, field, values) == {[r EXCEPT ![field] = v] : v \in values \ {r[field]}}

VaryArtifact(a) ==
  Vary(a, "plan", Plan) \cup Vary(a, "world", World)
    \cup Vary(a, "initial", Digest) \cup Vary(a, "witness", Witness)

\* Another assessment, under another profile or of another checkpoint.
VaryAssessment(m) ==
  Vary(m, "profile", Profile) \cup Vary(m, "of", VaryArtifact(m.of))

\* Another run of the case, or one half of it taken from elsewhere.
VaryCase(k) ==
  {Case(a, k.assessment.profile, k.assessment.verdict) : a \in VaryArtifact(k.checkpoint)}
    \cup Vary(k, "checkpoint", VaryArtifact(k.checkpoint))
    \cup Vary(k, "assessment", VaryAssessment(k.assessment))

VaryQuestion(q) ==
  Vary(q, "baseline", Plan) \cup Vary(q, "candidate", Plan)
    \cup Vary(q, "profile", Profile) \cup Vary(q, "world", World)
    \cup Vary(q, "corpus", Corpora)

VaryExecution(e) ==
  Vary(e, "executor", Backend) \cup {[e EXCEPT !.run = r] : r \in
     {RunID(a) : a \in Artifact} \ {e.run}}

Undecided == decision = None /\ forged + removed < MaxDefects

Substituted == Undecided /\ forged' = forged + 1 /\ UNCHANGED <<policy, removed, decision>>

\* A part of the candidate that belongs to something else.
SubstitutePart ==
  /\ Substituted
  /\ \/ /\ candidate.checkpoint # None
        /\ \E a \in VaryArtifact(candidate.checkpoint) :
             candidate' = [candidate EXCEPT !.checkpoint = a]
     \/ /\ candidate.assessment # None
        /\ \E m \in VaryAssessment(candidate.assessment) :
             candidate' = [candidate EXCEPT !.assessment = m]
     \/ /\ candidate.execution # None
        /\ \E e \in VaryExecution(candidate.execution) :
             candidate' = [candidate EXCEPT !.execution = e]
     \/ \E d \in Vary(candidate, "plan", Plan) \cup Vary(candidate, "witness", Witness)
               \cup Vary(candidate, "executor", Backend) : candidate' = d

\* Evidence that answers another question, or another question altogether.
SubstituteEvidence ==
  /\ Substituted
  /\ candidate.comparison # None
  /\ \/ /\ candidate.comparison.question # None
        /\ \E q \in VaryQuestion(candidate.comparison.question) :
             candidate' = [candidate EXCEPT !.comparison.question = q]
     \/ \E side \in {"baseline", "candidate"} :
        \E i \in DOMAIN candidate.comparison[side] :
          LET k == candidate.comparison[side][i] IN
          \/ /\ k.checkpoint # None /\ k.assessment # None
             /\ \E l \in VaryCase(k) :
                  candidate' = [candidate EXCEPT !.comparison[side][i] = l]
          \/ candidate' = [candidate EXCEPT !.comparison[side] = SubSeq(@, 1, i - 1)]

Removed == Undecided /\ removed' = removed + 1 /\ UNCHANGED <<forged, decision>>

\* A part of the candidate or of its evidence that was not supplied.
RemovePart ==
  /\ Removed
  /\ \/ \E part \in DOMAIN candidate :
          /\ candidate[part] # None
          /\ candidate' = [candidate EXCEPT ![part] = None]
     \/ /\ candidate.comparison # None
        /\ \/ candidate' = [candidate EXCEPT !.comparison.question = None]
           \/ \E side \in {"baseline", "candidate"}, part \in {"checkpoint", "assessment"} :
              \E i \in DOMAIN candidate.comparison[side] :
                candidate' = [candidate EXCEPT !.comparison[side][i][part] = None]
  /\ UNCHANGED policy

\* A target with no policy, or one half written.
RemovePolicy ==
  /\ Removed
  /\ \/ policy' = [version |-> 0, key |-> None, profile |-> None]
     \/ policy' = [policy EXCEPT !.profile = None]
  /\ UNCHANGED candidate

Evaluate ==
  /\ decision = None
  /\ decision' = Decide(policy, candidate)
  /\ UNCHANGED <<policy, candidate, forged, removed>>

Next == SubstitutePart \/ SubstituteEvidence \/ RemovePart \/ RemovePolicy \/ Evaluate

Spec == Init /\ [][Next]_vars

-----------------------------------------------------------------------------
(* Properties.                                                             *)

\* The promoted checkpoint, its plan, its assessment, its evidence of passing
\* invariants and the certified execution that produced it are one thing.
OneCheckpoint(q, c) ==
  /\ c.plan = c.checkpoint.plan
  /\ c.witness = c.checkpoint.witness
  /\ c.assessment.of = c.checkpoint
  /\ c.assessment.profile = q.profile
  /\ c.assessment.verdict = "ready"
  /\ c.execution = ExecutionID(c.checkpoint, c.executor)
  /\ c.executor \in Certified

\* Case by case, the two sides started from the same state in the same world,
\* each was assessed under the required profile, the candidate side is the
\* declaration being promoted, and no ready case stopped being ready.
OneComparison(q, c) ==
  LET b == c.comparison.baseline
      k == c.comparison.candidate IN
  /\ b # << >> /\ DOMAIN b = DOMAIN k
  /\ \A i \in DOMAIN b :
       /\ b[i].checkpoint.initial = k[i].checkpoint.initial
       /\ b[i].checkpoint.world = k[i].checkpoint.world
       /\ CheckpointID(k[i].checkpoint) = CheckpointID(c.checkpoint)
       /\ b[i].assessment.of = b[i].checkpoint
       /\ k[i].assessment.of = k[i].checkpoint
       /\ b[i].assessment.profile = q.profile
       /\ k[i].assessment.profile = q.profile
       /\ b[i].assessment.verdict = "ready" => k[i].assessment.verdict = "ready"

\* Nine clauses that each look at a part agree on the whole: an authorized
\* decision is about one checkpoint and one comparison, both under the profile
\* the target requires, whatever combination of parts was substituted.
AuthorizationIsOneStory ==
  decision # None /\ Authorized(decision) =>
    OneCheckpoint(policy, candidate) /\ OneComparison(policy, candidate)

Regressed(c) ==
  \E i \in DOMAIN c.comparison.baseline :
    /\ c.comparison.baseline[i].assessment # None
    /\ c.comparison.baseline[i].assessment.verdict = "ready"
    /\ c.comparison.candidate[i].assessment # None
    /\ c.comparison.candidate[i].assessment.verdict # "ready"

\* Missing evidence is never held against a candidate: when everything supplied
\* is coherent, the only adverse answers are a checkpoint that is not ready and
\* a ready case that stopped being ready.
AbsenceIsNotAdverse ==
  decision # None /\ forged = 0 =>
    \A k \in Clause : decision[k] = "fail" =>
      \/ k = "ready_assessment" /\ candidate.assessment.verdict # "ready"
      \/ k = "no_metric_regression" /\ Regressed(candidate)
=============================================================================
