----------------------------- MODULE Comparisons -----------------------------
(***************************************************************************)
(* Replay corpora, comparison policies and comparisons: what identifies    *)
(* them, how they are stored, and how a stored comparison becomes a kernel *)
(* value again.                                                            *)
(*                                                                         *)
(* A digest is one way and injective, so an identity is the tuple that is  *)
(* hashed.  A case is an initial state, written as its place in the order  *)
(* of the digests; a checkpoint key is a number for the same reason.       *)
(***************************************************************************)
EXTENDS Integers, Sequences, SequencesExt, FiniteSets, Functions

CONSTANTS Cases,      \* the states a corpus may hold
          SchemaOf,   \* [Cases -> schema]
          Codable,    \* the cases whose values the adapter's codec can decode
          PlanOf      \* PlanID -> the compiled [schema, checkpoints]

ASSUME ComparisonsAssumption ==
    /\ Cases \subseteq Nat /\ Codable \subseteq Cases
    /\ \A c \in Cases : c \in DOMAIN SchemaOf
    /\ \A p \in DOMAIN PlanOf : PlanOf[p].checkpoints \in Seq(Nat) /\ IsInjective(PlanOf[p].checkpoints)

None == <<>>

-----------------------------------------------------------------------------
(* Corpora.                                                                *)

\* The canonical tuple: the count and the digests in order.
CorpusID(cases) == <<"replay-corpus.v1", Len(cases), cases>>

OneSchema(cases) == \A i, j \in DOMAIN cases : SchemaOf[cases[i]] = SchemaOf[cases[j]]

\* A variant that drops the duplicates instead of refusing them.
NewCorpusWithoutDuplicates(cases) ==
    IF cases = <<>> \/ ~OneSchema(cases) THEN None
    ELSE LET kept == SetToSortSeq(Range(cases), <)
         IN  [cases |-> kept, schema |-> SchemaOf[kept[1]], id |-> CorpusID(kept)]

\* slices.SortFunc by digest: a case stands behind as many others as are less than it.
InOrder(cases) ==
    [i \in DOMAIN cases |->
        CHOOSE c \in Range(cases) : Cardinality({d \in Range(cases) : d < c}) = i - 1]

\* Not empty, one schema, in canonical order whatever order they came in, no case twice.
NewCorpus(cases) ==
    IF cases = <<>> \/ ~OneSchema(cases) \/ ~IsInjective(cases) THEN None
    ELSE LET ordered == InOrder(cases)
         IN  [cases |-> ordered, schema |-> SchemaOf[ordered[1]], id |-> CorpusID(ordered)]

\* Whether these digests, in this order, are the corpus of that identity.
VerifyCorpusIdentity(digests, expected) == digests # <<>> /\ CorpusID(digests) = expected

\* encodeCorpus: the cases and the columns beside them.
CorpusRow(corpus) == [document |-> corpus.cases, schema |-> corpus.schema, count |-> Len(corpus.cases)]

\* decodeCorpus and the checks of GetCorpus: every case must decode, the cases must be the
\* ones the identity names, and the columns must agree with them.
ReadCorpus(row, id) ==
    LET corpus == NewCorpus(row.document)
    IN  IF Range(row.document) \subseteq Codable /\ corpus # None
           /\ corpus.id = id /\ row.schema = corpus.schema /\ row.count = Len(corpus.cases)
        THEN corpus ELSE None

-----------------------------------------------------------------------------
(* Comparison policies and comparisons.                                    *)

CheckpointID(plan, key) == <<"checkpoint-id.v1", plan, key>>

Declares(plan, key) == key \in Range(PlanOf[plan].checkpoints)

\* The order of the identities: by baseline, then by candidate.
CorrespondenceLess(one, other) ==
    \/ one.baseline[3] < other.baseline[3]
    \/ one.baseline[3] = other.baseline[3] /\ one.candidate[3] < other.candidate[3]

Canonical(correspondences) == SortSeq(correspondences, CorrespondenceLess)

OneToOne(correspondences) ==
    /\ IsInjective([i \in DOMAIN correspondences |-> correspondences[i].baseline])
    /\ IsInjective([i \in DOMAIN correspondences |-> correspondences[i].candidate])

\* Pairs of keys become pairs of identities, in canonical order, one to one both ways.
NewComparisonPolicy(baseline, candidate, pairs) ==
    LET unordered == [i \in DOMAIN pairs |-> [baseline |-> CheckpointID(baseline, pairs[i].baseline),
                                              candidate |-> CheckpointID(candidate, pairs[i].candidate)]]
    IN  IF /\ pairs # <<>>
           /\ \A i \in DOMAIN pairs : Declares(baseline, pairs[i].baseline) /\ Declares(candidate, pairs[i].candidate)
           /\ OneToOne(unordered)
        THEN [baselinePlan |-> baseline, candidatePlan |-> candidate,
              correspondences |-> Canonical(unordered)]
        ELSE None

PolicyID(policy) == <<"comparison-policy.v1", policy.baselinePlan, policy.candidatePlan, policy.correspondences>>

Corresponds(policy, baseline, candidate) ==
    [baseline |-> baseline, candidate |-> candidate] \in Range(policy.correspondences)

\* A comparison is its request; one whose sides the policy does not relate is never built.
NewComparison(request) ==
    IF Corresponds(request.policy, request.baseline, request.candidate) THEN request ELSE None

ComparisonID(c) == <<"comparison.v1", c.baseline, c.candidate, c.profile, c.world, c.corpus, PolicyID(c.policy)>>

\* What a store keeps of a comparison.
ProjectComparison(tenant, c) ==
    [tenant |-> tenant, baseline |-> c.baseline, candidate |-> c.candidate, profile |-> c.profile,
     world |-> c.world, corpus |-> c.corpus, policyID |-> PolicyID(c.policy),
     baselinePlan |-> c.policy.baselinePlan, candidatePlan |-> c.policy.candidatePlan,
     correspondences |-> c.policy.correspondences]

-----------------------------------------------------------------------------
(* A stored comparison becomes a kernel value again.                       *)

\* The key of the declared checkpoint with this identity.
DeclaredKey(plan, identity) == CHOOSE key \in Range(PlanOf[plan].checkpoints) : CheckpointID(plan, key) = identity
DeclaredIdentities(plan) == {CheckpointID(plan, key) : key \in Range(PlanOf[plan].checkpoints)}

\* authoredPairs: an identity is searched for among the declarations, not inverted.
AuthoredPairs(record) ==
    IF \A i \in DOMAIN record.correspondences :
           /\ record.correspondences[i].baseline \in DeclaredIdentities(record.baselinePlan)
           /\ record.correspondences[i].candidate \in DeclaredIdentities(record.candidatePlan)
    THEN [i \in DOMAIN record.correspondences |->
             [baseline |-> DeclaredKey(record.baselinePlan, record.correspondences[i].baseline),
              candidate |-> DeclaredKey(record.candidatePlan, record.correspondences[i].candidate)]]
    ELSE None

RebuiltPolicy(record) == NewComparisonPolicy(record.baselinePlan, record.candidatePlan, AuthoredPairs(record))

Rebuilt(record) ==
    NewComparison([baseline |-> record.baseline, candidate |-> record.candidate, profile |-> record.profile,
                   world |-> record.world, corpus |-> record.corpus, policy |-> RebuiltPolicy(record)])

\* A variant that trusts the identity the row is filed under.
RehydrateFiledComparison(tenant, asked, record, plans) ==
    IF /\ record.tenant = tenant
       /\ {record.baselinePlan, record.candidatePlan} \subseteq plans
       /\ RebuiltPolicy(record) # None /\ Rebuilt(record) # None
    THEN Rebuilt(record) ELSE None

\* The policy and the comparison are built again from the row and must be the ones asked for.
RehydrateComparison(tenant, asked, record, plans) ==
    IF /\ record.tenant = tenant
       /\ {record.baselinePlan, record.candidatePlan} \subseteq plans
       /\ RebuiltPolicy(record) # None /\ Rebuilt(record) # None
       /\ ComparisonID(Rebuilt(record)) = asked
       /\ PolicyID(RebuiltPolicy(record)) = record.policyID
    THEN Rebuilt(record) ELSE None

=============================================================================
