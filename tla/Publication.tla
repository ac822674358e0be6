---------------------------- MODULE Publication ----------------------------
(***************************************************************************)
(* One publication target: the append-only history of its policies, the    *)
(* append-only history of its publications, and the callers that move them *)
(* concurrently.  A publisher reads the active policy, evaluates the gate, *)
(* reads the current publication and then appends one; between any two of  *)
(* these calls other publishers and operators append theirs.  Both         *)
(* adapters are modelled: the memory adapter decides an append under one   *)
(* lock, the Postgres adapter in an INSERT ... SELECT and, when that       *)
(* inserts nothing, a second statement that looks at what is recorded.     *)
(*                                                                         *)
(* A candidate stands for the checkpoint, assessment, run and execution a  *)
(* request names; ProfileOf is the profile its assessment is ready under,  *)
(* and Sound the candidates that pass the gate clauses no policy affects.  *)
(***************************************************************************)
EXTENDS Naturals

CONSTANTS Publisher, Operator, Reader,   \* concurrent requests of each kind
          Candidate, Profile,
          ProfileOf,                     \* [Candidate -> Profile]
          Sound,                         \* SUBSET Candidate
          Adapters,                      \* the adapters a process may run on
          MaxVersion, MaxPolicy          \* bounds on the two histories

ASSUME PublicationAssumption ==
  /\ ProfileOf \in [Candidate -> Profile]
  /\ Sound \subseteq Candidate
  /\ Adapters \subseteq {"memory", "postgres"}
  /\ MaxVersion \in Nat /\ MaxPolicy \in Nat

VARIABLES adapter,        \* the one this process was started with
          policies,       \* the recorded policies of the target
          publications,   \* the recorded publications of the target
          pc, candidate, expected, pinned, reply,   \* each publisher's request
          opc, draft, oreply,                       \* each operator's request
          rpc, asked, seen, told                    \* each reader's request

publisherVars == <<pc, candidate, expected, pinned, reply>>
operatorVars  == <<opc, draft, oreply>>
readerVars    == <<rpc, asked, seen, told>>
vars == <<adapter, policies, publications, publisherVars, operatorVars, readerVars>>

PolicyRow == [version : Nat \ {0}, profile : Profile]
Row == [version : Nat \ {0}, policy : Nat \ {0}, candidate : Candidate]

Policy(v, f) == [version |-> v, profile |-> f]
Record(v, q, c) == [version |-> v, policy |-> q, candidate |-> c]

-----------------------------------------------------------------------------
(* The two append-only tables.                                             *)

\* Variants of the succession check: one that lets versions be skipped, and
\* one without the primary key, that lets a version be written again.
FollowsAfterGap(v, rows) == \A r \in rows : r.version < v
FollowsAgain(v, rows) == v = 1 \/ \E r \in rows : r.version + 1 = v

\* version = 1 + coalesce(max(version), 0).
Follows(v, rows) ==
  /\ \A r \in rows : r.version < v
  /\ v = 1 \/ \E r \in rows : r.version + 1 = v

\* ORDER BY version DESC LIMIT 1.
IsLatest(r, rows) == r \in rows /\ \A s \in rows : s.version <= r.version

CurrentVersion(v, rows) ==
  \/ rows = {} /\ v = 0
  \/ \E r \in rows : IsLatest(r, rows) /\ v = r.version

Init ==
  /\ adapter \in Adapters
  /\ policies = {}
  /\ publications = {}
  /\ pc = [p \in Publisher |-> "ready"]
  /\ candidate \in [Publisher -> Candidate]
  /\ expected = [p \in Publisher |-> 0]
  /\ pinned = [p \in Publisher |-> 0]
  /\ reply = [p \in Publisher |-> "none"]
  /\ opc = [o \in Operator |-> "ready"]
  /\ draft \in [Operator -> [version : {1}, profile : Profile]]
  /\ oreply = [o \in Operator |-> "none"]
  /\ rpc = [r \in Reader |-> "ready"]
  /\ asked = [r \in Reader |-> 0]
  /\ seen = [r \in Reader |-> 0]
  /\ told = [r \in Reader |-> "none"]

-----------------------------------------------------------------------------
(* A publisher: CreatePublication, app.Publish and advancePointer.         *)

\* The policy is consulted through the clause that asks for a ready assessment
\* under the profile it requires; the other clauses ask the candidate alone.
Authorizes(q, c) == c \in Sound /\ q.profile = ProfileOf[c]

Answer(p, to) ==
  /\ pc' = [pc EXCEPT ![p] = "ready"]
  /\ reply' = [reply EXCEPT ![p] = to]
  /\ UNCHANGED <<candidate, expected, pinned>>

Proceed(p, to) ==
  /\ pc' = [pc EXCEPT ![p] = to]
  /\ UNCHANGED <<candidate, expected, pinned, reply>>

\* A request arrives, for any candidate and from any belief about the target:
\* a repeat of an earlier request is one of these.
Request(p) ==
  /\ pc[p] = "ready"
  /\ \E c \in Candidate, v \in 0..(MaxVersion - 1) :
       /\ candidate' = [candidate EXCEPT ![p] = c]
       /\ expected' = [expected EXCEPT ![p] = v]
  /\ pc' = [pc EXCEPT ![p] = "gate"]
  /\ pinned' = [pinned EXCEPT ![p] = 0]
  /\ reply' = [reply EXCEPT ![p] = "none"]
  /\ UNCHANGED <<policies, publications, operatorVars, readerVars>>

\* The active policy is read and the gate evaluated.  No policy, or one that
\* does not authorize the candidate, is a refusal.
EvaluateGate(p) ==
  /\ pc[p] = "gate"
  /\ \/ \E q \in policies :
          /\ IsLatest(q, policies)
          /\ Authorizes(q, candidate[p])
          /\ pinned' = [pinned EXCEPT ![p] = q.version]
          /\ pc' = [pc EXCEPT ![p] = "pointer"]
          /\ UNCHANGED <<candidate, expected, reply>>
     \/ /\ \A q \in policies :
             ~(IsLatest(q, policies) /\ Authorizes(q, candidate[p]))
        /\ Answer(p, "refused")
  /\ UNCHANGED <<policies, publications, operatorVars, readerVars>>

\* publicationFor: the record this request would append.
NextRecord(p) == Record(expected[p] + 1, pinned[p], candidate[p])

\* samePublication: everything pinned, the version aside.
SamePublication(r, s) == r.policy = s.policy /\ r.candidate = s.candidate

\* A variant that compares whole records, their versions too.
AlreadyPublishedWhole(p) ==
  \E r \in publications : IsLatest(r, publications) /\ r = NextRecord(p)

AlreadyPublished(p) ==
  \E r \in publications :
    IsLatest(r, publications) /\ SamePublication(r, NextRecord(p))

\* The current publication is read.  Already publishing this is asked first;
\* then a belief that no longer holds is a conflict.
ReadPointer(p) ==
  /\ pc[p] = "pointer"
  /\ \/ AlreadyPublished(p) /\ Answer(p, "unchanged")
     \/ /\ ~AlreadyPublished(p)
        /\ ~CurrentVersion(expected[p], publications)
        /\ Answer(p, "conflict")
     \/ /\ ~AlreadyPublished(p)
        /\ CurrentVersion(expected[p], publications)
        /\ Proceed(p, "write")
  /\ UNCHANGED <<policies, publications, operatorVars, readerVars>>

\* A variant that takes any record at the version for this one.
ExplanationByVersion(p) ==
  IF \E r \in publications : r.version = expected[p] + 1
  THEN "recorded" ELSE "conflict"

\* What an append that inserted nothing means: the version is recorded with
\* this very content, or it is a conflict.
Explanation(p) == IF NextRecord(p) \in publications THEN "recorded" ELSE "conflict"

\* The memory adapter: one step under the write lock.
PublishLocked(p) ==
  /\ adapter = "memory"
  /\ pc[p] = "write"
  /\ \/ /\ Follows(expected[p] + 1, publications)
        /\ publications' = publications \cup {NextRecord(p)}
        /\ Answer(p, "recorded")
     \/ /\ ~Follows(expected[p] + 1, publications)
        /\ Answer(p, Explanation(p))
        /\ UNCHANGED publications
  /\ UNCHANGED <<policies, operatorVars, readerVars>>

\* The Postgres adapter: INSERT ... SELECT ... WHERE.  A unique violation
\* inserts nothing, like a WHERE clause that selects nothing.  The statement
\* may also commit with its answer lost.
PublishInsert(p) ==
  /\ adapter = "postgres"
  /\ pc[p] = "write"
  /\ \/ /\ Follows(expected[p] + 1, publications)
        /\ publications' = publications \cup {NextRecord(p)}
        /\ Answer(p, "recorded") \/ Answer(p, "error")
     \/ /\ ~Follows(expected[p] + 1, publications)
        /\ Proceed(p, "explain")
        /\ UNCHANGED publications
  /\ UNCHANGED <<policies, operatorVars, readerVars>>

\* reportExistingPublication.
PublishExplain(p) ==
  /\ pc[p] = "explain"
  /\ Answer(p, Explanation(p))
  /\ UNCHANGED <<policies, publications, operatorVars, readerVars>>

\* The caller goes away, the process dies, or a store call fails unapplied.
Abandon(p) ==
  /\ pc[p] # "ready"
  /\ Answer(p, "error")
  /\ UNCHANGED <<policies, publications, operatorVars, readerVars>>

-----------------------------------------------------------------------------
(* An operator: PutPolicy.                                                 *)

OAnswer(o, to) ==
  /\ opc' = [opc EXCEPT ![o] = "ready"]
  /\ oreply' = [oreply EXCEPT ![o] = to]
  /\ UNCHANGED draft

\* The handler asks whether this version is recorded with this content.
PolicyRequest(o) ==
  /\ opc[o] = "ready"
  /\ \E v \in 1..MaxPolicy, f \in Profile :
       /\ draft' = [draft EXCEPT ![o] = Policy(v, f)]
       /\ \/ /\ Policy(v, f) \in policies
             /\ oreply' = [oreply EXCEPT ![o] = "exists"]
             /\ UNCHANGED opc
          \/ /\ Policy(v, f) \notin policies
             /\ opc' = [opc EXCEPT ![o] = "put"]
             /\ oreply' = [oreply EXCEPT ![o] = "none"]
  /\ UNCHANGED <<policies, publications, publisherVars, readerVars>>

PolicyExplanation(o) == IF draft[o] \in policies THEN "created" ELSE "conflict"

PutLocked(o) ==
  /\ adapter = "memory"
  /\ opc[o] = "put"
  /\ \/ /\ Follows(draft[o].version, policies)
        /\ policies' = policies \cup {draft[o]}
        /\ OAnswer(o, "created")
     \/ /\ ~Follows(draft[o].version, policies)
        /\ OAnswer(o, PolicyExplanation(o))
        /\ UNCHANGED policies
  /\ UNCHANGED <<publications, publisherVars, readerVars>>

PutInsert(o) ==
  /\ adapter = "postgres"
  /\ opc[o] = "put"
  /\ \/ /\ Follows(draft[o].version, policies)
        /\ policies' = policies \cup {draft[o]}
        /\ OAnswer(o, "created") \/ OAnswer(o, "error")
     \/ /\ ~Follows(draft[o].version, policies)
        /\ opc' = [opc EXCEPT ![o] = "explain"]
        /\ UNCHANGED <<policies, draft, oreply>>
  /\ UNCHANGED <<publications, publisherVars, readerVars>>

\* reportExistingPolicy.
PutExplain(o) ==
  /\ opc[o] = "explain"
  /\ OAnswer(o, PolicyExplanation(o))
  /\ UNCHANGED <<policies, publications, publisherVars, readerVars>>

PolicyAbandon(o) ==
  /\ opc[o] # "ready"
  /\ OAnswer(o, "error")
  /\ UNCHANGED <<policies, publications, publisherVars, readerVars>>

-----------------------------------------------------------------------------
(* A reader: GetPublication with a version.                                *)

\* The first read: what is current.
ReadCurrent(r) ==
  /\ rpc[r] = "ready"
  /\ \E v \in 1..MaxVersion : asked' = [asked EXCEPT ![r] = v]
  /\ \E v \in 0..MaxVersion : /\ CurrentVersion(v, publications)
                              /\ seen' = [seen EXCEPT ![r] = v]
  /\ rpc' = [rpc EXCEPT ![r] = "at_version"]
  /\ told' = [told EXCEPT ![r] = "none"]
  /\ UNCHANGED <<policies, publications, publisherVars, operatorVars>>

\* The second read: the version asked for, and the status derived from both.
ReadAtVersion(r) ==
  /\ rpc[r] = "at_version"
  /\ told' = [told EXCEPT ![r] =
       IF \A s \in publications : s.version # asked[r] THEN "not_found"
       ELSE IF asked[r] = seen[r] THEN "published" ELSE "superseded"]
  /\ rpc' = [rpc EXCEPT ![r] = "ready"]
  /\ seen' = [seen EXCEPT ![r] = 0]
  /\ UNCHANGED <<policies, publications, publisherVars, operatorVars, asked>>

-----------------------------------------------------------------------------
PublisherStep(p) ==
  \/ Request(p) \/ EvaluateGate(p) \/ ReadPointer(p) \/ PublishLocked(p)
  \/ PublishInsert(p) \/ PublishExplain(p) \/ Abandon(p)

OperatorStep(o) ==
  \/ PolicyRequest(o) \/ PutLocked(o) \/ PutInsert(o) \/ PutExplain(o)
  \/ PolicyAbandon(o)

Next ==
  /\ \/ \E p \in Publisher : PublisherStep(p)
     \/ \E o \in Operator : OperatorStep(o)
     \/ \E r \in Reader : ReadCurrent(r) \/ ReadAtVersion(r)
  /\ UNCHANGED adapter

Spec == Init /\ [][Next]_vars

-----------------------------------------------------------------------------
(* Properties.                                                             *)

\* Every variable keeps its type.
TypeOK ==
  /\ adapter \in Adapters
  /\ policies \subseteq PolicyRow
  /\ publications \subseteq Row
  /\ pc \in [Publisher -> {"ready", "gate", "pointer", "write", "explain"}]
  /\ candidate \in [Publisher -> Candidate]
  /\ expected \in [Publisher -> Nat]
  /\ pinned \in [Publisher -> Nat]
  /\ reply \in [Publisher -> {"none", "refused", "unchanged", "recorded",
                              "conflict", "error"}]
  /\ opc \in [Operator -> {"ready", "put", "explain"}]
  /\ draft \in [Operator -> PolicyRow]
  /\ oreply \in [Operator -> {"none", "exists", "created", "conflict", "error"}]
  /\ rpc \in [Reader -> {"ready", "at_version"}]
  /\ asked \in [Reader -> Nat]
  /\ seen \in [Reader -> Nat]
  /\ told \in [Reader -> {"none", "not_found", "published", "superseded"}]

Sequential(rows) ==
  \A r \in rows :
    /\ \A s \in rows : s.version = r.version => s = r
    /\ \A v \in 1..r.version : \E s \in rows : s.version = v

\* However publishers and operators race, each history is one record per
\* version, with no version skipped: nobody's record is overwritten, and
\* nobody's is lost between two others.
HistoryIsSequential == Sequential(policies) /\ Sequential(publications)

\* A retry, or two callers with the same decision, never leaves the target
\* publishing the same thing twice in a row: that could not be told from two
\* real decisions.
NoRepublication ==
  \A r, s \in publications :
    s.version = r.version + 1 => ~SamePublication(r, s)

\* Every publication is explained by the policy version it pins, as that
\* version reads now, though the policy may have moved on between the gate's
\* evaluation and the append, and any number of times since.
PublicationsAreAuthorized ==
  \A r \in publications :
    /\ \E q \in policies : q.version = r.policy
    /\ \A q \in policies : q.version = r.policy => Authorizes(q, r.candidate)

\* What a caller was told is what is recorded: a publication reported recorded
\* is at the version its caller expected to follow, one reported unchanged is
\* published, a policy reported created or existing says what its author
\* wrote, and a version a reader was shown exists.
RepliesAreBacked ==
  /\ \A p \in Publisher :
       /\ reply[p] = "recorded" => NextRecord(p) \in publications
       /\ reply[p] = "unchanged" =>
            \E r \in publications : SamePublication(r, NextRecord(p))
  /\ \A o \in Operator : oreply[o] \in {"created", "exists"} => draft[o] \in policies
  /\ \A r \in Reader : told[r] \in {"published", "superseded"} =>
       \E s \in publications : s.version = asked[r]

\* The concurrent target implements the ledger every reader of the audit
\* record relies on.
Ledger == INSTANCE PublicationLedger

ImplementsLedger == Ledger!Spec
=============================================================================
