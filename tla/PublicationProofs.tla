------------------------- MODULE PublicationProofs -------------------------
(***************************************************************************)
(* Proofs about Publication, for any number of publishers, operators and   *)
(* readers and either adapter.  Both histories only grow, and by a record  *)
(* that follows the last (the two Grow lemmas); everything else is what a  *)
(* request in flight still knows when its record is appended.              *)
(***************************************************************************)
EXTENDS Publication, TLAPS

USE PublicationAssumption

\* The record a request would append has the type of a row once a policy is
\* pinned.
LEMMA RecordType ==
  ASSUME NEW v \in Nat \ {0}, NEW q \in Nat \ {0}, NEW c \in Candidate
  PROVE  Record(v, q, c) \in Row
BY DEF Record, Row

\* A request past the gate has pinned a policy that authorizes its candidate.
PinsAuthority ==
  \A p \in Publisher : pc[p] \in {"pointer", "write", "explain"} =>
    \E q \in policies : q.version = pinned[p] /\ Authorizes(q, candidate[p])

TypeInv == TypeOK /\ PinsAuthority

\* The publications change only by a record that follows the last, of a
\* request that had read the pointer.
LEMMA PublicationsGrow ==
  ASSUME [Next]_vars
  PROVE  \/ publications' = publications
         \/ \E p \in Publisher :
              /\ pc[p] = "write"
              /\ Follows(expected[p] + 1, publications)
              /\ publications' = publications \cup {NextRecord(p)}
              /\ policies' = policies
<1>1. ASSUME NEW p \in Publisher, PublishLocked(p) \/ PublishInsert(p)
      PROVE  \/ publications' = publications
             \/ /\ pc[p] = "write"
                /\ Follows(expected[p] + 1, publications)
                /\ publications' = publications \cup {NextRecord(p)}
                /\ policies' = policies
  BY <1>1 DEF PublishLocked, PublishInsert
<1>2. ASSUME NEW p \in Publisher,
             \/ Request(p) \/ EvaluateGate(p) \/ ReadPointer(p)
             \/ PublishExplain(p) \/ Abandon(p)
      PROVE  publications' = publications
  BY <1>2 DEF Request, EvaluateGate, ReadPointer, PublishExplain, Abandon
<1>3. ASSUME NEW o \in Operator, OperatorStep(o)
      PROVE  publications' = publications
  BY <1>3 DEF OperatorStep, PolicyRequest, PutLocked, PutInsert, PutExplain,
              PolicyAbandon
<1>4. ASSUME NEW r \in Reader, ReadCurrent(r) \/ ReadAtVersion(r)
      PROVE  publications' = publications
  BY <1>4 DEF ReadCurrent, ReadAtVersion
<1>5. UNCHANGED vars => publications' = publications
  BY DEF vars
<1> QED
  BY <1>1, <1>2, <1>3, <1>4, <1>5 DEF Next, PublisherStep

\* The policies change only by a draft that follows the last.
LEMMA PoliciesGrow ==
  ASSUME [Next]_vars
  PROVE  \/ policies' = policies
         \/ \E o \in Operator :
              /\ opc[o] = "put"
              /\ Follows(draft[o].version, policies)
              /\ policies' = policies \cup {draft[o]}
              /\ publications' = publications
<1>1. ASSUME NEW o \in Operator, PutLocked(o) \/ PutInsert(o)
      PROVE  \/ policies' = policies
             \/ /\ opc[o] = "put"
                /\ Follows(draft[o].version, policies)
                /\ policies' = policies \cup {draft[o]}
                /\ publications' = publications
  BY <1>1 DEF PutLocked, PutInsert
<1>2. ASSUME NEW o \in Operator,
             PolicyRequest(o) \/ PutExplain(o) \/ PolicyAbandon(o)
      PROVE  policies' = policies
  BY <1>2 DEF PolicyRequest, PutExplain, PolicyAbandon
<1>3. ASSUME NEW p \in Publisher, PublisherStep(p)
      PROVE  policies' = policies
  BY <1>3 DEF PublisherStep, Request, EvaluateGate, ReadPointer, PublishLocked,
              PublishInsert, PublishExplain, Abandon
<1>4. ASSUME NEW r \in Reader, ReadCurrent(r) \/ ReadAtVersion(r)
      PROVE  policies' = policies
  BY <1>4 DEF ReadCurrent, ReadAtVersion
<1>5. UNCHANGED vars => policies' = policies
  BY DEF vars
<1> QED
  BY <1>1, <1>2, <1>3, <1>4, <1>5 DEF Next, OperatorStep

\* Nothing is ever removed from either history.
LEMMA HistoriesGrow ==
  ASSUME [Next]_vars
  PROVE  policies \subseteq policies' /\ publications \subseteq publications'
BY PublicationsGrow, PoliciesGrow

-----------------------------------------------------------------------------
(* Types.                                                                  *)

\* The publishers' variables keep their types.
LEMMA PublisherTypes ==
  ASSUME TypeOK, [Next]_vars
  PROVE  /\ pc' \in [Publisher -> {"ready", "gate", "pointer", "write", "explain"}]
         /\ candidate' \in [Publisher -> Candidate]
         /\ expected' \in [Publisher -> Nat]
         /\ pinned' \in [Publisher -> Nat]
         /\ reply' \in [Publisher -> {"none", "refused", "unchanged", "recorded",
                                      "conflict", "error"}]
<1> DEFINE Typed ==
      /\ pc' \in [Publisher -> {"ready", "gate", "pointer", "write", "explain"}]
      /\ candidate' \in [Publisher -> Candidate]
      /\ expected' \in [Publisher -> Nat]
      /\ pinned' \in [Publisher -> Nat]
      /\ reply' \in [Publisher -> {"none", "refused", "unchanged", "recorded",
                                   "conflict", "error"}]
<1> USE DEF TypeOK
<1>1. ASSUME NEW p \in Publisher, Request(p) PROVE Typed
  BY <1>1 DEF Request
<1>2. ASSUME NEW p \in Publisher, EvaluateGate(p) PROVE Typed
  BY <1>2 DEF EvaluateGate, Answer, PolicyRow
<1>3. ASSUME NEW p \in Publisher, ReadPointer(p) PROVE Typed
  BY <1>3 DEF ReadPointer, Answer, Proceed
<1>4. ASSUME NEW p \in Publisher, PublishLocked(p) \/ PublishInsert(p) PROVE Typed
  BY <1>4 DEF PublishLocked, PublishInsert, Explanation, Answer, Proceed
<1>5. ASSUME NEW p \in Publisher, PublishExplain(p) \/ Abandon(p) PROVE Typed
  BY <1>5 DEF PublishExplain, Abandon, Explanation, Answer
<1>6. UNCHANGED publisherVars => Typed
  BY DEF publisherVars
<1> HIDE DEF Typed
<1>7. Typed
  BY <1>1, <1>2, <1>3, <1>4, <1>5, <1>6
     DEF Next, PublisherStep, OperatorStep, PolicyRequest, PutLocked, PutInsert,
         PutExplain, PolicyAbandon, ReadCurrent, ReadAtVersion, vars
<1> QED
  BY <1>7 DEF Typed

\* The operators' and the readers' variables keep their types.
LEMMA OtherTypes ==
  ASSUME TypeOK, [Next]_vars
  PROVE  /\ opc' \in [Operator -> {"ready", "put", "explain"}]
         /\ draft' \in [Operator -> PolicyRow]
         /\ oreply' \in [Operator -> {"none", "exists", "created", "conflict",
                                      "error"}]
         /\ rpc' \in [Reader -> {"ready", "at_version"}]
         /\ asked' \in [Reader -> Nat]
         /\ seen' \in [Reader -> Nat]
         /\ told' \in [Reader -> {"none", "not_found", "published", "superseded"}]
<1> DEFINE Drafted ==
      /\ opc' \in [Operator -> {"ready", "put", "explain"}]
      /\ draft' \in [Operator -> PolicyRow]
      /\ oreply' \in [Operator -> {"none", "exists", "created", "conflict",
                                   "error"}]
<1> DEFINE Told ==
      /\ rpc' \in [Reader -> {"ready", "at_version"}]
      /\ asked' \in [Reader -> Nat]
      /\ seen' \in [Reader -> Nat]
      /\ told' \in [Reader -> {"none", "not_found", "published", "superseded"}]
<1> USE DEF TypeOK
<1>1. ASSUME NEW o \in Operator, PolicyRequest(o) PROVE Drafted
  <2>1. \A v \in 1..MaxPolicy, f \in Profile : Policy(v, f) \in PolicyRow
    BY DEF Policy, PolicyRow
  <2> QED
    BY <1>1, <2>1 DEF PolicyRequest
<1>2. ASSUME NEW o \in Operator,
             PutLocked(o) \/ PutInsert(o) \/ PutExplain(o) \/ PolicyAbandon(o)
      PROVE  Drafted
  BY <1>2 DEF PutLocked, PutInsert, PutExplain, PolicyAbandon, OAnswer,
              PolicyExplanation
<1>3. ASSUME NEW r \in Reader, ReadCurrent(r) \/ ReadAtVersion(r) PROVE Told
  BY <1>3 DEF ReadCurrent, ReadAtVersion
<1>4. (UNCHANGED operatorVars => Drafted) /\ (UNCHANGED readerVars => Told)
  BY DEF operatorVars, readerVars
<1> HIDE DEF Drafted, Told
<1>5. Drafted
  BY <1>1, <1>2, <1>4
     DEF Next, PublisherStep, OperatorStep, Request, EvaluateGate, ReadPointer,
         PublishLocked, PublishInsert, PublishExplain, Abandon, ReadCurrent,
         ReadAtVersion, vars
<1>6. Told
  BY <1>3, <1>4
     DEF Next, PublisherStep, OperatorStep, Request, EvaluateGate, ReadPointer,
         PublishLocked, PublishInsert, PublishExplain, Abandon, PolicyRequest,
         PutLocked, PutInsert, PutExplain, PolicyAbandon, vars
<1> QED
  BY <1>5, <1>6 DEF Drafted, Told

\* A request keeps what it pinned until it is answered.
LEMMA AuthorityKept == ASSUME TypeInv, [Next]_vars PROVE PinsAuthority'
<1> USE DEF TypeInv, TypeOK
<1>0. policies \subseteq policies'
  BY HistoriesGrow
<1>1. ASSUME NEW p \in Publisher, EvaluateGate(p) PROVE PinsAuthority'
  BY <1>1 DEF EvaluateGate, Answer, PinsAuthority
<1>2. ASSUME NEW p \in Publisher,
             \/ Request(p) \/ ReadPointer(p) \/ PublishLocked(p)
             \/ PublishInsert(p) \/ PublishExplain(p) \/ Abandon(p)
      PROVE  PinsAuthority'
  BY <1>2 DEF Request, ReadPointer, PublishLocked, PublishInsert, PublishExplain,
              Abandon, Answer, Proceed, PinsAuthority
<1>3. UNCHANGED publisherVars => PinsAuthority'
  BY <1>0 DEF publisherVars, PinsAuthority
<1> QED
  BY <1>1, <1>2, <1>3
     DEF Next, PublisherStep, OperatorStep, PolicyRequest, PutLocked, PutInsert,
         PutExplain, PolicyAbandon, ReadCurrent, ReadAtVersion, vars

\* Types and authority are inductive together: a row pins a policy version
\* because its request did.
LEMMA TypeStep == TypeInv /\ [Next]_vars => TypeInv'
<1> SUFFICES ASSUME TypeInv, [Next]_vars PROVE TypeInv'
  OBVIOUS
<1>1. policies' \subseteq PolicyRow
  BY PoliciesGrow DEF TypeInv, TypeOK
<1>2. publications' \subseteq Row
  <2>1. ASSUME NEW p \in Publisher, pc[p] = "write" PROVE NextRecord(p) \in Row
    <3>1. pinned[p] \in Nat \ {0}
      BY <2>1 DEF TypeInv, TypeOK, PinsAuthority, PolicyRow
    <3> QED
      BY <3>1, RecordType DEF TypeInv, TypeOK, NextRecord
  <2> QED
    BY <2>1, PublicationsGrow DEF TypeInv, TypeOK
<1>3. adapter' \in Adapters
  BY DEF TypeInv, TypeOK, Next, vars
<1> QED
  BY <1>1, <1>2, <1>3, PublisherTypes, OtherTypes, AuthorityKept DEF TypeInv, TypeOK

\* Nothing is recorded, and nobody is past the gate, at the start.
LEMMA TypeInit == Init => TypeInv
<1> SUFFICES ASSUME Init PROVE TypeInv
  OBVIOUS
<1>1. draft \in [Operator -> PolicyRow]
  BY DEF Init, PolicyRow
<1> QED
  BY <1>1 DEF Init, TypeInv, TypeOK, PinsAuthority

\* Every variable of the target and of its callers always keeps its type.
THEOREM PublicationTypeCorrect == Spec => []TypeOK
BY TypeInit, TypeStep, PTL DEF Spec, TypeInv

-----------------------------------------------------------------------------
(* The histories.                                                          *)

\* A history extended by a record that follows the last has no gap and no
\* second record for a version.
LEMMA SequentialGrows ==
  ASSUME NEW rows, \A r \in rows : r.version \in Nat \ {0}, Sequential(rows),
         NEW x, x.version \in Nat \ {0}, Follows(x.version, rows)
  PROVE  Sequential(rows \cup {x})
<1>1. \A v \in 1..x.version : \E s \in rows \cup {x} : s.version = v
  <2> SUFFICES ASSUME NEW v \in 1..x.version, v # x.version
               PROVE  \E s \in rows : s.version = v
    OBVIOUS
  <2>1. PICK r \in rows : r.version + 1 = x.version
    BY DEF Follows
  <2>2. v \in 1..r.version
    BY <2>1
  <2> QED
    BY <2>2 DEF Sequential
<1> QED
  BY <1>1 DEF Sequential, Follows

\* Both histories stay sequential.
LEMMA SequentialStep ==
  TypeInv /\ HistoryIsSequential /\ [Next]_vars => HistoryIsSequential'
<1> SUFFICES ASSUME TypeInv, HistoryIsSequential, [Next]_vars
             PROVE  HistoryIsSequential'
  OBVIOUS
<1>1. Sequential(policies)'
  <2>1. ASSUME NEW o \in Operator, Follows(draft[o].version, policies)
        PROVE  Sequential(policies \cup {draft[o]})
    <3>1. /\ \A r \in policies : r.version \in Nat \ {0}
          /\ draft[o].version \in Nat \ {0}
      BY DEF TypeInv, TypeOK, PolicyRow
    <3> QED
      BY <2>1, <3>1, SequentialGrows DEF HistoryIsSequential
  <2> QED
    BY <2>1, PoliciesGrow DEF HistoryIsSequential
<1>2. Sequential(publications)'
  <2>1. ASSUME NEW p \in Publisher, Follows(expected[p] + 1, publications)
        PROVE  Sequential(publications \cup {NextRecord(p)})
    <3>1. /\ \A r \in publications : r.version \in Nat \ {0}
          /\ NextRecord(p).version = expected[p] + 1
          /\ expected[p] + 1 \in Nat \ {0}
      BY DEF TypeInv, TypeOK, Row, NextRecord, Record
    <3> QED
      BY <2>1, <3>1, SequentialGrows DEF HistoryIsSequential
  <2> QED
    BY <2>1, PublicationsGrow DEF HistoryIsSequential
<1> QED
  BY <1>1, <1>2 DEF HistoryIsSequential

\* The empty histories are sequential.
LEMMA SequentialInit == Init => HistoryIsSequential
BY DEF Init, HistoryIsSequential, Sequential

\* However many publishers and operators race on a target, each of its
\* histories is one record per version with no version missing.
THEOREM HistoriesStaySequential == Spec => []HistoryIsSequential
BY TypeInit, TypeStep, SequentialInit, SequentialStep, PTL DEF Spec

-----------------------------------------------------------------------------
(* Authority.                                                              *)

\* What the histories say of each other: each publication pins a recorded
\* policy, and every policy at that version authorizes it.
AuthorityInv == TypeInv /\ HistoryIsSequential /\ PublicationsAreAuthorized

\* A record is appended under the authority its request pinned, and neither
\* history can change what a pinned version says.
LEMMA AuthorityStep == AuthorityInv /\ [Next]_vars => AuthorityInv'
<1> SUFFICES ASSUME AuthorityInv, [Next]_vars PROVE AuthorityInv'
  OBVIOUS
<1>1. TypeInv' /\ HistoryIsSequential'
  BY TypeStep, SequentialStep DEF AuthorityInv
<1>2. policies \subseteq policies'
  BY HistoriesGrow
<1>3. ASSUME NEW r \in publications'
      PROVE  \E q \in policies' : q.version = r.policy /\ Authorizes(q, r.candidate)
  <2>1. CASE r \in publications
    BY <1>2, <2>1 DEF AuthorityInv, PublicationsAreAuthorized
  <2>2. CASE r \notin publications
    <3>1. PICK p \in Publisher : pc[p] = "write" /\ r = NextRecord(p)
      BY <1>3, <2>2, PublicationsGrow
    <3>2. r.policy = pinned[p] /\ r.candidate = candidate[p]
      BY <3>1 DEF NextRecord, Record
    <3> QED
      BY <1>2, <3>1, <3>2 DEF AuthorityInv, TypeInv, PinsAuthority
  <2> QED
    BY <2>1, <2>2
<1>4. \A q, t \in policies' : q.version = t.version => q = t
  BY <1>1 DEF HistoryIsSequential, Sequential
<1>5. PublicationsAreAuthorized'
  BY <1>3, <1>4 DEF PublicationsAreAuthorized, Authorizes
<1> QED
  BY <1>1, <1>5 DEF AuthorityInv

\* Nothing is published at the start.
LEMMA AuthorityInit == Init => AuthorityInv
BY TypeInit, SequentialInit DEF Init, AuthorityInv, PublicationsAreAuthorized

\* Every publication ever recorded is explained by the policy version it pins,
\* as that version reads now.
THEOREM PublicationsStayAuthorized == Spec => []PublicationsAreAuthorized
BY AuthorityInit, AuthorityStep, PTL DEF Spec, AuthorityInv

-----------------------------------------------------------------------------
(* Republication.                                                          *)

\* A request that is about to write saw the record it will follow, and that
\* record is not the one it writes.
SawPredecessor ==
  \A p \in Publisher : pc[p] = "write" =>
    /\ expected[p] = 0 \/ \E r \in publications : r.version = expected[p]
    /\ \A r \in publications : r.version = expected[p] =>
         ~SamePublication(r, NextRecord(p))

PointerInv == TypeInv /\ HistoryIsSequential /\ SawPredecessor /\ NoRepublication

\* A request that comes to write, or that was about to, is the same request.
LEMMA WriterEffect ==
  ASSUME TypeInv, [Next]_vars, NEW p \in Publisher, pc'[p] = "write"
  PROVE  /\ expected'[p] = expected[p] /\ NextRecord(p)' = NextRecord(p)
         /\ \/ pc[p] = "write"
            \/ /\ pc[p] = "pointer"
               /\ ~AlreadyPublished(p)
               /\ CurrentVersion(expected[p], publications)
               /\ publications' = publications
<1> DEFINE Kept ==
      /\ expected'[p] = expected[p] /\ NextRecord(p)' = NextRecord(p)
      /\ \/ pc[p] = "write"
         \/ /\ pc[p] = "pointer"
            /\ ~AlreadyPublished(p)
            /\ CurrentVersion(expected[p], publications)
            /\ publications' = publications
<1> USE DEF TypeInv, TypeOK, NextRecord
<1>1. ASSUME NEW v \in Publisher, ReadPointer(v) PROVE Kept
  BY <1>1 DEF ReadPointer, Answer, Proceed
<1>2. ASSUME NEW v \in Publisher, Request(v) \/ EvaluateGate(v) PROVE Kept
  BY <1>2 DEF Request, EvaluateGate, Answer
<1>3. ASSUME NEW v \in Publisher, PublishLocked(v) \/ PublishInsert(v) PROVE Kept
  BY <1>3 DEF PublishLocked, PublishInsert, Answer, Proceed
<1>4. ASSUME NEW v \in Publisher, PublishExplain(v) \/ Abandon(v) PROVE Kept
  BY <1>4 DEF PublishExplain, Abandon, Answer
<1>5. UNCHANGED publisherVars => Kept
  BY DEF publisherVars
<1> HIDE DEF Kept
<1>6. Kept
  BY <1>1, <1>2, <1>3, <1>4, <1>5
     DEF Next, PublisherStep, OperatorStep, PolicyRequest, PutLocked, PutInsert,
         PutExplain, PolicyAbandon, ReadCurrent, ReadAtVersion, vars
<1> QED
  BY <1>6 DEF Kept

\* The check for an unchanged publication and the compare-and-swap together
\* keep two consecutive records apart: either alone would not.
LEMMA PointerStep == PointerInv /\ [Next]_vars => PointerInv'
<1> SUFFICES ASSUME PointerInv, [Next]_vars PROVE PointerInv'
  OBVIOUS
<1>1. TypeInv /\ TypeInv' /\ HistoryIsSequential'
  BY TypeStep, SequentialStep DEF PointerInv
<1>2. /\ \A r \in publications : r.version \in Nat \ {0}
      /\ \A p \in Publisher : expected[p] \in Nat
      /\ \A p \in Publisher : NextRecord(p).version = expected[p] + 1
  BY <1>1 DEF TypeInv, TypeOK, Row, NextRecord, Record
<1>3. \A r, s \in publications : r.version = s.version => r = s
  BY DEF PointerInv, HistoryIsSequential, Sequential
<1>4. ASSUME NEW p \in Publisher, pc'[p] = "write"
      PROVE  /\ expected'[p] = 0 \/ \E r \in publications' : r.version = expected'[p]
             /\ \A r \in publications' : r.version = expected'[p] =>
                  ~SamePublication(r, NextRecord(p)')
  <2>1. expected'[p] = expected[p] /\ NextRecord(p)' = NextRecord(p)
    BY <1>1, <1>4, WriterEffect
  <2>2. CASE pc[p] = "write"
    <3>1. /\ expected[p] = 0 \/ \E r \in publications : r.version = expected[p]
          /\ \A r \in publications : r.version = expected[p] =>
               ~SamePublication(r, NextRecord(p))
      BY <2>2 DEF PointerInv, SawPredecessor
    <3>2. CASE publications' = publications
      BY <2>1, <3>1, <3>2
    <3>3. ASSUME NEW v \in Publisher,
                 Follows(expected[v] + 1, publications),
                 publications' = publications \cup {NextRecord(v)}
          PROVE  /\ expected[p] = 0 \/ \E r \in publications' : r.version = expected[p]
                 /\ \A r \in publications' : r.version = expected[p] =>
                      ~SamePublication(r, NextRecord(p))
      <4>1. NextRecord(v).version # expected[p]
        BY <1>2, <3>1, <3>3 DEF Follows
      <4> QED
        BY <3>1, <3>3, <4>1
    <3> QED
      BY <2>1, <3>2, <3>3, PublicationsGrow
  <2>3. CASE /\ ~AlreadyPublished(p)
             /\ CurrentVersion(expected[p], publications)
             /\ publications' = publications
    <3>1. ASSUME NEW r \in publications, r.version = expected[p]
          PROVE  IsLatest(r, publications)
      BY <1>2, <1>3, <2>3, <3>1 DEF CurrentVersion, IsLatest
    <3>2. expected[p] = 0 \/ \E r \in publications : r.version = expected[p]
      BY <2>3 DEF CurrentVersion
    <3> QED
      BY <2>1, <2>3, <3>1, <3>2 DEF AlreadyPublished
  <2> QED
    BY <1>1, <1>4, <2>2, <2>3, WriterEffect
<1>5. SawPredecessor'
  BY <1>4 DEF SawPredecessor
<1>6. NoRepublication'
  <2>1. CASE publications' = publications
    BY <2>1 DEF PointerInv, NoRepublication
  <2>2. ASSUME NEW p \in Publisher, pc[p] = "write",
               Follows(expected[p] + 1, publications),
               publications' = publications \cup {NextRecord(p)},
               NEW r \in publications', NEW s \in publications',
               s.version = r.version + 1
        PROVE  ~SamePublication(r, s)
    <3>1. r \in publications
      BY <1>2, <2>2 DEF Follows
    <3>2. CASE s \in publications
      BY <2>2, <3>1, <3>2 DEF PointerInv, NoRepublication
    <3>3. CASE s = NextRecord(p)
      <4>1. r.version = expected[p]
        BY <1>2, <2>2, <3>1, <3>3
      <4> QED
        BY <2>2, <3>1, <3>3, <4>1 DEF PointerInv, SawPredecessor
    <3> QED
      BY <2>2, <3>2, <3>3
  <2> QED
    BY <2>1, <2>2, PublicationsGrow DEF NoRepublication
<1> QED
  BY <1>1, <1>5, <1>6 DEF PointerInv

\* Nothing is published, and nobody is about to write, at the start.
LEMMA PointerInit == Init => PointerInv
BY TypeInit, SequentialInit DEF Init, PointerInv, SawPredecessor, NoRepublication

\* No retry and no race ever leaves a target publishing the same thing at two
\* consecutive versions.
THEOREM NothingIsRepublished == Spec => []NoRepublication
BY PointerInit, PointerStep, PTL DEF Spec, PointerInv

-----------------------------------------------------------------------------
(* Replies.                                                                *)

\* A request in flight has no answer yet.
Unanswered == \A p \in Publisher : pc[p] # "ready" => reply[p] = "none"

\* A step that answers a request ends it.
LEMMA UnansweredStep == TypeInv /\ Unanswered /\ [Next]_vars => Unanswered'
<1> SUFFICES ASSUME TypeInv, Unanswered, [Next]_vars PROVE Unanswered'
  OBVIOUS
<1> USE DEF TypeInv, TypeOK, Unanswered
<1>1. ASSUME NEW p \in Publisher, Request(p) \/ EvaluateGate(p) PROVE Unanswered'
  BY <1>1 DEF Request, EvaluateGate, Answer
<1>2. ASSUME NEW p \in Publisher, ReadPointer(p) PROVE Unanswered'
  BY <1>2 DEF ReadPointer, Answer, Proceed
<1>3. ASSUME NEW p \in Publisher, PublishLocked(p) \/ PublishInsert(p)
      PROVE  Unanswered'
  BY <1>3 DEF PublishLocked, PublishInsert, Answer, Proceed
<1>4. ASSUME NEW p \in Publisher, PublishExplain(p) \/ Abandon(p)
      PROVE  Unanswered'
  BY <1>4 DEF PublishExplain, Abandon, Answer
<1>5. UNCHANGED publisherVars => Unanswered'
  BY DEF publisherVars
<1> QED
  BY <1>1, <1>2, <1>3, <1>4, <1>5
     DEF Next, PublisherStep, OperatorStep, PolicyRequest, PutLocked, PutInsert,
         PutExplain, PolicyAbandon, ReadCurrent, ReadAtVersion, vars

\* What a step leaves in a publisher's reply it either found there, with the
\* request unchanged, or can show in the history.
LEMMA ReplyEffect ==
  ASSUME TypeInv, Unanswered, [Next]_vars, NEW p \in Publisher
  PROVE  /\ reply'[p] = "recorded" =>
              \/ reply[p] = "recorded" /\ NextRecord(p)' = NextRecord(p)
              \/ NextRecord(p)' \in publications'
         /\ reply'[p] = "unchanged" =>
              \/ reply[p] = "unchanged" /\ NextRecord(p)' = NextRecord(p)
              \/ \E r \in publications' : SamePublication(r, NextRecord(p)')
<1> DEFINE Backed ==
      /\ reply'[p] = "recorded" =>
           \/ reply[p] = "recorded" /\ NextRecord(p)' = NextRecord(p)
           \/ NextRecord(p)' \in publications'
      /\ reply'[p] = "unchanged" =>
           \/ reply[p] = "unchanged" /\ NextRecord(p)' = NextRecord(p)
           \/ \E r \in publications' : SamePublication(r, NextRecord(p)')
<1> USE DEF TypeInv, TypeOK, NextRecord
<1>1. ASSUME NEW v \in Publisher, Request(v) \/ EvaluateGate(v) PROVE Backed
  <2>1. CASE Request(v)
    BY <2>1 DEF Request
  <2>2. CASE EvaluateGate(v)
    BY <2>2 DEF EvaluateGate, Answer, Unanswered
  <2> QED
    BY <1>1, <2>1, <2>2
<1>2. ASSUME NEW v \in Publisher, ReadPointer(v) PROVE Backed
  BY <1>2 DEF ReadPointer, AlreadyPublished, Answer, Proceed
<1>3. ASSUME NEW v \in Publisher, PublishLocked(v) PROVE Backed
  BY <1>3 DEF PublishLocked, Explanation, Answer
<1>4. ASSUME NEW v \in Publisher, PublishInsert(v) PROVE Backed
  BY <1>4 DEF PublishInsert, Answer, Proceed
<1>5. ASSUME NEW v \in Publisher, PublishExplain(v) \/ Abandon(v) PROVE Backed
  BY <1>5 DEF PublishExplain, Abandon, Explanation, Answer
<1>6. UNCHANGED publisherVars => Backed
  BY DEF publisherVars
<1> HIDE DEF Backed
<1>7. Backed
  BY <1>1, <1>2, <1>3, <1>4, <1>5, <1>6
     DEF Next, PublisherStep, OperatorStep, PolicyRequest, PutLocked, PutInsert,
         PutExplain, PolicyAbandon, ReadCurrent, ReadAtVersion, vars
<1> QED
  BY <1>7 DEF Backed

\* The same of an operator's reply.
LEMMA OperatorReplyEffect ==
  ASSUME TypeInv, [Next]_vars, NEW o \in Operator,
         oreply'[o] \in {"created", "exists"}
  PROVE  \/ oreply[o] \in {"created", "exists"} /\ draft'[o] = draft[o]
         \/ draft'[o] \in policies'
<1> DEFINE Backed == \/ oreply[o] \in {"created", "exists"} /\ draft'[o] = draft[o]
                     \/ draft'[o] \in policies'
<1> USE DEF TypeInv, TypeOK
<1>1. ASSUME NEW v \in Operator, PolicyRequest(v) PROVE Backed
  BY <1>1 DEF PolicyRequest
<1>2. ASSUME NEW v \in Operator, PutLocked(v) \/ PutInsert(v) PROVE Backed
  BY <1>2 DEF PutLocked, PutInsert, PolicyExplanation, OAnswer
<1>3. ASSUME NEW v \in Operator, PutExplain(v) \/ PolicyAbandon(v) PROVE Backed
  BY <1>3 DEF PutExplain, PolicyAbandon, PolicyExplanation, OAnswer
<1>4. UNCHANGED operatorVars => Backed
  BY DEF operatorVars
<1> HIDE DEF Backed
<1>5. Backed
  BY <1>1, <1>2, <1>3, <1>4
     DEF Next, OperatorStep, PublisherStep, Request, EvaluateGate, ReadPointer,
         PublishLocked, PublishInsert, PublishExplain, Abandon, ReadCurrent,
         ReadAtVersion, vars
<1> QED
  BY <1>5 DEF Backed

\* The same of what a reader was told.
LEMMA ReaderReplyEffect ==
  ASSUME TypeInv, [Next]_vars, NEW r \in Reader,
         told'[r] \in {"published", "superseded"}
  PROVE  \/ told[r] \in {"published", "superseded"} /\ asked'[r] = asked[r]
         \/ \E s \in publications' : s.version = asked'[r]
<1> DEFINE Backed == \/ told[r] \in {"published", "superseded"} /\ asked'[r] = asked[r]
                     \/ \E s \in publications' : s.version = asked'[r]
<1> USE DEF TypeInv, TypeOK
<1>1. ASSUME NEW v \in Reader, ReadCurrent(v) \/ ReadAtVersion(v) PROVE Backed
  BY <1>1 DEF ReadCurrent, ReadAtVersion
<1>2. UNCHANGED readerVars => Backed
  BY DEF readerVars
<1> HIDE DEF Backed
<1>3. Backed
  BY <1>1, <1>2
     DEF Next, PublisherStep, OperatorStep, Request, EvaluateGate, ReadPointer,
         PublishLocked, PublishInsert, PublishExplain, Abandon, PolicyRequest,
         PutLocked, PutInsert, PutExplain, PolicyAbandon, vars
<1> QED
  BY <1>3 DEF Backed

\* Whatever a caller was told of a publication, a policy or a version, the
\* history carries it for as long as the answer stands.
THEOREM RepliesStayBacked == Spec => []RepliesAreBacked
<1>1. Init => RepliesAreBacked /\ Unanswered
  BY DEF Init, RepliesAreBacked, Unanswered
<1>2. TypeInv /\ Unanswered /\ RepliesAreBacked /\ [Next]_vars
        => RepliesAreBacked'
  <2> SUFFICES ASSUME TypeInv, Unanswered, RepliesAreBacked, [Next]_vars
               PROVE  RepliesAreBacked'
    OBVIOUS
  <2>0. policies \subseteq policies' /\ publications \subseteq publications'
    BY HistoriesGrow
  <2>1. ASSUME NEW p \in Publisher
        PROVE  /\ reply'[p] = "recorded" => NextRecord(p)' \in publications'
               /\ reply'[p] = "unchanged" =>
                    \E r \in publications' : SamePublication(r, NextRecord(p)')
    BY <2>0, ReplyEffect DEF RepliesAreBacked
  <2>2. ASSUME NEW o \in Operator, oreply'[o] \in {"created", "exists"}
        PROVE  draft'[o] \in policies'
    BY <2>0, <2>2, OperatorReplyEffect DEF RepliesAreBacked
  <2>3. ASSUME NEW r \in Reader, told'[r] \in {"published", "superseded"}
        PROVE  \E s \in publications' : s.version = asked'[r]
    BY <2>0, <2>3, ReaderReplyEffect DEF RepliesAreBacked
  <2> QED
    BY <2>1, <2>2, <2>3 DEF RepliesAreBacked
<1> QED
  BY <1>1, <1>2, UnansweredStep, TypeInit, TypeStep, PTL DEF Spec

-----------------------------------------------------------------------------
(* The ledger.                                                             *)

\* In a sequential history, the version that follows the last comes after
\* every version there is, and none is missing before it.
LEMMA FollowsExtends ==
  ASSUME NEW rows, \A r \in rows : r.version \in Nat \ {0}, Sequential(rows),
         NEW v \in Nat \ {0}, Follows(v, rows)
  PROVE  Ledger!Extends(v, rows)
<1>1. ASSUME NEW r \in rows PROVE r.version \in 1..(v - 1)
  BY <1>1 DEF Follows
<1>2. ASSUME NEW k \in 1..(v - 1) PROVE \E r \in rows : r.version = k
  <2>1. PICK r \in rows : r.version + 1 = v
    BY DEF Follows
  <2>2. k \in 1..r.version
    BY <2>1
  <2> QED
    BY <2>2 DEF Sequential
<1> QED
  BY <1>1, <1>2 DEF Ledger!Extends

\* Every step of the target is a step of the ledger or leaves it alone.
LEMMA LedgerStep ==
  ASSUME PointerInv, [Next]_vars PROVE [Ledger!Next]_<<policies, publications>>
<1>1. TypeInv /\ HistoryIsSequential
  BY DEF PointerInv
<1>2. /\ \A r \in publications : r.version \in Nat \ {0}
      /\ \A q \in policies : q.version \in Nat \ {0}
  BY <1>1 DEF TypeInv, TypeOK, Row, PolicyRow
<1>3. ASSUME NEW o \in Operator, Follows(draft[o].version, policies),
             policies' = policies \cup {draft[o]}, publications' = publications
      PROVE  Ledger!Next
  <2>1. draft[o].version \in Nat \ {0} /\ draft[o].profile \in Profile
    BY <1>1 DEF TypeInv, TypeOK, PolicyRow
  <2>2. Ledger!Extends(draft[o].version, policies)
    BY <1>1, <1>2, <1>3, <2>1, FollowsExtends DEF HistoryIsSequential
  <2>3. Ledger!AddPolicy(draft[o])
    BY <1>3, <2>1, <2>2 DEF Ledger!AddPolicy
  <2> QED
    BY <1>3, <2>3 DEF Ledger!Next
<1>4. ASSUME NEW p \in Publisher, pc[p] = "write",
             Follows(expected[p] + 1, publications),
             publications' = publications \cup {NextRecord(p)},
             policies' = policies
      PROVE  Ledger!Next
  <2>1. /\ NextRecord(p).version = expected[p] + 1
        /\ NextRecord(p).policy = pinned[p]
        /\ NextRecord(p).candidate = candidate[p]
        /\ expected[p] \in Nat
    BY <1>1 DEF TypeInv, TypeOK, NextRecord, Record
  <2>2. Ledger!Extends(NextRecord(p).version, publications)
    BY <1>1, <1>2, <1>4, <2>1, FollowsExtends DEF HistoryIsSequential
  <2>3. PICK q \in policies : q.version = pinned[p] /\ Authorizes(q, candidate[p])
    BY <1>1, <1>4 DEF TypeInv, PinsAuthority
  <2>4. \A s \in publications : s.version + 1 = NextRecord(p).version =>
          s.policy # NextRecord(p).policy \/ s.candidate # NextRecord(p).candidate
    BY <1>2, <1>4, <2>1 DEF PointerInv, SawPredecessor, SamePublication
  <2>5. Ledger!Publish(NextRecord(p), q)
    BY <1>4, <2>1, <2>2, <2>3, <2>4 DEF Ledger!Publish, Authorizes
  <2> QED
    BY <1>4, <2>3, <2>5 DEF Ledger!Next
<1> QED
  BY <1>3, <1>4, PublicationsGrow, PoliciesGrow

\* A target under concurrent publishers and operators, on either adapter,
\* implements the two ledgers.
THEOREM TargetImplementsLedger == Spec => ImplementsLedger
<1>1. Init => Ledger!Init
  BY DEF Init, Ledger!Init
<1>2. PointerInv /\ [Next]_vars => [Ledger!Next]_<<policies, publications>>
  BY LedgerStep
<1> QED
  BY <1>1, <1>2, PointerInit, PointerStep, PTL
     DEF Spec, ImplementsLedger, Ledger!Spec, Ledger!vars
=============================================================================
