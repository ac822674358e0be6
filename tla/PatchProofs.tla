---------------------------- MODULE PatchProofs ----------------------------
(***************************************************************************)
(* Every accepted patch can be undone, and no outcome has a dangling       *)
(* relation, for every set of references, relations, fields and values and *)
(* patches of every length.                                                *)
(*                                                                         *)
(* The argument: in a closed state every legal operation has an inverse    *)
(* that the result accepts; every operation but a deletion keeps a closed  *)
(* state closed; and the canonical order puts deletions last, whose        *)
(* inverse needs no closed state.                                          *)
(***************************************************************************)
EXTENDS PatchMachine, TLAPS

\* A legal operation, applied to a closed state or deleting, is undone by its
\* inverse: UndoPatch accepts it and restores the state.
LEMMA StepInverts ==
  ASSUME NEW s \in State, NEW op \in Operation,
         Refusal(op, s) = "none",
         op.kind # "delete" => Closed(s)
  PROVE  /\ Staged(op, s) \in State
         /\ UndoRefusal(op, Staged(op, s)) = "none"
         /\ Unstaged(op, Staged(op, s)) = s
<1>1. PICK ents \in [Ref -> Entity \cup {Gone}], rels \in SUBSET Relation :
        s = Graph(ents, rels)
  BY DEF State
<1>2. s.ents = ents /\ s.rels = rels
  BY <1>1 DEF Graph
<1>3. rels \subseteq Ref \X Ref
  BY PatchAssumption
<1>4. ASSUME NEW r \in Ref, NEW x \in Entity, op = Insert(r, x)
      PROVE  /\ Staged(op, s) \in State
             /\ UndoRefusal(op, Staged(op, s)) = "none"
             /\ Unstaged(op, Staged(op, s)) = s
  <2>1. op.kind = "insert" /\ op.ref = r /\ op.entity = x
    BY <1>4 DEF Insert
  <2>2. ents[r] = Gone /\ Closed(s)
    BY <2>1, <1>2 DEF Refusal
  <2> DEFINE e == [ents EXCEPT ![r] = x]
  <2>3. Staged(op, s) = Graph(e, rels)
    BY <2>1, <1>2 DEF Staged
  <2>4. e \in [Ref -> Entity \cup {Gone}] /\ e[r] = x /\ [e EXCEPT ![r] = Gone] = ents
    BY <2>2
  <2>5. \A p \in rels : ~Touches(p, r)
    BY <2>2, <1>2, <1>3 DEF Closed, Touches
  <2>6. UndoRefusal(op, Graph(e, rels)) = "none"
    BY <2>1, <2>4, <2>5 DEF UndoRefusal, Graph
  <2>7. Unstaged(op, Graph(e, rels)) = Graph(ents, rels)
    BY <2>1, <2>4 DEF Unstaged, Graph
  <2> HIDE DEF e
  <2> QED
    BY <2>3, <2>4, <2>6, <2>7, <1>1 DEF State
<1>5. ASSUME NEW p \in Relation, op = Relate(p)
      PROVE  /\ Staged(op, s) \in State
             /\ UndoRefusal(op, Staged(op, s)) = "none"
             /\ Unstaged(op, Staged(op, s)) = s
  <2>1. op.kind = "relate" /\ op.relation = p
    BY <1>5 DEF Relate
  <2>2. p \notin rels
    BY <2>1, <1>2 DEF Refusal
  <2>3. Staged(op, s) = Graph(ents, rels \cup {p})
    BY <2>1, <1>2 DEF Staged
  <2>4. (rels \cup {p}) \ {p} = rels /\ rels \cup {p} \in SUBSET Relation
    BY <2>2
  <2>5. UndoRefusal(op, Graph(ents, rels \cup {p})) = "none"
    BY <2>1 DEF UndoRefusal, Graph
  <2>6. Unstaged(op, Graph(ents, rels \cup {p})) = Graph(ents, rels)
    BY <2>1, <2>4 DEF Unstaged, Graph
  <2> QED
    BY <2>3, <2>4, <2>5, <2>6, <1>1 DEF State
<1>6. ASSUME NEW r \in Ref, NEW fs \in SUBSET Field,
             NEW b \in [fs -> Image], NEW x \in [fs -> Value],
             op = Update(r, b, x)
      PROVE  /\ Staged(op, s) \in State
             /\ UndoRefusal(op, Staged(op, s)) = "none"
             /\ Unstaged(op, Staged(op, s)) = s
  <2>1. op.kind = "update" /\ op.ref = r /\ op.before = b /\ op.after = x
    BY <1>6 DEF Update
  <2>2. ents[r] # Gone /\ \A f \in fs : ents[r][f] = b[f]
    BY <2>1, <1>2 DEF Refusal
  <2>3. ents[r] \in [Field -> Image] /\ \A f \in Required : ents[r][f] # Absent
    BY <2>2 DEF Entity
  <2> DEFINE new == Changed(ents[r], x)
             e == [ents EXCEPT ![r] = new]
  <2>4. /\ new \in [Field -> Image]
        /\ \A f \in Required : new[f] # Absent
        /\ \A f \in fs : new[f] = x[f]
    BY <2>3, PatchAssumption DEF Changed, Image
  <2>5. new \in Entity /\ new # Gone
    BY <2>4, PatchAssumption DEF Entity, Image
  <2>6. Changed(new, b) = ents[r]
    BY <2>2, <2>3, <2>4 DEF Changed
  <2>7. e \in [Ref -> Entity \cup {Gone}] /\ e[r] = new
    BY <2>5
  <2>8. [e EXCEPT ![r] = Changed(e[r], b)] = ents
    BY <2>6, <2>7
  <2>9. Staged(op, s) = Graph(e, rels)
    BY <2>1, <1>2 DEF Staged
  <2>10. UndoRefusal(op, Graph(e, rels)) = "none"
    <3>1. Graph(e, rels).ents[r] = new
      BY <2>7 DEF Graph
    <3> HIDE DEF new, e
    <3>2. \A f \in DOMAIN op.after : new[f] = op.after[f]
      BY <2>1, <2>4
    <3> QED
      BY <2>1, <3>1, <3>2, <2>5 DEF UndoRefusal
  <2>11. Unstaged(op, Graph(e, rels)) = Graph(ents, rels)
    <3>1. Graph(e, rels).ents = e /\ Graph(e, rels).rels = rels
      BY DEF Graph
    <3> HIDE DEF new, e
    <3> QED
      BY <2>1, <2>8, <3>1 DEF Unstaged
  <2> HIDE DEF new, e
  <2> QED
    BY <2>7, <2>9, <2>10, <2>11, <1>1 DEF State
<1>7. ASSUME NEW p \in Relation, op = Unrelate(p)
      PROVE  /\ Staged(op, s) \in State
             /\ UndoRefusal(op, Staged(op, s)) = "none"
             /\ Unstaged(op, Staged(op, s)) = s
  <2>1. op.kind = "unrelate" /\ op.relation = p
    BY <1>7 DEF Unrelate
  <2>2. p \in rels /\ Closed(s)
    BY <2>1, <1>2 DEF Refusal
  <2>3. Staged(op, s) = Graph(ents, rels \ {p})
    BY <2>1, <1>2 DEF Staged
  <2>4. (rels \ {p}) \cup {p} = rels /\ rels \ {p} \in SUBSET Relation
    BY <2>2
  <2>5. ~EndpointMissing(p, Graph(ents, rels \ {p}))
    BY <2>2, <1>2 DEF EndpointMissing, Closed, Graph
  <2>6. UndoRefusal(op, Graph(ents, rels \ {p})) = "none"
    <3>1. p \notin Graph(ents, rels \ {p}).rels
      BY DEF Graph
    <3> QED
      BY <2>1, <2>5, <3>1 DEF UndoRefusal
  <2>7. Unstaged(op, Graph(ents, rels \ {p})) = Graph(ents, rels)
    BY <2>1, <2>4 DEF Unstaged, Graph
  <2> QED
    BY <2>3, <2>4, <2>6, <2>7, <1>1 DEF State
<1>8. ASSUME NEW r \in Ref, NEW x \in Entity, op = Delete(r, x)
      PROVE  /\ Staged(op, s) \in State
             /\ UndoRefusal(op, Staged(op, s)) = "none"
             /\ Unstaged(op, Staged(op, s)) = s
  <2>1. op.kind = "delete" /\ op.ref = r /\ op.entity = x
    BY <1>8 DEF Delete
  <2>2. ents[r] = x
    BY <2>1, <1>2 DEF Refusal
  <2> DEFINE e == [ents EXCEPT ![r] = Gone]
  <2>3. Staged(op, s) = Graph(e, rels)
    BY <2>1, <1>2 DEF Staged
  <2>4. e \in [Ref -> Entity \cup {Gone}] /\ e[r] = Gone /\ [e EXCEPT ![r] = x] = ents
    BY <2>2
  <2>5. UndoRefusal(op, Graph(e, rels)) = "none"
    BY <2>1, <2>4 DEF UndoRefusal, Graph
  <2>6. Unstaged(op, Graph(e, rels)) = Graph(ents, rels)
    BY <2>1, <2>4 DEF Unstaged, Graph
  <2> HIDE DEF e
  <2> QED
    BY <2>3, <2>4, <2>5, <2>6, <1>1 DEF State
<1> QED
  BY <1>4, <1>5, <1>6, <1>7, <1>8
     DEF Operation, Inserts, Relates, Updates, Unrelates, Deletes

\* Only a deletion can leave a relation without an endpoint.
LEMMA ClosedKept ==
  ASSUME NEW s \in State, NEW op \in Operation,
         Refusal(op, s) = "none", op.kind # "delete", Closed(s)
  PROVE  Closed(Staged(op, s))
<1>1. PICK ents \in [Ref -> Entity \cup {Gone}], rels \in SUBSET Relation :
        s = Graph(ents, rels)
  BY DEF State
<1>2. s.ents = ents /\ s.rels = rels
  BY <1>1 DEF Graph
<1>3. rels \subseteq Ref \X Ref
  BY PatchAssumption
<1>4. \A p \in rels : ents[p[1]] # Gone /\ ents[p[2]] # Gone
  BY <1>2 DEF Closed
<1>5. Gone \notin Entity
  BY PatchAssumption DEF Entity, Image
<1>6. ASSUME NEW e \in [Ref -> Entity \cup {Gone}], NEW r \in Ref, NEW x \in Entity,
             e = [ents EXCEPT ![r] = x]
      PROVE  Closed(Graph(e, rels))
  <2>1. \A q \in Ref : ents[q] # Gone => e[q] # Gone
    BY <1>5, <1>6
  <2> QED
    BY <2>1, <1>3, <1>4 DEF Closed, Graph
<1>7. ASSUME NEW r \in Ref, NEW x \in Entity, op = Insert(r, x)
      PROVE  Closed(Staged(op, s))
  <2>1. Staged(op, s) = Graph([ents EXCEPT ![r] = x], rels)
    BY <1>2, <1>7 DEF Staged, Insert
  <2> QED
    BY <2>1, <1>6
<1>8. ASSUME NEW p \in Relation, op = Relate(p)
      PROVE  Closed(Staged(op, s))
  <2>1. op.kind = "relate" /\ op.relation = p
    BY <1>8 DEF Relate
  <2>2. Staged(op, s) = Graph(ents, rels \cup {p})
    BY <2>1, <1>2 DEF Staged
  <2>3. ents[p[1]] # Gone /\ ents[p[2]] # Gone
    BY <2>1, <1>2 DEF Refusal, EndpointMissing
  <2> QED
    BY <2>2, <2>3, <1>4 DEF Closed, Graph
<1>9. ASSUME NEW r \in Ref, NEW fs \in SUBSET Field,
             NEW b \in [fs -> Image], NEW x \in [fs -> Value],
             op = Update(r, b, x)
      PROVE  Closed(Staged(op, s))
  <2>1. op.kind = "update" /\ op.ref = r /\ op.after = x
    BY <1>9 DEF Update
  <2>2. ents[r] \in [Field -> Image] /\ \A f \in Required : ents[r][f] # Absent
    BY <2>1, <1>2 DEF Refusal, Entity
  <2>3. Changed(ents[r], x) \in Entity
    BY <2>2, PatchAssumption DEF Changed, Image, Entity
  <2>4. Staged(op, s) = Graph([ents EXCEPT ![r] = Changed(ents[r], x)], rels)
    BY <2>1, <1>2 DEF Staged
  <2> HIDE DEF Changed
  <2> QED
    BY <2>3, <2>4, <1>6
<1>10. ASSUME NEW p \in Relation, op = Unrelate(p)
       PROVE  Closed(Staged(op, s))
  <2>1. Staged(op, s) = Graph(ents, rels \ {p})
    BY <1>2, <1>10 DEF Staged, Unrelate
  <2> QED
    BY <2>1, <1>4 DEF Closed, Graph
<1>11. ASSUME NEW r \in Ref, NEW x \in Entity, op = Delete(r, x)
       PROVE  FALSE
  BY <1>11 DEF Delete
<1> QED
  BY <1>7, <1>8, <1>9, <1>10, <1>11
     DEF Operation, Inserts, Relates, Updates, Unrelates, Deletes

\* What comes after a deletion in the canonical order is a deletion.
LEMMA DeletesLast ==
  ASSUME NEW a \in Operation, NEW b \in Operation,
         Rank(a) <= Rank(b), b.kind # "delete"
  PROVE  a.kind # "delete"
<1>1. b.kind \in {"insert", "relate", "update", "unrelate", "delete"}
  BY DEF Operation, Inserts, Relates, Updates, Unrelates, Deletes,
         Insert, Relate, Update, Unrelate, Delete
<1> QED
  BY <1>1 DEF Rank

-----------------------------------------------------------------------------
(* The inductive invariant.                                                *)

\* The trail is the patch's own history: each operation was legal where it was
\* applied, and the states an operation other than a deletion met are closed.
Chain ==
  /\ patch \in Seq(Operation)
  /\ trail \in Seq(State)
  /\ Len(trail) = Len(patch) + 1
  /\ Closed(trail[1])
  /\ \A i \in 1 .. Len(patch) :
       /\ Refusal(patch[i], trail[i]) = "none"
       /\ trail[i + 1] = Staged(patch[i], trail[i])
       /\ patch[i].kind # "delete" => Closed(trail[i])

\* Until a deletion the candidate is closed.
ClosedSoFar ==
  (patch # << >> => patch[Len(patch)].kind # "delete") => Closed(trail[Len(trail)])

\* Where in the trail the machine stands.
Standing ==
  /\ index \in Nat
  /\ \/ pc = "applying" /\ work = trail[Len(trail)]
     \/ pc = "accepted" /\ work = trail[Len(trail)] /\ Closed(work)
     \/ pc = "rejected" /\ work = trail[1]
     \/ pc = "undoing" /\ index <= Len(patch) /\ work = trail[index + 1]
     \/ pc = "undone" /\ work = trail[1]

IInv == Chain /\ ClosedSoFar /\ Standing

LEMMA Starts == Init => IInv
<1> SUFFICES ASSUME Init PROVE IInv
  OBVIOUS
<1>1. PICK s \in State : Closed(s) /\ work = s /\ trail = <<s>>
  BY DEF Init
<1>2. patch = << >> /\ index = 0 /\ pc = "applying"
  BY DEF Init
<1>3. Len(patch) = 0 /\ Len(trail) = 1 /\ trail[1] = s
      /\ patch \in Seq(Operation) /\ trail \in Seq(State)
  BY <1>1, <1>2
<1> QED
  BY <1>1, <1>2, <1>3 DEF IInv, Chain, ClosedSoFar, Standing

\* Staging an operation extends the chain, or ends the application refused.
LEMMA ApplyKeeps ==
  ASSUME IInv, NEW op \in Operation, ApplyOperation(op)
  PROVE  IInv'
<1>1. work = trail[Len(trail)] /\ work \in State /\ Len(trail) \in Nat /\ Len(patch) \in Nat
  BY DEF IInv, Chain, Standing, ApplyOperation
<1>2. CASE Refusal(op, work) = "none"
  <2>1. /\ work' = Staged(op, work) /\ patch' = Append(patch, op)
        /\ trail' = Append(trail, Staged(op, work))
        /\ pc' = "applying" /\ index' = index
    BY <1>2 DEF ApplyOperation
  <2>2. op.kind # "delete" => Closed(work)
    <3> SUFFICES ASSUME op.kind # "delete" PROVE Closed(work)
      OBVIOUS
    <3>1. ASSUME patch # << >> PROVE patch[Len(patch)].kind # "delete"
      <4>1. patch[Len(patch)] \in Operation
        BY <3>1 DEF IInv, Chain
      <4>2. Rank(patch[Len(patch)]) <= Rank(op)
        BY <3>1 DEF ApplyOperation, InOrder
      <4> QED
        BY <4>1, <4>2, DeletesLast
    <3> QED
      BY <3>1, <1>1 DEF IInv, ClosedSoFar
  <2>3. Staged(op, work) \in State
    BY <1>1, <1>2, <2>2, StepInverts
  <2>4. op.kind # "delete" => Closed(Staged(op, work))
    BY <1>1, <1>2, <2>2, ClosedKept
  <2> DEFINE new == Staged(op, work)
  <2>5. new = Staged(op, work)
    OBVIOUS
  <2> HIDE DEF new
  <2>6. /\ patch' \in Seq(Operation) /\ Len(patch') = Len(patch) + 1
        /\ patch'[Len(patch')] = op
        /\ \A i \in 1 .. Len(patch) : patch'[i] = patch[i]
    BY <2>1 DEF IInv, Chain
  <2>7. /\ trail' \in Seq(State) /\ Len(trail') = Len(trail) + 1
        /\ trail'[Len(trail')] = new
        /\ \A i \in 1 .. Len(trail) : trail'[i] = trail[i]
    BY <2>1, <2>3, <2>5 DEF IInv, Chain
  <2>8. ASSUME NEW i \in 1 .. Len(patch')
        PROVE  /\ Refusal(patch'[i], trail'[i]) = "none"
               /\ trail'[i + 1] = Staged(patch'[i], trail'[i])
               /\ patch'[i].kind # "delete" => Closed(trail'[i])
    <3>1. CASE i \in 1 .. Len(patch)
      <4>1. i \in 1 .. Len(trail) /\ i + 1 \in 1 .. Len(trail)
        BY <3>1, <1>1 DEF IInv, Chain
      <4>2. patch'[i] = patch[i] /\ trail'[i] = trail[i] /\ trail'[i + 1] = trail[i + 1]
        BY <3>1, <4>1, <2>6, <2>7
      <4> QED
        BY <3>1, <4>2 DEF IInv, Chain
    <3>2. CASE i = Len(patch) + 1
      <4>1. i = Len(trail) /\ i \in 1 .. Len(trail) /\ i + 1 = Len(trail')
        BY <3>2, <1>1, <2>7 DEF IInv, Chain
      <4>2. patch'[i] = op /\ trail'[i] = work /\ trail'[i + 1] = new
        BY <3>2, <4>1, <2>6, <2>7, <1>1
      <4> QED
        BY <4>2, <1>2, <2>2, <2>5
    <3> QED
      BY <3>1, <3>2, <2>6, <1>1
  <2>9. Closed(trail'[1]) /\ Len(trail') = Len(patch') + 1
    BY <2>6, <2>7, <1>1 DEF IInv, Chain
  <2>10. Chain'
    BY <2>6, <2>7, <2>8, <2>9 DEF Chain
  <2>11. ClosedSoFar'
    <3>1. patch' # << >>
      BY <2>6, <1>1
    <3> QED
      BY <3>1, <2>6, <2>7, <2>4, <2>5 DEF ClosedSoFar
  <2>12. Standing'
    BY <2>1, <2>5, <2>7 DEF Standing, IInv
  <2> QED
    BY <2>10, <2>11, <2>12 DEF IInv
<1>3. CASE Refusal(op, work) # "none"
  <2>1. pc' = "rejected" /\ work' = trail[1] /\ UNCHANGED <<patch, trail, index>>
    BY <1>3 DEF ApplyOperation, Predecessor
  <2> QED
    BY <2>1 DEF IInv, Chain, ClosedSoFar, Standing
<1> QED
  BY <1>2, <1>3

\* Undoing an operation leads back to the candidate before it.
LEMMA UndoKeeps ==
  ASSUME IInv, UndoOperation
  PROVE  IInv'
<1>1. /\ pc = "undoing" /\ index \in 1 .. Len(patch) /\ work = trail[index + 1]
      /\ UNCHANGED <<patch, trail>>
  BY DEF IInv, Chain, Standing, UndoOperation
<1>2. patch[index] \in Operation /\ trail[index] \in State
  BY <1>1 DEF IInv, Chain
<1>3. /\ Refusal(patch[index], trail[index]) = "none"
      /\ work = Staged(patch[index], trail[index])
      /\ patch[index].kind # "delete" => Closed(trail[index])
  BY <1>1 DEF IInv, Chain
<1>4. UndoRefusal(patch[index], work) = "none"
      /\ Unstaged(patch[index], work) = trail[index]
  BY <1>2, <1>3, StepInverts
<1>5. work' = trail[index] /\ index' = index - 1 /\ pc' = "undoing"
  BY <1>1, <1>4 DEF UndoOperation
<1>6. index' \in Nat /\ index' <= Len(patch') /\ work' = trail'[index' + 1]
  BY <1>1, <1>5 DEF IInv, Chain
<1>7. Standing'
  BY <1>5, <1>6 DEF Standing
<1> QED
  BY <1>1, <1>7 DEF IInv, Chain, ClosedSoFar

LEMMA Keeps == IInv /\ [Next]_vars => IInv'
<1> SUFFICES ASSUME IInv, [Next]_vars PROVE IInv'
  OBVIOUS
<1>1. ASSUME NEW op \in Operation, ApplyOperation(op) PROVE IInv'
  BY <1>1, ApplyKeeps
<1>2. CASE FinishApply
  <2>1. pc = "applying" /\ work = trail[Len(trail)] /\ UNCHANGED <<patch, trail, index>>
    BY <1>2 DEF FinishApply, IInv, Standing
  <2>2. CASE Closed(work)
    BY <1>2, <2>1, <2>2 DEF FinishApply, IInv, Chain, ClosedSoFar, Standing
  <2>3. CASE ~Closed(work)
    BY <1>2, <2>1, <2>3 DEF FinishApply, Predecessor, IInv, Chain, ClosedSoFar, Standing
  <2> QED
    BY <2>2, <2>3
<1>3. CASE BeginUndo
  <2>1. /\ pc' = "undoing" /\ index' = Len(patch) /\ UNCHANGED <<work, patch, trail>>
        /\ work = trail[Len(trail)] /\ Len(patch) \in Nat /\ Len(trail) = Len(patch) + 1
    BY <1>3 DEF BeginUndo, IInv, Chain, Standing
  <2>2. index' \in Nat /\ index' <= Len(patch') /\ work' = trail'[index' + 1]
    BY <2>1
  <2>3. Standing'
    BY <2>1, <2>2 DEF Standing
  <2> QED
    BY <2>1, <2>3 DEF IInv, Chain, ClosedSoFar
<1>4. CASE UndoOperation
  BY <1>4, UndoKeeps
<1>5. CASE FinishUndo
  <2>1. pc = "undoing" /\ index = 0 /\ work = trail[1] /\ Closed(work)
        /\ UNCHANGED <<patch, trail, index>>
    BY <1>5 DEF FinishUndo, IInv, Chain, Standing
  <2>2. pc' = "undone" /\ work' = trail[1]
    BY <1>5, <2>1 DEF FinishUndo, Predecessor
  <2> QED
    BY <2>1, <2>2 DEF IInv, Chain, ClosedSoFar, Standing
<1>6. CASE UNCHANGED vars
  BY <1>6 DEF vars, IInv, Chain, ClosedSoFar, Standing
<1> QED
  BY <1>1, <1>2, <1>3, <1>4, <1>5, <1>6 DEF Next

LEMMA Inductive == Spec => []IInv
  BY Starts, Keeps, PTL DEF Spec

-----------------------------------------------------------------------------

\* Every variable keeps its type: the candidates of ApplyPatch and UndoPatch
\* are states of the patch's schema at every operation.
THEOREM PatchTypeOK == Spec => []TypeOK
<1>1. IInv => TypeOK
  <2> SUFFICES ASSUME IInv PROVE TypeOK
    OBVIOUS
  <2>1. work \in State
    BY DEF IInv, Chain, Standing
  <2> QED
    BY <2>1 DEF IInv, Chain, Standing, TypeOK
<1> QED
  BY <1>1, Inductive, PTL

\* No outcome of ApplyPatch or UndoPatch has a dangling relation.
THEOREM PatchOutcomesClosed == Spec => []OutcomesAreClosed
<1>1. IInv => OutcomesAreClosed
  BY DEF IInv, Chain, Standing, OutcomesAreClosed
<1> QED
  BY <1>1, Inductive, PTL

\* UndoPatch takes every accepted patch back to its predecessor.
THEOREM PatchesUndo == Spec => []AcceptedPatchesUndo
<1>1. IInv => AcceptedPatchesUndo
  BY DEF IInv, Standing, AcceptedPatchesUndo
<1> QED
  BY <1>1, Inductive, PTL
=============================================================================
