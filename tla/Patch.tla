------------------------------- MODULE Patch -------------------------------
(***************************************************************************)
(* States and the operations of a patch.  A state is a graph: what each    *)
(* entity reference holds, and the relations between references.  An       *)
(* operation carries the images it expects, so it is legal in some states  *)
(* only, and has an inverse in the states it leads to.                     *)
(*                                                                         *)
(* There is one relation kind; Relation is the set of reference pairs its  *)
(* declaration admits.  Schema validation, which NewPatch does before an   *)
(* operation enters a patch, is the type of the operation.                 *)
(***************************************************************************)
EXTENDS Naturals, Sequences

CONSTANTS Ref, Relation, Field, Value,
          Required,   \* the fields an entity has from its construction on
          Absent,     \* the image of a field an entity does not have
          Gone        \* what a reference to no entity holds

ASSUME PatchAssumption ==
  /\ Relation \subseteq Ref \X Ref
  /\ Required \subseteq Field
  /\ Absent \notin Value
  /\ Gone \notin [Field -> Value \cup {Absent}]

Image == Value \cup {Absent}
Entity == {x \in [Field -> Image] : \A f \in Required : x[f] # Absent}

Graph(ents, rels) == [ents |-> ents, rels |-> rels]
State == {Graph(e, r) : e \in [Ref -> Entity \cup {Gone}], r \in SUBSET Relation}

\* Every relation's endpoints are entities: what NewState insists on.
Closed(s) == \A r \in s.rels : s.ents[r[1]] # Gone /\ s.ents[r[2]] # Gone

-----------------------------------------------------------------------------
(* The operations.  The two images of an update are defined on the fields  *)
(* it changes.                                                             *)

Insert(r, x) == [kind |-> "insert", ref |-> r, entity |-> x]
Relate(p) == [kind |-> "relate", relation |-> p]
Update(r, b, x) == [kind |-> "update", ref |-> r, before |-> b, after |-> x]
Unrelate(p) == [kind |-> "unrelate", relation |-> p]
Delete(r, x) == [kind |-> "delete", ref |-> r, entity |-> x]

Inserts == {Insert(r, x) : r \in Ref, x \in Entity}
Relates == {Relate(p) : p \in Relation}
Updates == UNION {{Update(r, b, x) : r \in Ref, b \in [fs -> Image], x \in [fs -> Value]}
                    : fs \in (SUBSET Field) \ {{}}}
Unrelates == {Unrelate(p) : p \in Relation}
Deletes == {Delete(r, x) : r \in Ref, x \in Entity}
Operation == Inserts \cup Relates \cup Updates \cup Unrelates \cup Deletes

\* A variant of the canonical order with deletions before unrelations.
RankDeletesFirst(op) ==
  CASE op.kind = "insert" -> 1 [] op.kind = "relate" -> 2
    [] op.kind = "update" -> 3 [] op.kind = "delete" -> 4
    [] op.kind = "unrelate" -> 5

\* OperationKind's numeric order, which is the canonical operation rank.
Rank(op) ==
  CASE op.kind = "insert" -> 1 [] op.kind = "relate" -> 2
    [] op.kind = "update" -> 3 [] op.kind = "unrelate" -> 4
    [] op.kind = "delete" -> 5

-----------------------------------------------------------------------------
(* ApplyPatch, one operation.                                              *)

EndpointMissing(p, s) == s.ents[p[1]] = Gone \/ s.ents[p[2]] = Gone

\* The code the operation is rejected with in state s, or "none".
Refusal(op, s) ==
  CASE op.kind = "insert" ->
         IF s.ents[op.ref] # Gone THEN "identity_collision" ELSE "none"
    [] op.kind = "relate" ->
         IF op.relation \in s.rels THEN "relation_already_present"
         ELSE IF EndpointMissing(op.relation, s) THEN "relation_endpoint_missing"
         ELSE "none"
    [] op.kind = "update" ->
         IF s.ents[op.ref] = Gone THEN "update_target_not_found"
         ELSE IF \E f \in DOMAIN op.before : s.ents[op.ref][f] # op.before[f]
         THEN "before_image_mismatch" ELSE "none"
    [] op.kind = "delete" ->
         IF s.ents[op.ref] = Gone THEN "delete_target_not_found"
         ELSE IF s.ents[op.ref] # op.entity THEN "before_image_mismatch"
         ELSE "none"
    [] op.kind = "unrelate" ->
         IF op.relation \notin s.rels THEN "relation_not_found" ELSE "none"

\* An entity with the fields of an image changed: y over x.
Changed(x, y) == [f \in Field |-> IF f \in DOMAIN y THEN y[f] ELSE x[f]]

Staged(op, s) ==
  CASE op.kind = "insert" -> Graph([s.ents EXCEPT ![op.ref] = op.entity], s.rels)
    [] op.kind = "relate" -> Graph(s.ents, s.rels \cup {op.relation})
    [] op.kind = "update" ->
         Graph([s.ents EXCEPT ![op.ref] = Changed(@, op.after)], s.rels)
    [] op.kind = "delete" -> Graph([s.ents EXCEPT ![op.ref] = Gone], s.rels)
    [] op.kind = "unrelate" -> Graph(s.ents, s.rels \ {op.relation})

-----------------------------------------------------------------------------
(* UndoPatch, one operation.                                               *)

Touches(p, r) == p[1] = r \/ p[2] = r

UndoRefusal(op, s) ==
  CASE op.kind = "update" ->
         IF s.ents[op.ref] = Gone THEN "update_target_not_found"
         ELSE IF \E f \in DOMAIN op.after : s.ents[op.ref][f] # op.after[f]
         THEN "before_image_mismatch" ELSE "none"
    [] op.kind = "relate" ->
         IF op.relation \notin s.rels THEN "before_image_mismatch" ELSE "none"
    [] op.kind = "insert" ->
         IF s.ents[op.ref] # op.entity \/ \E p \in s.rels : Touches(p, op.ref)
         THEN "before_image_mismatch" ELSE "none"
    [] op.kind = "delete" ->
         IF s.ents[op.ref] # Gone THEN "before_image_mismatch" ELSE "none"
    [] op.kind = "unrelate" ->
         IF op.relation \in s.rels \/ EndpointMissing(op.relation, s)
         THEN "before_image_mismatch" ELSE "none"

Unstaged(op, s) ==
  CASE op.kind = "update" ->
         Graph([s.ents EXCEPT ![op.ref] = Changed(@, op.before)], s.rels)
    [] op.kind = "relate" -> Graph(s.ents, s.rels \ {op.relation})
    [] op.kind = "insert" -> Graph([s.ents EXCEPT ![op.ref] = Gone], s.rels)
    [] op.kind = "delete" -> Graph([s.ents EXCEPT ![op.ref] = op.entity], s.rels)
    [] op.kind = "unrelate" -> Graph(s.ents, s.rels \cup {op.relation})
=============================================================================
