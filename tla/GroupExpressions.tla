-------------------------- MODULE GroupExpressions --------------------------
(***************************************************************************)
(* Expressions about a whole group (internal/semantic/group_expr.go): the  *)
(* guard of a rule and the values it assigns.  The file holds a second     *)
(* evaluator of the language, a copy of evaluateExpr with reductions, with *)
(* the quantifiers and with an optional bound member; nothing in the code  *)
(* ties the two together, so they are translated separately here and       *)
(* compared.  It also holds the check of the guard of a relation rule.     *)
(* The groups themselves are what a selector selects, at the end.          *)
(***************************************************************************)
EXTENDS Expressions

\* valueLess: unlike the less of evaluateExpr it also orders strings.
TextLess(a, b) ==
    \/ Len(a) < Len(b) /\ SubSeq(b, 1, Len(a)) = a
    \/ \E i \in DOMAIN a \cap DOMAIN b : SubSeq(a, 1, i - 1) = SubSeq(b, 1, i - 1) /\ a[i] < b[i]

ValueLess(v, w, type) ==
    CASE type = "decimal" -> DecimalLess(ParseDecimal(v.text).d, ParseDecimal(w.text).d)
      [] type = "string"  -> TextLess(v.text, w.text)
      [] OTHER            -> v.integer < w.integer

\* The field of every member, or the class of the first refusal.
MemberFields(e, members) == [i \in DOMAIN members |-> BoundField(e.field, <<members[i]>>)]

FieldsErr(fs) ==
    LET bad == {i \in DOMAIN fs : fs[i].err # "" \/ fs[i].stored = <<>>}
    IN  IF bad = {} THEN "" ELSE IF fs[Min(bad)].err # "" THEN fs[Min(bad)].err ELSE "data"

\* all_members and any_members: evaluateBool on each member until an error or the answer.
GroupQuantifier(e, members) ==
    EvalShortCircuit([i \in DOMAIN members |-> EvaluateExpr(e.args[1], <<members[i]>>)],
                     e.kind = "any_members")

\* all_equal: the first field must be readable; then each member in turn, until one differs.
AllEqualOf(fs) ==
    LET first == fs[1].stored[1]
        ends == {i \in DOMAIN fs : \/ fs[i].err # "" \/ fs[i].stored = <<>>
                                   \/ fs[i].stored[1].kind # fs[1].declared
                                   \/ ~ValueEqual(fs[i].stored[1], first)}
        end == fs[Min(ends)]
    IN  CASE FieldsErr(<<fs[1]>>) # ""       -> Err(FieldsErr(<<fs[1]>>))
          [] ends = {}                       -> BoolResult(TRUE)
          [] FieldsErr(<<end>>) # ""         -> Err(FieldsErr(<<end>>))
          [] end.stored[1].kind # fs[1].declared -> Err("type")
          [] OTHER                           -> BoolResult(FALSE)

\* sum: left to right from zero; any prefix that overflows refuses.
SumOf(fs) ==
    LET kind == fs[1].declared
        AddInt(acc, f) ==
            IF acc.ok THEN AddInt64(acc.n, f.stored[1].integer) ELSE acc
        AddDecimal(acc, f) == DecimalAdd(acc, ParseDecimal(f.stored[1].text).d)
    IN  CASE kind \notin Numeric              -> Err("type")
          [] \E i \in DOMAIN fs : fs[i].stored[1].kind # kind -> Err("type")
          [] kind = "decimal"                 -> DecimalResult(Exact(FoldLeft(AddDecimal, NoDecimal, fs)))
          [] OTHER                            -> IntResult(kind, FoldLeft(AddInt, [ok |-> TRUE, n |-> 0], fs))

\* min and max: the first value, replaced by each strictly better one.
ExtremeOf(e, fs) ==
    LET Replaces(v, best, less) ==
            \/ e.kind = "min" /\ less
            \/ e.kind = "max" /\ ~less /\ ~ValueEqual(v, best)
        Better(best, f) ==
            IF Replaces(f.stored[1], best, ValueLess(f.stored[1], best, fs[1].declared)) THEN f.stored[1] ELSE best
    IN  ValueResult(fs[1].declared, FoldLeft(Better, fs[1].stored[1], Tail(fs)))

\* The reductions, from the field of every member; the last two refuse the first that is absent.
Reduce(e, fs) ==
    CASE e.kind = "all_equal" -> AllEqualOf(fs)
      [] FieldsErr(fs) # ""   -> Err(FieldsErr(fs))
      [] e.kind = "sum"       -> SumOf(fs)
      [] OTHER                -> ExtremeOf(e, fs)

-----------------------------------------------------------------------------
(* The copied arms.                                                        *)

\* equal and less.
GroupCompare(e, l, r) ==
    CASE l.kind # r.kind                         -> Err("type")
      [] e.kind = "equal" /\ l.kind = "bool"     -> BoolResult(l.boolean = r.boolean)
      [] e.kind = "equal"                        -> BoolResult(ValueEqual(l.value, r.value))
      [] l.kind \in Ordered \cup {"string"}      -> BoolResult(ValueLess(l.value, r.value, l.kind))
      [] OTHER                                   -> Err("type")

\* The decimal arms of add, subtract, multiply, divide and modulo.
GroupDecimal(e, a, b) ==
    IF e.kind \in {"timestamp_add", "timestamp_diff", "modulo"} THEN Err("type")
    ELSE DecimalResult(CASE e.kind = "add"      -> Exact(DecimalAdd(a, b))
                         [] e.kind = "subtract" -> Exact(DecimalSub(a, b))
                         [] e.kind = "multiply" -> Exact(DecimalMul(a, b))
                         [] OTHER               -> DecimalDiv(a, b))

\* add and timestamp_add.
GroupAdd(e, l, r) ==
    CASE {l.kind, r.kind} = {"timestamp", "duration"} ->
             TimestampResult(IF l.kind = "timestamp" THEN AddDuration(NanoOf(l), r.value.integer)
                                                     ELSE AddDuration(NanoOf(r), l.value.integer))
      [] e.kind = "timestamp_add" \/ l.kind # r.kind  -> Err("type")
      [] l.kind \in {"int64", "duration"}             -> IntResult(l.kind, AddInt64(l.value.integer, r.value.integer))
      [] OTHER                                        -> Err("type")

\* A variant in which the copy lost the guard on the negation of a duration.
GroupSubtractUnguarded(e, l, r) ==
    CASE l.kind = "timestamp" /\ r.kind = "timestamp" ->
             ValueResult("duration", NewDurationValue(TimestampDiff(NanoOf(l), NanoOf(r))))
      [] e.kind = "timestamp_diff"                    -> Err("type")
      [] l.kind = "timestamp" /\ r.kind = "duration"  -> TimestampResult(AddDuration(NanoOf(l), Wrap(-r.value.integer)))
      [] l.kind # r.kind                              -> Err("type")
      [] l.kind \in {"int64", "duration"}             -> IntResult(l.kind, SubInt64(l.value.integer, r.value.integer))
      [] OTHER                                        -> Err("type")

\* subtract and timestamp_diff.
GroupSubtract(e, l, r) ==
    CASE l.kind = "timestamp" /\ r.kind = "timestamp" ->
             ValueResult("duration", NewDurationValue(TimestampDiff(NanoOf(l), NanoOf(r))))
      [] e.kind = "timestamp_diff"                    -> Err("type")
      [] l.kind = "timestamp" /\ r.kind = "duration"  ->
             IF r.value.integer = IntMin THEN Err("data")
                                         ELSE TimestampResult(AddDuration(NanoOf(l), -r.value.integer))
      [] l.kind # r.kind                              -> Err("type")
      [] l.kind \in {"int64", "duration"}             -> IntResult(l.kind, SubInt64(l.value.integer, r.value.integer))
      [] OTHER                                        -> Err("type")

\* multiply, divide and modulo.
GroupProduct(e, l, r) ==
    LET a == l.value.integer
        b == r.value.integer
    IN  CASE l.kind = "int64" /\ r.kind = "int64" ->
                 IntResult("int64", CASE e.kind = "multiply" -> MulInt64(a, b)
                                      [] e.kind = "divide"   -> DivInt64(a, b)
                                      [] OTHER               -> ModInt64(a, b))
          [] e.kind = "multiply" /\ {l.kind, r.kind} = {"duration", "int64"} ->
                 IntResult("duration", MulInt64(a, b))
          [] OTHER -> Err("type")

\* abs and clamp.
GroupBound(e, rs) ==
    LET v == rs[1]
        low == rs[2].value.integer
        high == rs[3].value.integer
    IN  CASE e.kind = "abs" ->
                 CASE v.kind \in {"int64", "duration"} -> IntResult(v.kind, AbsInt64(v.value.integer))
                   [] v.kind = "decimal" -> DecimalResult(Exact(DecimalAbs(DecimalOf(v))))
                   [] OTHER              -> Err("type")
          [] v.kind # rs[2].kind \/ v.kind # rs[3].kind \/ v.kind \notin Ordered -> Err("type")
          [] v.kind = "decimal" -> DecimalResult(DecimalClamp(DecimalOf(v), DecimalOf(rs[2]), DecimalOf(rs[3])))
          [] high < low -> Err("data")
          [] OTHER -> IF v.value.integer < low THEN rs[2] ELSE IF v.value.integer > high THEN rs[3] ELSE v

\* date_extract.
GroupDateExtract(e, a) ==
    LET unit == e.field[1]
    IN  CASE a.kind = "timestamp" /\ unit \in Units ->
                 ValueResult("int64", NewInt64Value(TimestampExtract(NanoOf(a), unit)))
          [] a.kind = "date" /\ unit \in DateUnits ->
                 ValueResult("int64", NewInt64Value(DateExtract(ParseDate(a.value.text).days, unit)))
          [] OTHER -> Err("type")

\* concat, substring and trim.
GroupText(e, rs) ==
    LET text   == rs[1].value.text
        start  == rs[2].value.integer
        length == rs[3].value.integer
        end    == IF length < Len(text) - start THEN start + length ELSE Len(text)
    IN  CASE rs[1].kind # "string" -> Err("type")
          [] e.kind = "trim"       -> ValueResult("string", NewStringValue(TrimSpace(text)))
          [] e.kind = "concat"     ->
                 IF \E i \in DOMAIN rs : rs[i].kind # "string" THEN Err("type")
                 ELSE ValueResult("string", NewStringValue(FlattenSeq([i \in DOMAIN rs |-> rs[i].value.text])))
          [] rs[2].kind # "int64" \/ rs[3].kind # "int64" -> Err("type")
          [] start < 0 \/ length < 0 -> Err("data")
          [] OTHER -> ValueResult("string", NewStringValue(SubSeq(text, start + 1, end)))

GroupStrict(e, rs) ==
    LET errors == {i \in DOMAIN rs : rs[i].err # ""}
    IN  CASE errors # {}                                  -> rs[Min(errors)]
          [] e.kind \in {"equal", "less"}                 -> GroupCompare(e, rs[1], rs[2])
          [] /\ e.kind \in {"add", "timestamp_add", "subtract", "timestamp_diff", "multiply", "divide", "modulo"}
             /\ rs[1].kind = "decimal" /\ rs[2].kind = "decimal" -> GroupDecimal(e, DecimalOf(rs[1]), DecimalOf(rs[2]))
          [] e.kind \in {"add", "timestamp_add"}          -> GroupAdd(e, rs[1], rs[2])
          [] e.kind \in {"subtract", "timestamp_diff"}    -> GroupSubtract(e, rs[1], rs[2])
          [] e.kind \in {"multiply", "divide", "modulo"}  -> GroupProduct(e, rs[1], rs[2])
          [] e.kind \in {"abs", "clamp"}                  -> GroupBound(e, rs)
          [] e.kind = "date_extract"                      -> GroupDateExtract(e, rs[1])
          [] OTHER                                        -> GroupText(e, rs)

\* evaluateGroupNode; bound is <<>> in a guard and <<member>> in an assignment.
RECURSIVE EvaluateGroupNode(_, _, _)
EvaluateGroupNode(e, members, bound) ==
    LET rs == [i \in DOMAIN e.args |-> EvaluateGroupNode(e.args[i], members, bound)]
        cond == AsBool(rs[1])
    IN  CASE members = <<>>                                -> Err("data")
          [] ~CheckOperandShape(e)                         -> Err("type")
          [] e.kind \in {"literal", "field", "exists"}     -> IF e.kind # "literal" /\ bound = <<>> THEN Err("type") ELSE EvalLeaf(e, bound)
          [] e.kind \in {"all_members", "any_members"}     -> GroupQuantifier(e, members)
          [] e.kind = "count"                              -> ValueResult("int64", NewInt64Value(Len(members)))
          [] e.kind \in {"all_equal", "sum", "min", "max"} -> Reduce(e, MemberFields(e, members))
          [] e.kind = "not"                                -> IF cond.err # "" THEN cond ELSE BoolResult(~cond.boolean)
          [] e.kind \in {"all", "any"}                     -> EvalShortCircuit(rs, e.kind = "any")
          [] e.kind = "if"                                 -> IF cond.err # "" THEN cond ELSE IF cond.boolean THEN rs[2] ELSE rs[3]
          [] e.kind = "coalesce"                           -> EvalCoalesce(rs)
          [] OTHER                                         -> GroupStrict(e, rs)

\* evaluateAssignmentValue and evaluateGroupValue: a valid value or a refusal.
EvaluateGroupValue(e, members, bound) == AsValue(EvaluateGroupNode(e, members, bound))

-----------------------------------------------------------------------------
(* Relation guards.                                                        *)

\* A variant that reads a bare path of two endpoints of one kind as the first endpoint's.
MapFieldPathLenient(path, fromKind, toKind) ==
    LET name == SplitFieldPath(path)
        real == CASE name[1] = "from" -> <<fromKind, name[2]>>
                  [] name[1] = "to"   -> <<toKind, name[2]>>
                  [] OTHER            -> path
    IN  IF name[1] # "" /\ FieldKind(real) # "none" THEN real ELSE <<>>

\* mapFieldPaths on one path: the endpoint aliases become concrete kinds; <<>> is a refusal.
MapFieldPath(path, fromKind, toKind) ==
    LET name == SplitFieldPath(path)
        real == CASE name[1] = "from" -> <<fromKind, name[2]>>
                  [] name[1] = "to"   -> <<toKind, name[2]>>
                  [] fromKind # toKind /\ name[1] \in {fromKind, toKind} -> path
                  [] OTHER            -> <<>>
    IN  IF name[1] # "" /\ FieldKind(real) # "none" THEN real ELSE <<>>

\* mapFieldPaths on a tree: every node that carries a field is mapped, a date_extract's unit too.
RECURSIVE MapFieldPaths(_, _, _)
MapFieldPaths(e, fromKind, toKind) ==
    LET field == IF e.field = <<>> THEN <<>> ELSE MapFieldPath(e.field, fromKind, toKind)
        args == [i \in DOMAIN e.args |-> MapFieldPaths(e.args[i], fromKind, toKind)]
        bad == (e.field # <<>> /\ field = <<>>) \/ \E i \in DOMAIN args : ~args[i].ok
    IN  [ok |-> ~bad,
         expr |-> Node(e.kind, e.literal, field, [i \in DOMAIN args |-> args[i].expr])]

\* checkRelationGuard.
CheckRelationGuard(e, fromKind, toKind) ==
    LET mapped == MapFieldPaths(e, fromKind, toKind)
    IN  IF mapped.ok THEN CheckExprInScope("", mapped.expr, "member", 0) ELSE "invalid"

-----------------------------------------------------------------------------
(* Selectors (internal/semantic/selector.go): what a rule applies to, by a *)
(* kind, an optional predicate, an optional grouping expression and the    *)
(* number of members a group must have.                                    *)
(*                                                                         *)
(* A selector is [kind, where, groupBy, members]: where and groupBy are    *)
(* <<>> or <<expression>>, members is [kind, count].  A state's entities   *)
(* are a sequence in canonical (kind, id) order; an id is a sequence of    *)
(* numbers, compared as its text is.                                       *)

\* checkCardinality.
CheckCardinality(s) ==
    /\ \/ s.members.kind = "any" /\ s.members.count = 0
       \/ s.members.kind \in {"exactly", "at_least"} /\ s.members.count > 0
    /\ s.groupBy = <<>> =>
          /\ s.members.kind = "exactly" => s.members.count = 1
          /\ s.members.kind = "at_least" => s.members.count <= 1

\* compileSelectorExpr: the type of an expression every path of which is of the selected kind.
SelectorExprType(e, kind) ==
    IF CheckPathsBindKind(e, kind) THEN CheckExpr(e) ELSE "invalid"

\* CompileSelector.
CompileSelector(s) ==
    /\ \E path \in DOMAIN Declared : path[1] = s.kind
    /\ CheckCardinality(s)
    /\ s.where # <<>> => SelectorExprType(s.where[1], s.kind) = "bool"
    /\ s.groupBy # <<>> => SelectorExprType(s.groupBy[1], s.kind) \notin {"invalid", "bool"}

\* admits.
Admits(members, size) ==
    CASE members.kind = "any"     -> TRUE
      [] members.kind = "exactly" -> size = members.count
      [] OTHER                    -> size >= members.count

\* encodeGroupKey; an ungrouped accumulator has no key.
EncodeGroupKey(key) == IF key = NoValue THEN <<>> ELSE EncodeValue(key)

\* The comparator of the sort: key bytes, then the reference of the first member.
GroupLess(a, b) ==
    LET x == EncodeGroupKey(a.key)
        y == EncodeGroupKey(b.key)
    IN  IF x # y THEN TextLess(x, y) ELSE TextLess(a.members[1].id, b.members[1].id)

\* A variant that starts a group only when the key differs from the one before it.
AccumulateAdjacent(acc, key, entity) ==
    IF acc # <<>> /\ ValueEqual(acc[Len(acc)].key, key)
      THEN [acc EXCEPT ![Len(acc)].members = Append(@, entity)]
      ELSE Append(acc, [key |-> key, members |-> <<entity>>])

\* byKey: the entity joins the accumulator of its key, or opens one.
Accumulate(acc, key, entity) ==
    LET same == {i \in DOMAIN acc : key # NoValue /\ EncodeGroupKey(acc[i].key) = EncodeGroupKey(key)}
    IN  IF same = {} THEN Append(acc, [key |-> key, members |-> <<entity>>])
                     ELSE [acc EXCEPT ![Min(same)].members = Append(@, entity)]

\* One entity under the predicate, then under the grouping expression; key and held are what
\* these evaluated to.
Fault(sel, err, entity) == [sel EXCEPT !.err = err, !.fault = <<entity>>]
JoinGroup(sel, entity, key) ==
    IF key.err # "" THEN Fault(sel, key.err, entity) ELSE [sel EXCEPT !.acc = Accumulate(@, key.value, entity)]
Consider(s, sel, entity, held) ==
    CASE held.err # ""     -> Fault(sel, held.err, entity)
      [] ~held.boolean     -> sel
      [] s.groupBy = <<>>  -> [sel EXCEPT !.acc = Accumulate(@, NoValue, entity)]
      [] OTHER             -> JoinGroup(sel, entity, EvaluateValue(s.groupBy[1], <<entity>>))
SelectEntity(s, sel, entity) ==
    IF sel.err # "" \/ entity.kind # s.kind
      THEN sel
      ELSE Consider(s, sel, entity, IF s.where = <<>> THEN BoolResult(TRUE) ELSE AsBool(EvaluateExpr(s.where[1], <<entity>>)))

\* The groups in their order, split by the cardinality.
Divided(s, ordered) ==
    [err |-> "", fault |-> <<>>,
     groups |-> SelectSeq(ordered, LAMBDA g : Admits(s.members, Len(g.members))),
     violations |-> SelectSeq(ordered, LAMBDA g : ~Admits(s.members, Len(g.members)))]
Selection(s, sel) ==
    IF sel.err # ""
      THEN [err |-> sel.err, fault |-> sel.fault, groups |-> <<>>, violations |-> <<>>]
      ELSE Divided(s, SortSeq(sel.acc, GroupLess))

\* Select: [err, fault, groups, violations].  The first entity that cannot be evaluated ends it,
\* and is the fault.
Select(s, entities) ==
    Selection(s, FoldLeft(LAMBDA sel, entity : SelectEntity(s, sel, entity),
                          [err |-> "", fault |-> <<>>, acc |-> <<>>], entities))
=============================================================================
