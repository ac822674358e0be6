----------------------------- MODULE Expressions -----------------------------
(***************************************************************************)
(* The closed expression language of the kernel: the shape and the type of *)
(* an authored node (expression.go, and the scope-aware check of           *)
(* group_expr.go), its canonical bytes, and its evaluation against one     *)
(* bound entity or the two endpoints of a relation (evaluate_expr.go).     *)
(*                                                                         *)
(* A node is [kind, literal, field, args]: literal is <<>> or <<value>>,   *)
(* field is <<>>, <<kind, name>> or, for date_extract, <<unit>>.           *)
(* The schema is the function Declared from paths to value kinds.          *)
(***************************************************************************)
EXTENDS Values

CONSTANTS Declared,     \* the schema: [path -> value kind]
          Code,         \* a number for every name and unit, for the encodings
          MaxExprDepth  \* 64 in the code

\* AllExprKinds, in kind-byte order.
ExprKinds ==
    <<"literal", "field", "exists", "not", "all", "any", "equal", "less", "add",
      "all_members", "any_members", "all_equal", "count", "sum", "min", "max",
      "subtract", "multiply", "divide", "modulo", "abs", "clamp",
      "timestamp_add", "timestamp_diff", "date_extract",
      "concat", "substring", "trim", "if", "coalesce">>

ExprKindByte(kind) == CHOOSE b \in DOMAIN ExprKinds : ExprKinds[b] = kind

Node(kind, literal, field, args) ==
    [kind |-> kind, literal |-> literal, field |-> field, args |-> args]

\* The types of an expression; "invalid" is the refusal of the checker.
Ordered == {"int64", "decimal", "duration", "timestamp", "date"}
Numeric == {"int64", "decimal", "duration"}

Unary == {"not", "abs", "trim"}
Binary == {"equal", "less", "add", "subtract", "multiply", "divide", "modulo",
           "timestamp_add", "timestamp_diff"}
Ternary == {"clamp", "substring", "if"}
FieldReaders == {"field", "exists", "all_equal", "sum", "min", "max"}

\* A variant that checks the arity of a node and lets it carry operands its kind does not use.
CheckArityOnly(e) ==
    LET n == Len(e.args)
    IN  CASE e.kind \in Unary \cup {"all_members", "any_members", "date_extract"} -> n = 1
          [] e.kind \in Binary                    -> n = 2
          [] e.kind \in Ternary                   -> n = 3
          [] e.kind \in {"all", "any", "coalesce"} -> n >= 1
          [] e.kind = "concat"                    -> n >= 2
          [] OTHER -> n = 0 /\ (e.kind = "literal" => e.literal # <<>>)

\* checkOperandShape: the operands a node carries are exactly the ones its kind uses.
CheckOperandShape(e) ==
    LET n == Len(e.args)
    IN  /\ CASE e.kind \in Unary \cup {"all_members", "any_members", "date_extract"} -> n = 1
             [] e.kind \in Binary                    -> n = 2
             [] e.kind \in Ternary                   -> n = 3
             [] e.kind \in {"all", "any", "coalesce"} -> n >= 1
             [] e.kind = "concat"                    -> n >= 2
             [] OTHER                                -> n = 0
        /\ (e.kind = "literal") = (e.literal # <<>>)
        /\ (e.kind \in FieldReaders \cup {"date_extract"}) = (e.field # <<>>)

\* fieldKind: the declared kind of a path, "none" for a path the schema does not declare.
FieldKind(path) == IF path \in DOMAIN Declared THEN Declared[path] ELSE "none"

\* literalType.
LiteralType(v) == IF ValidValue(v) THEN v.kind ELSE "invalid"

\* splitFieldPath: a path that is not kind.name has neither.
SplitFieldPath(path) == IF Len(path) = 2 THEN path ELSE <<"", "">>

\* A variant whose walk does not know the reductions and all_equal.
RECURSIVE ReadFieldPathsOfFields(_)
ReadFieldPathsOfFields(e) ==
    IF e.kind \in {"field", "exists"}
      THEN {e.field}
      ELSE UNION {ReadFieldPathsOfFields(e.args[i]) : i \in DOMAIN e.args}

\* readFieldPaths, as a set: the field-carrying kinds contribute their path and hide no child.
RECURSIVE ReadFieldPaths(_)
ReadFieldPaths(e) ==
    IF e.kind \in FieldReaders
      THEN {e.field}
      ELSE UNION {ReadFieldPaths(e.args[i]) : i \in DOMAIN e.args}

\* checkPathsBindKind.
CheckPathsBindKind(e, kind) == \A path \in ReadFieldPaths(e) : SplitFieldPath(path)[1] = kind

-----------------------------------------------------------------------------
(* The type check: one definition per family of nodes, from the types of   *)
(* the operands.                                                           *)

\* field and exists read one entity.
CheckEntityRead(e, kind, in) ==
    IF \/ in = "group"
       \/ FieldKind(e.field) = "none"
       \/ in = "member-in-group" /\ ~CheckPathsBindKind(e, kind)
      THEN "invalid"
      ELSE IF e.kind = "field" THEN FieldKind(e.field) ELSE "bool"

\* all_members, any_members: a bool about a member of the group's kind, in group scope only.
CheckQuantifier(e, kind, in, inner) ==
    IF in = "group" /\ inner = "bool" /\ CheckPathsBindKind(e.args[1], kind)
      THEN "bool" ELSE "invalid"

\* all_equal, in group scope only.
CheckAllEqual(e, kind, in) ==
    IF in = "group" /\ FieldKind(e.field) # "none" /\ CheckPathsBindKind(e, kind)
      THEN "bool" ELSE "invalid"

\* count, sum, min and max, wherever a group is in scope.
CheckReduction(e, kind, in) ==
    LET t == FieldKind(e.field)
    IN  CASE in = "member"    -> "invalid"
          [] e.kind = "count" -> "int64"
          [] ~CheckPathsBindKind(e, kind) -> "invalid"
          [] e.kind = "sum"   -> IF t \in Numeric THEN t ELSE "invalid"
          [] OTHER            -> IF t \in Ordered THEN t ELSE "invalid"

\* not, all, any, equal and less.
CheckLogic(e, ts) ==
    CASE e.kind \in {"not", "all", "any"} -> IF \A i \in DOMAIN ts : ts[i] = "bool" THEN "bool" ELSE "invalid"
      [] e.kind = "equal" -> IF ts[1] = ts[2] THEN "bool" ELSE "invalid"
      [] OTHER            -> IF ts[1] = ts[2] /\ ts[1] \in Ordered THEN "bool" ELSE "invalid"

\* add and subtract.
CheckSum(e, l, r) ==
    CASE l = r /\ l \in Numeric                    -> l
      [] l = "timestamp" /\ r = "duration"         -> "timestamp"
      [] e.kind = "add" /\ l = "duration" /\ r = "timestamp" -> "timestamp"
      [] e.kind = "subtract" /\ l = "timestamp" /\ r = "timestamp" -> "duration"
      [] OTHER                                     -> "invalid"

\* multiply, divide, modulo, abs and clamp.
CheckProduct(e, ts) ==
    CASE e.kind = "abs"    -> IF ts[1] \in Numeric THEN ts[1] ELSE "invalid"
      [] e.kind = "clamp"  -> IF ts[1] = ts[2] /\ ts[1] = ts[3] /\ ts[1] \in Ordered THEN ts[1] ELSE "invalid"
      [] ts[1] = "int64" /\ ts[2] = "int64" -> "int64"
      [] e.kind = "modulo" -> "invalid"
      [] ts[1] = "decimal" /\ ts[2] = "decimal" -> "decimal"
      [] e.kind = "multiply" /\ {ts[1], ts[2]} = {"duration", "int64"} -> "duration"
      [] OTHER             -> "invalid"

\* A variant that lets date_extract take the hour of a date.
CheckTemporalAnyUnit(e, ts) ==
    CASE e.kind = "timestamp_add" ->
             IF {ts[1], ts[2]} = {"timestamp", "duration"} THEN "timestamp" ELSE "invalid"
      [] e.kind = "timestamp_diff" ->
             IF ts[1] = "timestamp" /\ ts[2] = "timestamp" THEN "duration" ELSE "invalid"
      [] OTHER ->
             IF ts[1] \in {"timestamp", "date"} /\ e.field[1] \in Units THEN "int64" ELSE "invalid"

\* timestamp_add, timestamp_diff and date_extract.
CheckTemporal(e, ts) ==
    CASE e.kind = "timestamp_add" ->
             IF {ts[1], ts[2]} = {"timestamp", "duration"} THEN "timestamp" ELSE "invalid"
      [] e.kind = "timestamp_diff" ->
             IF ts[1] = "timestamp" /\ ts[2] = "timestamp" THEN "duration" ELSE "invalid"
      [] OTHER ->
             IF \/ ts[1] = "timestamp" /\ e.field[1] \in Units
                \/ ts[1] = "date" /\ e.field[1] \in DateUnits
               THEN "int64" ELSE "invalid"

\* concat, substring and trim.
CheckText(e, ts) ==
    IF e.kind = "substring"
      THEN IF ts = <<"string", "int64", "int64">> THEN "string" ELSE "invalid"
      ELSE IF \A i \in DOMAIN ts : ts[i] = "string" THEN "string" ELSE "invalid"

\* if and coalesce.
CheckChoice(e, ts) ==
    IF e.kind = "if"
      THEN IF ts[1] = "bool" /\ ts[2] = ts[3] THEN ts[2] ELSE "invalid"
      ELSE IF \A i \in DOMAIN ts : ts[i] = ts[1] THEN ts[1] ELSE "invalid"

\* checkExprInScope: depth, scope, shape, then the operands left to right and the node itself.
RECURSIVE CheckExprInScope(_, _, _, _)
CheckExprInScope(kind, e, in, depth) ==
    IF depth > MaxExprDepth \/ in \notin {"member", "group", "member-in-group"} \/ ~CheckOperandShape(e)
      THEN "invalid"
      ELSE LET below == IF e.kind \in {"all_members", "any_members"} THEN "member" ELSE in
               ts == [i \in DOMAIN e.args |-> CheckExprInScope(kind, e.args[i], below, depth + 1)]
           IN  CASE \E i \in DOMAIN ts : ts[i] = "invalid"      -> "invalid"
                 [] e.kind = "literal"                          -> LiteralType(e.literal[1])
                 [] e.kind \in {"field", "exists"}              -> CheckEntityRead(e, kind, in)
                 [] e.kind \in {"all_members", "any_members"}   -> CheckQuantifier(e, kind, in, ts[1])
                 [] e.kind = "all_equal"                        -> CheckAllEqual(e, kind, in)
                 [] e.kind \in {"count", "sum", "min", "max"}   -> CheckReduction(e, kind, in)
                 [] e.kind \in {"not", "all", "any", "equal", "less"} -> CheckLogic(e, ts)
                 [] e.kind \in {"add", "subtract"}              -> CheckSum(e, ts[1], ts[2])
                 [] e.kind \in {"multiply", "divide", "modulo", "abs", "clamp"} -> CheckProduct(e, ts)
                 [] e.kind \in {"timestamp_add", "timestamp_diff", "date_extract"} -> CheckTemporal(e, ts)
                 [] e.kind \in {"concat", "substring", "trim"}  -> CheckText(e, ts)
                 [] OTHER                                       -> CheckChoice(e, ts)

\* checkExpr: what CompileExpression types an expression with, and refuses it by.
CheckExpr(e) == CheckExprInScope("", e, "member", 0)
-----------------------------------------------------------------------------
(* Canonical bytes of a node.                                              *)

EncodePath(field) == EncodeString([i \in DOMAIN field |-> Code[field[i]]])

\* encodeExpr.
RECURSIVE EncodeExpr(_)
EncodeExpr(e) ==
    LET args == FlattenSeq([i \in DOMAIN e.args |-> EncodeExpr(e.args[i])])
    IN  <<ExprKindByte(e.kind)>> \o
        CASE e.kind = "literal"      -> EncodeValue(e.literal[1])
          [] e.kind \in FieldReaders -> EncodePath(e.field)
          [] e.kind = "date_extract" -> EncodePath(e.field) \o args
          [] e.kind = "count"        -> <<>>
          [] OTHER                   -> <<Len(e.args)>> \o args

-----------------------------------------------------------------------------
(* Evaluation.  A result is [err, kind, value, boolean]; err is "" or the  *)
(* class of the refusal: "data" when the bound entities cannot answer (an  *)
(* absent field, an overflow), "type" when the node asks for what no entity*)
(* of this schema could answer.                                            *)

Err(class) == [err |-> class, kind |-> "invalid", value |-> NoValue, boolean |-> FALSE]
BoolResult(b) == [err |-> "", kind |-> "bool", value |-> NoValue, boolean |-> b]
ValueResult(kind, v) == [err |-> "", kind |-> kind, value |-> v, boolean |-> FALSE]
IntResult(kind, r) ==
    IF r.ok THEN ValueResult(kind, IF kind = "int64" THEN NewInt64Value(r.n) ELSE NewDurationValue(r.n))
            ELSE Err("data")
\* val, _ := NewDecimalValue(res.String()): a result the constructor refuses is a NoValue.
DecimalResult(r) == IF r.ok THEN ValueResult("decimal", NewDecimalValue(DecimalText(r.d))) ELSE Err("data")
TimestampResult(r) == IF r.ok THEN ValueResult("timestamp", NewTimestampValue(TimestampText(r.nano))) ELSE Err("data")
Exact(d) == [ok |-> TRUE, d |-> d]

\* d, _ := parseDecimal(text); the zero struct when the text is not a decimal.
DecimalOf(r) == ParseDecimal(r.value.text).d
NanoOf(r) == ParseTimestamp(r.value.text).nano

\* An entity is [kind, id, fields], fields a function from the names that are present.
Stored(entity, name) == IF name \in DOMAIN entity.fields THEN <<entity.fields[name]>> ELSE <<>>

\* boundField: [err, declared, stored], stored being <<>> for an absent field.
Unbound == [err |-> "type", declared |-> "none", stored |-> <<>>]
BoundTo(entity, name) ==
    IF FieldKind(<<entity.kind, name>>) = "none"
      THEN Unbound
      ELSE [err |-> "", declared |-> FieldKind(<<entity.kind, name>>), stored |-> Stored(entity, name)]
BoundField(path, entities) ==
    LET kind == SplitFieldPath(path)[1]
        from == entities[1]
        to   == entities[Len(entities)]
        two  == Len(entities) # 1
    IN  IF \/ kind = ""
           \/ ~two /\ from.kind # kind
           \/ two /\ kind \notin {"from", "to"} /\ (from.kind = to.kind \/ kind \notin {from.kind, to.kind})
          THEN Unbound
          ELSE BoundTo(IF two /\ (kind = "to" \/ (kind # "from" /\ kind = to.kind)) THEN to ELSE from, SplitFieldPath(path)[2])

\* The leaves.  Absence is refused, and the stored value must be of the declared kind.
ReadLeaf(e, f) ==
    CASE f.err # ""                       -> Err(f.err)
      [] e.kind = "exists"                -> BoolResult(f.stored # <<>>)
      [] f.stored = <<>>                  -> Err("data")
      [] f.stored[1].kind # f.declared    -> Err("type")
      [] OTHER                            -> ValueResult(f.declared, f.stored[1])
EvalLeaf(e, entities) ==
    CASE e.kind # "literal"                       -> ReadLeaf(e, BoundField(e.field, entities))
      [] LiteralType(e.literal[1]) = "invalid"    -> Err("type")
      [] OTHER                                    -> ValueResult(e.literal[1].kind, e.literal[1])

\* evaluateBool.
AsBool(r) == IF r.err = "" /\ r.kind # "bool" THEN Err("type") ELSE r

\* all (stop = FALSE) and any (stop = TRUE): left to right until an error or the stopping answer.
EvalShortCircuit(rs, stop) ==
    LET ends == {i \in DOMAIN rs : AsBool(rs[i]).err # "" \/ rs[i].boolean = stop}
    IN  IF ends = {} THEN BoolResult(~stop) ELSE AsBool(rs[Min(ends)])

EvalEqual(l, r) ==
    CASE l.kind # r.kind  -> Err("type")
      [] l.kind = "bool"  -> BoolResult(l.boolean = r.boolean)
      [] OTHER            -> BoolResult(ValueEqual(l.value, r.value))

EvalLess(l, r) ==
    IF l.kind # r.kind \/ l.kind \notin Ordered THEN Err("type") ELSE BoolResult(l.value.integer < r.value.integer)

\* The decimal arms: each parses the texts of its operands.
DecimalArm(e, a, b) ==
    CASE e.kind = "less"     -> BoolResult(DecimalLess(a, b))
      [] e.kind = "modulo"   -> Err("type")
      [] OTHER -> DecimalResult(CASE e.kind = "add"      -> Exact(DecimalAdd(a, b))
                                  [] e.kind = "subtract" -> Exact(DecimalSub(a, b))
                                  [] e.kind = "multiply" -> Exact(DecimalMul(a, b))
                                  [] e.kind = "divide"   -> DecimalDiv(a, b))
DecimalArms == {"less", "add", "subtract", "multiply", "divide", "modulo"}

\* timestamp.AddDuration and timestamp.Diff on two results.
EvalShift(t, seconds) == TimestampResult(AddDuration(NanoOf(t), seconds))
EvalDiff(l, r) == ValueResult("duration", NewDurationValue(TimestampDiff(NanoOf(l), NanoOf(r))))

EvalAdd(l, r) ==
    CASE l.kind = r.kind /\ l.kind \in {"int64", "duration"} -> IntResult(l.kind, AddInt64(l.value.integer, r.value.integer))
      [] {l.kind, r.kind} = {"timestamp", "duration"} ->
             EvalShift(IF l.kind = "timestamp" THEN l ELSE r, (IF l.kind = "timestamp" THEN r ELSE l).value.integer)
      [] OTHER -> Err("type")

EvalSubtract(l, r) ==
    CASE l.kind = r.kind /\ l.kind \in {"int64", "duration"} -> IntResult(l.kind, SubInt64(l.value.integer, r.value.integer))
      [] l.kind = "timestamp" /\ r.kind = "timestamp" -> EvalDiff(l, r)
      [] l.kind = "timestamp" /\ r.kind = "duration"  ->
             IF r.value.integer = IntMin THEN Err("data") ELSE EvalShift(l, -r.value.integer)
      [] OTHER                                        -> Err("type")

EvalMultiply(l, r) ==
    CASE l.kind = "int64" /\ r.kind = "int64"         -> IntResult("int64", MulInt64(l.value.integer, r.value.integer))
      [] {l.kind, r.kind} = {"duration", "int64"}     -> IntResult("duration", MulInt64(l.value.integer, r.value.integer))
      [] OTHER                                        -> Err("type")

EvalDivide(e, l, r) ==
    IF l.kind = "int64" /\ r.kind = "int64"
      THEN IntResult("int64", IF e.kind = "divide" THEN DivInt64(l.value.integer, r.value.integer)
                                                   ELSE ModInt64(l.value.integer, r.value.integer))
      ELSE Err("type")

EvalAbs(a) ==
    CASE a.kind \in {"int64", "duration"} -> IntResult(a.kind, AbsInt64(a.value.integer))
      [] a.kind = "decimal"               -> DecimalResult(Exact(DecimalAbs(DecimalOf(a))))
      [] OTHER                            -> Err("type")

EvalClamp(v, low, high) ==
    CASE v.kind # low.kind \/ v.kind # high.kind \/ v.kind \notin Ordered -> Err("type")
      [] v.kind = "decimal" -> DecimalResult(DecimalClamp(DecimalOf(v), DecimalOf(low), DecimalOf(high)))
      [] high.value.integer < low.value.integer -> Err("data")
      [] v.value.integer < low.value.integer    -> low
      [] v.value.integer > high.value.integer   -> high
      [] OTHER                                  -> v

EvalDateExtract(e, a) ==
    CASE a.kind = "timestamp" /\ e.field[1] \in Units ->
             ValueResult("int64", NewInt64Value(TimestampExtract(NanoOf(a), e.field[1])))
      [] a.kind = "date" /\ e.field[1] \in DateUnits ->
             ValueResult("int64", NewInt64Value(DateExtract(ParseDate(a.value.text).days, e.field[1])))
      [] OTHER -> Err("type")

\* The result of TrimSpace, with the character 0 as the blank.
TrimSpace(text) ==
    LET inked == {i \in DOMAIN text : text[i] # 0}
    IN  IF inked = {} THEN <<>> ELSE SubSeq(text, Min(inked), Max(inked))

\* concat, substring and trim.
EvalText(e, rs) ==
    LET start  == rs[2].value.integer
        length == rs[3].value.integer
        text   == rs[1].value.text
        end    == IF length < Len(text) - start THEN start + length ELSE Len(text)
    IN  CASE e.kind = "concat" ->
                 IF \E i \in DOMAIN rs : rs[i].kind # "string" THEN Err("type")
                 ELSE ValueResult("string", NewStringValue(FlattenSeq([i \in DOMAIN rs |-> rs[i].value.text])))
          [] rs[1].kind # "string" -> Err("type")
          [] e.kind = "trim" -> ValueResult("string", NewStringValue(TrimSpace(text)))
          [] rs[2].kind # "int64" \/ rs[3].kind # "int64" -> Err("type")
          [] start < 0 \/ length < 0 -> Err("data")
          [] start >= Len(text) -> ValueResult("string", NewStringValue(<<>>))
          [] OTHER -> ValueResult("string", NewStringValue(SubSeq(text, start + 1, end)))

\* coalesce: the first operand that does not fail, whatever the failure of the ones before it.
EvalCoalesce(rs) ==
    LET answers == {i \in DOMAIN rs : rs[i].err = ""}
    IN  IF answers = {} THEN rs[Len(rs)] ELSE rs[Min(answers)]

\* The nodes whose operands are all evaluated first, the first failure being the answer.
EvalStrict(e, rs) ==
    LET errors == {i \in DOMAIN rs : rs[i].err # ""}
        Of(l, r) == rs[1].kind = l /\ rs[2].kind = r
    IN  CASE errors # {}            -> rs[Min(errors)]
          [] e.kind = "equal"       -> EvalEqual(rs[1], rs[2])
          [] e.kind \in DecimalArms /\ Of("decimal", "decimal") -> DecimalArm(e, DecimalOf(rs[1]), DecimalOf(rs[2]))
          [] e.kind = "less"        -> EvalLess(rs[1], rs[2])
          [] e.kind = "timestamp_add" /\ ~Of("timestamp", "duration") /\ ~Of("duration", "timestamp") -> Err("type")
          [] e.kind = "timestamp_diff" /\ ~Of("timestamp", "timestamp") -> Err("type")
          [] e.kind \in {"add", "timestamp_add"} -> EvalAdd(rs[1], rs[2])
          [] e.kind \in {"subtract", "timestamp_diff"} -> EvalSubtract(rs[1], rs[2])
          [] e.kind = "multiply"    -> EvalMultiply(rs[1], rs[2])
          [] e.kind \in {"divide", "modulo"} -> EvalDivide(e, rs[1], rs[2])
          [] e.kind = "abs"         -> EvalAbs(rs[1])
          [] e.kind = "clamp"       -> EvalClamp(rs[1], rs[2], rs[3])
          [] e.kind = "date_extract" -> EvalDateExtract(e, rs[1])
          [] OTHER                  -> EvalText(e, rs)

\* evaluateExpr over one bound entity or two endpoints.  Evaluation has no effects, so
\* evaluating an operand the code would skip changes nothing.
RECURSIVE EvaluateExpr(_, _)
EvaluateExpr(e, entities) ==
    LET rs == [i \in DOMAIN e.args |-> EvaluateExpr(e.args[i], entities)]
        cond == AsBool(rs[1])
    IN  CASE ~CheckOperandShape(e)  -> Err("type")
          [] e.kind \in {"literal", "field", "exists"} -> EvalLeaf(e, entities)
          [] e.kind = "not"         -> IF cond.err # "" THEN cond ELSE BoolResult(~cond.boolean)
          [] e.kind = "all"         -> EvalShortCircuit(rs, FALSE)
          [] e.kind = "any"         -> EvalShortCircuit(rs, TRUE)
          [] e.kind = "if"          -> IF cond.err # "" THEN cond ELSE IF cond.boolean THEN rs[2] ELSE rs[3]
          [] e.kind = "coalesce"    -> EvalCoalesce(rs)
          [] e.kind \in {"all_members", "any_members", "all_equal", "count", "sum", "min", "max"} -> Err("type")
          [] OTHER                  -> EvalStrict(e, rs)

\* evaluateValue: a bool is not a value, and neither is a result without a valid one.
AsValue(r) ==
    CASE r.err # ""             -> r
      [] r.kind = "bool"        -> Err("type")
      [] ~ValidValue(r.value)   -> Err("data")
      [] OTHER                  -> r
EvaluateValue(e, entities) == AsValue(EvaluateExpr(e, entities))
=============================================================================
