------------------------------ MODULE Lowering ------------------------------
(***************************************************************************)
(* From a tree to what the compiler takes (internal/dsl/compile.go): the   *)
(* operators of the text become the kernel's, clauses left out get their   *)
(* defaults, and a rule that does not declare its accesses has them        *)
(* derived.  A tree that cannot be lowered is ErrorExpr, and a             *)
(* declaration with one inside it an error.                                *)
(***************************************************************************)
EXTENDS Compiler, Formatter

CONSTANTS HourSeconds,   \* 3600 in the code
          MinuteSeconds  \* 60 in the code

ASSUME UnitAssumption == HourSeconds \in Nat /\ MinuteSeconds \in Nat

ErrorExpr == Node("error", <<>>, <<>>, <<>>)
IsError(e) == e.kind = "error"

\* A node over lowered operands.
Lowered(kind, field, args) ==
    IF \E i \in DOMAIN args : IsError(args[i]) THEN ErrorExpr ELSE Node(kind, <<>>, field, args)
LiteralNode(value) == IF value = NoValue THEN ErrorExpr ELSE Node("literal", <<value>>, <<>>, <<>>)
IntLiteral(n) == LiteralNode(NewInt64Value(n))

-----------------------------------------------------------------------------
(* Literals.                                                               *)

Unsigned(text) == IF text # <<>> /\ Head(text) \in {Minus, Plus} THEN Tail(text) ELSE text
Magnitude(digits) == FoldLeft(LAMBDA n, d : n * Base + d, 0, digits)

\* strconv.ParseInt.
ParseInt(text) ==
    LET digits == Unsigned(text)
        n == (IF text # <<>> /\ Head(text) = Minus THEN -1 ELSE 1) * Magnitude(digits)
        ok == digits # <<>> /\ Range(digits) \subseteq Digit /\ n \in Int64
    IN  [ok |-> ok, n |-> IF ok THEN n ELSE 0]

HourMark == -5
MinuteMark == -6
SecondMark == -7

\* parseDurationLiteral: the sign comes off first, and neither the product nor the negation is
\* checked.
ParseDurationLiteral(text) ==
    LET negative == text # <<>> /\ Head(text) = Minus
        s == IF negative THEN Tail(text) ELSE text
        mark == IF s = <<>> THEN 0 ELSE s[Len(s)]
        scale == CASE mark = HourMark -> HourSeconds [] mark = MinuteMark -> MinuteSeconds [] OTHER -> 1
        number == ParseInt(IF mark \in {HourMark, MinuteMark, SecondMark} THEN Front(s) ELSE s)
        seconds == Wrap(number.n * scale)
    IN  [ok |-> number.ok, n |-> IF negative THEN Wrap(-seconds) ELSE seconds]

IntegerValue(parsed, sign) == IF parsed.ok THEN NewInt64Value(Wrap(sign * parsed.n)) ELSE NoValue
DurationValue(parsed, sign) == IF parsed.ok THEN NewDurationValue(Wrap(sign * parsed.n)) ELSE NoValue

\* The text a quoted name is spelled with.
Spelling(e) == IF e.path # <<>> THEN [i \in DOMAIN e.path |-> Code[e.path[i]]] ELSE e.text

\* lowerLiteral.
LowerLiteral(e) ==
    CASE e.name = "string"    -> NewStringValue(Spelling(e))
      [] e.name = "int64"     -> IntegerValue(ParseInt(e.text), 1)
      [] e.name = "decimal"   -> NewDecimalValue(e.text)
      [] e.name = "timestamp" -> NewTimestampValue(e.text)
      [] e.name = "date"      -> NewDateValue(e.text)
      [] e.name = "duration"  -> DurationValue(ParseDurationLiteral(e.text), 1)
      [] e.name = "atom"      -> NewAtomValue(e.text)
      [] e.name = "null"      -> NoValue

\* The literal under a minus sign.
NegatedLiteral(e) ==
    CASE e.name = "int64"    -> IntegerValue(ParseInt(e.text), -1)
      [] e.name = "decimal"  -> NewDecimalValue(IF e.text # <<>> /\ Head(e.text) = Minus THEN Tail(e.text) ELSE <<Minus>> \o e.text)
      [] e.name = "duration" -> DurationValue(ParseDurationLiteral(e.text), -1)

-----------------------------------------------------------------------------
(* Expressions.                                                            *)

Truth(b) == Node("equal", <<>>, <<>>, <<IntLiteral(1), IntLiteral(IF b THEN 1 ELSE 0)>>)
Not(e) == Lowered("not", <<>>, <<e>>)

\* A variant that lowers a >= b as the negation of b < a.
LowerBinaryReversed(op, l, r) ==
    CASE op = "==" -> Lowered("equal", <<>>, <<l, r>>)
      [] op = "!=" -> Not(Lowered("equal", <<>>, <<l, r>>))
      [] op = "<"  -> Lowered("less", <<>>, <<l, r>>)
      [] op = ">"  -> Lowered("less", <<>>, <<r, l>>)
      [] op \in {"<=", ">="} -> Not(Lowered("less", <<>>, <<r, l>>))
      [] OTHER -> Lowered("all", <<>>, <<l, r>>)

\* The operators of the text; the parser gives "(" and "." between two operands as well.
LowerBinary(op, l, r) ==
    CASE op = "==" -> Lowered("equal", <<>>, <<l, r>>)
      [] op = "!=" -> Not(Lowered("equal", <<>>, <<l, r>>))
      [] op = "<"  -> Lowered("less", <<>>, <<l, r>>)
      [] op = ">"  -> Lowered("less", <<>>, <<r, l>>)
      [] op = "<=" -> Not(Lowered("less", <<>>, <<r, l>>))
      [] op = ">=" -> Not(Lowered("less", <<>>, <<l, r>>))
      [] op = "&&" -> Lowered("all", <<>>, <<l, r>>)
      [] op = "||" -> Lowered("any", <<>>, <<l, r>>)
      [] op = "+"  -> Lowered("add", <<>>, <<l, r>>)
      [] op = "-"  -> Lowered("subtract", <<>>, <<l, r>>)
      [] op = "*"  -> Lowered("multiply", <<>>, <<l, r>>)
      [] op = "/"  -> Lowered("divide", <<>>, <<l, r>>)
      [] op = "%"  -> Lowered("modulo", <<>>, <<l, r>>)
      [] OTHER     -> ErrorExpr

\* The functions with a fixed number of arguments, and the node each makes.
Functions3 == {"if", "substring", "clamp"}
Functions2 == {"date_add", "timestamp_add", "date_diff", "timestamp_diff"}
Functions1 == {"trim", "abs"}
NodeOf(name) ==
    CASE name \in {"date_add", "timestamp_add"}   -> "timestamp_add"
      [] name \in {"date_diff", "timestamp_diff"} -> "timestamp_diff"
      [] OTHER -> name

\* The unit of an extract: a name, quoted or not.
UnitOf(e) == IF e.node = "ident" \/ (e.node = "literal" /\ e.name = "string") THEN e.path ELSE <<>>

\* lowerCallExpr, from the arguments and what they lower to.
LowerCall(name, trees, args) ==
    LET n == Len(trees)
    IN  CASE name = "count" -> IF n = 0 THEN Lowered("count", <<>>, <<>>) ELSE ErrorExpr
          [] name \in FieldReaders \ {"field"} ->
               IF n = 1 /\ trees[1].node = "ident" THEN Lowered(name, trees[1].path, <<>>) ELSE ErrorExpr
          [] name = "all" -> Lowered(IF n = 1 THEN "all_members" ELSE "all", <<>>, args)
          [] name = "any" -> Lowered(IF n = 1 THEN "any_members" ELSE "any", <<>>, args)
          [] name \in {"coalesce", "concat"} -> Lowered(name, <<>>, args)
          [] name \in Functions1 \cup Functions2 \cup Functions3 ->
               IF n = (CASE name \in Functions1 -> 1 [] name \in Functions2 -> 2 [] OTHER -> 3)
                 THEN Lowered(NodeOf(name), <<>>, args) ELSE ErrorExpr
          [] name = "extract" ->
               IF n = 2 /\ UnitOf(trees[1]) # <<>> THEN Lowered("date_extract", UnitOf(trees[1]), <<args[2]>>) ELSE ErrorExpr
          [] OTHER -> ErrorExpr

RECURSIVE LowerExpr(_)
LowerExpr(e) ==
    LET args == [i \in DOMAIN e.args |-> LowerExpr(e.args[i])]
    IN  CASE e.node = "ident"   -> Node("field", <<>>, e.path, <<>>)
          [] e.node = "literal" -> IF e.name = "bool" THEN Truth(e.text = <<1>>) ELSE LiteralNode(LowerLiteral(e))
          [] e.node = "unary" /\ e.name = "!" -> Not(args[1])
          [] e.node = "unary" /\ e.name = "-" ->
               IF e.args[1].node = "literal" /\ e.args[1].name \in {"int64", "decimal", "duration"}
                 THEN LiteralNode(NegatedLiteral(e.args[1]))
                 ELSE Lowered("subtract", <<>>, <<IntLiteral(0), args[1]>>)
          [] e.node = "binary"  -> LowerBinary(e.name, args[1], args[2])
          [] e.node = "call"    -> LowerCall(e.name, e.args, args)

RECURSIVE CollectASTFieldPaths(_)
\* collectASTFieldPaths: every path in the text, a unit's name included.
CollectASTFieldPaths(e) ==
    IF e.node = "ident" THEN <<e.path>> ELSE FlattenSeq([i \in DOMAIN e.args |-> CollectASTFieldPaths(e.args[i])])

-----------------------------------------------------------------------------
(* Operators.                                                              *)

LowerClause(clause) == [i \in DOMAIN clause |-> LowerExpr(clause[i])]

\* lowerSelector: the having clause belongs to the operator.
LowerSelector(s) ==
    [kind |-> s.kind, where |-> LowerClause(s.where), groupBy |-> LowerClause(s.groupBy),
     members |-> [kind |-> s.cardinality, count |-> s.count]]

\* lowerAssignments.
LowerAssignments(assigns) ==
    [i \in DOMAIN assigns |-> [target |-> assigns[i].target, value |-> LowerExpr(assigns[i].value)]]

DefaultRelationGuard == Truth(TRUE)
DefaultGroupGuard == Lowered("all_members", <<>>, <<DefaultRelationGuard>>)

GroupedBy(s, path) ==
    [s EXCEPT !.groupBy = <<IdentExpr(path)>>, !.cardinality = "at_least", !.count = 1]

\* The grouping a select without one gets: by the first path of its where clause, or by the
\* first target it sets, with groups of any size.
WithDefaultGrouping(o) ==
    LET s == o.sel[1]
        paths == (IF s.where = <<>> THEN <<>> ELSE CollectASTFieldPaths(s.where[1]))
                   \o (IF o.assigns = <<>> THEN <<>> ELSE <<o.assigns[1].target>>)
    IN  CASE s.groupBy # <<>> -> s
          [] o.op = "select_assign" ->
               IF paths = <<>> THEN [s EXCEPT !.cardinality = "at_least", !.count = 1] ELSE GroupedBy(s, paths[1])
          [] o.op = "insert" -> GroupedBy(s, <<s.kind, "id">>)
          [] OTHER -> s

NoSelector == [kind |-> "", where |-> <<>>, groupBy |-> <<>>, members |-> [kind |-> "any", count |-> 0]]

\* lowerSelectAndAssign, lowerInsertEntity, lowerDeleteEntity, lowerRelateEntities,
\* lowerUnrelateEntities, lowerMergeEntities and lowerSplitEntity: the members each operator has.
LowerOperator(id, o) ==
    LET relation == o.op \in RelationOperators
        default == IF relation THEN DefaultRelationGuard ELSE DefaultGroupGuard
        discriminated == o.op \in {"insert", "merge"}
    IN  [id |-> id, op |-> o.op, payloads |-> {o.op},
         sel |-> LowerSelector(WithDefaultGrouping(o)),
         to |-> IF relation THEN LowerSelector(o.to[1]) ELSE NoSelector,
         relation |-> o.relation, target |-> o.target,
         disc |-> IF discriminated THEN LowerExpr(o.disc[1]) ELSE IntLiteral(0),
         guard |-> IF o.guard = <<>> THEN default ELSE LowerExpr(o.guard[1]),
         assigns |-> LowerAssignments(o.assigns),
         partitions |-> [i \in DOMAIN o.partitions |-> [disc |-> LowerExpr(o.partitions[i].disc[1]),
                                                        assigns |-> LowerAssignments(o.partitions[i].assigns)]],
         retain |-> o.retain, reanchor |-> o.reanchor, reads |-> <<>>, writes |-> <<>>, after |-> <<>>]

\* A nil selector or discriminator is an error.
Complete(o) ==
    /\ o.sel # <<>>
    /\ o.op \in RelationOperators => o.to # <<>>
    /\ o.op \in {"insert", "merge"} => o.disc # <<>>
    /\ \A i \in DOMAIN o.partitions : o.partitions[i].disc # <<>>

-----------------------------------------------------------------------------
(* Accesses.                                                               *)

RECURSIVE CollectFieldPaths(_)
\* collectFieldPaths: the field of every node, except the unit of an extract.
CollectFieldPaths(e) ==
    (IF e.field # <<>> /\ e.kind # "date_extract" THEN {e.field} ELSE {})
    \cup UNION {CollectFieldPaths(e.args[i]) : i \in DOMAIN e.args}
CollectAll(trees) == UNION {CollectFieldPaths(e) : e \in trees}

\* A variant that takes the paths of a relation guard as they are.
GuardPathAsWritten(d, path) == path

\* collectRelationGuardPaths, for one path.
GuardPath(d, path) ==
    CASE Len(path) > 1 /\ path[1] = "from" -> <<d.sel.kind>> \o Tail(path)
      [] Len(path) > 1 /\ path[1] = "to"   -> <<d.to.kind>> \o Tail(path)
      [] OTHER                             -> path

\* deriveRuleReads.
DeriveRuleReads(d) ==
    IF d.op \in RelationOperators
      THEN CollectAll(SelectorTrees(d.sel) \cup SelectorTrees(d.to)) \cup {GuardPath(d, p) : p \in CollectFieldPaths(d.guard)}
      ELSE CollectAll(SelectorTrees(d.sel) \cup {d.guard} \cup AssignmentTrees(d.assigns))
           \cup (IF d.op \in {"insert", "merge"} THEN CollectFieldPaths(d.disc) ELSE {})
           \cup UNION {CollectAll({d.partitions[i].disc} \cup AssignmentTrees(d.partitions[i].assigns)) : i \in DOMAIN d.partitions}

\* deriveRuleWrites.
DeriveRuleWrites(d) ==
    {d.assigns[i].target : i \in DOMAIN d.assigns}
    \cup UNION {{d.partitions[i].assigns[j].target : j \in DOMAIN d.partitions[i].assigns} : i \in DOMAIN d.partitions}

\* lowerRuleDecl: declared accesses are taken as they are written, the others derived (in an order
\* that the compiler's own sort forgets).
LowerRuleDecl(r) ==
    LET d == LowerOperator(r.id, r.operator)
        accesses(declared, derived) == IF declared # <<>> THEN declared ELSE SetToSeq(derived)
    IN  IF ~Complete(r.operator) \/ \E e \in PayloadTrees(d) : IsError(e)
          THEN [ok |-> FALSE, decl |-> <<>>]
          ELSE [ok |-> TRUE, decl |-> [d EXCEPT !.reads = accesses(r.reads, DeriveRuleReads(d)),
                                                !.writes = accesses(r.writes, DeriveRuleWrites(d)), !.after = r.dependsOn]]

-----------------------------------------------------------------------------
(* Files.                                                                  *)

\* The types lowerFieldDecl knows.
FieldTypes ==
    [string |-> "string", int64 |-> "int64", int |-> "int64", decimal |-> "decimal", dec |-> "decimal",
     timestamp |-> "timestamp", ts |-> "timestamp", date |-> "date", duration |-> "duration", dur |-> "duration",
     atom |-> "atom"]

\* lowerEntityDecl and lowerFieldDecl.
LowerEntityDecl(e) ==
    [kind |-> e.kind,
     fields |-> [i \in DOMAIN e.fields |-> [name |-> e.fields[i].name, required |-> e.fields[i].required,
                                            kind |-> IF e.fields[i].type \in DOMAIN FieldTypes THEN FieldTypes[e.fields[i].type] ELSE "none"]]]

\* NewSchema: unique names, known types, declared endpoints.
ValidSchema(entities, relations) ==
    LET kinds == {entities[i].kind : i \in DOMAIN entities}
    IN  /\ IsInjective([i \in DOMAIN entities |-> entities[i].kind])
        /\ \A i \in DOMAIN entities :
              /\ IsInjective([j \in DOMAIN entities[i].fields |-> entities[i].fields[j].name])
              /\ \A j \in DOMAIN entities[i].fields : entities[i].fields[j].kind # "none"
        /\ IsInjective([i \in DOMAIN relations |-> relations[i].kind])
        /\ \A i \in DOMAIN relations : relations[i].from \in kinds /\ relations[i].to \in kinds

\* lowerProfileDecl.
LowerProfileDecl(p) ==
    [key |-> p.key, scope |-> [kind |-> "all_of_kind", entity |-> p.entity], aggregation |-> "all_selected",
     requirements |-> [i \in DOMAIN p.requirements |-> [code |-> p.requirements[i].code, kind |-> "field_present",
                                                       field |-> p.requirements[i].field]],
     implies |-> p.implies]

\* CompileRequestFromFile: the declarations of each kind, in the order of the file.
CompileRequestFromFile(file) ==
    LET of(kind) == SelectSeq(file, LAMBDA d : d.decl = kind)
        schemas == of("schema")
        entities == FlattenSeq([i \in DOMAIN schemas |->
                        [j \in DOMAIN schemas[i].entities |-> LowerEntityDecl(schemas[i].entities[j])]])
        relations == FlattenSeq([i \in DOMAIN schemas |-> schemas[i].relations])
        rules == [i \in DOMAIN of("rule") |-> LowerRuleDecl(of("rule")[i])]
    IN  IF ~ValidSchema(entities, relations) \/ \E i \in DOMAIN rules : ~rules[i].ok
          THEN [ok |-> FALSE, request |-> <<>>]
          ELSE [ok |-> TRUE,
                request |-> [entities |-> Range(entities), relations |-> Range(relations),
                             rules |-> [i \in DOMAIN rules |-> rules[i].decl],
                             checkpoints |-> [i \in DOMAIN of("checkpoint") |-> [key |-> of("checkpoint")[i].key,
                                                                                 after |-> of("checkpoint")[i].after]],
                             profiles |-> [i \in DOMAIN of("profile") |-> LowerProfileDecl(of("profile")[i])]]]

\* CompileRequestFromText.
CompileRequestFromText(toks) ==
    LET file == ParseFile(toks)
    IN  IF file.at = Nowhere THEN [ok |-> FALSE, request |-> <<>>] ELSE CompileRequestFromFile(file.value)
=============================================================================
