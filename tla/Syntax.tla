------------------------------- MODULE Syntax -------------------------------
(***************************************************************************)
(* The text of a rule file: its tokens (internal/dsl/token.go, lexer.go),  *)
(* its tree (ast.go) and the parser between them (parser.go).              *)
(*                                                                         *)
(* A token is [type, name, text]: name is the words of an identifier, of a *)
(* keyword, or of a quoted name or path (a sequence of names), text the    *)
(* characters of a number, an atom or a quoted text.  Blanks and comments  *)
(* are gone.  A parser answers what it read and the place of the last      *)
(* token it consumed, Nowhere after an error: the file is then refused     *)
(* whatever follows.                                                       *)
(***************************************************************************)
EXTENDS Values, FiniteSets, Functions

Nowhere == 0

-----------------------------------------------------------------------------
(* Tokens.                                                                 *)

Builtins ==
    {"all", "any", "all_equal", "exists", "count", "sum", "min", "max", "coalesce", "if", "concat", "substring",
     "trim", "abs", "clamp", "date_add", "date_diff", "extract"}
\* keywords; and, or, not are the operators.
Keywords ==
    Builtins \cup
    {"schema", "entity", "relation", "from", "to", "rule", "reads", "writes", "depends_on", "select", "where",
     "group_by", "having", "set", "insert", "into", "as", "delete", "relate", "unrelate", "merge", "split", "partition",
     "discriminator", "reanchor_relations", "retain_sources", "retain_source", "guard", "required", "optional", "true",
     "false", "null", "checkpoint", "after", "profile", "for", "require", "present", "implies"}

Token(type, name, text) == [type |-> type, name |-> name, text |-> text]
EndOfFile == Token("eof", <<>>, <<>>)

\* LookupIdent.
LookupIdent(word) == IF word \in Keywords THEN word ELSE "ident"
Word(word) == Token(LookupIdent(word), <<word>>, <<>>)
Symbol(sign) == Token(sign, <<>>, <<>>)
QuotedName(name) == Token("string", name, <<>>)

\* readNumber: digits with a point between them, or followed by a d, are a decimal.
NumberToken(text, suffixed) ==
    Token(IF suffixed \/ Dot \in Range(text) THEN "decimal" ELSE "int", <<>>, text)

\* A control character without an escape of its own in readString, and the letter its escape is
\* written with.
Control == -9
Escape  == 2

\* readString: an escape it does not know stands for the character after the backslash.
ReadString(quoted) == Token("string", <<>>, [i \in DOMAIN quoted |-> IF quoted[i] = Control THEN Escape ELSE quoted[i]])

\* The ':' of NextToken: an atom is an identifier.
IsIdentifier(text) == text # <<>> /\ \A i \in DOMAIN text : text[i] >= 0
ReadAtom(text) == IF IsIdentifier(text) THEN Token("atom", <<>>, text) ELSE Symbol(":")

-----------------------------------------------------------------------------
(* Trees.                                                                  *)

Tree(node, name, path, text, args) == [node |-> node, name |-> name, path |-> path, text |-> text, args |-> args]
IdentExpr(path) == Tree("ident", "", path, <<>>, <<>>)
LiteralExpr(kind, text) == Tree("literal", kind, <<>>, text, <<>>)
NameLiteral(name) == Tree("literal", "string", name, <<>>, <<>>)
UnaryExpr(op, right) == Tree("unary", op, <<>>, <<>>, <<right>>)
BinaryExpr(op, left, right) == Tree("binary", op, <<>>, <<>>, <<left, right>>)
CallExpr(name, args) == Tree("call", name, <<>>, <<>>, args)

\* A clause that may be left out is a sequence of at most one tree.
SelectorNode(kind, where, groupBy, having) ==
    [kind |-> kind, where |-> where, groupBy |-> groupBy, having |-> having, cardinality |-> "any", count |-> 0]
AssignmentNode(target, value) == [target |-> target, value |-> value]

\* The seven operator nodes in one: to, relation, target, disc, assigns, partitions, retain and
\* reanchor where the operator has them.
OperatorNode(op) ==
    [op |-> op, sel |-> <<>>, to |-> <<>>, relation |-> "", target |-> "", disc |-> <<>>, guard |-> <<>>,
     assigns |-> <<>>, partitions |-> <<>>, retain |-> FALSE, reanchor |-> FALSE]
PartitionNode(name, disc, assigns) == [op |-> "partition", name |-> name, disc |-> disc, assigns |-> assigns]

RuleDecl(id, reads, writes, dependsOn, operator) ==
    [decl |-> "rule", id |-> id, reads |-> reads, writes |-> writes, dependsOn |-> dependsOn, operator |-> operator]
SchemaDecl(entities, relations) == [decl |-> "schema", entities |-> entities, relations |-> relations]
CheckpointDecl(key, after) == [decl |-> "checkpoint", key |-> key, after |-> after]
ProfileDecl(key, entity, implies, requirements) ==
    [decl |-> "profile", key |-> key, entity |-> entity, implies |-> implies, requirements |-> requirements]

-----------------------------------------------------------------------------
(* The token stream.                                                       *)

TokenAt(toks, at) == IF at \in DOMAIN toks THEN toks[at] ELSE EndOfFile
TypeAt(toks, at) == TokenAt(toks, at).type
Names(toks, at) == TokenAt(toks, at).name

\* expectPeek.
ExpectPeek(toks, at, type) == IF at # Nowhere /\ TypeAt(toks, at + 1) = type THEN at + 1 ELSE Nowhere
\* expectPeek(Ident) failing and expectPeek(String) tried after it: the first has recorded its
\* error whatever the second finds.
ExpectName(toks, at) == ExpectPeek(toks, at, "ident")
ExpectPartitionName(toks, at) == ExpectPeek(toks, at, "string")

\* An optional delimiter.
SkipPeek(toks, at, types) == IF at # Nowhere /\ TypeAt(toks, at + 1) \in types THEN at + 1 ELSE at

Parsed(value, at) == [value |-> value, at |-> at]
ParseError == Parsed(<<>>, Nowhere)

-----------------------------------------------------------------------------
(* Expressions.                                                            *)

precLowest == 1
Precedences ==
    [t \in {"||", "&&", "==", "!=", "<", "<=", ">", ">=", "+", "-", "*", "/", "%", "(", "."} |->
        CASE t = "||" -> 2
          [] t = "&&" -> 3
          [] t \in {"==", "!="} -> 4
          [] t \in {"<", "<=", ">", ">="} -> 5
          [] t \in {"+", "-"} -> 6
          [] t \in {"*", "/", "%"} -> 7
          [] t = "(" -> 9
          [] t = "." -> 10]
precPrefix == 8
PrecedenceOf(type) == IF type \in DOMAIN Precedences THEN Precedences[type] ELSE precLowest
PathWords == {"ident", "from", "to"}

RECURSIVE PathFrom(_, _, _)
\* The dotted words after the first.
PathFrom(toks, at, path) ==
    IF TypeAt(toks, at + 1) # "." THEN Parsed(path, at)
    ELSE IF TypeAt(toks, at + 2) \notin PathWords THEN ParseError
    ELSE PathFrom(toks, at + 2, path \o Names(toks, at + 2))

\* parsePathExpression.
ParsePath(toks, at) ==
    IF at = Nowhere \/ TypeAt(toks, at) \notin PathWords THEN ParseError ELSE PathFrom(toks, at, Names(toks, at))

\* The literal a word before a parenthesis constructs.
ConstructedKind(word) ==
    CASE word \in {"ts", "timestamp"}  -> "timestamp"
      [] word = "date"                 -> "date"
      [] word \in {"dur", "duration"}  -> "duration"
      [] word = "atom"                 -> "atom"
      [] word \in {"dec", "decimal"}   -> "decimal"
      [] OTHER                         -> "none"

\* A variant that leaves the operators of its own level to the right operand.
RightOperandAbove(type) == PrecedenceOf(type) - 1

\* parseInfixExpression: what its right operand may not contain, so that an operator takes the
\* operators of its own level to its left.
RightOperand(type) == PrecedenceOf(type)

RECURSIVE ParseExpression(_, _, _), ParseInfix(_, _, _), ParseArguments(_, _, _)
\* parseCall, on the token before the parenthesis.
ParseCall(toks, at, name) ==
    LET open == ExpectPeek(toks, at, "(")
        args == IF open = Nowhere THEN ParseError
                ELSE IF TypeAt(toks, open + 1) = ")" THEN Parsed(<<>>, open)
                ELSE ParseArguments(toks, open + 1, <<>>)
        close == ExpectPeek(toks, args.at, ")")
    IN  IF close = Nowhere THEN ParseError ELSE Parsed(CallExpr(name, args.value), close)

\* The arguments from the first on.
ParseArguments(toks, at, args) ==
    LET arg == ParseExpression(toks, at, precLowest)
    IN  IF arg.at = Nowhere THEN ParseError
        ELSE IF TypeAt(toks, arg.at + 1) = "," THEN ParseArguments(toks, arg.at + 2, Append(args, arg.value))
        ELSE Parsed(Append(args, arg.value), arg.at)

\* parsePathOrFunction: a constructor takes the next token for its literal, whatever it is.
ParsePathOrFunction(toks, at) ==
    LET word == Names(toks, at)[1]
        kind == ConstructedKind(word)
        close == ExpectPeek(toks, at + 2, ")")
        path == ParsePath(toks, at)
    IN  IF TypeAt(toks, at + 1) = "("
          THEN IF kind = "none" THEN ParseCall(toks, at, word)
               ELSE IF close = Nowhere THEN ParseError
               ELSE Parsed(LiteralExpr(kind, TokenAt(toks, at + 2).text), close)
        ELSE IF path.at = Nowhere THEN ParseError
        ELSE Parsed(IdentExpr(path.value), path.at)

\* A prefix operator and its operand.
ParsePrefixed(toks, at, op) ==
    LET right == ParseExpression(toks, at + 1, precPrefix)
    IN  IF right.at = Nowhere THEN ParseError ELSE Parsed(UnaryExpr(op, right.value), right.at)

\* parsePrefixExpression.
ParsePrefix(toks, at) ==
    LET t == TokenAt(toks, at)
        next == TokenAt(toks, at + 1)
        inner == ParseExpression(toks, at + 1, precLowest)
        close == ExpectPeek(toks, inner.at, ")")
    IN  CASE t.type \in PathWords -> ParsePathOrFunction(toks, at)
          [] t.type = "string"    -> Parsed(Tree("literal", "string", t.name, t.text, <<>>), at)
          [] t.type = "int"       -> Parsed(LiteralExpr("int64", t.text), at)
          [] t.type \in {"decimal", "atom"} -> Parsed(LiteralExpr(t.type, t.text), at)
          [] t.type \in {"true", "false"}   -> Parsed(LiteralExpr("bool", IF t.type = "true" THEN <<1>> ELSE <<0>>), at)
          [] t.type = "null"      -> Parsed(LiteralExpr("null", <<>>), at)
          [] t.type = "-" /\ next.type = "int"     -> Parsed(LiteralExpr("int64", <<Minus>> \o next.text), at + 1)
          [] t.type = "-" /\ next.type = "decimal" -> Parsed(LiteralExpr("decimal", <<Minus>> \o next.text), at + 1)
          [] t.type \in {"-", "!"} /\ ~(t.type = "-" /\ next.type \in {"int", "decimal"}) -> ParsePrefixed(toks, at, t.type)
          [] t.type = "("         -> IF close = Nowhere THEN ParseError ELSE Parsed(inner.value, close)
          [] t.type \in Builtins  -> ParseCall(toks, at, t.type)
          [] OTHER                -> ParseError

\* parseExpression.
ParseExpression(toks, at, precedence) ==
    LET left == ParsePrefix(toks, at)
    IN  IF left.at = Nowhere THEN ParseError ELSE ParseInfix(toks, left, precedence)

\* Its loop, with parseInfixExpression.
ParseInfix(toks, left, precedence) ==
    LET op == TypeAt(toks, left.at + 1)
        right == ParseExpression(toks, left.at + 2, RightOperand(op))
    IN  IF op \in {";", ",", "}", ")"} \/ precedence >= PrecedenceOf(op) THEN left
        ELSE IF right.at = Nowhere THEN ParseError
        ELSE ParseInfix(toks, Parsed(BinaryExpr(op, left.value, right.value), right.at), precedence)

-----------------------------------------------------------------------------
(* Rules.                                                                  *)

\* A clause introduced by a word, if it is there.
ParseOptional(toks, at, word) ==
    IF at = Nowhere \/ TypeAt(toks, at + 1) # word THEN Parsed(<<>>, at)
    ELSE LET e == ParseExpression(toks, at + 2, precLowest) IN Parsed(<<e.value>>, e.at)

\* parseSelector, on its first word.
ParseSelector(toks, at) ==
    LET kind == ExpectPeek(toks, at, "ident")
        where == ParseOptional(toks, kind, "where")
        groupBy == ParseOptional(toks, where.at, "group_by")
        having == ParseOptional(toks, groupBy.at, "having")
    IN  IF having.at = Nowhere THEN ParseError
        ELSE Parsed(SelectorNode(Names(toks, kind)[1], where.value, groupBy.value, having.value), having.at)

RECURSIVE ParseAssignmentsFrom(_, _, _)
\* parseAssignments, from the target of the next one.
ParseAssignmentsFrom(toks, at, assigns) ==
    LET target == ParsePath(toks, at)
        sign == ExpectPeek(toks, target.at, "=")
        value == IF sign = Nowhere THEN ParseError ELSE ParseExpression(toks, sign + 1, precLowest)
        list == Append(assigns, AssignmentNode(target.value, value.value))
    IN  IF value.at = Nowhere THEN ParseError
        ELSE IF TypeAt(toks, value.at + 1) = "," THEN ParseAssignmentsFrom(toks, value.at + 2, list)
        ELSE Parsed(list, SkipPeek(toks, value.at, {";"}))
ParseAssignments(toks, at) == ParseAssignmentsFrom(toks, at + 1, <<>>)

\* The assignments after the block of an operator.
ParseTrailingSet(toks, node) ==
    IF node.at = Nowhere \/ TypeAt(toks, node.at + 1) # "set" THEN node
    ELSE LET assigns == ParseAssignments(toks, node.at + 1)
         IN  Parsed([node.value EXCEPT !.assigns = assigns.value], assigns.at)

\* The clauses each block knows; a token that starts none of them is passed over.
Clauses(op) ==
    CASE op = "insert" -> {"select", "discriminator"}
      [] op = "delete" -> {"select"}
      [] op \in {"relate", "unrelate"} -> {"from", "to", "guard"}
      [] op = "merge"  -> {"select", "discriminator", "reanchor_relations", "retain_sources"}
      [] op = "split"  -> {"select", "retain_source", "partition"}
      [] op = "partition" -> {"discriminator", "set"}

RECURSIVE ParseBlock(_, _, _)
\* parsePartition.
ParsePartition(toks, at) ==
    LET name == ExpectPartitionName(toks, at)
        open == ExpectPeek(toks, name, "{")
    IN  IF open = Nowhere THEN ParseError
        ELSE ParseBlock(toks, open + 1, PartitionNode(Names(toks, name)[1], <<>>, <<>>))

\* One clause of a block, on its first token.
ParseClause(toks, at, node) ==
    LET word == TypeAt(toks, at)
        colon == ExpectPeek(toks, at, ":")
        selected == ParseSelector(toks, IF word = "select" THEN at ELSE ExpectPeek(toks, colon, "select"))
        value == IF colon = Nowhere THEN ParseError ELSE ParseExpression(toks, colon + 1, precLowest)
        flag == IF colon # Nowhere /\ TypeAt(toks, colon + 1) \in {"true", "false"} THEN colon + 1 ELSE Nowhere
        set == ParseAssignments(toks, at)
        part == ParsePartition(toks, at)
    IN  CASE word \notin Clauses(node.op) -> Parsed(node, at)
          [] word = "select" ->
               IF selected.at = Nowhere THEN ParseError
               ELSE Parsed([node EXCEPT !.sel = <<selected.value>>, !.guard = selected.value.having], selected.at)
          [] word = "from" -> Parsed([node EXCEPT !.sel = <<selected.value>>], selected.at)
          [] word = "to"   -> Parsed([node EXCEPT !.to = <<selected.value>>], selected.at)
          [] word = "guard" -> Parsed([node EXCEPT !.guard = <<value.value>>], value.at)
          [] word = "discriminator" -> Parsed([node EXCEPT !.disc = <<value.value>>], value.at)
          [] word \in {"retain_sources", "retain_source"} -> Parsed([node EXCEPT !.retain = TypeAt(toks, flag) = "true"], flag)
          [] word = "reanchor_relations" -> Parsed([node EXCEPT !.reanchor = TypeAt(toks, flag) = "true"], flag)
          [] word = "set" -> Parsed([node EXCEPT !.assigns = set.value], set.at)
          [] word = "partition" ->
               IF part.at = Nowhere THEN ParseError
               ELSE Parsed([node EXCEPT !.partitions = Append(@, part.value)], part.at)

\* The loop of every block, to its closing brace or the end of the file.
ParseBlock(toks, at, node) ==
    IF TypeAt(toks, at) \in {"}", "eof"} THEN Parsed(node, at)
    ELSE LET clause == ParseClause(toks, at, node)
         IN  IF clause.at = Nowhere THEN ParseError
             ELSE ParseBlock(toks, SkipPeek(toks, clause.at, {";", ","}) + 1, clause.value)

\* The header of an operator: the kind before into or to is read and forgotten.
ParseHeader(toks, at, op) ==
    LET first == ExpectPeek(toks, at, "ident")
        second == ExpectPeek(toks, ExpectPeek(toks, first, CASE op = "relate" -> "to" [] op = "unrelate" -> "from"
                                                            [] OTHER -> "into"), "ident")
        as == ExpectPeek(toks, second, "as")
        relation == IF as # Nowhere /\ TypeAt(toks, as + 1) \in {"ident", "string"} THEN as + 1 ELSE Nowhere
        node == OperatorNode(op)
    IN  CASE op = "delete" -> Parsed(node, first)
          [] op = "insert" -> Parsed([node EXCEPT !.target = IF first = Nowhere THEN "" ELSE Names(toks, first)[1]], first)
          [] op \in {"merge", "split"} ->
               Parsed([node EXCEPT !.target = IF second = Nowhere THEN "" ELSE Names(toks, second)[1]], second)
          [] OTHER -> Parsed([node EXCEPT !.relation = IF relation = Nowhere THEN "" ELSE Names(toks, relation)[1]], relation)

\* parseSelectAndAssign, on its first word.
ParseSelectAndAssign(toks, at) ==
    LET selected == ParseSelector(toks, at)
    IN  IF selected.at = Nowhere THEN ParseError
        ELSE ParseTrailingSet(toks, Parsed([OperatorNode("select_assign") EXCEPT !.sel = <<selected.value>>,
                                                                               !.guard = selected.value.having], selected.at))

\* parseOperator: a header, a block and, for an insert or a merge, assignments.
ParseOperator(toks, at) ==
    LET op == TypeAt(toks, at)
        header == ParseHeader(toks, at, op)
        open == ExpectPeek(toks, header.at, "{")
        node == IF open = Nowhere THEN ParseError ELSE ParseBlock(toks, open + 1, header.value)
    IN  CASE op = "select" -> ParseSelectAndAssign(toks, at)
          [] op \in {"insert", "merge"} -> ParseTrailingSet(toks, node)
          [] op \in {"delete", "relate", "unrelate", "split"} -> node
          [] OTHER -> ParseError

RECURSIVE ParseStringList(_, _, _), ParseAnnotations(_, _, _)
\* parseStringList, from its first element: what is neither a word nor quoted is passed over.
ParseStringList(toks, at, list) ==
    IF TypeAt(toks, at) \in {"]", "eof"} THEN Parsed(list, at)
    ELSE ParseStringList(toks, SkipPeek(toks, at, {","}) + 1,
                         IF TypeAt(toks, at) \in {"ident", "string"} THEN Append(list, Names(toks, at)) ELSE list)

\* parseRuleAnnotations and the loop of parseProfileDecl: the lists a header is annotated with.
ParseAnnotations(toks, at, lists) ==
    LET word == TypeAt(toks, at + 1)
        open == ExpectPeek(toks, ExpectPeek(toks, at + 1, ":"), "[")
        list == IF open = Nowhere THEN ParseError ELSE ParseStringList(toks, open + 1, <<>>)
    IN  IF TypeAt(toks, at) \in {")", "eof"} THEN Parsed(lists, at)
        ELSE IF word \notin DOMAIN lists THEN ParseAnnotations(toks, SkipPeek(toks, at + 1, {","}), lists)
        ELSE IF list.at = Nowhere THEN ParseError
        ELSE ParseAnnotations(toks, SkipPeek(toks, list.at, {","}), [lists EXCEPT ![word] = list.value])

\* An annotated header, if there is one.
ParseAnnotated(toks, at, lists) ==
    IF at # Nowhere /\ TypeAt(toks, at + 1) = "(" THEN ParseAnnotations(toks, at + 1, lists) ELSE Parsed(lists, at)

FirstNames(list) == [i \in DOMAIN list |-> list[i][1]]

\* parseRuleDecl.
ParseRuleDecl(toks, at) ==
    LET id == ExpectName(toks, at)
        notes == ParseAnnotated(toks, id, [reads |-> <<>>, writes |-> <<>>, depends_on |-> <<>>])
        open == ExpectPeek(toks, notes.at, "{")
        operator == IF open = Nowhere THEN ParseError ELSE ParseOperator(toks, open + 1)
        close == ExpectPeek(toks, SkipPeek(toks, operator.at, {";"}), "}")
    IN  IF close = Nowhere THEN ParseError
        ELSE Parsed(RuleDecl(Names(toks, id)[1], notes.value.reads, notes.value.writes, FirstNames(notes.value.depends_on),
                             operator.value),
                    SkipPeek(toks, close, {";"}))

-----------------------------------------------------------------------------
(* The other declarations.                                                 *)

RECURSIVE ParseFields(_, _, _), ParseEnds(_, _, _), ParseSchemaFrom(_, _, _), ParseRequirements(_, _, _)
\* parseFieldDecl, for each field of the block: a field is required unless it says otherwise.
ParseFields(toks, at, fields) ==
    LET colon == ExpectPeek(toks, at, ":")
        type == ExpectPeek(toks, colon, "ident")
        last == SkipPeek(toks, SkipPeek(toks, type, {"optional", "required"}), {",", ";"})
        field == [name |-> Names(toks, at)[1], type |-> Names(toks, type)[1],
                  required |-> TypeAt(toks, type + 1) # "optional"]
    IN  IF TypeAt(toks, at) \in {"}", "eof"} THEN Parsed(fields, at)
        ELSE IF TypeAt(toks, at) # "ident" \/ type = Nowhere THEN ParseError
        ELSE ParseFields(toks, last + 1, Append(fields, field))

\* parseEntityDecl.
ParseEntityDecl(toks, at) ==
    LET kind == ExpectPeek(toks, at, "ident")
        open == ExpectPeek(toks, kind, "{")
        fields == IF open = Nowhere THEN ParseError ELSE ParseFields(toks, open + 1, <<>>)
    IN  IF fields.at = Nowhere THEN ParseError
        ELSE Parsed([kind |-> Names(toks, kind)[1], fields |-> fields.value], fields.at)

\* The block of parseRelationDecl.
ParseEnds(toks, at, ends) ==
    LET word == TypeAt(toks, at)
        kind == ExpectPeek(toks, ExpectPeek(toks, at, ":"), "ident")
    IN  IF word \in {"}", "eof"} THEN Parsed(ends, at)
        ELSE IF word \notin {"from", "to"} THEN ParseEnds(toks, SkipPeek(toks, at, {",", ";"}) + 1, ends)
        ELSE IF kind = Nowhere THEN ParseError
        ELSE ParseEnds(toks, SkipPeek(toks, kind, {",", ";"}) + 1, [ends EXCEPT ![word] = Names(toks, kind)[1]])

\* parseRelationDecl.
ParseRelationDecl(toks, at) ==
    LET kind == ExpectPeek(toks, at, "ident")
        open == ExpectPeek(toks, kind, "{")
        ends == IF open = Nowhere THEN ParseError ELSE ParseEnds(toks, open + 1, [from |-> "", to |-> ""])
    IN  IF ends.at = Nowhere THEN ParseError
        ELSE Parsed([kind |-> Names(toks, kind)[1], from |-> ends.value.from, to |-> ends.value.to], ends.at)

\* An entity or a relation, added to a schema.
ParseMember(toks, at, schema) ==
    LET entity == ParseEntityDecl(toks, at)
        relation == ParseRelationDecl(toks, at)
    IN  CASE TypeAt(toks, at) = "entity" /\ entity.at # Nowhere ->
               Parsed([schema EXCEPT !.entities = Append(@, entity.value)], entity.at)
          [] TypeAt(toks, at) = "relation" /\ relation.at # Nowhere ->
               Parsed([schema EXCEPT !.relations = Append(@, relation.value)], relation.at)
          [] OTHER -> ParseError

\* parseSchemaDecl, from the first of its members.
ParseSchemaFrom(toks, at, schema) ==
    IF TypeAt(toks, at) \in {"}", "eof"} THEN Parsed(schema, at)
    ELSE LET member == ParseMember(toks, at, schema)
         IN  IF member.at = Nowhere THEN ParseError ELSE ParseSchemaFrom(toks, member.at + 1, member.value)

\* parseCheckpointDecl.
ParseCheckpointDecl(toks, at) ==
    LET key == ExpectName(toks, at)
        after == ExpectName(toks, ExpectPeek(toks, key, "after"))
    IN  IF after = Nowhere THEN ParseError
        ELSE Parsed(CheckpointDecl(Names(toks, key)[1], Names(toks, after)[1]), SkipPeek(toks, after, {";"}))

\* parseRequirementDecl, for each require of the block.
ParseRequirements(toks, at, requirements) ==
    LET field == ParsePath(toks, at + 1)
        code == ExpectName(toks, ExpectPeek(toks, ExpectPeek(toks, field.at, "present"), "as"))
    IN  IF TypeAt(toks, at) \in {"}", "eof"} THEN Parsed(requirements, at)
        ELSE IF TypeAt(toks, at) # "require" THEN ParseRequirements(toks, SkipPeek(toks, at, {";"}) + 1, requirements)
        ELSE IF code = Nowhere THEN ParseError
        ELSE ParseRequirements(toks, SkipPeek(toks, code, {";"}) + 1,
                               Append(requirements, [field |-> field.value, code |-> Names(toks, code)[1]]))

\* parseProfileDecl.
ParseProfileDecl(toks, at) ==
    LET key == ExpectName(toks, at)
        kind == ExpectPeek(toks, ExpectPeek(toks, ExpectPeek(toks, key, "for"), "entity"), "ident")
        notes == ParseAnnotated(toks, kind, [implies |-> <<>>])
        open == ExpectPeek(toks, notes.at, "{")
        requirements == IF open = Nowhere THEN ParseError ELSE ParseRequirements(toks, open + 1, <<>>)
    IN  IF requirements.at = Nowhere THEN ParseError
        ELSE Parsed(ProfileDecl(Names(toks, key)[1], Names(toks, kind)[1], FirstNames(notes.value.implies), requirements.value),
                    requirements.at)

\* parseDeclaration.
ParseDeclaration(toks, at) ==
    LET open == ExpectPeek(toks, at, "{")
    IN  CASE TypeAt(toks, at) = "schema" ->
               IF open = Nowhere THEN ParseError ELSE ParseSchemaFrom(toks, open + 1, SchemaDecl(<<>>, <<>>))
          [] TypeAt(toks, at) \in {"entity", "relation"} -> ParseMember(toks, at, SchemaDecl(<<>>, <<>>))
          [] TypeAt(toks, at) = "rule"       -> ParseRuleDecl(toks, at)
          [] TypeAt(toks, at) = "checkpoint" -> ParseCheckpointDecl(toks, at)
          [] TypeAt(toks, at) = "profile"    -> ParseProfileDecl(toks, at)
          [] OTHER                           -> ParseError

RECURSIVE ParseFileFrom(_, _, _)
\* ParseFile, from the next declaration.
ParseFileFrom(toks, at, file) ==
    IF TypeAt(toks, at) = "eof" THEN Parsed(file, at)
    ELSE IF TypeAt(toks, at) = ";" THEN ParseFileFrom(toks, at + 1, file)
    ELSE LET decl == ParseDeclaration(toks, at)
         IN  IF decl.at = Nowhere THEN ParseError ELSE ParseFileFrom(toks, decl.at + 1, Append(file, decl.value))
ParseFile(toks) == ParseFileFrom(toks, 1, <<>>)
=============================================================================
