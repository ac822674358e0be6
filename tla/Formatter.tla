----------------------------- MODULE Formatter ------------------------------
(***************************************************************************)
(* The formatter of rule files (internal/dsl/format.go), as the tokens the *)
(* lexer makes of the text it prints; indentation and line ends are gone.  *)
(***************************************************************************)
EXTENDS Syntax

\* FormatExpr of a literal: %q of a text, and the bare characters of a number.
FormatLiteral(e) ==
    LET constructed(word) == <<Word(word), Symbol("("), ReadString(e.text), Symbol(")")>>
        negative == e.text # <<>> /\ Head(e.text) = Minus
    IN  CASE e.name = "string" -> <<IF e.path # <<>> THEN QuotedName(e.path) ELSE ReadString(e.text)>>
          [] e.name \in {"int64", "decimal"} ->
               IF negative THEN <<Symbol("-"), NumberToken(Tail(e.text), FALSE)>> ELSE <<NumberToken(e.text, FALSE)>>
          [] e.name = "bool" -> <<Word(IF e.text = <<1>> THEN "true" ELSE "false")>>
          [] e.name = "null" -> <<Word("null")>>
          [] e.name = "timestamp" -> constructed("ts")
          [] e.name = "date"      -> constructed("date")
          [] e.name = "duration"  -> constructed("dur")
          [] e.name = "atom"      -> <<ReadAtom(e.text)>>

\* Words or expressions with a separator between them.
Separated(parts, separator) ==
    FlattenSeq([i \in DOMAIN parts |-> IF i = 1 THEN parts[i] ELSE separator \o parts[i]])
FormatPath(path) == Separated([i \in DOMAIN path |-> <<Word(path[i])>>], <<Symbol(".")>>)

\* opToString.
OpToString(op) == IF op \in {"(", "."} THEN "?" ELSE op

\* A variant that prints the operands of an operator without parentheses around them.
FormatBinaryBare(op, left, right) == left \o <<Symbol(op)>> \o right

\* The parentheses every operator is printed with.
FormatBinary(op, left, right) == <<Symbol("(")>> \o left \o <<Symbol(op)>> \o right \o <<Symbol(")")>>

RECURSIVE FormatExpr(_)
FormatExpr(e) ==
    LET args == [i \in DOMAIN e.args |-> FormatExpr(e.args[i])]
    IN  CASE e.node = "ident"   -> FormatPath(e.path)
          [] e.node = "literal" -> FormatLiteral(e)
          [] e.node = "unary"   -> <<Symbol(e.name)>> \o args[1]
          [] e.node = "binary"  -> FormatBinary(OpToString(e.name), args[1], args[2])
          [] e.node = "call"    -> <<Word(e.name), Symbol("(")>> \o Separated(args, <<Symbol(",")>>) \o <<Symbol(")")>>

\* A clause that may be left out, and one with a colon before and a semicolon after its value.
FormatClause(word, clause) == IF clause = <<>> THEN <<>> ELSE <<Word(word)>> \o FormatExpr(clause[1])
FormatField(word, clause) ==
    IF clause = <<>> THEN <<>> ELSE <<Word(word), Symbol(":")>> \o FormatExpr(clause[1]) \o <<Symbol(";")>>
FormatFlag(word, flag) == <<Word(word), Symbol(":"), Word(IF flag THEN "true" ELSE "false"), Symbol(";")>>

\* A variant that forgets the having clause.
FormatSelectorUnguarded(s) ==
    <<Word("select"), Word(s.kind)>> \o FormatClause("where", s.where) \o FormatClause("group_by", s.groupBy)

\* formatSelector.
FormatSelector(s) ==
    <<Word("select"), Word(s.kind)>> \o FormatClause("where", s.where) \o FormatClause("group_by", s.groupBy)
      \o FormatClause("having", s.having)

\* formatAssignments, where there are any.
FormatAssignments(assigns) ==
    IF assigns = <<>> THEN <<>>
    ELSE <<Word("set")>>
           \o Separated([i \in DOMAIN assigns |-> FormatPath(assigns[i].target) \o <<Symbol("=")>> \o FormatExpr(assigns[i].value)],
                        <<Symbol(",")>>)
           \o <<Symbol(";")>>

\* The partitions of formatSplitEntity.
FormatPartition(p) ==
    <<Word("partition"), QuotedName(<<p.name>>), Symbol("{")>> \o FormatField("discriminator", p.disc)
      \o FormatAssignments(p.assigns) \o <<Symbol("}")>>

\* formatRelateEntities and formatUnrelateEntities.
FormatRelation(o) ==
    <<Word(o.op), Word(o.sel[1].kind), Word(IF o.op = "relate" THEN "to" ELSE "from"), Word(o.to[1].kind), Word("as"),
      Word(o.relation), Symbol("{"), Word("from"), Symbol(":")>>
      \o FormatSelector(o.sel[1]) \o <<Word("to"), Symbol(":")>> \o FormatSelector(o.to[1])
      \o FormatField("guard", o.guard) \o <<Symbol("}"), Symbol(";")>>

\* formatOperator and the operators of one selector.
FormatOperator(o) ==
    LET sel == FormatSelector(o.sel[1])
        kind == Word(o.sel[1].kind)
    IN  CASE o.op = "select_assign" -> sel \o FormatAssignments(o.assigns)
          [] o.op = "insert" ->
               <<Word("insert"), Word(o.target), Symbol("{")>> \o sel \o FormatField("discriminator", o.disc)
                 \o <<Symbol("}")>> \o FormatAssignments(o.assigns)
          [] o.op = "delete" -> <<Word("delete"), kind, Symbol("{")>> \o sel \o <<Symbol("}"), Symbol(";")>>
          [] o.op = "merge" ->
               <<Word("merge"), kind, Word("into"), Word(o.target), Symbol("{")>> \o sel
                 \o FormatField("discriminator", o.disc) \o FormatFlag("retain_sources", o.retain)
                 \o FormatFlag("reanchor_relations", o.reanchor) \o <<Symbol("}")>> \o FormatAssignments(o.assigns)
          [] o.op = "split" ->
               <<Word("split"), kind, Word("into"), Word(o.target), Symbol("{")>> \o sel
                 \o FormatFlag("retain_source", o.retain)
                 \o FlattenSeq([i \in DOMAIN o.partitions |-> FormatPartition(o.partitions[i])]) \o <<Symbol("}"), Symbol(";")>>
          [] o.op \in {"relate", "unrelate"} -> FormatRelation(o)

\* formatStringList, in its brackets.
FormatList(word, names) ==
    <<Word(word), Symbol(":"), Symbol("[")>>
      \o Separated([i \in DOMAIN names |-> <<QuotedName(names[i])>>], <<Symbol(",")>>) \o <<Symbol("]")>>
FormatAnnotations(lists) ==
    IF lists = <<>> THEN <<>> ELSE <<Symbol("(")>> \o Separated(lists, <<Symbol(",")>>) \o <<Symbol(")")>>
Paths(names) == [i \in DOMAIN names |-> <<names[i]>>]

\* formatRuleDecl.
FormatRuleDecl(r) ==
    LET list(word, names) == IF names = <<>> THEN <<>> ELSE <<FormatList(word, names)>>
    IN  <<Word("rule"), Word(r.id)>>
          \o FormatAnnotations(list("reads", r.reads) \o list("writes", r.writes) \o list("depends_on", Paths(r.dependsOn)))
          \o <<Symbol("{")>> \o FormatOperator(r.operator) \o <<Symbol("}")>>

\* formatSchemaDecl.
FormatSchemaDecl(d) ==
    LET field(f) == <<Word(f.name), Symbol(":"), Word(f.type)>> \o (IF f.required THEN <<>> ELSE <<Word("optional")>>)
                      \o <<Symbol(";")>>
        entity(e) == <<Word("entity"), Word(e.kind), Symbol("{")>>
                       \o FlattenSeq([i \in DOMAIN e.fields |-> field(e.fields[i])]) \o <<Symbol("}")>>
        relation(r) == <<Word("relation"), Word(r.kind), Symbol("{"), Word("from"), Symbol(":"), Word(r.from), Symbol(";"),
                         Word("to"), Symbol(":"), Word(r.to), Symbol(";"), Symbol("}")>>
    IN  <<Word("schema"), Symbol("{")>> \o FlattenSeq([i \in DOMAIN d.entities |-> entity(d.entities[i])])
          \o FlattenSeq([i \in DOMAIN d.relations |-> relation(d.relations[i])]) \o <<Symbol("}")>>

\* formatProfileDecl.
FormatProfileDecl(p) ==
    <<Word("profile"), Word(p.key), Word("for"), Word("entity"), Word(p.entity)>>
      \o (IF p.implies = <<>> THEN <<>> ELSE FormatAnnotations(<<FormatList("implies", Paths(p.implies))>>))
      \o <<Symbol("{")>>
      \o FlattenSeq([i \in DOMAIN p.requirements |->
            <<Word("require")>> \o FormatPath(p.requirements[i].field)
              \o <<Word("present"), Word("as"), Word(p.requirements[i].code), Symbol(";")>>])
      \o <<Symbol("}")>>

\* formatDecl.
FormatDecl(d) ==
    CASE d.decl = "schema"     -> FormatSchemaDecl(d)
      [] d.decl = "rule"       -> FormatRuleDecl(d)
      [] d.decl = "checkpoint" -> <<Word("checkpoint"), Word(d.key), Word("after"), Word(d.after), Symbol(";")>>
      [] d.decl = "profile"    -> FormatProfileDecl(d)

Format(file) == FlattenSeq([i \in DOMAIN file |-> FormatDecl(file[i])])
=============================================================================
