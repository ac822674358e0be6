---------------------------- MODULE RuleLanguage ----------------------------
(***************************************************************************)
(* The rule language as its author meets it.  An author starts from a leaf *)
(* and builds an expression one node at a time (Compose), may leave an     *)
(* operand on a node that does not use it (Garnish), and the kernel checks,*)
(* encodes and evaluates what was built.  In the text of a rule file the   *)
(* author writes an expression (WriteWord, Extend) or a file (WriteFile),  *)
(* which is parsed, formatted and lowered.  An expression is also printed  *)
(* as SQL, which a database evaluates.  What the language calculates with  *)
(* is a subject of its own (Arithmetic).  The invariants say what the      *)
(* kernel and the author may rely on for every subject in reach.           *)
(***************************************************************************)
EXTENDS Lowering, SqlExpressions, Arithmetic

CONSTANTS Leaves,      \* the leaves an expression starts from
          Operands,    \* the operands the first node is completed with
          Connectives, \* the kinds of the nodes put around the first
          Guards,      \* the operands those nodes are completed with
          MaxNodes,    \* how many nodes are put around the first leaf
          Members,     \* the entities of a state, in canonical order
          WordTrees,   \* the leaves an expression of the text starts from
          Phrases,     \* the operands its first node is completed with
          Stems,       \* the leaves of which a first node is built on
          Particles,   \* the operands the nodes around it are completed with
          Files        \* rule files

VARIABLES expr,     \* the expression built so far
          nodes,    \* nodes put around the first leaf
          source,   \* the tree of the text written so far, <<>> before
          file      \* a rule file, as its declarations
vars == <<expr, nodes, arithmetic, source, file>>
written == <<source, file>>
Nothing == <<<<>>, <<>>>>

Init ==
    /\ expr \in Leaves
    /\ nodes = 0 /\ NoSubject
    /\ source = <<>> /\ file = <<>>

\* Puts a node around the expression, which is one of its operands; the others come from a set.
Wrapped(kind, others) ==
    (IF kind \in Unary \cup {"all_members", "any_members", "coalesce"}
       THEN {Node(kind, <<>>, <<>>, <<expr>>)} ELSE {})
    \cup (IF kind = "date_extract"
            THEN {Node(kind, <<>>, <<unit>>, <<expr>>) : unit \in {"year", "hour"}} ELSE {})
    \cup (IF kind \in Binary \cup {"all", "any", "concat", "coalesce"}
            THEN {Node(kind, <<>>, <<>>, <<expr, o>>) : o \in others}
                 \cup {Node(kind, <<>>, <<>>, <<o, expr>>) : o \in others} ELSE {})
    \cup (IF kind \in Ternary
            THEN UNION {{Node(kind, <<>>, <<>>, <<expr, o, o>>), Node(kind, <<>>, <<>>, <<expr, o, expr>>),
                         Node(kind, <<>>, <<>>, <<o, expr, expr>>), Node(kind, <<>>, <<>>, <<o, o, expr>>)}
                          : o \in others} ELSE {})

\* Whether an integer is one of the instance's narrow ones, which a year is not.
HasMachineWidth(r) == r.err = "" /\ r.kind \in {"int64", "duration"} => r.value.integer \in Int64

\* The first node is of any kind; only an expression some scope accepts is built on.
Compose(kind) ==
    /\ nodes < MaxNodes
    /\ NoSubject /\ written = Nothing
    /\ IF nodes = 0
         THEN expr' \in Wrapped(kind, Operands)
         ELSE /\ kind \in Connectives
              /\ \E in \in {"member", "group", "member-in-group"} : CheckExprInScope("driver", expr, in, 0) # "invalid"
              /\ \A i \in DOMAIN Members : HasMachineWidth(EvaluateExpr(expr, <<Members[i]>>))
              /\ expr' \in Wrapped(kind, Guards)
    /\ nodes' = nodes + 1
    /\ UNCHANGED <<arithmetic, written>>

\* Leaves a literal or a path on a node, used by its kind or not.
Garnish ==
    /\ nodes = 0
    /\ NoSubject /\ written = Nothing
    /\ \E o \in Operands : expr' = [expr EXCEPT !.literal = IF o.literal = <<>> THEN @ ELSE o.literal,
                                                !.field = IF o.field = <<>> THEN @ ELSE o.field]
    /\ nodes' = MaxNodes
    /\ UNCHANGED <<arithmetic, written>>

\* Nothing composed, picked or written yet.
Untouched == nodes = 0 /\ NoSubject /\ written = Nothing /\ expr = CHOOSE leaf \in Leaves : TRUE

\* The subjects of arithmetic.
Calculate ==
    /\ Untouched
    /\ Pick
    /\ UNCHANGED <<expr, nodes, written>>

\* The text of an expression: a leaf, and an operator or a call around what was written.
WriteWord ==
    /\ Untouched
    /\ source' \in {<<w>> : w \in WordTrees}
    /\ UNCHANGED <<expr, nodes, arithmetic, file>>

CallsOf(e) ==
    {CallExpr(name, <<e>>) : name \in {"all", "any", "exists", "sum", "abs", "coalesce", "count"}}
    \cup UNION {{CallExpr("concat", <<e, p>>), CallExpr("all", <<p, e>>), CallExpr("date_add", <<e, p>>), CallExpr("if", <<p, e, e>>)}
                  : p \in Particles}
    \cup {CallExpr("extract", <<unit, e>>) : unit \in {IdentExpr(<<"year">>), NameLiteral(<<"year">>), e}}

Extend(op) ==
    /\ source # <<>> /\ nodes < MaxNodes
    /\ nodes > 0 => Range(source[1].args) \cap Stems # {}
    /\ LET e == source[1]
           others == IF nodes = 0 THEN Phrases ELSE Particles
       IN  source' \in {<<t>> : t \in (IF op \in {"-", "!"} THEN {UnaryExpr(op, e)} ELSE {})
                                       \cup (IF op = "(" THEN IF nodes = 0 THEN CallsOf(e) ELSE {}
                                             ELSE IF op = "!" THEN {}
                                             ELSE {BinaryExpr(op, e, o) : o \in others}
                                                  \cup {BinaryExpr(op, o, e) : o \in others})}
    /\ nodes' = nodes + 1
    /\ UNCHANGED <<expr, arithmetic, file>>

WriteFile ==
    /\ Untouched
    /\ file' \in Files
    /\ UNCHANGED <<expr, nodes, arithmetic, source>>

Next ==
    \/ \E kind \in Range(ExprKinds) : Compose(kind)
    \/ Garnish
    \/ Calculate
    \/ WriteWord
    \/ \E op \in (DOMAIN Precedences \ {"."}) \cup {"!"} : Extend(op)
    \/ WriteFile

Spec == Init /\ [][Next]_vars

-----------------------------------------------------------------------------
(* Properties.                                                             *)

Kinds == {path[1] : path \in DOMAIN Declared}
OfKind(kind) == SelectSeq(Members, LAMBDA m : m.kind = kind)

\* An answer of the compiled type, or a refusal for the data.
Answered(type, r) == r.err # "type" /\ (r.err = "" => r.kind = type)

\* An expression the compiler accepts never asks for what its entities cannot be asked: whatever
\* the fields that happen to be absent, evaluateExpr answers with the compiled type or refuses
\* for the data, and never reaches one of its own type refusals.
TypedExpressionsAnswer ==
    LET type == CheckExpr(expr)
    IN  type # "invalid" =>
            \A i \in DOMAIN Members :
                CheckPathsBindKind(expr, Members[i].kind) => Answered(type, EvaluateExpr(expr, <<Members[i]>>))

\* The same of a guard: a group-scoped expression the compiler accepts answers over every group
\* of its kind with the compiled type, or refuses for the data.
GuardsAnswer ==
    \A kind \in Kinds :
        LET type == CheckExprInScope(kind, expr, "group", 0)
        IN  type # "invalid" /\ OfKind(kind) # <<>> => Answered(type, EvaluateGroupNode(expr, OfKind(kind), <<>>))

\* The two evaluators are one language: for an expression both accept, the evaluator of guards
\* and assignments, with a member bound, gives exactly what evaluateExpr gives of that member.
EvaluatorsAgree ==
    CheckExpr(expr) # "invalid" =>
        \A i \in DOMAIN Members :
            EvaluateGroupNode(expr, <<Members[i]>>, <<Members[i]>>) = EvaluateExpr(expr, <<Members[i]>>)

\* A relation guard checkRelationGuard accepts can be asked of every pair of its endpoints, with
\* from. and to. naming one of them and a bare path never naming both.
RelationGuardsAnswer ==
    \A from, to \in Kinds :
        LET type == CheckRelationGuard(expr, from, to)
        IN  type # "invalid" =>
                \A m \in Range(OfKind(from)), n \in Range(OfKind(to)) : Answered(type, EvaluateExpr(expr, <<m, n>>))

\* What an answered node of machine arithmetic says of its operands.
Computed(kind, a, b, n) ==
    CASE kind = "add"      -> n = a + b
      [] kind = "subtract" -> n = a - b
      [] kind = "multiply" -> n = a * b \/ (a = IntMin /\ b = -1)
      [] OTHER             -> n = IF kind = "divide" THEN Quo(a, b) ELSE Rem(a, b)
IntegerOf(e) == EvaluateExpr(e, <<Members[1]>>).value.integer

\* A node of machine arithmetic that answers does so with the arithmetic of its operands' answers.
IntegersAreComputed ==
    /\ expr.kind \in {"add", "subtract", "multiply", "divide", "modulo"} /\ CheckExpr(expr) = "int64"
    /\ EvaluateExpr(expr, <<Members[1]>>).err = ""
    => Computed(expr.kind, IntegerOf(expr.args[1]), IntegerOf(expr.args[2]), IntegerOf(expr))

\* What the compiler accepts is answered, in the scope it was accepted for (of an entity, of a
\* group and of the endpoints of a relation), and an integer with the right one.
AcceptedExpressionsAnswer == TypedExpressionsAnswer /\ GuardsAnswer /\ RelationGuardsAnswer /\ IntegersAreComputed

\* Reads a value back from its canonical bytes: [value, rest].
DecodeValue(bytes) ==
    LET kind == ValueKinds[bytes[1]]
        text == SubSeq(bytes, 3, bytes[2] + 2)
        rest == SubSeq(bytes, bytes[2] + 3, Len(bytes))
    IN  CASE kind \in {"int64", "duration"} ->
                 [value |-> TypedValue(kind, <<>>, Wrap(bytes[2])), rest |-> SubSeq(bytes, 3, Len(bytes))]
          [] kind = "timestamp" -> [value |-> NewTimestampValue(text), rest |-> rest]
          [] kind = "date"      -> [value |-> NewDateValue(text), rest |-> rest]
          [] OTHER              -> [value |-> TypedValue(kind, text, 0), rest |-> rest]

\* Reads n nodes back from their canonical bytes: [nodes, rest].
RECURSIVE DecodeNodes(_, _)
DecodeNodes(bytes, n) ==
    IF n = 0 THEN [nodes |-> <<>>, rest |-> bytes]
    ELSE LET kind == ExprKinds[bytes[1]]
             reads == kind \in FieldReaders \cup {"date_extract"}
             path  == IF reads
                        THEN [k \in 1 .. bytes[2] |-> CHOOSE name \in DOMAIN Code : Code[name] = bytes[2 + k]]
                        ELSE <<>>
             value == DecodeValue(Tail(bytes))
             after == IF reads THEN SubSeq(bytes, 3 + Len(path), Len(bytes))
                      ELSE IF kind = "count" THEN Tail(bytes) ELSE SubSeq(bytes, 3, Len(bytes))
             arity == CASE kind = "date_extract" -> 1
                        [] kind \in FieldReaders \cup {"count"} -> 0
                        [] OTHER -> bytes[2]
             args  == DecodeNodes(after, arity)
             first == IF kind = "literal"
                        THEN [node |-> Node(kind, <<value.value>>, <<>>, <<>>), rest |-> value.rest]
                        ELSE [node |-> Node(kind, <<>>, path, args.nodes), rest |-> args.rest]
             others == DecodeNodes(first.rest, n - 1)
         IN  [nodes |-> <<first.node>> \o others.nodes, rest |-> others.rest]

\* The bytes of an accepted expression determine it: they can be read back, to the end, as the
\* expression the author wrote and no other, which is what makes a ruleset digest an identity.
BytesDetermineExpression ==
    CheckExpr(expr) # "invalid" => DecodeNodes(EncodeExpr(expr), 1) = [nodes |-> <<expr>>, rest |-> <<>>]

\* What a selection of the subject, as its predicate or as its key, is a partition of.
Partitioned(kind, grouped, sel) ==
    LET all == sel.groups \o sel.violations
        MembersOf(g) == Range(all[g].members)
        KeyOf(m) == EvaluateValue(expr, <<m>>).value
    IN  sel.err = "" =>
            /\ UNION {MembersOf(g) : g \in DOMAIN all}
                 = {m \in Range(Members) : m.kind = kind /\ (grouped \/ EvaluateExpr(expr, <<m>>).boolean)}
            /\ \A g, h \in DOMAIN all : \A m \in MembersOf(g), n \in MembersOf(h) :
                   g = h <=> IF grouped THEN ValueEqual(KeyOf(m), KeyOf(n)) ELSE m = n
            /\ \A g \in 2 .. Len(sel.groups) : GroupLess(sel.groups[g - 1], sel.groups[g])

\* An accepted selector loses no entity and counts none twice: when it answers, the groups it
\* admits and the violations it reports partition the entities that satisfy its predicate, two
\* members share a group exactly when their keys are equal, and the groups are in key order.
SelectionIsAPartition ==
    \A kind \in Kinds, grouped \in BOOLEAN :
        LET s == [kind |-> kind,
                  where |-> IF grouped THEN <<>> ELSE <<expr>>,
                  groupBy |-> IF grouped THEN <<expr>> ELSE <<>>,
                  members |-> IF grouped THEN [kind |-> "at_least", count |-> 2] ELSE [kind |-> "any", count |-> 0]]
        IN  CompileSelector(s) => Partitioned(kind, grouped, Select(s, Members))

\* The value of a literal, stored in a declaration as text and read back, is the same value.
LiteralsSurviveStorage ==
    expr.kind = "literal" /\ LiteralType(expr.literal[1]) # "invalid" =>
        UnmarshalText(MarshalText(expr.literal[1])) = expr.literal[1]

\* What is stored reads back: the canonical bytes of an expression and the text of a value
\* determine what they were made of.
StoredFormsReadBack == BytesDetermineExpression /\ LiteralsSurviveStorage

-----------------------------------------------------------------------------
(* The text.                                                               *)

\* How strongly the operators of the text hold their operands together, the weakest first.
Levels6 == <<{"||"}, {"&&"}, {"==", "!="}, {"<", "<=", ">", ">="}, {"+", "-"}, {"*", "/", "%"}>>
LevelOf(e) ==
    CASE e.node = "binary" -> CHOOSE n \in DOMAIN Levels6 : e.name \in Levels6[n]
      [] e.node = "unary"  -> 7
      [] OTHER             -> 8

RECURSIVE Sparingly(_, _)
\* The text of a tree with the parentheses it cannot do without: around an operand that is held
\* together less strongly than its place asks for.
Sparingly(e, least) ==
    LET level == LevelOf(e)
        bare == CASE e.node = "binary" -> Sparingly(e.args[1], level) \o <<Symbol(e.name)>> \o Sparingly(e.args[2], level + 1)
                  [] e.node = "unary"  -> <<Symbol(e.name)>> \o
                        Sparingly(e.args[1], IF e.args[1].node = "literal" /\ e.args[1].name \in {"int64", "decimal"}
                                                /\ Head(e.args[1].text) # Minus THEN 9 ELSE 7)
                  [] e.node = "literal" /\ e.name = "decimal" ->
                        IF Head(e.text) = Minus THEN <<Symbol("-"), NumberToken(Tail(e.text), TRUE)>> ELSE <<NumberToken(e.text, TRUE)>>
                  [] e.node = "call"   -> <<Word(e.name), Symbol("(")>> \o
                        Separated([i \in DOMAIN e.args |-> Sparingly(e.args[i], 0)], <<Symbol(",")>>) \o <<Symbol(")")>>
                  [] OTHER -> FormatExpr(e)
    IN  IF level < least THEN <<Symbol("(")>> \o bare \o <<Symbol(")")>> ELSE bare

RECURSIVE Within(_)
\* A tree and everything in it.
Within(e) == {e} \cup UNION {Within(e.args[i]) : i \in DOMAIN e.args}

\* A minus sign over a parenthesized number: FormatExpr prints no parentheses, and the sign
\* becomes one with the number.
SignedNumber(e) ==
    e.node = "unary" /\ e.name = "-" /\ e.args[1].node = "literal" /\ e.args[1].name \in {"int64", "decimal"}

\* A literal whose printed form is read as what it is: a number with digits on both sides of its
\* point, an atom that is an identifier, a text without control characters; and no sign twice
\* over a number.  FormatExpr prints the others so that they come back as something else: 5d as
\* the integer 5, -(-(2)) as the sign over -2.
ReadsBack(e) ==
    LET digits == Unsigned(e.text)
    IN  /\ e.node = "unary" /\ e.name = "-" => ~SignedNumber(e.args[1])
        /\ e.node = "literal" =>
            CASE e.name = "decimal" -> \E i \in 2 .. Len(digits) - 1 : digits[i] = Dot
              [] e.name = "atom"    -> IsIdentifier(e.text)
              [] OTHER              -> \A i \in DOMAIN e.text : e.text[i] # Control

\* Precedence: a tree written with no more parentheses than its operators need is read as that
\* tree, to its last token: or holds least, then and, equality, order, sums, products and the
\* prefixes, and operators of one level group to the left (parseExpression).
ParenthesesAreOptional(tree) ==
    (\A e \in Within(tree) : e.node = "literal" => e.name = "decimal" \/ ReadsBack(e)) =>
        LET toks == Sparingly(tree, 0)
        IN  ParseExpression(toks, 1, precLowest) = Parsed(tree, Len(toks))

\* Formatting keeps the meaning: what FormatExpr prints is read to its last token and, where the
\* tree could be lowered, lowered to the same expression.
FormattingKeepsMeaning(tree) ==
    (\A e \in Within(tree) : ReadsBack(e)) =>
        LET toks == FormatExpr(tree)
            again == ParseExpression(toks, 1, precLowest)
        IN  /\ again.at = Len(toks)
            /\ IsError(LowerExpr(tree)) \/ LowerExpr(again.value) = LowerExpr(tree)

\* The six comparisons of the text, made of the kernel's two, are one order: of any two operands
\* the kernel can compare exactly one of <, == and > holds, and the other three say what they
\* say of these.
ComparisonsAgree(tree) ==
    tree.node = "binary" =>
        \A i \in DOMAIN Members :
            LET says == [op \in {"<", "<=", "==", "!=", ">=", ">"} |->
                            EvaluateExpr(LowerExpr(BinaryExpr(op, tree.args[1], tree.args[2])), <<Members[i]>>)]
                holds(op) == says[op].boolean
            IN  (~IsError(LowerExpr(tree.args[1])) /\ ~IsError(LowerExpr(tree.args[2])) /\ says["<"].err = "") =>
                    /\ Cardinality({op \in {"<", "==", ">"} : holds(op)}) = 1
                    /\ holds("<=") <=> holds("<") \/ holds("==")
                    /\ holds(">=") <=> holds(">") \/ holds("==")
                    /\ holds("!=") <=> ~holds("==")

\* A formatted file is the file: it parses, and asks for the same compilation.
FormattedFileIsTheFile(decls) ==
    CompileRequestFromText(Format(decls)) = CompileRequestFromFile(decls)

\* A rule that leaves its accesses out declares those the compiler derives: it is never refused
\* for an access mismatch, whatever its operator (deriveRuleReads against deriveTransformation).
OmittedAccessesAreDerived(decls) ==
    \A i \in DOMAIN decls :
        decls[i].decl = "rule" /\ decls[i].reads = <<>> /\ decls[i].writes = <<>> /\ LowerRuleDecl(decls[i]).ok =>
            LET d == NormalizeTransformation(LowerRuleDecl(decls[i]).decl)
            IN  d.reads = DerivedReads(d) /\ d.writes = DerivedWrites(d)

\* A rule file means what it says, written sparingly or formatted, with its accesses or without:
\* operators hold together and comparisons order as their author expects, the formatter changes
\* nothing, and what is left out is filled in as the compiler would.
TextKeepsItsMeaning ==
    [][/\ source' # source =>
             /\ ParenthesesAreOptional(source'[1])
             /\ FormattingKeepsMeaning(source'[1])
             /\ ComparisonsAgree(source'[1])
       /\ file' # file => FormattedFileIsTheFile(file') /\ OmittedAccessesAreDerived(file')]_vars

-----------------------------------------------------------------------------
(* The SQL.                                                                *)

\* Where the database answers a NULL, or refuses, whenever the kernel refuses: a coalesce may ask
\* these first.  AND, OR, CASE, CONCAT, LEAST and the aggregates overlook a NULL, SUBSTRING takes
\* an offset below 0 and % the smallest integer by -1.
RefusesAsNull(e) ==
    \A n \in Within(e) : n.kind \in {"literal", "field", "exists", "not", "equal", "less", "add", "subtract",
                                     "multiply", "divide", "abs", "trim", "coalesce"}
CoalescesNull(e) ==
    \A n \in Within(e) : n.kind = "coalesce" => \A i \in 1 .. Len(n.args) - 1 : RefusesAsNull(n.args[i])

\* The database never contradicts the kernel.  The SQL of an accepted expression, asked of the
\* rows of the same entities with NULL for an absent field, gives what the kernel gives wherever
\* the kernel gives something, or is refused, and is never NULL: as the filter or the key of a
\* selector, as a guard over the window of a group, as a value assigned beside that window, and
\* as the guard of a relation over the two endpoints.
SqlIsTheKernel ==
    LET sql == TranspileExpr(MemberContext, expr)
        Rows(members) == [i \in DOMAIN members |-> [m |-> members[i]]]
        Agrees(answer, kernel) == kernel.err = "" => answer.is = "apart" \/ SameAnswer(answer, kernel)
    IN  CoalescesNull(expr) =>
            /\ CheckExpr(expr) # "invalid" =>
                   \A i \in DOMAIN Members : CheckPathsBindKind(expr, Members[i].kind) =>
                       Agrees(SqlEval(sql, [m |-> Members[i]], <<>>), EvaluateExpr(expr, <<Members[i]>>))
            /\ \A kind \in Kinds :
                   LET group == OfKind(kind)
                       Of(bound, i) == Agrees(SqlEval(sql, [m |-> group[i]], Rows(group)), EvaluateGroupNode(expr, group, bound))
                   IN  /\ CheckExprInScope(kind, expr, "group", 0) # "invalid" => \A i \in DOMAIN group : Of(<<>>, i)
                       /\ CheckExprInScope(kind, expr, "member-in-group", 0) # "invalid" =>
                              \A i \in DOMAIN group : Of(<<group[i]>>, i)
            /\ \A from, to \in Kinds :
                   CheckRelationGuard(expr, from, to) # "invalid" =>
                       \A m \in Range(OfKind(from)), n \in Range(OfKind(to)) :
                           Agrees(SqlEval(TranspileExpr(RelationContext(from, to), expr), [f |-> m, t |-> n], <<>>),
                                  EvaluateExpr(expr, <<m, n>>))

\* The language is one: its evaluator of entities, its evaluator of groups and the database give
\* an accepted expression one value.
LanguageIsOne == EvaluatorsAgree /\ SqlIsTheKernel
=============================================================================
