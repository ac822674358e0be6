--------------------------- MODULE SqlExpressions ---------------------------
(***************************************************************************)
(* The SQL the transpiler writes for an expression                         *)
(* (internal/transpiler/sql/expr.go and dialect.go), and what a database   *)
(* answers it.  The SQL of an expression is a tree of the same records as  *)
(* the expression, whose kinds are SQL's operators and functions and whose *)
(* field, in a column, is <<alias, name>>.                                 *)
(*                                                                         *)
(* The second half is not the repository's: it is PostgreSQL, as far as    *)
(* the transpiler relies on it.  An answer is Apart where the database     *)
(* refuses (no operator for the types, an overflow, a division by zero)    *)
(* and where it goes by rules of its own that the kernel does not share:   *)
(* the scale of a quotient, the collation of texts, an interval.           *)
(***************************************************************************)
EXTENDS GroupExpressions

\* TranspileContext: the aliases an expression's paths may name, "" for the ones it has not.
MemberContext == [entity |-> "m", from |-> "", to |-> "", fromKind |-> "", toKind |-> ""]
RelationContext(fromKind, toKind) ==
    [entity |-> "", from |-> "f", to |-> "t", fromKind |-> fromKind, toKind |-> toKind]

\* transpileFieldPath: the endpoints of a relation first, then the entity.
TranspileFieldPath(ctx, path) ==
    LET name == SplitFieldPath(path)
        alias == CASE name[1] \in {"from", ctx.fromKind} /\ ctx.from # "" -> ctx.from
                   [] name[1] \in {"to", ctx.toKind} /\ ctx.to # ""       -> ctx.to
                   [] OTHER                                               -> ctx.entity
    IN  Node("column", <<>>, <<alias, name[2]>>, <<>>)

\* transpileLiteral: numbers are written bare, everything else in quotes.
TranspileLiteral(v) ==
    Node(IF v.kind \in Numeric THEN "number" ELSE "quoted", <<v>>, <<>>, <<>>)

SqlCall(name, args) == Node(name, <<>>, <<>>, args)

\* The arms that only write their operands between or after a name, and that name.
LogicalOperators == [not |-> "NOT", all |-> "AND", any |-> "OR", equal |-> "=", less |-> "<"]
ArithmeticOperators ==
    [add |-> "+", subtract |-> "-", multiply |-> "*", divide |-> "/", modulo |-> "%", abs |-> "ABS"]
TemporalFunctions == [timestamp_add |-> "PLUS SECONDS", timestamp_diff |-> "EPOCH OF DIFFERENCE"]
OtherFunctions == [concat |-> "CONCAT", trim |-> "TRIM", if |-> "CASE", coalesce |-> "COALESCE"]
Aggregates == [sum |-> "SUM", min |-> "MIN", max |-> "MAX", all_members |-> "BOOL_AND", any_members |-> "BOOL_OR"]
SqlNames == LogicalOperators @@ ArithmeticOperators @@ TemporalFunctions @@ OtherFunctions @@ Aggregates

\* A variant in which the dialect hands the kernel's offset to SUBSTRING as it is.
SubstringFromOffset(str, offset, length) == SqlCall("SUBSTRING", <<str, offset, length>>)

\* The substring arm: an offset from 0 becomes a position from 1.
Substring(str, offset, length) ==
    SqlCall("SUBSTRING", <<str, SqlCall("+", <<offset, TranspileLiteral(NewInt64Value(1))>>), length>>)

\* dialect.Clamp.
Clamp(val, min, max) == SqlCall("LEAST", <<SqlCall("GREATEST", <<val, min>>), max>>)

\* The all_equal arm.
AllEqual(column) == SqlCall("=", <<SqlCall("MIN", <<column>>), SqlCall("MAX", <<column>>)>>)

\* TranspileExpr.  The reductions are windows over the group of the row.
RECURSIVE TranspileExpr(_, _)
TranspileExpr(ctx, e) ==
    LET args == [i \in DOMAIN e.args |-> TranspileExpr(ctx, e.args[i])]
        column == TranspileFieldPath(ctx, e.field)
    IN  CASE e.kind = "literal"              -> TranspileLiteral(e.literal[1])
          [] e.kind = "field"                -> column
          [] e.kind = "exists"               -> SqlCall("IS NOT NULL", <<column>>)
          [] e.kind = "clamp"                -> Clamp(args[1], args[2], args[3])
          [] e.kind = "substring"            -> Substring(args[1], args[2], args[3])
          [] e.kind = "date_extract"         -> Node("EXTRACT", <<>>, e.field, args)
          [] e.kind = "count"                -> SqlCall("COUNT", <<>>)
          [] e.kind \in {"sum", "min", "max"} -> SqlCall(SqlNames[e.kind], <<column>>)
          [] e.kind = "all_equal"            -> AllEqual(column)
          [] OTHER                           -> SqlCall(SqlNames[e.kind], args)

-----------------------------------------------------------------------------
(* The database.  An answer is [is, null, n, scale, text, boolean]: is the *)
(* SQL type, n / Base^scale the number, the instant or the day.            *)

Answer(is, n, scale, text) ==
    [is |-> is, null |-> FALSE, n |-> n, scale |-> scale, text |-> text, boolean |-> FALSE]
Apart == Answer("apart", 0, 0, <<>>)
Null(is) == [Answer(is, 0, 0, <<>>) EXCEPT !.null = TRUE]
SqlBool(b) == [Answer("bool", 0, 0, <<>>) EXCEPT !.boolean = b]
BigInt(n) == IF n \in Int64 THEN Answer("int", n, 0, <<>>) ELSE Apart
NumericOf(n, scale) == Answer("numeric", n, scale, <<>>)

\* The type of a column; a duration is a number of seconds.
ColumnType(kind) ==
    CASE kind \in {"int64", "duration"}  -> "int"
      [] kind = "decimal"                -> "numeric"
      [] kind \in {"timestamp", "date"}  -> kind
      [] OTHER                           -> "text"

\* A stored value in a column of a type.
InColumn(type, v) ==
    IF type = "numeric"
      THEN LET d == ParseDecimal(v.text).d IN NumericOf(NumberAt(d, d.scale), d.scale)
      ELSE Answer(type, v.integer, 0, v.text)

\* A row gives every alias an entity; a field the entity lacks is a NULL.
Column(c, row) ==
    LET entity == row[c[1]]
        type == ColumnType(FieldKind(<<entity.kind, c[2]>>))
        stored == Stored(entity, c[2])
    IN  IF stored = <<>> THEN Null(type) ELSE InColumn(type, stored[1])

\* A decimal without a point is an integer to SQL.
NumberLiteral(v) ==
    LET d == ParseDecimal(v.text).d
    IN  CASE v.kind # "decimal" -> BigInt(v.integer)
          [] d.scale = 0        -> BigInt(NumberAt(d, 0))
          [] OTHER              -> InColumn("numeric", v)

\* The one type several operands are taken at; "none" when there is no such type.
CommonType(rs) ==
    LET types == {rs[i].is : i \in DOMAIN rs} \ {"quoted"}
    IN  CASE types = {}                   -> "text"
          [] types = {"int", "numeric"}   -> "numeric"
          [] Cardinality(types) = 1       -> CHOOSE t \in types : TRUE
          [] OTHER                        -> "none"
Strange(rs) == CommonType(rs) \in {"none", "apart"}

\* The numbers of two answers at one scale, and their order.
Left(l, r) == l.n * Base ^ r.scale
Right(l, r) == r.n * Base ^ l.scale

SqlCompare(op, l, r) ==
    LET type == CommonType(<<l, r>>)
    IN  CASE Strange(<<l, r>>)         -> Apart
          [] l.null \/ r.null          -> Null("bool")
          [] op = "=" /\ type = "bool" -> SqlBool(l.boolean = r.boolean)
          [] op = "=" /\ type = "text" -> SqlBool(l.text = r.text)
          [] op = "="                  -> SqlBool(Left(l, r) = Right(l, r))
          [] type = "text"             -> Apart
          [] OTHER                     -> SqlBool(Left(l, r) < Right(l, r))

SqlArithmetic(op, l, r) ==
    LET type == CommonType(<<l, r>>)
        scale == l.scale + r.scale
    IN  CASE type \notin {"int", "numeric"} \/ "quoted" \in {l.is, r.is} -> Apart
          [] l.null \/ r.null -> Null(type)
          [] op \in {"/", "%"} /\ (r.n = 0 \/ scale > 0) -> Apart
          [] op = "/"  -> IF type = "int" THEN BigInt(Quo(l.n, r.n)) ELSE Apart
          [] op = "%"  -> Answer(type, Rem(l.n, r.n), 0, <<>>)
          [] OTHER     ->
                LET n == CASE op = "+" -> Left(l, r) + Right(l, r)
                           [] op = "-" -> Left(l, r) - Right(l, r)
                           [] OTHER    -> l.n * r.n
                IN  IF type = "int" THEN BigInt(n) ELSE NumericOf(n, scale)

SqlAbs(r) ==
    CASE r.is \notin {"int", "numeric"} -> Apart
      [] r.null \/ r.n >= 0             -> r
      [] r.is = "int"                   -> BigInt(-r.n)
      [] OTHER                          -> NumericOf(-r.n, r.scale)

\* The answers that are not NULL; LEAST, GREATEST and the aggregates see no others.
NotNull(rs) == SelectSeq(rs, LAMBDA r : ~r.null)

\* LEAST, GREATEST, MIN and MAX.  Only the equality of the extremes of texts is used.
SqlExtreme(least, rs) ==
    LET type == CommonType(rs)
        Before(l, r) == IF type = "text" THEN TextLess(l.text, r.text) ELSE Left(l, r) < Right(l, r)
        present == NotNull(rs)
        Better(best, r) == IF (IF least THEN Before(r, best) ELSE Before(best, r)) THEN r ELSE best
    IN  CASE Strange(rs)      -> Apart
          [] present = <<>>   -> Null(type)
          [] OTHER            -> [FoldLeft(Better, present[1], Tail(present)) EXCEPT !.is = type]

SqlSum(rs) ==
    LET Plus2(l, r) == SqlArithmetic("+", l, [r EXCEPT !.is = "numeric"])
    IN  CASE rs[1].is \notin {"int", "numeric"} -> Apart
          [] NotNull(rs) = <<>>                 -> Null("numeric")
          [] OTHER                              -> FoldLeft(Plus2, NumericOf(0, 0), NotNull(rs))

\* AND (decider FALSE) and OR (decider TRUE), of the operands of one row or the rows of a group.
SqlConnective(decider, rs) ==
    CASE \E i \in DOMAIN rs : rs[i].is = "bool" /\ ~rs[i].null /\ rs[i].boolean = decider -> SqlBool(decider)
      [] \E i \in DOMAIN rs : rs[i].is # "bool" -> Apart
      [] \E i \in DOMAIN rs : rs[i].null        -> Null("bool")
      [] OTHER                                  -> SqlBool(~decider)

\* A part of a date is small: it is a BIGINT at every width.
Part(n) == Answer("int", n, 0, <<>>)

\* EXTRACT(...)::BIGINT: the second is rounded and Sunday is 0; Apart where that shows.
SqlExtract(unit, r) ==
    LET sunday == IF r.is = "date" THEN DateExtract(r.n, "day_of_week") = 7
                                   ELSE TimestampExtract(r.n, "day_of_week") = 7
    IN  CASE r.is \notin {"timestamp", "date"}          -> Apart
          [] r.null                                     -> Null("int")
          [] unit = "second" /\ 2 * SecFrac(r.n)[2] >= Nanos -> Apart
          [] unit = "day_of_week" /\ sunday             -> Apart
          [] r.is = "date"                              -> Part(DateExtract(r.n, unit))
          [] OTHER                                      -> Part(TimestampExtract(r.n, unit))

\* ts + dur * INTERVAL '1 second', and FLOOR(EXTRACT(EPOCH FROM (ts - ts))), which is the kernel's
\* truncation where no fraction of a negative second is left.
SqlSeconds(op, l, r) ==
    CASE op = "PLUS SECONDS" ->
             CASE l.is # "timestamp" \/ r.is \notin {"int", "numeric"} -> Apart
               [] l.null \/ r.null                                     -> Null("timestamp")
               [] OTHER -> LET sum == AddDuration(l.n, r.n)
                           IN  IF sum.ok THEN Answer("timestamp", sum.nano, 0, <<>>) ELSE Apart
      [] OTHER ->
             CASE CommonType(<<l, r>>) # "timestamp"          -> Apart
               [] l.null \/ r.null                            -> Null("int")
               [] l.n < r.n /\ (l.n - r.n) % Nanos # 0        -> Apart
               [] OTHER                                       -> BigInt((l.n - r.n) \div Nanos)

\* CONCAT, SUBSTRING and TRIM.
SqlText(op, rs) ==
    LET text == rs[1].text
        start == rs[2].n
        length == rs[3].n
    IN  CASE \E i \in DOMAIN rs : rs[i].is = "apart" -> Apart
          [] op = "CONCAT" -> Answer("text", 0, 0, FlattenSeq([i \in DOMAIN NotNull(rs) |-> NotNull(rs)[i].text]))
          [] rs[1].is \notin {"text", "quoted"} -> Apart
          [] \E i \in DOMAIN rs : rs[i].null -> Null("text")
          [] op = "TRIM" -> Answer("text", 0, 0, TrimSpace(text))
          [] rs[2].is # "int" \/ rs[3].is # "int" \/ length < 0 -> Apart
          [] OTHER -> Answer("text", 0, 0, SubSeq(text, IF start < 1 THEN 1 ELSE start,
                                                  IF start + length - 1 < Len(text) THEN start + length - 1 ELSE Len(text)))

\* CASE and COALESCE: the answer taken has the type all of them share.
SqlChoice(rs, taken) ==
    IF Strange(rs) THEN Apart ELSE [taken EXCEPT !.is = CommonType(rs)]

RECURSIVE SqlEval(_, _, _)
\* The answer for a row, in a window that ranges over rows.
SqlEval(s, row, rows) ==
    LET rs == [i \in DOMAIN s.args |-> SqlEval(s.args[i], row, rows)]
        over == [i \in DOMAIN rows |-> SqlEval(s.args[1], rows[i], <<>>)]
        present == NotNull(rs)
    IN  CASE s.kind = "number"      -> NumberLiteral(s.literal[1])
          [] s.kind = "quoted"      -> Answer("quoted", s.literal[1].integer, 0, s.literal[1].text)
          [] s.kind = "column"      -> Column(s.field, row)
          [] s.kind = "IS NOT NULL" -> SqlBool(~rs[1].null)
          [] s.kind = "NOT"         -> IF rs[1].is # "bool" THEN Apart ELSE [rs[1] EXCEPT !.boolean = ~@]
          [] s.kind = "AND"         -> SqlConnective(FALSE, rs)
          [] s.kind = "OR"          -> SqlConnective(TRUE, rs)
          [] s.kind \in {"=", "<"}  -> SqlCompare(s.kind, rs[1], rs[2])
          [] s.kind \in {"+", "-", "*", "/", "%"} -> SqlArithmetic(s.kind, rs[1], rs[2])
          [] s.kind = "ABS"         -> SqlAbs(rs[1])
          [] s.kind \in {"LEAST", "GREATEST"} -> IF CommonType(rs) = "text" THEN Apart ELSE SqlExtreme(s.kind = "LEAST", rs)
          [] s.kind \in {"PLUS SECONDS", "EPOCH OF DIFFERENCE"} -> SqlSeconds(s.kind, rs[1], rs[2])
          [] s.kind = "EXTRACT"     -> SqlExtract(s.field[1], rs[1])
          [] s.kind \in {"CONCAT", "SUBSTRING", "TRIM"} -> SqlText(s.kind, rs)
          [] s.kind = "CASE"        -> IF rs[1].is # "bool" THEN Apart
                                       ELSE SqlChoice(Tail(rs), IF rs[1].boolean /\ ~rs[1].null THEN rs[2] ELSE rs[3])
          [] s.kind = "COALESCE"    -> SqlChoice(rs, IF present = <<>> THEN rs[1] ELSE present[1])
          [] s.kind = "COUNT"       -> BigInt(Len(rows))
          [] s.kind = "SUM"         -> SqlSum(over)
          [] s.kind \in {"MIN", "MAX"} -> SqlExtreme(s.kind = "MIN", over)
          [] s.kind = "BOOL_AND"    -> SqlConnective(FALSE, over)
          [] OTHER                  -> SqlConnective(TRUE, over)

\* The database gives what the kernel gave.
SameAnswer(sql, kernel) ==
    LET v == kernel.value
        d == ParseDecimal(v.text).d
    IN  /\ ~sql.null
        /\ CASE kernel.kind = "bool"                   -> sql.is = "bool" /\ sql.boolean = kernel.boolean
             [] kernel.kind \in {"int64", "duration"}  -> sql.n = v.integer * Base ^ sql.scale
             [] kernel.kind = "decimal"                -> sql.n * Base ^ d.scale = NumberAt(d, d.scale) * Base ^ sql.scale
             [] kernel.kind \in {"timestamp", "date"}  -> sql.n = v.integer
             [] OTHER                                  -> sql.text = v.text
=============================================================================
