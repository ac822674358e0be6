--------------------------- MODULE MCRuleLanguage ---------------------------
(***************************************************************************)
(* A small schema (drivers with a field of every ordered type, teams with  *)
(* one), sparse entities, and machine integers of three bits.              *)
(***************************************************************************)
EXTENDS RuleLanguage

MCDeclared ==
    (<<"driver", "hours">> :> "int64") @@ (<<"driver", "rate">> :> "decimal") @@
    (<<"driver", "at">> :> "timestamp") @@ (<<"driver", "wait">> :> "duration") @@
    (<<"driver", "note">> :> "string") @@ (<<"team", "hours">> :> "int64")

MCCode ==
    [driver |-> 1, team |-> 2, hours |-> 3, rate |-> 4, at |-> 5, wait |-> 6, note |-> 7,
     from |-> 8, to |-> 9, year |-> 10, hour |-> 11]

MCRelations == "on" :> <<"driver", "team">>

Lit(v) == Node("literal", <<v>>, <<>>, <<>>)
Reads(kind, path) == Node(kind, <<>>, path, <<>>)
Dawn == NewTimestampValue(<<1970, 1, 1, 0, 0, 1, 1>>)
Eve  == NewTimestampValue(<<1969, 12, 31, 23, 59, 59, 1>>)
Half == NewDecimalValue(<<0, Dot, 1>>)
Two  == NewDecimalValue(<<1, 0>>)

MCOperands ==
    {Lit(NewInt64Value(n)) : n \in {IntMin, -1, 2}}
    \cup {Lit(Half), Lit(Dawn), Lit(NewDurationValue(IntMin)),
          Lit(NewStringValue(<<0, 1>>)),
          Reads("field", <<"driver", "hours">>), Reads("field", <<"driver", "rate">>),
          Reads("exists", <<"driver", "hours">>), Reads("field", <<"to", "hours">>)}

MCLeaves ==
    MCOperands
    \cup {Lit(NewInt64Value(IntMax)), Lit(NewDurationValue(2)), Lit(Eve), Lit(Two), Lit(NewDateValue(<<1970, 1, 2>>)),
          Lit(NewAtomValue(<<Colon, 1>>)), Lit(NoValue)}
    \cup {Reads("field", <<"driver", name>>) : name \in {"at", "wait", "note"}}
    \cup {Reads(kind, <<"driver", name>>) : kind \in {"sum", "min", "max", "all_equal"}, name \in {"hours", "rate", "note"}}
    \cup {Node("count", <<>>, <<>>, <<>>), Reads("sum", <<"team", "hours">>), Reads("exists", <<"driver", "miles">>),
          Reads("field", <<"from", "hours">>), Reads("field", <<"team", "hours">>), Reads("exists", <<"to", "rate">>)}

MCGuards == {Reads("exists", <<"driver", "hours">>), Reads("field", <<"driver", "hours">>)}
MCConnectives == {"not", "all", "any", "coalesce", "if", "all_members", "any_members", "less", "multiply"}

Entity(kind, id, fields) == [kind |-> kind, id |-> id, fields |-> fields]

MCMembers ==
    <<Entity("driver", <<1>>, [hours |-> NewInt64Value(2), rate |-> Half, at |-> Eve,
                           wait |-> NewDurationValue(-1), note |-> NewStringValue(<<1, 0>>)]),
      Entity("driver", <<2>>, [rate |-> Two, at |-> Dawn]),
      Entity("driver", <<3>>, [hours |-> NewInt64Value(2), rate |-> Half]),
      Entity("team", <<4>>, [hours |-> NewInt64Value(IntMax)])>>

\* The boundaries of the calendar: around every century and leap day of the years shown.
MCDays ==
    UNION {LET first == DaysFromCivil(y, 1, 1) IN {first + k : k \in {-1, 0, 30, 31, 57, 58, 59, 60, 364}}
             : y \in {2, 4, 100, 400, 1600, 1700, 1899, 1900, 1969, 1970, 1972, 1999, 2000, 2001, 2100, 2400, 9998}}

MCTexts ==
    LET whole == {<<>>, <<2>>, <<1, 2>>, <<2, 0>>}
        part  == {<<>>, <<0>>, <<2>>, <<1, 2>>}
    IN  {sign \o i \o <<Dot>> \o f : sign \in {<<>>, <<Minus>>}, i \in whole, f \in part}
        \cup {<<Plus, 2, 2>>, <<1, Dot, Dot>>, <<Minus>>}

MCWords == Int64
MCInstants == {-MaxSec * Nanos, -86401 * Nanos + 1, -86400 * Nanos, -3, -2, -1, 0, 1, 2, 3,
               86399 * Nanos + 2, 86400 * Nanos, MaxSec * Nanos + MaxFrac}
MCSpans == {-90000, -1, 0, 1, 59, 86400}

-----------------------------------------------------------------------------
(* The text.                                                               *)

Hours == IdentExpr(<<"driver", "hours">>)
Wait  == IdentExpr(<<"driver", "wait">>)
Five(n) == LiteralExpr("int64", <<n>>)
Smallest == LiteralExpr("int64", <<Minus, 1, 1>>)

MCWordTrees ==
    {Hours, Wait, IdentExpr(<<"driver", "at">>), Five(2), Smallest,
     LiteralExpr("int64", <<1, 1>>),
     LiteralExpr("decimal", <<1, Dot, 2>>), LiteralExpr("decimal", <<Minus, 2>>),
     LiteralExpr("duration", <<Minus, 1, HourMark>>), LiteralExpr("duration", <<1, 0, MinuteMark>>),
     LiteralExpr("timestamp", <<1970, 1, 1, 12, 0, 0, 1>>),
     LiteralExpr("string", <<Control, 1>>), LiteralExpr("atom", <<1, 2>>), LiteralExpr("atom", <<1, Minus>>),
     LiteralExpr("bool", <<1>>), LiteralExpr("null", <<>>)}
MCParticles == {Five(1)}
MCStems == {Hours, Smallest, LiteralExpr("decimal", <<Minus, 2>>)}
MCPhrases == {LiteralExpr("decimal", <<2, Dot, 1>>), BinaryExpr("+", Five(1), Hours), UnaryExpr("-", Five(2))}

Filter == BinaryExpr("<", Five(1), Hours)
Unset == UnaryExpr("!", CallExpr("exists", <<Hours>>))
Yearly == BinaryExpr("==", CallExpr("extract", <<IdentExpr(<<"year">>), IdentExpr(<<"driver", "at">>)>>), Five(2))
Counted == BinaryExpr(">=", CallExpr("count", <<>>), Five(1))
SetHours == AssignmentNode(<<"driver", "hours">>, BinaryExpr("-", Hours, Five(1)))
SetTeam == AssignmentNode(<<"team", "hours">>, CallExpr("sum", <<Hours>>))

Drivers == {SelectorNode("driver", where, groupBy, having) :
               where \in {<<>>, <<Filter>>, <<Unset>>, <<Yearly>>},
               groupBy \in {<<>>, <<IdentExpr(<<"driver", "note">>)>>}, having \in {<<>>, <<Counted>>}}
Teams == {SelectorNode("team", where, <<>>, <<>>) : where \in {<<>>, <<BinaryExpr("!=", IdentExpr(<<"team", "hours">>), Five(0))>>}}
Closer == BinaryExpr("<=", IdentExpr(<<"from", "hours">>), IdentExpr(<<"to", "hours">>))

OneSided(op, target, disc, assigns, retain) ==
    {[OperatorNode(op) EXCEPT !.sel = <<s>>, !.guard = s.having, !.target = target, !.disc = disc, !.assigns = assigns,
                              !.retain = retain, !.reanchor = retain /\ op = "merge"] : s \in Drivers}
Partition(name, n) == PartitionNode(name, <<Five(n)>>, <<AssignmentNode(<<"team", "hours">>, Hours)>>)

MCOperators ==
    UNION {OneSided("select_assign", "", <<>>, assigns, FALSE) : assigns \in {<<>>, <<SetHours>>, <<SetHours, SetHours>>}}
    \cup UNION {OneSided("insert", "team", disc, <<SetTeam>>, FALSE) : disc \in {<<>>, <<Wait>>}}
    \cup OneSided("delete", "", <<>>, <<>>, FALSE)
    \cup UNION {OneSided("merge", "team", <<Five(1)>>, <<SetTeam>>, retain) : retain \in BOOLEAN}
    \cup {[o EXCEPT !.partitions = <<Partition("am", 1), Partition("pm", 2)>>]
             : o \in UNION {OneSided("split", "team", <<>>, <<>>, retain) : retain \in BOOLEAN}}
    \cup {[OperatorNode(op) EXCEPT !.sel = <<s>>, !.to = <<t>>, !.relation = "on", !.guard = guard]
             : op \in RelationOperators, s \in Drivers, t \in Teams, guard \in {<<>>, <<Closer>>}}

Fields == <<[name |-> "hours", type |-> "int", required |-> TRUE], [name |-> "at", type |-> "ts", required |-> FALSE]>>
MCFiles ==
    {<<RuleDecl("r1", <<>>, <<>>, <<>>, o)>> : o \in MCOperators}
    \cup {<<SchemaDecl(<<[kind |-> "driver", fields |-> Fields], [kind |-> "team", fields |-> fields]>>,
                       <<[kind |-> "on", from |-> "driver", to |-> to]>>),
            RuleDecl("r1", reads, <<<<"driver", "hours">>>>, <<"r2", "r3">>, CHOOSE o \in OneSided("delete", "", <<>>, <<>>, FALSE) : TRUE),
            CheckpointDecl("c1", "r1"),
            ProfileDecl("p1", "driver", implies, <<[field |-> <<"driver", "hours">>, code |-> "REQ"], [field |-> <<"driver", "at">>, code |-> "AT"]>>)>>
            : fields \in {<<>>, Fields, Fields \o Fields}, to \in {"team", "truck"},
              reads \in {<<>>, <<<<"driver", "hours">>, <<"driver", "at">>>>}, implies \in {<<>>, <<"p2">>}}
=============================================================================
