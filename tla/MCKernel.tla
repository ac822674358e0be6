------------------------------ MODULE MCKernel ------------------------------
(***************************************************************************)
(* Loads in lanes and trucks that carry them: rules of every operator that *)
(* overlap in what they read and write, alone and together, on initial     *)
(* states with sparse fields and relations.                                *)
(***************************************************************************)
EXTENDS Kernel

MCDeclared ==
    (<<"load", "w">> :> "int64") @@ (<<"load", "due">> :> "int64") @@ (<<"load", "lane">> :> "string") @@
    (<<"truck", "cap">> :> "int64")
MCCode == [load |-> 1, truck |-> 2, w |-> 3, due |-> 4, lane |-> 5, cap |-> 6, from |-> 7, to |-> 8]
MCRelations == "carries" :> <<"truck", "load">>
MCRequired == {<<"truck", "cap">>}

W == <<"load", "w">>
Due == <<"load", "due">>
Lane == <<"load", "lane">>
Cap == <<"truck", "cap">>

Lit(n) == Node("literal", <<NewInt64Value(n)>>, <<>>, <<>>)
Read(path) == Node("field", <<>>, path, <<>>)
Has(path) == Node("exists", <<>>, path, <<>>)
Sum(path) == Node("sum", <<>>, path, <<>>)
Less(a, b) == Node("less", <<>>, <<>>, <<a, b>>)
AddOf(a, b) == Node("add", <<>>, <<>>, <<a, b>>)
EveryMember(e) == Node("all_members", <<>>, <<>>, <<e>>)
Always == Less(Lit(0), Lit(1))

AnyCount == [kind |-> "any", count |-> 0]
Sel(kind, where, groupBy, members) == [kind |-> kind, where |-> where, groupBy |-> groupBy, members |-> members]
Lanes == Sel("load", <<>>, <<Read(Lane)>>, AnyCount)
Set(target, value) == [target |-> target, value |-> value]

Rule(id, op, sel, guard) ==
    [id |-> id, op |-> op, payloads |-> {op}, sel |-> sel, to |-> Sel("", <<>>, <<>>, AnyCount), relation |-> "", target |-> "",
     disc |-> Lit(0), guard |-> guard, assigns |-> <<>>, partitions |-> <<>>, retain |-> FALSE, reanchor |-> FALSE,
     reads |-> <<>>, writes |-> <<>>, after |-> <<>>]

Assign(id, guard, assigns) == [Rule(id, "select_assign", Lanes, guard) EXCEPT !.assigns = assigns]
Make(id, op, sel, target, assigns) == [Rule(id, op, sel, Always) EXCEPT !.target = target, !.assigns = assigns, !.disc = Lit(1)]

\* With the accesses an author declares: the derived ones.
Declare(d) ==
    [d EXCEPT !.reads = SetToSortSeq(DerivedReads(d), PathLess), !.writes = SetToSortSeq(DerivedWrites(d), PathLess)]

Plan1   == Assign(1, Always, <<Set(Due, Read(W))>>)
Grow    == Assign(2, Always, <<Set(W, AddOf(Read(W), Lit(1)))>>)
Catch   == Assign(3, EveryMember(Has(Due)), <<Set(W, Read(Due))>>)
Swap    == Assign(4, Less(Lit(1), Sum(W)), <<Set(W, Lit(2)), Set(Due, Lit(1))>>)
Late    == Assign(5, EveryMember(Less(Read(Due), Lit(2))), <<Set(W, Lit(0))>>)
Pairs   == [Assign(6, Always, <<Set(Due, Lit(0))>>) EXCEPT !.sel.members = [kind |-> "exactly", count |-> 2]]
Fleet   == Make(7, "insert", Lanes, "truck", <<Set(Cap, Sum(W))>>)
Each    == Make(8, "insert", Sel("load", <<Less(Lit(1), Read(W))>>, <<>>, AnyCount), "truck", <<Set(Cap, Read(W))>>)
Bare    == Make(9, "insert", Lanes, "truck", <<>>)
Drop    == Rule(10, "delete", Sel("load", <<Less(Read(W), Lit(2))>>, <<>>, AnyCount), Always)
Load    == [Rule(11, "relate", Sel("truck", <<>>, <<>>, AnyCount),
                 Less(Read(<<"to", "w">>), Read(<<"from", "cap">>))) EXCEPT !.to = Sel("load", <<>>, <<>>, AnyCount), !.relation = "carries"]
Unload  == [Load EXCEPT !.id = 12, !.op = "unrelate", !.payloads = {"unrelate"}, !.guard = Less(Lit(2), Read(<<"to", "w">>))]
Join    == [Make(13, "merge", Lanes, "load", <<Set(W, Sum(W))>>) EXCEPT !.reanchor = TRUE]
Cut     == [Rule(14, "split", Sel("load", <<>>, <<Read(Lane)>>, AnyCount), Always)
               EXCEPT !.target = "load", !.partitions = <<[disc |-> Lit(1), assigns |-> <<Set(W, Read(W))>>],
                                                         [disc |-> Lit(2), assigns |-> <<Set(Lane, Read(Lane))>>]>>]
Clear   == Assign(15, Always, <<Set(Due, Lit(1))>>)
Twice   == [Cut EXCEPT !.partitions[2].disc = Lit(1)]
Wrong   == [Plan1 EXCEPT !.writes = <<W>>]

Assigns == {Plan1, Grow, Catch, Clear}

Present(key, fields, implies) ==
    [key |-> key, scope |-> [kind |-> "all_of_kind", entity |-> "load"], aggregation |-> "all_selected",
     requirements |-> [i \in DOMAIN fields |-> [code |-> i, kind |-> "field_present", field |-> fields[i]]], implies |-> implies]
Profiles == <<Present(1, <<W>>, <<>>), Present(2, <<W, Due>>, <<1>>)>>

Request(rules, last) ==
    [rules |-> [i \in DOMAIN rules |-> Declare(rules[i])], checkpoints |-> <<[key |-> 1, after |-> last]>>, profiles |-> Profiles]
After(d, ids) == [d EXCEPT !.after = ids]

MCRequests ==
    {Request(<<d>>, d.id) : d \in Assigns \cup {Late, Swap, Pairs, Fleet, Each, Bare, Drop, Load, Unload, Join, Cut, Twice,
                                                [Join EXCEPT !.reanchor = FALSE], [Join EXCEPT !.retain = TRUE]}}
    \cup {Request(<<p[1], p[2]>>, p[2].id) : p \in {p \in Assigns \X Assigns : p[1].id < p[2].id}}
    \cup {Request(<<After(p[1], <<p[2].id>>), p[2]>>, p[1].id) : p \in {p \in Assigns \X Assigns : p[1].id # p[2].id}}
    \cup {Request(<<Plan1, After(Catch, <<1>>), After(Grow, <<1, 3>>)>>, 3),
          Request(<<Fleet, Load>>, 11), Request(<<Load, Join>>, 11), Request(<<After(Plan1, <<4>>), Swap>>, 1), Request(<<Late, After(Swap, <<5>>)>>, 4), Request(<<Grow, After(Cut, <<2>>)>>, 14),
          Request(<<After(Plan1, <<3>>), After(Catch, <<1>>)>>, 1), Request(<<After(Plan1, <<9>>)>>, 1),
          [Request(<<Plan1>>, 1) EXCEPT !.rules[1] = Wrong],
          [Request(<<Plan1>>, 1) EXCEPT !.profiles[1].implies = <<2>>, !.profiles[2].implies = <<>>],
          Request(<<After(Plan1, <<2, 2>>), Grow>>, 1)}

Text(s) == NewStringValue(s)
Ref(kind, key) == <<kind, SourceEntityID(1, kind, key)>>
State(ents, rels) == [lineage |-> 1, ents |-> [ref \in DOMAIN ents |-> ImageOf(ents[ref])], rels |-> rels]
L(n) == Ref("load", n)
T == Ref("truck", 1)

MCInitials ==
    {State((L(1) :> [w |-> NewInt64Value(1), lane |-> Text(<<1>>)])
           @@ (L(2) :> [w |-> NewInt64Value(2), lane |-> Text(<<1>>), due |-> NewInt64Value(1)])
           @@ (L(3) :> [w |-> NewInt64Value(3), lane |-> Text(<<2>>), due |-> NewInt64Value(3)])
           @@ (T :> [cap |-> NewInt64Value(3)]),
           {<<T, L(1), "carries">>, <<T, L(2), "carries">>, <<T, L(3), "carries">>}),
     State((L(1) :> [w |-> NewInt64Value(2), lane |-> Text(<<1>>), due |-> NewInt64Value(1)])
           @@ (L(2) :> [w |-> NewInt64Value(2), lane |-> Text(<<2>>), due |-> NewInt64Value(0)])
           @@ (T :> [cap |-> NewInt64Value(4)]), {})}
=============================================================================
