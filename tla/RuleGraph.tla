----------------------------- MODULE RuleGraph -----------------------------
(***************************************************************************)
(* The order of a plan's rules (internal/semantic/compile.go).  A rule set *)
(* is a function from rule ids to [reads, writes, after]: the field paths  *)
(* the compiler derived and the rules the author put it after.  Ids are    *)
(* numbers in the order of the names.  Edges go from a rule to the rules   *)
(* that must run before it.                                                *)
(***************************************************************************)
EXTENDS Naturals, FiniteSets, Sequences, FiniteSetsExt, Functions

\* edges[id] of a Go map: the rules id has an edge to, none for an id that is not a rule.
EdgesOf(edges, id) == IF id \in DOMAIN edges THEN edges[id] ELSE {}

\* dependencyPathExists: target is in everything that holds what from has edges to and is
\* closed under edges.
DependencyPathExists(edges, from, target) ==
    LET known == DOMAIN edges \cup UNION {edges[id] : id \in DOMAIN edges}
    IN  \A s \in SUBSET known :
            (EdgesOf(edges, from) \subseteq s /\ \A x \in s : EdgesOf(edges, x) \subseteq s) => target \in s

ExplicitEdges(rules) == [id \in DOMAIN rules |-> rules[id].after]

\* isWriteShadowed: each of the fields is written again by a rule the author put between.
IsWriteShadowed(edges, rules, reader, writer, fields) ==
    \A field \in fields :
        \E mid \in DOMAIN rules \ {reader, writer} :
            /\ DependencyPathExists(edges, reader, mid)
            /\ DependencyPathExists(edges, mid, writer)
            /\ field \in rules[mid].writes

\* Whether reading what the other writes puts an edge from reader to writer.
ReadsAfter(rules, reader, writer) ==
    LET overlap == rules[writer].writes \cap rules[reader].reads
        explicit == ExplicitEdges(rules)
    IN  /\ overlap # {}
        /\ \/ rules[writer].writes \cap rules[reader].writes = {}
           \/ /\ ~DependencyPathExists(explicit, writer, reader)
              /\ DependencyPathExists(explicit, reader, writer)
              /\ ~IsWriteShadowed(explicit, rules, reader, writer, overlap)

\* The edges resolveDependencies builds: the author's and the derived ones.
Edges(rules) ==
    [id \in DOMAIN rules |->
        rules[id].after \cup {w \in DOMAIN rules \ {id} : ReadsAfter(rules, id, w)}]

\* A variant that takes a conflict for settled when either rule merely reads what the other writes.
ConflictsOfNonReaders(rules) ==
    {<<l, r, field>> \in (DOMAIN rules) \X (DOMAIN rules) \X UNION {rules[id].writes : id \in DOMAIN rules} :
        /\ l < r
        /\ field \in rules[l].writes \cap rules[r].writes
        /\ rules[l].reads \cap rules[r].writes = {}
        /\ rules[r].reads \cap rules[l].writes = {}}

\* The pairs that write a common field and are ordered by nothing.
WriteConflicts(rules) ==
    {<<l, r, field>> \in (DOMAIN rules) \X (DOMAIN rules) \X UNION {rules[id].writes : id \in DOMAIN rules} :
        /\ l < r
        /\ field \in rules[l].writes \cap rules[r].writes
        /\ ~DependencyPathExists(Edges(rules), l, r)
        /\ ~DependencyPathExists(Edges(rules), r, l)}

\* The dependencies of an id that name no rule, its own id aside.
UnknownDependencies(rules, id) == rules[id].after \ (DOMAIN rules)

\* transformation.dependencies: the edges to rules of the set.
Dependencies(rules) == [id \in DOMAIN rules |-> Edges(rules)[id] \cap DOMAIN rules]

\* topologicalOrder: of the rules nothing is left to wait for, the first by name, as long as
\* there is one.  Shorter than the rule set when the edges have a cycle.
TopologicalOrder(dependencies) ==
    LET ids == DOMAIN dependencies
        ordered[n \in 0 .. Cardinality(ids)] ==
            IF n = 0 THEN <<>>
            ELSE LET done == ordered[n - 1]
                     ready == {id \in ids \ Range(done) : dependencies[id] \subseteq Range(done)}
                 IN  IF ready = {} THEN done ELSE Append(done, Min(ready))
    IN  ordered[Cardinality(ids)]

\* The level of each rule of an order: one above the highest of its dependencies.
Levels(dependencies, order) ==
    LET level[n \in 1 .. Len(order)] ==
            LET above == {level[m] + 1 : m \in {k \in 1 .. n - 1 : order[k] \in dependencies[order[n]]}}
            IN  IF above = {} THEN 0 ELSE Max(above)
    IN  level
=============================================================================
