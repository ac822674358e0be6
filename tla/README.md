# Maiden Lane in TLA+

Maiden Lane runs *progressive semantic transformations*: a compiled plan is
executed prefix by prefix over a canonical state, prefixes are sealed as
checkpoints, checkpoints are assessed under profiles, and a checkpoint whose
evidence passes the promotion gate may be published for a target. Executions
are queued in a store and drained by workers; publications are versions of a
target's pointer in an append-only history.

This directory models the system from the text of its rules to its stored
evidence, checks it with TLC on small instances, and proves the main results
about its concurrent parts with TLAPS for every instance.

## 1. Inventory

Paths are relative to the repository.

| component | state it keeps | operations | interacts with |
|---|---|---|---|
| execution store contract (`internal/ports/storage.go`) | executions, their status, lease, attempt generation, answer | Enqueue, Claim, Complete, Fail, Reattempt, GetExecution | implemented by both adapters, used by worker and HTTP handlers |
| Postgres execution queue (`internal/adapters/postgres/executions.go`) | the `executions` table | one to two SQL statements per method | worker processes and HTTP handlers, concurrently, over unreliable calls |
| memory execution queue (`internal/adapters/memory/store.go`) | entry map, enqueue order, claim cursor | the same methods under one mutex | worker and handlers of one process |
| worker (`internal/worker`, the worker part of `cmd/maiden-lane`) | the attempt in hand | Run, RunOnce, attempt, fail | claims from the store, runs the spine, reports outcomes; stopped by its context |
| execution endpoints (`internal/httpapi/executions.go`) | none | create, read, reattempt | read the store, then write it |
| progressive spine (`internal/app/progressive.go`) | accepted transitions, journal, checkpoints, assessments | runWithOperations, sealAndAssess, frontier results | drives the kernel, cancelled by its context |
| semantic kernel (`internal/semantic`) | immutable states, patches, journals, checkpoints | compile, bind, execute, apply, undo, replay, seal, assess, diff | pure: everything it is handed it verifies again |
| rule language (`internal/semantic`: values, expressions, selectors) | none | check, encode, evaluate; decimals and civil time below it | two evaluators, a compiler and an executor share it |
| rule files (`internal/dsl`) | none | parse, format, lower to a compilation request | the kernel's compiler |
| SQL transpiler (`internal/transpiler/sql`) | none | expressions, operators and pipelines as SQL text | a database evaluates the text |
| rehydration (`internal/app`) | none | re-executes a stored execution and classifies the difference | store, spine |
| corpus runs and comparisons (`internal/app`, `internal/semantic`) | per-case executions of a corpus | start, poll, assemble comparison evidence | execution store |
| promotion gate (`internal/promotion`) | none | nine clauses, one decision | reads the artifacts of the kernel and a policy |
| publication use case (`internal/app/publish.go`) | none | evaluate, read pointer, append | gate, policy store, publication store |
| publication and policy stores (`internal/adapters/*`) | one append-only history per target each | append at the next version, explain a refused append, read | concurrent publishers, operators and readers |
| plan store (`internal/adapters/*/store.go`) | declarations by plan identity, compiled again at each read | put, get | worker, handlers, rehydration |
| dbt generator, observability, HTTP boundary, generated API, command line | text and I/O | – | – |

What is hard in it, and what makes each part correct:

* **Queue and workers.** A lease may lapse under a live worker, a process may
  die or be stopped between any two calls, a call may commit and its answer be
  lost, a row may be unreadable to the build that claims it, and a caller may
  reattempt at any time. Correct means: one holder per generation, a stored
  answer is final, a stale report is refused, and every submission is
  eventually decided, unless its plan can no longer be read.
* **Publication.** Publishers and operators read, decide and then append.
  Correct means: one record per version and no gap, no publication that its
  pinned policy does not authorize, no repeated publication, truthful replies.
* **Gate.** Each clause sees a part of the evidence. Correct means: an
  authorization is about one checkpoint and one comparison, and missing
  evidence is not counted as adverse evidence.
* **Spine and kernel.** A run may be rejected, cancelled or fail at any point
  and keeps what it verified. Correct means: what is kept is a prefix that
  depends on nothing discarded, and replay reproduces it. The caller of the
  kernel holds the artifacts and may hand in any mixture of them: correct means
  that no mixture becomes a history the plan does not have.
* **Compiler.** The order of the rules, their identity and the implications of
  the profiles are derived from what was authored. Correct means: any order the
  dependencies allow ends in the same state (checked of assignment rules),
  authoring order is forgotten, and one identity stands for one behaviour.
* **Rule language.** It exists four times: checked by the compiler, evaluated
  for an entity, evaluated for a group, and printed as SQL; and its rules are
  written in a text with precedences of its own. Correct means: what the
  compiler accepts can be evaluated, the evaluators agree, formatting changes
  nothing, and the numbers and instants below it are exact or refused.
* **Evidence.** Corpus runs and comparisons walk over executions that workers,
  other callers and operators move meanwhile, and over rows that may have been
  edited. Correct means: evidence covers the corpus, is re-derived by the kernel
  and belongs to the comparison asked for.

`PROJECT.json` lists the hazards with the line at which each one bites.

## 2. Modules

| module | models |
|---|---|
| `ExecutionContract` | what `ports.ExecutionStore` promises, statement by statement of its comments and signatures |
| `PostgresExecutions` | the executions table: one operator per SQL statement, one variable per column |
| `WorkerPool` | workers, callers, clock and faults around that table |
| `MemoryExecutions` | the in-memory queue with its claim cursor |
| `PublicationLedger` | what a publication target promises |
| `Publication` | publishers, operators and readers on either adapter |
| `PromotionGate` | the nine clauses and the decision over abstract artifacts |
| `Patch` | states as graphs, the five operations, what each does and undoes and when it is refused |
| `PatchMachine` | `ApplyPatch` and `UndoPatch` over one patch, operation by operation |
| `Spine` | one run of the progressive spine with every exit, the context and the observer |
| `Decimals`, `Temporal`, `Values` | the kernel's exact decimals digit by digit, its civil calendar and instants, its scalars and machine integers |
| `Arithmetic` | somebody who picks machine integers, decimal texts, days and instants for them |
| `Expressions`, `GroupExpressions` | types, canonical bytes and evaluation of expressions over an entity, a pair and a group; selectors |
| `RuleGraph`, `Compiler`, `Canonical` | the order of the rules; `Compile` from request to plan or diagnostics; the identities |
| `Executor`, `Runs` | the seven operators, obligations and failure reports; journal, replay, seal and assessment; the difference of two states |
| `Kernel` | a caller of the kernel that mixes the artifacts it holds |
| `Syntax`, `Formatter`, `Lowering` | tokens, trees and the parser of rule files; the formatter; the lowering to a compilation request |
| `SqlExpressions` | the SQL of an expression, and the part of PostgreSQL it relies on |
| `RuleLanguage` | an author who builds expressions, texts and files, and picks the subjects of `Arithmetic` |
| `Comparisons`, `Rehydration` | corpora, comparison policies and comparisons with their identities; the stored forms, and how they become kernel artifacts again |
| `Evidence` | plans, corpora and comparisons being stored, corpora being run and comparisons assembled, with workers, several callers and edited rows |
| `MCWorkerPool`, `MCPublication`, `MCPromotionGate`, `MCPatchMachine`, `MCSpine`, `MCRuleLanguage`, `MCKernel`, `MCEvidence` | constants for TLC |
| `WorkerPoolProofs`, `MemoryExecutionsProofs`, `PublicationProofs`, `PromotionGateProofs`, `PatchProofs`, `SpineProofs`, `EvidenceProofs`, `ArithmeticProofs` | theorems |

`PostgresExecutions` is extended by `WorkerPool`, which refines
`ExecutionContract`; `MemoryExecutions` refines the same contract, so the two
adapters are held to one specification. `Publication` refines
`PublicationLedger` and uses the gate through `Authorizes`, of which
`PromotionGate` is the detail. `Kernel` puts the compiler, the executor and the
operations of `Patch` together; `RuleLanguage` puts the text, the compiler's
checks, both evaluators, the SQL and `Arithmetic` together. `Evidence` uses the kernel through
a constant function, `Answer`, because execution is deterministic; `Spine` and
`Kernel` are the detail of that function.

Where the arms of a CASE overlap the first that holds is meant, as in the `switch`
or the early returns it stands for, and as TLC takes it; the definitions that are
proved about (`Decimals`, for instance) are written without such overlaps.

Definitions whose comment begins "A variant" are not part of the system: each
is a plausible mistake in one definition, used to confirm that the properties
notice it.

### Queue and workers

A worker's `pc` is its place in `worker.attempt`: `idle` (polling), `retiring`
(between `Claim`'s two statements), `claimed` (before the plan is read),
`running` (in the spine), `completing`, `failing`, `refused` (between a refused
outcome and its classification) and `stopped`. `held` is the
`ExecutionAttempt` it processes. Each action is one call to the store with
everything the worker does on its return; a method that issues two statements
is two actions, since anything may happen between them.

Abstractions: `now()` and `lease_expires_at` are the set of rows whose lease is
live, and a lease lapses at any moment (under a working worker this is charged
to the fault budget). `enqueued_at` order is the order of the inserts. The row
codec and content hash are `Trusts`: which rows a build can read. `ReadsPlan`
are the executions whose stored plan a build can read and rebuild: for any other
`GetPlan` answers the same integrity error every time, and as the worker abandons
an attempt at whatever error `GetPlan` gives, such an execution is claimed,
abandoned and claimed again after each lease, without end. (A read that fails
because the database is out of reach is a fault.) The spine's
answer is a constant per execution because execution is deterministic.
`failure_reason` is omitted; nothing branches on it. There is one tenant: every
statement is qualified by the tenant and no step crosses two of them, except
that a claim takes the oldest row of all tenants, which the order models.

Submission models `CreateExecution`'s enqueue; reattempt is two steps, the
handler's read and the store's write, for several concurrent callers.

### Memory queue

Every method is one step under the store's mutex. Callers hold any attempt
number up to the current one, zero included, so late and invented reports are
covered. The cursor is the code's: `Claim` advances it past decided entries,
`Reattempt` moves it back.

### Publication

A publisher is at `gate`, `pointer`, `write` or `explain`; an operator at `put`
or `explain`; a reader between its two reads. Requests carry any candidate and
any expected version, so retries and stale beliefs are requests among others.
On the memory adapter an append is one locked step; on Postgres it is the
`INSERT ... SELECT` and, when nothing was inserted, the statement that explains
it. A unique violation and an empty selection both insert nothing. The insert
may commit with its answer lost, and any caller may go away at any point. One
target and one tenant are modelled; targets share no rows.

`Sound` are the candidates that pass the clauses which do not depend on the
policy. Over HTTP, `Rehydrated.Publishable` sets neither the comparison nor the
executor of a candidate, so the gate authorizes nothing there; sound candidates
are those of direct callers of `app.Publish`.

### Promotion gate

An artifact stands for its own identity, since identities are digests: a
checkpoint is its plan, world, initial state and invariant witness; an
assessment names the checkpoint it was taken against; an execution identity is
the run and executor it was derived from; a corpus is the sequence of its case
digests. A candidate starts coherent, for every corpus and every vector of
verdicts; up to `MaxDefects` of its parts are then substituted or removed, and
the gate is asked. Clauses answer `pass`, `fail` or `absent`, with the code's
order of early returns.

### Patches

A state maps each reference to its entity or to `Gone` and has a set of
relations. An entity maps each field to a value or to `Absent`; required fields
are present. There is one relation kind, and `Relation` is the set of pairs its
declaration admits. What `NewPatch` validates before an operation enters a
patch is the type `Operation`; what `NewState` validates beyond types is
`Closed`. The patch is chosen operation by operation as the loop reaches it, in
any order by rank; within a rank the code sorts payload bytes, and the model
allows every order. A receipt is always the one of the application before it:
`UndoPatch`'s refusal of other receipts and of other states is not modelled,
and neither are states of another schema.

### Spine

`pc` is the place in `runWithOperations` and `sealAndAssess`; a place that ends
in `_check` is the context check before an operation. The kernel answers each
operation with a value, a typed failure or an error with any cause, so the
model covers every kernel; an outcome that is none of these
(`errOutcomeContradiction`) is an error of internal cause. `open` is the stack
of phases the observer saw begin, `verdict` how it saw the spine end. The
frontier is what `frontierResult` snapshots: `accepted` is the length of the
journal and stands for the state it leads to; retained profiles and the journal
digest are functions of it. `late` and `disowned` are histories. Operation
counts and observation codes are left out, and a panicking observer changes
nothing, as the dispatcher recovers it.

### Rule language

`RuleLanguage` has no process: its actions build subjects (an expression node by
node, a pair of decimal texts, a day, instants, the tree of a text, a file) and
its properties say what must hold of each. The width of integers, the base and
digit cap of decimals, the nanoseconds of a second, the depth and size limits of
expressions are constants, so that their limits are reached. Machine integers
wrap where the code's do. A string is a sequence of numbers and a name a model
string with a number for its bytes.

The two evaluators are two definitions because the code has two. The schema is
the function `Declared`; required fields do not matter to expressions.

A token is what the lexer makes of a word; the lexer's own loop, positions and
messages are left out. A parser answers the tree and the place it reached, or
`Nowhere`: the code goes on after an error to collect more messages and then
refuses the file. `Format` gives tokens, so blanks and line ends are gone.

The SQL of an expression is a tree with SQL's operators; `SqlEval` is
PostgreSQL's half and is external. Where the database refuses, or follows rules
the kernel does not share, its answer is `Apart` and nothing is claimed:
numeric quotients and their scale, the collation of texts, quoted literals whose
type cannot be resolved, timestamps under `+` and `-`, intervals, a negative
fractional `timestamp_diff` (FLOOR against truncation), Sunday (0 against 7), a
second rounded by `::BIGINT`, overflow and division by zero. `coalesce` is
exempt over operands that hide a NULL (`CoalescesNull`).

### Kernel

A digest is what was hashed: the tuple of the tag and the members the encoder
writes, with expressions as the numbers of their bytes. Sorted lists without
duplicates are sets. Artifacts are private in the code, so the checks that an
artifact carries its own digest are true and left out; the checks that two
artifacts belong together are there. A rule's obligations, their order, the
failure code and the report are those of `execute_*.go`; failure fingerprints
and wording are left out.

`Kernel`'s caller keeps every state and journal it was ever given and calls
`ExecuteTransition`, `Seal` and `Assess` with any of them, for two runs of one
plan. Rules are called before checkpoints and checkpoints before assessments:
no call is handed what a later one returns, so every combination of what is
held, sealed and answered is still reached.

### Evidence

A row of each store is what the adapter writes, and reading it is what the
adapter does to read it: a plan row is compiled again and compared with the
digest of its input, a corpus row is decoded (`Codable`) and its identity
recomputed, a comparison row is rehydrated from its components. Each call of a
store is a step: a corpus run is one step per enqueue and per read, an assembly
one step per row read and one per re-execution, and everything else may happen
between them. Any call may be abandoned at any step. An edit replaces the
declarations of a plan, the case of a corpus, the components of a comparison, or
a whole execution row by a consistent one of another input.

The queue here is only the status and the result of a row; leases and
generations are `WorkerPool`'s subject.

## 3. Runs

Passing runs:

| run | bounds | shows |
|---|---|---|
| `WorkerPool` | 2 executions, 2 workers, 2 callers, 1 fault, 2 reattempts | generations keep stale workers out, a refusal means superseded, answers stay, and the pool implements `ExecutionContract` |
| `PoisonedRow` | as above with 1 caller, 2 faults, 1 reattempt, one row that one build cannot decode and one plan no build can read | every submission whose plan can be read is eventually decided, though the other comes back ahead of it for ever |
| `MemoryExecutions` | 3 executions, 1 lapse, 1 reattempt | the cursor hides only decided entries, the queue implements the contract, pending entries are served |
| `Publication` | both adapters, 2 publishers, 1 operator, 1 reader, 3 candidates of which one unsound, 2 versions, 2 policies | sequential histories, authorized and unrepeated publications, backed replies, refinement of `PublicationLedger` |
| `PromotionGate` | corpora of 1 or 2 cases, 2 defects | an authorization is one story; absence is not adverse |
| `PatchMachine` | 2 references, 2 relations (one to itself), 2 fields (one required), 1 value, 5 operations | outcomes never dangle; every accepted patch undoes to its predecessor |
| `Spine` | 3 transformations, 3 checkpoints of which 2 at one boundary, 2 profiles | wherever the run stops the frontier is closed and complete up to there, the observer saw the outcome, and at most one operation ends after the context is done |
| `RuleLanguage` | 3-bit integers, ternary decimals of 4 digits, every kind of node over 39 leaves and 11 operands with a second node from 9 kinds around it, the turns and leap days of 17 years, texts of up to two operators (the second around a first that has one of 3 operands), files with every operator | accepted expressions answer in their type; the evaluators and the SQL agree; bytes determine an expression; selections partition; integers, decimals, calendar and instants are exact; text survives the parser and the formatter; derived accesses are the compiler's |
| `Kernel` | 47 requests of up to 3 rules with all seven operators, 2 initial states, 2 runs | plans are what they do (any order the dependencies of assignment rules allow ends in the same state, authoring order is forgotten, an identity is a behaviour); what is accepted and sealed is the plan's however artifacts are mixed; honest calls are answered, reports and implications are true; structure is kept (synthetic entities are new, relations follow their sources, differences are whole) |
| `Evidence` | 2 plans of 2 checkpoints, a corpus of 2 cases, 2 callers, 2 corpus runs, 1 assembly, 1 edit | plans keep their profiles, no case is created twice or reported complete without an answer, evidence is the whole corpus as the kernel derives it, missing cases are missing for a true reason, a publication is resolved to what was named |

Most properties of the last three runs are conjunctions of named parts, each with
its own comment beside it: for instance `ArithmeticIsExact` of
`RuleLanguage` is `IntegersAreExact`, `DecimalsAreExact`, `CalendarIsCivil` and
`InstantsAreExact`, and `PROJECT.json` has a mutant for each of them. (That the
evaluators use this arithmetic is `IntegersAreComputed`, a part of
`AcceptedExpressionsAnswer`.) Those of
`Kernel`, and `TextKeepsItsMeaning`, are action properties: they judge what a step
adds (a plan, a history, a checkpoint, a report, a tree) when it appears. The type
invariants of the pool, of publications and of patches are theorems and not
checked again.

Why the bounds are enough to be interesting: two workers and one fault reach
every two-generation race (lapse, take-over, late report), a second execution
puts work behind the head of the queue, and two reattempts let an execution
fail, return and race another caller. An execution with an unreadable plan is
claimed any number of times, and each claim is a new generation. `MaxAttempts`
caps them: a lease does not lapse at the last one. In `WorkerPool` and
`RollingDeploy` it is beyond reach; `PoisonedRow` uses the specification
`RenumberedSpec` of `MCWorkerPool`, which starts the numbers of an execution over
when no worker holds one of them. Generations are only compared with those held,
so this changes nothing a worker can see, and the run covers the endless return
of the execution with finitely many states. Two publication versions let two
publishers meet at a version and one of them move on before the other asks what
happened; two policy versions let the policy move between a gate and its
append. Publishers are interchangeable, and so are the two sound candidates
with their profiles, so the run uses that symmetry. Two defects let two clauses
be wrong about each other's part. Five operations let one patch use every kind
of operation, insert, change and delete one entity included. Of the spine's
three boundaries one has no checkpoint and one has two, declared out of order.
What the bounds cut off, the theorems below cover.

`Kernel` has no theorems, and `RuleLanguage` only those about arithmetic, so their
bounds matter more. In
`RuleLanguage` two nodes let every kind of node be the operand of one that
short-circuits, chooses, quantifies, compares or multiplies, and
`MaxExprDepth = 2` admits all of them (the root is at depth 0): some 4000
expressions of two nodes are accepted of an entity, half of them with an operand
that is refused for some member, and some 900 of a group. The second node is put
around an expression some scope accepts and whose integers have the width of the
instance: a year has not. The small widths put overflow and the digit cap within
reach. The depth limit itself is compared once for each node
(`CheckExprInScope`); with these subjects it refuses nothing. In `Kernel` the
requests pair every two of four assignment rules without a dependency and with
one in either direction; every structural operator runs alone, and a relation
after an insert, a merge after a relation and a split after an assignment; two
runs let the artifacts of one be handed to the other. `Evidence` is
bounded by action constraints besides its constants. `SetupFirst` stores
everything before it is used (a store's rows are only added to, so a later
insert meets nothing new). `OneConcern` lets a behaviour be about corpus runs or
about an assembly and edits, and submits under the other profile only the
executions of the plan that has it; both concerns meet in the executions alone,
and these move in every way during either. `FirstIsEdited` edits the first case,
`OneMoves` lets one execution run and one be given up at a time, and `Forward`
stops what the assembly has already read from moving, since it is not read
again. Callers are interchangeable, hence the symmetry. The theorems about
`Evidence` are about its specification without these constraints.

Runs that show a disagreement between the code and what it says of itself:

| run | what happens |
|---|---|
| `RollingDeploy` | with two builds of which one cannot read a row, the older build's `retire`, delayed past its lease, sets an answered row to failed and its result to NULL; its UPDATE names neither status nor generation |
| `PlanProfiles` | a plan's identity does not commit to its profiles: the same rules with another profile are refused as an integrity failure by the Postgres store for as long as the first row exists, where the port promises an error only for an incomplete record or a cancelled context. (The memory adapter keeps the first plan and answers as if it had stored the second.) |

The metric clause is not stated to stand alone: it compares the numbers of cases
and looks candidate cases up in the baseline, so a candidate side with one case
twice passes it though a ready baseline case is missing. The comparison clause
refuses such a side, and `AuthorizationIsOneStory` is about the clauses
together.

### Differences met while modelling

Each of these was seen in the code, is in the model as the code has it, and is
not stated as a property of its own.

Queue and publication. An execution whose plan row has another storage format
or no longer rebuilds never settles: `GetPlan` refuses it deterministically
(`postgres/store.go:181`) and the worker leaves it claimable because "repetition
can plausibly succeed" (`worker/worker.go:189`). `ERRORS.md:85` says that only
cancellation and an unavailable dependency leave an execution claimable and the
rest is terminal; the closed-rule-language plan records the state as "a
deliberate non-fix" (`docs/superpowers/plans/2026-08-19-closed-rule-language.md:385`).
`EverySubmissionSettles` exempts such executions (`PlanUnreadable`) and nothing
behind them. A worker told to stop leaves its lease until it lapses
(`cmd/maiden-lane/main.go:343` says otherwise). The memory adapter answers a
superseded attempt `ErrNotQueued` once the execution is decided, where the port
says `ErrAttemptSuperseded` (`memory/store.go:287`). `GetPublication` reads the
current version first, so that a publish in between makes the newest version
read as superseded (`httpapi/publications.go:207`), and an insert that lost to
an identical one is answered as recorded after the target has moved on.

Kernel. `mulInt64` accepts the smallest integer times -1 and wraps
(`evaluate_expr.go:631`; `selector_test.go:458` says overflow is refused);
`IntegersAreExact` and `IntegersAreComputed` exempt it. A decimal result beyond the digit cap loses its
error and becomes a value of no kind (`evaluate_expr.go:324`). A relation guard
with `date_extract` is refused, because the unit is mapped as a field path.
Assignment values of an ungrouped insert and of a split are not checked to bind
the kind, so a rule may compile and be refused at every execution. A rule that
builds an entity without a required field compiles and ends in an error that no
report names (`Incomplete`). A relation rule whose from-selection fails its
cardinality reports that the to-selection was evaluable before it evaluated it
(exempt in `ReportsAreTrue`). Assignments of insert, merge and split are
compiled as authored, so their order changes the plan's identity (the design
document says shuffled authoring order does not). Two states that differ in
schema or lineage alone are not identical and have an empty difference.

Evidence. The Postgres codec decodes strings, atoms and integers: `Enqueue`
reads back what it wrote and refuses, `PutCorpus` does not, so a corpus with
another value is created and can never be read. `MissingUnattempted` is
commented as never acquiring a result, but `Reattempt` requeues it.

Rule files. `5d` is printed as `5` and read back as an integer; `-(-(2))` is
printed as the sign over -2; atoms that are not identifiers and control
characters do not survive printing (`ReadsBack` exempts these four).
`-(9223372036854775808)` is refused and its printed form accepted;
`-(-9223372036854775808)` and large durations wrap. Quoted rule ids, checkpoint
keys, profile keys and requirement codes never parse, because two expectations
are joined where either was meant. A selector without a kind in most operators
is dereferenced as nil. Clauses an operator does not know are skipped token by
token, so that a `guard` in a delete is lost, as is `having` on the selectors of
a relation rule. The default grouping of an ungrouped select makes "fill in what
is missing" rules refused at every execution. Unary minus over a decimal or
duration field is a subtraction the type check refuses.

SQL statements (not modelled). Where a guard fails the statement keeps the old
values while the kernel fails the run; cardinality bounds are not printed; a
delete with the default guard has an aggregate in its WHERE; merge and split do
not re-anchor relations and a delete leaves them; relate appends duplicates;
unrelate ignores the filters of its selectors.

Two comments in the code describe an earlier state of it and are not stated as
properties: "Nothing publishes in this build" (`internal/app/publish.go`,
`README.md`) with its list of unimplemented clauses, and the memory queue's
remark that terminal entries at the head can never become claimable again,
which `Reattempt` contradicts and handles.

### Fairness

`EverySubmissionSettles` and `PendingIsServed` need it, and assume no more than
the scheduling gives. `WorkerPool` assumes weak fairness of each worker's step
(the polling loop of `Run` never exits except on a done context, and a stopped
process is restarted by its supervisor) and of `LeaseLapses` (time passes), and
strong fairness of `ClaimOf(e)`, the claim of one execution: an execution that is
next in line again and again is claimed in the end. Without it the property fails
when an older execution has an unreadable plan, since in the model its lease may
lapse before every next claim. In the code it may not: the worker that abandons
an attempt polls again at once (an idle one within 250 ms), the lease it leaves
behind lasts two minutes, and until it lapses the younger one is the oldest
claimable. Callers, faults and lapses under a working worker owe nothing. Faults are
bounded by `MaxFaults`, so the property reads "once faults stop".
`MemoryExecutions` assumes weak fairness of `Claim`, for the same polling loop.

Deadlock is checked everywhere except in the runs of the gate, the patches, the
spine, the rule language, the kernel and the evidence, which end: a subject is
complete, or what the bounds allow has been done.

## 4. Theorems

All proofs are in the `*Proofs` modules and hold for every value of the
constants within the named assumptions.

**Worker pool** (`WorkerPoolProofs`, from `WorkerPoolAssumption`). The
invariants are built in layers, each added because the property above it is not
inductive alone:

* `TypeInv`: types, and a worker in an attempt holds an execution.
* `GenerationInv`: adds that a held generation was claimed, i.e. is between 1
  and the row's current one. Without it a claim could hand out a generation
  somebody already holds. Gives `AttemptsStayDistinct`, and
  `GenerationsAlwaysFollowLeases` follows step by step.
* `AnswerInv`: adds that only workers who cannot read a row retire it and that
  rows with answers are rows the build reads. Under `UniformTrust` (one build)
  this gives `AnswersStayFinal` and `AnsweredStaysStored`. Without
  `UniformTrust` it is false, which is what `RollingDeploy` shows.
* `OutcomeInv`: adds that the holder of the current generation finds its row
  running; gives `RefusedAlwaysSuperseded`.

`PoolImplementsContract` is the refinement, under `EveryRowTrusted`: every step
of the pool is a step of `ExecutionContract` or changes nothing it sees.

**Publication** (`PublicationProofs`, from `PublicationAssumption`), for any
number of publishers, operators and readers on either adapter. `PinsAuthority`
(what a publisher between gate and append has pinned is recorded and authorizes
its candidate) is what survives the policy moving on and gives
`PublicationsStayAuthorized`. `SawPredecessor` (a publisher about to write read
the record it would follow, and that record is not the same publication) gives
`NothingIsRepublished`. `HistoriesStaySequential`, `RepliesStayBacked` and the
refinement `TargetImplementsLedger` complete it.

**Gate** (`PromotionGateProofs`, from `GateAssumption`, which includes that
corpora are duplicate-free, as `NewCorpus` ensures). `AuthorizedMeansOneStory`
is about the decision alone: nine passes imply one checkpoint and one
comparison. `AuthorizationsAreOneStory` states it of the specification, for any
number of defects; its invariant is that a candidate keeps its shape and that a
decision is the gate's answer to the candidate it is stored beside.

**Patches** (`PatchProofs`, from `PatchAssumption`), for any schema and patches
of any length. `StepInverts`: in a closed state every legal operation has an
inverse that the state after it accepts and that leads back. `ClosedKept`: only
a deletion can leave a relation dangling. `DeletesLast`: in canonical order
nothing but deletions follows a deletion, and the undoing of a deletion asks
nothing of relations. The inductive invariant joins them: `Chain` (each
candidate is the previous one with its operation staged, and is closed if its
operation is no deletion), `ClosedSoFar` (the latest candidate is closed until
the first deletion) and `Standing` (the candidate
of an undo is the one the application had at that index). Hence
`PatchOutcomesClosed` and `PatchesUndo`; `PatchTypeOK` is the type invariant.

**Spine** (`SpineProofs`, from `SpineAssumption`), for every plan. `LateInv`
says that an operation under way was begun with nothing completed late. `FrontierInv` relates the
frontier to the position of the loops: everything of the boundaries and
checkpoints already passed is there and nothing of later ones, which gives
`FrontierStaysClosed` and `NothingIsLost`. `ObserverInv` relates the open phases
to the place in the run and gives `ObserverSeesTheOutcome`.

`OutcomeType`, the values the run establishes and returns, completes
`SpineTypeCorrect`.

**Memory queue** (`MemoryExecutionsProofs`), for any number of executions, lapses
and reattempts. `QueueInv` joins the types, `OrderIsOnce` (what is in the
order was enqueued, and has one place), `UndecidedHasNoResult` and the property
itself. The order is needed because `Reattempt` brings the cursor back to the
place of its execution: were an execution in the order twice, another place of it
could stay behind the cursor. This gives `CursorNeverSkipsWork`, and
`MemoryImplementsContract`: cursor and leases are invisible, and every step is a
step of `ExecutionContract` or changes nothing it sees. `WorkerPoolProofs` has the
same of the Postgres queue.

**Absence** (`PromotionGateProofs`). `AbsencesAreNotAdverse` needs to know where
incomplete evidence comes from, which the candidate does not show. `NothingForeign`
says it: while nothing was substituted there is a coherent candidate of which the
one at hand is what is left, part by part and case by case. Each clause is then
asked what it can say of such a rest.

**Evidence** (`EvidenceProofs`, from `EvidenceAssumption` and `AnswerAssumption`:
requests are made of known cases and plans, and a run succeeds or fails and seals
a prefix of its plan's checkpoints), for any plans, corpora, callers, corpus runs,
assemblies and edits. First the operators: `NewCorpus` sorts its cases and loses
none, identities determine what they identify, a verified row is the kernel's
answer under the profiles its plan was stored with, and what `CompareCase` takes
from it is the artifact of the very checkpoint or a true reason why there is none.
Then the invariant, in two parts:

* `StoresInv`. `PlansInv`: an accepted input stays in its row whatever becomes of
  the declarations beside it (`AcceptedProfilesAreKept`: what is read either
  compiles to that input or is refused). `ExecutionsInv` and `ComparisonsInv`:
  rows are filed under what they are about. `CallsInv`: what a run under way or
  reported says of its cases is still so, namely that its rows exist, that
  what it enqueued nobody else enqueued, and that what it found answered is
  answered until somebody edits. It gives
  `CasesAreCreatedOnce`, `CompleteRunsStayAnswered` and, with the operators'
  lemmas, `ResolvedIsNamedAlways`.
* `AssemblyInv`. What an assembly under way has collected so far is a prefix of
  what the kernel derives from its corpus, side by side, as long as it misses
  nothing, and each missing case has a reason that stays true when the stores move
  on. This is what the completed assembly does not show by itself, and gives
  `AssembledIsTheComparisonAlways`.

TLC checked `EvidenceInv` over the states of the `Evidence` run before it was
proved. That a missing case is missing for a true reason holds with edited rows
too: that a checkpoint was not sealed, or not assessed, is only taken from a row
the re-execution confirmed.

**Arithmetic** (`ArithmeticProofs`, from `IntAssumption`, `DecimalAssumption`,
`TemporalAssumption` and `ArithmeticAssumption`). `ArithmeticAlwaysExact` is
`ArithmeticIsExact`, which the run of `RuleLanguage` checks on 3-bit integers,
ternary decimals and chosen days, of machine integers of any width (`IntMax` is any
positive number, so 2^63 - 1 too), of decimals in any base of at least two with any
digit cap and division scale, of every day of the years 1 to 9999, and of every
instant with any number of units in a second, 10^9 included, which TLC cannot
compute with. The behaviours of `Arithmetic` only pick subjects: `OnlySubjects` says
that these are what the assumptions allow, and the rest is about the operators.

*Machine integers.* The code tests for overflow after the fact, with the wrapped
result. `AddInt64`, `SubInt64` and `AbsInt64` answer exactly when the result fits.
For the product the test divides the wrapped result by an operand; the proof shows
that a wrapped product that passes it differs from the product by a whole number of
words and yet by less than an operand, hence not at all. The smallest integer times
-1 is the one exception (above), and is exempt.

*Decimals.* Everything is said through `Number`, what digits stand for, and
`NumberAt`, what a decimal stands for as an integer at a scale large enough. The
lemmas follow the code's functions:

* `Linear`, `Joined` and `Updated`: `Number` is linear in its columns, shifts when
  digits are appended, and changes by one place when a column does. Digits of one
  length compare as their numbers do; trimming keeps the number.
* Each loop keeps an equation between numbers. The carries of `addDigits`, the
  borrows of `subDigits` and `mulSingleDigit` are one lemma about columns (a borrow is
  a carry of -1). For `mulDigits` the equation is that the columns stand for the products
  added so far, where no column holds more than a digit but the one the next product
  goes into, which holds a carry too (`Row`), so that only digits are left at the end.
  For `divDigits` it is that the part of the dividend brought down is the quotient so
  far times the divisor and a remainder smaller than the divisor, so that one digit
  is always enough.
* A number has one normal form. `normalize` reaches it and keeps the number, which
  turns equality of texts into equality of numbers.
* `Add`, `Sub`, `Mul`, `Div`, `Less` are then statements about numbers with signs, and
  `String` is read back by `parseDecimal` as the same decimal whenever it has no more
  digits than the cap.

*Calendar and instants.* `CalendarIsExact` is `IsCivil` for all 3652059 days of the
years 1 to 9999, which are those a text can name. Its core is that the code's
correction of a day by the leap days before it finds the year: a day has a place in
its 400-year era (century, four years, year, day), the two divisions that are one too
small or too large at the end of a century cancel there, and months counted from
March start where the truncated `(153*mp+2)/5` says. `DatesReadBack` and
`DaysReadBack` have the two directions for any year, negative ones included.
`InstantsAlwaysExact` is `IsExact` for every instant between the ends the code guards
and any duration: a floor is taken correctly from Go's truncating division, the
correction in `Diff` is truncation toward zero, and `AddDuration` is exact or refused.
Its hypothesis `InCalendar` says that the last second a timestamp holds is of a year
with four digits (it is of 2262 in the code, 106751 days after 1970).
`InstantsStayInRange` says that parsing and adding produce no other instants.

The loops over digits are recursive functions, and no installed prover can instantiate
the library's induction over an operator. `Induction` and `Upward` state it for a set
instead, from the well-foundedness of the naturals, and `Recursion` derives from it
that the functions the loops are written as exist; a property is then proved of the
set of positions at which it holds.

Only model-checked: the liveness properties (`EverySubmissionSettles`,
`PendingIsServed`), the other properties of `RuleLanguage`
(`AcceptedExpressionsAnswer`, `LanguageIsOne`, `StoredFormsReadBack`,
`SelectionIsAPartition`, `TextKeepsItsMeaning`) and those of `Kernel`. Liveness is
beyond the prover. The others speak of expressions, texts and executions, whose
definitions are recursive operators over trees, and the prover loses its arithmetic
in a module that reaches one.

## 5. Plan

The models are complete as far as this project takes them, and every safety
property that reaches no recursive operator is proved. What is left to prove about
needs definitions in another form first, as it was done for the digits: the checks of
the compiler and the evaluators would have to be recursive functions over the nodes of
an expression with a bounded depth, to which the induction over a set applies.

## 6. Not modelled

* The statements of the SQL transpiler and the dbt generator: their meaning is
  the database's, and they are text assembled around the expressions that are
  modelled. Where they differ from the kernel is listed above.
* The lexer's loop over characters, positions and error messages of the DSL, and
  its recovery after an error, which only adds messages to a refusal.
* Byte framing, hashing and hexadecimal digests: identities are the tuples that
  are hashed. JSON forms of rows and requests, except for which values the row
  codec can decode.
* Schema migrations and their version check, which happen before the process
  serves anything.
* Observability: it changes no state of the operations around it (that a
  panicking observer changes nothing is part of `Spine`).
* Routing, tenants and request validation. Every statement is qualified by its
  tenant.
* Generated types and client, the command line and the demonstration page.
* Storage contract tests, which are tests; the properties the port states are
  `ExecutionContract`.
