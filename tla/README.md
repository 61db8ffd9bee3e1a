# A verification development for `condition`

This directory holds TLA+ models of the decision platform of this repository, the
TLC runs that check them, and proofs that TLAPS checks. `PROJECT.json` lists every
run, its properties, the lines each definition stands for, the mutants that show
each property can fail, the hazards they are for, and the disagreements between
code and documents that came up on the way.

Run a check with `tlc -config X.cfg MCModule.tla`, a proof with `tlapm XProofs.tla`.

## The system

`condition` evaluates *decision packages*: named, versioned bundles of policies,
rule sets, workflows, rankings and optimizations. Its parts:

| part | source | state it keeps | operations that change it |
|---|---|---|---|
| orchestrator | `decision_platform.go` | `packages` (compiled, by name, version, environment), `latest` (key by name and environment), a `RWMutex` | `AddPackage` |
| pipeline | `decision_platform.go` | none between requests; the response while one is evaluated | `CompiledDecisionPackage.Evaluate` |
| memory store | `decision_server.go` | packages, latest, audits, envelopes, order, counters, chain head, a mutex | `SavePackage`, `SaveAuditEnvelope`, `SaveSimulation` |
| SQLite store | `sqlite_store.go` | three tables of a file, a mutex and one connection for each handle | the same, and `migrate` |
| server | `decision_server.go` | none of its own: an orchestrator and a store | publish, evaluate, simulate, tests; reads |
| live runtime | `live_runtime.go` | `files` (stat and digest by path), an orchestrator, the `pending` map of the watcher, two channels | `Watch`, `Reload`, `reloadFile` |
| rule engine | `engine.go`, `types.go`, `rank_native.go` | compiled rule sets by name, a `RWMutex`; the results of one call | `AddRuleSet`, `Evaluate` |
| bytecode | `bytecode.go` | the registry's tables; the program of a runtime, in an atomic pointer; the stack and buffers of one call | `CompileRuleSet`, `Runtime.Reload`, `Program.Evaluate` |
| ranker | `ranker.go`, `rank_native.go` | compiled rules and scores; the results a caller passes in again for their memory; a pool of fact views | `RankInto`, `SelectBestInto`, `SelectBestID`, `SelectWeightedID`, `SelectFallbacks` |
| functions of conditions | `aggregation.go`, `dsl_helpers.go`, `rank_native.go` | the accumulators of one walk over a collection | interpreted and natively compiled calls |
| validation, simulation, tests | `decision_validation.go`, `decision_platform.go` | none between requests; the results of one run | `ValidateDecisionPackage`, `Simulate`, `RunDecisionPackageTests` |
| languages and input | `bcl/`, `source.go`, `yamlx/` | none | parse, encode, load |
| authorization, production helpers | `authz_authorizer.go`, `production.go` | none | adapters, and one call after the other of the above |

How they interact: a handler of the server calls the orchestrator and then the
store, and holds no lock over the two. The live runtime adds packages to an
orchestrator that a server may share (`WithDecisionServerRuntime`), from the
goroutine of `Watch` and from every caller of `Reload` at once. The stores are
called from any number of requests; two processes may open one SQLite file.
An evaluation resolves a compiled package under a read lock and goes on without it.

What is hard here: requests that interleave between their calls; a context that
ends between two calls of one handler; a store that fails after it wrote; a
process that dies between the statements of a transaction; two handles that read
the same chain head; a file that changes while it is read; a channel with room for
16 events; time stamps compared as text; two maps that have to agree; effects that
are merged from many places; an order of rules on which an override must not depend;
workflows that lead in circles; two evaluators that are to say the same, one by
walking a tree and one by an index and a stack; results whose memory is used again
while somebody else may still read it; four selectors that are to name one winner; functions that
are compiled to walks of their own and interpreted by others; a score that is summed in one
place and explained in another; packages that are validated by one piece of code and
compiled by a second. The hazards of `PROJECT.json` name each at its line.

## The modules

* `AuditChain` - the envelope, its hashes and `VerifyAuditChain`. A hash is the
  tuple of what is hashed.
* `DecisionStore` - what a store promises: the content last saved under each key,
  the key saved last for each name and environment, the trail in order.
* `MemoryDecisionStore` - one action for each method, since each holds the mutex
  for its whole effect. `MemoryDecisionStoreProofs` proves its properties.
* `SQLiteDecisionStore` - `SaveAuditEnvelope` statement by statement (mutex,
  connection, `SELECT`, `INSERT`, `COMMIT`, the answer), `SavePackage` from its time
  stamp to its row, handles of several processes, cancellation between any two
  statements, crashes, reopening. SQLite itself is external: snapshot isolation with
  `SQLITE_BUSY` when a read is stale, as WAL mode gives for a deferred transaction.
  `SQLiteDecisionStoreProofs` proves its properties.
* `DecisionOrchestrator` - `AddPackage` and `resolve`, with every fallback.
  `DecisionOrchestratorProofs` proves its properties.
* `DecisionServer` - composes `DecisionOrchestrator` and `DecisionStore`, both by
  `INSTANCE`: each request is a small program with one step per call, its context
  may end between any two, the store may fail before or after its write, and the
  process may restart, with a store that survives (`Durable`) or does not.
  `DecisionServerProofs` proves its properties.
* `LiveDecisionRuntime` - the editor, the watcher, callers of `Reload` and the
  consumer of events over one file; composes `DecisionOrchestrator`.
  `LiveDecisionRuntimeProofs` proves that the last good package remains and that the
  events tell what was reloaded.
* `DecisionPipeline` - `Evaluate` of a compiled package that is chosen as it is
  evaluated, so its behaviours are those of every package.
  Its properties are proved in `PackageEvaluationProofs`, once for it and the packages.

* `FactValues` - the values of facts, literals and arguments: how they are compared, found
  along a path, and changed on their way through the interpreter.
* `RuleSets` - what both evaluators start from: rule sets, their modes and order, the
  conditions as trees over typed values, and what a tree says of facts.
* `RuleChoice` - the abstract specification of the evaluation of one list of rules: the
  foremost rule that matches is applied, then the next, until one ends the list.
* `RuleEngine` - `Engine.Evaluate`, one action for each turn of `evalRulesWithNext`
  and each step of `evalWorkflow`. The context may end before any condition, a handler
  may fail at any of its actions, in a group as well, and `AddRuleSet` may come at any
  moment; the evaluation keeps the rule set it found.
* `BytecodeProgram` - `CompileRuleSet` (instructions, specificity, index, numbers of
  actions) and a call of `Program.Evaluate`: the candidates, one action for each
  instruction on the stack, the result. `Runtime.Reload` may come at any moment.
* `RuleEvaluation` - composes the two by `INSTANCE`: one rule set in both, one question.
  `RuleEvaluationProofs` proves what the engine promises, and that the two evaluators agree.

* `CandidateEvaluation` - what a ranker finds out of one candidate: where its facts are
  looked for, its eligibility, score and explanation, natively and generically. It has
  no state.
* `CandidateSort` - `sortCandidateResults` for any comparison, one action for each turn
  of a scan, each exchange and each part.
* `Ranker` - a caller who asks all selectors about one request after the other and
  passes the same results in again. One action evaluates one candidate. Slices are
  arrays in a heap with a length, so that what shares memory shares it here too;
  `INSTANCE`s `CandidateSort` with `betterCandidate`. `RankerProofs` proves that every
  selector finds the same candidate, that rankings are right and that the sort stays inside.

* `Aggregation` - a call of an aggregate function, what the closure of its walk keeps and
  how each item changes it (`Visit`), and the answer in the end (`Result`).
  `NativeAggregation` has the same of what `rank_native.go` compiles, where a filter is a
  predicate and not a list.
* `DSLHelpers` - the helpers that are no walks, interpreted and native.
* `AggregateMeaning` - the reference: what a call means by the positions of the items it
  is about, with no walk, no accumulator and no algorithm that sorts.
* `FunctionCalls` - one call in both ways after each other, one action for each item that a
  walk visits; a Go map is walked in any order, anew for each way.

* `DecisionPackages` - packages as data: what `ValidateDecisionPackage` has against one,
  whether `CompileDecisionPackage` takes it, which parts serve a request, what its schemas
  ask. It has no state.
* `PackageEvaluation` - extends `DecisionPipeline`, whose choices a package now makes, by
  score, matched rules, actions, winner and explanation; `Simulate` runs cases through a
  candidate and a baseline, `RunDecisionPackageTests` the tests of a package. Every step of
  it is one of `DecisionPipeline`, leaves its variables alone, or sets them back for the
  next evaluation. `PackageEvaluationProofs` proves most of its properties.

A definition whose name ends in `_Something` beside one without (`Install` and
`Install_KeepsLatest`) is a slip: the same operation with a plausible bug, used to
show that a property notices it.

## The runs

| run | asks | bounds, and why they are enough |
|---|---|---|
| `MemoryDecisionStore` | chain, index, latest, refinement of `DecisionStore` | 3 envelopes: a first, a middle and a last link; 2 environments share a name slot |
| `SQLiteStore` | chain, answers, real time, who is refused, calls end | 2 handles and a crash, 2 envelopes: two readers of one head; one package save between them: all compete for mutexes, connections and the write lock |
| `SQLiteLatest` | the latest row; refinement of the late store | 2 handles, 3 saves, overlapping (`MaxSaving` = 2), 2 environments, a crash; two instants of one second whose texts are in the wrong order, and one of the next |
| `Orchestrator` | resolve | 2 names, with and without version and environment: every branch answers |
| `Server` | answers, freshness, agreement, the trail; every route works on what was asked for | 2 publishers, of a version and of none, around 1 client on any other route; 2 contents and a third that is rejected, 1 failure of the store, 1 restart, over a store that survives it or does not: an overlap needs two, and a stale read a third who looks |
| `LiveReload` | safety of reloads | the watcher and a caller of `Reload`, 2 writes at any moment, channel of 2 |
| `LiveConverges` | liveness | 3 writes outside reloads, channel of 1 |
| `Packages` | effects, scores and their explanation, schemas, diffs, validation, tests | packages of up to 3 policies, 3 rule sets, a workflow, 2 rankings and 2 optimizations for the decisions 1 and 2, and none; 3 spellings of an effect and 2 effects that tie; one package with any two of its fields at fault; schemas with each type and limit against facts of each kind, one level down too, and pairs of which one asks more; lists in every mode; workflows whose stages lead on, in a circle and nowhere; up to 2 cases against a baseline; up to 2 tests |
| `FunctionCalls` | answers are right; the two ways agree | lists of up to 3 items and maps of 2, so that the first, the last and one between differ; every function over all, over a group, with each form of predicate and around a filter, with and without strict mode; shares and bounds below, at and beyond the ends; every helper over arguments of 10 kinds |
| `RuleEvaluation` | choice of rules, overrides, termination, machine and tree, parity | lists of up to 2 of 12 rules and 3 of 5, in 5 modes; workflows of 2 stages over 6 lists, circles and missing stages among them; 6 facts; one rule set added or reloaded meanwhile |
| `Ranking` | one winner, order, memory, bounds of the sort | 6 rankers, 3 of them with a condition that is interpreted, 2 strict; two requests of up to 5 out of 11 candidates, one after the other into the same results; a slice of 3 is already partitioned (`Short`, 12 in the code), so that 5 candidates reach each branch of the quicksort |
| `SelectBestAliases` | finding | the same, one request |

The channel of events is 16 long in the code and 1 or 2 here: what matters is that
it can be full. No two package saves get one instant from the clock of the SQLite store
(`ClockAssumption`). A `StableInterval` spans any number of polls up to `Spans`.
`CHECK_DEADLOCK FALSE` is set where the actors of a run have a fixed number of calls
to make and then stop. Conditions go up to two connectives over each of the forms of
comparison; the rules were picked so that each mode is decided by different ones, some
equal in priority and told apart by salience, one with a group, one disabled, one out
of its window. Numbers are halves, so that 1.5 can be told from 1. The candidates of
`Ranking` were picked so that some pair is told apart by each tie-breaker in turn and one
by the identifier alone; one has a NaN for its priority and one for its cost, one keeps
its facts without the root, one has a fact in its metadata only.

Some of the properties deserve a remark.

* `RunsAreFresh` exempts queries that a package without a version answers: the code
  takes the exact key first, so such a package shadows every newer version.
* `StoreAgrees` says when the orchestrator and the store may differ: a save that
  failed, a restart, or two publishes of a key that overlapped.
* `AnswersAudited` needs a store that survives when the process restarts.
* `ImplementsLateStore` is what the SQLite store implements, for any clock and any overlaps:
  every save takes effect at once or not at all, and the latest package becomes the one saved
  or stays what it was, except that a latest package that is saved again may fall behind
  another. `DecisionStore` itself, where the latest is the one saved last, would need package
  saves that never overlap and stamps of one printed length; the code gives neither.
* `LatestFollowsSaves` has it that `GetPackage` without a version answers no package stamped
  before an acknowledged save of the slot. Two cases are let off: the stamp printed shorter
  within its second, whose text is above that of the later one (`PrintsShorter`), and a row
  that an overlapping save of the same key took, since of two such saves the last one
  written stays, whichever was stamped first.
* `OnlyOthersRefuse` is why a process that has the file to itself needs no retry: all its
  statements go through one connection.
* `AnswersAreTrue` has it that an error of `SaveAuditEnvelope` means no row, which the
  server relies on: a `COMMIT` whose outcome is unknown is not modelled.
* `ServesTheFile` assumes that somebody reads the events (`EventsAreRead`), that no
  `Reload` overlaps the watcher, and that no edit falls inside a reload
  (`EditsDuringReload`); see below for what becomes of it without the last.
* `OverridesHold` is about one list: what the result of a stage is merged into may
  change it (see below). Lists that a stopping rule may leave are exempt.
* `ListsFollowChoice` leaves the order of rules of equal rank open, as a reader of the
  documents would; the engine keeps their places.
* `MachineMatchesTree` and `Parity` hold where a condition is portable (`Portable`), its
  index is necessary (`IndexIsNecessary`) and the rule set uses nothing that only one
  of the two supports (`Supported`). What they exempt is what the two differ in.
* `SelectorsAgree` exempts NaNs, and requests that have facts of the names a candidate
  lacks when a condition has to be interpreted (`WaysAgree`): `Rank` then goes the
  generic way and `SelectBestID` does not. Both exemptions were found by TLC.
* `RankingIsRight` takes the order from `betterCandidate`; that this order is the one of
  the selectors of an ID is what `SelectorsAgree` adds. The results that are answered are
  compared with what `RankCandidate` says of the candidate they name.
* `Inside`, a part of `RankingIsRight`, says that no scan of the sort leaves its slice: with
  NaNs the comparison is no order, and an unguarded scan has to stop all the same.
* `AnswersAreRight` compares with `AggregateMeaning`, and leaves open what `sortBy` makes of
  values that cannot all be compared with each other.
* `WaysAgree` and `HelpersAgree` hold but for the calls of `KnownToDiffer` and
  `HelperKnownToDiffer`, each of which TLC found; they are among the differences below.
* `ValidatedCompiles` exempts what `ValidateDecisionPackage` leaves out (`Overlooked`), which
  is listed below as well.
* `ScoreExplained` counts the deltas of policies and of the rules that were applied: the
  rules of a workflow leave none, and a rule that did not match may have one. The rules of
  a package of the run are told apart by their identifiers, but for those of faulty ones.
* `QuietDiffIsSame` is about `Allowed`, which a diff does not compare: it compares decision
  and effect, and either may change without the other.
* `OthersDoNotMatter` simulates a package against itself without the parts that do not
  serve the request, in either order: whichever comes first, if it has an answer the other
  has the same, so that no part for another decision, and no schema, makes a request fail or
  succeed. It is about packages that pass validation - a broken part for another decision may
  well keep a package from being compiled - and whose optimizations have names of their own,
  which `ValidateDecisionPackage` does not ask for: of two with one name the last is compiled,
  for whatever decision it is.
* `StricterRefusesMore` compares two versions of a package of which the first has a schema
  that asks at least as much (`Stricter`: more required facts, types, enums, limits, or the
  same with narrower bounds, in its rules or its properties, one level down too). It says
  nothing of how a value is measured, and does not need to: a schema that loses a bound, or
  looks at the bounds of some kinds only, takes what a laxer one refused.
* `TestsTellTheTruth` takes an expectation whose key is unknown for one that holds, as the
  code does.
* Type invariants are no properties of the runs. Those of the stores, the orchestrator, the
  server and the pipeline are proved instead, as parts of their inductive invariants.
* `EventsTellReloads` says by positions which events tell what, `News` being the events of the
  channel and the one the watcher is about to send.

## Where the code differs from what a reader may expect

One difference is a finding with a run of its own, `SelectBestAliases`: `SelectBestInto`
keeps the best result so far by `*out = current`, so that both share the memory of their
reasons and actions, and evaluates the next candidate into the memory of `current`. A
loser that comes after the winner leaves its reasons and actions in the winner's result.

The models have the following ones too, as the code does, and the properties are stated
so that they allow them:

* `published_at` is text, printed by `RFC3339Nano` and ordered by `GetPackage` as text. A
  stamp whose fraction ends in a zero is printed shorter, and `".1Z"` is above `".12Z"`: a
  version that was saved after another within a second is not the latest then. It takes an
  earlier fraction that ends in a zero and whose digits the later one begins with, which is
  rare with a clock of nanoseconds, and less so with one of milliseconds. `SQLiteLatest`
  shows it when `LatestFollowsSaves` does not let `PrintsShorter` off.
* `reloadFile` stats the file after it has read it: an edit in between is recorded as what
  is active and never loaded. `LiveConverges` with `EditsDuringReload = TRUE` shows it.

* A query without version and environment is answered by the first match of a map
  iteration, so that with two environments the answer is not determined.
* A publish of a key that is there replaces a package although it is called immutable.
* A restart leaves the orchestrator empty while a durable store still lists packages.
* A watcher whose events nobody reads blocks, and loads nothing more.
* A `Reload` that overlaps the watcher may record the older of two contents last.
* What the watcher installs is read again after it was stable, and need not be it.
* A denied answer may carry the decision `allow`: a rule set or a workflow overwrites
  the decision although its effect loses.
* The workflows of a rule set are visited in the order of a map; the last decides.
* A later stage or workflow that allows overrides an earlier one that denied, and
  `mergeResults` lets a deny action of a stage win over the allow that the mode
  `AllowOverrides` let override it inside the stage, where `README.md:584` says that
  modes are honored for stages.
* A rule may both say `deny` and carry the action `allow`; the last word counts, also
  with `DenyOverrides`.
* The rules of a group run their handlers although the rule that has the group may not
  match, and what they did is dropped from the result.
* The bytecode indexes a rule by an equality below `||`, and does not find it when only
  the other side holds; drops the fraction of a float literal against an integer; finds
  a set's members only among those of the kind of the fact; takes `!=` of an absent
  fact for false; orders rules of equal rank by specificity and number instead of place;
  knows no groups, stops and stages; and numbers actions of unknown types from 1, where
  `allow` and `deny` are.
* A ranker takes a disabled rule for one that matches and ignores the window of a rule's
  validity. On the native way a disabled rule even adds its decision and its actions; on
  the generic way the rules of a group add theirs, also when the rule that has the group
  rejects the candidate.
* Metadata of a candidate is found by conditions that are interpreted only; a fact of the
  request that has the name a candidate lacks, by conditions evaluated on the generic
  way only.
* A candidate whose priority or specificity is NaN is not put into the bucket it opens:
  `SelectWeightedID` may name nobody although there are eligible candidates.
* Natively, `groupAvgWhere` counts an item before it looks whether the item has a value; an
  operator that nobody knows, and without strict mode one that cannot be applied to an item,
  is false, where the interpreter ends with an error; `none` walks on after a match, and may
  end with an error where the interpreter has an answer; `count` of a filter drops the
  errors of the filter; a field that is the empty text finds nothing; a zero that is neither
  `int` nor `float64` is true; a share of nothing need not be a number; the first of several
  best items of a map is that of the order of one iteration.
* A fact that is not there is an empty map for the interpreter and nil natively;
  `rangeMatch` natively takes numbers only; a text that is no time is natively outside of
  every `validNow`.
* `sortBy` compares what it can, and values of different kinds are in no order: its answer
  depends on where they were.
* `stableBucket` with a modulus between 0 and 1 divides by zero (`dsl_helpers.go:378`).
* `ValidateDecisionPackage` overlooks unknown modes of groups, stages without a name, unknown
  directions of scores, the own constraints and preferences of an optimization without a
  ranking, and values that cannot be encoded. `CompileDecisionPackage` rejects each.
* `RunDecisionPackageTests` returns `Passed: true` next to the error when the package does not
  compile, and takes an expectation it has no name for as met.
* `Evaluate` ignores the `Selection` of a ranking, passes the variables of a request to the
  explanation of rule sets but not to their rules, so that a rule that did not match may be
  explained with a delta, and gives no deltas for workflows, though they count.

## Fairness

The SQLite calls have weak fairness of each step a goroutine takes by itself. A context
need not end, no statement needs to fail, and nobody has to crash or reopen: a call ends
because the mutex, the connection and the write lock are given back, or because SQLite
answers `SQLITE_BUSY`, after its timeout if the statement waits. A call has each of the
waits once, and Go's mutex and pool serve waiters in turn, so that weak fairness is enough. The watcher has
weak fairness for its goroutine and strong fairness for the branch of its `select` that
sees the context done, which Go's random choice among ready branches justifies. That
the events are read is an assumption of the property that needs it, not of the runs:
`WatchStops` holds without it. An evaluation of the engine or of the machine has weak
fairness: it waits for nothing and runs in the goroutine of its caller. The server's
runs state no fairness, and no run assumes that anybody calls, edits or restarts.

## What is proved

For all values of the constants, from the assumptions the modules name. Each proof has an
inductive invariant, proved first (`IInv` by `Invariance`; `PackageInv` and `ScoreInv` of
packages; `RankerInv` and `SelectorsInv` of the ranker).

* **Memory store.** The invariant says that the order slice is `1..nextAudit`, that
  the envelope at `i` was made by `NewEnvelope` from the record at `i` and the hash at
  `i - 1`, that the head is the hash of the last, and that latest keys are stored and
  of their own slot. It gives `ChainVerifies`, `AuditIndexCoherent`, `LatestAgrees`
  and, action by action, the refinement of `DecisionStore`. `ChainVerifies` alone is
  not inductive: it says nothing of the head the next envelope is chained to.
* **SQLite store.** `ChainVerifies`, `AnswersAreTrue`, `ChainFollowsRealTime`, for any number
  of handles, calls and crashes. The rows are a chain (`ChainBuilt`); a transaction whose
  snapshot is still current has built the envelope that comes next, and one that has
  inserted holds the write lock with a current snapshot (`TxCurrent`); what was answered is
  in the file (`AnswersKept`), and a call that has read the last row is ahead of all that
  was answered when it began (`OrderKept`). The mutex and the single connection of a handle
  occur nowhere in the proof: what keeps the chain is that SQLite refuses to write from
  a stale snapshot. They do in `OnlyOthersRefuse`: who holds the write lock has the connection
  of its handle, and a stale snapshot is due to a commit of another handle, whose call had not
  ended when this one began. `LatestFollowsSaves` holds for every clock and any number of
  overlapping saves: a row is not older than the acknowledged saves of its key, but for those
  that overlapped the one that wrote it, and of two texts in the wrong order the one above
  belongs to a stamp of the same second that is printed shorter (`OnlyShorterMisleads`).
  The refinement is that of the late store, `ImplementsLateStore`, with no
  assumption on the clock or on overlaps; what it needs is that the row a save adds or
  replaces is the only one that changes, so that the latest of the others stays what it was.
* **Orchestrator.** `LatestCoherent` (a latest key is compiled and of its own slot)
  makes `ResolvesAsAsked` inductive; `EnvironmentsIsolated`
  follows from it for each step.
* **Server.** `AnswersAudited`, `AuditsAreOfRuns`, `RunsAsAsked`, `RunsAreFresh` and
  `StoreAgrees`, for any number of publishers and clients, failures and restarts. The
  invariant has what a publish has done by the step it is at (`PublisherFlow`), what a client
  carries by then (`ClientFlow`), that the two maps are coherent and hold what was installed
  last (`MapsCoherent`, `LoadedIsLast`), that only evaluations are audited, once each
  (`TrailOfRuns`), that the audit is there from the moment it was saved
  (`AuditedInTrail`), and, for `StoreAgrees`, that a publish that overlaps no other of its key
  finds what it installed still loaded, and what it saved still stored (`PublishAgrees`).
* **Live runtime.** What a reloader carries between the load and the install was
  accepted (`CarriesAccepted`), and every latest pointer leads to an accepted package:
  hence `LastGoodRemains`, for any number of reloaders and any edits. `EventsTellReloads` is
  its own induction: each send, each reception and each outcome of the watcher moves the
  places at which the consumer is told of what it is owed. A watcher that has ended may have
  dropped the last event, which the property exempts.
* **Rule engine.** `ListsFollowChoice`, that the engine implements `RuleChoice`, and
  `OverridesHold`, for any rule sets and facts, with rule sets that are added meanwhile. Each
  rule that matches is left or was applied, and the last one applied is why a list is closed
  (`RulesAccountedFor`, `EndedByLast`). That there is a foremost rule at all - the engine's
  `Turn` is a `CHOOSE` - follows from the order being total on a list and strict
  subsets of a finite set being well-founded. Assumed: lists are sequences, priorities,
  saliences and identifiers are integers (`RuleSetsAssumption`).
* **Bytecode.** `MachineMatchesTree`, for conditions of any form and depth. What the recursive
  functions `Native`, `Portable`, `compileBytecodeExpr` and `countSpecificity` compute is
  proved from their definitions, which look at smaller conditions only (`LooksDown`,
  `DefinesOne`): of the conditions at which something is wrong one would be the smallest.
  `Size` is the measure, and that parts are smaller is assumed (`SizeAssumption`), as are the
  forms of conditions (`ConditionsAssumption`) and of facts (`FactsAssumption`). One
  instruction pushes what an operand says (`OperandsAgree`); code leads from one stack to
  another whatever lies below (`Leads`), and pieces in a row lead on (`LeadsOn`), so the code of
  a condition leads to its value (`CodeAlwaysAgrees`). The invariant `MachineInv` has it that
  the stack is on that way at every instruction, that programs are what rule sets are
  compiled to (`ProgramsCompiled`) and that the rule whose turn it is is a candidate.
* **Parity.** For any rule sets, facts, options and replacements. Of the engine: what was
  applied matches and is in order, nothing that was left precedes it, only its last rule may
  end the list, and the result is theirs, one after the other (`Told`, `AppliedInOrder`,
  `ClosedByLast`). Of the runtime, at every instruction: it has applied the first n of those
  rules and reports the engine's result after n, the others are still before it, and the rule
  that is executed is preceded by no candidate (`Follows`, `CurrentIsForemost`). At first n is
  0, as the index misses no rule that matches (`AlwaysFoundByKey`, by induction over
  conditions, as `MachineMatchesTree`); the stack tells which rules match (`StackTellsMatch`);
  without ties the next of them is the engine's next (`CurrentIsNext`), whose words were
  compiled faithfully (`WordsCompile`) and end both lists (`EndsAlike`).
* **Ranker.** `RankingIsRight` and `SelectorsAgree`, for any rule sets, requests, limits and
  sizes of slices, whatever the results that are passed in again hold. Assumed is what the
  parameters are (`RankersAssumption`, `RequestsAssumption`). Every step keeps `RankerInv`:
  no two results share memory (`FilledRight`), what was filled is what its candidate was found
  to be, and while the sort runs (`SortGood`) the items are a permutation of what was filled,
  parts that wait are apart, and two items are in order unless they are in one part that is
  still open. The scans of a partition have no bound in the code: something that stops each
  of them lies inside, the median at first and then what was exchanged, hence `Inside`, also for
  a comparison that is no order. It is none where a priority, a specificity or a cost is NaN;
  then all that is left of `betterCandidate` that is an order is that eligible precedes
  not eligible (`Ahead`), and this is what `RankingIsRight` asks of such a request.
  `SelectorsInv` adds what the selectors have told: without NaNs, one that has answered names
  the best of all by what it finds itself (the weighted one, some candidate of the top rank), or
  failed as some candidate does (`AllTold`); one at work has that of those taken (`SoFar`). Among eligible candidates with identifiers of
  their own `betterCandidate` is total (`OneLeads`), `betterSelection` is the same there, and
  what is compiled natively finds what is interpreted (`WaysAlike`), so that all name one
  candidate. Folds are turned into functions of positions (`FoldPrefix`), and an induction is
  that a counterexample would have a smallest position (`LeastOne`).
* **Pipeline.** Until `Finish`, the merged history is covered by the two effects that
  are carried, and `allowed` is what the policies' effect says: hence
  `StrongestEffectWins` and `AllowedMeansAllow` for any number of effects.
* **Packages.** The same two of whole packages, with nothing assumed of what a part of a
  package says: `effectRank` has a rank for every value. Since every response that is kept
  says of `Allowed` what its effect says (`RepliesSay`), `QuietDiffIsSame` follows. The
  tally is that of the tests so far (`Tallied`), hence `TestsTellTheTruth`; only what was
  admitted is evaluated (`Admitted`), which leaves two statements about data:
  `ValidatedCompiles`, clause by clause, and `StricterRefusesMore`. For the latter each form of
  rule is compared with its stricter one (`WithinLooser`, `RuleAlsoHolds`, `PartsAlsoHold`),
  then the schemas as wholes (`StricterPasses`), with what is required, typed and enumerated;
  which schema is asked is the same choice in both versions (`SchemaSound`).
  `ScoreExplained` is proved where scores are numbers and no two of the rules that are asked
  for have one identifier (`Traceable`). `CompileDecisionPackage` does not ask for that, and
  `ValidateDecisionPackage` looks for it within one list only. Without it the property may
  fail: if a rule set has a rule that did not match but is explained, and a rule with its
  identifier matches in another, the delta of the first counts. All but a few of the answers
  in the run, those to packages made faulty, are to packages of which `Traceable` holds.
  After every part of `Evaluate` the score is what the deltas so far, the winners so far
  and, once it ran, the workflow come to (`Explained`, `ScoreInv`), and deltas are about
  policies and the rule sets that were evaluated (`Before`), so that what comes later does
  not make them count. The folds of the model, `FoldLeft` and `FlattenSeq`, are turned into
  functions of positions (`SumRuns`, `RulesRun`, `FlattenRuns`). That the parts that are asked
  for are sequences is part of `Traceable`, as `SelectSeq` chooses them.
  `JobsAssumption` says that lists are
  sequences, that modes, directions and limits are the known ones or `"odd"`, and that limits
  and what is measured of facts are whole numbers.
  A workflow is a walk over its stages (`WalksExist`), and its result counts what
  `mergeResults` has added up (`WorkflowCounted`).

Only model-checked:

* All liveness (`CallsEnd`, `ServesTheFile`, `WatchStops`, `EvaluationsEnd`): fairness and
  `ENABLED` are out of the prover's reach.
* `OthersDoNotMatter`: it compares two evaluations of every part of a package, of which the
  second has its parts from `SelectSeq`, and of that the prover knows nothing.
* `AnswersAreRight`, `WaysAgree`, `HelpersAgree`: accumulators, sorts and walks in any order
  against a reference of another form, value by value. TLC compares them for every call the
  run has.

## What is not modelled, and the plan

Of the modelled parts: paths and variables in the conditions of an engine, its strict mode,
scores, events and traces (a package's rule sets have scores and variables); `exists`,
`between`, time values, scores and the adapters of facts of the bytecode; `SaveSimulation` of
the SQLite store; several files in one live runtime; a server that shares its orchestrator
with a live runtime; routes that only read.

Of the functions: `lower`, `upper`, `trim`, `split`, `join`, `hasPrefix`, `hasSuffix`, `get` and
the parsing of dates, which are about the characters of a text; `now` and `age`, which read a
clock; texts and structs as collections. Of packages: events, evidence, hints, traces,
fingerprints and digests, `ComparePackages`, the definitions of actions and the warnings of
the validation, the assignments and time limits of a stage, the wording of anything. A
package has one workflow at most, and schemas nest once.

Of the ranker: variables, facts that are no maps and paths of more than two parts (natively
these are looked for as the interpreter does), cancellation, traces, events, groups within
groups, what `NewRanker` rejects, weights that are NaN, and candidates with one
identifier. The key of a weighted choice is any point below the sum of the weights. The
functions that rank a candidate into a new result and into one that is used again, and their
loops over rules and scores, are copies of each other in the code and one operator here
(`RankCandidate`, `RankRule`, `RankScore`): they do the same now, and a later change of one
copy alone would not show.

The plan began with the stores, the orchestrator, the server, the live runtime and the
pipeline, then the two evaluators, the ranker, the functions of conditions and whole
packages. Next, in this order:

1. A live runtime of several files, composed with a server, and the routes that read.
2. Paths and variables in the conditions of an engine, and its strict mode.

Not planned, and why:

* The languages (`bcl/` lexer, parser and encoder, YAML): pure functions over characters,
  with no state to interleave. A model of them would be their transliteration.
* `source.go`: a file, an HTTP response or a row is read once and decoded; there is no state
  between two calls, no retry and no cache.
* `authz_authorizer.go`: an adapter to an external library, which the server's model has as a
  refusal. `production.go`: checks of a configuration, and validation, digest, compilation and
  tests called one after the other, which `PackageEvaluation` has.
