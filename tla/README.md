# A TLA+ model of edg

edg (`src/`) is a command line tool that creates a schema, seeds it, runs a
weighted workload of queries and transactions against a database with many
goroutines, collects statistics, checks expectations and tears everything down.
It also generates configurations from a schema, stages data in files, and writes
to and compares two databases. The modules here model the parts of it that decide
whether these commands are right. TLC checks them on small instances; TLAPS proves
the safety of the central ones for every value of their constants.

## 1. Inventory

| component | state it keeps | operations | hard behaviour | what makes it correct | here |
|---|---|---|---|---|---|
| global sequences, `pkg/seq/manager.go` | one atomic counter per named sequence | `Next`, `Rand`, `Zipf`, `Norm`, `Exp`, `Lognorm`, `NewManager` | every worker uses it without a lock; load and draw are two steps; two managers in `edg all` | unique values, no holes, picks are values generated before | `SeqManager` |
| run worker, `pkg/env/env_worker.go`, `env_query.go` | loop position, current item, try, locals, open transaction | `RunIteration`, `runTransaction`, `tryTransaction`, `runTransactionQueries`, `runSection`, waits | failures and cancellation at any call, retries, commits that fail after taking effect, `fail()` | all or nothing, each transaction reported once, nothing left open, the worker stops | `Worker`, `TxContract` |
| run pipeline, `cmd/edg/run.go`, `stats.go` | contexts, wait groups, results channel, warmup flag, statistics | `runStage`, `runStages`, `startWorkers`, `startBackgroundWorkers`, `RunWorker`, `printResults` | blocking sends, close after the last sender, timers against Ctrl+C, stages one after the other | no result lost, no send on a closed channel, returns, background workers span stages | `Pipeline`, `Run`, `RunContract` |
| commands, `cmd/edg/workload/workload.go` | context, database handle, error | `up`, `seed`, `run`, `deseed`, `down`, `all` | deferred teardown after errors, timer and interruption | phases build on one another, `all` leaves the database clean, failures are reported | `Lifecycle` |
| expression environment, `pkg/env/env.go`, `env_init.go`, `ref.go`, `env_lifecycle.go` | datasets, caches of `ref_same`, `ref_perm`, index of `ref_diff`, `uniq` sets, locals | `NewEnv`, `InitFrom`, `SetEnv`, `ref_*`, `uniq`, resets, `evalLocals` | in-place swaps, caches with different lifetimes, one request shared by all workers | rows distinct within a query, remembered rows current, workers isolated | `RefData` |
| arguments, statements and adapters, `env_args.go`, `env_query.go`, `pkg/db` | argument sets, captured rows, statement cache, datasets, the adapter's batch or transaction | `GenerateArgs`, `generateBatchArgs`, inlining, `ExpandBatchQuery`, `QueryContext`, `ExecContext`, commits | count and size arithmetic, a batch inside one text, adapters without transactions | every row written once, transactions all or nothing, datasets are what was written | `Batch`, `Statement` |
| config, `pkg/config`, `env.go`, `connect.go` | the request, the include stack, environments | `LoadConfig`, `resolveIncludes`, `Validate`, `NewEnv`, `pickWeighted` | includes of includes, environments that write to the request they validate | includes exact, all environments alike, weights honoured | `Include`, `Inlining`, `Config` |
| sync, `cmd/edg/sync.go` | the sides' sections, two row cursors, mismatches | `sync run`, `sync down`, `sync verify` | merging two streams read in pages while one changes | same rows written, exactly the differences reported | `Sync` |
| schema, `pkg/schema`, `initcmd.go` | tables, columns, keys, generated sections | inspection, `SortTables`, `Generate` | self-references, several keys, cycles, dialects | parents before children; up and down run, and deseed where it deletes rows | `Schema` |
| staged output, `stage.go`, `env_output.go`, `pkg/output` | buffers by file, datasets | capture, `Add`, `Flush` | files written one by one at the end | every row in its file, or an error | `Stage` |
| expectations and summary, `expectations.go`, `stats.go` | metrics | `checkExpectations` | rates over elapsed time | metrics agree with results | not modelled |
| random data, locales, harness, REPL, metrics | tables, library state | | | | not modelled |

Interaction: a command (`Lifecycle`) loads its configuration and builds an
environment from it (`Config`, which walks includes by `Include`), and executes
sections, whose queries `Batch` turns into statements by `Statement`. The run
section is `Run`: workers (`Worker`) and background workers, each with an
environment of its own (`RefData`), draw from one `seq.Manager` (`SeqManager`) and
send results over one channel to `printResults` (`Pipeline`). `Lifecycle` sees the
run through what `RunContract` promises: it starts and it returns. `Sync`, `Schema`
and `Stage` are commands of their own.

`PROJECT.json` lists the hazards of this code, each at its line, with the
properties that cover it.

## 2. Modules

Each action is one step of the code between two points at which another
goroutine, the database or a timer can interfere. History variables, which the
code does not have, are marked in the declarations. Operators marked `mutant`
are wrong variants of the definition below them; each property is shown to fail
when one of them takes its definition's place.

### SeqManager

`counter[m][s]` is `sequence.counter` of manager `m`. The atomic `Add(1)` of
`Next` is `NextAdd`, its return `NextReturn`, so that other goroutines draw in
between; the load of the five picking functions is `PickLoad`, the draw below
the loaded count `PickReturn`. The distributions differ in how likely an index is
and may return an error, so the draw is any index below the count, or none.
`phase` and `Active` are the use `edg all` makes of it: the command's goroutine
draws while seeding, the workers draw from the manager `runStage` made, the
command's goroutine again in the teardown.

* `UniqueValues`, `GapFree`: what the documentation promises of `seq_global`
  (for steps other than 0; a step of 0 passes validation and repeats a value).
* `PicksGenerated`: a pick returns a value generated before, although the count
  it was drawn under is old by then.

### Worker, TxContract

One worker goroutine. `pc` is its place: `loop` (head of the loop of
`startWorkers`), `items` (`runRunItems`), `begin`, `locals`, `body`, `commit`,
`tried`, `backoff`, `txwait` (`runTransaction`, `tryTransaction`,
`runTransactionQueries`), `args`, `exec`, `wait` (`runSection`), `failed`
(iteration returned an error), `stopped`. The configuration is a constant:
`Items` gives each item its steps, a step is a `rollback_if` or a query with a
number of argument sets. Expressions and database calls succeed, fail, fail with
`fail()`'s error, or with the context's once it is cancelled; a commit may take
effect although its call fails. `Cancel` happens at any moment.

* `AllOrNothing`: each commit is of all statements of the transaction, once, and
  of no earlier try. `CommitsAccounted`: reports and commits differ by the
  ambiguous ones only. `NoOpenTxOutside`: a transaction is open exactly inside a
  try. `LocalsAvailable`: its locals are there. `RollbackIsFinal`: `rollback_if`
  is neither retried nor an error. `CancelStops`: a cancelled worker stops.
* `ImplementsContract`: the worker implements `TxContract`, a transaction that is
  tried, takes effect at most by commits, and is reported exactly once.

Abstracted: print expressions, latencies, the values of arguments; what becomes of
a query on its way to the database is `Batch`.

### Pipeline, Run, RunContract

`Pipeline` holds what the two run modes share: goroutines that create an
environment, iterate, and send on a bounded channel; the collector's `select` over
the warmup deadline and the channel; time and Ctrl+C. An iteration is a burst of
results ending in one of the outcomes `Worker` has. The check of a loop and what it
guards are two steps (`CheckContext` and `StartIteration`, `CheckStage` and
`StartStage`), with everything else between them. `Run` adds, for a run without
stages, the timer and the goroutine that waits for both wait groups and closes; for
a run with stages, the driver of the stages, their timeouts and the background
workers' own context. `staged` says which. `done` holds the contexts whose cancel
function was called; `Done` adds that a child context is done when its parent is.

* `NothingLost`: every result sent is in the channel, counted or discarded for
  the warmup. `NoSendOnClosed`: nobody can send when the channel is closed.
  `OneLateIteration`: a worker ends at most one iteration after its context is done,
  the one it was in or had just checked for, also when iterations fail and are
  continued.
* `StageOrder`, `BackgroundSpansStages`: results arrive stage by stage, background
  workers outlive the stages. `LateStageIsIdle`: a stage that starts although Ctrl+C
  came after the check is the last one, and its workers send nothing.
* `ImplementsContract`: both modes implement `RunContract`: produced results are
  collected at most once, the run returns with everything collected, and it does
  return.

Abstracted: what a result holds, the progress ticker (it changes no state), an
iteration without any query (a stutter).

### Lifecycle

`at` is the place of the command, `cancelled` its contexts, `executed` and
`faults` the history of the database. A section is a list of queries that stops at
its first error. `InOrder`: no seeding into an incomplete schema, no run on an
incomplete seed. `LeftClean`: after `all`, every query of `deseed` and `down` took
effect unless Ctrl+C or the database forbade it, also when an earlier phase or an
expectation failed and although the run ended by cancelling its context.
`ReportsFailure`: a command that exits without an error executed its sections.

### RefData

The environments of a run: the init environment (`Source`) and the workers'. A
dataset is a reference to an array, as a Go slice is, so that a copy of the
reference shares the rows and a copy of the rows does not. `ref_diff` swaps rows of
that array under `uniqIndex`; `oneCache`, `permCache` and `uniqSeen` are the
caches, each with its resets. A query is `BeginArgs`, calls of the `ref_*`
functions and of `uniq`, `NextRow` for each further row of a batch, `EndArgs`, and
`Result`, which may replace datasets. `compiled` is the `CompiledLocals` map of the
one shared request.

* `NoRepeats`: within a query no row of a dataset is given twice by `ref_diff` and
  no value by `uniq`. `SameCurrent`: the row `ref_same` remembers is one of the
  dataset as it is. `Isolated`: no step of a worker changes rows of another.
* `AllLocals` (violated): a transaction's locals are all there.

Abstracted: other draws (any row); aggregates and `ref_each`, which only read.

### Include, Inlining, Config

`Include` walks YAML trees as `resolveIncludes` does: `frames` is its call stack,
`visited` the files on it. `IncludesExact`, in the module `Inlining`, compares the
outcome with the tree the files stand for: `WellFounded` says which files have one, by
the files that include one another alone, and `Inlined` is the solution of its
equation. `Config` goes on with the resolved document:
`Decode`, licence and connection, then for each environment of the command in turn,
or side by side for workers, `Validate` with all its rules, the globals one by one,
references, expressions, rows and queries. `request` is shared; `env[b]` is what
builder `b` knows.

* `SameEnvironments`: the first environment has the globals and args the file means;
  what they mean is an equation (`Means`), not an evaluation in some order. A later
  environment finds in the shared request what the first one made of the globals. It
  has the same args, and the same value of each global whose value is `Final`; a
  string that compiles again, as `env('DB_BATCH_SIZE')` yields one, it evaluates once
  more. It is refused only where there is such a global, or queries name rows.
* `RowsAreArgs` (violated): workers start for configurations with `row`.
* `Shares`: over all draws each item gets its weight.

Abstracted: YAML and expressions, which are records of what the rules look at.

### Statement, Batch

`Statement` is pure: a template and the values of rows become the tokens of a
statement, through formatting, inlining, placeholders and `ExpandBatchQuery` with
its group scanner; and, external, what a database reads out of a statement. A value may
hold a quote, a double quote and a delimiter: `SQLFormatValue`, `BatchFormatValue` and
`JSONString` escape them as each driver's do, and the scanner meets what they made.
`Batch` runs a section: arguments, batches or products of lists, prepared
statements, the units an adapter sends (`SqlUnits`, `CassandraUnits`, `MongoUnits`),
transactions, results, datasets of the seed.

* `RowsOnce`: after a section that succeeds every row was written exactly once, and no
  statement of an exec query is one the database cannot read. The second part leaves
  out a batch of MongoDB with a double quote in a value (`Misread`), which the scanner
  splits wrongly: the model sends what it makes of it, so that the section fails or
  the process dies (`Panic`), and never succeeds without its rows.
* `TxAllOrNothing`: a transaction leaves all of its rows or none, for adapters with
  and without transactions of their own.
* `DatasetsWritten`: the dataset of a seed query holds rows that are in the
  database.

Abstracted: what an expression yields, but for the quotes in it. The setups are the
forms of queries that the repository's documentation shows for each driver; that the
statements of one arg set write that arg set, or for a misread batch its first rows at
most and then one the database refuses, is `TemplatesAssumption`, which TLC evaluates
before the run.

### Sync

`side`, `todo` and `rng` follow `sync run` and `sync down`; `cursor`, `row` and
`want` are the two `rowCursor`s of `verifyTable`, with pages of `--batch-size`. Keys
are sorted by the database (`opt.order`), but compared by `compareKeys` (`KeyLess`): as
numbers when both parse as one (`Number`, with NaN), else as text (`TextOrder`). So
different keys may compare equal and be paired, and the comparison need not be
transitive. `Replicate` copies a key to the target while it is being read.

* `VerifiedAgree`: no report means equal tables, for any sort order and comparison and
  under replication, unless the key is among the ignored columns and different keys
  compare equal (`KeysTold`). `ReportsExact`: for tables that keep still and whose keys
  both databases sort as `compareKeys` does (`SortedAsCompared`, which is false of
  tables with two keys that compare equal), the reports are exactly the differences,
  each once. Both for tables whose `--order-by` column is a key.
* `SidesInStep`: the target follows the complete source, and with `--rng-seed`
  draws the same numbers. `Terminates`: verify ends.

### Schema

From a catalogue (tables, generated columns, foreign keys, keys of other schemas)
to what each dialect's inspection returns, `SortTables` with its queue over a map
in any order, the generated sections, and their execution on a database that
enforces foreign keys as the dialect does.

* `SortExact`: an order is found exactly when one exists among the inspected
  columns. `GeneratedRuns`: up and down run through in every dialect and leave no
  table; deseed runs through and leaves no row in the dialects where it deletes rows,
  and nothing is said of it for PostgreSQL, DSQL and Oracle, whose `TRUNCATE` refuses
  referenced tables.

### Stage

The stage command: sections in order, each query's rows captured in memory by the
writer of the format, files only in `Flush`, one by one, with failures in between.

* `FilesComplete`: success means that every generated row is in its file, in order
  and whole. The `sql` and `stdout` formats have the statement, in which only the args
  it names as `$N` are replaced (`Shown`); so in the `sql` format this speaks of the
  rows of queries that name each arg (`Shows`), which a `__values__` batch does not.
  `DatasetsStaged`: datasets are the rows staged under that name.

## 3. Runs

| run | instance | distinct states |
|---|---|---|
| `seq_manager` | two workers, the command, two managers, two sequences (steps 1 and -5), an undefined name, 2 draws per sequence | 173,000 |
| `worker` | a transaction (locals, query, condition, query, wait) and a batch query of two sets, 2 iterations, 2 retries, all faults | 259,000 |
| `run` | two workers, one background worker, channel of 1, with a timer and bursts of 2, or stages of 2 and unspecified (1) workers; warmup | 602,000 |
| `lifecycle` | all six commands, 2 queries per section, 1 in init | 730 |
| `ref_data` | init environment, two workers, one reference dataset and one of an init query, 3 calls, 2 queries | 706,000 |
| `sync` | two tables, up to 3 keys with 2 values on each side, pages of 0, 1 and 2; keys that are shared, absent, not numbers, or equal as numbers; numeric, text and foreign sort orders | 163,000 |
| `config` | five trees of includes, a base configuration and variations that each break or stretch a rule, globals that yield text, an expression, or one that fails, licences, all commands, two workers | 47,500 |
| `stage` | three programs, six formats, up to 2 rows per query, batches with `$N` and with `__values__` | 148,000 |
| `batch` | the query forms of the documentation over five kinds of driver, in and outside transactions, counts from -1 to 5, sizes and lists from 0 to 3; values with quotes, for MongoDB's batches in each of the 64 ways three rows of two args can hold them | 29,000 |
| `schema` | six dialects, ten catalogues of up to four tables: chain, diamond, self-reference, cycle, composite and foreign keys | 13,000 |

`config_rows` and `ref_data_locals` are violated; `PROJECT.json` quotes what the
documentation says and what the code does.

Bounds, all named in the modules. `MaxDraws` 2: two goroutines inside one
sequence plus a pick between them; a third draw adds an interleaving of the same
kind, and the proofs have no such limit. `MaxIters` 2: what a transaction leaves
behind meets the next iteration. `Retries` 2: a first, a middle and a last try.
`Bursts` and `Results` 1 or 2 (of a worker), `Ticks` 1 (results of a background
worker) over a channel of 1: the channel is full with
senders waiting when everything is cancelled. `MaxCalls` 3 in `RefData`: more calls
than a dataset has rows, over more than one row of a batch; `MaxQueries` 2: what a
query leaves in a cache meets the next one. Tables of 3 keys with pages of 1 and 2:
a full last page, a partial one, and an empty one. `Counts` and `Sizes`: counts
below, at and above multiples of the size, zero and negative. `MaxRows` 2 in
`Stage`: first and later row of a file. `Depth` 3 in `Inlining`: no tree of
the run is deeper. Symmetry of the workers is used in
`ref_data` only, which checks no liveness.

Deadlock is not checked where the command or its bounded work ends.

Fairness. `Worker`: weak fairness of its step, since calls, expressions and waits
return, and of `Cancel`, since the timer fires or the user stops the run. `Run`:
weak fairness of each goroutine, the collector, the clock and each waiting
goroutine, as the Go scheduler runs whatever can run; strong fairness of leaving the
loop, because a background worker's `select` may take its ticker although its
context is done, but picks at random among what is ready. `Sync`: weak fairness of
the command's step, and none of replication. No fairness is assumed of Ctrl+C, of
faults or of an iteration starting.

## 4. Proofs

`SeqManagerProofs` proves `TypeOK`, `UniqueValues`, `GapFree` and `PicksGenerated`
for any number of workers, sequences, start and step values, and any `MaxDraws`.
The invariants are not inductive: uniqueness needs to know that each index below
the counter is in exactly one place. `SeqInv` says so: an index in the hands of a
goroutine is below the counter, held by no other and not issued yet, the issued
values are images of distinct indices below the counter, and a loaded count is at
most the counter. From there injectivity follows because the step is not 0.

`WorkerProofs` proves `TypeOK`, `CommitsAccounted`, `AllOrNothing`,
`NoOpenTxOutside`, `LocalsAvailable`, `RollbackIsFinal`, for any run section, any
weights and any number of retries; that `fail()` stops the worker under `Retries = 0`
(with retries it need not); and that every
step maps to a step of `TxContract` or leaves its state alone. `AllOrNothing`
needs the position to be tied to the work done: the strengthening `WorkerInv` says
that inside a try `pending` is exactly the set of statements behind the position
`(qi, set)`, and outside one it is empty. Each action then moves both by the same
statement, and at the commit the statements behind the end are all of them.

`RunProofs` proves, for any number of workers and background workers, any stages and
any capacity of the channel, with or without warmup: `NothingLost`,
`NoSendOnClosed`, `OneLateIteration`, `StageOrder`, `BackgroundSpansStages` and
`LateStageIsIdle`; and that a step of `Run` is a step of `RunContract` or leaves the
contract's state alone. The strengthening ties everything to the place of the driver:
how far it is says which goroutines have ended, the results of workers lie in the
channel in the order of their stages, and the background context is cancelled only
after the last stage. `NothingLost` adds up the results of a kind in the channel and
in the collector; two lemmas, `CountAppend` and `CountTail`, say what a send and a
receive do to that sum.

`LifecycleProofs` proves `InOrder`, `LeftClean` and `ReportsFailure` for sections of
any length. What lies ahead of the current place is
untouched and what lies behind a completed phase of `all` is complete; the teardown
is cut short only by Ctrl+C or by the database. Of the same sections staged instead of
executed (`Stage`) it proves `FilesComplete` and `DatasetsStaged`, for any programs,
formats and rows. `StageInv` compares at every place: a file holds of each query exactly
the args captured of it so far, the rows in the making are those captured of the current
query, nothing was captured of the queries ahead, and each dataset is what was captured of
a query behind. Both sides are sums over a sequence (`ArgsAt`), and the lemma
`ArgsAtAppend` says what one more entry adds. The assumption is what `NewEnv` has
validated: no two queries of a section have the same name, unless they have none.

`RefDataProofs` proves `TypeOK`, `SameCurrent`, `NoRepeats` and `Isolated` for any
environments, datasets and rows. Each array of rows belongs to one environment; what
`ref_same` remembers is dropped before a statement is sent; the rows `ref_diff` has
drawn lie before the index, where no later swap reaches. The lemma on the swap says that
it permutes the rows. The rows of a dataset are assumed to be told apart: of equal rows
a repeat could not be seen.

The same module proves `RowsOnce`, `TxAllOrNothing` and `DatasetsWritten` of `Batch`,
for any sections of queries, counts, sizes and lists of any lengths. None of the three
is inductive: `Balance` is what they come to, that the rows written and the rows the
current query has left (those of the current arg set not yet written and of the arg sets
to go) are disjoint, have no repetition and together are what was asked for, unless the
query is bound to fail (`Doomed`: one of the units to send is refused, so that the
section does not succeed); `QueryInv` and `SendInv` say what is left, and `SectionType`
that a transaction has nothing in the database before it ends. Below it is arithmetic:
for every count and size that does not panic, each number up to the count is in exactly
one batch (`EachRowInOneBatch`: the batches are as many as it takes, and a place in a
batch is a quotient and a remainder), and for two lists of any lengths each pair of
elements is in exactly one arg set (`EachPairInOneArgSet`). What is laid end to end
(`FlattenFacts`) has no repetition if and only if its pieces have none. The assumption
is `TemplatesAssumption`: that the statements made of one arg set write that arg set,
and are not read as something else; or, for a misread batch, that they write a prefix of
it and one of them is refused. It is a fact about the tokens of each template and of
`Statement`'s folds over them, where no prover can follow; TLC evaluates it for the
documented forms of queries, every driver and every arg set of the instance, and a
template it does not hold of is one the theorems do not speak about.

`SyncProofs` proves `SidesInStep`, `VerifiedAgree` and `ReportsExact` for any tables,
any page size, any sort orders, any keys, numbers or not, and, where the property allows
it, any replication meanwhile. Several invariants build on one another. `LifecycleInv`
ties what is left to do on a side to what was done and drawn there. `VerifyInv` says
where each cursor stands: the rows behind it are those the tables had up to its last
key, and as long as nothing was reported both sides agree on them. `QueueInv`, `PairInv`
and `ReportInv`, for tables that keep still, say that a page holds exactly the next rows
in the order (the databases' and the comparison's, which `SortedAsCompared` makes one on
the keys there are), that the two rows being compared are the least not yet compared,
and that the reports are the differences among what lies behind both cursors.
`ReportsExact` follows when both sides are at their end. The lemmas are about orders
given as sequences and about the pages `RowsAfter` yields.

`SchemaProofs` proves `SortExact` and `GeneratedRuns` for any catalogue, each dialect and
any order of walking the map of tables; of deseed, as said above, only where it deletes
rows. `InspectInv`: the columns read so far are those
of the catalogue, and each column of a key references what the key references.
`SortInv`: the degree of a table is the number of its columns that wait for a table not
yet sorted, and a table is in the queue or sorted exactly when it is 0. So when the queue
is empty, what is not sorted waits for something not sorted, and no order exists; this
is the argument in `SortExact`, by the least table of the order. `RunInv`: the tables
that exist are the first ones of the sorted order, or the last ones during down, and
those with rows likewise, so no statement meets a reference to or from a table that
is not there.

`ConfigProofs` proves `SameEnvironments` for any file, any command and any number of
workers. The property speaks of environments that are built; the invariant `ConfigInv`
says how they get there. The request differs from the decoded one only in values of
globals and in rows put in place of args, which a second time changes nothing
(`ExpandAgain`). The first environment is alone: the globals behind its position have
the value the file gives them, those ahead still have their text, and its own copy is
the request's. Each later environment begins when the first is built and evaluates only
what is not `Final`, so of the other globals it has the value the first one left,
whatever later environments do beside it. Where all are final it passes the checks the
first one passed, because it validates fewer sections (`FewerSections`), validation
looks only at the names of globals (`SameValid`), and its names are the same.
`MeaningUnique` adds that the equation `Means` has one solution, so that it says what a
global's value is. It also proves `Shares`: the sums over the items exist and grow, by
the least position where they would not, so the draws that pick an item are the interval
between two of them, as long as its weight. The assumption is that a document is a
record whose `order` lists each global once, as YAML has it, and whose weights are not
negative, which the code does not check.

And it proves `IncludesExact`, for any files and trees of any depth. `WalkInv` says what
the walk knows: for each node it has returned from, what it made of it and a rank, above
the ranks of the nodes its items stand for (`Sound`); and of each call on the stack, that
the items before its position are known and in place, that the call above it is for the
item it is at, and that no file is open twice (`Stack`). A return makes the node known,
with the highest rank so far (`ReturnKnown`). When the walk is done the tree of main is
known, hence all that it comes to: the ranks show that no file includes itself in the
end (`KnownIsWellFounded`), and by the least rank where they would differ, that the
definition has one solution, the tree the walk built (`InlinedIs`). When it has failed,
the files of the calls from the one that is included again on are a cycle
(`WalkFailed`). Trees are assumed to end and no file to have the empty path.

The proofs rest on the named assumptions on the constants, which TLC evaluates in
the passing runs.

Only model-checked: everything temporal under fairness (`CancelStops`, `Terminates`,
the liveness part of both contracts), which is out of the provers' reach (and where
iterations are bounded and every step is fair, so that `CancelStops` speaks of loops
that ignore the cancellation, not of a wait or a backoff that ends late); and, as an
assumption of the theorems on `Batch`, what `Statement` makes of one arg set.

## 5. Divergences met while modelling

Two are runs (above). The others follow from one or two lines of the code, which
the modules model as they are, and are listed for the reader.

Documentation and code:

* `edg all` starts new sequences for the run (`run.go:113`, `:48`), where
  `docs/content/docs/configuration/_index.md:205` has them continue.
* With retries a transaction that called `fail()` is tried again
  (`env_worker.go:96`), where `expressions/_index.md:41` stops the worker.
* The `break` at `env_worker.go:77` leaves the `select` only: a context cancelled
  during the backoff starts one more try (`cli-reference/_index.md:223`).
* When a local fails to evaluate, the others stay readable after the transaction
  (`env_worker.go:118`; `configuration/queries.md:556`).
* Errors of tries that are retried are counted (`env_query.go:149`;
  `cli-reference/_index.md:211`).
* A result sent during the warmup and still in the channel at its end is counted
  (`stats.go:64`; `cli-reference/_index.md:280`).
* The teardown of `all` uses the context Ctrl+C cancelled, and drops the error of
  `deseed` and `down` (`workload.go:257`; `cli-reference/_index.md:317`, `:321`).
* On drivers with `?`, `translatePlaceholders` binds by occurrence, so the example
  of `queries.md:495`, `$2` before `$1`, binds the values the wrong way round; only
  the first occurrence of each `$i` is replaced.
* `query_batch` leaves the dataset of its last batch only (`queries.md:84`), and a
  plain `query` of the seed is overwritten by its own arguments.
* `ref_diff` has one index for all datasets (`expressions/_index.md:110`), and calls
  in locals are not reset per query (`:113`).
* A global whose value is a string that compiles, as `batch_size: env('DB_BATCH_SIZE')`
  of `configuration/_index.md:96-105` yields the text `500`, is written back to the
  request and evaluated again by the next environment (`env_init.go:22-37`): the init
  environment has the text, the workers the number 500. A string that compiles into
  something that fails lets them fail. Workers do this side by side, without a lock.
* A `__values__` batch, the recommended form (`queries.md:99`) and the one of
  `_examples/output/config.yaml:41-43`, is staged in the `sql` and `stdout` formats as
  the literal text `__values__`, without its rows (`sql.go:27-38`, `writer.go:98-107`,
  `env_output.go:85`), where `stage.md:39` has one `INSERT` per generated row.
* For MongoDB, `SQLFormatValue` escapes a double quote in a value as `\"`
  (`convert.go:246`), and `findBatchGroups` counts that quote as any other
  (`batch.go:34`). The documented insert batch (`queries.md:414`) is then not split at
  its separators: the database refuses a statement, after rows before it may have been
  written, or `ExpandBatchQuery` indexes past the parts of a group (`batch.go:112`) and
  the process dies.
* Identity and computed columns of PostgreSQL are not recognised
  (`cli-reference/init.md:31`).

Limits, outside what the properties assume:

* sync: keys compare as `float64` when both parse (`sync.go:382-396`). `1`, `01` and
  `1.0`, and integers beyond 2^53 that `float64` cannot tell apart, are paired, and
  reported as a MISMATCH in place of MISSING and EXTRA, or, with the key among
  `--ignore-columns`, not at all. A text column with numeric-looking keys is sorted
  otherwise by the database, numbers among other text do not compare transitively, and
  NaN is neither less nor greater than anything: where the sides differ, the merge may
  then report rows that both have. An `--order-by` column with duplicates across pages
  or NULLs loses rows; a batch size of 0 ends at once; columns whose names differ in
  case are not compared.
* schema: a key into another schema counts as a cycle (`schema.go:53`); a column in
  two keys keeps the last; constraints of one name in two tables are cross-joined on
  PostgreSQL; SQL Server's DDL splits composite keys; Spanner's has none; `TRUNCATE`
  fails on referenced tables but for the first, which cascades (on Oracle none does), so
  a generated deseed fails on PostgreSQL, DSQL and Oracle where a key references a table.
* batch: count 0 without size divides by zero, a negative count panics; an empty
  MongoDB result yields a row, and only the first batch of a cursor is read; in a
  template's own double quotes `BatchFormatValue` leaves a double quote of the value as
  it is, doubles single quotes for MongoDB too, and makes nil the text `NULL`;
  backslashes and control characters are not escaped. Not in the model: values that
  hold the separator, `$N` or `__values__` themselves, backslashes, nil;
  `ref_each` ignores `rows.Err` (`ref.go:169`).
* stage: unnamed queries of a section share a file; a failing `Flush` leaves the
  files before it. The `__sep__` of a template is replaced before staging
  (`env_init.go:95`) but its rows are not joined; a value that holds `$N` is itself
  replaced, which is not in the model.
* config: a negative weight makes the draw panic, a rate of 0 times divides by zero,
  duplicate names of args stage under one column; globals, counts, sizes and
  `rollback_if` are not checked for unknown calls; a directive at a file's root
  is not resolved.

## 6. Not modelled

* Expectations and summary: arithmetic over floating-point latencies and elapsed
  time. That a run may fail its expectations is in `Lifecycle`.
* Random data, distributions, masking, locales, vectors: sequential functions over
  floating point and strings; the models take any value where they are called.
* Column types, check bounds and expressions of generated seeds; formats of files.
* Harness, REPL, metrics, version, flags, the licence's signature: I/O around
  libraries.
* YAML, the expression language and the drivers are external; the models use what
  the code relies on.

## 7. Plan

Done, in the order of importance: `SeqManager`, `Worker`, `Pipeline` and `Run`,
`Lifecycle`, `RefData`, `Batch`, `Config`, `Sync`, `Schema`, `Stage`.

What is left. Proofs: that a template of a documented form is expanded into its rows
whatever the rows are (`TemplatesAssumption`, which TLC evaluates for the instance; for
MongoDB's batches with a double quote in a value it is not true, and says instead that
they are refused). Models: which results become which metric
of an expectation.
