# Verification of the formatter: TLA+ models, TLC runs and TLAPS proofs

The program under verification formats C and C++ sources.  It finds files, runs
each of them through a chain of policies under an accuracy gate, writes the
results back with backups, and learns from its runs.  This directory keeps TLA+
models of the parts whose correctness depends on order, concurrency, failure,
bounded counters or the interplay of rules, the TLC instances that check them,
and machine-checked proofs of the results that matter most.  Paths below are
relative to the repository root.

## 1. Inventory

| Part | Source | State it keeps | Operations | What is hard | What makes it correct |
|---|---|---|---|---|---|
| Run driver | `src/app/runner.rs` | run context, journal, learned state | initialise, engine pass, write phase, graph refresh, finalise | phases that fail after files were written | results are written once, journal tells the truth |
| Worker pool | `src/app/worker.rs`, `runner.rs` | batch counter, controller threads, worker processes, shards | claim, send, collect, restart, terminate, shut down, merge | threads racing, hung or crashing processes, timeouts against late answers | each file delivered exactly once, pass ends, no worker left behind |
| File output | `src/files/atomic_writer.rs`, `file_io.rs` | files, temporary files, backups | replace, back up | threads in one directory, crashes | readers see whole texts, backups complete |
| Backup and undo | `src/runtime/backup.rs` | run directories, manifests | write manifest, restore | crash before the manifest, reused directories, interrupted undo | undo restores the run it undoes |
| Journal | `src/runtime/journal.rs` | one record per run | start, finish, drop | many ways to leave a run, crash | no failure is called a success |
| Propagation | `src/app/propagation.rs` | pending texts, rename plans | apply renames across files | plans older than the texts, one file of several failing | only what was meant is renamed, all files with plans agree |
| Scheduler | `src/runtime/scheduler.rs`, `src/files/file_unit.rs` | dispatch history | plan batches, record observations | several limits at once | each file in exactly one batch, pairs together |
| Result cache | `src/runtime/result_cache.rs` | cached check results | get, put, flush | other options, other texts, overlapping runs | a hit is what the engine answered for this text and these options |
| Reporter | `src/runtime/reporter.rs` | bounded queue to a process | send, finish | full queue, dead process, records that make no frame | no blocking, every record reported or counted, but for faults of serialization |
| Rollout state | `src/runtime/rollout_state.rs`, `src/app/benchmark.rs` | profile, streaks, arming | observe, promote, demote, close | long sequences of runs | no change of profile without evidence |
| Telemetry | `src/runtime/*telemetry.rs` | process-wide counters | record, snapshot, merge | - | sums add up |
| Project graph | `src/graph/*`, `src/runtime/graph_runtime.rs`, `src/app/graph_refresh.rs` | persistent graph, metrics, learning | apply parse, alias, compact, decay, persist, quarantine | overlapping runs without a lock, counts beside the edges | the graph is consistent and learns nothing twice |
| Engine pipeline | `src/engine/pipeline/*`, `coordinator.rs` | text, checkpoints, retries | stages, revert, retry | long chains of stages that fail | a rejected stage leaves no trace |
| Conflict handling | `src/engine/conflict_*.rs`, `proposer.rs`, `catalog.rs` | edit candidates | assess, consolidate, solve | cut-offs and ties of the search | accepted edits do not conflict, and none is better |
| Learning filters | `certainty_filter.rs`, `mat5.rs`, `retry_optimizer.rs`, `policy_interference.rs`, `confidence.rs` | estimates on floats | observe, decide, merge | numeric edges | estimates stay in range |
| Gates | `accuracy_gate.rs`, `post_check*`, `semantic_contract*` | baseline and snapshots | compare, decide | fail-open and fail-closed | no semantic change unnoticed |
| Clang services | `src/parser/clang_service.rs`, `manager.rs`, `src/policy/clang_format_service.rs` | lanes, helper processes, cache of parses | send, collect, give up, restart | hung and dying helpers, late answers | an answer belongs to its request, nobody waits for ever |
| Parse consensus | `src/parser/compdb_index.rs`, `consensus.rs`, `arg_resolver.rs` | none | choose arguments, merge parses | parses that fail or may not vote | the majority decides |
| File context | `src/parser/file_context.rs`, `src/model/context_query.rs` | scopes, regions, ranges | queries by line | ranges in ranges | an unsafe line is not called safe |
| State files | `src/files/codec.rs`, `ecc_frame.rs`, `crc.rs` | framed bytes | encode, decode, repair | damage anywhere in a frame | what is read was written |
| Policies | `src/policy/*` | none | rewrite text | policies that meet their own output and that of others | files settle and keep what they say |
| Suppression directives | `src/engine/suppression.rs` | none | find disabled lines | text scanning | - |
| Configuration, CLI, report tool | `src/config/*`, `src/cli/*`, `src/bin/*` | none after start | parse | defaults | - |

The parts meet in `App::run`: the driver opens journal, graph and rollout state
and seeds what was learned, and hands the files, in batches that the scheduler
plans, to the in-process pass or to the worker pool, both of which run the
engine per file, ask the clang services for parses, and return results that
hold a pending text.  Propagation edits pending texts, the write phase gives
them to `FileIo`, the manifest lists the backups, the graph is refreshed from
the texts the engine saw, and the reporter, the rollout state and the journal
end the run.

## 2. Modules

| Module | Models | Composed of |
|---|---|---|
| `WorkerPool` | `run_multiprocess_pass`, controllers, worker processes, merge check | |
| `BatchLedger` | what `WorkerPool` promises: each batch delivered exactly once | |
| `WorkerPoolProofs` | proofs about `WorkerPool` | extends it |
| `AtomicWriter` | `AtomicWriter::write_bytes`, at the level of inodes | |
| `AtomicReplace` | what it promises: the new text and the answer in one step | |
| `FormatRuns` | runs, write phase, backups, manifests, `--undo`, the user | `AtomicWriter` as one step |
| `FormatRunsProofs` | proofs about `FormatRuns` and `AtomicWriter` | extends both |
| `LineEdits` | recording, replaying and suppressing edits of a text | |
| `EditReplay` | what a stage does to one policy's result | extends `LineEdits` |
| `EditReplayProofs` | proofs about both and about `StateFrames` | extends `EditReplay`, `StateFrames` |
| `PolicyPipeline` | one pass of all policies over one file | `EditReplay` as operations on lines |
| `PolicyPipelineProofs` | proofs about `PolicyPipeline` | extends it |
| `PostEditCheck` | what the check after a pass compares, as operators on parses | |
| `FormatterEngine` | `FormatterEngine::apply` for the files of one process, its threads, what they learn | extends `PostEditCheck`; the pipeline is any rewriting |
| `FormatterEngineProofs` | proofs about `FormatterEngine` | extends it |
| `ProjectGraph` | the persistent graph as a value: parses, aliases, caps, decay, neighbours | |
| `Rollout` | the state of the accuracy rollout as a value: signals, streaks, promotion, closing | |
| `ProjectRuns` | the life of overlapping runs: journal, graph, learning, rollout, every way to end | extends `ProjectGraph` and `Rollout`; the write phase is one step |
| `ProjectRunsProofs` | proofs about `ProjectRuns` and `Rollout` | extends it |
| `ClangService` | lanes, helpers and callers that ask clang and clang-format | |
| `Reporter` | the queue, the thread and the process that write the report | |
| `ResultCache` | check runs that share the file of the cache | |
| `Services` | the three side by side: the clang services, the reporter and the cache | extends `ClangService` and `ResultCache`, instantiates `Reporter` |
| `ServicesProofs` | proofs about the three | extends `Services` |
| `RenamePropagation` | local renames, plans, propagation, write | |
| `RenamePropagationProofs` | proofs about `RenamePropagation` | extends it |
| `BatchPlan` | units, costs, lanes, batches | |
| `ConflictSolver` | assessment and choice of edits | |
| `ParseConsensus` | whose arguments to take, and the vote | |
| `StateFrames` | frames, damage, repair | |
| `NamingStyle` | the names the naming policies want and accept | |
| `Layout` | the policies that work on whole lines | |
| `Rewrites` | the policies that work inside of lines | |
| `ContextQueries` | scopes, regions, and which lines may be edited | |
| `MC*` | the instances for TLC; `MCFiles`, `MCServices` and `MCAlgorithms` put parts that share nothing side by side | extend or instantiate their modules |

`PROJECT.json` maps every definition to the lines it translates.  Where a
definition has a mutant, the mutant stands right before it and is marked so;
nothing else uses it.

### WorkerPool

`ctl[s]` is the controller thread of slot `s`: where it stands in the loop of
`run_multiprocess_pass`, the batch it has leased from the shared counter
`nextBatch`, and how often it has sent it again.  `proc[s]`, `request[s]`,
`response[s]` and `closing` are the worker process and its pipes, `memory[s]`
and `shard[s]` what the worker has learned and what it has saved.  The actions
of a controller are the calls of the loop (`SpawnWorker`, `Claim`, `Send`,
`Collect`, `Recover` inside the failing ones, `Kill`, `Terminated`, `ShutDown`);
those of a worker are the iterations of `run_pool_entry`, with a crash at any
point.  A worker may answer with the wrong shard, a missing or a repeated
result, or with bytes that can not be read, or not at all.  `JoinFailed` and
`JoinAll` are the join of the threads, the merge of the shards and
`validate_and_order_multiprocess_results`.  A request is assumed to fit the
buffer of the pipe, so that a hung worker does not block `Send`.

### AtomicWriter

Names lead to inodes.  Every call goes through `MakeName` (process id, clock
and thread name), `Create`, `Write`, `Rename`; it may fail between any two of
them, and a crash is a call that takes no further step.  The clock may stand
still between calls when `CoarseClock` holds, and then unnamed threads of one
process (`Owner`) make the same name.  `shared` is history: the calls that had
a name with another one under way.  They can damage the paths they are for, and
`AtomicReplace` says what is left of the promise: everything about the others.

### FormatRuns

`disk` is what is in the source files, `job[r][f]` where run `r` is with file
`f`: read and formatted, pending, its backup named and copied, replaced.
`fs::copy` is two steps, because a kill may come between them.  `authored` and
`before` are history: the text the user last wrote or asked for, and the text
each run replaced.  The user edits between any two steps except between the
copy of a backup and the rename that follows it: an edit in that window is lost
whatever the code does.  Journal, graph and propagation are in modules of their
own; the clash of a numbered backup (`a.1.cpp`) with a source file of that name
is left out.  `Overlap` lets runs overlap; the runs below keep it off.

### LineEdits and EditReplay

A text is a sequence of lines, a line its words and a line break (`End`), which
the last line of a text may lack (`Ends`), a list of edits a function from line
numbers to what was and what is there.  Lines that a replay puts out behind one
that is open run into it (`Joined`).  `Synthesize`, `Replayed`,
`ReplayedLeniently`, `Suppress`, `ConvergenceSuppress` and `NormalizeCoverage`
are the functions of `edit_utils.rs`, `suppression.rs` and `convergence.rs`;
`EditReplay` applies them in the order of a stage.  `Apply` is a policy, which
returns any text and declares its edits or some of them only: as the pipeline
would record them (clang-format does), as pairs of lines without their breaks
(`Pairs`: `void_params.rs:61`, `op_spacing.rs:156`, `ns_comments.rs:276`; names,
as `naming_conventions` declares them, are to the replays what such a pair is),
or as lines to insert without theirs (`Insertions`: `include_guards.rs:214`,
`pragma_once.rs:113`).  A replay compares whole lines, and so never finds the
line of such a pair, and the guard keeps such edits when they are on the lines
that changed.  `Filter` one of
the filters before or behind the output guard; `Gate` the output guard
(`Guarded`), behind which the understanding gate may drop the edits of lines
with parse errors (`excluded`) and replay the others leniently (`Outside`);
`Reconcile` the lines that other policies claim, and the output guard again;
`PartialRollback` the edits outside of the lines a failed checkpoint names.  An
edit is for one line, a line has at most one, a result has edits of one kind, and
the texts policies read and return end their last line: what is open is behind
that (`TypeOK`), so that the strict replay can only meet it as an insertion.
Edits from nothing to nothing (`macro_spacing` declares some for blank lines) are
left out.

### PolicyPipeline

A pass runs through `Stages`, the dynamic order followed by the repair
candidates.  Each stage goes through `Parse`, `Execute` or `Pass`,
`Coordinate`, and one of the outcomes of the checkpoint: `CommitNothing`,
`CommitUnchecked` (whitespace-safe), `CommitUnparsed` (the parse fails),
`CommitParsed`, `CommitOverruled` (clang has no objection), `PartialRollback`,
`Rollback`, which starts the stage again once.  Lines are rewritten in place
(`EditReplay` has the arithmetic of texts that grow), and a syntax tree *is*
the text it describes.  The semantic context is a record of the text and the two
parses it was made of, because it is made of what is at hand: the tree may be
an older one, and clang's parse stays through the edits of all policies but
those that are `ClangInvalidating`.  A parser that is given a tree that was not told of an
edit may reuse it: the new tree is then that of either text.  `claims` and
`suppressed` are the convergence controller, `selected` the accepted candidates
of the conflict solver, `edits` all recorded edits.  The filters that take
lines away without looking at this state (scope, disabled lines, certainty,
guidelines) are in the choice of the proposal.  Changed ranges, telemetry,
confidence scores, utilities (candidates of one policy never conflict) and
policies that change lines elsewhere than in their edits are left out.

### PostEditCheck and FormatterEngine

A text is a sequence of lines, and a line is what the parsers see in it: one or
more declarations with a kind, with or without a USR, a use of a name of the
file or of a header, a scope, a syntax error, or nothing.  `Parses` gives every
answer of tree-sitter and clang, who may fail on their own; contexts without a
compilation database entry of their own do not ask clang.  `Id` and `RefId` are
the stable names of `file_context.rs`: a USR, or a hash of name, kind and line.
`LostIdentities`, `DroppedReferences`, `Orphans` and the two scope drifts are
the transition of the semantic contract, `TreeFailures`, `ClangFailures` and
`SemanticFailures` the parts of `validate`.  Columns, warnings, scores and macro
regions are left out, as are malformed ids.

`stage[f]` is where `apply_inner` stands with file `f`: `Begin` is everything up
to the first observation, with the gate that may refuse the file; `Load` and
`Store` are the two halves of the three observations (before the pass, at the
end of the pipeline, after the decision), which share two cells without
comparing; `Run` is a pass with one edit of any line, recorded or not, followed
by the synthesis; `RunFails` a pass that ends with an error; `Decide` the check
and the second gate.  What the code says and the module follows: a pass is
accepted whatever the check finds, so that retry and reversion are never
reached; accepted and attempted edits are the same number, so that neither
threshold of the gate is ever missed; only totals of errors are compared, so
that a new error hides behind one that went away; and a baseline with
mismatches makes every full check answer no.

### ProjectGraph, Rollout and ProjectRuns

`ProjectGraph` is a value and what is done to it.  A text says which symbols it
declares, on which line, and which it uses; `ParseOf` is what clang makes of
it, given the texts of the other files on disk.  `ApplyParse` replaces the
edges of a file, creates declaration nodes by place when no USR is known and
merges them into the symbol once it is (`AliasOf`, `MergedEdges`);
`Compactions` are decay, pruning by age, both caps and tombstones.  Where the
code takes the first of equals from a hash map, the model takes any.
`Rollout` is the persisted state and the functions of `rollout_state.rs` and
`benchmark.rs` on it; rates are one level, since the code only compares them
with the thresholds of three profiles.

In `ProjectRuns` the actions of `Step(r)` are the phases of `App::run` in their
order, each with its way to fail, and `Kill` at any point.  A run reads graph
and rollout state when it opens them and writes what it computed from them
later (one number stands for the telemetry of clusters and of retries, seeded
alike, stored apart); nothing is locked, so that `Runs` overlap freely.  `GraphRefresh` is the
whole of `execute_graph_refresh_and_backup`: what is parsed, in which order,
the difference of what was learned, and the persist that may fail.
`project` chooses one of five ways in which a project is worked on, because
not all dimensions can be combined in one state space; the ghosts `learned`,
`mixed`, `since` and `why` travel with the files.

### ClangService, Reporter and ResultCache

Three parts that share no state with each other.  `Services` puts them side by
side, so that one run checks what each promises; in a behaviour of `MCServices`
one of them (the parse lanes, the format lanes, the reporter or the cache) has
something to do.

A lane of `ClangService` is a thread with a queue; it asks its helper process
(`Ask`, `AskDead`), takes its answer (`Receive`), replaces it when it is dead
or hangs (`Replace`, `GiveUp`).  A helper answers, answers with garbage or an
error, hangs or dies at any point.  Callers send one request per set of
arguments, collect in order and give up at their deadline, while the lane goes
on; what they collect is cached by path and text.

`Reporter` has the bounded queue (`TrySend` never waits), the thread that
forwards records through a buffer into the pipe, the process that writes the
report and dies at any point, and `finish`, which joins both.  The thread skips
a record that cannot be serialized (`SkipRecord`) and leaves its loop over one
that makes no frame (`FrameFails`); the process skips what it cannot read
(`SkipFrame`).  None of these is counted, so that `ReportAccounts` says that
report and drops are all results only when there was no such fault.

In `ResultCache` three runs that check open the file of the cache, answer from
it, and replace it whole when their pass ends.  They overlap, are killed or
fail to flush, while sources, headers and the file itself change.

### RenamePropagation

A text is a sequence of tokens.  `Planned` and `Replacements` are the local
rename of `naming_conventions`, which the pipeline may keep or revert and other
policies may move (`Format`); `Exported` are the plans a result carries.  The
key of a declaration has a path: clang's keys have the canonical one
(`semantic_extractor.rs`, `normalize_path_for_key`), a plan has the one by which
the run knows the file (`replacement.rs`, `normalize_decl_path`), which begins
with the root as it was given; `root` says whether that is canonical.  It is a
matter of the whole run, because the walk over the files follows no links.
`Planners`, `Agreed` and `Propagated` are the project-wide part: which plans
have agreement, which files are targets, which occurrences fit.  `Write`
writes what is pending.  What a name refers to is looked up as clang does it,
in the file and then in what it includes as it is on disk.  `RenameAssumption`
says what the model takes for granted of its inputs: a name is defined at most
once in a file, so that it stands for one entity there, and the name the policy
suggests is one it is content with (`NamesSettle` of `NamingStyle` is that
fact about the suggestion itself).

### The algorithms

`BatchPlan`, `ConflictSolver`, `ParseConsensus`, `StateFrames`, `NamingStyle`,
`Layout`, `Rewrites` and `ContextQueries` are functions; a behaviour of
`MCAlgorithms` takes one input for one of them and has its output.

- `BatchPlan`: units of a header and its implementation, costs blended from
  static features and history, lanes, batches with two limits, interleaving.
- `ConflictSolver`: assessment against zones and clauses, utility, conflicts by
  symbol, range and distance, one candidate per line, components, the exact
  search with its bound and tie-breaks, the greedy one above the limit.
- `ParseConsensus`: scores of compile commands for a header or a source, sets
  of arguments, who may vote, the majority, the better of two source parses.
- `StateFrames`: header, shards, checksums and parity of both kinds of frames,
  damage to each field, repair.
- `NamingStyle`: `ToSnake`, prefixes by scope and type, what is a constant, what
  `snake_case` reports.
- `Layout`: a line is its kind and what matters of it.  Rules and titles of
  comments, `namespace_end_comments`, `lua_macro_spacing`,
  `pragma_once_spacing`, `include_guards`, `include_order`,
  `compact_declarations`, `declaration_alignment`, applied one after the other.
  Lengths are scaled down, their order is kept.
- `Rewrites`: tokens and spaces.  `logical_keyword_operators`,
  `function_void_params`, `operator_overload_spacing`,
  `numeric_literal_suffix`, with
  the order in which their splices are applied.
- `ContextQueries`: scopes, regions and ranges of a header, the search for the
  conditional a line is in, the profile of a line.

## 3. Runs

| Run | Instance | Shows |
|---|---|---|
| `worker_pool` | 2 slots, 2 batches, 1 restart per batch | every batch is delivered once, the merge check never fires, a pass that succeeds leaves no worker, learning without failures is exact; the pass ends and implements `BatchLedger` |
| `files` | 2 files, 2 runs in any of 2 directories, 1 user edit per file; beside it 3 calls, 2 of unnamed threads of one process for two files and 1 of another process, clock of 2 readings | no text of the user is lost, a complete undo restores its run, listed backups stay; readers see whole texts but where calls share a temporary name, `AtomicReplace` is implemented |
| `format_runs_undo_latest` (violated) | 1 file, 2 runs in directories of their own | `--undo` misses a run that was killed after replacing a file |
| `edit_replay_filter` | texts of up to 3 lines, proposals of up to 4 with any of their edits declared, as recorded or without line breaks, 3 line contents, 1 filter or gate | recording and replaying are inverse for at most one added line, filters keep forbidden lines, the edits a stage ends with account for every line taken away, but for the roll-backs named below |
| `edit_replay_gate` (violated) | texts of up to 5 lines of 2 contents, proposals of up to 2, 1 gate | the understanding gate takes a line away whose edit it has dropped |
| `policy_pipeline` | 4 policies, 2 lines of 3 contents, retry | trees, contexts, error budget, priorities, ownership, report |
| `formatter_engine` | texts of 2 and 3 lines of 7 kinds, one edit each; all configurations for one text; 2 files at the same time | learning is lost only to races, a removal in use is reported, layout keeps symbols |
| `project_runs` | 2 files, 2 symbols, 2 runs at a time, five projects: learning, mixed, damaged, judging (6 runs), ending | the graph is consistent and learns nothing twice, profiles move and runs are closed on evidence only, the journal calls no failure a success |
| `services` | 2 parse lanes with a consensus call and a call ahead for one header, 1 format lane with 2 calls; 4 records, a queue of 2; 3 check runs, 2 files, 1 change | answers belong to their requests, the report accounts for every record but those lost to a fault of serialization, the cache answers what was asked, everybody who waits returns |
| `algorithms` | about 300,000 inputs, see `MCAlgorithms` | plans are fair, choices best, consensus is the majority, frames are true, policies settle, profiles of lines are true |
| `renames` | a header and a file that includes it, 16 and 4 texts, canonical root or not, all failures | only what was meant is renamed, propagated renames reach every file with plans if the root is canonical |
| `renames_agree` (violated) | the two and a file that only uses the header | a rename does not reach every reference |

**Why the bounds are enough.**  Two slots are the least in which one controller
can take what another has timed out on; two batches let one slot run both
while the other is restarted, and one restart reaches both the retry and the
exhausted budget.  With two calls for one path and one for another, a
writer meets a writer of its own and of another path.  Two runs and one edit
reach every order of run, edit, kill and undo for a file; with a third run the
space is too large, and it adds only one more backup slot.  Three lines are the
least text with a prefix, a middle and a suffix, and four in the result let it
grow.  In the pipeline four policies are the least that have a semantic rewrite
that may be retried, a whitespace-safe policy, two policies that bypass the
solver and one that does not, with priorities that rise and fall; one line is
wrong for both parsers, the other for tree-sitter only, so that clang overrules
or not.  In the engine three lines hold a declaration, a second one that
shares its kind or its line, and a use, with a tolerance of one line to either
side; the tolerance of the code is 1 to 12 lines, and a distance beyond it is
reached between the first line and the third.  The race of two
observations needs two files and no text.

In `project_runs` two files are the least in which the parse of one depends on
the text of the other, and formatting both moves a declaration to a line where
another was, so that aliases meet; five nodes and six edges let the caps bite,
and three ticks let nodes, pairs and tombstones age out.  Two runs at a time
are enough for a lost update.  Promotion needs three or five passes and
demotion two or three misses, so that six benchmarks reach one promotion and
one demotion, or a streak that is broken and begins again.  The five projects
each have the commands and faults of one concern; between two concerns only the
order of the phases matters, which all projects share.  Two lanes and three requests
let a call wait for the other's lane; one request per helper suffices, because a
helper has at most one at a time, and a late answer meets the next request in
the same lane.  A queue of two with four records is full, empty and in
between.  Three runs with the cache are two that overlap and one that reads
what the later of them left.  The inputs of `algorithms` are small but of every
kind the code tells apart: up to six of ten edits reach both sides of the exact
search's limit (2 and 8), four foreign commands one more than may vote, damage
one more shard than can be repaired, names the shortest that have a prefix, a
capital and an underscore, files every order of up to five lines of each
kind, and scopes up to four of a header's, nested or apart.  What these bounds
leave open the proofs close for every safety property of `WorkerPool`,
`AtomicWriter`, `FormatRuns`, `EditReplay`, `PolicyPipeline`, `ProjectRuns`,
`FormatterEngine`, `ClangService`, `Reporter`, `ResultCache` and
`RenamePropagation`; section 5 says under which assumptions.

Each module that has variables has a type invariant `TypeOK` (`WriterTypeOK`
in `AtomicWriter`), which may be added to the INVARIANTS of any of the configurations.  It is a theorem for
`WorkerPool`, `PolicyPipeline` and `ClangService`.

**Deadlock** is checked in `worker_pool`, `policy_pipeline` and
`edit_replay_filter`.  In the others all calls, runs, files or inputs may end.

**Fairness.**  In `worker_pool`: weak fairness of each controller thread and of
the parent.  Every wait of theirs has a timeout (`worker_timeout`, the shutdown
and kill timeouts), after which the step they wait to take is enabled, so the
operating system's scheduling of the parent process is all that is needed.
Nothing is assumed of the workers, which may hang for ever.  In `services`:
weak fairness of the callers and of the lanes, whose waits have timeouts
(`collect_deadline`, `HELPER_TIMEOUT`), and of the run, the thread and the
process of the reporter, which waits for nobody that waits for it.  Nothing is
assumed of the helper processes nor of clang-format: a format lane whose
clang-format hangs never becomes idle, and `ServicesReturn` speaks of parse
lanes only.

**Conditions in the properties.**  `TreeIsCurrent`, `SemanticIsCurrent` and
`ErrorBudget` name the exceptions the code makes: a commit that was
not parsed, that was not checked or that clang overruled (`history`), and for
contexts the lines that a partial roll-back changed.  Each exception was found
necessary: without it TLC finds a pass that violates the property.  In particular the error budget, which the project
calls its hard gate (`README.md:20`), is not kept by whitespace-safe policies
and by those clang overrules; that is how the code is written.  `LearnedOnce`
asks for everything that was learned only where no run of several processes was
at work (`mixed`), `RenamesFollow` only for files with plans and without
errors and for plans whose key is the one clang has, `RecordedEditsExplain` for a
roll-back only when it deletes at most two lines and leaves no line open,
`ReplayInvertsRecording` for at most one added line, because a second one is
recorded for the next line number, and the replay puts a line of the old text
between the two, `PoliciesSettle` after up to three passes and only for texts whose
pieces are apart (`Apart`, `Separate`), `ProfileIsTrue` for exactness only where
conditionals are apart; again TLC finds a violation without the condition, and
section 4 says what it is.

## 4. Findings

1. `backup.rs:140`: `--undo` sees only runs that lived to write their manifest
   (`format_runs_undo_latest`).
2. `propagation.rs:332`: only files with rename plans of their own are targets
   of a project-wide rename (`renames_agree`, with a canonical root; with any
   other nothing is propagated at all, see below).
3. `edit_utils.rs:216`: the lenient replay adds its running offset to line
   numbers of the old text and looks for the sum in the old text, so that behind
   two deletions it is two lines too early, and takes away a line nobody asked
   for when that line has the same text (`edit_replay_gate`).  The understanding
   gate, which replays what it has not dropped, then deletes lines the parser
   did not understand.

`PROJECT.json` quotes what the code's documentation says to the contrary.

Behaviour met while modelling that is in the models as it is in the code, and
that no property asks to be otherwise:

- **Files.** Temporary names of unnamed threads of one process differ by the
  clock only (`atomic_writer.rs:24`): two that read one time may give each
  other's files each other's text, and `TargetIntact` excepts their paths.  Undo
  picks the directory that was modified last (`backup.rs:148`).  Two runs in one
  backup directory can pick the same free name (`file_io.rs:73`).
- **Pipeline.** Claimed lines are put back by number (`convergence.rs:338`), so
  that lines no policy proposed to change are overwritten when the proposal
  has added or removed lines.  A stage that is rolled back keeps its claims and
  loses to itself in the retry (`convergence.rs:172`).  A second filter does not
  see a deletion that the first has made look like an equal line.  Most policies
  declare edits without line breaks: when a checkpoint or the understanding gate
  replays some of them, a replaced line is not found and stays as it was, and an
  inserted one runs into the next (`edit_utils.rs:232`).  Renames need a semantic
  context but do not outdate clang's parse (`catalog.rs:275-281`), so that later
  policies get names and offsets of before them.  Six policies
  look only at ranges the last unparsed commit changed.  A candidate of no
  utility is dropped although nothing conflicts with it.
- **Engine.** The identity of a header's symbol is read from this file's text
  at the header's line (`file_context.rs:272`).  No snapshot has the
  declarations of templates (`snapshot.rs:32`), so that a reference to one
  without a USR counts as lost when it moves.  The check after the edits is
  informational, and a text that regressed is written (`coordinator.rs:354`).
- **Runs.** A run of several processes replaces the clusters that another has
  stored meanwhile.  The graph describes the texts before renames and writes.
  The decay of pairs starts over at every persist.
- **Cache.** The key has neither headers nor compile commands nor what was
  learned nor every option (retry, confidence, conflict, language standard), so
  that an answer may be older than these.  Two configurations take turns in
  emptying the one file.  A flush that fails fails the whole run.  The first
  level never answers, as a run asks once per file.
- **Services.** The summary's `dropped_records` is the counter of the child
  process and always 0.  A record over 64 MiB makes no frame and ends the thread
  (`reporter.rs:69`): what is in the queue then is in no count, and the process
  warns of records it cannot read before there is a log (`runner.rs:261`).  A
  format lane reads the output of clang-format to its
  end before it looks at the time.  Arguments are not part of the key of the
  cache of parses, and a consensus that lacks some parses is cached.  Writing
  a request to a helper is under no timeout.
- **Consensus and frames.** Offsets of a rename may win a majority while no
  declaration does; a diagnostic that one of two parses gives twice counts as
  two votes.  One damaged entry of the table of checksums makes a state file
  unreadable although all shards are intact.
- **Renames.** The root is not canonicalized (`config/config.toml:2` and
  `loader.rs` have `.`), so that with the default configuration the paths of
  plans never equal those of clang's references, which are compared exactly
  (`clang_result.rs:158`), and no rename reaches another file; in its own file
  the policy renames all the same.  A plan is exported although the local rename was reverted.  A
  failure in one file leaves the others renamed.  `fooBar` and `FooBar` may both
  be planned for one name.  `_Foo` and `FOO` are accepted by
  `naming_conventions` and reported by `snake_case` for ever.
- **Layout.** `dash_comment_normalizer` needs up to three passes in mode auto.
  `pragma_once_spacing` neither adds nor removes blank lines where
  `README.md:158` says it does.  `include_order` orders the first cluster only,
  drops comments behind includes, and groups that a configured order lacks.
  `compact_declarations` loses comments and earlier declarations of a row it
  joins (`README.md:162`), `class_layout` changes nothing (`README.md:163`).  A parameter list nested in another is
  rewritten twice, several operator names on a line at stale places.
- **Context.** A `#define` reaches to the line after it.  The search for the
  conditional of a line can miss one in a file whose guard contains others
  (`context_query.rs:193`), so that a line in it counts as safe.

## 5. Proofs

All theorems hold for every value of the constants that satisfies the named
assumptions.  `PROJECT.json` lists the results; the lemmas stand before them.

- **WorkerPoolProofs** (`WorkerPoolAssumption`: slots finite and not empty, at
  least one batch).  The invariant `IInv` adds to the types which batch each
  controller, request, process and response is about, and that the results
  held, the leases and the counter together account for each batch once.  From
  it follow `TypeCorrect`, `DeliversOnce`, `MergeNeverMismatches`,
  `SuccessLeavesNoWorker` and `ImplementsLedger`.  `CleanInv` follows what a
  slot has learned as long as nothing has gone wrong: until its worker saves,
  the worker's memory is what its controller has collected (`Waiting`), and one
  batch more between the answer and its collection (`AskedOnce`); nothing is
  saved before the end (`Unsaved`), and from then on the shard holds it
  (`Saved`).  From it follows `CleanPassesLearnOnce`.
- **FormatRunsProofs** (`FormatRunsAssumption`; `OwnDirectories`: runs that
  overlap have directories of their own, which holds of runs one after the
  other, and of runs that do not start in the same millisecond).  `IInv` says
  what each stage of a file in a run tells of its text and of its backup
  (`Jobs`): from the complete copy to the rename, the text the user last wrote
  is in a backup.  It adds that active runs, and an undo, are alone in their
  directories (`Alone`), that a run always finds a free name (`Room`), that
  what a manifest lists is complete (`Listed`), and that an undo restores only
  that (`Asked`).  From it follow `NothingIsLost` and `ListedBackupsAreKept`.
  `UndoIsComplete` is about runs that do not overlap; `Exact` and `Noted` add
  that the backup of a file is what its run has replaced.

  For `AtomicWriter` nothing is assumed of clock, processes and threads.
  `WriterIInv` says that calls under way with one name are known to share it
  (`SharersKnown`), that an inode has one name at most and none once a path
  leads to it (`TempOwned`), that a call writes to an inode of its name
  (`InodeOfName`), and hence that the inode of a call that shares no name is its
  own (`OwnInode`) and one that a path leads to is finished (`FileFinished`).
  A call may go on with the inode a failed call has left.  From it follow
  `ReadersSeeWholeTexts` and `ImplementsReplacement`.
- **EditReplayProofs** (`EditReplayAssumption`: texts of any length over any
  set of words, any number of filters).  The functions of `LineEdits` are
  recursions over lines; what they compute is shown by induction on the number
  of lines, which `UpTo` takes from a least counterexample.  `FlattenJoins` and
  `FlattenBuilds` say where the pieces of a flattened sequence are.
  `SynthesizeRecords` says what is recorded of two texts: nothing of the common
  prefix and suffix, and of the lines between the one against the other
  (`Recording`); `RecordingReplays` that its strict replay gives the second
  text when that has at most one line more.  For the lenient replay `Safe` says
  where it stands behind each edit: up to the first deletion the cursor is where
  it should be (`Straight`); the second looks one line too early and may take
  the line before its own, but only when that has the same text, so that it is
  as if it had taken its own (`Shifted`).  A third deletion looks two lines too
  early, which is finding 3 and the reason why `RecordedEditsExplain` asks for
  at most two (`TwoDeletions`).  `ReplayInv` follows a result through the
  stage: whatever was dropped in between, its edits are recorded ones, which find
  their lines in the text the policy has read (`EditsOf`), or declared ones
  without line breaks (`BareEdits`).  Of the latter a strict replay only accepts
  insertions, which leave the lines that no edit names alone
  (`ReplayedExplains`), and a lenient one without insertions gives back the text
  it was asked to edit (`LenientFindsNothing`).  From it follow `ReplayInverse`,
  `ForbiddenLinesStay` and `EditsExplainTheText`.

  For `StateFrames` (`Sizes`, which `MCAlgorithms` assumes of its instance):
  there are enough shards for a payload (`ShardsHold`), and the pieces into
  which it is cut are put together again as the lines of a text are
  (`CutJoins`, by `FlattenJoins`).  From it follows `FramesAreTrue`, for
  payloads of any length and any damage (`Damages`).
- **PolicyPipelineProofs** (`PipelineAssumption`: finitely many lines, any
  policies, order, priorities and parsers).  `IInv` adds what each property
  needs to be inductive: `Faithful`, that neither the tree at hand, nor the one
  kept for the next parse, nor any in the cache is older than its text, without
  which a later parse could bring an old tree back; `Fresh`, that a context is
  either missing or made of the parses at hand and of the text, but for lines
  whose last editor is not among the accepted candidates; `ClangIsFresh`, the
  same of clang's parse and the edits that outdate it, where the solver keeps
  what a partial roll-back has left from having been accepted before; `Ranked`, that the claim of a line
  outranks all edits and all suppressed edits of it, because the priorities are
  compared with the claimant only, not with those before it; `Owned`, that
  accepted candidates do not conflict; `Reported`, that a changed line is
  reported, voided, or in the result that is at its checkpoint.  The type
  invariant and all six invariants of `policy_pipeline` are theorems.
- **FormatterEngineProofs** (`EngineAssumption`: any files, texts and
  configurations).  `LostOnlyToRaces` speaks of settled observations; `IInv`
  adds that an open clone holds all that was settled without a race in its cell
  (`Clones`), that two open clones of one cell are both marked (`Marked`), and
  that no observation is loaded ahead of its stage (`InOrder`).
  `RemovalsAreReported` is about texts: the pipeline makes a finite sequence of
  lines of one (`Texts`), and an exact context tolerates and relaxes nothing,
  so that the uses left behind, or the dropped identity, make the full check
  answer no.  `LayoutIsHarmless` takes the places to which the lines of a text
  have moved as they are (`Placed`): declarations and uses move along
  (`SeenThere`), the first declaration of a name stays the first
  (`TargetThere`), so that a reference follows its declaration (`RefThere`), and
  names that carry a line change one to one (`There`, `IdsApart`), so that none
  has more or fewer references than before (`CountThere`).  It is about texts
  that use no name of a header and whose templates have USRs (`OwnNames`);
  without either there is a text whose moved lines are reported.
- **ProjectRunsProofs** (`GraphAssumption`, `RolloutAssumption`,
  `RunsAssumption`: files and symbols are finite, any texts and edits).  Four
  invariants, each of which holds together with those before it.
  - `Shapes` says what a process has at each phase, and `Recorded` what its
    record may be there: `JournalTellsTheTruth`.
  - `RolloutInv` says of the file, and of the state each run has read, that its
    counters are streaks at the end of the verdicts gathered since the last
    move (`Streaks`), that an armed state has the passes it needs
    (`AboutProfile`), and that the last move had its streak (`TrueMove`):
    `TheProfileMovesByEvidence`, `TheProfileClosesByEvidence`.
  - `LearnInv` says of both that the counters do not exceed what was learned,
    and are all of it where no run of several processes wrote (`Sound`), and
    that a run starts from what its own copy remembers (`Learns`):
    `WhatIsLearnedIsCountedOnce`.
  - `GraphInv` says of both graphs that they are `Tidy`: no edge dangles, every
    symbol has metrics, its files are counted exactly and its references at
    least.  `Tidy` also keeps edges finite in number, out of files, and with
    weights that are numbers, because a parse merges edges by adding their
    weights: `TheGraphIsConsistent`.

  The parses of a refresh are a recursive function of their number, and
  `WeightTo` is a fold over a set.  That these functions exist and what they
  keep is shown by a least counterexample (`ChainExists`, `ChainKeeps`,
  `ChainKeepsTidy`, `SumsExist`, `SumWithout`), since induction is out of the
  provers' reach.
- **ServicesProofs** (`ServiceAssumption`: any callers, finitely many sets of
  arguments each).  `ClangInv`: all that is in the pipes to a helper is
  one thing, and is about the request its lane waits for (`Pipes`), because a
  lane that gives up replaces its helper; a caller has only parses of its own
  requests (`Own`).  From it follow `ClangTypeCorrect` and `AnswersAreTrue`.
  `CacheInv`: every entry, in the file and in a run, is under the key of what
  it was made of (`TrueEntries`, `Honest`): `CachedAnswersAreTrue`.
  `ReportInv`: report, pipe, buffer and queue hold records in the order of the
  results (`Ordered`), with the drops they are no more than was sent, and all of
  it without a fault, unless the process has died (`Counted`):
  `ReportIsAccounted`.
- **RenamePropagationProofs** (`RenameAssumption`).  `RenameInv`: a text has
  the tokens it had at the start, each under its old name or the suggested one
  (`Version`), every new name is explained by a plan that means it or by a
  definition that clang does not see (`Explained`), files do not change before
  all are formatted (`Untouched`), and after propagation the files with plans
  follow all of them (`Follows`).  The plans are for names the policy is not
  content with, so that the name a plan gives is one no other plan takes away.
  A plan with a path that is not canonical equals no key of clang's, so that
  it replaces nothing.
  From it follow `RenamesHitWhatTheyMean` and `RenamesArePropagated`.

The type invariant of `AtomicWriter` is a part of its `WriterIInv`.  For `FormatRuns`,
`FormatterEngine`, `ProjectRuns` and `RenamePropagation` the proofs use
`Shapes`, which is what of the types they need.

**Only model-checked.**

- `PassEnds` and `ServicesReturn`: liveness needs fairness and ENABLED.
- The properties of `algorithms` but for `FrameIsTrue`, which says of the inputs
  of the run what `FramesAreTrue` proves of all frames: recursions over inputs
  of any length, two of them by RECURSIVE operators (`ConflictSolver`), and
  sequences sorted by an order that is a parameter (`SetToSortSeq`).

## 6. What is left

The model has what was planned, and all invariants that runs check are theorems
but for five of `algorithms`.  The next in reach is that a unit is in exactly
one batch (`BatchPlan`), with the induction that `EditReplayProofs` and
`ProjectRunsProofs` take from a least counterexample.

## 7. Not modelled

- **Floats.** `mat5.rs`, the certainty filter, the retry optimizer, confidence
  and interference estimate with floats and matrices, which TLC cannot compute
  with.  Where their outcome decides, the model takes any outcome: orders,
  batch sizes, thresholds and proposals are constants or choices.
- **Libraries.** tree-sitter, libclang and clang-format, the parity code and
  the checksums are external; the modules say what is assumed of them: a tree
  is that of a text, a checksum tells contents apart, any intact shards that
  are enough give the others back.
- **Scanning of text.** Which tokens a tree or a line has, suppression
  directives in comments, `text_scan.rs`, and `class_layout`, which analyses and
  reports but changes nothing, are left out; kinds of lines and tokens are the
  inputs of `Layout`, `Rewrites` and `NamingStyle`.
- **Reading in.** Configuration, command line, file finder, tool chain and the
  features of files are read once; the values are constants or inputs.
- **Showing.** Telemetry, reasons of gate decisions, log, console output and
  the report tool are written and never read by a decision, except what the
  rollout state takes, which is modelled.
- **Semantic impact.** The table of policies that ask for another semantic
  parse is the mode of refresh of `PolicyPipeline`.
