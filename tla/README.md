# Telora: a verification project

TLA+ models of Telora, a functional configuration language with a compiler, a virtual machine
and a language server: the workspace and its rebuilds, the language server, the two heaps and
the publication of results, module identities, the two module loaders, evaluation with
independent failures, patterns, the compiler and its target machine, and the JSON codec. TLC
checks them on small instances; TLAPS proves the safety properties of most of them for every
value of the constants.

Paths below are relative to `src/crates/`; `telora-core/src/` is left out where it is obvious.

## The system

A program is a graph of modules; evaluating it gives data. The command line evaluates a program
once, the language server keeps a workspace and answers questions about it while it is edited.

| Component | State it keeps | Operations | Talks to |
|---|---|---|---|
| Workspace (`workspace.rs`) | overlays of open documents and the last published snapshot, behind one `RwLock` | `open`, `change`, `close`, `rebuild`, `published` | clock, engine |
| Revision clock, query contexts (`query.rs`) | an atomic revision; cancellation tokens | `advance`, `check`, `checkpoint` | everything long-running |
| Language server (`telora/src/lsp.rs`) | lifecycle, workspace, open documents, registry of request tokens | LSP requests and notifications; scheduled rebuilds | workspace, client |
| Module identities (`module_id.rs`) | a resolver made from the crate on disk | `for_root_source`, `resolve_root`, `resolve_import` | loaders |
| Module engine (`module.rs`) | modules loaded and being loaded, their interfaces and diagnostics | strict loading, recovery of a workspace, replay of bindings, prepared modules | workspace, compiler, vm |
| Evaluation scheduling (`evaluation.rs`) | the state of each unit, an arena of failures | `run`, `output` | engine |
| Heaps (`heap.rs`) | Main (shared, grows only) and one Work heap per evaluation: objects, interned texts and shapes | allocation, interning, up-links, `publish_root` | vm, engine |
| Virtual machine (`vm.rs`) | frames, one stack of registers, the quota account | opcodes, calls, natives and their continuations | heaps, quotas, query context |
| Patterns (`pattern.rs`), checks of matches (`types.rs`) | what the arms so far cover | the arms of a match in order | diagnostics |
| Compiler (`hir.rs`, `lir.rs`, `compiler.rs`) | registers, labels, up-links of the function being compiled | one per form of expression and binding | vm |
| Data codec (`vm.rs`) | decisions of predicates taken so far | `decode`, `encode`, `json.schema` | program's predicates |
| Types, front end, documents, data formats, command line | none across calls | translations | engine |

How the moving parts meet: the editor's notifications change overlays and advance the clock;
every edit schedules a rebuild; a rebuild copies the overlays, loads what the root reaches with
a checkpoint before each module, and publishes if its revision is still the present one;
requests are answered from the published snapshot if it and their context are of the present
revision. A loader asks the resolver for the identity of each import. Evaluations run in a Work
heap, and their results are copied to Main.

Hard behaviours, by part. *Workspace*: the clock is read outside the lock, so contexts, copies,
edits and publications interleave; a failed checkpoint inside a module load is swallowed as if
the module could not be read. *Language server*: one thread, but futures polled in any order;
tokens registered lazily; errors on the way into a handler. *Identities*: several requests for
one file, symbolic links, private modules seen from outside. *Loaders*: cycles, and failures at
every import that must leave what is independent of them in place. *Scheduling*: an arena of
failures with limits; threads that initialize one module. *Heaps*: copying cyclic graphs while
foretelling the slots of a commit that deduplicates; failing halfway. *Virtual machine*: natives
that wait for callbacks which may themselves tail-call natives; four limits; cancellation.
*Compiler*: definitions that refer to each other before they exist. *Codec*: encoding that stops
at a predicate of the program and starts over with its answer.

What makes each correct: snapshots describe the revision they carry; diagnostics and answers are
of the text the editor has; a crate is closed but for its interface, and a module has one
identity; both loaders agree on what a program is; failures stop what needs them and nothing
else; Main is always closed and never changes under its readers; a call's value reaches the
frame that asked for it, within limits that are charged in time; a match without diagnostics
never fails; compiled programs end as their source says; what is encoded can be read back.

## Modules

| Module | Models | Used with |
|---|---|---|
| `SnapshotService` | the promise of a workspace: edits one revision at a time, only complete snapshots of their revision | the abstract specification `Workspace` implements |
| `Workspace` | `workspace.rs`, `query.rs`, and the recoverable builder as far as a rebuild needs it | `MCWorkspace`, `WorkspaceProofs` |
| `LspServer` | `lsp.rs` over one workspace | `MCLspServer`, `LspProofs` |
| `Heap` | `heap.rs`: allocation, interning, up-links, publication | `MCHeap`, `HeapProofs` |
| `Vm` | `vm.rs`: calls, returns, natives with callbacks, limits | `MCVm`, `VmProofs` |
| `VmMeaning` | a recursive evaluation without frames, the reference for `Vm` | `MCVm` |
| `ModuleId` | `module_id.rs`: layouts to resolvers, requests to modules | `MCModules`, `StaticProofs` |
| `ModuleGraph` | what the loaders read: one record per module, and what it needs to be evaluated | `SourceTrees` (the trees tried) |
| `StrictLoader`, `Loader` | `module.rs`: `ModuleLoader`, and `RecoverableWorkspaceBuilder` | `Loading` |
| `Loading` | both on one source tree, one after the other | `MCLoading`, `LoadingProofs` |
| `EvaluationPlans`, `Evaluation` | `evaluation.rs`: best-effort sessions and the failure arena | `MCScheduling` |
| `Replay` | `module.rs`: `evaluate_independent_bindings` | `MCScheduling` |
| `PendingModule` | `module.rs`, `entry_runtime.rs`: prepare, inject, initialize | `MCScheduling`, `SchedulingProofs` |
| `Patterns`, `MatchCheck` | `pattern.rs`, and the checks of arms in `types.rs` | `MCLanguage`, `StaticProofs` |
| `Syntax` | programs, name resolution (`hir.rs`), short forms (`elaboration.rs`) | `Compiler` |
| `Operations`, `Compiler`, `Machine` | what instructions compute; `compiler.rs` and `lir.rs`; the machine that runs the result | `LanguagePrograms`, `MCLanguage` |
| `Meaning` | the meaning of a program read off its source, the reference for the three above | `MCLanguage` |
| `Codec`, `JsonSchema`, `StdJson` | `vm.rs`: the codec of a type, its schema, and a whole call of `std/codec` or `std/json` | `MCData` |
| `Recursion` | induction over the naturals and facts on folds, for the proofs | `VmProofs`, `SchedulingProofs`, `StaticProofs` |

**Workspace.** `clock`, `lock`, `overlays` and `published` are the fields of `Workspace`; the rest
are the locals of editor threads and rebuild tasks. An edit is two steps, as in the code: insert
under the lock (`Open`, `Change`, `Close`), then `Advance` the clock and release. A rebuild is one
step per section between checkpoints: take a context, copy, load or skip a module, finish,
publish. A checkpoint is check, yield, check; since the clock only grows and tokens stay
cancelled, the second check implies the first, and one test stands for both. Sections under the
read lock, which take no other lock and call nothing that waits, are one step. The disk changes on
its own (`WriteDisk`). `SnapshotService` is implemented with `inputs` and `revision` read off
the overlays and the clock, an edit counting from its `Advance`.

**LspServer.** A handler, and a future between two yields, is one step, because the server runs on
one thread. Which future is polled next is arbitrary: the main loop and the task set decide it.
Each edit has its rebuild task (`tphase`, `tctx`, `tcopy`); each request future has its phase,
the snapshot it took, and its token. The editor conforms to the protocol: it opens what is
closed, changes what is open with growing versions. Rebuilds take the overlay copy, the reading
and the publication of `Workspace` with one yield between copy and publication, which is where
another step may come between on one thread.

**ModuleId.** A path is a sequence of names; `layout` is a crate on disk with its manifest, links,
options and what its modules import. `resolver` is what `for_root_source` makes of it or why it
refuses. `Enter` resolves all imports of the modules reached: resolving keeps no state, so their
order cannot matter. Built-in, injected and virtual modules are names without a file.

**The loaders.** A module is what it exports and uses, its imports, and the first thing wrong with
it. `compile_telora` and `load_telora` are recursions in the code; here their calls are the frames
of a stack, one import per step. `StrictLoader` ends at the first error; `Loader` goes on, keeps
what it could read as inputs, and may be cancelled at any checkpoint, where the failed checkpoint
looks like a module that could not be read. `Loading` runs one after the other, so that what they
say can be compared.

**Scheduling.** A unit of a session has dependencies and an outcome; `nodes` is the arena. A
binding of a replay has a name, the names it refers to, what it reports and how it ends. The
handle of `@main` is a state behind a mutex, which is not held while the module is loaded; any
thread may inject or initialize. The three share no state, so `MCScheduling` lets one of them run.

**Heap.** `main` and `work` hold objects, texts and shapes as sequences, a slot being an index. An
object is the references it holds in the order the copy visits them. `publish_root`, a recursion
in the code, is a stack machine: `path` is the calls of `copy_object` and `copy_shape` under
way, each step copies one value. `Refused` is an up-link that was never initialised, where the
code gives up and Main must be as before; `Discard` is an evaluation whose result nobody wants.

**Vm.** `frames` and `stack` are the locals of `execute_frame`, `action` is what
`drive_vm_action` loops over. A `ReturnTarget` is a register or `Root` inside a sequence of
native continuations, innermost first, which is the chain of boxes in the code. One step is one
instruction, or one round of `drive_vm_action`. `React` charges what a native allocates, then goes on.
Bytecode is not assumed sound: reads of unset registers, jumps and windows out of bounds fail as
the code makes them fail. Cancellation may come at any time and is seen by `consume_fuel`.

**Compiler and Machine.** A compiler state is a record that each rule takes and returns, the
first error stopping it. `Machine` runs the instructions one by one, with the cells of up-links;
`Vm` has the natives and limits it leaves out. `Meaning` gives a program a value without
registers, captures or up-links. A value whose type is `Any` stands for what the type checker
lets through unchecked.

**Codec.** A type is its metadata with the attributes that decorators leave on it. `StdJson` is a
call: it goes on until it needs the answer of a predicate, records the answer and starts over,
as `JsonEncodeContinuation` does.

## Runs

| Run | Question | Bounds |
|---|---|---|
| `workspace` | Are snapshots coherent and never older, under overlapping rebuilds, edits, cancellations, engine errors and a changing disk? Does it implement `SnapshotService`? Does an undisturbed rebuild publish? | 2 documents, 1 editor thread, 2 tasks, 2 edits |
| `lsp` | Are diagnostics and answers of the present text, is the last edit diagnosed, is the registry exact, does all that was accepted end? | 2 documents, 2 edits, 2 requests, 2 ids, file or directory root |
| `heap` | Is any graph copied exactly, without re-entry, to an end? Do texts and shapes keep one slot? | 2 texts, total weight 5 (below), 2 fields, 2 publications |
| `vm` | Do calls compute what the program means, within every limit, and end? | below |
| `modules` | Are crates closed and identities unique? | 7 crates, 5 sets of links, with and without an entry |
| `loading` | Do both loaders visit, read and keep what they should, and agree, but for the errors only one looks for? | 3 sources and a root: every shape, every import of every fault |
| `scheduling` | What runs, what is blamed, is a module made once? | 4 units, 3 bindings, 3 threads, 2 edits of the file |
| `language` | Are matches without diagnostics total, reports true and the elses of let-else live? Do compiled programs end as their source says? | 12 types, 3 arms; some 14000 programs |
| `data` | Does stopping at predicates change nothing, do values round-trip, does the schema say what `decode` accepts, with the exceptions below? | pairs of decorators, values of depth 3 |
| `lsp_panic`, `strict_leave`, `language_shadow` | what a comment, assertion or document says and the code does not do | below |

Why the bounds are enough.

* `workspace`: two tasks and two edits give every order of copy, edit, edit, publish; a third task
  repeats a race of two, since tasks meet only in `published`. Two documents are needed for a
  module reached through an import. From the last edit on, task `Late` takes no part and the disk
  is empty: by then two tasks have met at every earlier revision, and the last needs one.
* `lsp`: two edits of versions 1 and 2 give open, change and close. The second request and id
  (`Second`) are used before the last edit and once a file is named, which is where two requests
  can meet a revision that passes.
* `heap`: `MaxSize` weighs objects, texts and shapes together; with 5 and two fields there are
  self-loops, cycles, sharing and diamonds, and two publications are what a second copy needs to
  find the first one's texts and shapes. `MaxRuns` and `MaxFields` are guards of the program.
* `vm`: a main function, a callback and a helper. Main calls every native on every small
  collection, plainly and in tail position; the callback has twenty bodies (answer, loop, recurse,
  suspend on another native plainly or in tail position, close over its argument, report, fail,
  break every bytecode rule); three helpers end, recurse or fan out. Four quotas are ample, short
  of fuel, of stack and of allocation; the depth limit is 5, so that recursions meet it.
* `modules`: a working crate, one with a manifest, with options, with both, a file alone, a crate
  that depends on itself, a private main module; no link, one in the sources, to the main module,
  out of the crate, and the dependency's sources behind one. Requests name every form, existing
  and not, private and native, and climb out of both crates.
* `loading`: every graph of three sources with up to two imports each; every pair of imports
  (plain, open, one item, unresolved, built-in) of modules with each fault that either loader
  finds, of data with the faults of data, and under a root that fails when it is run; and every
  tree with one of the three errors only the strict loader looks for, in the root or below it.
* `scheduling`: every plan of four units with any dependencies and outcomes, two of them at one
  location, under twelve limits of the arena; every replay of three bindings that may hide a name.
* `language`: arms over atoms, tagged values, tuples, structs and enums nested twice, guarded or
  not, and subjects of which the checker knows nothing (`Any`) or nothing of what they hold (`Dict`,
  `Other`). `MaxDepth` = 3 is one more than the deepest of these patterns. Programs of a few
  bindings over a few names, with blocks inside functions, inner definitions used ahead, descriptors
  named in functions and types in any order; integers are bounded by `MaxInt` = 3, where arithmetic
  overflows, so that overflow happens; texts are sequences of pieces. Definitions do not share names
  with lets or patterns here: that case is `language_shadow`.
* `data`: every pair of decorators on a field of several types, flattened and recursive structs,
  tagged and untagged enums, options, unions, links not ready. Values to depth 3, and near misses.
  Names include a key with a dot, and dicts, unions and enums hold predicates; inputs include
  floats, whole and not.

`CHECK_DEADLOCK FALSE` is in every run but `vm`: the editor may stop, loads, sessions and pure
functions end; that they end only with an outcome is what the liveness properties say. `vm` ends in
a stutter allowed only once an outcome is there, so a state in which an evaluation can neither go on
nor end would be reported.

### Fairness

* `Workspace`: `Advance` of a thread that holds the lock (it does not wait for anything there), and
  the steps of a rebuild task. A task that yields has woken itself (`YieldOnce`), so a fair
  executor polls it again. No fairness for edits, cancellations, engine errors or the disk.
* `LspServer`: each rebuild task and each request future, for the same reason. None for the client.
* `Heap`: `Publish`, one synchronous call. None for what the program evaluates.
* `Vm`: `execute_frame` is one synchronous loop, so its steps are fair together. None for `Cancel`.
* `Loading`: each loader, a synchronous call and a self-waking future. None for `Cancel`.
* `PendingModule`: a thread that has taken the modules loads and stores. None for who calls.

## Findings

* `lsp_panic`. With a directory as root, a first `didOpen` whose path cannot be resolved leaves no
  workspace, and the next change or close of that document fails the assertion "running server has
  workspace" (`lsp.rs:473`).
* `strict_leave`. An import of a data file that cannot be read returns between `enter` and `leave`
  (`module.rs:2471`), and a debug build stops at the assertion in `leave` (`module.rs:3093`).
* `language_shadow`. A pattern, or a `let` in an inner block, that takes the name of a definition
  of an enclosing block does not hide its up-link (`compiler.rs:1424`), and the program ends in
  `InvalidBytecode`.

Differences between code and documents met while modelling, without a run of their own:

* Language server: a document opened through a symbolic link gets no diagnostics (`lsp.rs:541`); a
  cancel handled before the request's first poll is lost (`lsp.rs:114`); a document that leaves the
  snapshot keeps its diagnostics (`lsp.rs:542`); a client that reuses a cancelled id before the
  response makes the old future remove the new request's token (`lsp.rs:179`), so with
  `UniqueIds = FALSE` `RegistryOwnsActive` fails.
* Identities: a dependency may be named like a registered module. `std/./x` is then a module of
  the dependency `std` (a test, `module_id.rs:893`, has one) and shown as `std/x`, a name a
  built-in may have too; RFC 0059 says that `@main` is no module an import produces, which the
  entry's own import of it does. Privacy is decided by the logical path, authority by the file.
* Loaders: three errors are looked for by `compile_telora` and not by the recoverable loader: a
  value given to an option (`module.rs:2649`), an import inside an expression (2694) and a name
  imported twice (2714). The snapshot may show nothing wrong of such a program, which does not
  load. A root that exhausts a quota loads strictly, but its snapshot shows neither a value nor a
  diagnostic. `LoadersAgree` states these exceptions, and that there are no others.
* Compiler: a closure inside a recursive definition's body finds an inner definition "unknown"
  (`free_block`, against RFC 0013:236), and likewise a closure that names a descriptor of the prelude (`Int`);
  such descriptors win over a `let` of their name. `let y = T` before `type T` resolves but does not compile.
  The programs of the run include all three; `ResolvedCompiles` excepts them and shows that no other
  resolved program is refused.
* Codec: decisions of predicates are kept by the text of the path (`vm.rs:6318`). A dict key with a
  dot shares its path with a field further in (7008), and the variants of a union share one (7115),
  so a field may get the answer given to another, against RFC 0036:62. `EncodesInPlace` excepts
  values with such keys and unions of which two variants ask (`PathsTellFields`); the run has both,
  and without either exception TLC finds the property violated.
  The schema of an `Int` accepts 1.0 (8383), which `decode` refuses (6928), against RFC 0033:26;
  `SchemaDescribesDecode` excepts whole floats where an `Int` is taken, and parts the schema
  approximates (`Approximated`: "number" accepts integers, which are no `Float`).
  Whole floats are written without a point and read back as integers; `Some(None)` is written as `None` is; structs that contain themselves directly or by
  flattening make planning and schema generation recurse without end.
* Types: the boundary of a function with early returns is typed `Never` (RFC 0125); a union is not
  assignable to itself; parameters are checked covariantly.

## Proofs

Constants are arbitrary but for the named assumptions in each module; nothing is bounded to the
sizes TLC uses. The theorems listed in `PROJECT.json` are these; the first column of "states" are
properties that runs check too.

| Module | Theorem | States |
|---|---|---|
| `WorkspaceProofs` | `Coherent`, `NeverOlder`, `Implements` | `PublishedCoherent`, `PublishedNeverOlder`, `ImplementsService` |
| | `TypeCorrect`, `InvHolds` | types; the inductive invariant |
| `LspProofs` | `RegistryHolds`, `DiagnosticsCurrent`, `DiagnosticsCatchUp`, `AnswersCurrent` | `RegistryOwnsActive`, `DiagnosticsAreCurrent`, `DiagnosticsCaughtUp`, `AnswersAreCurrent` |
| | `LspTypeCorrect`, `EditingHolds`, `NeverPanics` | types; the inductive invariant; when `lsp_panic` cannot happen |
| `HeapProofs` | `HeapInvHolds`, `Grows`, `Interned`, `Publishes` | `HeapInv`, `MainGrows`, `InternedOnce`, `PublishesTheGraph` |
| | `HeapTypeCorrect`, `SelfContained`, `GraphInvHolds` | types; Main is closed; what each copy is made of |
| `VmProofs` | `WindowsNeverOverlap`, `ReturnsAreDelivered`, `LimitsHold` | `FramesPartitionStack`, `ReturnsFindTheirCaller`, `WithinLimits` |
| | `VmTypeCorrect` | types; fuel never wraps |
| `StaticProofs` | `CratesClosed`, `OneIdentityHolds` | `CratesAreClosed`, `OneIdentity` |
| | `IdentitiesHold` | an identity is one module, whatever the names |
| | `MatchesAreComplete`, `DiagnosticsAreTrue`, `ElsesAreLive` | `MatchNeverFails`, `ReportsAreTrue`, `ElseIsLive` |
| `LoadingProofs` | `StrictRight`, `SnapshotRight`, `KnownHolds`, `LoadersAgreeAlways` | `StrictIsRight`, `SnapshotIsWhole`, `KnownIsRight`, `LoadersAgree` |
| `SchedulingProofs` | `MakesOnce`, `BlamesItsOwn`, `RunsIndependent` | `MadeOnce`, `FailuresAreOwn`, `IndependentUnitsRun` |

**Workspace.** `PublishedCoherent` is not inductive: a task between copy and publication must be
known to hold the present overlays. `WorkspaceInv` says that while a task's context is good (its
revision is the present one and no edit is half done), its copy is of the present overlays, what
it loaded is what those overlays and imports say, and nothing was skipped. Skipping needs a
failed check, and a check that failed once fails for good. `Implements` maps each publication to
`Publish` of `SnapshotService`, `Advance` to `Edit`, everything else to a stutter.

**LspServer.** `Registry` relates tokens to requests: what is registered is a live query, a query
is registered until it is cancelled, ids of requests in flight differ (`UniqueIds`, without which
the property fails as described above). `Editing` relates the text the client holds, the open
document, the overlay and the copy of a rebuild whose revision is the present one, and says that
a snapshot that carries the present revision is a reading of the present overlays. The
diagnostics theorems assume `NoLinks`, since a document opened through a link gets none, and
`DiagnosticsCatchUp`, `AnswersCurrent` and `NeverPanics` also `AllReadable`: for files that cannot be read, the
server gives up in the way `lsp_panic` shows.

**Heap.** That Main is closed is not inductive across a copy. `HeapInv` adds that whatever the copy
holds (fields copied so far, forwarded references, pending objects and shapes) resolves in Main
extended by what is pending; pending texts and shapes are new to Main and distinct, so the commit
appends exactly those and no foretold slot moves. From that, `InternedOnce`. `PublishesTheGraph`
needs `GraphInv` as well: each call holds the images of the fields it has copied; each forwarded
reference has its copy at the slot it forwards to, unless its object is still under way, which no
object is at the commit; forwarded objects have slots of their own; and what a copy refers to is
settled, so that no later step changes its image. A shape is on top of the stack only, since
shapes refer to texts, which are copied without a call.

**Vm.** `FramesPartitionStack`, `ReturnsFindTheirCaller` and the types are inductive only together:
a return truncates the stack at the base of its frame, which is where the window of the frame
below ends; the value then has a register to go to; and that needs natives to pass on the target
they were called with (`Answers`). `LimitsInv` adds that natives leave at most one more continuation
waiting than their frame gave up (`Reacts`), and collect no more than they charge. The depth and the
collected outputs are sums over frames, for which `Recursion` has the lemmas.

**ModuleId.** `ModulesInv` says that what is reached is exactly what resolving its identity gives
(`IsModule`), and that each edge respects who may see what (`MayReach`). `OneIdentity` needs
`NamesInv` as well: paths in identities are in normal form, names are dependencies' names, the
sources are normal paths, and each edge is what its request resolves to. That normalising gives a
normal form, leaves one as it is, and that links which are not there change nothing, are lemmas
on folds by induction over the path. `OneIdentityHolds` assumes `NamesApart`: nothing is registered
under a form of request or the name of a dependency. Without it two modules can be shown under one
name (the finding above), so the assumption cannot be dropped; the layouts of `modules` satisfy it.

**Patterns.** The checker walks a pattern down its type, the code walks it down a value, and what
holds of the pattern is put together of what holds at the visits of the walk. `Levels` gives those
visits by depth, so that the proofs need no induction over trees, only one over the depth. `Typed`
is kept along the way: each visit of the code has a visit of the checker at the same path, whose
type the value there is of. From this, level by level: a pattern that is irrefutable matches every
value (`IrrefutableMatches`); one that covers a variant matches the values of that variant
(`CoveredMatches`); what matches is of a possible variant and is not called incompatible, unless
the pattern has a problem of its own (`MatchIsPossible`, `MatchIsCompatible`: a struct pattern put
to a `Dict` may match, but is reported as a problem instead); what is bound has the type given
(`BindingIsTyped`). For the else of a let-else it goes upwards: a part that some value fails is a
part of some value of the whole, whatever its other parts are (`RefutableFails`). `MatchInv` then
says what the arms so far mean: covered variants and `all_values_covered` are values that an
unguarded arm takes (`CoverInv`), each report of the last arm has the reason in its analysis
(`LastInv`), reports of an arm are at places of its own (`PlacesInv`), so that the first report at
a place, which stays, hides none of another arm, and a form that ended without a report asked what it had to
(`SilentInv`). Assumed are `PatternsAssumption` (patterns are trees within `MaxDepth`, of any size
otherwise), `ValuesAssumption` (the values of a type are built as `validate_value_ref` has it) and,
for `ElsesAreLive` only, `VarietyAssumption`: no type is empty, an `Int` or a text may be another
one, and what the checker knows nothing of is not all of one kind. For `Never` and for a union
whose members are of one kind the code accepts a let-else whose else is dead. Float patterns are
treated as those of `Int`.

**Loading.** `StrictInv`: the visiting list is the stack, what is cached evaluates, and if the root
compiles, then so does all that is under way. `RecoverInv`: calls are a path, each at the import of
the module above it (`Chain`); a module that evaluates gets everything it imports; as long as
nothing is reported, all values are right; until cancelled, what is met is kept and read once.
`LoadersAgreeAlways` compares two ways of evaluating a graph bottom-up: what the strict loader
evaluates (`Evaluable`) is what the recoverable one does (`Recoverable`), except over a module with
an error of the strict loader alone (`StrictOnly`). It has the exceptions of `LoadersAgree`, no more.

**Scheduling.** `HandleInv`: not started, under way on one thread, or ended. `SessionInv`: each state
is explained by the unit's own outcome or a failed dependency, and each node's causes are its
units' dependencies' failures. `ReplayInv`: what ran referred to values only, and what did not
run names something without one. The assumptions on plans and programs are what
`BestEffortSession::new` checks and what resolution ensures: dependencies come first, names differ.

Only model-checked:

* liveness (`RebuildReaches`, `RebuildsEnd`, `RequestsAnswered`, `PublicationEnds`, `Terminates`,
  `LoadingEnds`, `Settles`), which is out of the prover's reach;
* what compares with a recursive definition (`ResultIsMeaning`, `CompiledMeansSource`,
  `ResolvedCompiles`, `EncodesInPlace`, `RoundTrips`, `SchemaDescribesDecode`): induction over
  data is out of the prover's reach. Patterns are recursive too, but are proved about by depth.

## Not modelled, and why

* Types: inference and unification. MatchCheck has the checks over patterns; the rest is large,
  sequential, and needs syntax trees with contexts.
* Source locations, traces and messages: carried along, no control depends on them.
* In `Vm`: opcodes that compute one value (they are in `Operations` and `Machine`), strings, paths, hashes.
  Allocation is charged in value slots, the key of a dict's entry counting as one.
* In `Compiler`: the metadata initializer's own compile, promoted type constants, source maps.
* In `Heap`: import and export of values across the API, equality, the u32 limit of slots.
* In `LspServer`: the shape of answers, position encodings, capability negotiation.
* The texts of JSON, TOML and YAML, lexer, parser and formatter, UTF-16 positions, regular
  expressions and hashing: conversions of text without state, tested against tables.
* The command line, which drives the engine once and ends.

## Plan

1. Proofs: that `Loader`'s snapshot is what `Workspace` assumes of a reading.
2. Types: unification and assignability on small type terms, with the checks of calls.
3. Positions: line index and UTF-16 conversions against the text.
