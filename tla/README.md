# TLA+ model of the gollvm tree-integrity checker and its build

This directory holds TLC-checked models of three parts of gollvm:

- `IntegrityVisitor`, from `go-llvm-tree-integrity.cpp` (`src/unnamed/part_000`);
- the libgo CMake helpers (`src/unnamed/part_001`);
- the top-level `CMakeLists.txt` and the build it generates. That file is
  stored after the driver's `Command.cpp` (`src/driver/Command.cpp`, lines
  55-208).

`IntegrityVisitor` is `IntegrityVisitor` is the checker that the gollvm bridge runs over its IR trees (Bnodes). A Bnode
tree must be a tree, not a DAG. Some sharing is allowed:

- an expression node may be shared when its subtree is cheap to copy, and
  the checker then repairs the sharing by cloning it;
- every other kind of sharing is reported as an error.

## The system and its parts

| Part | Code | State | Operations |
|---|---|---|---|
| Parent tracker | `setParent(Bnode*,...)`, `unsetParent` (39-135) | `nparent_`: child -> (parent, slot) | record the first parent; detect a second parent; forget a parent |
| Instruction parent tracker | `setParent(Instruction*,...)` (137-158) | `iparent_` | record the first owning expression; count the rest |
| Sharing ledger | members | `sharing_`, `exprShareCount_`, `stmtShareCount_`, `instShareCount_` | written by `setParent`, `examine`, `repair` |
| Classifier | `repairableSubTree` (160-196) | none (a worklist) | decide whether a shared expression may be cloned |
| Repair engine | `repair`, `ScopedIntegrityCheckDisabler` (198-235) | the tree (via the builder) | clone each shared slot and rewire the parent |
| Traversal driver | `visit`, `examine` (237-282) | none | walk a tree (batch) or one node (incremental); decide |
| Diagnostics | `dump`, `dumpTag`, `ss_` | a text buffer | not modelled |
| Node builder | outside `src/` | the Bnodes | modelled from the spec only where the checker uses it |
| libgo Go-file generators | `src/unnamed/part_001` (`mkversion`, `mkgccgosizes`, `mkobjabi`, `mkzstdpkglist`, `mkzdefaultcc`, `mkepoll`, `mksyscallarch`, `upperfirst`, `emitversionstring`) | generated `.go` files; configure status | each call rewrites one file |
| libgo copy rules | `copy_if_different`, `generate_go_from_script`, `generate_go_from_archived` | `add_custom_command` rules | each call adds rules |
| Top-level CMake and build | `src/driver/Command.cpp` 55-208 | cmake cache (`MPN_PATH`, `EXTCPPFLAGS`, `gocdep`); stamps of the build's targets | cmake run; make -jN; external-project steps; compiler edits |
| Driver `Command` | `src/driver/Command.cpp` 1-53 | the executable and argument list | not modelled |

The parts interact as follows:

- `examine(node)` calls `visit`. In batch mode `visit` walks the whole subtree
  children-first; in incremental mode it looks at the node only.
- For every edge it calls `setParent`. `setParent` compares the edge with the
  persisted `nparent_` entry. A second parent either:
  - goes into `sharing_`, when it is an expression whose subtree the
    classifier accepts (and repairs are not reported); or
  - bumps a counter.
- `examine` then fails if any counter is non-zero.
  - In incremental mode it clears `sharing_` and succeeds, leaving the repair
    to a later batch pass.
  - In batch mode it repairs. `repair` builds a
    `ScopedIntegrityCheckDisabler`, which saves the builder's
    integrity-check flag and switches it off. It then classifies each shared
    child once, clones it with `BnodeBuilder::cloneSubtree` and calls
    `replaceChild`. The disabler's destructor puts the flag back on every
    return. With the flag on, the builder would check each node it rewires
    against the same tracker state that the loop is walking.
- The builder calls `unsetParent` when it takes a node away from a parent.
  When it converts a node into another with the same children, it calls
  `unsetParent` for every slot in turn.

The top-level build is separate from the checker:

- A cmake run splits `LLVM_DEFAULT_TARGET_TRIPLE` at `-` and picks `MPN_PATH`
  from its first field. An unknown arch gets `SEND_ERROR`, so no build is
  generated.
- It also computes `EXTCPPFLAGS`, and the `gocdep` list that libgo's rules
  depend on. `DISABLE_LIBGO_GOC_DEP` cuts that list to the token.
- make then runs the `libgmp`, `libmpfr` and `libmpc` external projects
  (download, configure, build-install). `DEPENDS` orders these projects.
- After them it builds the compiler `llvm-goc` (the `add_subdirectory`
  targets), `llvm-goc-token`, `libgo` and `gotools`.

The visitor is single-threaded and synchronous. Each public call runs to
completion, so the model makes each call one atomic step. What makes the code
hard to test is the state that persists between calls (`nparent_`, `iparent_`,
the counters), the iteration order of `repair`, and its abort path.
`RepairSteps.tla` splits `repair` into its loop iterations, so that a check
by the builder between two iterations becomes visible.

## Modules

### `IntegrityVisitor.tla`: the visitor and the tree it checks

**Variables.** Tree variables:

- `kids`, `shape` and `insts`: the Bnodes' children, flavour or operator, and
  LLVM instructions;
- `nextNode`: the builder's next free handle.

Visitor variables, one per member: `nparent`, `iparent`, `sharing`,
`exprShareCount`, `stmtShareCount`, `instShareCount`. `last` records the node
and outcome of the latest `examine`, so that properties can be stated about it.

**Code operators.** The helpers are pure, recursive operators over a visitor
record and a tree record:

| Operator | Code |
|---|---|
| `SetParent` | `setParent(Bnode*,...)`, following its early returns in order |
| `SetParentInst` | `setParent(Instruction*,...)` |
| `ScanWorkList`, `PushKids`, `Acceptable`, `AcceptableFlavors` | `repairableSubTree` |
| `Visit`, `VisitKids` | `visit` |
| `RepairLoop` | the loop of `repair` |
| `Counted`, `Defer` | the decision steps of `examine` |

**Actions.**

- `Examine(n)` is the whole of `examine(n)`, including the repair and its
  rewiring of the tree.
- `UnsetParent(child, parent, slot)` is `unsetParent`, called for an edge
  that is present.

**Modelled from the spec.** The node builder is not in `src/`, so two of its
parts are modelled from the spec:

- `FrontEndTrees`/`NewNodes` with `Init`: every DAG of `NumInit` nodes the
  front-end can build, as long as every node but the last has a parent;
- `CloneSubtree`/`CloneKids`: a deep copy with fresh handles from the pool
  `NumInit+1..MaxNode`.

`std::set` pointer order is not reproducible, so `Examine` takes any order
(`SetToSeqs(sharing)`). A repair that would need more fresh nodes than the
pool holds is not taken (`CloneDemand`); this is a model bound, not a code
path.

### `MCIntegrityVisitor.tla`: the model-checking harness

It instantiates the shapes as model values:

- variable, module-scope constant (untracked), dereference;
- `+` (repairable) and `*` (not in the whitelist);
- error node and block statement.

Three shape sets are used:

- `MCShapes`: all seven shapes;
- `MCBatchShapes`: all but the dereference, for the batch run that reuses
  the visitor, because `+` already covers a whitelisted node that carries an
  instruction;
- `MCTrackedShapes`: all but the constant.

It bounds the number of calls with `MaxCalls` (`calls`), and records the nodes
examined in incremental mode (`examined`). There are two specifications:

- `ReuseSpec`: a reused visitor that receives both `examine` and
  `unsetParent` calls;
- `ExamineSpec`: `examine` calls only.

`ReparentKids(p)` (in `IntegrityVisitor.tla`) is the builder's reparenting
loop, modelled from the comment above `unsetParent`. It calls `unsetParent`
for slot 1, 2, ... of `p`, each with its assert. It ends in outcome
`"unset_assert"` when a call finds no entry for a tracked child. `ReparentSpec`
(in the harness) interleaves it with `examine` calls on nodes already
examined, while no `examine` has failed. That is the order in which an
incremental builder works.

### `RepairSteps.tla`: repair() step by step, with the builder's flag

This module extends `IntegrityVisitor`. Its extra variables are:

- `checks`: the builder's `integrityChecksEnabled()`;
- `phase`: `"repairing"` while `examine` is inside `repair`;
- `pending` and `visitedR`: the loop's remaining `sharing_` entries and its
  local `visited`;
- `val`: the disabler's `val_`;
- `call`: a history variable holding the node and the state before the call.

Its actions are:

- `ExamineNoRepair(n)`: `examine` returning before `repair`. This is
  `Examine(n)` with the repair path excluded.
- `RepairBegin(n)`: the visit, and the disabler's constructor (`Disabler`).
- `RepairStep`: one iteration on any remaining entry, since `std::set`
  order is pointer order. Either the classifier fails, and `repair` returns
  false through the destructor (`Restore`), or the slot is cloned and
  rewired.
  - If `checks` is on at that moment, the builder's check of the rewired
    node (`NestedCheck`, modelled from the spec's reentrancy paragraph)
    registers that node's edges in `nparent_` and clears the ledger, as an
    incremental `examine` does.
  - A ledger cleared under the loop invalidates the iterator. The modelled
    outcome is that the loop ends.
- `RepairDone`: `sharing_.clear()`, `exprShareCount_ = 0`, and the
  destructor.

`Atomic == INSTANCE IntegrityVisitor WITH ...` maps every variable to its
value in `call` while `phase = "repairing"`, and to itself otherwise. The
atomic spec therefore stutters through the loop and takes the whole
`Examine` step when `RepairDone` fires. `MCRepairSteps.tla` runs two
`examine` calls on one visitor, with `checks` either on or off initially.
`FreshVis` is the visitor as its constructor leaves it.

### `IntegrityContract.tla`: what one examine() promises

This is an abstract specification written from the spec's invariants and
testable properties, without the visitor's tables. Its variables are the
Bnodes (`kids`, `shape`, `insts`, `nextNode`), `verdict`, and `target`, the
node the last call examined. Its one action is `Examine(r)`, which sets
`target` to `r`:

- when `Accepts(r)` holds (no instruction under two expressions, and every
  aliased node an expression of whitelisted flavours), the verdict is `"ok"`
  and the tree after the call has no aliasing below `r`, keeps every
  existing node's `Value`, and is unchanged if nothing was aliased;
- otherwise the verdict is `"failed"` and nothing changes.

It states the promise for a fresh visitor, which is the spec's lifecycle.
A reused visitor breaks it: see finding 2, sticky counters. A reused
visitor also sees, through `nparent_`, aliasing between the subtree and
nodes an earlier call visited outside it, which this per-subtree contract
does not mention.
`RepairSteps.tla` maps its state onto this module, with `VerdictOf`
translating the outcome, in the same way as `Atomic`.

### `GoBackend.tla`: the builder's visitor and the body's visitor

This module composes two instances of `IntegrityVisitor`:

- `Inc`, with `VisitMode <- "IncrementalMode"`;
- `Bat`, with `VisitMode <- "BatchMode"`.

Each instance has its own tracker variables (`inc*`, `bat*`). Both share
the Bnodes. The builder's protocol is modelled from the spec, since the
builder is outside `src/`:

- `BuildNode` examines node `built + 1` with `Inc`, while every earlier check
  succeeded;
- `SetBody` examines the root (`Root`, the last node) with `Bat`, once all
  nodes are built and checked.

### `GollvmBuild.tla`: the top-level CMakeLists.txt and its build

The cmake run is modelled as follows:

- `Evaluate` is one cmake run: `SplitDash` (the `REGEX REPLACE` and
  `separate_arguments`), `LlArch`, `MpnPath`, `ExtCppFlags` and `GocDep`.
- A triple is a sequence of substrings with `"-"` tokens between them. The
  split is therefore computed, not assumed.
- `Configure` is the first cmake run, or a run after `SEND_ERROR`.
- `Reconfigure(d)` reruns cmake with the cached triple, sysroot and PIC
  setting and a new `DISABLE_LIBGO_GOC_DEP`.

make works the way GNU make does:

- `stamp[t]` is the mtime of t's output or stamp file, and `clock` is the
  file-system time.
- `OutOfDate(t)` holds if t has no stamp, or if one of the files t depends on
  (`FileDepsOf`) is newer.
- `StartJob(t)` runs once nothing below t is out of date or running, with at
  most `Jobs` recipes at a time.
- `JobSucceeds` writes the stamp. `JobFails` writes none and makes make stop
  starting jobs. `FinishMake` ends the run as `"ok"` or `"failed"`.

`DEPENDS` is a target-level dependency. It orders one project after another,
but a rebuilt `libgmp` does not make `libmpfr` out of date. `llvm-goc-token`
only needs `llvm-goc` to exist. These choices follow the comment at lines
156-165.

Between runs the developer may edit the compiler sources (`EditCompiler`),
which touches `goc-sources`. The versions `edits`, `gocVer` and `libgoVer`
record which sources each binary was really built from.

`BuildOrder.tla` is the abstract specification of any build. Targets come
into being one at a time, each only once everything its recipe reads
(`Needs`) exists. `GollvmBuild` instantiates it with
`built <- {t : stamp[t] > 0}`. `Needs` is taken from what the recipes
actually read:

- the `--with-gmp`/`--with-mpfr` libraries of each `CONFIGURE_COMMAND`;
- each step's previous step;
- the installed libraries, for the compiler;
- the compiler, for Go code.

`MCGollvmBuild.tla` gives one supported triple (`x86_64-pc-linux-gnu`,
split as `x86`,`_64`,...). It also gives one that `SEND_ERROR` rejects
(`arm64-apple-darwin`).

### `GoGenFiles.tla`: the libgo CMake helpers

One configure run calls the helpers one after another, and each call is one
step. The state is:

- `files`: every generated file, as the sequence of Go declarations its
  `file(APPEND)` calls write, in order;
- `rules`: the `add_custom_command` rules, as `[out, cmd, deps, comment]`;
- `status`: `message(SEND_ERROR)` sets it to `"error"` and the run goes on;
  `FATAL_ERROR` sets it to `"fatal"` and no step follows;
- `calls`: the number of helper calls so far.

`goarch.sh` is not modelled. Its output is an opaque value. Its exit status
is a nondeterministic choice of which invocation fails, if any.

A name is a sequence whose first element is one character and whose rest is
the remainder of the name. `upperfirst` (`SUBSTRING 0 1`, `SUBSTRING 1 -1`,
`TOUPPER`) is then translated as written. The properties compare it with a
reference capitalisation, `Cap`. Paths and comments are strings built with
`\o`, as the code builds them: `tmp-${outfile}` and
`${outfile}.${goos}-${goarch}`.

`MCGoGenFiles.tla` gives the model:

- three architectures: `amd64`, the only one `mkversion` accepts, plus two
  more;
- two operating systems;
- package lists of one and two entries;
- epoll sizes {0, 8, 12, 16} and offsets {0, 4, 8}: the known layouts plus
  the unknown ones.

## Runs

| Run | cfg | Expect | What it shows |
|---|---|---|---|
| batch_repair | MCBatchRepair.cfg | pass | see below |
| repair_guard | MCRepairGuard.cfg | pass | see below |
| backend | MCBackend.cfg | pass | see below |
| report_mode | MCReportMode.cfg | violation | in `ReportRepairableSharing` mode `examine` fails on repairable sharing without repairing (finding 1) |
| sticky_counters | MCStickyCounters.cfg | violation | counters are never reset, so after one failure an isolated node fails (finding 2) |
| unset_parent | MCUnsetParent.cfg | violation | `unsetParent`'s `\|\|` erases another parent's link in the same slot (finding 3) |
| gen_files | MCGenFiles.cfg | pass | see below |
| epoll_pad | MCEpollPad.cfg | violation | the 16/8 epoll layout declares `Pad` twice (finding 4) |
| stdpkg_keys | MCStdPkgKeys.cfg | violation | `"$pack"` is written literally as every key of `stdpkg` (finding 5) |
| copy_comment | MCCopyComment.cfg | violation | `copy_if_different`'s inverted `COMMENT` test (finding 6) |
| gollvm_build | MCBuild.cfg | pass | see below |
| reparent_assert | MCReparent.cfg | violation | the builder reparenting `v + v` trips `unsetParent`'s assert (finding 7) |

batch_repair runs examine and unset calls on a batch visitor. It checks:

- `RepairYieldsTree`: a successful examine leaves no sharing under the root;
- `FirstParentKept`: the first parent's slot still holds its child;
- `RepairNeverAborts`: repair never takes its abort path;
- `RepairableMatchesReference`: the classifier equals a plain reachability
  definition;
- `RepairPreservesValue`: no step changes the term any node denotes.

repair_guard runs two batch `examine` calls on one visitor, with `repair`
taken step by step. The second call starts from the `nparent_`, the ledger
and the flag the first one left. It checks:

- `RepairIsAtomic`: every step is a step of `Atomic!Next`, so the stepwise
  `repair` implements the atomic `examine`. A mutant disabler that saves the
  flag without switching it off violates this with two shared slots: the
  builder's check after the first `replaceChild` clears `sharing_`, and the
  second slot stays shared while `examine` returns true. This covers the
  hazard at `part_000:214`.
- `ExamineMeetsContract`: every step is a step of `Contract!Next`, where
  `Contract` is `IntegrityContract` under the same mapping, for every call
  made while the visitor is still `FreshVis` (the first call, and a second
  one after a first that recorded nothing). The contract's `target` is the
  node the call examined, so each call is held to the verdict and the
  changes the contract gives for that node, also when it changes nothing.
  This is the spec's promise for one call:
  - `examine` succeeds iff every node aliased under the root is an
    expression built only of whitelisted flavours, and no instruction is
    shared;
  - on success the subtree is a tree, and every existing node keeps its
    value;
  - a failure, or a subtree without aliasing, changes nothing.

  Mutants that drop the instruction counter from `examine`, or reverse a
  clone's children, violate it.

backend runs the builder's protocol from the spec. Each front-end node is
examined incrementally as it is made, and the body's root is then examined by
a fresh batch visitor. It checks:

- `IncrementalMatchesBatch` (Scenario C and its converse):
  - if every incremental check passed, the batch `examine` succeeds and
    leaves no sharing under the root;
  - if an incremental check failed, the spec's rule rejects the body too.

  The incremental visitor sees one node's edges per call and clears
  `sharing_` each time. Only its persistent `nparent_` links the calls. A
  mutant `Defer` that also drops `nparent_` lets a shared multiplication
  through the incremental checks, and the batch examine then fails.

gen_files runs up to three helper calls of one configure run. It checks:

- `VersionConstsOneHot`: a finished `version.go` has one
  `Goarch<Name>`/`Goos<Name>` per listed name, with exactly the target set
  to 1;
- `FilesCompleteUnlessFatal`: a failing `goarch.sh` always stops the run
  before a truncated `version.go` or `gccgosizes.go` can be used;
- `EpollLayoutMatchesConfig`: `Fd` lies at the configured offset, the struct
  has the configured size, or the run reports an error.

gollvm_build runs cmake and make. The run includes failing recipes, one
compiler edit, up to three make runs and two cmake runs, among them a flip
of `DISABLE_LIBGO_GOC_DEP`. It checks:

- `BuildOrderRefined`: the build implements `BuildOrder`. Whatever order
  make -j2, the failures and the reruns produce, every target is first made
  after what its recipe reads. Dropping `libmpfr` from `libmpc`'s `DEPENDS`
  breaks it.
- `LibgoFreshUnlessHatch`: a make run that ends `"ok"` without the escape
  hatch leaves libgo compiled by a compiler built from the current sources.
  This holds also when the hatch was on during earlier, stale builds.

Each property of a passing run has a mutant in `PROJECT.json`. The mutant is a
plausible bug in the code operator it replaces, and TLC finds it violated.

### Findings

1. **Report mode never repairs** (`part_000:262`). `setParent` counts
   repairable sharing when repairs are reported. `examine` then fails before it
   reaches `repair`. The spec says such sharing is reported and still
   repaired.
2. **Counters are never reset** (`part_000:259`). Only a successful repair
   zeroes `exprShareCount_`. A visitor that has failed once fails on every later
   call.
3. **`unsetParent` uses `||` where `&&` is meant** (`part_000:80`).
   Reparenting child X from (P2, slot 1) erases X's link to P1 if that link is
   also in slot 1. A later real share is then taken for a first parent.

4. **Duplicate `Pad` in `EpollEvent`** (`part_001:337`). For size 16 and
   offset 8 the struct gets `Pad [4]byte` twice, which Go rejects.
5. **`$pack` is not expanded** (`part_001:259`). The key of every entry in
   `stdpkg` is the literal `$pack`, not the package name.
6. **`if(NOT ARG_COMMENT)` is inverted** (`part_001:16`). With no
   `COMMENT`, the rule's comment is empty. A given `COMMENT` is ignored.
7. **`unsetParent`'s assert fails when the builder reparents a node that holds
   a child twice** (`part_000:76`). Take `v + v`. `examine` records
   `v -> (p, 1)` and defers the repairable share in slot 2. When the builder
   reparents `p`, `unsetParent(v, p, 1)` erases the entry, and
   `unsetParent(v, p, 2)` finds none. Without asserts, that call dereferences
   `end()`. The comment above `unsetParent` and the spec's `removeChildEdge`
   only discuss a child shared with another parent.

## Bounds

- `NumInit = 4` is the smallest number of nodes that builds each case that
  matters: a root, a shared expression with a child, and a second parent.
- `MaxNode = 7` leaves a pool of 3 handles. The pool is enough to clone a
  binary operator with two leaves. With 6 handles no binary operator can be
  cloned, and the `CloneKidsPrepend` mutant is invisible.
- `MaxCalls = 3` covers examine, unset, examine: a persisted entry, a
  change, and a re-check.
- `MaxCount = 3` caps the counters, which the code leaves unbounded.
- backend uses `NumInit = 4` and `MaxNode = 16`. The batch repair of a
  4-node DAG can need 12 fresh handles, for example
  `c = b + b, b = a + a, a = v + v`. With `MaxNode = 10` a run in which
  termination is checked as deadlock finds a body whose repair does not fit
  in the pool. With 16 it finds none.
- In gen_files, `MaxCalls = 3` lets a `SEND_ERROR` from one helper come
  before or after the other calls. Every `goarch.sh` failure index is
  enumerated. The violation runs need one call each.
- In gollvm_build:
  - `Jobs = 2` allows two recipes at once. With the file's `DEPENDS` and
    `gocdep`, the targets form a chain: even the downloads of `libmpfr` and
    `libmpc` wait for `libgmp`. So make never has two recipes ready. The
    bound matters when a dependency is missing, as in the `DEPENDS` mutant,
    where libmpc's steps race libmpfr's.
  - `MaxEdits = 1` and `MaxRuns = 3` allow build, edit, rebuild, and a rerun
    after a failure.
  - `MaxCmake = 2` allows a rejected triple followed by a good one, or a
    hatch flip.
  - `MaxClock = 30` is never the binding bound. `RunMake` reserves one tick
    per target.
- repair_guard uses `MaxNode = 7`, `NumInit = 4` and `MaxCalls = 2`:
  - two repair locations need 4 nodes, for example `a = v + v` and
    `b = a + v`;
  - the first call is the spec's fresh-object lifecycle; the second runs
    the stepwise repair over the `nparent_` entries, the clones and the
    flag the first left, for example `examine(a)` and then `examine(b)`.
    It takes about 100 s.
- reparent_assert needs 3 nodes and 4 calls. TLC reports the violation after
  two calls.

## Fairness and liveness

No liveness property is checked, and no fairness is assumed.

- The checker has no waiting and no concurrency. Every call terminates
  because the trees are finite and the worklist has a visited set.
- That a bounded make run over an acyclic target graph ends is a property
  of make, not of the CMakeLists. A property stating it could not tell a
  wrong CMakeLists from a right one. What a rerun after a failure leaves
  behind is checked as safety instead (`LibgoFreshUnlessHatch` and
  `BuildOrderRefined`).

## Not modelled, and the plan

- Diagnostics (`dump`, `ss_`) is text that no decision reads.
- Nested sharing (a shared subtree that itself contains a shared node) is
  cut by the clone pool at `MaxNode = 7`. So the repair-order hazard
  (`part_000:216`) and the `visited` memo (`part_000:223`) are checked only
  on sharing that is not nested.
- `Command::execute/print` pass the argument list straight to
  `llvm::sys::ExecuteAndWait` and `raw_ostream`. The class changes no state,
  and its only control is skipping `nullptr` entries, so a model would only
  restate the argv convention.
- In the build, each subdirectory (`bridge`, `passes`, `driver`,
  `driver-main`) is folded into the single target `llvm-goc`. Their own
  `CMakeLists.txt` files are not in this repository.
- `install-gollvm` and `check-gollvm` (line 208) are not part of `ALL`, and
  are not modelled.
- The default install step of each external project repeats the build
  step's `make install`, so it is merged into the build step.
- `EXTCPPFLAGS` is computed, but no property reads it.
- In `generate_go_from_script`, `DEP` and `SCRIPTARGS` only add dependencies
  and arguments, so they are left out. Running the rules at build time is
  also not modelled.
- The builder's integrity hook is outside `src/`. `NestedCheck` models it
  from the spec as a check of the rewired node only. The clones' own nodes
  are fresh, so checking them could not find sharing.
- Batch `visit()` has no visited set, and `repair()` copies a shared
  subtree once per extra slot. A subtree reachable along k paths is walked
  and copied k times, so the cost grows exponentially with the depth of
  sharing. The model bounds the node pool with the `CloneDemand` guard
  instead of checking a cost bound: the code promises none. The backend run
  needs `MaxNode = 16` for four front-end nodes.
- `PROCESSOR_COUNT` is 0 when `ProcessorCount` cannot count the processors.
  The external projects then run `make -j0 install`, which GNU make rejects.
  The build model lets any recipe fail, so it does not single out this case.

Planned work:

1. A batch run in which `IntegrityContract` is checked against a reused
   visitor whose counters are reset between calls. That run would show that
   the reset is all that finding 2 needs.
