# extract-sbom in TLA+

`extract-sbom` takes one software delivery (an archive, an installer, a disk
image), unpacks it recursively with external tools, scans what it finds with
Syft, merges the results into one SBOM, optionally matches it against Grype's
database, and writes reports that say what was and what was not looked at. The
value of the program is in that last part: an SBOM that silently misses a
subtree is worse than a failed run. Most properties here are therefore about
*accounting*: nothing is lost, nothing is left behind, and the exit code tells
the truth.

This directory holds TLA+ models of that control flow, TLC runs that check them
on small instances, and TLAPS proofs of the main invariants for every instance.

## 1. The system

### Components

| Component | State it keeps | Operations | Hard part | What makes it correct | Module |
|---|---|---|---|---|---|
| `extract` | the tree of `ExtractionNode`s, the temporary directories | `Extract`, `extractRecursive`, `recurseIntoDir`, the three tool routines, `flattenCompressedTAR`, `CleanupNode` | recursion with retries, a deadline that can expire anywhere, errors of four classes | no directory leaks, no file is dropped, violations go where the policy says, a rejected output is never walked, every run ends | `Extraction` |
| `scan` | one result slot per target, a channel, a mutex | `ScanAll`, `parallelScanIndices`, `scanNode`, `reuseSyftNativeResultsFromExtractedScans` | goroutines that share slots without a lock, cancellation, two batches | one writer per slot, no target and no package lost, no deadlock | `Scan` |
| `orchestrator` | issues, paths, the first fatal error | `Run` | every stage can fail and the run goes on | outputs, issues and exit code agree with what happened | `Pipeline` |
| `policy` | the list of decisions | `Engine.Evaluate` and three queries | none of its own: only `Run`'s goroutine uses it | the decisions lead to the right exit code | `Pipeline` |
| `assembly` | component list, dependency graph, compositions, suppression records | `Assemble`, `processNode`, `normalizeScanComponents`, `deduplicateGlobalComponents` | three deduplications with different keys, after each other | every reported component is listed or accounted for, no dangling reference | `Assembly` |
| `assembly` (references) | maps key/reference | `assign` | collisions of truncated hashes | references are distinct and do not depend on the order | `BomRef` |
| `vulnscan` | matches, coverage, status | `Run` | partial results of a foreign program | status and coverage agree with the matches | `Enrichment` |
| `report` | none | `Generate...`, the index of occurrences, the suppression links, the vulnerability tables of four formats, the table of processing issues | joins three data sources by reference and path, twice in the order of a map | each issue, package and finding is shown, and no two tables contradict each other | `OccurrenceIndex`, `Enrichment`, parts in `Pipeline` |
| `safeguard` | counters of one validation | `ValidatePostExtraction`, `ValidateEntry` | boundaries of the limits | the verdict is exact, no counter wraps | `ToolRun` |
| `sandbox` | none | `Resolve`, `Run` of three implementations | paths have other names inside the sandbox | what the tool writes arrives outside | `ToolRun` |
| `identify` | none | `Identify` | the order of its tests | the first test that matches decides, and the switch that follows agrees with it | `Identify`; its verdict is a choice in `Extraction` |
| `config`, `buildinfo`, MSI metadata, flag parsing, encoders | none | | | data conversion | not modelled |

### Interactions

`main` builds the configuration and a context that Ctrl-C cancels, and calls
`orchestrator.Run`. `Run` is one goroutine that calls, in order: sandbox
resolution, `extract.Extract` (returns a tree and an error), `scan.ScanAll`
(returns a slice of results, reads the tree), `assembly.Assemble` (reads both)
and the SBOM writer, `vulnscan.Run` (reads the written SBOM), the report writers
(read everything) and `extract.CleanupNode`. The only concurrency inside a stage
is the worker pool of `scan`; the only asynchronous inputs are the per-extraction
deadline, the end of a tool process, and the cancellation of the context.
Nothing is persisted between runs, so there is no recovery to model.

What a stage hands to `Run` is all that `Run` decides on. That interface is
written down twice: `ExtractionContract` and `ScanContract` state the promise,
`Extraction` and `Scan` are shown to keep it, and `Pipeline` is checked against
the promise instead of the details. The three models compose through them.
`Enrichment` contains `BomRef`, since Grype's matches come back with the
references assigned there, and `OccurrenceIndex` extends `Assembly`, since the
index of the report is computed from the BOM assembled before.

## 2. Modules

### Extraction

One behaviour is one call of `Extract` and the `CleanupNode` that follows.
The Go call stack is the chain of `parent` links from `cur` to `Root`; `call[a]`
is the state of `extractRecursive(a)`. `pc` says where the goroutine is:

| `pc` | in the code | actions |
|---|---|---|
| `visit` | the head of `extractRecursive` | `ExceedDepth`, `VisitLeaf`, `BeginExtraction` |
| `attempt` | the head of a tool loop | `ToolAbsent`, `MkdirTempFails`, `StartAttempt` |
| `run` | the tool process | `RunSucceeds`, `RunFails` |
| `validate` | `finalizeExternalExtraction` | `AcceptOutput`, `RejectOutput` |
| `handled` | after the handler returned | `Classify`, `BeginFlatten`, `FlattenFails`, `AdoptInner`, `EnterDir`, `NothingExtracted` |
| `walk` | `recurseIntoDir` | `ReadDirFails`, `Descend`, `WalkDone` |
| `return` | back in the caller | `ReturnViolation`, `ReturnOther`, `ReturnRoot` |
| `done` | in the orchestrator | `CleanupNode` |

`Expire` is the deadline of `extractCtx`; it is enabled from the start of an
extraction to its classification. `policy` is chosen in `Init` and never changes.
`Dir` is a pool of names: `UnusedDir` is the one `os.MkdirTemp` returns, and a
name is free again once its directory was removed. The environment chooses what a file is
identified as, what an archive holds, and how a tool run ends. Names, sizes and
subdirectories are abstracted; the four classes of errors are kept apart, because
the code does different things with each.

Hazards it is aimed at: the seven places that create, drop, move or remove a
temporary directory (`DirsAccounted`, `CleanedUp`); the return of a violation
through the recursion under both policies (`StrictStops`, `PartialIsolates`,
`BlockedHasCause`); dropped children (`NothingLost`); password retries
(`AllCandidatesTried`, `RejectedNeverWalked`); the inclusive depth test
(`DepthBound`).

### Scan

`ScanAll`'s goroutine is `Main`, a pool goroutine is `Work(w)`. `at[w]` follows
a worker from its `select` through `os.Stat`, the mutex around `syft.GetSource`,
and cataloguing. A slot is `result[t]` (`empty`, `ok`, `error`) and `pkgs[t]`.
`Reuse` and `ReuseFails` are the reassignment of packages between the batches,
one step each, since no other goroutine runs then; that this is so is
`PhaseBarrier`. `found` is a history of what Syft reported, for `NoPackageLost`.

### Pipeline

`Run` as a sequence of stages. Every `if err != nil` is an action of its own.
`issues` keeps order, because the report that was written first and the issue
that is returned depend on it. The tree and the results are drawn from
`ExtractionContract!Outcome` and `ScanContract!Outcome`. An outcome of the
extraction is the class of its error and three facts about the tree: a node
failed or lacked its tool, one was skipped, one was blocked. The exit code and
the report read them by rules of their own: `ExitCode` is the switch of `Run`,
`ProcessingEntries` counts the entries of `collectProcessingEntries` by source,
`PrintedRows` says how many of each `writeProcessingIssues` prints before its
table is full (`MaxRows`, 25 in the code), and `HumanReportCurrent` compares the
two. `NodeEntries` and `ScanEntries` are the entries that a tree and scans with
failures have; a report is the issues it was generated from.

### Assembly

`ProcessNode(n)` is the visit of one node, with the normalization of its scan;
`Deduplicate` is the global pass. The input (how the nodes ended, what the scans
reported) is chosen in `Init` and never changes. Any node may end in any way, the
root too; only a package for Syft, which is never unpacked, has no nodes below
it. A component is a record of the
fields that the code tells apart. A reference is the node or the entry it names.
A delivery path is a sequence of names from the constant `Name`; only equality
and prefixes of paths matter. `StandsFor(f, e)` is what a reader may conclude
from a kept component: it was delivered in the same artifact or below it.

### OccurrenceIndex

What the Markdown report derives from the result of `Assembly`: `Occurrences` is
the filter, `Indexed` the merge of what is left at the same paths, `Link` the
search of a suppression record's replacement. They are functions of the final
state, so the properties are stated at the end of a behaviour of `Assembly`.
`Findable` names the exception: a listed component whose name is an absolute path
is left out of the index whatever its type (`report_occurrence.go:342`).

### BomRef and Enrichment

`Preallocate` is one turn of the loop over the sorted keys of
`newBOMRefAssignerWithKeys`; the hash function with its salts is the constant
`Factory`, any function at all, so that collisions of both kinds happen.
`Enrichment` continues with `vulnscan.Run`: `NotRequested`, `Unavailable`
(before or in Grype), `ReadMatch` for each match of the output, `Correlated` for
the sort, the coverage and the state (`sort.Slice` is not stable, so `Sorted` is
the set of orders it may leave); and with the loops of the reports over the
map of matches, `RenderRef`, which take the references in any order. What the
reports compute without a loop over a map are operators: `Verdict` and `Block`
for the index, `HTMLRows`, `SARIFResults`, and the numbers of the summary and of
the key findings, `SummaryCounts` and `VulnStats`. The versions that fix a
vulnerability, a part of the key of a row, belong to the vulnerability here, a
row carries the match it was made of, so that two with one key would show, and
Grype's name for a component is that of the SBOM.

### Identify

`identifyFromHeader` is the sequence of tests, over files described by what the
tests can tell apart; `Dispatch` is the filter and the switch of
`extractRecursive`. It justifies the choices `Extraction` leaves open: a file has
a handler or a status, and which of the two is the verdict of this module.

### ToolRun

One run of an external tool, below the level of `Extraction`: `Resolve` selects
a sandbox, `RunSucceeds` and `RunFails` are the process, `Rejects` and `Passes`
one call of the walk function of `ValidatePostExtraction`, which `Validated`
ends; `Summarizes` is one call of that of `summarizeExtractedDir`, the second
walk, and `SummaryFails` and `Accepts` are its ends. Its results are the choices `Extraction` has:
`failed` is `RunFails`, `extracted` is `AcceptOutput`, `hard`, `limit` and
`other` are `RejectOutput`. An output is the sequence of entries in walk order.
Every sum and difference of two sizes goes through `Wrap`, so that an overflow
would show; `seen` holds the same counters as mathematical integers.

### Contracts and MC modules

`ExtractionContract` and `ScanContract` are abstract specifications with one
`Return` step and weak fairness. `MCExtraction`, `MCScan`, `MCPipeline`,
`MCAssembly`, `MCToolRun` and `MCEnrichment` only define the values of the
constants.

Operators marked "Mutant of X" are plausible bugs of the code; replacing X by
one of them must make TLC refute the property listed with it in `PROJECT.json`.
No specification uses them.

## 3. Runs

| Run | Question | Instance |
|---|---|---|
| `extraction` | Do all invariants of the traversal hold under both policies, does it end, and does it implement its contract? | delivery and 3 files, 4 directories, one password, no unshield, `MaxDepth` 1; 375,905 states |
| `scan` | Do the invariants, the termination and the contract of the pool hold? | 2 workers, 2 directories, 2 native files, 3 packages |
| `pipeline` | Do outputs, issues, exit code and the report's tables agree after every combination of failures? | both policies, all report modes, at most 1 Grype issue, a table of 3 rows; 9.6 million states |
| `assembly` | Do the three deduplications and that of the index together account for everything? | 2 nodes, 3 reported components of 11 classes; 286,768 states |
| `tool_run` | Is the verdict on an output exact, at the boundaries too? | outputs of up to 3 entries, 3 sets of limits, 4-bit integers; 77,664 states |
| `enrichment` | Are references distinct and reproducible, and does each report show Grype's findings, no more and no less? | 3 keys, 4 references, 2 hash functions, 4 classes of components, 3 severities, 2 matches; 2.1 million states |
| `doc_...` | Six statements of the documentation that the code does not keep (section 6) | the smallest instance that shows it |

### Bounds, and why they are enough

* **Files (4).** The recursion treats a file by its call, its parent and its
  siblings. Four files give a parent with two children, a chain of three, and a
  chain with a sibling, so that a violation can meet an ancestor, a finished
  sibling and an unvisited sibling. With 7-Zip and unsquashfs present and
  unshield missing, both a tool that runs and one that is absent occur.
  `MaxDepth` 1 makes the depth limit strike in the deepest of the chains.
* **Directories (one per file).** A name is free again after it was removed, so
  reuse of names happens; flattening needs two at once.
* **Passwords (1).** Two candidates are the least with a first, a next and a last.
* **Workers, directories, native files (2 each).** Two workers give every race
  between a pair of tasks; more workers than that add no new kind of conflict,
  since a property talks about at most two workers. The proofs remove the bound.
* **Packages (3).** One of each native file and one of none, in two directories.
* **Grype issues (1).** `Pipeline` only tests whether the list of issues grew.
* **Rows (3), node entries (2), scan entries (1).** A table that the failed nodes
  leave one row of, for issues of which a run can have several: it is full and
  not full, with scan entries printed and not. The proofs remove the bounds.
* **Reported components (3).** A weak placeholder, a package and a duplicate of
  it: chains of two suppressions happen. A chain of three needs two JARs with
  manifests and four components; that instance takes longer than a run should.
* **Keys (3), references (4), hash functions (2).** The least in which two keys
  collide directly, a third one collides with the salted hash of another, and a
  free reference is left. The proofs about `BomRef` remove these bounds.
* **Matches (2).** Two matches of one component or of two, equal or not, known or
  unknown, are enough for every comparison the reports make between a pair;
  severities are one that Grype's ranking knows and two that it does not, which
  it ranks alike, so that the order of two different matches can be open.
* **Integers of four bits, three entries.** Two files are enough to overflow or
  to use up a limit exactly; the third meets the counters after that. The proofs
  remove both bounds.

No run uses symmetry, which would be unsound with liveness, and none limits the
state space by a constraint.

### Fairness

* `Extraction`: weak fairness of the goroutine's next step. It includes the end
  of a tool run: `exec.CommandContext` kills the process at the deadline, and
  every extraction has one. The deadline itself need not ever fire.
* `Scan`: weak fairness of the main goroutine and of each worker, which is what
  the Go scheduler gives a runnable goroutine; a call of Syft ends. Strong
  fairness of taking the mutex, since `sync.Mutex` does not starve a waiter.
  Cancellation is not fair.
* `Pipeline`, `Assembly`, `ToolRun`, `Enrichment` and `Identify` state no
  liveness: they are loops over a fixed sequence.

## 4. Proofs

TLAPS proves every invariant of a passing run, for every set of files, targets,
workers, nodes, components and packages and every limit, and the safety part of
both contracts. Each of these invariants is named in the statement of
a theorem; a state predicate below that no run checks is a strengthening.

`ExtractionProofs`: `TypeCorrect`, `DirectoriesAccounted`, `RejectedStayClosed`,
`StrictOnlyUnwinds`, `PartialContains`, `DepthsBounded`, `EveryCandidateTried`,
`BlockedForCause`, `EverythingCleanedUp`, `NoFileLost`, the action property
`ReturnedStays` and `ExtractImplementsContract`. The invariants are not inductive by themselves. The
strengthening is

* `CallStack`: exactly the ancestors of `cur` are open, each with the same
  handling of depth, and the rest idle or returned;
* `Untouched`: a file no call has reached still has the values of `Init`;
* `FilesPlaced`: a file is in one directory, and what a walk has still to visit
  is in the directory of its node;
* `DirsOwned`, `DirsTimely`: who holds a directory, and at which `pc` a node can
  have one;
* `RejectedLeaves`, `ViolatorsChildless`, `DepthTested`: the same for rejected
  outputs, violations and depths;
* `CandidatesLeft`: a tool loop that is still running has candidates left;
* `HardHasCause`: a hard violation on its way comes from an output rejected at
  the node or, under the strict policy, below it;
* `WalksOversee`: each file of a directory that is being walked is still to be
  visited, is being visited, or is settled, since a returned call is final;
* `TreeGrows`: an attached node has a parent that is attached or will be.

It is preserved by each action; there is one lemma per group of actions with the
same frame. `EverythingCleanedUp` needs one more idea. `CleanupNode` removes what
it reaches in the tree of nodes, so every directory that is held must be held by
a node the tree contains. A set of nodes outside the tree would have one whose
parent is not in the set (`Topmost`, from `DepthBound`: the depths are natural
numbers, and a set of those has a least one), and that parent is in the tree.
Assumption: `ExtractionAssumption` (the names are distinct and the limits natural
numbers, which `Config.Validate` enforces).

`ScanProofs`: `TypeCorrect`, `SlotsOwned`, `SourcesExclusive`,
`BatchesSeparated`, `ScanComplete`, `SlotsFilledOnce`, `NoReportedPackageLost`,
`ScanImplementsContract`. The strengthening `IInv` says that a task is in exactly
one place (`TasksPlaced`), that a worker's position, task and mutex agree
(`WorkersConsistent`), that no task is forgotten (`BatchCovered`), and what the
earlier batch left behind (`PhaseHistory`). For packages, `PackagesFollowed` says
where each reported one is: still with the directory it was found in, or, if a
native file owns it, there as soon as that has a result. That nothing is lost is
all it says: after a reuse that failed midway a package can be in two results,
so the theorem does not say that none is doubled. The refinement theorem is the safety
part of `ScanContract`: initial states map to initial states and each step to a
step or a stutter.

`AssemblyProofs` (for `Assembly` and `OccurrenceIndex`): `TypeCorrect`,
`GraphAndListAgree`, `EveryComponentAccounted`, `RecordsLeadToListed`,
`OnePerPurl`, `OnlyImprovements`, `EveryPackageIndexed`, `EveryOtherIndexed`.

* `BestExists` and `BestIsBest` carry the rest: each pass keeps the best of a
  group by a rank and the order of the entries, and a group that is not empty has
  a best one. The groups are as large as one likes, so this is an induction, over
  the finite sets of entries: of a least group without a best one some entry
  could be taken away. Each pass has a lemma that says what one of its records
  means (`WeakKept`, `PackageKept`, `PurlKept`, `FileKept`, `DuplicatesKept`),
  and `OneRecordEach` that an entry has at most one.
* `Built` is the inductive invariant: the list, the graph, the records and the
  paths are those of the nodes processed so far. TLC has checked it too. All
  properties are about the end, where `AtTheEnd` unfolds it.
* `GraphAndListAgree` needs of `Built` where each reference in the graph came
  from: a node depends on its children and on what its own scan reported, and the
  global pass replaces a duplicate by its survivor wherever it was referenced
  (`GraphRewritten`).
* `RecordsLeadToListed` follows a record: the component kept by a node's pass is
  listed or was merged by the global one (`NormalizedListed`,
  `MergedRepresented`), so a chain has at most three links. That the survivor is
  delivered in the artifact needs `LeafBelow`: the merged paths are the leafmost
  of the group, and each path of the group has one of them below it.
* For the index, `Outcome` says which listed component represents each reported
  one, and `BestIndexed` that the merge of the index keeps the best of each place.

Assumption: `AssemblyAssumption` (the entries are a finite set of numbers, paths
are sequences of names).

`ToolRunProofs`: `TypeCorrect`, `CountersNeverWrap`, `VerdictsJustified`,
`SummaryIsValidated`, for outputs of any length and integers of any width. The
strengthening says that the entries before `next` were legal and small enough
(`PassedLegal`), that `seen` is their number and total (`SeenExact`), and at
which `pc` a result can be set (`ResultTimely`); the core is the lemma that a
file which passes the tests fits, so that its addition does not wrap around. The
total is `SizesUpTo`, a recursive function; that it is defined at all, and adds
one file at a time, is `SizesAdd`, by an induction over the least number without
a sum. For the summary, `SameCourse` says that there is one course of
the counters that the first walk has taken from its first entry and that the
second walk follows; it spares a sum over the entries, which would need an
induction over data. It needs limits that are at least 1 and fit into an `int64`
(`ToolRunAssumption`), which `Config.Validate` and the type give.

`BomRefProofs`: `RefTypeCorrect`, `AssignmentInjective`, `AssignmentDetermined`,
for every set of keys and every hash function. For the first, the two maps of the
assigner are inverses of each other (`InverseMaps`); for the second, the keys that
have a reference are the smallest (`SmallestFirst`), so what is taken when a key
has its turn is a function of the key.

`EnrichmentProofs`: `EnrichmentTyped`, `ReferencesDetermined` (the two invariants
of `BomRef`, for the assigner inside `Enrichment`), `CompletedResultExact`,
`ReportsAgree`, `EveryFindingReported`, `HtmlNeverPlaysDown`. The strengthenings
are

* `Assigned`: no lookup happens before every listed component has a reference, so
  a lookup by reference finds the component it was assigned to (`KeysFound`);
* `MatchesRead`: for each reference and match, as many are correlated as were
  read. Reading adds one place on both sides (`PlacesAppended`), sorting permutes
  places (`SortedIsOrdered`);
* `Phases`, `Judged`: what no phase has touched yet, and how state, coverage,
  matches and errors fit together at the end;
* `InOrder`: the matches of a reference are in the order of `Before`;
* `Rendering`: the rows and rules are those of the references the loops have come
  to, a row being left out only for one with its key, which no other row has
  (`FirstRowsHaveAllKeys`, since a set of places has a first one);
* `Counted`: there are as many correlated matches as were read with a reference,
  so that the number above the key findings is the real one.

Assumption: `EnrichmentAssumption` (a BOM is finite).

`IdentifyProofs`: `TypeCorrect`, `FlagsAgree` (the switch of `extractRecursive`
extracts exactly the formats that package `identify` calls extractable),
`DocumentsStay`, `NativePassedOn` (the positive half of the divergence of section
6: every package for Syft but a gem stays packed, and is passed on if it could be
read and the filter of extensions does not leave it out). The strengthening `Decided`
says which decision each outcome comes from.

`PipelineProofs`: every invariant of `Pipeline`, for any number of Grype issues:
`TypeCorrect`, `DirectoriesRemoved`, `FirstFailureReturned`, `PathsNameFiles`,
`SecurityFinalized`, `SuccessJustified`, `HumanReportComplete`. The strengthenings
are

* `FatalInv`: before the first output `fatal` is `None`, and no stage before the
  extraction has left an issue, since `ResolveSandbox` assigns the list. Two
  lemmas about sequences carry it: appending issues does not change which output
  failure is the first, and decides it while there is none.
* `PathsInv`: once the path names a report, its stage is over (`Past`), so only
  the rewrite can still touch the file.
* `OutcomeInv`: what a finished stage has not completed has left an issue, a
  decision or a fatal error, and nothing else has; the exit code follows. Scan
  targets without a result are the exception, which leave nothing;
  `MissingInv` says that only a cancelled run has them.
* `HumanInv`: until the rewrite the report's issues are a beginning of the run's
  and `humanCount` is its length, so that `NeedsRewrite` tells whether issues
  came later. That each has its row or the table is full is arithmetic on the
  three counts (`TableFull`).

Only model-checked, not proved: liveness (`Terminates`, and the fairness part of
the contracts in `ImplementsContract`) and `ENABLED`, which are out of the
prover's reach. Two inductions were possible without the library's
induction theorems, whose parameter the provers cannot instantiate: over finite
sets and over natural numbers, both from the well-foundedness of the strict
subset relation (`BestExists`, `LeastNumber`, `Topmost`, `LeafBelow`).

What the proofs have changed in the models: `OthersIndexed` did not hold for a
component with an absolute path as its name, whatever its type, which no class of
the instance had; the class was added, and `PackagesIndexed` and `OthersIndexed`
now name the listed component that stands for the lost one. `Below` replaced "a
rejection somewhere" in the strict half of `BlockedHasCause`. `Sorted` allowed only
one order of equal matches. The second walk of `ToolRun` was one step and could
not fail or wrap around in its midst.

## 5. Not modelled

* The contents of files, MSI tables, encodings and layout, the texts of the
  reports in two languages, their statistics and sort orders: data conversion
  without control. Of the magic bytes `Identify` keeps which test they pass.
* `config.Validate`: its bounds are the assumptions on the constants.
* How Syft, Grype, the unpackers and Bubblewrap work: they are modelled by the
  outcomes the code distinguishes.
* A crash of the process: nothing is persisted, and the directories of a killed
  run stay behind.
* The mutex of `policy.Engine`: only one goroutine uses the engine.
* `matchPackageToSyftNativeNode`, which is a comparison of paths: `Scan` has its
  result as the constant `Owner`.
* The total of what nested archives unpack: each validation has counters of its
  own (`safeguard.go:268`), as the limits promise for one extraction only.

## 6. Where code and documentation disagree

Each of the numbered ones has a run that shows it.

1. `doc_hard_security_never_masked`: the deadline is tested before the class of
   the error (`extract_flow.go:153`). A hard violation found just before it is
   reported as a timeout; `safeguard.go:5` says violations are never overridable.
2. `doc_fully_processed`: a directory that cannot be read returns a plain error
   that the walk above ignores (`extract_flow.go:219`); the node stays
   `extracted` and its remaining files are not visited, with exit code 0.
3. `doc_success_is_scanned`: a run cancelled during the scans leaves slots empty
   without an error, and `hasScanFailures` only looks for errors.
4. `doc_output_arrives`: 7-Zip gets its output directory as `-o<path>`, which
   `replacePrefix` (`sandbox.go:155`) does not rewrite, so under Bubblewrap it
   writes into the private file system of the process and the node is extracted
   with 0 entries; `MODULE_GUIDE.md:430` shows `-o/output`. The other tools name
   the directory in an argument of its own, which is rewritten.
5. `doc_links_lead_to_package`: a suppression record names the kept component by
   name and cataloger only (`report_suppression.go:189`), so the link of a
   dropped duplicate can lead to a namesake with another package URL;
   `SCAN_APPROACH.md:550` promises the kept replacement component.
6. `doc_native_never_extracted`: a `.gem` is a TAR, and the test for a TAR comes
   before that for Syft's packages (`identify.go:302`, `:393`), so it is
   unpacked; `identify.go:121` and `USAGE.md:333` say it never is.

Seen while modelling, without a run, since a property would only restate a line:
the error of a failed inner TAR leaves `extractRecursive` before the
classification (the comment at `extract_flow.go:299` describes a fallback);
`extractSquashfs` does not report a timeout (`extract_external.go:340`); a
resource limit under the strict policy exits with 1, as a test expects, while
`USAGE.md:446` says 2; reports other than the human one are not rewritten when a
later report fails (`MODULE_GUIDE.md:895`); the compression ratio is never
tested, since the validation of an unpacked directory has no compressed sizes
(`safeguard.go:205`);
a composition is `complete` by the node's own status (`assemble_flow.go:296`),
while `MODULE_GUIDE.md:701` says it is for fully extracted subtrees.

About the reports, also without a run:

* With `completed-with-errors` the Markdown report calls a component without a
  match "not assessable", the JSON coverage calls it "none" (`VerdictsAgree`
  allows this difference in this direction only).
* The severity of a SARIF rule is that of the first match in the order of a map
  (`report_sarif.go:166`), so it may differ between two runs; the comment above
  it and `README.md:73` speak of deterministic output. The link of a row of the
  summary depends on that order too, if a component that is not in the index has
  the same name and version.
* Two packages may get the same anchor, if the name of one ends in the number
  that makes the other's unique (`report_occurrence.go:246`).
* A package with an absolute path as its name can be the survivor of its URL and
  then be left out of the index, since the two scores treat slashes differently
  (`PackagesIndexed` states the exception).
* A finding for a weak component with only a CPE is in the summary but not in the
  index, which filters the component out.
* The key findings count the references that have matches and call them packages
  (`report_vuln.go:41`, `report_human_main.go:251`); the summary below counts
  distinct names and versions (`report_vuln.go:69`). For two occurrences of one
  package the same report says that two packages are affected and that one is.
  Likewise the one counts matches and the other the rows left after the
  duplicates. `FindingsReported` states each number by its own rule.
* The table of processing issues ends after 25 rows (`report_human_main.go:340`)
  and is sorted by source, extraction before pipeline before scan: 25 nodes that
  failed leave no row for an issue of the pipeline, such as a failed report, and
  only the number in the closing line counts it (`HumanReportCurrent` states the
  exception).
* A node that is skipped for its depth under the partial policy makes the exit
  code 1 but has no entry in the table of processing issues; and the sentence
  that all files were extracted (`report_i18n.go:514`) is also printed when nodes
  were skipped or tools are missing (`report_human_main.go:240`).

## 7. Plan

Done, in the order of importance: `Extraction` and `Scan` with their contracts
and proofs, `Pipeline` over both contracts with its proofs, `Assembly` and the
index of the report with its proofs, `ToolRun`, `BomRef` and `Identify` with
their proofs, `Enrichment` with its proofs.

What is left:

1. `Extraction` and `ToolRun` meet in prose only: a contract of one tool run that
   `ToolRun` implements and whose outcomes `Extraction` chooses from.
2. Action properties of `Assembly` (a record never loses its listed survivor
   between two nodes) and of `Pipeline` (an issue is never dropped after the
   extraction), where the proofs already have the lemmas.
3. The two hazards without a property: the timeout that `extractSquashfs` does not
   report, and compositions that are `complete` above an incomplete subtree.

## 8. Running

    tlc -workers 2 -config Scan.cfg MCScan
    tlapm ScanProofs.tla

`PROJECT.json` lists every run with its configuration and properties, the
mutants, the source lines each definition models, the hazards of the code with
the properties that would catch them, the findings and the theorems.
