# Snooty parser in TLA+

Snooty turns a documentation project (reStructuredText, Giza YAML, images, `snooty.toml`) into postprocessed
pages, either once (`snooty build`), with a cache on disk (`snooty create-cache`), or continuously in a language
server. This directory holds TLA+ models of it, the TLC runs that check them and TLAPS proofs about them. Paths
below are relative to `src/snooty/`.

## 1. Inventory

How the parts call each other:

    client --> LanguageServer --> QueueDict --> update thread --> _Project.update/delete
                    |  Debouncers                                    |         |
                    |                                          Giza domain   PageDatabase <-- ParseCache
                    |                                          RST parser
                    +--> timers --> postprocess() --> flush() --> WorkerLauncher --> worker thread
                    +--> get_page_ast ---------------> flush()                           |
                                         |                                              |
                                    publication <------- result queue <------ Postprocessor pipeline

| Component | State | Operations | Hard behaviour | What makes it correct |
|---|---|---|---|---|
| **Worker launcher** (`util.py`) | lock, current thread, one Event, a queue per run | `run`, `run_and_wait`, `cancel`, worker | threads; a join under the lock; an Event cleared outside it | one worker, no stray cancellation, everyone answered, no deadlock |
| **Page database** (`page_database.py`) | parsed pages, changed set, cached result | set/delete, `flush`, `cancel`, `start` | edits during copy and pipeline; cancelled and failed runs | no lost change, a consistent snapshot, results never go backwards |
| **Language server** (`language_server.py`) | pending updates, debouncers, project and backend locks | file requests, `update_file`, update thread, `postprocess`, `get_page_ast`, publication | request, timer, update, postprocess and worker threads | settles with every page postprocessed and published; last update wins; never stuck |
| **Project** (`parser.py`) | page database, asset graph, YAML domain, cache | `build`, `update`, `delete`, `postprocess`, `update_asset` | order of callbacks; dependents of assets and YAML files | pages and diagnostics agree with files |
| **Giza domain** (`gizaparser/`) | registry, dependency graphs, reified nodes | `load_and_generate`, `update`, `delete`, `reify` | inheritance, partial updates, exceptions half-way | generated pages reflect their whole inheritance chain |
| **Parse cache** (`parse_cache.py`) | pickled pages and YAML nodes, one file per configuration | `read`, `get`, `persist` | edits between builds, crashes while writing | what is reused is what would be made |
| **RST parser, tinydocutils** (`rstparser.py`, `tinydocutils/`) | line cursor, state stack, nested machines, memo | transitions, sections, directive dispatch | nesting, level bookkeeping, steps back, end of input | every line ends up in one node, levels follow nesting, the parse ends |
| **Postprocessor** (`postprocess.py`, `eventparser.py`) | handlers' contexts, tree, metadata | passes over the pages, inclusion, substitution, headings, targets, toctrees | order of passes, trees changed while walked, cycles | what is included, cited, listed or reported agrees with the pages |
| **Target database, intersphinx** | local definitions, inventories | define, resolve, reset | disambiguation, pages walked later | a reference resolves to an anchor that exists |
| **Specification, flutter, utilities** | `rstspec` entries; none for the rest | inheritance, type checking, paths, HTTP cache | bad tables are reported on start-up | no state that the rest depends on changing |
| **CLI, builders, data classes, tools** | little | output | I/O | not the subject of a model |

`PROJECT.json` lists every component with its status, and every hazard found in the code at its line, with the
property that covers it or the reason why none does.

## 2. Modules

| Module | Models | Composition |
|---|---|---|
| `WorkerLauncher` | `util.py:399-464` | |
| `WorkerLauncherProofs` | theorems about it | extends it |
| `Snapshots` | what the page database promises: an abstract specification | implemented by `PageDatabase` |
| `PageDatabase` | `page_database.py:24-114, 170-187` | the launcher with `start` in place of its free target |
| `PageDatabaseProofs` | theorems, both refinements included | extends it |
| `LanguageServer` | `language_server.py` over the parts of `_Project` it reaches | a coarser launcher and database |
| `LanguageServerProofs` | theorems about it | extends it |
| `Project` | `_Project.update/delete` with the asset graph, `gizaparser/domain.py:155-210`, `gizaparser/nodes.py` | the page database in three steps |
| `ProjectProofs` | theorems about it | extends it |
| `CachedBuild` | `parse_cache.py`, `main.py`, `_Project.build`, `load_and_generate`, `atomic_write` | |
| `CachedBuildProofs` | theorems about it | extends it |
| `RstLines` | lines, indented blocks, `tinydocutils/statemachine.py`'s `StringList` | |
| `RstStates` | `tinydocutils/states.py`, the machine of `statemachine.py`, the directives of `rstparser.py` | extends `RstLines` |
| `RstMachineProofs` | lemmas about lists of lines, the parser's invariant, and the steps of the body, of lists and of directives | extends `RstStates` |
| `RstStatesProofs` | the steps of text, titles and ends of machines, and the theorems that follow; the invariant of the section level, and its theorem; the invariant that accounts for lines of text | extends `RstMachineProofs` |
| `RstOnceProofs` | every step keeps that account, and its theorem | extends `RstStatesProofs` |
| `PageTree` | `n.py`, the handlers' shared context, `FileId` | |
| `Inclusion` | include and substitution passes | extends `PageTree` |
| `PageDirectives` | handlers of the third pass that look at directives | extends `PageTree` |
| `PageTargets` | headings, targets, references, `target_database.py` | extends `PageTree` |
| `TocTree` | toctree, ia tree, breadcrumbs, slugs, multi-page tutorials | extends `Inclusion`, `PageTargets` |
| `Postprocessor` | `Postprocessor.run`, `eventparser.py`, `generate_metadata` | extends `TocTree`, `PageDirectives` |
| `MC*` | constants and symmetry for TLC | each extends the module it is named after |

### WorkerLauncher

The processes are *calls*, not threads: a thread that calls twice is two calls, one after the other, which is
one of the interleavings. An action is one step between two accesses to shared state, so `cancel()` is seven
steps (`Call`, `CancelLock`, `CancelTest`, `CancelSet`, `CancelJoin`, `CancelRelease`, `CancelClear`), of which
the clearing is outside the lock, as in the code. `RunAssign` stores the thread under the lock, `RunStart`
starts it without. A worker's target may return, raise, or see the Event and raise `CancelledException`; the
Event is tested once more after it returns. `raced` is auxiliary: it remembers that two `run()` calls have been
between test and start at the same time.

### PageDatabase and Snapshots

`start` runs as the launcher's target, line by line: test for changes, one action per turn of the copying loop,
the pipeline (one nondeterministic step with the outcomes result, cancelled and failed), commit. A page is the
number of the edit that wrote it and a result is the content it was made from, so that staleness can be seen by
comparing. `edits`, `history` and `overlapped` are auxiliary: the contents there have been, and whether an edit
fell between a copy and its commit. Orphan diagnostics, `merge_diagnostics` and persistence are not in it.

`Snapshots` says the same without threads: `Write` a page, `Look` at all pages at once if there is anything new
and nobody else is looking, `Publish` what was made of the look or drop it, or be answered with what was
published last. The refinement mapping (`Promised` in `PageDatabase`) makes the copy of a worker in the pipeline
its look, so the turns of the copying loop are stutters and its end is the look. The commit clears every change,
those made since the look too, as in the code: that is in `Snapshots`, since callers can notice it. The one
thing of the launcher that shows through is that two readers may look at once after their flushes have raced.

### LanguageServer

A request's number names all that comes of it: its timer, its call of `update_file`, its update, the postprocess
timer, thread and worker. The parts keep their locks: the request thread or change timer takes `_project_lock`,
cancels, joins, releases, puts the update; the update thread takes the lock, parses, publishes, sets, publishes,
arms the debouncer; a postprocess timer takes the lock only to fetch the project. A *preview* (`get_page_ast`)
is a request of its own: it takes the lock and keeps it (`TakeLockForPreview`, `Previewing`) while it cancels,
launches a worker and waits for its answer (`PreviewReturns`), so the update thread cannot begin in the
meantime; its result is published to nobody. `swept` is auxiliary: a preview has cancelled a postprocessing that
was under way. `refused` is auxiliary too: the files whose last put update has raised.

The update thread logs every exception of `project.update` and goes on (`language_server.py:322`), so
`UpdateRaises` is possible for any text, at two points (`MayRaise`): while the file is parsed, since it may be
gone and since the parser raises on some ordinary documents (section 5), and after the parse has been published,
when a task left for the end of the page raises (`PendingFigure` catches `OSError` only, `parser.py:195`, and
the image library may raise others). Either way the page stays as an earlier update made it, and the
postprocessor is armed.

Simplifications: the launcher's cancel is two steps, and the rest of `run` one with the second of them; copying
the pages is one step; arming the timer is one step with the end of the update (a timer fired while the lock is
held gets nowhere). `OpenAtStart` is a state reached by opening files with the text they have on disk. Only RST
files occur. `didOpen`, `didChange`, `didClose`, watched-file changes and previews are modelled; shutdown and
the parent watcher are not.

### CachedBuild

Each build is a process: `Start` loads the cache of the current configuration, RST files are taken from the
cache (`FromCache`), parsed (`ParseRst`) or absent (`NotThere`), then each Giza category is taken whole or
generated. `EndBuild` is `snooty build`; `ReplaceCacheFile` and `CloseCacheFile` are `create-cache`, with a file
that may be incomplete in between because `atomic_write` replaces before it flushes; `Crash` may come at any
point, `Edit` between any two steps. A page is the record of everything it was made from. What the code does and
the model keeps:

- images are recorded as dependencies only once read, OpenAPI files and URLs likewise, literally included files
  always, shared includes never;
- YAML pages are not compared with their dependencies, and lose the diagnostics of pending tasks when they come
  from the cache;
- a category taken from the cache is not reified, so the next cache file has nothing of it;
- the digests that are compared have different sizes for images.

Left out: fetching the cache from `cache_url_prefix`, `.ast` pages, diagnostics of nested projects, extracts
whose names begin with `_`, the orphan diagnostics in the cache (which nothing reads). What a source refers to
is a constant, since another text has another hash anyway.

### Project

A request is a call with calls inside it: an asset's update or deletion updates the pages that show it, a YAML
file's those of the files that inherit from it. `stack` holds the calls that have not returned and an exception
empties it, so a request may be cut short between any two pages. A page is the text it was made from and those
of the assets it shows, read when the page is set. `due` and `failed` are auxiliary: what the last request for a
file was about, and whether it has raised. What the code does and the model keeps:

- no update makes a page of a YAML file: `create_page` gives `get_fileid` a `FileId` (`gizaparser/domain.py:187`),
  which asserts that it is none (`types.py:246`). A file that is reified into pages raises at the first of them,
  after the text of the turn has been registered (`CreatePageRaises`), also when the call was made by the
  deletion of an asset, which ends with it; one that makes no page goes on (`RebuildFile`). So the pages of YAML
  files stay as the build made them (`Build`), and so do their edges;
- the parser raises at some texts (the constant `Unparsable`), before anything of the project has changed;

- all pages of a source are one node of the asset graph, so after a build the last one has the edges; a deleted
  page keeps its edges; only images are in the graph;
- `update_asset` fetches each page from the page database, which asserts that nothing has changed;
- `delete` of an asset goes through the graph while it changes it;
- `GizaYamlDomain.update` asks every category's graph for the file, reifies each file before it puts the new
  text in the registry (so whether a turn raises depends on the old text), and parses the file of the turn before;
- `delete` of a YAML file gives up, silently, on a file that is in no graph, removes no page, and rebuilds
  nothing.

Simplifications: one `Build`, in one step, without cache (`CachedBuild` has it step by step); the postprocessor
is `Copy`, `Commit` and `Cancelled` (`PageDatabase` has it step by step); whether a YAML file inherits, and from
what, is a constant; in `DeleteDependent` any order of the dependents is possible, of which the code has one;
with five dependents or more the iterator could also skip one, which is not modelled. Requests for assets come
from users of `Project` other than the server, which drops them (`language_server.py:352`).

### RstLines and RstStates

The parser is a stack of state machines (`frames`): each has its own list of lines, an offset, a state, and what
its caller does when it ends (`then`). One action is one transition method up to the machine it starts
(`BlockQuote`, `FirstItem`, `Underline`, `BlockDirective`, ...), or the rest of that method when the machine has
ended (`Return...`: go to the line where it stopped, restore level and minimum, bubble up). `EndOfInput` and the
`...Eof` actions are the states' `eof` methods. `memo` is what the machines share: title styles, section level,
the stack of minimum levels, and the flag by which a title further out is passed up. `cache` is
`nested_sm_cache`: a machine taken from it keeps the `eofcheck` of its last use, as in the code.

A line is its number, its indentation and the *marks* it is made of: which transition each matches, its width,
and its length as a rule. Stripping, indentation, offsets and blank lines are computed from them; regular
expressions are not. `tree` is the nodes made, each with the lines of text it holds. `dropped`, `reread` and
`steps` are auxiliary: the lines no machine will read, whether lines have been read a second time by mistake
(`RereadsSection`, section 5), and the steps taken. Directives are what the table of them says:
whether they take arguments, options and content, and which `run` handles them (block, version, code, replace).
Not modelled: the patterns themselves, inline text, and the tables that `snooty` leaves out of tinydocutils.

### The postprocessor: PageTree, Inclusion, PageDirectives, PageTargets, TocTree, Postprocessor

Nodes live in a heap, since handlers keep nodes and change them later and since filling in a block substitution
may give one list of children to several nodes. A *context* is the heap, the pages, the diagnostics (kind, file,
line) and one field for each handler's state; a handler is that field and an operator for each event it listens
to. `Postprocessor` has the passes as a table (which handlers listen in which pass, in the code's order), the
walk of `eventparser.py` that gives them the events, and the machine: one step per page (`Consume`), the step to
the next pass, `Finish` for `generate_metadata`, `Cancel` at any time and `Cancelled` between pages, `Raise`
when a handler raised.

- `Inclusion`: include directives with slug lookup, `start-after` and `end-before`, copies, assets,
  replacements; definitions, references before and after them, loops, `snooty.toml`'s substitutions.
- `PageDirectives`: tabs, methods, tutorials, composable tutorials, contents, instruqt, banners, guides,
  OpenAPI, changelog, facets, images, collapsibles, wayfinding, dismissible cards.
- `PageTargets`: headings and their ids, titles of toctree entries, targets and anchors, programs and options,
  footnotes, `:ref:` and `:doc:`, named references, the target database with the inventories' entries and its
  disambiguation.
- `TocTree`: the tree of toctrees with external projects, the ia tree, breadcrumbs, order of slugs, orphans,
  multi-page tutorials.

Exceptions are outcomes: `RecursionError` when a tree is walked or copied deeper than `MaxDepth`, `ValueError`
and `KeyError` where the code raises them. Not modelled: wording and suggestions of diagnostics, the `~` flag's
text, manpages, output for deprecated versions.

## 3. Runs

| Run | Question | Result |
|---|---|---|
| `launcher` | two `run`, two `cancel`, every interleaving: deadlock, lost answers, stray cancellation, second worker | holds, the second worker excepted when two runs race |
| `pagedb` | two flushes, a cancellation, three edits of two pages: do cached, changed and copied agree, and is it all what `Snapshots` promises? | holds outside the window between copy and commit |
| `server` | two requests, updates or previews, on two files against the initial postprocessing: nothing lost, nothing stuck | holds; a file stays without merged diagnostics only after a preview has cancelled a run |
| `server_parity` | does a settled server show what a build would? | no: a preview, or an update, cancels the postprocessing under way (finding) |
| `cached_build` | three builds, two edits, crashes, two configurations: is what is reused current, and what is unchanged reused? | holds, unrecorded references and images excepted |
| `project` | two requests for any files, two edits: does the asset graph stay that of the pages, and is every page brought up to date with an asset that was asked for? | holds unless the request raises |
| `project_yaml` | does the registry follow updates and deletions of YAML files? | no: they usually raise, or give up silently (finding) |
| `project_assets` | does a request for an asset bring its pages up to date, exceptions or not? | no: the second page is never fetched (finding) |
| `rst` | every small document: is each line of text in one node, do levels, offsets and memo stay right, does the parse end soon? | holds |
| `rst_lost` | is text lost only with a message? | no: the second line of an argument with options vanishes (finding) |
| `postprocess` | every project of seven families, cancelled anywhere: references, substitutions, assets, contents, selectors, orphans, guides, and an end | holds |
| `postprocess_anchors` | do two targets of a page have two anchors? | no: the third of three equal labels has the second's (finding) |

Every property of a passing run has a mutant in `PROJECT.json`: a plausible faulty variant of one definition,
kept beside it under a comment "Mutant" or "Faulty variant of", that the property detects.

### Bounds

- `Runs`, `Cancels`: two runs are the fewest that race in launching; with two cancellations one can cancel a
  worker while the other is between its release and its clear. The safety theorems hold for any number, so only
  liveness rests on this bound.
- `MaxEdits = 3` (PageDatabase): one edit to have something to postprocess, one to fall in the window, one after
  it. The theorems, the refinement included, hold for any number.
- `MaxRequests = 2` (LanguageServer): with the initial postprocessing, three flushes; one request can supersede
  another, and cancel its postprocessing, in queue, debouncer and launcher. The theorems hold for any number;
  only the `ENABLED` in `NeverStuck` rests on this bound.
- `MaxText = 2`, `MaxEdits = 2`, `MaxBuilds = 3` (CachedBuild): one build makes a cache, one uses it and writes
  it anew, one uses that; two edits change a file and change it back, or change two. One RST file has each kind
  of reference that differs; one category has inheritance, one has a page for every file. Every property is
  proved without these bounds.
- `MaxEdits = 2`, `MaxRequests = 2` (Project): an edit of the asset and one of a page that shows it, between two
  requests. Two pages show the asset, the fewest of which the second can fail; another asset is shown by none. The
  second text of a page is one the parser raises at, the third shows nothing. One extract has an heir in each of
  two categories; the code has three categories, and the third would ask for one more heir and change nothing. Its
  first text makes two pages and its second none, the heir's none and then one, so that a turn of the loop passes
  or raises, also within the deletion of an asset.
- Documents (RstStates): all of up to six lines of text, blanks and two kinds of rules (three sections, or two
  and a title further out); all of up to four lines of the commonest blocks; all pairs of the marks that are
  left; and longer ones for what needs them: three levels of titles with and without overline, titles in
  directives, short overlines whose section ends before a title further out, or at the end of the input after a
  title in a directive, definition lists, nested substitutions. `StepsPerLine = 12` is the bound of `EndsSoon`,
  not of the model: nothing is cut off by it.
- Projects (Postprocessor): seven families, one for each group of handlers, and in each every arrangement of a
  few blocks: inclusions (chains, cycles, missing files, ranges), substitutions (definitions and references in
  every order, loops), references (names several pages define, pages in either order), pairs of directives
  (beside and in each other), toctrees, ia trees, and the rest of the metadata. `MaxDepth = 9` stands for the
  interpreter's stack: it is deeper than any tree of the families that has no cycle, so what reaches it is a
  cycle.
- Symmetry is used only in runs whose properties are safety properties.

### Fairness

`WorkerLauncher!FairSpec`: weak fairness of each call's and each worker's next step. Threads are scheduled by
the operating system, so a step that stays possible is taken; the target is assumed to end, which `RunEnds`
justifies for the pipeline; nobody is forced to call. Weak fairness suffices for the lock since there are
finitely many calls.

`Postprocessor!Spec` says that the run goes on until it has an outcome; it is a loop in one thread, and nobody
has to cancel it. Its fairness is written out as what weak fairness of its steps amounts to.

The parser has no fairness: it is a loop too, and `EndsSoon` bounds its steps, which is more than that it ends.
For the language server progress is stated without fairness: `NeverStuck` says that in every state that is not
settled somebody waits for nothing (`Unblocked`) and a step of the server is enabled. As no step repeats for a
request, the server settles. TLC's deadlock check is on in
every run.

## 4. Proofs

All theorems are for every value of the constants, from the assumptions in the modules that declare them:
`LauncherAssumption` (runs, calls of `cancel`, `NoRun` and `Nobody` are apart), `DatabaseAssumption` (the same,
and `MaxEdits` is a number), `ServerAssumption` (`MaxRequests` is a number; `Nobody` is no thread, `Raw` no
pages), `BuildAssumption` (there is a text; the constants that say what refers to what are functions; files,
URLs and `None` are apart) with `PageAssumption` (`None` is neither page nor digest), and `ProjectAssumption`
(the kinds of files are apart, and the constants that say what a text refers to are functions). They need no
bound on the number of calls, pages, files, requests or builds, and not even that they are finite. The parser's
three are `DocumentsAssumption` (a document is a non-empty sequence of lines, numbered from 1),
`MarksAssumption` (a text and a rule go on to the end of their line, as their patterns do, and what reads as a
directive is no text) and `DirectivesAssumption` (`replace` takes neither argument nor options, as
`directives.py:381` declares it; other directives may be anything). Documents may have any length and any lines.

**`WorkerLauncherProofs`.** `TypeOK` is inductive. The safety properties follow from

    IInv == TypeOK /\ LockInv /\ StartedOnce /\ (~raced => Unraced)

`LockInv` says that the lock's holder is the call that is inside the `with`, hence at most one
(`MutualExclusion`). `StartedOnce` says that a worker is new until its `start()`. `Unraced` is the reason there
is a single worker: as long as no two runs have launched at once, only one run is between test and start, every
live worker is the one `__thread` names, and a run that is past its join has no live worker.
`OneWorkerUnlessRaced` alone is not inductive because it does not know that the old worker is dead when the new
one starts. `SerialRunsAreSafe` draws the conclusion in terms of the code: if `run()` calls never overlap in
launching, there is one worker at most.

**`PageDatabaseProofs`.** `LauncherRefined`: every step of the database is a step of the launcher or leaves it
alone, so the launcher's invariant and theorems hold of the database's launcher. On top of it,

    DInv: TypeOK, Launcher!IInv, NewEnters, NothingCopied, CopyIsCurrent, HistoryIsKept,
          CopyIsOneMoment, CachedIsOneMoment, PipelineIsCurrent, NoLostChange, PipelineIsNewer

`CopyIsCurrent` says that what a worker has copied is still what is parsed, since it holds the lock that edits
need; it becomes `CopyIsOneMoment` when the loop ends. `PipelineIsCurrent` carries it to the commit as long as
nothing overlapped, which gives `NoLostChange`. `PipelineIsNewer` relates a copy to the cached result through
`history`; with the launcher's single worker it gives `NeverBackwards`. None of the three properties is
inductive alone: each needs the conjuncts before it in this chain.

`SnapshotsKept` is the refinement of `Snapshots`: initial states map to initial states, and every step to a step
of `Snapshots` or a stutter (`StepIsPromised`). It needs `DInv` for the end of the copying, where the copy must
be all pages as they are, and `CopyHasWork`: who copies has found something changed, and holds the lock that any
commit that could clear it needs.

**`LanguageServerProofs`.** "Settled" says that nobody has anything left to do, so its properties are proved
turned around: as long as a file is not as it should be, an invariant names who still has something to do about
it. All of them rest on `TypeOK` and `Numbering` (a request's number is that of all that comes of it, and what
is queued has left `update_file`).

- `EveryPageIsPostprocessed` from `ChangesAreDue`: while a page is marked as changed and no run has failed, an
  update is on its way (`Updating`), a thread is going to launch a worker (`Coming`), or a worker lives; and
  `Cancellation`: the Event is set only while one of the first two holds, so a worker that is cancelled is never
  the last hope.
- `EveryPageIsMerged` from `Merging`: the same of a file whose diagnostics are those of its parse alone, with a
  run that somebody waits for and that will show it (`Merges`) in place of any worker; previews do not count,
  which is why the property excepts `swept`.
- `WhatWasPutLastIsParsed` from `Newest(f)` for each file: an update of the file is in `update_file`
  (`Outstanding`), in the queue (`Waiting`), in the update thread (`Working`), or what was put last has arrived;
  what waits is what was put last; and a text the thread is about to set is that of its update unless another
  comes after it. An update that raises arrives nowhere: if it was the last one put, its file is `refused`, the
  property's exception, until another is put.

**`CachedBuildProofs`.** A cache file is read long after it was written, so nothing can be said of the files as
they are. The invariant `Together` says what holds of every kept entry regardless: page, text, parent's text and
diagnostics *belong together* (`SoundEntry`), in every cache file, in what a build has loaded, and in what it is
about to write. The comparisons of `Hit` (for pages) and `Valid` (for categories) see the files as they are;
entry and comparison together give that a reused page is what would be made (`RstPagesCurrent`,
`YamlPagesCurrent`). `Reused` is the converse, from the digests alone. `ErrorsRaised` adds `ToDo` (a category
still to do has no pages) and `Raised` (a page's errors are given out with it, cache or not).

**`ProjectProofs`.** The safety properties of `Project` follow from

    IInv == TypeOK /\ Nesting(stack) /\ GraphIsCurrent /\ Unbuilt /\ Current

`AssetsShownUnlessRaised` is about the time between requests and says nothing while one runs. `Current` does: if
an asset is due and its request has not raised, a page that does not show it as it is still waits for its turn
in a call for that asset. When such a call begins, `GraphIsCurrent` makes `Dependents` contain every page that
shows the asset, and the pages that do not are fresh trivially; each turn then makes one page fresh and no page
stale, since a page is made from the files as they are. `Nesting` says that the only call ever made within
another is a YAML file's, so a page waits behind one call at most and a call that returns leaves the one it was
made in. That call raises if it comes to a file that makes a page, and then the deletion it was made in has
raised as well (`Abandon`); the pages that still waited are the ones the property excepts. `Unbuilt` says that
nothing is due before the build. `GraphIsCurrent` is inductive with `TypeOK`: a page's source is taken out of
the graph before its new edges come in.

**`RstMachineProofs`, `RstStatesProofs`.** One inductive invariant, `Stack`, describes the stack of nested
machines in full; three of the properties proved of the parser are read off it. `Stack` has a part for each
shape of thing:

- `FrameOK`: each machine by itself. Its lines are lines of the document, a text state keeps one line of context.
- `LinkOK(f, g)`: a machine and the one it started. `f` numbers its lines as the file does (`Counted`), then so
  does `g` unless it is `Exempt` (the two exceptions of `OffsetsInStep`); a section's or a list's machine begins
  where its caller stands; a caller of anything but a section is not in the middle of a text or a title. This
  is what a return needs: the machine that resumes is not the one that just ended, and what it resumes to is
  only known from the link.
- `TopOK`: the innermost machine. Where it is at its end, it is in a state whose `eof` can do what it does, and a
  title is passed up (`bubble`) only by a `Line` state that ends, to one that is about to.
- `TreeOK`: a node is put under one made before it.
- `MemoOK`: the stack of lowest section levels is one longer than there are directives under way that have pushed
  one (`Pushers`, a cardinality), and a section level has a title style. After an exception only the type is
  left, since nothing is popped.

None of the properties is inductive alone. `MemoRestored` is about the last state of a parse and says nothing of
the stack before; `OffsetsInStep` does not know where the machine a return resumes begins, nor that a block
taken from a list of lines is one that `StringList` numbers consecutively; `TypeOK` does not know that the lines
a node gets are lines of the document. A step touches one or two machines at the top, so the proof has one lemma
for each of four ways to change the stack (`Going`, `Starting`, `Returning`, `ReturningStart`: go on, start,
return, return and start at once), one lemma for each action, and below them the lemmas on lines
(`IndentedBlockPart`, `DirectivePart`): what is cut, trimmed or dedented stays numbered as it was. The first
line with a property is the `Min` of a set, and that there is a least one (`LeastNatural`) comes from the
library's well-founded ordering of finite sets by inclusion, not from an induction theorem, which would take an
operator as its parameter. `Stack` was checked with TLC on the documents of run `rst` before it was proved.

The proof found two things about the code. A directive that takes no argument and is given text before its
options gets that text back as content, with the options cut out from between (`states.py:2314-2318`): what
follows is numbered one line too low for each option, in nodes and messages. `OffsetsInStep` excepts it
(`OptionsCut`), and the documents of run `rst` have one. And the same would happen to a `replace` that had
options, whose machine `OptionsCut` does not cover: `DirectivesAssumption` says that it takes neither arguments
nor options, as the code's own table does (`directives.Replace`).

**`RstStatesProofs`, the section level.** The memo has one section level for all machines (`LevelIsDepth`). A title further out
changes it at once, when only its own machine has been told to end; all the machines between that one and the
machine the title belongs to end one after the other, and for so long the level is lower than the depth. The
invariant says where:

    Unwound == Chained(frames) /\ (Clean => Nested(frames, memo.level))

`Nested` says that each section remembers the number of sections around it (`new_subsection`'s `mylevel`), and
that the level is the depth of the innermost machine, or lower while that machine ends *before a title*
(`BeforeTitle`): it is in a state that reads titles, no longer runs, and a line that is not blank is left to it.
When the machine of a section ends so, its lines were the rest of its caller's (`Rest`, in `Chained`), so that
the caller, which jumps to where it stopped, is before that title too, and the argument repeats; otherwise the
level is restored. Any other machine that ends so loses the title, since nested parses do not look at what is
left: then `dropped` is not empty, and the property has nothing more to say. Machines of lists are in no state
that reads titles (`Listed`). The last case is a short overline whose section was ended by a title further out:
it is looked at again as text, the machine runs once more and the lines of its section are read twice; `Clean`
excludes that (`reread`), which documents of run `rst` reach. `Unwound` was checked with TLC before it was
proved.

**`RstOnceProofs`.** `EachLineOnce` speaks of the last state only, when every line of text must be somewhere and
in one place. Its invariant, `Ledger` (defined in `RstStatesProofs`), keeps an account of the lines of text in
every state before:

- `Covered`: a line of text is held by a node, or has been dropped, or is in the `Debt` of some machine, or a
  message that is about to be made will quote it (`Quoted`).
- `Once`, unless lines have been read again by mistake: no two nodes of content hold the same line, none that is
  held is in a debt, and no two debts have a line in common.

The debt of a machine is what it will read in its own name: for the innermost one the lines from where it goes
on (`Resume`; the line before, for a text state that has looked one line ahead), for the one below it those
behind its block (`Waits`), and nothing at all if the machine above has taken the rest of its lines over, as that
of a list or a section has; a directive's machine for its argument has the content to be read in its place
besides (`Later`). So the sum stays the same when a section's machine ends and its caller jumps to where it
stopped, and a step only moves lines: from a debt to a node, or to another machine's debt.

The other parts are what that needs. `Formed` describes machines: what is behind the first line of a list's or a
section's machine is the rest of its caller's lines, a text state's context is the line it stands at, a
definition's first line is looked at as any other. `CoveredBelow` and `Plain` are about the definition of a
substitution, whose end may take back the nodes made within it and quote its lines instead
(`SubstitutionDef.eof`): everything that is not in the definition is accounted for without those nodes.
`Grounded`, with the level of the memo, says that the level is 0 exactly where no section is around: so a title is
passed up only to a machine within another, and the document's own machine never ends with lines unread.

A step is proved by its shape: it puts one machine in the place of those from some depth on (`LedgerPut`), or one
and another above it (`LedgerStart`); most only move the innermost machine by one line (`SeenGo`) or cut a block
out (`SeenNested`), so that their proof is what the operators of `RstLines` keep of the lines of text.
When no machine is left there is no debt (`LedgerClosed`), which is `TextIsReadOnce`. `Ledger` is inductive together
with `Stack`, and was checked with TLC on the documents of run `rst`.

The proof found an error in the model. A short overline was thought to be looked at again only before a title
further out. It is at the end of the input too, if a title in a directive has lowered the level before: the
section's machine then ends at the last line, and `Line.eof` goes two lines back, into the section. The program
does so; `RereadsSection` has the case now, and run `rst` a document that reaches it. It also asked for
`MarksAssumption`: a text that does not end its line would be in two nodes.

**`LanguageServerProofs`, who waits for whom.** `SomebodyCanMove` is the part of `NeverStuck` that is about
guards: `CanMove` lists what every thread, timer and worker waits for where it stands. Its invariants say that a
lock is held by somebody at a step that does not need that lock (`ProjectLockHeld`, `LauncherLockHeld`), and
that a thread that waits for a result has a worker (`Awaited`); `HoldersMove` follows the chain from there: a
live worker can move; if none lives nobody waits in a join, so the launcher's lock is free, so no preview is
under way without being able to move, so the update thread does not wait for one, so the project's lock is
free. `LauncherLockHeld` alone is not inductive: an update arms its timer by overwriting the thread of its
number, and if that thread held the launcher's lock it would be lost. `Unprocessed` says that it cannot: no
update is processed twice, since a put with the same key replaces the update before it.

**Model-checked only.** Liveness (`EveryCallReturns`, `EveryRunAnswered`, `RunEnds`) and the `ENABLED` of
`NeverStuck` are out of the prover's reach. So is what a walk over trees of any shape computes, which is an
induction over data: the postprocessor's modules are written with `RECURSIVE` operators and have no theorems. Of
the parser, `EndsSoon` needs a measure over the whole stack, a sum of weights, that decreases with every step,
steps back included; the ledger says that lines are not read twice, but not how often one is looked at before it
is read, and it says nothing behind an overline that is looked at again.

## 5. Findings

Five disagreements between the code and what it says of itself, each with a run and a trace; `PROJECT.json`
quotes the sentences they contradict.

1. A preview, or an update, cancels the postprocessing under way; its thread does not try again, and the client
   is left without those diagnostics (`language_server.py:402`, run `server_parity`).
2. Updates and deletions of YAML files usually raise or give up and leave the registry as it was
   (`gizaparser/domain.py:166`, `project_yaml`). Those that do find the file in every graph raise as well, after
   the text has been registered, as soon as a page is made (`gizaparser/domain.py:187`, `types.py:246`): the
   pages of YAML files stay as the build made them.
3. A request for an asset rebuilds one page at most (`parser.py:2262`, `project_assets`).
4. A directive's argument of several lines loses all but the first when there are options (`rstparser.py:537`,
   `rst_lost`).
5. Three equal labels on a page have two anchors (`postprocess.py:749`, `postprocess_anchors`).

Exceptions that passing properties state, because the code makes them:

- two `run()` calls that race orphan a worker (`util.py:445`; `OneWorkerUnlessRaced`);
- an edit between copy and commit is cleared with the commit (`page_database.py:62`; `NoLostChange`);
- errors of YAML files without pages are lost when their category comes from the cache
  (`gizaparser/domain.py:104`; `ErrorsOfPagesRaised`);
- a page with an image is never reused, since digests of 32 and 64 bytes are compared (`types.py:112`;
  `ReusedUnlessImages`);
- an update that raises is logged and dropped, so the page stays as an earlier one made it, and what was put for
  the file last is never parsed (`language_server.py:322`; `LastPutWins`);
- a facet directive with several values and with children leaves all of them but one on `parent_stack`, for the
  facets of the pages that follow (`postprocess.py:1920-1937`; `WalksUnwind`);
- unreadable images, OpenAPI files and shared includes are not recorded as dependencies (`parser.py:180`,
  `1376`; `RstPagesAreCurrent`);
- a title whose overline is too short, and whose section is ended by a title further out, is looked at again as
  text: the last lines of the section are read, and are content, twice; so they are at the end of the input,
  after a title in a directive within the section (`tinydocutils/states.py:3326-3342`; `EachLineOnce`,
  `LevelIsDepth`);
- cycles end a run with an error (`OnlyCyclesRecurse`): files that include each other, ia entries that list each
  other, a heading that refers to its own label or page, and a substitution of `snooty.toml` or of an include
  that cites itself, though comments at `postprocess.py:1619-1623` speak of loops being detected.

In the models, but nothing is promised that they would contradict:

- *Server and project.* One debouncer drops a pending change of another file (`language_server.py:568`);
  diagnostics of a deleted page stay with the client (`parser.py:2047`); the server never hears of an image that
  has changed (`language_server.py:352`).
- *Parser.* A word that looks like a roman numeral and is none, as "dim.", ends the
  parse with an exception (`states.py:1509-1522`); a section inside `versionadded` and its kin is dropped
  silently (`rstparser.py:810-812`); a substitution definition of two lines at the end of a document raises
  `IndexError` (`states.py:1176-1183`); an argument that begins with a colon is dropped
  (`rstparser.py:520-521`).
- *Postprocessor, pages.* `multi-page-tutorial` below a heading raises `ValueError` and a second one is never
  reported (`postprocess.py:2178-2194`); ids of headings are not unique (titles "B", "B", "B 1"); the third
  nesting level of collapsibles is not reported; the second dismissible card of a page replaces the first;
  `TabsSelectorHandler.exit_page` returns at the first tab set without tabs and skips the others.
- *Postprocessor, projects.* State that outlives its page (the composables' number of selections, the ids of ia
  entries); facets of one directory are handed to the sibling visited next; a toctree of external entries only
  gives its page no breadcrumbs; a toctree with a URL below a multi-page tutorial raises `KeyError`; a guide
  that two chapters claim keeps the name of the one that was rejected.

## 6. Not modelled

- **Directive and role specification** (`specparser.py`), **TOML flattening and checking** (`flutter.py`,
  `taxonomy.py`): pure functions, evaluated once on files of the repository or on a configuration, whose errors
  are reported before anything else runs. A model of `flutter.py` would have to invent the reflection of the
  interpreter it runs on. The directives that `RstStates` needs are a constant.
- **Utilities**: path resolution, option parsing, HTTP cache, bundling: text, file and network operations
  without shared state. **Icon names**: a table. **Release tools**: scripts run by hand.
- **Wording**: text, suggestions and layout of diagnostics; a diagnostic is its kind, file and line.
- **Patterns and inline markup** of reStructuredText, and `JSONVisitor`, which turns the parser's tree into the
  other node by node: its stack follows a tree `RstStates` has. `ContentsLeadToHeadings` and the other
  properties of the postprocessor begin with trees as the visitor would make them.
- **Inventories**: fetching, decoding and writing them; their entries are in `PageTargets` as a constant.
- **JSON-RPC dispatch, shutdown and the parent watcher** of the server: they keep nothing of the project's
  state.
- **Diagnostics of YAML pages after updates**: no update makes a page of a YAML file (finding 2), and nothing is
  promised of the diagnostics its failure leaves.
- **Reification of Giza nodes** beyond one parent's text: replacements and references inside a file, layout of
  generated pages.
- **The command line and the builders' output**, but for the order in which `main()` loads the cache, builds and
  writes it.

Limits of the models, none of which a property rests on. Files of the postprocessor's families are all in the
root, so paths are names with a suffix, and rerooting an ia entry relative to its page (`postprocess.py:2633-2646`)
changes nothing; bounds of included files are one word. In `RstStates` a line that a malformed construct loses a
part of counts as dropped as a whole. A heading option is never empty (`util.py:219` refuses it), so the branch of
`AddTitlesToLabelTargetsHandler` that would leave its variable unset is not there. No family has a reference to a
replacement without content, which ends empty and unreported in the code when it is a block's.

One limit of a property: `ContentsLeadToHeadings` is checked of pages whose collapsibles are not shared by block
substitutions filled in late: such a collapsible is one node in several places, and each time the walk meets it,
it numbers its id again.
