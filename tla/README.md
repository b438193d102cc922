# powaur in TLA+

powaur is a helper for the Arch User Repository: it downloads PKGBUILDs,
resolves dependencies between packages of the AUR, of the repositories and of
the local database, and builds and installs packages in dependency order. It is
a C program of about 6700 lines; it runs one thread except while it downloads.
This directory models the parts whose behaviour is hard to test and checks them
with TLC. The safety properties of the sort, the hash tables, the download pool,
`-G --deps`, the choice of targets, the resolver with both of its callers, the
installation, start-up and the readers of PKGBUILDs are also proved with TLAPS, for every
value of the constants, and so are the refinements of the four abstract specifications (section 5 says from
which assumptions).

## 1. Inventory

| Part | Source | State | Operations |
|---|---|---|---|
| Dependency graph, topological sort | `graph.c` | vertices, adjacency lists, colours, next edge, two stacks | `graph_add_vertex`, `graph_add_edge`, `graph_toposort`, `graph_dfs` |
| Download pool | `download.c`, `extract_file` of `util.c` | `pw_jobq`, one stack frame per worker, tarballs and directories on the disk | `threadpool_dl_extract`, `thread_dl_extract`, `dl_extract_single_package` |
| `-G [--deps]` | `powaur_get` of `download.c`, `resolve_dependencies` of `package.c` | the list of the round, the disk | download a round, read its PKGBUILDs, next round |
| Resolver | `query.c`, `hashdb.c` | the tables of `struct pw_hashdb`, a stack of packages, the set of resolved ones, the graph | `normalize_package`, `crawl_resolve`, `build_dep_graph` |
| `-S`, `-Su`, `-Si` | `sync.c`, `mcq`, `yesno`, `have_dotinstall` and `wait_or_whine` of `util.c` | targets, the order, the list to build, the working directory, the processes waiting for each other | `sync_targets`, `sync_upgrade`, `sync_info`, `upgrade_pkgs`, `topo_get_targets`, `topo_install`, `install_single_package` |
| Hash tables | `hash.c` | four kinds of open-addressing tables | insert, search, position, grow |
| Start-up and configuration | `powaur.c`, `environment.c`, `conf.c` | `struct config_t`, the globals `pacman_*` and `powaur_*`, the static flags of `_parse_pmoption` | `main`, `powaur_init`, `parse_pmconfig`, `parse_powaur_config`, `parseargs`, `powaur_cleanup` |
| PKGBUILD reading | `package.c` | the file, the variables of one file, the buffer of `substitute_vars` | `grab_dependencies`, `parse_pkgbuild`, `parse_bash_array`, `substitute_vars` |
| AUR queries | `json.c` | one answer | `query_aur` and its callbacks |
| The rest | `util.c`, `error.c`, `memlist.c`, `wrapper.c`, `curl.c`, `handle.c`, backup | none that lasts | printing, prompts, allocation, library handles |

How they interact. `-G` calls the pool with its targets; with `--deps` the
calling thread reads the new PKGBUILDs after the pool has returned and calls it
again with what is missing. `-S` and `-Su` query the AUR for each target, then
`upgrade_pkgs` builds the graph (the resolver downloads PKGBUILDs one by one, in
the calling thread, and shares the tables of `pw_hashdb` with every later step),
sorts it, picks the AUR packages out of the order and installs them one after
the other, each in the directory of its PKGBUILD. `--crawl` uses the resolver
and the sort on one target at a time, with the same tables. What may be built
depends on what `grab_dependencies` reads out of PKGBUILDs, and how on the
options `main` has read before. All state is in memory except the
directories of PKGBUILDs, which outlive the program.

What is hard here, and what each part owes:

- **Pool**: the workers share `pw_jobq`; transfers fail; two workers may hold the
  same file. Owed: every target extracted, each job taken once, nothing left on
  the disk, no worker alive when the pool returns, the pool returns.
- **`-G --deps`**: circular and shared dependencies, packages that cannot be
  downloaded, an interrupted program started again. Owed: the closure of the
  targets, each package once, nothing else, an end.
- **Resolver**: three tables are both caches and state; their content depends on
  the order of calls. Owed: an exact graph, every package that will be built
  resolved, nothing up to date downloaded, no package downloaded twice, an end on
  cyclic dependencies.
- **Hash tables**: probing loops that end at a free slot only, growth in the
  middle of an insertion, sizes that overflow. Owed: a map in which the first
  insertion wins, an end to every loop.
- **Sort**: an iterative search with two stacks. Owed: a topological order, or a
  real cycle.
- **Installation**: failures in the middle of a list, the working directory, a
  user who aborts, children whose `exec` fails and who go on as second powaurs.
  Owed: dependencies first, all of the targets, nothing after a cycle or an
  abort, each package built in its own directory, a true report, an end.
- **Start-up**: three files and a command line that is read twice, each of which
  may override another. Owed: the value the documents promise for each option,
  repeated options refused, one operation with options of its own.
- **PKGBUILDs**: text replaced in place in a buffer, lines read ahead, arrays in
  any layout. Owed: what bash would read, within the buffer, and an end.
- **Choice of targets**: queries that fail one by one, three functions that
  change the working directory. Owed: exactly what was asked for is upgraded, a
  return to the first directory.

## 2. Modules

| Module | Models | Kind |
|---|---|---|
| `TopoOrder` | what the graph and the sort promise | abstract specification |
| `Toposort` | `graph.c` | specification; implements `TopoOrder` |
| `ToposortProofs` | | theorems about `Toposort` |
| `JobQueue` | what a pool promises | abstract specification |
| `ThreadPool` | the pool of `download.c` | specification; with one worker it implements `JobQueue` |
| `GetPkgbuilds` | `powaur_get`, `resolve_dependencies` | extends `ThreadPool` |
| `DownloadProofs` | | theorems about `ThreadPool` and `GetPkgbuilds` |
| `Resolver` | `normalize_package`, `crawl_resolve`, `build_dep_graph` | specification |
| `TopoInstall` | what `topo_install` answers and where it leaves the program | abstract specification |
| `Upgrade` | `upgrade_pkgs` to the last `makepkg` | extends `Resolver`, takes its sort steps from `TopoOrder` and its installations from `TopoInstall` |
| `Crawl` | `powaur_crawl`, beside `upgrade_pkgs` | extends `Upgrade` |
| `CrawlProofs` | | theorems about `Resolver`, `Upgrade` and `Crawl` |
| `Install` | `topo_install`, `install_single_package` and their processes | specification; implements `TopoInstall` |
| `InstallProofs` | | theorems about `Install` |
| `FirstMap` | what the tables of `hash.c` promise | abstract specification |
| `HashTable` | `hash.c` | specification; implements `FirstMap` |
| `HashTableProofs` | | theorems about `HashTable` |
| `SyncTargets` | `powaur_sync` up to the call of `upgrade_pkgs`, `sync_info` | specification |
| `SyncTargetsProofs` | | theorems about `SyncTargets` |
| `Startup` | `main` to the operation and out again, the readers of both configuration files | specification |
| `StartupProofs` | | theorems about `Startup` |
| `Pkgbuild` | the two readers of a PKGBUILD | specification |
| `PkgbuildProofs` | | theorems about `Pkgbuild` |
| `MC*` | values for the constants | model checking |

Definitions marked *mutant* in the modules are plausible bugs; nothing uses
them. They document which change of the code each property catches: with the
definition that follows replaced by the mutant, TLC finds the property violated.

### Correspondence with the code

**Toposort.** `data`, `adj`, `color`, `dfs_idx` are the fields of
`struct vertex`, one value per position. A turn of the loop of `graph_dfs` is one
action: `Retire` (no edge left), `Visit` (white), `SkipFinished` (black),
`CycleFound` (gray); a turn of the loop of `graph_toposort` is `StartDfs`,
`SkipVisited` or `DfsReturn`. Positions count from 1. Reallocation is left out:
arrays have no capacity.

**ThreadPool.** `jobq` is `pw_jobq` as a position in the list. The statement
`pw_jobq = alpm_list_next(pw_jobq)` is two steps, `GetNext` and `StoreJobq`,
after `GetData`, the load of the line before: the mutex around them is a local
variable and excludes nobody. A tarball is absent, whole, or owned by the worker
that opened it last; `Extract` of a file that is not whole may leave any part of
the package. A worker leaves its loop on any failure, as the code does. A `pthread_create` or
`pthread_join` that fails ends the program (`CreateFails`, `JoinFails`, `mainpc = "died"`):
whoever is at work then never goes on.
`maxthreads` is `config->maxthreads`, the limit `Startup` computes; a pool of one
worker (`Alone`) is what `-G <one target>` or a limit of one give.

**GetPkgbuilds.** A round is a run of the pool, then a turn of
`resolve_dependencies` per package of its list: `GrabDependencies` reads one PKGBUILD,
if there is one, into `deps`, and `ResolveDep` takes one dependency of it, which is known
(installed, in a repository or provided), on the disk, already in `newdeps`, or new.
`NextRound` or `GetReturns` ends the round. `GetCannotStart` is every return of
`powaur_get` before the first round: the directory, libcurl or the databases. `Interrupt` ends
the process at any step and leaves the disk; `Restart` is the same command again,
if the user gives it: it has no fairness.

**Resolver.** `db` is what changes of `struct pw_hashdb`. `normalize_package` is
an operator that gives the set of its results, each a name and the tables after
the call, because a download may fail. One action is a turn of a loop:
`Resolve` pops a package and finds where its dependencies are listed,
`NormalizeDep` and `NormalizeDbDep` take one of them, `Link` adds one edge. The
code has undefined behaviour in a few places: a null pointer becomes a vertex
(`query.c:410`); names are kept in an array of a function that has returned
(`query.c:357`), which becomes a vertex, or a key of `provides_cache`
(`query.c:230`, `263`: `KeyedByArray`, the set `db.inBuf`) that a later search for the
same name compares with (`ReadsDeadKey`); and `--crawl` goes on when
`build_hashdb` has failed (`query.c:589`, `WithoutTables` of `Crawl`). All lead to the status
"undefined", after which the model stops: nothing is claimed about what follows.
The search for a *different* name meets the dead key only if two hashes are
equal, which is left out. `CurlFails` is the return before anything is on the stack. `hashbst_tree_search` returns the
first provider in the order of a tree that does not change; the model uses
`CHOOSE`, which is as deterministic and as arbitrary. A package has the same
dependencies in a database and in its PKGBUILD. `call` is the list
`build_dep_graph` was called with: all targets at the level "immediate"
(`upgrade_pkgs`), one at "thorough" (`--crawl`).

**Upgrade.** The resolver's steps, then `TopoOrder`'s steps on the same graph
(any order it allows, hence the one `graph_toposort` computes: theorem
`Implements`), then `topo_get_targets`, which pops `topost` one vertex a turn
(`PickTarget`) until it is empty (`TargetsPicked`), and one `InstallNext` per package, the step of `TopoInstall`: a result, and the
directory that result leaves. `Crawl` adds the loop of `powaur_crawl`: a graph and a sort
per target, the tables kept; and the ways in which the callers fail to get as far as the
resolver (`CannotStart`).

**Install.** `procs` is a stack of processes, each waiting for the next one; only
the top one acts, because its parent is in `waitpid` and both have one terminal.
A process is the position of its `topo_install`, a label of
`install_single_package` (or the program it has become) and a working directory.
`Fork` pushes a child: the editor or makepkg, or, when it cannot be executed
(`editorRuns`, `makepkgRuns`), a powaur that goes on at the next label, as the code does
after `execlp` or `execvp` has returned. `Ends` pops it and gives its exit status
to the parent (`Resume`, `wait_or_whine`). `mcq` has the index of an answer in
`choices`: "N" and "A" are neither 1 nor 2. `CannotEnter` may happen with any package,
as `getcwd` may fail where `chdir` would not. `Killed` is undefined behaviour that
may end a process: `strtrim(NULL)` at the end of the input and, with
`--noconfirm`, the pointer freed at `sync.c:131`. `results` is what the first
process sees, the one `TopoInstall` speaks of.

**Startup.** A file is a sequence of trimmed lines and each action reads one; the
command line is a sequence of options, read once for the operation
(`ReadOperation`, `CheckOperation`) and once for the rest (`ReadOption`).
`pm.official` and `pm.commented` are the static flags of `_parse_pmoption`.
`config.color` is modulo 65536, as `unsigned short` is; `flags` are the one-bit fields.
Libalpm, `mkdir` and libcurl may fail. Nothing in `conf.c` or `environment.c` looks for a
repository that is listed twice: `OpenAlpm` takes it that `alpm_register_syncdb` refuses the
second one, so that part of `RepeatsRefused` is about libalpm. A line without a value is
no repeat either: the code does not count it. `powaur_cleanup` reads the configuration
it has freed, so `Cleanup` lets the program end by a signal. `Editor`, `TmpDir`
and `--target` are strings that are copied and left out.

**Pkgbuild.** A line has a kind, and text as pieces: letters and references
`$name` or `${name}`. In the buffer of `substitute_vars` text is cells, one per
character, and `str`, `len`, `s`, `p`, `q`, `diff`, `newlen` are the variables of
the function; a turn of its loop is `SkipReference` or `ReplaceReference`, or `Overrun`
when the shift or the copy would leave the buffer: from there on nothing is
known of the program. A line of an array counts as an assignment, as it does in
the code (`package.c:358`), when it has a version condition with an "="
(`IsAssigned`): `AssignedTo` has the texts that may stand before the "=", of which one
may be the name of a variable.
`NextArrayLine` is the third expression of the `for` statement of
`parse_bash_array`, `FindParen` a turn of the macro before it. `eof` is `feof`,
true after the last line when that has no newline. Spaces and quotes within
lines are left out, except that a quoted value keeps its quotes. `Lines` are the
lines a file may have, and `PkgbuildAssumption` says what makes them a file: each
array is opened, has its elements, and is closed before another statement begins;
a text is read as far as it goes (`$na` is no reference to `n`); characters of
names are not `$`, `{`, `}` or a space. `LinesFit` is what `fgets` guarantees: it reads `PATH_MAX - 1`
characters at most, so a longer line comes as two.

**HashTable.** One action is one turn of a loop: `Probe` looks at a slot in the
loop of `hash_entry_lookup_*`, `GraftProbe` in that of `hash_entry_insert_*` and
`hash_entry_graft_tree`, `MoveEntry` and `SkipEmptySlot` take the next slot of a
table that is replaced. The four types repeat this code with other entries; the
model has it once, with the entry a record of hash, key and set of values, and
one operator per type where they differ (`Stored`, `Rehash`). The tree inside an
entry of `HASH_BST` is the set of its values. `new_alloc_size` is computed modulo
`UintRange`, so that growth can fail as it does in the code. `hash_free` and the
positions `hash_pos` answers for types other than `VINDEX` are left out: nothing
uses the latter.

**SyncTargets.** One action per query of the AUR, per file of `-Si`, per turn of
the loop that removes targets which are up to date (`FilterTarget`), and per
decision between them. `lists` holds the five lists of `sync_targets` and
`outdated_pkgs`; `targs` is the list the current loop runs over; `GoTo` is the
jump to a clean-up label. A version is a number; `query_aur` answers NULL both
for a package that is not there and for a query that failed. `world.dirs` says
what `chdir` and `getcwd` can do. `upgrade_pkgs` is here only its check of the
directory and its result: `Upgrade` is the rest, and takes from here that its
targets were answered by the AUR (`HandedExactly`).

## 3. Runs

| Run | Shows | Bounds |
|---|---|---|
| `toposort` | the sort is right, terminates, implements `TopoOrder` | all graphs on 3 names, self-loops included, built in every order of calls, at most 3 edges a vertex: cycles of length 1, 2, 3, diamonds and second roots all occur |
| `pool` | one worker does what a pool is for, whatever fails; with two the pool returns or the program dies, and nobody is left working | lists of 1 to 3 packages (`parseargs` puts no name in a list twice), a limit of 1 or 2 threads, all failures |
| `pool_race_lost` | *violation*: a target is lost without any failure | the same lists, no failure |
| `get_deps` | `-G --deps` fetches the closure, once, and ends | 3 packages, 54 worlds, one worker, failures, 1 interruption |
| `upgrade` | the graph, the downloads and the caches are right; dependencies first, everything needed and nothing else, cycles stop it; a crawled target has a graph of its own | 3 names in 5 places each, 3 sets of providers, 27 dependency relations, with and without leftovers, 1 or 2 targets of `-S`, two of `--crawl`, any download may fail, 5 outcomes per installation |
| `install` | the right directory and order, abort stops everything, a true report, a bound on processes, an end; implements `TopoInstall` | lists of 1, 2 and 3 packages, with or without directory and `.install` file, `--noconfirm` or not, editor and makepkg that run or not, all answers |
| `hash_table` | the four tables implement a map, and calls end | 4 keys of which 0, 1, 2, 3 or 4 collide, 2 values, sizes 2, 3, 5, then 31 modulo 20, which is too small: two growths and a failure |
| `sync_targets` | what is upgraded is what was asked for; the way back | 2 packages in 16 states each, all 32 combinations of options, 4 kinds of directories, up to 2 targets, any query may fail |
| `startup` | every option of `pacman.conf` has its documented value; questions, colours and, without `--threads`, the limit of threads are what files and command line ask for; repeats are refused, one operation runs | every `pacman.conf` of a section and up to 3 of 17 kinds of lines, or of 2 without one; two `powaur.conf` of up to 2 and 1 lines; every command line of up to 3 of 16 arguments |
| `pkgbuild` | dependencies and arrays are what bash would read; only text that grows after it has shrunk leaves the buffer | two variables and an element of 2, 3 or 4 pieces, in a buffer of 12: values shorter than, as long as and longer than references, and too long for the buffer, texts that shrink, grow and grow again past its end; elements with conditions before the array; 2 arrays in 8 layouts, with 5 kinds of lines between and 6 after them |
| `pkgbuild_array_lost` | *violation*: an array on the line after another one is not read | the same files |
| `pkgbuild_hangs` | *violation*: a value as long as its reference is looked up for ever | the same files |

Every module states the types of its variables (`TypeOK`, `PoolTypeOK`,
`InstallTypeOK`, ...). Those of the sort, the hash tables, the pool, the installation
and the readers of PKGBUILDs are theorems; those of `-G --deps`, the resolver and its callers, the choice of targets
and start-up (`ConfigOK`, `PmType`) are parts of inductive invariants that are proved.
`PkgbuildTypeOK` says that length and search stay in the buffer, and that its last
nul is kept, up to an overrun. `CycleIsReal`, a theorem too, follows from
`ImplementsTopoOrder`.

Three packages are enough for what these parts can do wrong: a cycle through
the resolver or the sort needs one to three vertices, a shared dependency needs
two dependents, a wrong neighbour in a hash table needs two keys that collide
and a third that meets them, a race needs two workers and a list of two, a cache that
answers differently later needs a name met twice through two packages, a lost
directory needs one package to lose it and one to miss it. An option that is
overridden needs two lines, a repeated one two with a third between. The text
of an element needs two references for one shift to meet another, and four pieces
to shrink, grow, and grow again past the end of the buffer. The buffer has
12 cells instead of 4095: what matters is that values fit it, fill it or exceed it.
`MaxDegree` bounds the adjacency lists and `MaxInterrupts` the interruptions;
everything else the programs do is finite by itself. Deadlock is not checked
because every model ends: the program returns.

Fairness. The sort, the resolver, the upgrade and the readers are loops of one
thread: weak fairness of their next step says that the thread runs and that a
download, an editor or makepkg ends. In `Install` it says in addition that the
user answers; a question that is asked again until the answer is a choice is one
step. In the pool each worker and the caller are threads of their own, each with
weak fairness; `pthread_join` is a guard, and nothing says that it ever fails (`Runs`). An interrupted program need not be
started again.

## 4. Findings

Each violating run is a real disagreement between the code and what the
repository says of it; `PROJECT.json` quotes both. In short: the pool's mutex is
local (`download.c:114`); the line after an array of a PKGBUILD is thrown away
(`package.c:199`); a variable as long as the reference to it hangs the program
(`package.c:109`).

More surprises are excluded by the statement of a passing property, and have no
run of their own.

*Resolver and upgrade.*
- The result of `normalize_package` is not tested for the dependencies of a
  PKGBUILD: after a failed download a null pointer goes into the graph
  (`query.c:410`; `query.c:358` knows of the failure, for databases).
  `--crawl` of a repository package, and `-S` of a target another package
  provides, keep pointers into the frame of a function that has returned
  (`query.c:357`), in the graph and as keys of `provides_cache` (`query.c:230`, `263`).
  `--crawl` goes on without its tables (`query.c:589`). `UndefinedOnlyThere` says that
  these are the only ways into undefined behaviour.
- A target that another package provides is never entered into `pkg_from`, so
  `topo_get_targets` returns an empty list (`sync.c:470`) and nothing is
  installed: `CompleteWhenClean` requires known origins.
- `build_dep_graph` has no result, so a failed resolution is sorted and installed
  all the same (`sync.c:556`): `BuiltIsNeeded` is about runs that resolved
  everything. `powaur_crawl` tests `have_cycles`, which is never set
  (`query.c:603`), and prints what is on the stack when there is a cycle.

*Installation.*
- When an editor or a fork fails, `install_single_package` returns in the
  directory of its package (`sync.c:90`, `97`, `118`, `125`, `153`), where the next one is not
  found: `DirectoryAfter` of `TopoInstall` has it, and `BuildsAtHome` shows that
  nothing is built in the wrong place.
- A child whose `exec` fails is a second powaur, with the same questions, whose
  exit status is taken for the editor's or makepkg's. An abort there does not reach the
  first powaur ("Abort, propagate upwards", `sync.c:83`): `AbortStops` and
  `BuildsInOrder` are about programs that can be executed. `ReportedIsBuilt`
  needs a makepkg that can: without one a second powaur that
  ends well is reported as an installation.
- The result of `topo_install` is dropped, and powaur returns 0 although makepkg
  failed (`sync.c:567`). "N" and "A" open the editor, although the choices have
  them (`sync.c:56`) and NEWS announces them.

*`-G --deps`.* Started again after an interruption it finds a PKGBUILD on the disk
and does not look into it (`package.c:460`): `AllDepsResolvedUninterrupted` is about
runs that were not interrupted; the other safety properties hold with
interruptions. A download that fails ends its worker, and with one worker the rest of
the round: what was left of it is not asked for again.

*Choice of targets.* With a relative `TmpDir`, `-S` enters it in `powaur_sync` and fails
to enter it again in `upgrade_pkgs`: `NothingLeftBehind` shows that the failure is
at least reported. When `build_hashdb` fails, `-S` returns 0 and `-Su` returns -1.
`-Si` keeps its temporary file when `fdopen` fails (`NothingLeftBehind` excepts
that). A hash table that cannot grow ignores insertions without a result.

*Start-up.*
- `--threads` never counts: the limit is copied before the command line is read
  (`environment.c:243`), although `powaur.1.txt:79-81` says that the option overrides
  the file. `SettingsAsGiven` speaks of command lines without it only.
- With `Color = Off`, `--nocolor` takes the counter of colours from 0 to 65535 and
  switches them on (`powaur.c:278`), although `powaur.1.txt:71` says that it disables
  them, and 65536 colours are as good as none: `SettingsAsGiven` excludes both.
- A line `RootDir` or `DBPath` without `=`, commented or not, is read
  through a null pointer (`conf.c:125-126`); `CacheDir =` empties the list it does
  not replace.
- `powaur_cleanup` reads `config->handle` after `config` was freed
  (`powaur.c:29-30`); `alpm_option_set_cachedirs` is called before there is a
  handle (`environment.c:148`).

*PKGBUILDs* (the preconditions of `DepsAsWritten` and `ArraysAsWritten`).
- Text that grows after it has shrunk is not ended again (`package.c:105`) and keeps a stale
  tail, of which `len` knows nothing, so that it can also grow past its buffer
  (`Overrun`): `DepsAsWritten` excludes such texts (`SteadyAll`), and `OverrunsOnlyRegrown`
  says that no others leave the buffer.
- An element like `n>=1.0` of an array read before sets a variable `n` (`AssignsOnce`).
- An unknown variable stays as it is written, the first assignment to a variable
  counts and not the last, and values keep their quotes.
- A comment on a line of an array, and anything after its `)`, is read as
  elements; `('')` is an array of one empty name.
- The array on a last line without newline is not read.
- `ArraysAsWritten` says which arrays are lost (`Lost`): one that begins on the line after
  an array that was read. The third of three in a row is read again. An array that is
  set twice is read twice, into one list, and nothing after `build()` is read
  (`ArraysOnce`).

## 5. Proofs

`ToposortProofs` proves, for every set of names, every graph and every
`MaxDegree`:

- `TypeCorrect` (`TypeOK`), `CycleReported` (`CycleIsReal`), `OrderCorrect`
  (`TopoOrderValid`);
- `Implements`: `Spec => Abstract!Spec`, the refinement of `TopoOrder`.

They rest on one inductive invariant, `IInv`, proved in `InductiveInvariant`.
`TypeOK` and the two safety properties are not inductive: they speak of the end
of the search. `IInv` adds that names are distinct (`DataDistinct`), that the
search has left no trace before it starts (`Untouched`), that the stack is a
path of gray vertices without repetition whose edges are the ones last followed
(`StackIsPath`), that the followed edges of every vertex lead to finished ones
except the last of a vertex on the stack, and that finished vertices are exactly
those on `topost`, in an order that respects their edges (`FinishedInOrder`).
A black vertex then has all its successors below it, and a gray successor is on
the stack, which gives the cycle. The only assumption is `DegreeAssumption`.

`HashTableProofs` proves, for every set of keys and values, all hash functions,
every list of sizes and every width of `unsigned int`:

- `TypeCorrect` (`HashTypeOK`): in particular no probing loop leaves its table;
- `CountCorrect` (`CountIsExact`): `nr` is the number of entries and a slot is
  always free;
- `Implements`: `Spec => Abstract!Spec`, the refinement of `FirstMap`.

Their inductive invariant, `IInv` (theorem `TableInvariant`), says that from the
home of every key to its slot no slot is free (`Chained`), that no key is stored
twice (`NoDuplicates`), that a probing loop has passed occupied slots of other
keys only (`LoopsSeeOthers`), and that a growing table holds exactly the entries
of the old one moved so far (`Moved`). A loop that stops at a free slot has then
shown that its key is nowhere (lemma `Absent`), which is why a search answers what
the map holds; every moved entry meets a free slot (`GraftsToFreeSlot`), which is
why growth loses nothing. `CInv` adds what the count needs: a table that grows
receives fewer entries than the old one had slots. The assumptions are those of
`HashAssumption`.

`DownloadProofs` has two parts. About the pool it proves, for every list of
targets, every limit of threads and every set of failures (`PoolAssumption`):

- `PoolTyped` (`PoolTypeOK`): in particular no worker runs past the list;
- `PoolQuiet` (`QuietOnReturn`): a worker that has been joined is finished, and
  the pool returns after the last join, whatever the race does to the jobs;
- of a pool of one worker, `PoolAloneExtractsAll` (`AloneExtractsAll`),
  `PoolAloneCleansUp` (`NoTarballLeft`) and `PoolTakesEachJobOnce`, the refinement
  of `JobQueue`. The invariant says that the position of `pw_jobq` and what the
  worker holds cut the list in two, that all before the cut has been taken, in
  order, and that it was extracted or has failed.

About `-G --deps` it proves, for every list of targets, every dependency relation
and any number of interruptions (`WorldAssumption`), from the invariant `GetInv`
(theorem `GetInvariant`):

- `NeededOnly`, with any number of racing workers: only targets and what a PKGBUILD on
  the disk depends on and no database has are ever downloaded. `RoundNeeded`, `NewNeeded`
  and `DepsRead` carry the reason from the PKGBUILD into the list of the next round.
- `SingleDownloadsOnce` (`OnlyWhatIsNeeded`) and `SingleResolvesAll`
  (`AllDepsResolvedUninterrupted`), both with `maxthreads = 1`, because racing workers
  lose jobs and take others twice (`pool_race_lost`). `OnceInv` says that
  the list of a round shares nothing with the earlier ones; `ClosedInv` that each
  dependency of a package whose PKGBUILD has been read is on the disk, in the list
  of this round, or collected for the next one (`Pending`, `Coming`).

`InstallProofs` proves, for every set of lists, whatever cannot be entered,
forked or executed (`InstallAssumption`):

- `InstallTyped` (`InstallTypeOK`), `BuildsWhereItShould` (`BuildsAtHome`),
  `ProcessesBounded` (`MaxProcesses`);
- `InstallImplementsTopoInstall`, the refinement of `TopoInstall` by what the first
  process sees;
- `ReportsAreTrue` (`ReportedIsBuilt`), `AbortIsFinal` (`AbortStops`) and
  `MakepkgInOrder` (`BuildsInOrder`). The last also needs that no list has a package
  twice (`NoPackageTwice`): `topo_get_targets` takes each vertex of the graph once.

The bound is not inductive. `IInv` gives each process a rank, three per package
it is through and one per fork of the present one (`Rank`), and says that ranks grow
strictly from the bottom of the stack to the top (`IsStack`): a child whose
`exec` fails starts behind the fork its parent waits in, and can never fork there
again. It also says that each process inside `install_single_package` is
in the directory of its package, since it only gets in by the `chdir` from
`powaur_dir`. `BuiltInv` says that a process waiting for makepkg
waits for it on top of the stack, for the same package, so that what is reported was
built; `WorksInv` is about programs that can be executed: then powaur is alone or waits
for the one program it has started, and what it has built lies before its position.

`CrawlProofs` has the invariant of the resolver, `ResolverInv`, and extends it to
both callers (`CallerInv`, theorem `CallersInvariant`), for every world,
every list of targets and both levels (`ResolverAssumption`, `UpgradeAssumption`):

- `GraphExact` (`GraphIsExact`), `NothingUnresolved` (`EverythingResolved`),
  `EveryDownloadJustified` (`DownloadsJustified`), `UndefinedOnFewPaths`
  (`UndefinedOnlyThere`);
- `BuiltInOrder` (`DependenciesFirst`), `NothingBuiltNeedlessly` (`BuiltIsNeeded`),
  `CleanRunIsComplete` (`CompleteWhenClean`).

None of these is inductive. The tables are caches that are filled in any order, so
`DbOK` says that each entry is true of the databases, the AUR and the downloads, and
why each download was made. `EdgesInv` and `ResolvedInv` are the two halves of an exact
graph; for the package that is being worked on `CurInv` divides its dependencies into
those not yet read, those read, and those that have an edge. Dependencies may be read in
another package that provides this one (`Standing`), which is why the level
"immediate" needs the targets another package provides (`StoodFor`). `WorkInv` says that nothing
that is to be resolved is lost between the stack, the present package and `resolved`. In
`CallerInv`, `SortInv` is what the steps of `TopoOrder` keep, `ChosenInv` that
`topo_get_targets` reverses the order and picks every package of the AUR, and
`InstallInv` relates results to packages.

`SyncTargetsProofs` proves, for every state of the databases and of the AUR, every
list of targets without repetition and all options (`SyncAssumption`, in which the
local database is finite), from `SyncInv` (theorem `TargetsInvariant`):

- `ExactlyHanded` (`HandedExactly`): each of the loops has put into its lists what it is
  through, each package once, as the AUR answered (`ListsInv`);
- `EntryIsFound` (`EntryFound`): `get_outdated_pkgs` reads no missing entry of `hashdb->aur`;
- `CleanEnd` (`NothingLeftBehind`), from `HandedInv`, `WhereInv` (the directory at each
  label) and `FilesInv` (at most one temporary file at a time, and those `fdopen` failed on).

`StartupProofs` proves, for every `pacman.conf`, every pair of `powaur.conf` and every
command line (`StartupAssumption`: the input is well formed, and no repository is
called "options"), from `StartupInv` (theorem `StartupInvariant`):

- `ValuesAsDocumented` (`PacmanAsDocumented`) and `NoRepeatIsTaken` (`RepeatsRefused`);
- `OneIsRun` (`OneOperation`) and `OptionsFromBoth` (`SettingsAsGiven`, with the two
  exceptions of section 4).

The properties compare the end with whole files; the invariant says the same of the
part that has been read. `IsRest` ties what is left to a number n of lines, and
`SectionsInv(n)`, `FlagsInv(n)`, `ValuesInv(n)` explain `pm` and `pacman` by the first
n lines of `pacman.conf`. A flag of a commented line is only known while the
official value has not been found (`FlagsInv`): afterwards such lines are not looked at.
`LimitInv`, `SwitchInv` and `ColorInv` do the same for `powaur.conf`, `OperationInv` and
`OptionsInv` for the two passes over the command line. The colours are
followed modulo 65536 (lemma `ColorsModulo`).

`PkgbuildProofs` proves, for every set of characters and names, every size of the buffer
and every PKGBUILD, of any length (`PkgbuildAssumption`, `LinesFit`):

- `ParsesArrays` (`ArraysAsWritten`) and `ReadsDependencies` (`DepsAsWritten`): what the
  two readers return, under the preconditions these properties state;
- `StaysUntilOverrun` (`PkgbuildTypeOK`) and `OverrunOnlyRegrown`
  (`OverrunsOnlyRegrown`): whatever a file assigns, the buffer can only be left by a text
  that grows after it has shrunk.

The properties compare lists with all of a file, the invariants with the part that has been
read. `ParseInv` and `GrabInv` say of the array that is being read (`Reading`) that what the
list holds, followed by the elements of the items that are left (`Left`), is what
the file has written. While a text is substituted, `Halfway` divides it: the
buffer holds the expansion of the pieces the search has passed, then the text of the rest,
and `len` is its length. To go on, the invariant has to know that the cells behind the end are
zeros, or that no later reference grows (`Zeros`, `Shrinks`): this is what makes the
precondition `SteadyAll` necessary. The table of variables agrees with
the environment bash would have (`Agrees`, `Knows`), except for the names of arrays, which no
text refers to. `BufferInv` needs none of this: it keeps the last nul and the length
within the buffer (`Kept`), whatever stands between them. Where nothing but zeros
follows the length (`Zeros`) the test of `newlen` is enough, so an overrun needs `Regrows`.

The reference definitions flatten sequences of any length with `FlattenSeq`, a recursive
function: the lemmas say what it makes of a concatenation (`FlattenConcat`), by taking the
least length at which they would fail (`NatInd`, `LeastNat`, from `WFMin`), since the
induction theorems of the library take an operator as a parameter.

Only model-checked: termination and every other liveness property, of every part
(liveness is out of the prover's reach).

## 6. Not modelled

- JSON and AUR queries (`json.c`, `curl.c`): one request and callbacks that
  fill a record; the other parts see an answer or none.
- Searching and printing (`-Q`, `-Ss`, `-M`, `--list-aur`, most of `util.c`):
  they read and print, nothing depends on them.
- Backup: a walk over a directory into libarchive.
- Memory lists, error strings, wrappers and library handles: no behaviour of
  their own.
- The path from a result of `grab_dependencies` to the resolver is by
  value: `Resolver` and `GetPkgbuilds` take the list of names `Pkgbuild` returns as
  it was written, and do not repeat its oddities.
