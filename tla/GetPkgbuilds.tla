---------------------------- MODULE GetPkgbuilds ----------------------------
(***************************************************************************)
(* powaur -G --deps: powaur_get (src/download.c) and resolve_dependencies  *)
(* (src/package.c).                                                        *)
(*                                                                         *)
(* Rounds: the pool downloads a list of packages, then the calling thread  *)
(* reads their PKGBUILDs and collects the dependencies that are neither    *)
(* installed, nor in a repository, nor provided, nor already on the disk;  *)
(* these are the list of the next round.  The user may interrupt the       *)
(* program at any moment and start it again in the same directory.         *)
(***************************************************************************)
EXTENDS ThreadPool, SequencesExt

CONSTANTS
    Worlds,         \* what the AUR and the databases may hold, see WorldType
    MaxInterrupts   \* model bound: how often the user interrupts the program

\* depends[p]: the dependencies in the PKGBUILD of p, in order;
\* known: the packages found in or provided by the local or a sync database.
WorldType == [depends : [Pkgs -> Seq(Pkgs)], known : SUBSET Pkgs]

ASSUME WorldAssumption ==
    /\ Worlds \subseteq WorldType
    /\ MaxInterrupts \in Nat

VARIABLES
    world,          \* one of Worlds, never changed
    request,        \* the targets of the command line, never changed
    getpc,          \* "pool", "killed", "done"; "failed": never called the pool
    interrupts,     \* how often the program was interrupted so far
    item,           \* resolve_dependencies: the next package of the round,
    deps,           \* what is left of the dependencies of the one before,
    newdeps,        \* and what it has collected
    before          \* history: what earlier rounds of this run downloaded

resolveVars == <<item, deps, newdeps>>
getVars == <<poolVars, world, request, getpc, interrupts, resolveVars, before>>

-----------------------------------------------------------------------------
(* resolve_dependencies.                                                   *)

\* The dependencies grab_dependencies returns: none without a PKGBUILD; a
\* PKGBUILD that was not extracted to its end may be cut short.
Readable(p) ==
    CASE dir[p] = "absent"   -> {<<>>}
      [] dir[p] = "complete" -> {world.depends[p]}
      [] dir[p] = "damaged"  -> Prefixes(world.depends[p])

\* stat(pkg/PKGBUILD) succeeds
OnDisk(p) == dir[p] # "absent"

\* Mutants: each forgets one test.
NeedsEvenIfKnown(d) == ~Contains(newdeps, d) /\ ~OnDisk(d)
NeedsEvenIfOnDisk(d) == ~Contains(newdeps, d) /\ d \notin world.known

NeedsDownload(d) ==
    /\ ~Contains(newdeps, d)
    /\ d \notin world.known
    /\ ~OnDisk(d)

\* The pool has returned: resolve_dependencies runs.
Resolving == getpc = "pool" /\ mainpc = "returned"

\* Mutant: a package without dependencies ends the loop.
GrabUntilNone ==
    /\ Resolving
    /\ deps = <<>> /\ item <= Len(targets)
    /\ deps' \in Readable(targets[item])
    /\ item' = IF deps' = <<>> THEN Len(targets) + 1 ELSE item + 1
    /\ UNCHANGED <<poolVars, newdeps, world, request, getpc, interrupts, before>>

\* deps = grab_dependencies(pkgbuild)
GrabDependencies ==
    /\ Resolving
    /\ deps = <<>> /\ item <= Len(targets)
    /\ deps' \in Readable(targets[item])
    /\ item' = item + 1
    /\ UNCHANGED <<poolVars, newdeps, world, request, getpc, interrupts, before>>

\* A turn of the loop over deps.
ResolveDep ==
    /\ Resolving
    /\ deps # <<>>
    /\ newdeps' = IF NeedsDownload(Head(deps)) THEN Append(newdeps, Head(deps)) ELSE newdeps
    /\ deps' = Tail(deps)
    /\ UNCHANGED <<poolVars, item, world, request, getpc, interrupts, before>>

\* resolve_dependencies has returned newdeps.
AllRead == Resolving /\ deps = <<>> /\ item > Len(targets)

-----------------------------------------------------------------------------
GetInit ==
    /\ PoolInit
    /\ world \in Worlds
    /\ request = targets
    /\ getpc = "pool"
    /\ interrupts = 0
    /\ item = 1
    /\ deps = <<>>
    /\ newdeps = <<>>
    /\ before = {}

\* powaur_get gives up before it calls the pool: target_dir cannot be resolved
\* or entered, curl_easy_new or build_hashdb fails.  Only at its beginning is
\* the list that of the command line with no thread created.
GetCannotStart ==
    /\ getpc = "pool"
    /\ mainpc = "create" /\ nthr = 0 /\ targets = request /\ before = {}
    /\ "start" \in Failures
    /\ getpc' = "failed"
    /\ UNCHANGED <<poolVars, world, request, interrupts, resolveVars, before>>

\* A step of the pool, which works on the list of this round.
InRound(Step) ==
    /\ getpc = "pool"
    /\ Step
    /\ UNCHANGED <<world, request, getpc, interrupts, resolveVars, before>>

Download == InRound(Main) \/ \E t \in Threads : InRound(Worker(t))

\* resolve = new_resolve
NextRound ==
    /\ AllRead
    /\ newdeps # <<>>
    /\ Called(newdeps)
    /\ before' = before \cup ToSet(taken)
    /\ item' = 1
    /\ newdeps' = <<>>
    /\ UNCHANGED <<diskVars, failed, world, request, getpc, interrupts, deps>>

\* Nothing new: powaur_get returns 0.
GetReturns ==
    /\ AllRead
    /\ newdeps = <<>>
    /\ getpc' = "done"
    /\ UNCHANGED <<poolVars, world, request, interrupts, resolveVars, before>>

\* The program is killed; the disk stays as it is: a tarball being written is
\* left unfinished, as a file nobody writes any more.
Interrupt ==
    /\ getpc = "pool" /\ mainpc # "died"
    /\ interrupts < MaxInterrupts
    /\ interrupts' = interrupts + 1
    /\ getpc' = "killed"
    /\ tpc' = [t \in Threads |-> "gone"]
    /\ item' = 1
    /\ deps' = <<>>
    /\ newdeps' = <<>>
    /\ UNCHANGED <<queueVars, mainVars, pkg, next, diskVars, history, world, request, before>>

\* The user starts it again with the same targets.
Restart ==
    /\ getpc = "killed"
    /\ getpc' = "pool"
    /\ Called(request)
    /\ before' = {}
    /\ UNCHANGED <<diskVars, failed, world, request, interrupts, resolveVars>>

Resolve == GrabDependencies \/ ResolveDep \/ NextRound \/ GetReturns

GetNextState == GetCannotStart \/ Download \/ Resolve \/ Interrupt \/ Restart

GetSpec == GetInit /\ [][GetNextState]_getVars

\* The program runs on; the user need not start it again.
GetFairness ==
    /\ WF_getVars(InRound(Runs))
    /\ \A t \in Threads : WF_getVars(InRound(Worker(t)))
    /\ WF_getVars(Resolve)

FairGetSpec == GetSpec /\ GetFairness

-----------------------------------------------------------------------------
(* Properties.                                                             *)

GetTypeOK ==
    /\ PoolTypeOK
    /\ world \in Worlds
    /\ request \in TargetLists
    /\ getpc \in {"pool", "killed", "done", "failed"}
    /\ interrupts \in 0..MaxInterrupts
    /\ item \in 1..End
    /\ deps \in Seq(Pkgs)
    /\ newdeps \in Seq(Pkgs)
    /\ before \subseteq Pkgs

ClosedUnder(S) ==
    \A p \in S : \A d \in ToSet(world.depends[p]) \ world.known : dir[d] = "complete"

\* powaur.1.txt:86-88 on --deps: "If any dependencies are from the AUR, they
\* will be downloaded, with their dependencies resolved.  This is done until
\* all dependencies have been resolved."  A run that ends without a failure
\* leaves no package on the disk without its dependencies.  (After an
\* interruption it may: a package found on the disk is not looked into.)
AllDepsResolvedUninterrupted ==
    interrupts = 0 /\ getpc = "done" /\ ~failed =>
        ClosedUnder({p \in Pkgs : OnDisk(p)})

\* Nothing is downloaded but the targets and what they depend on, outside the
\* databases, and in a run that nothing fails in each package once: cyclic and
\* shared dependencies are met once.  (The command line names nothing twice.)
OnlyWhatIsNeeded ==
    /\ \A p \in ToSet(taken) :
          \/ p \in ToSet(request)
          \/ /\ p \notin world.known
             /\ \E q \in Pkgs : OnDisk(q) /\ p \in ToSet(world.depends[q])
    /\ ~failed /\ IsInjective(request) =>
          /\ ToSet(taken) \cap before = {}
          /\ IsInjective(taken)

\* The rounds of every run end, whatever fails, however the dependencies go in
\* circles and whatever an interrupted run has left on the disk.
GetTerminates ==
    getpc = "pool" ~> getpc \in {"done", "killed", "failed"} \/ mainpc = "died"
=============================================================================
