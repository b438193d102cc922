------------------------------ MODULE Upgrade -------------------------------
(***************************************************************************)
(* src/sync.c: upgrade_pkgs, what -S and -Su do once the user has agreed   *)
(* to a list of targets.                                                   *)
(*                                                                         *)
(* build_dep_graph (module Resolver) makes the dependency graph,           *)
(* graph_toposort orders it (module TopoOrder, which Toposort implements), *)
(* topo_get_targets picks what is to be built and topo_install builds it   *)
(* (module TopoInstall, which Install implements).                         *)
(***************************************************************************)
EXTENDS Resolver

CONSTANT InstallOutcomes    \* how install_single_package may end

VARIABLES
    phase,          \* "build", "sort", "install", "done"
    out, verdict,   \* the sort, as TopoOrder sees it; out is the stack topost
    final_targets,  \* what is to be built, in this order
    nextTarget,     \* the position topo_install, or powaur_crawl, has reached
    cwd, results,   \* as TopoInstall has them
    ret             \* what upgrade_pkgs returns

sortVars == <<out, verdict>>
installVars == <<final_targets, nextTarget, cwd, results>>
upgradeVars == <<resolverVars, phase, sortVars, installVars, ret>>

\* graph_toposort
Sort == INSTANCE TopoOrder

\* topo_install.  A package has a directory when it was downloaded, or when
\* an earlier run left one.
Installs == INSTANCE TopoInstall WITH dirs <- db.downloaded \cup world.stale

ASSUME UpgradeAssumption == InstallOutcomes \subseteq Installs!InstallResults

-----------------------------------------------------------------------------
UpgradeInit ==
    /\ ResolverInit
    /\ phase = "build"
    /\ out = <<>>
    /\ verdict = "none"
    /\ final_targets = <<>>
    /\ nextTarget = 1
    /\ cwd = NULL
    /\ ret = 0
    /\ results = <<>>

BuildDepGraph ==
    /\ phase = "build"
    /\ ResolverStep
    /\ UNCHANGED <<phase, sortVars, installVars, ret>>

\* build_dep_graph returns nothing: upgrade_pkgs goes on with whatever graph
\* it left.
StartSort ==
    /\ phase = "build"
    /\ pc = "end"
    /\ status \in {"ok", "error"}
    /\ phase' = "sort"
    /\ UNCHANGED <<resolverVars, sortVars, installVars, ret>>

SortStep ==
    /\ phase = "sort"
    /\ (\E n \in nodes : Sort!Emit(n)) \/ Sort!Accept \/ Sort!Reject
    /\ UNCHANGED <<resolverVars, phase, installVars, ret>>

\* Cyclic dependencies: nothing is installed.
GiveUpOnCycle ==
    /\ phase = "sort"
    /\ lvl = "immediate"
    /\ verdict = "cyclic"
    /\ phase' = "done"
    /\ ret' = -1
    /\ UNCHANGED <<resolverVars, sortVars, installVars>>

\* Mutant: a package that is installed is not picked.
PickedIfNew(n) == db.from[n] = "aur" /\ n \notin aur
\* Mutant: installed packages that are up to date are picked as well.
PickedIfAur(n) == db.from[n] = "aur"
\* Out-of-date AUR packages and AUR packages that are not installed.
IsPicked(n) == db.from[n] = "aur" /\ (n \in aur_outdated \/ n \notin aur)

\* Mutant: topost is read from the bottom.
TakeBottom(order) == <<Head(order), Tail(order)>>
\* stack_pop: the package emitted last, and what is left.
stack_pop(order) == <<Last(order), Front(order)>>

\* topo_get_targets, one turn of its loop: a package whose origin is not known
\* makes the list NULL.
PickTarget ==
    /\ phase = "sort"
    /\ lvl = "immediate"
    /\ verdict = "ordered"
    /\ out # <<>>
    /\ out' = stack_pop(out)[2]
    /\ LET n == stack_pop(out)[1]
       IN  \/ /\ db.from[n] = "unknown"
              /\ final_targets' = <<>>
              /\ phase' = "install"
           \/ /\ db.from[n] # "unknown"
              /\ final_targets' = IF IsPicked(n) THEN Append(final_targets, n) ELSE final_targets
              /\ UNCHANGED phase
    /\ UNCHANGED <<resolverVars, verdict, nextTarget, cwd, ret, results>>

\* topost is empty; topo_install is called, for a list that is not NULL.
TargetsPicked ==
    /\ phase = "sort"
    /\ lvl = "immediate"
    /\ verdict = "ordered"
    /\ out = <<>>
    /\ phase' = "install"
    /\ UNCHANGED <<resolverVars, sortVars, installVars, ret>>

-----------------------------------------------------------------------------
InstallNext ==
    /\ phase = "install"
    /\ UNCHANGED <<resolverVars, phase, sortVars, ret>>
    /\ Installs!InstallNext

\* Mutant: the loop waits for one target too many.
ReturnsLate ==
    /\ phase = "install"
    /\ nextTarget > Len(final_targets) + 1
    /\ phase' = "done"
    /\ UNCHANGED <<resolverVars, sortVars, installVars, ret>>

\* upgrade_pkgs goes back to its own directory and returns ret, which the
\* result of topo_install is not part of.
UpgradeReturns ==
    /\ phase = "install"
    /\ nextTarget > Len(final_targets)
    /\ phase' = "done"
    /\ UNCHANGED <<resolverVars, sortVars, installVars, ret>>

UpgradeStep ==
    \/ BuildDepGraph
    \/ StartSort
    \/ SortStep
    \/ GiveUpOnCycle
    \/ PickTarget
    \/ TargetsPicked
    \/ InstallNext
    \/ UpgradeReturns

-----------------------------------------------------------------------------
(* Properties.                                                             *)

UpgradeTypeOK ==
    /\ phase \in {"build", "sort", "install", "done"}
    /\ out \in Seq(nodes)
    /\ verdict \in {"none", "ordered", "cyclic"}
    /\ final_targets \in Seq(Names)
    /\ nextTarget \in 1..(Len(IF lvl = "immediate" THEN final_targets ELSE targets) + 1)
    /\ cwd \in Names \cup {NULL}
    /\ ret \in {0, -1}
    /\ results \in Seq(Names \X (Installs!InstallResults \cup {"no directory"}))

WasBuilt(n) == \E k \in 1..Len(results) : results[k] = <<n, "built">>
NothingFailed == \A k \in 1..Len(results) : results[k][2] = "built"

\* A package is built only after every package of the graph that leads to it
\* and is to be built as well: dependencies first.  "Cyclic dependencies
\* detected!" (sync.c:558): nothing at all is chosen from a graph with a cycle.
DependenciesFirst ==
    /\ \A j, k \in 1..Len(final_targets) :
          <<final_targets[j], final_targets[k]>> \in edges => j < k
    /\ final_targets # <<>> => \A S \in (SUBSET nodes) \ {{}} : ~Sort!NoSink(S)

\* When the graph was built and ordered and every installation succeeded,
\* every dependency of what was built is installed, in a repository, or was
\* built before it, and so was every target no other package stands for.
CompleteWhenClean ==
    phase = "done" /\ lvl = "immediate" /\ status = "ok" /\ verdict = "ordered" /\ NothingFailed
        /\ (\A n \in nodes : db.from[n] # "unknown") =>
        /\ \A n \in Names : WasBuilt(n) => \A d \in Names : DependsOn(n, d) =>
              \E x \in world.local \cup world.sync \cup {y \in Names : WasBuilt(y)} :
                  Satisfies(x, d)
        /\ \A t \in ToSet(targets) : db.from[t] = "aur" => WasBuilt(t)

\* What is built comes from a PKGBUILD downloaded by this run and is a target
\* or not installed, unless resolving failed.
BuiltIsNeeded ==
    status = "ok" => \A n \in Names : WasBuilt(n) =>
        n \in db.downloaded /\ (n \in ToSet(targets) \/ n \notin world.local)
=============================================================================
