------------------------------- MODULE Crawl --------------------------------
(***************************************************************************)
(* src/query.c: powaur_crawl, the other caller of build_dep_graph.  For    *)
(* each target it builds a graph of its own, sorts it and prints the       *)
(* order; the tables of the databases stay from one target to the next.    *)
(*                                                                         *)
(* Both leave for powaur_dir first, which may fail.                        *)
(*                                                                         *)
(* CallerSpec is a run of powaur that does one or the other: requests of   *)
(* level "immediate" are those of upgrade_pkgs, "thorough" those of crawl. *)
(***************************************************************************)
EXTENDS Upgrade

AtStart == phase = "build" /\ pc = "pop" /\ cur = NULL /\ stack = call

\* getcwd or chdir fails: an error, and nothing is resolved.
CannotStart ==
    /\ AtStart
    /\ End("error")
    /\ phase' = "done"
    /\ ret' = -1
    /\ UNCHANGED <<inputVars, db, graphVars, stack, resolved, depVars, sortVars, installVars>>

\* build_hashdb fails: powaur_crawl says so and goes on with a null pointer,
\* which the first search of a table reads through.
WithoutTables ==
    /\ AtStart
    /\ lvl = "thorough"
    /\ End("undefined")
    /\ UNCHANGED <<inputVars, db, graphVars, stack, resolved, depVars, phase, sortVars,
                   installVars, ret>>

\* Mutant: the graph is made once, before the loop.
NextCrawledKeepsGraph ==
    /\ phase = "sort"
    /\ lvl = "thorough"
    /\ verdict # "none"
    /\ nextTarget < Len(targets)
    /\ nextTarget' = nextTarget + 1
    /\ call' = <<targets[nextTarget + 1]>>
    /\ stack' = call'
    /\ resolved' = {}
    /\ phase' = "build" /\ pc' = "pop" /\ status' = "ok"
    /\ out' = <<>> /\ verdict' = "none"
    /\ UNCHANGED <<world, lvl, targets, db, nodes, edges, depVars, final_targets,
                   cwd, results, ret>>

\* The order is printed, or what is on topost when there is a cycle; on to the
\* next target.
NextCrawled ==
    /\ phase = "sort"
    /\ lvl = "thorough"
    /\ verdict # "none"
    /\ nextTarget < Len(targets)
    /\ nextTarget' = nextTarget + 1
    /\ call' = <<targets[nextTarget + 1]>>
    /\ stack' = call'
    /\ nodes' = {} /\ edges' = {} /\ resolved' = {}
    /\ phase' = "build" /\ pc' = "pop" /\ status' = "ok"
    /\ out' = <<>> /\ verdict' = "none"
    /\ UNCHANGED <<world, lvl, targets, db, depVars, final_targets, cwd, results, ret>>

CrawlReturns ==
    /\ phase = "sort"
    /\ lvl = "thorough"
    /\ verdict # "none"
    /\ nextTarget = Len(targets)
    /\ phase' = "done"
    /\ UNCHANGED <<resolverVars, sortVars, installVars, ret>>

CallerStep ==
    \/ UpgradeStep
    \/ CannotStart
    \/ WithoutTables
    \/ NextCrawled
    \/ CrawlReturns

CallerSpec == UpgradeInit /\ [][CallerStep]_upgradeVars

\* One thread; downloads, editors and makepkg end.
FairCallerSpec == CallerSpec /\ WF_upgradeVars(CallerStep)

-----------------------------------------------------------------------------
(* Properties.                                                             *)

\* upgrade_pkgs and powaur_crawl return, circular dependencies or not, unless
\* the resolver died or met undefined behaviour.
CallerTerminates == <>(phase = "done" \/ status \in {"died", "undefined"})
=============================================================================
