----------------------------- MODULE TopoInstall ----------------------------
(***************************************************************************)
(* src/sync.c: topo_install, which installs a list of packages one after   *)
(* the other, seen from outside: what each call of install_single_package  *)
(* answers, and the directory it leaves the program in.                    *)
(*                                                                         *)
(* Upgrade takes the installation of its targets from here; Install, which *)
(* has the questions, the editors, makepkg and the processes they run in,  *)
(* implements it.                                                          *)
(***************************************************************************)
EXTENDS Naturals, Sequences

CONSTANTS
    Names,              \* package names
    NULL,               \* no package
    InstallOutcomes     \* those of InstallResults that may happen

\* How install_single_package may end once it is in the package's directory:
\* makepkg succeeded; it failed; an editor or a fork failed; the user declined
\* or aborted; the way back was barred.
InstallResults == {"built", "makepkg fails", "editor fails", "abort", "lost"}

VARIABLES
    final_targets,  \* what is to be installed, in this order
    dirs,           \* packages that have a directory in powaur_dir
    nextTarget,     \* the position topo_install has reached
    cwd,            \* NULL for powaur_dir, or the package directory left open
    results         \* history: <<package, outcome>> of each call

topoInstallVars == <<final_targets, dirs, nextTarget, cwd, results>>

CanEnter(n) == cwd = NULL /\ n \in dirs

\* The results topo_install stops for, -2.
IsFatal(outcome) == outcome \in {"abort", "lost"}

\* A result of -1 is ignored, -2 ends the loop.
NextTarget(k, outcome) ==
    IF IsFatal(outcome) THEN Len(final_targets) + 1 ELSE k + 1

\* Where install_single_package of n, called in dir, leaves the program: only
\* makepkg is followed by a chdir back.
DirectoryAfter(n, dir, outcome) ==
    CASE outcome \in {"built", "makepkg fails"} -> NULL
      [] outcome = "no directory" -> dir
      [] OTHER -> n

InstallEnds(outcome) ==
    LET n == final_targets[nextTarget]
    IN  /\ results' = Append(results, <<n, outcome>>)
        /\ nextTarget' = NextTarget(nextTarget, outcome)
        /\ cwd' = DirectoryAfter(n, cwd, outcome)

InstallNext ==
    /\ nextTarget <= Len(final_targets)
    /\ \/ InstallEnds("no directory")
       \/ /\ CanEnter(final_targets[nextTarget])
          /\ \E outcome \in InstallOutcomes : InstallEnds(outcome)
    /\ UNCHANGED <<final_targets, dirs>>

TopoInstallInit ==
    /\ final_targets \in Seq(Names)
    /\ dirs \subseteq Names
    /\ nextTarget = 1
    /\ cwd = NULL
    /\ results = <<>>

TopoInstallSpec == TopoInstallInit /\ [][InstallNext]_topoInstallVars
=============================================================================
