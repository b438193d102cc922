------------------------------ MODULE Install -------------------------------
(***************************************************************************)
(* src/sync.c: install_single_package, called by topo_install for each     *)
(* package of a list, with mcq, yesno, wait_or_whine of src/util.c.        *)
(*                                                                         *)
(* The user may edit the PKGBUILD and the .install file and confirms, then *)
(* makepkg builds the package.  Editors and makepkg run in a forked child  *)
(* the parent waits for, so that the processes form a stack of which only  *)
(* the top one runs.  The code has nothing after execlp and execvp: when   *)
(* they fail, the child goes on as a second powaur, through the rest of    *)
(* the list, and what it ends with is what the parent takes for the        *)
(* editor's or makepkg's answer.                                           *)
(***************************************************************************)
EXTENDS Naturals, Sequences, SequencesExt

CONSTANTS
    Names,      \* package names
    NULL,       \* no package
    Lists       \* the lists topo_install may be called with

ASSUME InstallAssumption ==
    /\ NULL \notin Names
    /\ Lists \subseteq Seq(Names)

\* topo_get_targets takes each vertex of the graph once.
ASSUME NoPackageTwice == \A list \in Lists : IsInjective(list)

VARIABLES
    final_targets,  \* one of Lists, never changed
    dirs,           \* packages that have a directory, never changed
    dotinstalls,    \* packages whose PKGBUILD names a .install file
    noconfirm,      \* --noconfirm, never changed
    editorRuns,     \* powaur_editor can be executed, never changed
    makepkgRuns,    \* makepkg can be executed, never changed
    procs,          \* the processes, each waits for the next one
    results,        \* history: <<package, outcome>> of the first process
    made,           \* history: packages makepkg has built
    aborted         \* history: the user has aborted or declined

givenVars == <<final_targets, dirs, dotinstalls, noconfirm, editorRuns, makepkgRuns>>
installVars == <<givenVars, procs, results, made, aborted>>

\* Where a process is: a label of install_single_package, a question, waiting
\* for a child, no powaur any more, or, the first one only, over.
Labels ==
    {"topo_install", "ask PKGBUILD", "fork PKGBUILD", "edit_dotinstall",
     "ask .install", "fork .install", "fork_pacman", "fork makepkg", "cleanup",
     "wait PKGBUILD", "wait .install", "wait makepkg",
     "edits PKGBUILD", "edits .install", "makepkg", "exited", "killed"}

Process == [nextTarget : Nat \ {0}, pc : Labels, cwd : Names \cup {NULL}]

Top == Last(procs)
Below == Front(procs)
\* Mutant: the list is walked from its end.
PackageFromEnd(p) == final_targets[Len(final_targets) + 1 - p.nextTarget]
Package(p) == final_targets[p.nextTarget]

TopIsAt(pc) == Top.pc = pc

-----------------------------------------------------------------------------
(* mcq.  choices is indexed from 0 in C; pressing Enter gives the preset.  *)

choices == <<"y", "n", "a", "Y", "N", "A">>
Answers == ToSet(choices) \cup {"enter"}
mcq(answer) == IF answer = "enter" THEN 0
               ELSE (CHOOSE i \in 1..Len(choices) : choices[i] = answer) - 1

-----------------------------------------------------------------------------
(* What the end of a call or of a process does.                            *)

\* Mutant: an abort goes back to powaur_dir like a failed makepkg.
ReturnedHome(p, outcome) ==
    [nextTarget |-> IF outcome = "lost" THEN Len(final_targets) + 1 ELSE p.nextTarget + 1,
     pc |-> "topo_install",
     cwd |-> IF outcome \in {"built", "makepkg fails", "abort"} THEN NULL ELSE p.cwd]
\* install_single_package has returned to topo_install, which stops at -2.
Returned(p, outcome) ==
    [nextTarget |-> IF outcome \in {"abort", "lost"} THEN Len(final_targets) + 1
                    ELSE p.nextTarget + 1,
     pc |-> "topo_install",
     cwd |-> IF outcome \in {"built", "makepkg fails"} THEN NULL ELSE p.cwd]

\* The process p on top of the stack below goes on at label pc, or returns.
GoOn(below, p, pc) ==
    /\ procs' = Append(below, [p EXCEPT !.pc = pc])
    /\ UNCHANGED results
Return(below, p, outcome) ==
    /\ procs' = Append(below, Returned(p, outcome))
    /\ results' = IF below = <<>> THEN Append(results, <<Package(p), outcome>>) ELSE results

\* Mutant: the answer of an editor is not looked at.
ResumeAlways(below, p, code) ==
    CASE p.pc = "wait PKGBUILD" -> GoOn(below, p, "edit_dotinstall")
      [] p.pc = "wait .install" -> GoOn(below, p, "fork_pacman")
      [] OTHER -> \E outcome \in {"built", "lost"} : Return(below, p, outcome)
\* The parent p, below it the stack below, goes on after wait_or_whine: code
\* is "ok" for status 0.  After makepkg it leaves the package's directory,
\* which fails when powaur_dir cannot be entered.
Resume(below, p, code) ==
    CASE p.pc = "wait makepkg" ->
            \E outcome \in {IF code = "ok" THEN "built" ELSE "makepkg fails", "lost"} :
                Return(below, p, outcome)
      [] code # "ok" -> Return(below, p, "editor fails")
      [] p.pc = "wait PKGBUILD" -> GoOn(below, p, "edit_dotinstall")
      [] OTHER -> GoOn(below, p, "fork_pacman")

\* Mutant: waitpid is called again when it has succeeded.
EndsUnnoticed(pc, code) ==
    IF Below = <<>>
    THEN GoOn(<<>>, Top, pc)
    ELSE UNCHANGED <<procs, results>>
\* The top process is over, the first one at label pc.
Ends(pc, code) ==
    IF Below = <<>>
    THEN GoOn(<<>>, Top, pc)
    ELSE Resume(Front(Below), Last(Below), code)

-----------------------------------------------------------------------------
(* Actions, each of the top process.                                       *)

InstallInit ==
    /\ final_targets \in Lists
    /\ dirs \in SUBSET Names
    /\ dotinstalls \in SUBSET Names
    /\ noconfirm \in BOOLEAN
    /\ editorRuns \in BOOLEAN
    /\ makepkgRuns \in BOOLEAN
    /\ procs = <<[nextTarget |-> 1, pc |-> "topo_install", cwd |-> NULL]>>
    /\ results = <<>>
    /\ made = {}
    /\ aborted = FALSE

HasNext == Top.nextTarget <= Len(final_targets)

\* Mutant: the result of chdir is not looked at.
EnterUnchecked ==
    /\ TopIsAt("topo_install")
    /\ HasNext
    /\ procs' = Append(Below, [Top EXCEPT
            !.cwd = IF @ = NULL /\ Package(Top) \in dirs THEN Package(Top) ELSE @,
            !.pc = IF noconfirm THEN "fork_pacman" ELSE "ask PKGBUILD"])
    /\ UNCHANGED <<givenVars, results, made, aborted>>
EnterDirectory ==
    /\ TopIsAt("topo_install")
    /\ HasNext
    /\ Top.cwd = NULL /\ Package(Top) \in dirs
    /\ procs' = Append(Below, [Top EXCEPT !.cwd = Package(Top),
                                !.pc = IF noconfirm THEN "fork_pacman" ELSE "ask PKGBUILD"])
    /\ UNCHANGED <<givenVars, results, made, aborted>>

\* chdir fails, or getcwd before it does: that may happen anywhere.
CannotEnter ==
    /\ TopIsAt("topo_install")
    /\ HasNext
    /\ Return(Below, Top, "no directory")
    /\ UNCHANGED <<givenVars, made, aborted>>

\* A question: "n" skips, "a" aborts, all else edits.  A loop in mcq repeats
\* the question until an answer is one of the choices.
Ask(question, skipped, edited) ==
    /\ TopIsAt(question)
    /\ \E answer \in Answers :
          \/ mcq(answer) = 1 /\ GoOn(Below, Top, skipped) /\ UNCHANGED aborted
          \/ mcq(answer) = 2 /\ Return(Below, Top, "abort") /\ aborted' = TRUE
          \/ mcq(answer) \notin {1, 2} /\ GoOn(Below, Top, edited) /\ UNCHANGED aborted
    /\ UNCHANGED <<givenVars, made>>

AskPkgbuild == Ask("ask PKGBUILD", "edit_dotinstall", "fork PKGBUILD")
AskDotinstall == Ask("ask .install", "fork_pacman", "fork .install")

\* have_dotinstall
EditDotinstall ==
    /\ TopIsAt("edit_dotinstall")
    /\ GoOn(Below, Top, IF Package(Top) \in dotinstalls THEN "ask .install" ELSE "fork_pacman")
    /\ UNCHANGED <<givenVars, made, aborted>>

Confirm ==
    /\ TopIsAt("fork_pacman")
    /\ \/ GoOn(Below, Top, "fork makepkg") /\ UNCHANGED aborted
       \/ ~noconfirm /\ Return(Below, Top, "abort") /\ aborted' = TRUE
    /\ UNCHANGED <<givenVars, made>>

\* At the end of the input strtrim is called with a null pointer; with
\* --noconfirm the pointer that is freed was never set, which may do no harm.
Killed ==
    /\ TopIsAt("ask PKGBUILD") \/ TopIsAt("ask .install") \/ TopIsAt("fork_pacman")
    /\ Ends("killed", "failed")
    /\ UNCHANGED <<givenVars, made, aborted>>

ForkFails ==
    /\ TopIsAt("fork PKGBUILD") \/ TopIsAt("fork .install") \/ TopIsAt("fork makepkg")
    /\ Return(Below, Top, "editor fails")
    /\ UNCHANGED <<givenVars, made, aborted>>

\* Mutant: the child in which exec has failed tries again.
ForkAgain(label, wait, program, runs, otherwise) ==
    /\ TopIsAt(label)
    /\ procs' = Below \o <<[Top EXCEPT !.pc = wait],
                           [Top EXCEPT !.pc = IF runs THEN program ELSE label]>>
    /\ UNCHANGED <<givenVars, results, made, aborted>>
\* The parent waits for the child; the child is the program, or powaur again.
Fork(label, wait, program, runs, otherwise) ==
    /\ TopIsAt(label)
    /\ procs' = Below \o <<[Top EXCEPT !.pc = wait],
                           [Top EXCEPT !.pc = IF runs THEN program ELSE otherwise]>>
    /\ UNCHANGED <<givenVars, results, made, aborted>>

ForkPkgbuildEditor ==
    Fork("fork PKGBUILD", "wait PKGBUILD", "edits PKGBUILD", editorRuns, "edit_dotinstall")
ForkDotinstallEditor ==
    Fork("fork .install", "wait .install", "edits .install", editorRuns, "fork_pacman")
ForkMakepkg == Fork("fork makepkg", "wait makepkg", "makepkg", makepkgRuns, "cleanup")

EditorEnds ==
    /\ TopIsAt("edits PKGBUILD") \/ TopIsAt("edits .install")
    /\ \E code \in {"ok", "failed"} : Ends("exited", code)
    /\ UNCHANGED <<givenVars, made, aborted>>

MakepkgEnds ==
    /\ TopIsAt("makepkg")
    /\ \/ Ends("exited", "ok") /\ made' = made \cup {Package(Top)}
       \/ Ends("exited", "failed") /\ UNCHANGED made
    /\ UNCHANGED <<givenVars, aborted>>

\* The child in which execvp has failed returns the ret that was left over:
\* that of the last question or editor, no error, or with --noconfirm one that
\* was never set, which topo_install may take for a fatal one.
Cleanup ==
    /\ TopIsAt("cleanup")
    /\ \/ Return(Below, Top, "makepkg fails")
       \/ Return(Below, Top, "lost")
       \/ /\ noconfirm
          /\ procs' = Append(Below, [Returned(Top, "lost") EXCEPT !.cwd = NULL])
          /\ UNCHANGED results
    /\ UNCHANGED <<givenVars, made, aborted>>

\* topo_install is through: upgrade_pkgs and powaur_sync go back to their
\* directories, which may fail, and main ends with 0 otherwise.  powaur_cleanup
\* reads the configuration it has freed, which may kill the process.
Exit ==
    /\ TopIsAt("topo_install")
    /\ ~HasNext
    /\ \E code \in {"ok", "failed"} : Ends("exited", code)
    /\ UNCHANGED <<givenVars, made, aborted>>

InstallStep ==
    \/ EnterDirectory
    \/ CannotEnter
    \/ AskPkgbuild
    \/ AskDotinstall
    \/ EditDotinstall
    \/ Confirm
    \/ Killed
    \/ ForkFails
    \/ ForkPkgbuildEditor
    \/ ForkDotinstallEditor
    \/ ForkMakepkg
    \/ EditorEnds
    \/ MakepkgEnds
    \/ Cleanup
    \/ Exit

InstallSpec == InstallInit /\ [][InstallStep]_installVars

\* The user answers, editors and makepkg end.
FairInstallSpec == InstallSpec /\ WF_installVars(InstallStep)

-----------------------------------------------------------------------------
(* Properties.                                                             *)

InstallTypeOK ==
    /\ final_targets \in Lists
    /\ dirs \subseteq Names
    /\ dotinstalls \subseteq Names
    /\ {noconfirm, editorRuns, makepkgRuns, aborted} \subseteq BOOLEAN
    /\ procs \in Seq(Process) \ {<<>>}
    /\ \A i \in 1..Len(procs) : procs[i].nextTarget <= Len(final_targets) + 1
    /\ results \in Seq(Names \X {"built", "makepkg fails", "editor fails", "abort",
                                 "lost", "no directory"})
    /\ made \subseteq Names

Works == editorRuns /\ makepkgRuns
IsBuilding(n) == TopIsAt("makepkg") /\ Package(Top) = n

\* makepkg is run in the directory of the package it is to build, in whatever
\* process and after whatever went wrong with the packages before it.
BuildsAtHome == \A n \in Names : IsBuilding(n) => Top.cwd = n

\* When editors and makepkg can be executed, makepkg is run in the order of
\* the list, which is a topological one, and never again for a package it has
\* built: nothing that was built comes after what is being built.
BuildsInOrder ==
    Works => \A n \in Names : IsBuilding(n) =>
        \A k \in Top.nextTarget..Len(final_targets) : final_targets[k] \notin made

\* sync.c:51: "returns 0 if installation is successful".  When makepkg can be
\* executed, what the first powaur takes for built was built by makepkg, even
\* by way of a second powaur.
ReportedIsBuilt ==
    makepkgRuns => \A k \in 1..Len(results) :
        results[k][2] = "built" => results[k][1] \in made

\* sync.c:83: "Abort, propagate upwards".  When editors and makepkg can be
\* executed: once the user has aborted or declined, no powaur asks anything or
\* starts an editor or makepkg.
AbortStops ==
    Works /\ aborted =>
        Top.pc \notin {"ask PKGBUILD", "edits PKGBUILD", "ask .install", "edits .install",
                       "fork_pacman", "makepkg"}

\* However the calls of exec fail, a powaur never goes further with the same
\* package than its parent did and at most three of them are added per package.
MaxProcesses == Len(procs) <= 3 * Len(final_targets) + 1

\* All processes end.
InstallTerminates == <>(procs[1].pc \in {"exited", "killed"})

\* Seen from the first powaur, each call of install_single_package has one of
\* the results TopoInstall lists, in the order of the list, and leaves the
\* directory it says, second powaurs or not.
Outside == procs[1].pc \in {"topo_install", "exited"}
Seen == INSTANCE TopoInstall
    WITH InstallOutcomes <- {"built", "makepkg fails", "editor fails", "abort", "lost"},
         nextTarget <- procs[1].nextTarget,
         cwd <- IF Outside THEN procs[1].cwd ELSE NULL
ImplementsTopoInstall == Seen!TopoInstallSpec
=============================================================================
