---------------------------- MODULE SyncTargets -----------------------------
(***************************************************************************)
(* src/sync.c: powaur_sync, from the command line to the list of packages  *)
(* handed to upgrade_pkgs (module Upgrade), for -S (sync_targets), -Su     *)
(* (sync_upgrade, get_outdated_pkgs) and -Si (sync_info).                  *)
(*                                                                         *)
(* Each query of the AUR is one step: it may answer, find nothing or fail, *)
(* and the last two look the same.  The working directory, which the       *)
(* functions change and restore behind each other's back, is a variable.   *)
(***************************************************************************)
EXTENDS Naturals, Integers, Sequences, SequencesExt, FiniteSets

CONSTANTS
    Names,
    Options,        \* the options -S may be given
    TargetLists,
    Worlds

AllOptions == [upgrade : BOOLEAN, check : BOOLEAN, search : BOOLEAN, info : BOOLEAN,
               noconfirm : BOOLEAN]

\* powaur_dir can be entered from anywhere, from the first directory only
\* (TmpDir is a relative path) or not at all; or the directory powaur was
\* started in is removed while it runs.
Dirs == {"absolute", "relative", "unusable", "org_gone"}

\* A version is a number, 0 for none.
AllWorlds ==
    [installed : [Names -> Nat], repo : SUBSET Names, available : [Names -> Nat], dirs : Dirs]

\* parseargs puts no target in the list twice, and the local database is finite.
ASSUME SyncAssumption ==
    /\ Options \subseteq AllOptions
    /\ Worlds \subseteq AllWorlds
    /\ TargetLists \subseteq {t \in Seq(Names) : IsInjective(t)}
    /\ \A w \in Worlds : IsFiniteSet({n \in Names : w.installed[n] > 0})

VARIABLES
    world, opts, targets,   \* chosen once
    pc,
    targs,          \* what the loop runs over: targets, or what -Su is to check
    i,              \* and where it is
    lists,          \* the five lists of sync_targets, and outdated_pkgs
    found,          \* sync_info
    files,          \* the temporary PKGBUILDs sync_info has on the disk
    cwd,
    handed,         \* what upgrade_pkgs is called with, <<>> before
    ret,
    missed,         \* history: names whose query failed
    unopened,       \* history: files fdopen failed on
    started         \* history: upgrade_pkgs has entered powaur_dir

inputs == <<world, opts, targets>>
history == <<missed, unopened, started>>
vars == <<inputs, pc, targs, i, lists, found, files, cwd, handed, ret, history>>

ListNames == {"reinstall", "upgrade", "downgrade", "new_packages", "not_aur", "outdated"}

\* hashdb->aur: installed, and in no repository.
IsAur(n) == world.installed[n] > 0 /\ n \notin world.repo

\* chdir(powaur_dir)
CanEnter == CASE world.dirs = "unusable" -> FALSE
              [] world.dirs = "relative" -> cwd = "org"
              [] OTHER -> TRUE

\* chdir to the directory left before, when that is d.
CanReturnTo(d) == ~(d = "org" /\ world.dirs = "org_gone")

\* query_aur: NULL, here 0, also stands for a query that failed.
Answers(n) == {0, world.available[n]}

-----------------------------------------------------------------------------
Init ==
    /\ world \in Worlds
    /\ opts \in Options
    /\ targets \in TargetLists
    /\ pc = "start"
    /\ targs = <<>>
    /\ i = 1
    /\ lists = [l \in ListNames |-> <<>>]
    /\ found = 0
    /\ files = {}
    /\ cwd = "org"
    /\ handed = <<>>
    /\ ret = 0
    /\ missed = {}
    /\ unopened = {}
    /\ started = FALSE

Loop(where, over) ==
    /\ pc' = where
    /\ targs' = over
    /\ i' = 1

results == <<lists, found, files, handed, history>>

\* To the clean-up at the given label, with this value in ret.
GoTo(label, value) ==
    /\ pc' = label
    /\ ret' = value
    /\ UNCHANGED <<inputs, targs, i, cwd, results>>

\* powaur_sync
Accepted == ~(opts.search /\ opts.info) /\ ~(opts.check /\ ~opts.upgrade)

\* The options contradict each other, or there is nothing to do.
Refuse ==
    /\ pc = "start"
    /\ \/ ~Accepted
       \/ ~opts.upgrade /\ targets = <<>> /\ ~opts.search /\ ~opts.info
    /\ GoTo("end", -1)

\* curl_easy_new, or getcwd.
CurlFails ==
    /\ pc = "start"
    /\ GoTo("end", -1)

\* pacman_db_dump, sync_search
OnlyPrints ==
    /\ pc = "start"
    /\ Accepted /\ ~opts.upgrade
    /\ opts.search \/ (opts.info /\ targets = <<>>)
    /\ \E value \in IF targets = <<>> THEN {0, -1} ELSE {0} : GoTo("end", value)

\* sync_info and -S enter powaur_dir first.
EnterDir ==
    /\ pc = "start"
    /\ Accepted /\ ~opts.upgrade /\ ~opts.search /\ targets # <<>>
    /\ CanEnter
    /\ cwd' = "powaur_dir"
    /\ Loop(IF opts.info THEN "info" ELSE "targets", targets)
    /\ UNCHANGED <<inputs, results, ret>>

DirFails ==
    /\ pc = "start"
    /\ Accepted /\ ~opts.upgrade /\ ~opts.search /\ targets # <<>>
    /\ ~CanEnter
    /\ GoTo(IF opts.info THEN "end" ELSE "leave", -1)

-----------------------------------------------------------------------------
(* sync_targets                                                            *)

\* The lists a target is put in.
Classes(n, ver) ==
    IF ver = 0 THEN {"not_aur"}
    ELSE IF ~IsAur(n) THEN {"new_packages"}
    ELSE IF ver > world.installed[n] THEN {"upgrade"}
    ELSE IF ver = world.installed[n] THEN {"reinstall"}
    ELSE {"downgrade"}

MissedNow(n, ver) == IF ver = 0 /\ world.available[n] > 0 THEN missed \cup {n} ELSE missed

QueryTarget ==
    /\ pc = "targets"
    /\ i <= Len(targs)
    /\ \E ver \in Answers(targs[i]) :
          /\ lists' = [l \in ListNames |-> IF l \in Classes(targs[i], ver)
                                           THEN Append(lists[l], targs[i]) ELSE lists[l]]
          /\ missed' = MissedNow(targs[i], ver)
    /\ i' = i + 1
    /\ UNCHANGED <<inputs, pc, targs, found, files, cwd, handed, ret, unopened, started>>

\* build_hashdb fails before the loop: sync_targets returns 0.
NoHashdb ==
    /\ pc = "targets"
    /\ i = 1
    /\ GoTo("leave", ret)

\* alpm_list_join, twice
join(ls) == ls.reinstall \o ls.upgrade \o ls.new_packages

Proceed ==
    /\ pc = "targets"
    /\ i > Len(targs)
    /\ handed' = join(lists)
    /\ pc' = "upgrade_pkgs"
    /\ UNCHANGED <<inputs, targs, i, lists, found, files, cwd, ret, history>>

\* yesno answers no.
Decline ==
    /\ pc = "targets"
    /\ i > Len(targs)
    /\ ~opts.noconfirm
    /\ GoTo("leave", ret)

-----------------------------------------------------------------------------
(* sync_upgrade, get_outdated_pkgs                                         *)

\* build_hashdb works.  All AUR packages, in the order of their hashes, or the
\* targets, which are looked up first.
StartCheck ==
    /\ pc = "start"
    /\ Accepted /\ opts.upgrade
    /\ \/ targets = <<>> /\ \E s \in SetToSeqs({n \in Names : IsAur(n)}) : Loop("check", s)
       \/ targets # <<>> /\ Loop("filter", <<>>)
    /\ UNCHANGED <<inputs, results, cwd, ret>>

\* Mutant: the targets are not filtered.
AnyName(n) == n \in Names
\* hash_search(hashdb->aur, &pkgpair)
IsChecked(n) == IsAur(n)

\* targs is new_targs here, and i runs over targets.
FilterTarget ==
    /\ pc = "filter"
    /\ i <= Len(targets)
    /\ targs' = IF IsChecked(targets[i]) THEN Append(targs, targets[i]) ELSE targs
    /\ i' = i + 1
    /\ UNCHANGED <<inputs, pc, results, cwd, ret>>

Filtered ==
    /\ pc = "filter"
    /\ i > Len(targets)
    /\ Loop("check", targs)
    /\ UNCHANGED <<inputs, results, cwd, ret>>

\* build_hashdb fails.
CheckFails ==
    /\ pc = "start"
    /\ Accepted /\ opts.upgrade
    /\ GoTo("leave", -1)

\* Mutant: a version that is as new counts as outdated.
NotOlder(n, ver) == ver >= world.installed[n]
Outdated(n, ver) == ver > world.installed[n]

\* No answer: the package is passed over.  The entry of hashdb->aur that is
\* not tested for NULL is read only after an answer.
QueryOutdated ==
    /\ pc = "check"
    /\ i <= Len(targs)
    /\ \E ver \in Answers(targs[i]) :
          IF ver > 0 /\ ~IsAur(targs[i])
          THEN pc' = "undefined" /\ UNCHANGED <<lists, missed>>
          ELSE /\ lists' = IF ver > 0 /\ Outdated(targs[i], ver)
                           THEN [lists EXCEPT !.outdated = Append(@, targs[i])] ELSE lists
               /\ missed' = MissedNow(targs[i], ver)
               /\ pc' = pc
    /\ i' = i + 1
    /\ UNCHANGED <<inputs, targs, found, files, cwd, handed, ret, unopened, started>>

\* All are up to date, none is to be checked, or --check.
CheckOnly ==
    /\ pc = "check"
    /\ i > Len(targs)
    /\ lists.outdated = <<>> \/ opts.check
    /\ GoTo("leave", ret)

\* yesno answers yes, or --noconfirm.
Agree ==
    /\ pc = "check"
    /\ i > Len(targs)
    /\ lists.outdated # <<>> /\ ~opts.check
    /\ handed' = lists.outdated
    /\ pc' = "upgrade_pkgs"
    /\ UNCHANGED <<inputs, targs, i, lists, found, files, cwd, ret, history>>

DeclineUpgrade ==
    /\ pc = "check"
    /\ i > Len(targs)
    /\ lists.outdated # <<>> /\ ~opts.check
    /\ ~opts.noconfirm
    /\ GoTo("leave", ret)

-----------------------------------------------------------------------------
(* upgrade_pkgs, by the directories it enters and leaves.                  *)

NothingToUpgrade ==
    /\ pc = "upgrade_pkgs"
    /\ handed = <<>>
    /\ GoTo("leave", ret)

\* getcwd or chdir fails.
CannotUpgrade ==
    /\ pc = "upgrade_pkgs"
    /\ handed # <<>>
    /\ ~CanEnter \/ ~CanReturnTo(cwd)
    /\ GoTo("leave", -1)

\* It goes back to the directory it came from, and a failure to do so is an
\* error; else it returns what graph_toposort did.
RunUpgrade ==
    /\ pc = "upgrade_pkgs"
    /\ handed # <<>> /\ CanEnter
    /\ started' = TRUE
    /\ IF CanReturnTo(cwd)
       THEN ret' \in {0, -1} /\ cwd' = cwd
       ELSE ret' = -1 /\ cwd' = "powaur_dir"
    /\ pc' = "leave"
    /\ UNCHANGED <<inputs, targs, i, lists, found, files, handed, missed, unopened>>

-----------------------------------------------------------------------------
(* sync_info                                                               *)

\* Found in a repository.
InfoFromRepo ==
    /\ pc = "info"
    /\ i <= Len(targs)
    /\ targs[i] \in world.repo
    /\ found' = found + 1
    /\ i' = i + 1
    /\ UNCHANGED <<inputs, pc, targs, lists, files, cwd, handed, ret, history>>

\* The AUR has no such package, or mkstemp fails.
InfoNotFound ==
    /\ pc = "info"
    /\ i <= Len(targs)
    /\ targs[i] \notin world.repo
    /\ i' = i + 1
    /\ UNCHANGED <<inputs, pc, targs, files, lists, found, cwd, handed, ret, history>>

\* mkstemp creates a file.
InfoFile ==
    /\ pc = "info"
    /\ i <= Len(targs)
    /\ targs[i] \notin world.repo
    /\ world.available[targs[i]] > 0
    /\ files' = files \cup {targs[i]}
    /\ pc' = "download"
    /\ UNCHANGED <<inputs, targs, i, lists, found, cwd, handed, ret, history>>

\* fdopen fails.
InfoUnopened ==
    /\ pc = "download"
    /\ unopened' = unopened \cup {targs[i]}
    /\ i' = i + 1
    /\ pc' = "info"
    /\ UNCHANGED <<inputs, targs, lists, found, files, cwd, handed, ret, missed, started>>

\* download_single_file succeeds and the package is shown, or it fails; the
\* file is removed in both cases.
InfoShown ==
    /\ pc = "download"
    /\ found' \in {found, found + 1}
    /\ files' = files \ {targs[i]}
    /\ i' = i + 1
    /\ pc' = "info"
    /\ UNCHANGED <<inputs, targs, lists, cwd, handed, ret, history>>

InfoEnds ==
    /\ pc = "info"
    /\ i > Len(targs)
    /\ IF CanReturnTo("org")
       THEN cwd' = "org" /\ ret' = IF found > 0 THEN 0 ELSE -1
       ELSE cwd' = cwd /\ ret' = -1
    /\ pc' = "end"
    /\ UNCHANGED <<inputs, results, targs, i>>

-----------------------------------------------------------------------------
\* Mutant: a failure skips the return to the first directory.
LeaveIfOk ==
    /\ pc = "leave"
    /\ IF opts.upgrade \/ ret # 0 THEN cwd' = cwd /\ ret' = ret
       ELSE IF CanReturnTo("org") THEN cwd' = "org" /\ ret' = ret
       ELSE cwd' = cwd /\ ret' = -1
    /\ pc' = "end"
    /\ UNCHANGED <<inputs, results, targs, i>>

\* powaur_sync: -S goes back to the first directory, -Su has never left it.
Leave ==
    /\ pc = "leave"
    /\ IF opts.upgrade THEN cwd' = cwd /\ ret' = ret
       ELSE IF CanReturnTo("org") THEN cwd' = "org" /\ ret' = ret
       ELSE cwd' = cwd /\ ret' = -1
    /\ pc' = "end"
    /\ UNCHANGED <<inputs, results, targs, i>>

Next ==
    \/ Refuse
    \/ CurlFails
    \/ OnlyPrints
    \/ EnterDir
    \/ DirFails
    \/ QueryTarget
    \/ NoHashdb
    \/ Proceed
    \/ Decline
    \/ StartCheck
    \/ FilterTarget
    \/ Filtered
    \/ CheckFails
    \/ QueryOutdated
    \/ CheckOnly
    \/ Agree
    \/ DeclineUpgrade
    \/ NothingToUpgrade
    \/ CannotUpgrade
    \/ RunUpgrade
    \/ InfoFromRepo
    \/ InfoNotFound
    \/ InfoFile
    \/ InfoUnopened
    \/ InfoShown
    \/ InfoEnds
    \/ Leave

Spec == Init /\ [][Next]_vars

-----------------------------------------------------------------------------
(* Properties.                                                             *)

SyncTypeOK ==
    /\ pc \in {"start", "targets", "filter", "check", "info", "download", "upgrade_pkgs", "leave", "end",
              "undefined"}
    /\ targs \in Seq(Names)
    /\ i \in 1..(IF pc = "filter" THEN Len(targets) + 1 ELSE Len(targs) + 1)
    /\ pc = "download" => i <= Len(targs)
    /\ lists \in [ListNames -> Seq(Names)]
    /\ found \in Nat
    /\ files \subseteq Names
    /\ cwd \in {"org", "powaur_dir"}
    /\ handed \in Seq(Names)
    /\ ret \in {0, -1}
    /\ missed \subseteq Names /\ unopened \subseteq Names
    /\ started \in BOOLEAN

\* What the AUR offers of these, as far as it answered, and is not older than
\* what is installed from it.
OfferedOf(ns) == {n \in ns \ missed : world.available[n] > 0}
InstallableOf(ns) ==
    {n \in OfferedOf(ns) : IsAur(n) => world.available[n] >= world.installed[n]}
OutdatedOf(ns) ==
    {n \in OfferedOf(ns) : IsAur(n) /\ world.available[n] > world.installed[n]}
ToCheck == IF targets = <<>> THEN Names ELSE ToSet(targets)

\* upgrade_pkgs is handed, each once, exactly what the command line, the local
\* database and the answers of the AUR call for: with -u all that is outdated
\* and nothing else, with --check nothing, and without them every target but
\* those that would be downgraded.
HandedExactly ==
    pc = "upgrade_pkgs" =>
        /\ IsInjective(handed)
        /\ ToSet(handed) = IF opts.check THEN {}
                           ELSE IF opts.upgrade THEN OutdatedOf(ToCheck)
                           ELSE InstallableOf(ToSet(targets))

\* sync.c:621, "Shouldn't happen": no package is checked that hashdb->aur does
\* not have.
EntryFound == pc # "undefined"

\* Whatever failed, powaur_sync ends in the directory it was started in, as long
\* as that is there, sync_info has removed its files, except those fdopen failed
\* on (sync.c:296), and an upgrade that was agreed to and never began is an error.
NothingLeftBehind ==
    pc = "end" => /\ world.dirs # "org_gone" => cwd = "org"
                  /\ files \subseteq unopened
                  /\ handed # <<>> /\ ~started => ret = -1
=============================================================================
