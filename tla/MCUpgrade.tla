----------------------------- MODULE MCUpgrade ------------------------------
(* -S of one or two packages of the AUR and --crawl of two packages, one     *)
(* after the other, with three names, each installed, in a repository, both *)
(* or neither, in the AUR or not, one of them perhaps provided by others,   *)
(* with every relation of dependencies of a few shapes.                     *)
EXTENDS Crawl, FiniteSets

CONSTANTS a, b, c

ThreeNames == {a, b, c}

\* Where a package is: installed from a repository, not installed but in one,
\* installed from the AUR, in the AUR only, or nowhere.
Places == {"installed", "repo", "installedAur", "aur", "nowhere"}

Provided == {[n \in ThreeNames |-> IF n = c THEN S ELSE {}] : S \in {{}, {b}, {a, b}}}
Depends == {d \in [ThreeNames -> {<<>>, <<a>>, <<b>>, <<c>>, <<b, c>>}] :
                /\ d[a] \in {<<>>, <<b>>, <<b, c>>}
                /\ d[b] \in {<<>>, <<a>>, <<c>>}
                /\ d[c] \in {<<>>, <<a>>, <<b>>}}

WorldOf(place, provides, depends, stale) ==
    LET local == {n \in ThreeNames : place[n] \in {"installed", "installedAur"}}
        sync == {n \in ThreeNames : place[n] \in {"installed", "repo"}}
    IN  [local |-> local,
         sync |-> sync,
         localProvides |-> [n \in ThreeNames |-> provides[n] \cap local],
         syncProvides |-> [n \in ThreeNames |-> provides[n] \cap sync],
         depends |-> depends,
         onAur |-> {n \in ThreeNames : place[n] \in {"installedAur", "aur"}},
         stale |-> stale]

AllWorlds ==
    {WorldOf(place, provides, depends, stale) :
        place \in [ThreeNames -> Places], provides \in Provided,
        depends \in Depends, stale \in {{}, ThreeNames}}

Call(l, list) == [lvl |-> l, targets |-> list]

AllInstallOutcomes == {"built", "makepkg fails", "editor fails", "abort", "lost"}
UpgradeCalls == {Call("immediate", <<a>>), Call("immediate", <<c, a>>)}
CrawlCalls == {Call("thorough", <<a, c>>)}
AllCalls == UpgradeCalls \cup CrawlCalls

=============================================================================
