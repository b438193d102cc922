--------------------------- MODULE MCSyncTargets ----------------------------
(* Two packages in every combination of installed or not, in a repository   *)
(* or not, and missing from the AUR, older, as new or newer there.          *)
EXTENDS SyncTargets

CONSTANTS a, b

TwoNames == {a, b}
TwoTargetLists == {<<>>, <<a>>, <<a, b>>}
MCWorlds ==
    [installed : [TwoNames -> {0, 2}], repo : SUBSET TwoNames,
     available : [TwoNames -> 0..3], dirs : Dirs]
=============================================================================
