--------------------------- MODULE MCGetPkgbuilds ---------------------------
(* Three packages, every way they may depend on each other or be known.     *)
EXTENDS GetPkgbuilds

CONSTANTS a, b, c

ThreePkgs == {a, b, c}
Requests == {<<a>>, <<a, b>>}
AllWorlds ==
    [depends : {d \in [ThreePkgs -> {<<>>, <<a>>, <<b>>, <<c>>, <<c, b>>}] :
                    /\ d[a] \in {<<>>, <<b>>, <<c, b>>}
                    /\ d[b] \in {<<>>, <<a>>, <<c>>}
                    /\ d[c] \in {<<>>, <<a>>, <<c, b>>}},
     known : {{}, {c}}]
=============================================================================
