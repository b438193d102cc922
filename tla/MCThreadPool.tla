---------------------------- MODULE MCThreadPool ----------------------------
(* A pool called with a list of one to three packages.  parseargs and        *)
(* resolve_dependencies put no name in a list twice.                        *)
EXTENDS ThreadPool

CONSTANTS a, b, c

ThreePkgs == {a, b, c}
Lists == {<<a>>, <<a, b>>, <<a, b, c>>}
NoFailure == {}
=============================================================================
