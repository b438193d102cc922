----------------------------- MODULE MCInstall ------------------------------
(* Lists of up to three packages.                                           *)
EXTENDS Install

CONSTANTS a, b, c

ThreeNames == {a, b, c}
ShortLists == {<<a, b>>}
LongLists == {<<a>>, <<a, b>>, <<a, b, c>>}
=============================================================================
