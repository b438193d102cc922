----------------------------- MODULE MCToposort -----------------------------
(* Every graph on a few names, built in every order of calls, then sorted.  *)
EXTENDS Toposort
=============================================================================
