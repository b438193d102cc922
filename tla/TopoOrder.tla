----------------------------- MODULE TopoOrder -----------------------------
(***************************************************************************)
(* What struct graph and graph_toposort promise the rest of powaur, stated *)
(* without vertices, colours or stacks.  A client first names packages and *)
(* edges between them.  Then the sort either emits every package, each one *)
(* after all the packages its edges lead to, and answers "ordered", or it  *)
(* answers "cyclic", which it may do only when some of the packages not    *)
(* emitted yet really form a cycle.                                        *)
(*                                                                         *)
(* upgrade_pkgs, sync_targets and powaur_crawl pop the emitted packages    *)
(* from a stack, so they see them in the reverse order: an edge's source   *)
(* before its target, that is a dependency before what needs it.           *)
(***************************************************************************)
EXTENDS Sequences, Naturals

CONSTANT Names          \* the package names a client may put in the graph

VARIABLES
    nodes,              \* the packages named so far
    edges,              \* pairs <<from, to>> given to graph_add_edge
    out,                \* packages emitted so far, in order
    verdict             \* "none" until the sort answers

vars == <<nodes, edges, out, verdict>>

Emitted == {out[k] : k \in 1..Len(out)}

\* In a finite graph a set without a sink holds a cycle.
NoSink(S) == \A n \in S : \E m \in S : <<n, m>> \in edges

Init ==
    /\ nodes = {}
    /\ edges = {}
    /\ out = <<>>
    /\ verdict = "none"

\* The graph is complete before the first package is emitted.
AddNode(n) ==
    /\ out = <<>>
    /\ verdict = "none"
    /\ nodes' = nodes \cup {n}
    /\ UNCHANGED <<edges, out, verdict>>

AddEdge(from, to) ==
    /\ out = <<>>
    /\ verdict = "none"
    /\ nodes' = nodes \cup {from, to}
    /\ edges' = edges \cup {<<from, to>>}
    /\ UNCHANGED <<out, verdict>>

Emit(n) ==
    /\ verdict = "none"
    /\ n \notin Emitted
    /\ \A m \in nodes : <<n, m>> \in edges => m \in Emitted
    /\ out' = Append(out, n)
    /\ UNCHANGED <<nodes, edges, verdict>>

Accept ==
    /\ verdict = "none"
    /\ Emitted = nodes
    /\ verdict' = "ordered"
    /\ UNCHANGED <<nodes, edges, out>>

Reject ==
    /\ verdict = "none"
    /\ \E S \in SUBSET (nodes \ Emitted) : S # {} /\ NoSink(S)
    /\ verdict' = "cyclic"
    /\ UNCHANGED <<nodes, edges, out>>

Next ==
    \/ \E n \in Names : AddNode(n)
    \/ \E from, to \in Names : AddEdge(from, to)
    \/ \E n \in nodes : Emit(n)
    \/ Accept
    \/ Reject

Spec == Init /\ [][Next]_vars
=============================================================================
