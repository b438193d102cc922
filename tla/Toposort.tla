------------------------------ MODULE Toposort ------------------------------
(***************************************************************************)
(* src/graph.c: the dependency graph and its topological sort.             *)
(*                                                                         *)
(* A client builds a graph with graph_add_vertex and graph_add_edge, then  *)
(* calls graph_toposort once.  The sort is an iterative depth-first search *)
(* with an explicit stack of vertices; each turn of its loop is one action *)
(* here.  Vertex positions start at 1 (0 in the code), so dfs_idx[v], the  *)
(* number of edges of v already followed, keeps its value.                 *)
(***************************************************************************)
EXTENDS Integers, Sequences

CONSTANTS
    Names,          \* package names, the `data' of a vertex
    MaxDegree       \* model bound: edges in one adjacency list

ASSUME DegreeAssumption == MaxDegree \in Nat

VARIABLES
    data,           \* data[v]: the name of vertex v, in order of insertion
    adj,            \* adj[v]: the positions v has an edge to
    color,          \* color[v]
    dfs_idx,        \* dfs_idx[v]: how many edges of v the search has followed
    st,             \* graph_dfs's stack of vertices, the top is the last one
    topost,         \* the client's stack of finished vertices
    root,           \* loop counter of graph_toposort, the root of graph_dfs
    pc,             \* "build", "scan" (loop of graph_toposort), "dfs", "done"
    ret             \* what graph_toposort returns

graphVars == <<data, adj>>
vars == <<data, adj, color, dfs_idx, st, topost, root, pc, ret>>

Color == {"WHITE", "GRAY", "BLACK"}
Vertex == 1..Len(data)

-----------------------------------------------------------------------------
(* The graph.                                                              *)

HasVertex(d, name) == \E v \in 1..Len(d) : d[v] = name

\* hash_pos on the vertex index, for a name that is in the graph.
vindex_lookup(d, name) == CHOOSE v \in 1..Len(d) : d[v] = name

graph_add_vertex(d, name) == IF HasVertex(d, name) THEN d ELSE Append(d, name)

HasEdge(list, edge) == \E k \in 1..Len(list) : list[k] = edge

vertex_add_edge(list, edge) ==
    IF HasEdge(list, edge) THEN list ELSE Append(list, edge)

\* vertex_init on the vertices a call has added.
Grown(f, d, initial) ==
    [v \in 1..Len(d) |-> IF v \in DOMAIN f THEN f[v] ELSE initial]

-----------------------------------------------------------------------------
Init ==
    /\ data = <<>>
    /\ adj = <<>>
    /\ color = <<>>
    /\ dfs_idx = <<>>
    /\ st = <<>>
    /\ topost = <<>>
    /\ root = 1
    /\ pc = "build"
    /\ ret = 0

AddVertex(name) ==
    /\ pc = "build"
    /\ data' = graph_add_vertex(data, name)
    /\ adj' = Grown(adj, data', <<>>)
    /\ color' = Grown(color, data', "WHITE")
    /\ dfs_idx' = Grown(dfs_idx, data', 0)
    /\ UNCHANGED <<st, topost, root, pc, ret>>

AddEdge(from, to) ==
    /\ pc = "build"
    /\ data' = graph_add_vertex(graph_add_vertex(data, from), to)
    /\ LET f == vindex_lookup(data', from)
           t == vindex_lookup(data', to)
       IN  /\ f \in 1..Len(data) => Len(adj[f]) < MaxDegree
           /\ adj' = [Grown(adj, data', <<>>) EXCEPT
                         ![f] = vertex_add_edge(@, t)]
    /\ color' = Grown(color, data', "WHITE")
    /\ dfs_idx' = Grown(dfs_idx, data', 0)
    /\ UNCHANGED <<st, topost, root, pc, ret>>

\* graph_toposort is called: every vertex is reset.
StartToposort ==
    /\ pc = "build"
    /\ pc' = "scan"
    /\ color' = [v \in Vertex |-> "WHITE"]
    /\ dfs_idx' = [v \in Vertex |-> 0]
    /\ UNCHANGED <<data, adj, st, topost, root, ret>>

\* The loop finds an unvisited vertex and graph_dfs starts from it.
StartDfs ==
    /\ pc = "scan"
    /\ root <= Len(data)
    /\ color[root] = "WHITE"
    /\ color' = [color EXCEPT ![root] = "GRAY"]
    /\ st' = Append(st, root)
    /\ pc' = "dfs"
    /\ UNCHANGED <<data, adj, dfs_idx, topost, root, ret>>

SkipVisited ==
    /\ pc = "scan"
    /\ root <= Len(data)
    /\ color[root] # "WHITE"
    /\ root' = root + 1
    /\ UNCHANGED <<data, adj, color, dfs_idx, st, topost, pc, ret>>

\* The loop of graph_toposort ends without a cycle.
Finish ==
    /\ pc = "scan"
    /\ root > Len(data)
    /\ pc' = "done"
    /\ UNCHANGED <<data, adj, color, dfs_idx, st, topost, root, ret>>

Top == st[Len(st)]
ExhaustedEarly(v) == dfs_idx[v] + 1 >= Len(adj[v])      \* mutant: off by one
Exhausted(v) == dfs_idx[v] >= Len(adj[v])
NextEdge(v) == adj[v][dfs_idx[v] + 1]

\* All edges of the top vertex are followed: it is finished.
Retire ==
    /\ pc = "dfs"
    /\ st # <<>>
    /\ Exhausted(Top)
    /\ color' = [color EXCEPT ![Top] = "BLACK"]
    /\ topost' = Append(topost, vindex_lookup(data, data[Top]))
    /\ st' = SubSeq(st, 1, Len(st) - 1)
    /\ UNCHANGED <<data, adj, dfs_idx, root, pc, ret>>

\* Mutant: the index of the next edge is not advanced.
FollowSameEdge ==
    /\ pc = "dfs"
    /\ st # <<>>
    /\ ~Exhausted(Top)
    /\ dfs_idx' = dfs_idx

\* vertex_get_next_edge.
FollowEdge ==
    /\ pc = "dfs"
    /\ st # <<>>
    /\ ~Exhausted(Top)
    /\ dfs_idx' = [dfs_idx EXCEPT ![Top] = @ + 1]

Visit ==
    /\ FollowEdge
    /\ color[NextEdge(Top)] = "WHITE"
    /\ color' = [color EXCEPT ![NextEdge(Top)] = "GRAY"]
    /\ st' = Append(st, NextEdge(Top))
    /\ UNCHANGED <<data, adj, topost, root, pc, ret>>

\* Mutant: an edge back into the stack is skipped.
SkipSeen ==
    /\ FollowEdge
    /\ color[NextEdge(Top)] # "WHITE"
    /\ UNCHANGED <<data, adj, color, st, topost, root, pc, ret>>

SkipFinished ==
    /\ FollowEdge
    /\ color[NextEdge(Top)] = "BLACK"
    /\ UNCHANGED <<data, adj, color, st, topost, root, pc, ret>>

\* An edge back into the stack: graph_dfs breaks, and so does graph_toposort.
\* (The stack is freed there; it is kept so that properties can speak of it.)
CycleFound ==
    /\ FollowEdge
    /\ color[NextEdge(Top)] = "GRAY"
    /\ ret' = -1
    /\ pc' = "done"
    /\ UNCHANGED <<data, adj, color, st, topost, root>>

\* graph_dfs returns 0 and the loop of graph_toposort goes on.
DfsReturn ==
    /\ pc = "dfs"
    /\ st = <<>>
    /\ pc' = "scan"
    /\ root' = root + 1
    /\ UNCHANGED <<data, adj, color, dfs_idx, st, topost, ret>>

Build ==
    \/ \E name \in Names : AddVertex(name)
    \/ \E from, to \in Names : AddEdge(from, to)

Sort ==
    \/ StartDfs
    \/ SkipVisited
    \/ Finish
    \/ Retire
    \/ Visit
    \/ SkipFinished
    \/ CycleFound
    \/ DfsReturn

Next == Build \/ StartToposort \/ Sort

Spec == Init /\ [][Next]_vars

\* Once called, the sort is a loop of one thread: it keeps taking steps.
FairSpec == Spec /\ WF_vars(Sort)

-----------------------------------------------------------------------------
(* Properties.                                                             *)

TypeOK ==
    /\ data \in Seq(Names)
    /\ adj \in [Vertex -> Seq(Vertex)]
    /\ color \in [Vertex -> Color]
    /\ dfs_idx \in [Vertex -> Nat]
    /\ st \in Seq(Vertex)
    /\ topost \in Seq(Vertex)
    /\ root \in 1..(Len(data) + 1)
    /\ pc \in {"build", "scan", "dfs", "done"}
    /\ ret \in {0, -1}

Edge(v, w) == HasEdge(adj[v], w)

\* graph_toposort answering 0 leaves every vertex exactly once on topost, the
\* targets of its edges below it: popping the stack gives a vertex before all
\* the vertices its edges lead to, the order topo_install and crawl rely on.
TopoOrderValid ==
    pc = "done" /\ ret = 0 =>
        /\ \A v \in Vertex : \E k \in 1..Len(topost) : topost[k] = v
        /\ \A j, k \in 1..Len(topost) :
              /\ topost[j] = topost[k] => j = k
              /\ Edge(topost[k], topost[j]) => j < k

\* graph_toposort answering -1 has found a real cycle: it runs along the stack
\* of graph_dfs from some depth to the top and back.
CycleIsReal ==
    ret = -1 =>
        \E d \in 1..Len(st) :
            /\ \A k \in d..(Len(st) - 1) : Edge(st[k], st[k + 1])
            /\ Edge(Top, st[d])

\* Once called, the sort answers, whatever the graph.
Terminates == pc = "scan" ~> pc = "done"

-----------------------------------------------------------------------------
(* The abstract sort this one implements.                                  *)

\* The graph, the emitted names and the verdict TopoOrder speaks of.
NamePairs(d, a) ==
    {p \in Names \X Names : \E v, w \in 1..Len(d) :
        HasEdge(a[v], w) /\ p[1] = d[v] /\ p[2] = d[w]}
nodesBar == {name \in Names : HasVertex(data, name)}
edgesBar == NamePairs(data, adj)
outBar == [k \in 1..Len(topost) |-> data[topost[k]]]
verdictBar == IF pc # "done" THEN "none" ELSE IF ret = 0 THEN "ordered" ELSE "cyclic"

Abstract == INSTANCE TopoOrder WITH
    nodes <- nodesBar, edges <- edgesBar, out <- outBar, verdict <- verdictBar

\* The sort emits names only after everything their edges lead to, and says
\* "cyclic" only when the names not emitted hold a cycle: TopoOrder's promise.
ImplementsTopoOrder == Abstract!Spec
=============================================================================
