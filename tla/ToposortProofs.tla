--------------------------- MODULE ToposortProofs ---------------------------
(* Proofs about Toposort for every set of names and every graph.            *)
EXTENDS Toposort, SequenceTheorems, TLAPS

-----------------------------------------------------------------------------
(* The inductive invariant.                                                *)

\* vindex keeps one vertex for a name.
DataDistinct == \A v, w \in Vertex : data[v] = data[w] => v = w

\* Before the sort, the search has left no trace.
Untouched ==
    /\ pc = "build" => topost = <<>> /\ root = 1 /\ ret = 0
    /\ pc \in {"build", "scan"} => st = <<>>
    /\ pc = "build" => color = [v \in Vertex |-> "WHITE"]

\* Vertices not reached have followed nothing; finished ones, everything.
Followed ==
    \A v \in Vertex :
        /\ dfs_idx[v] <= Len(adj[v])
        /\ color[v] = "WHITE" => dfs_idx[v] = 0

\* The stack holds the gray vertices, each once, and is a path of the graph.
StackIsPath ==
    /\ \A v \in Vertex : color[v] = "GRAY" <=> \E k \in 1..Len(st) : st[k] = v
    /\ \A j, k \in 1..Len(st) : st[j] = st[k] => j = k
    /\ \A k \in 1..(Len(st) - 1) :
          /\ dfs_idx[st[k]] > 0
          /\ adj[st[k]][dfs_idx[st[k]]] = st[k + 1]

\* topost holds the black vertices, each once, above the targets of its edges.
FinishedInOrder ==
    /\ \A v \in Vertex : color[v] = "BLACK" <=> \E k \in 1..Len(topost) : topost[k] = v
    /\ \A j, k \in 1..Len(topost) : topost[j] = topost[k] => j = k
    /\ \A k \in 1..Len(topost) : \A e \in 1..Len(adj[topost[k]]) :
          \E j \in 1..(k - 1) : topost[j] = adj[topost[k]][e]

\* The edges followed from the stack lead to black vertices, but for the edge
\* from each vertex to the one pushed after it.
PendingEdges ==
    ret = 0 =>
        \A k \in 1..Len(st) : \A e \in 1..dfs_idx[st[k]] :
            color[adj[st[k]][e]] = "BLACK" \/ (k < Len(st) /\ e = dfs_idx[st[k]])

\* The loop of graph_toposort leaves no white vertex behind.
ScanProgress ==
    /\ \A v \in 1..(root - 1) : v \in Vertex => color[v] # "WHITE"
    /\ pc = "dfs" => root \in Vertex /\ color[root] # "WHITE"
    /\ ret = -1 => pc = "done"
    /\ pc = "done" /\ ret = 0 => root = Len(data) + 1 /\ st = <<>>

IInv ==
    /\ TypeOK
    /\ DataDistinct
    /\ Untouched
    /\ Followed
    /\ StackIsPath
    /\ FinishedInOrder
    /\ PendingEdges
    /\ ScanProgress
    /\ CycleIsReal

-----------------------------------------------------------------------------
(* The operators of the graph.                                             *)

DistinctNames(d) == \A v, w \in 1..Len(d) : d[v] = d[w] => v = w

\* graph_add_vertex keeps the vertices there were and leaves one for the name.
LEMMA AddVertexLemma ==
    ASSUME NEW d \in Seq(Names), NEW name \in Names, DistinctNames(d)
    PROVE  LET r == graph_add_vertex(d, name) IN
           /\ r \in Seq(Names)
           /\ Len(r) >= Len(d)
           /\ \A v \in 1..Len(d) : r[v] = d[v]
           /\ HasVertex(r, name)
           /\ DistinctNames(r)
<1>1. CASE HasVertex(d, name)
  BY <1>1 DEF graph_add_vertex
<1>2. CASE ~HasVertex(d, name)
  <2>1. graph_add_vertex(d, name) = Append(d, name)
    BY <1>2 DEF graph_add_vertex
  <2>2. \A v \in 1..Len(d) : d[v] # name
    BY <1>2 DEF HasVertex
  <2>3. Append(d, name)[Len(d) + 1] = name /\ Len(Append(d, name)) = Len(d) + 1
    OBVIOUS
  <2> QED
    BY <2>1, <2>2, <2>3 DEF HasVertex, DistinctNames
<1> QED
  BY <1>1, <1>2

\* vindex_lookup finds the only vertex of a name.
LEMMA LookupLemma ==
    ASSUME NEW d \in Seq(Names), NEW name, HasVertex(d, name)
    PROVE  /\ vindex_lookup(d, name) \in 1..Len(d)
           /\ d[vindex_lookup(d, name)] = name
BY DEF vindex_lookup, HasVertex

\* vertex_add_edge keeps the list a list of vertices.
LEMMA AddEdgeLemma ==
    ASSUME NEW S, NEW list \in Seq(S), NEW t \in S
    PROVE  vertex_add_edge(list, t) \in Seq(S)
BY DEF vertex_add_edge

\* stack_pop leaves the elements below the top.
LEMMA PopLemma ==
    ASSUME NEW S, NEW s \in Seq(S), s # <<>>
    PROVE  LET r == SubSeq(s, 1, Len(s) - 1) IN
           /\ r \in Seq(S)
           /\ Len(r) = Len(s) - 1
           /\ \A k \in 1..(Len(s) - 1) : r[k] = s[k]
<1> DEFINE r == SubSeq(s, 1, Len(s) - 1)
           n == Len(s) - 1
<1>1. n \in Nat /\ Len(s) = n + 1
  OBVIOUS
<1>2. \A k \in 1..n : s[k] \in S
  OBVIOUS
<1>3. /\ r \in Seq(S)
      /\ Len(r) = IF 1 <= n THEN n - 1 + 1 ELSE 0
      /\ \A k \in 1..(n - 1 + 1) : r[k] = s[1 + k - 1]
  BY <1>1, <1>2, SubSeqProperties
<1> HIDE DEF r, n
<1>4. Len(r) = n /\ \A k \in 1..n : r[k] = s[k]
  BY <1>1, <1>3
<1> QED
  BY <1>1, <1>3, <1>4 DEF r, n

\* Lists of vertices stay lists of vertices when the graph grows.
LEMMA SeqMonotone ==
    ASSUME NEW S, NEW T, S \subseteq T, NEW list \in Seq(S)
    PROVE  list \in Seq(T)
OBVIOUS

LEMMA GrownLemma ==
    ASSUME NEW d, NEW n \in Nat, Len(d) \in Nat, n <= Len(d),
           NEW S, NEW f \in [1..n -> S], NEW initial \in S
    PROVE  Grown(f, d, initial) \in [1..Len(d) -> S]
BY DEF Grown

-----------------------------------------------------------------------------
(* Each action preserves the invariant.                                    *)

LEMMA InitIInv == Init => IInv
<1> SUFFICES ASSUME Init PROVE IInv
  OBVIOUS
<1>1. TypeOK
  BY DEF Init, TypeOK, Vertex, Color
<1>2. Vertex = {} /\ Len(st) = 0 /\ Len(topost) = 0
  BY DEF Init, Vertex
<1> QED
  BY <1>1, <1>2 DEF Init, IInv, DataDistinct, Untouched, Followed, StackIsPath,
     FinishedInOrder, PendingEdges, ScanProgress, CycleIsReal, Vertex

\* What building has to keep: nothing of the search has begun.
LEMMA BuildStep ==
    ASSUME IInv, pc = "build", pc' = "build",
           data' \in Seq(Names), Len(data') >= Len(data), DistinctNames(data'),
           adj' \in [Vertex' -> Seq(Vertex')],
           color' = Grown(color, data', "WHITE"),
           dfs_idx' = Grown(dfs_idx, data', 0),
           UNCHANGED <<st, topost, root, ret>>
    PROVE  IInv'
<1> USE DEF IInv
<1>1. st = <<>> /\ topost = <<>> /\ root = 1 /\ ret = 0
  BY DEF Untouched
<1>2. color = [v \in Vertex |-> "WHITE"]
  BY DEF Untouched
<1>3. color' = [v \in Vertex' |-> "WHITE"]
  BY <1>2 DEF Grown, Vertex
<1>4. dfs_idx' = [v \in Vertex' |-> 0]
  <2>1. \A v \in Vertex : dfs_idx[v] = 0
    BY <1>2 DEF Followed, Vertex
  <2>2. DOMAIN dfs_idx = Vertex
    BY DEF TypeOK
  <2> QED
    BY <2>1, <2>2 DEF Grown, Vertex
<1>5. TypeOK'
  BY <1>1, <1>3, <1>4 DEF TypeOK, Color, Vertex
<1>6. DataDistinct'
  BY DEF DataDistinct, DistinctNames, Vertex
<1>7. Untouched'
  BY <1>1, <1>3 DEF Untouched
<1>8. Followed'
  BY <1>3, <1>4, <1>5 DEF Followed, TypeOK, Vertex
<1>9. StackIsPath'
  BY <1>1, <1>3 DEF StackIsPath, Vertex
<1>10. FinishedInOrder'
  BY <1>1, <1>3 DEF FinishedInOrder, Vertex
<1>11. PendingEdges' /\ ScanProgress' /\ CycleIsReal'
  BY <1>1 DEF PendingEdges, ScanProgress, CycleIsReal, Vertex
<1> QED
  BY <1>5, <1>6, <1>7, <1>8, <1>9, <1>10, <1>11

LEMMA AddVertexIInv ==
    ASSUME IInv, NEW name \in Names, AddVertex(name)
    PROVE  IInv'
<1>1. data \in Seq(Names) /\ DistinctNames(data) /\ adj \in [Vertex -> Seq(Vertex)]
  BY DEF IInv, TypeOK, DataDistinct, DistinctNames, Vertex
<1>2. data' \in Seq(Names) /\ Len(data') >= Len(data) /\ DistinctNames(data')
  BY <1>1, AddVertexLemma DEF AddVertex
<1>3. adj' \in [Vertex' -> Seq(Vertex')]
  <2>1. adj' = Grown(adj, data', <<>>)
    BY DEF AddVertex
  <2>2. adj \in [1..Len(data) -> Seq(Vertex')]
    BY <1>1, <1>2, SeqMonotone, Vertex \subseteq Vertex' DEF Vertex
  <2> QED
    <3>1. Len(data) \in Nat /\ Len(data') \in Nat /\ <<>> \in Seq(Vertex')
      BY <1>1, <1>2
    <3>2. Grown(adj, data', <<>>) \in [1..Len(data') -> Seq(Vertex')]
      BY <1>2, <2>2, <3>1, GrownLemma
    <3> QED
      BY <2>1, <3>2 DEF Vertex
<1> QED
  BY <1>2, <1>3, BuildStep DEF AddVertex

LEMMA AddEdgeIInv ==
    ASSUME IInv, NEW from \in Names, NEW to \in Names, AddEdge(from, to)
    PROVE  IInv'
<1> DEFINE mid == graph_add_vertex(data, from)
           f == vindex_lookup(data', from)
           t == vindex_lookup(data', to)
           grown == Grown(adj, data', <<>>)
<1>1. data \in Seq(Names) /\ DistinctNames(data) /\ adj \in [Vertex -> Seq(Vertex)]
  BY DEF IInv, TypeOK, DataDistinct, DistinctNames, Vertex
<1>2. mid \in Seq(Names) /\ Len(mid) >= Len(data) /\ DistinctNames(mid) /\ HasVertex(mid, from)
  BY <1>1, AddVertexLemma
<1>3. data' = graph_add_vertex(mid, to)
  BY DEF AddEdge
<1>4. /\ data' \in Seq(Names) /\ Len(data') >= Len(mid) /\ DistinctNames(data')
      /\ HasVertex(data', to)
      /\ \A v \in 1..Len(mid) : data'[v] = mid[v]
  BY <1>2, <1>3, AddVertexLemma
<1>5. HasVertex(data', from)
  BY <1>2, <1>4 DEF HasVertex
<1>6. f \in Vertex' /\ t \in Vertex'
  BY <1>4, <1>5, LookupLemma DEF Vertex
<1>7. grown \in [Vertex' -> Seq(Vertex')]
  <2>1. adj \in [1..Len(data) -> Seq(Vertex')]
    BY <1>1, <1>2, <1>4, SeqMonotone, Vertex \subseteq Vertex' DEF Vertex
  <2> QED
    <3>1. Len(data) \in Nat /\ Len(data') \in Nat /\ <<>> \in Seq(Vertex')
      BY <1>1, <1>4
    <3>2. Len(data) <= Len(data')
      BY <1>1, <1>2, <1>4
    <3>3. Grown(adj, data', <<>>) \in [1..Len(data') -> Seq(Vertex')]
      BY <2>1, <3>1, <3>2, GrownLemma
    <3> QED
      BY <3>3 DEF Vertex
<1>8. adj' = [grown EXCEPT ![f] = vertex_add_edge(@, t)]
  BY DEF AddEdge
<1>9. vertex_add_edge(grown[f], t) \in Seq(Vertex')
  BY <1>4, <1>6, <1>7, AddEdgeLemma DEF Vertex
<1>10. adj' \in [Vertex' -> Seq(Vertex')]
  BY <1>6, <1>7, <1>8, <1>9
<1>11. Len(data') >= Len(data)
  BY <1>1, <1>2, <1>4
<1> QED
  BY <1>4, <1>10, <1>11, BuildStep DEF AddEdge

LEMMA StartToposortIInv ==
    ASSUME IInv, StartToposort
    PROVE  IInv'
<1> USE DEF IInv, StartToposort
<1>1. st = <<>> /\ topost = <<>> /\ root = 1 /\ ret = 0
  BY DEF Untouched
<1>2. Vertex' = Vertex
  BY DEF Vertex
<1>3. TypeOK'
  BY <1>1, <1>2 DEF TypeOK, Color
<1> QED
  BY <1>1, <1>2, <1>3 DEF DataDistinct, Untouched, Followed, StackIsPath, TypeOK,
     FinishedInOrder, PendingEdges, ScanProgress, CycleIsReal, Vertex

LEMMA ScanIInv ==
    ASSUME IInv, StartDfs \/ SkipVisited \/ Finish \/ DfsReturn
    PROVE  IInv'
<1> USE DEF IInv
<1>1. Vertex' = Vertex /\ DataDistinct'
  BY DEF StartDfs, SkipVisited, Finish, DfsReturn, Vertex, DataDistinct
<1>2. \A v \in Vertex : color[v] \in Color
  BY DEF TypeOK
<1>3. CASE StartDfs
  <2> USE <1>3 DEF StartDfs
  <2>1. st = <<>> /\ root \in Vertex /\ st' = <<root>> /\ ret = 0
    BY DEF Untouched, TypeOK, ScanProgress, Vertex
  <2>2. Len(st') = 1 /\ st'[1] = root
    BY <2>1
  <2>3. TypeOK'
    BY <1>1, <2>1 DEF TypeOK, Color
  <2>4. color'[root] = "GRAY" /\ \A v \in Vertex : v # root => color'[v] = color[v]
    BY <2>1 DEF TypeOK
  <2>5. Untouched' /\ Followed'
    BY <1>1, <2>1, <2>4 DEF Untouched, Followed
  <2>6. StackIsPath'
    BY <1>1, <2>1, <2>2, <2>4 DEF StackIsPath
  <2>7. FinishedInOrder'
    BY <1>1, <2>1, <2>4 DEF FinishedInOrder
  <2>8. PendingEdges'
    BY <1>1, <2>1, <2>2 DEF PendingEdges, Followed
  <2>9. ScanProgress'
    BY <1>1, <2>1, <2>4 DEF ScanProgress, TypeOK
  <2>10. CycleIsReal'
    BY <2>1 DEF CycleIsReal
  <2> QED
    BY <1>1, <2>3, <2>5, <2>6, <2>7, <2>8, <2>9, <2>10
<1>4. CASE SkipVisited
  <2> USE <1>4 DEF SkipVisited
  <2>1. TypeOK' /\ ScanProgress'
    BY <1>1 DEF TypeOK, ScanProgress, Vertex
  <2>2. Untouched' /\ Followed' /\ StackIsPath' /\ FinishedInOrder' /\ PendingEdges'
    BY <1>1 DEF Untouched, Followed, StackIsPath, FinishedInOrder, PendingEdges
  <2>3. CycleIsReal'
    BY DEF CycleIsReal, Edge, Top
  <2> QED
    BY <1>1, <2>1, <2>2, <2>3
<1>5. CASE Finish
  <2> USE <1>5 DEF Finish
  <2>1. TypeOK' /\ ScanProgress'
    BY <1>1 DEF TypeOK, ScanProgress, Untouched, Vertex
  <2>2. Untouched' /\ Followed' /\ StackIsPath' /\ FinishedInOrder' /\ PendingEdges'
    BY <1>1 DEF Untouched, Followed, StackIsPath, FinishedInOrder, PendingEdges
  <2>3. CycleIsReal'
    BY DEF CycleIsReal, Edge, Top
  <2> QED
    BY <1>1, <2>1, <2>2, <2>3
<1>6. CASE DfsReturn
  <2> USE <1>6 DEF DfsReturn
  <2>1. TypeOK'
    BY <1>1 DEF TypeOK, ScanProgress, Vertex
  <2>2. \A v \in 1..root : v \in Vertex => color[v] # "WHITE"
    BY DEF TypeOK, ScanProgress
  <2>3. ScanProgress'
    BY <1>1, <2>2 DEF TypeOK, ScanProgress
  <2>4. Untouched' /\ Followed' /\ StackIsPath' /\ FinishedInOrder' /\ PendingEdges'
    BY <1>1 DEF Untouched, Followed, StackIsPath, FinishedInOrder, PendingEdges
  <2>5. CycleIsReal'
    BY DEF CycleIsReal, Edge, Top
  <2> QED
    BY <1>1, <2>1, <2>3, <2>4, <2>5
<1> QED
  BY <1>3, <1>4, <1>5, <1>6

\* The top vertex is gray; when it is exhausted all its targets are black.
LEMMA RetireIInv ==
    ASSUME IInv, Retire
    PROVE  IInv'
<1> USE DEF IInv, Retire
<1> DEFINE n == Len(st)
           m == Len(topost)
<1>1. Vertex' = Vertex /\ DataDistinct'
  BY DEF Vertex, DataDistinct
<1>2. n \in Nat /\ n > 0 /\ m \in Nat /\ Top \in Vertex /\ st[n] = Top
  BY DEF TypeOK, Top
<1>3. color[Top] = "GRAY" /\ ret = 0
  BY <1>2 DEF StackIsPath, ScanProgress, TypeOK
<1>4. vindex_lookup(data, data[Top]) = Top
  <2>1. HasVertex(data, data[Top])
    BY <1>2 DEF HasVertex, Vertex
  <2> QED
    BY <1>2, <2>1, LookupLemma DEF DataDistinct, TypeOK, Vertex
<1>5. topost' = Append(topost, Top)
  BY <1>4
<1>6. Len(topost') = m + 1 /\ topost'[m + 1] = Top /\ \A k \in 1..m : topost'[k] = topost[k]
  BY <1>2, <1>5 DEF TypeOK
<1>7. Len(st') = n - 1 /\ \A k \in 1..(n - 1) : st'[k] = st[k]
  BY PopLemma DEF TypeOK
<1>8. color'[Top] = "BLACK" /\ \A v \in Vertex : v # Top => color'[v] = color[v]
  BY <1>2 DEF TypeOK
<1>9. dfs_idx[Top] = Len(adj[Top]) /\ adj[Top] \in Seq(Vertex)
  BY <1>2 DEF Exhausted, Followed, TypeOK
<1>10. \A e \in 1..Len(adj[Top]) : color[adj[Top][e]] = "BLACK"
  <2> SUFFICES ASSUME NEW e \in 1..Len(adj[Top]) PROVE color[adj[Top][e]] = "BLACK"
    OBVIOUS
  <2>1. e \in 1..dfs_idx[st[n]]
    BY <1>2, <1>9
  <2>2. n \in 1..Len(st) /\ ~(n < Len(st))
    BY <1>2
  <2> QED
    BY <1>2, <1>3, <2>1, <2>2 DEF PendingEdges
<1>11. TypeOK'
  <2>1. st' \in Seq(Vertex) /\ topost' \in Seq(Vertex)
    BY <1>2, <1>5 DEF TypeOK
  <2> QED
    BY <1>1, <1>2, <2>1 DEF TypeOK, Color
<1>12. Untouched' /\ Followed'
  BY <1>1, <1>8 DEF Untouched, Followed
<1>13. StackIsPath'
  <2>1. \A v \in Vertex : color'[v] = "GRAY" <=> v # Top /\ color[v] = "GRAY"
    BY <1>8
  <2>2. \A v \in Vertex : (\E k \in 1..n : st[k] = v) /\ v # Top <=> \E k \in 1..(n - 1) : st[k] = v
    BY <1>2 DEF StackIsPath
  <2>3. \A v \in Vertex : color'[v] = "GRAY" <=> \E k \in 1..Len(st') : st'[k] = v
    BY <1>2, <1>7, <2>1, <2>2 DEF StackIsPath
  <2>4. \A j, k \in 1..Len(st') : st'[j] = st'[k] => j = k
    BY <1>2, <1>7 DEF StackIsPath
  <2>5. \A k \in 1..(Len(st') - 1) : dfs_idx[st'[k]] > 0 /\ adj[st'[k]][dfs_idx[st'[k]]] = st'[k + 1]
    BY <1>2, <1>7 DEF StackIsPath
  <2> QED
    BY <1>1, <2>3, <2>4, <2>5 DEF StackIsPath
<1>14. FinishedInOrder'
  <2>1. \A v \in Vertex : color'[v] = "BLACK" <=> \E k \in 1..Len(topost') : topost'[k] = v
    BY <1>2, <1>6, <1>8 DEF FinishedInOrder
  <2>2. \A k \in 1..m : topost[k] # Top
    BY <1>2, <1>3 DEF FinishedInOrder
  <2>3. \A j, k \in 1..Len(topost') : topost'[j] = topost'[k] => j = k
    BY <1>2, <1>6, <2>2 DEF FinishedInOrder
  <2>4. \A k \in 1..m : \A e \in 1..Len(adj[topost'[k]]) :
           \E j \in 1..(k - 1) : topost'[j] = adj[topost'[k]][e]
    BY <1>2, <1>6 DEF FinishedInOrder
  <2>5. \A e \in 1..Len(adj[Top]) : \E j \in 1..m : topost'[j] = adj[Top][e]
    <3> SUFFICES ASSUME NEW e \in 1..Len(adj[Top])
                 PROVE  \E j \in 1..m : topost'[j] = adj[Top][e]
      OBVIOUS
    <3>1. adj[Top][e] \in Vertex
      BY <1>9
    <3>2. PICK j \in 1..m : topost[j] = adj[Top][e]
      BY <1>10, <3>1 DEF FinishedInOrder
    <3> QED
      BY <1>6, <3>2
  <2>6. \A k \in 1..Len(topost') : \A e \in 1..Len(adj[topost'[k]]) :
           \E j \in 1..(k - 1) : topost'[j] = adj[topost'[k]][e]
    <3> SUFFICES ASSUME NEW k \in 1..(m + 1), NEW e \in 1..Len(adj[topost'[k]])
                 PROVE  \E j \in 1..(k - 1) : topost'[j] = adj[topost'[k]][e]
      BY <1>6
    <3>1. CASE k = m + 1
      BY <1>2, <1>6, <2>5, <3>1
    <3>2. CASE k \in 1..m
      BY <2>4, <3>2
    <3> QED
      BY <1>2, <3>1, <3>2
  <2>7. adj' = adj
    OBVIOUS
  <2> QED
    <3> HIDE DEF IInv, Retire
    <3> QED
      BY <1>1, <2>1, <2>3, <2>6, <2>7 DEF FinishedInOrder
<1>15. PendingEdges'
  <2>1. \A k \in 1..(n - 1) : \A e \in 1..dfs_idx[st[k]] :
           color'[adj[st[k]][e]] = "BLACK" \/ (k < n - 1 /\ e = dfs_idx[st[k]])
    <3> SUFFICES ASSUME NEW k \in 1..(n - 1), NEW e \in 1..dfs_idx[st[k]]
                 PROVE  color'[adj[st[k]][e]] = "BLACK" \/ (k < n - 1 /\ e = dfs_idx[st[k]])
      OBVIOUS
    <3>0. st[k] \in Vertex
      BY <1>2 DEF TypeOK
    <3>a. adj[st[k]] \in Seq(Vertex) /\ dfs_idx[st[k]] \in Nat
      BY <3>0 DEF TypeOK
    <3>1. adj[st[k]] \in Seq(Vertex) /\ e \in 1..Len(adj[st[k]])
      BY <3>0, <3>a DEF Followed
    <3>2. adj[st[k]][e] \in Vertex
      BY <3>1
    <3>3. color[adj[st[k]][e]] = "BLACK" \/ (k < n /\ e = dfs_idx[st[k]])
      BY <1>2, <1>3 DEF PendingEdges
    <3>4. k = n - 1 /\ e = dfs_idx[st[k]] => adj[st[k]][e] = Top
      BY <1>2 DEF StackIsPath
    <3> QED
      BY <1>2, <1>8, <3>2, <3>3, <3>4
  <2> QED
    <3>1. adj' = adj /\ dfs_idx' = dfs_idx
      OBVIOUS
    <3> HIDE DEF IInv, Retire
    <3> QED
      BY <1>2, <1>7, <2>1, <3>1 DEF PendingEdges
<1>16. ScanProgress'
  BY <1>1, <1>2, <1>3, <1>8 DEF ScanProgress
<1>17. CycleIsReal'
  BY <1>3 DEF CycleIsReal
<1> QED
  BY <1>1, <1>11, <1>12, <1>13, <1>14, <1>15, <1>16, <1>17

\* What is known when the top vertex of the stack follows an edge.
LEMMA FollowEdgeFacts ==
    ASSUME IInv, FollowEdge
    PROVE  /\ Len(st) \in Nat /\ Len(st) > 0 /\ st[Len(st)] = Top
           /\ Top \in Vertex /\ NextEdge(Top) \in Vertex
           /\ color[Top] = "GRAY" /\ ret = 0
           /\ adj[Top] \in Seq(Vertex) /\ dfs_idx[Top] \in Nat
           /\ dfs_idx[Top] + 1 <= Len(adj[Top])
           /\ dfs_idx'[Top] = dfs_idx[Top] + 1
           /\ \A v \in Vertex : v # Top => dfs_idx'[v] = dfs_idx[v]
           /\ dfs_idx' \in [Vertex -> Nat]
<1> USE DEF IInv, FollowEdge
<1>1. Len(st) \in Nat /\ Len(st) > 0 /\ Top \in Vertex /\ st[Len(st)] = Top
  BY DEF TypeOK, Top
<1>2. color[Top] = "GRAY" /\ ret = 0
  BY <1>1 DEF StackIsPath, ScanProgress, TypeOK
<1>3. adj[Top] \in Seq(Vertex) /\ dfs_idx[Top] \in Nat /\ Len(adj[Top]) \in Nat
  BY <1>1 DEF TypeOK
<1>4. dfs_idx[Top] + 1 <= Len(adj[Top])
  BY <1>3 DEF Exhausted
<1>5. NextEdge(Top) \in Vertex
  BY <1>3, <1>4 DEF NextEdge
<1>6. /\ dfs_idx'[Top] = dfs_idx[Top] + 1
      /\ \A v \in Vertex : v # Top => dfs_idx'[v] = dfs_idx[v]
      /\ dfs_idx' \in [Vertex -> Nat]
  BY <1>1 DEF TypeOK
<1> QED
  BY <1>1, <1>2, <1>3, <1>4, <1>5, <1>6

\* The stack stays a path when its top follows one more edge: only the edges
\* below the top are part of the path.
LEMMA PathBelowTop ==
    ASSUME IInv, FollowEdge
    PROVE  \A k \in 1..(Len(st) - 1) :
              /\ st[k] \in Vertex
              /\ dfs_idx'[st[k]] = dfs_idx[st[k]]
              /\ dfs_idx'[st[k]] > 0
              /\ adj[st[k]][dfs_idx'[st[k]]] = st[k + 1]
<1> SUFFICES ASSUME NEW k \in 1..(Len(st) - 1)
             PROVE  /\ st[k] \in Vertex
                    /\ dfs_idx'[st[k]] = dfs_idx[st[k]]
                    /\ dfs_idx'[st[k]] > 0
                    /\ adj[st[k]][dfs_idx'[st[k]]] = st[k + 1]
  OBVIOUS
<1>1. Len(st) \in Nat /\ k \in 1..Len(st) /\ Len(st) \in 1..Len(st) /\ k # Len(st)
  BY FollowEdgeFacts
<1>2. st[k] \in Vertex
  BY <1>1 DEF IInv, TypeOK
<1>3. st[k] # Top
  BY <1>1, FollowEdgeFacts DEF IInv, StackIsPath
<1>4. dfs_idx'[st[k]] = dfs_idx[st[k]]
  BY <1>2, <1>3, FollowEdgeFacts
<1>5. dfs_idx[st[k]] > 0 /\ adj[st[k]][dfs_idx[st[k]]] = st[k + 1]
  BY DEF IInv, StackIsPath
<1> QED
  BY <1>2, <1>4, <1>5

\* The edges followed before this step lead to black vertices.
LEMMA PendingBelow ==
    ASSUME IInv, FollowEdge
    PROVE  /\ \A k \in 1..(Len(st) - 1) : \A e \in 1..dfs_idx'[st[k]] :
                 color[adj[st[k]][e]] = "BLACK" \/ e = dfs_idx'[st[k]]
           /\ \A e \in 1..dfs_idx[Top] : color[adj[Top][e]] = "BLACK"
<1>1. ret = 0 /\ Len(st) \in Nat /\ Len(st) > 0 /\ st[Len(st)] = Top
  BY FollowEdgeFacts
<1>2. \A k \in 1..Len(st) : \A e \in 1..dfs_idx[st[k]] :
         color[adj[st[k]][e]] = "BLACK" \/ (k < Len(st) /\ e = dfs_idx[st[k]])
  BY <1>1 DEF IInv, PendingEdges
<1>3. \A k \in 1..(Len(st) - 1) : dfs_idx'[st[k]] = dfs_idx[st[k]]
  BY PathBelowTop
<1>4. Len(st) \in 1..Len(st) /\ \A k \in 1..(Len(st) - 1) : k \in 1..Len(st)
  BY <1>1
<1>5. \A e \in 1..dfs_idx[Top] : color[adj[Top][e]] = "BLACK"
  BY <1>1, <1>2, <1>4
<1>6. \A k \in 1..(Len(st) - 1) : \A e \in 1..dfs_idx'[st[k]] :
         color[adj[st[k]][e]] = "BLACK" \/ e = dfs_idx'[st[k]]
  BY <1>2, <1>3, <1>4
<1> QED
  BY <1>5, <1>6

LEMMA VisitIInv ==
    ASSUME IInv, Visit
    PROVE  IInv'
<1> DEFINE n == Len(st)
           w == NextEdge(Top)
<1>0. FollowEdge
  BY DEF Visit
<1>1. /\ n \in Nat /\ n > 0 /\ st[n] = Top /\ Top \in Vertex /\ w \in Vertex
      /\ color[Top] = "GRAY" /\ ret = 0 /\ dfs_idx[Top] \in Nat
      /\ dfs_idx[Top] + 1 <= Len(adj[Top])
      /\ dfs_idx'[Top] = dfs_idx[Top] + 1
      /\ \A v \in Vertex : v # Top => dfs_idx'[v] = dfs_idx[v]
      /\ dfs_idx' \in [Vertex -> Nat]
  BY <1>0, FollowEdgeFacts
<1>2. /\ color[w] = "WHITE" /\ w # Top
      /\ color' = [color EXCEPT ![w] = "GRAY"]
      /\ st' = Append(st, w)
      /\ UNCHANGED <<data, adj, topost, root, pc, ret>> /\ pc = "dfs"
  BY <1>1, <1>0 DEF Visit, FollowEdge
<1>3. Vertex' = Vertex /\ DataDistinct'
  BY <1>2 DEF Vertex, DataDistinct, IInv
<1>4. /\ Len(st') = n + 1 /\ st'[n + 1] = w
      /\ \A k \in 1..n : st'[k] = st[k]
      /\ st' \in Seq(Vertex)
  BY <1>1, <1>2 DEF IInv, TypeOK
<1>5. /\ color'[w] = "GRAY"
      /\ \A v \in Vertex : v # w => color'[v] = color[v]
      /\ color' \in [Vertex -> Color]
  BY <1>1, <1>2 DEF IInv, TypeOK, Color
<1>6. TypeOK'
  BY <1>1, <1>2, <1>3, <1>4, <1>5 DEF IInv, TypeOK
<1>7. Untouched' /\ ScanProgress'
  BY <1>1, <1>2, <1>3, <1>5 DEF IInv, Untouched, ScanProgress
<1>8. Followed'
  <2>1. dfs_idx[w] = 0 /\ \A v \in Vertex : dfs_idx[v] <= Len(adj[v])
    BY <1>1, <1>2 DEF IInv, Followed
  <2>2. \A v \in Vertex : color'[v] = "WHITE" => dfs_idx'[v] = 0
    BY <1>1, <1>5 DEF IInv, Followed
  <2>3. \A v \in Vertex : dfs_idx'[v] <= Len(adj[v])
    BY <1>1, <2>1
  <2> QED
    BY <1>2, <1>3, <2>2, <2>3 DEF Followed
<1>9. \A k \in 1..n : st[k] # w
  BY <1>1, <1>2 DEF IInv, StackIsPath
<1>10. StackIsPath'
  <2>1. \A v \in Vertex : color'[v] = "GRAY" <=> \E k \in 1..(n + 1) : st'[k] = v
    <3>1. \A v \in Vertex : color[v] = "GRAY" <=> \E k \in 1..n : st[k] = v
      BY DEF IInv, StackIsPath
    <3>2. \A k \in 1..n : st'[k] = st[k] /\ k \in 1..(n + 1)
      BY <1>1, <1>4
    <3>3. \A k \in 1..(n + 1) : k = n + 1 \/ k \in 1..n
      BY <1>1
    <3>4. n + 1 \in 1..(n + 1) /\ st'[n + 1] = w
      BY <1>1, <1>4
    <3>5. color'[w] = "GRAY" /\ \A v \in Vertex : v # w => color'[v] = color[v]
      BY <1>5
    <3> HIDE DEF n, w
    <3> QED
      BY <3>1, <3>2, <3>3, <3>4, <3>5
  <2>2. \A j, k \in 1..(n + 1) : st'[j] = st'[k] => j = k
    <3>1. \A j, k \in 1..n : st[j] = st[k] => j = k
      BY DEF IInv, StackIsPath
    <3>2. \A k \in 1..n : st'[k] = st[k]
      BY <1>4
    <3>3. \A k \in 1..(n + 1) : k = n + 1 \/ k \in 1..n
      BY <1>1
    <3>4. st'[n + 1] = w
      BY <1>4
    <3> HIDE DEF n, w
    <3> QED
      BY <1>9, <3>1, <3>2, <3>3, <3>4
  <2>3. \A k \in 1..n : dfs_idx'[st'[k]] > 0 /\ adj[st'[k]][dfs_idx'[st'[k]]] = st'[k + 1]
    <3> SUFFICES ASSUME NEW k \in 1..n
                 PROVE  dfs_idx'[st'[k]] > 0 /\ adj[st'[k]][dfs_idx'[st'[k]]] = st'[k + 1]
      OBVIOUS
    <3>1. CASE k = n
      BY <1>1, <1>4, <3>1 DEF NextEdge
    <3>2. CASE k \in 1..(n - 1)
      <4>1. dfs_idx'[st[k]] > 0 /\ adj[st[k]][dfs_idx'[st[k]]] = st[k + 1]
        BY <1>0, <3>2, PathBelowTop
      <4>2. k + 1 \in 1..n
        BY <1>1, <3>2
      <4> QED
        BY <1>4, <4>1, <4>2
    <3> QED
      BY <1>1, <3>1, <3>2
  <2>4. Len(st') = n + 1 /\ Len(st') - 1 = n
    BY <1>1, <1>4
  <2>5. adj' = adj
    BY <1>2
  <2> HIDE DEF n, w
  <2> QED
    BY <1>3, <2>1, <2>2, <2>3, <2>4, <2>5 DEF StackIsPath
<1>11. FinishedInOrder'
  <2>1. \A v \in Vertex : color'[v] = "BLACK" <=> color[v] = "BLACK"
    BY <1>2, <1>5
  <2>2. FinishedInOrder
    BY DEF IInv
  <2>3. topost' = topost /\ adj' = adj
    BY <1>2
  <2>4. /\ \A v \in Vertex' : color'[v] = "BLACK" <=> \E k \in 1..Len(topost') : topost'[k] = v
        /\ \A j, k \in 1..Len(topost') : topost'[j] = topost'[k] => j = k
    BY <1>3, <2>1, <2>2, <2>3 DEF FinishedInOrder
  <2>5. \A k \in 1..Len(topost') : \A e \in 1..Len(adj'[topost'[k]]) :
           \E j \in 1..(k - 1) : topost'[j] = adj'[topost'[k]][e]
    BY <2>2, <2>3 DEF FinishedInOrder
  <2> QED
    BY <2>4, <2>5 DEF FinishedInOrder
<1>12. PendingEdges'
  <2> SUFFICES ASSUME NEW k \in 1..(n + 1), NEW e \in 1..dfs_idx'[st'[k]]
               PROVE  color'[adj[st'[k]][e]] = "BLACK" \/ (k < n + 1 /\ e = dfs_idx'[st'[k]])
    BY <1>2, <1>4 DEF PendingEdges
  <2>1. CASE k = n + 1
    <3>1. dfs_idx'[st'[k]] = 0
      BY <1>1, <1>2, <1>4, <2>1 DEF IInv, Followed
    <3> QED
      BY <3>1
  <2>2. CASE k = n
    <3>1. st'[k] = Top /\ k < n + 1
      BY <1>1, <1>4, <2>2
    <3>2. e \in 1..dfs_idx[Top] \/ e = dfs_idx'[st'[k]]
      BY <1>1, <3>1
    <3>3. e \in 1..dfs_idx[Top] => color[adj[Top][e]] = "BLACK"
      BY <1>0, PendingBelow
    <3>5. adj[Top] \in Seq(Vertex) /\ Len(adj[Top]) \in Nat
      BY <1>1 DEF IInv, TypeOK
    <3>4. e \in 1..dfs_idx[Top] => adj[Top][e] \in Vertex
      BY <1>1, <3>5
    <3> QED
      BY <1>2, <1>5, <3>1, <3>2, <3>3, <3>4
  <2>3. CASE k \in 1..(n - 1)
    <3>5. k < n + 1 /\ k \in 1..n
      BY <1>1, <2>3
    <3>6. st[k] \in Vertex /\ dfs_idx'[st[k]] = dfs_idx[st[k]]
      BY <1>0, <2>3, PathBelowTop
    <3>1. st'[k] = st[k] /\ k < n + 1 /\ st[k] \in Vertex /\ dfs_idx'[st[k]] = dfs_idx[st[k]]
      BY <1>4, <3>5, <3>6
    <3>2. color[adj[st[k]][e]] = "BLACK" \/ e = dfs_idx'[st[k]]
      BY <1>0, <2>3, <3>1, PendingBelow
    <3>3. dfs_idx[st[k]] \in Nat /\ dfs_idx[st[k]] <= Len(adj[st[k]]) /\ adj[st[k]] \in Seq(Vertex)
      BY <3>1 DEF IInv, TypeOK, Followed
    <3>4. adj[st[k]][e] \in Vertex
      BY <3>1, <3>3
    <3> QED
      BY <1>2, <1>5, <3>1, <3>2, <3>4
  <2> QED
    BY <1>1, <2>1, <2>2, <2>3
<1>13. CycleIsReal'
  BY <1>1, <1>2 DEF CycleIsReal
<1> QED
  BY <1>3, <1>6, <1>7, <1>8, <1>10, <1>11, <1>12, <1>13 DEF IInv

\* A step that follows an edge and pushes nothing.
LEMMA FollowOnly ==
    ASSUME IInv, FollowEdge, UNCHANGED <<data, adj, color, st, topost, root>>,
           pc' \in {"dfs", "done"}, ret' \in {0, -1}
    PROVE  /\ Vertex' = Vertex /\ TypeOK' /\ DataDistinct' /\ Untouched'
           /\ Followed' /\ StackIsPath' /\ FinishedInOrder'
<1>1. /\ Len(st) \in Nat /\ Len(st) > 0 /\ Top \in Vertex
      /\ color[Top] = "GRAY" /\ pc = "dfs"
      /\ dfs_idx[Top] + 1 <= Len(adj[Top])
      /\ dfs_idx'[Top] = dfs_idx[Top] + 1
      /\ \A v \in Vertex : v # Top => dfs_idx'[v] = dfs_idx[v]
      /\ dfs_idx' \in [Vertex -> Nat]
  BY FollowEdgeFacts DEF FollowEdge
<1>2. Vertex' = Vertex /\ DataDistinct'
  BY DEF Vertex, DataDistinct, IInv
<1>3. TypeOK' /\ Untouched'
  BY <1>1, <1>2 DEF IInv, TypeOK, Untouched
<1>4. Followed'
  BY <1>1, <1>2 DEF IInv, Followed
<1>5. StackIsPath'
  <2>1. \A k \in 1..(Len(st) - 1) :
           dfs_idx'[st[k]] > 0 /\ adj[st[k]][dfs_idx'[st[k]]] = st[k + 1]
    BY PathBelowTop
  <2> QED
    BY <1>2, <2>1 DEF IInv, StackIsPath
<1>6. FinishedInOrder'
  BY <1>2 DEF IInv, FinishedInOrder
<1> QED
  BY <1>2, <1>3, <1>4, <1>5, <1>6

LEMMA SkipFinishedIInv ==
    ASSUME IInv, SkipFinished
    PROVE  IInv'
<1> DEFINE n == Len(st)
<1>0. /\ FollowEdge /\ color[NextEdge(Top)] = "BLACK" /\ pc = "dfs" /\ pc' = "dfs"
      /\ UNCHANGED <<data, adj, color, st, topost, root, pc, ret>>
  BY DEF SkipFinished, FollowEdge
<1>1. /\ n \in Nat /\ n > 0 /\ st[n] = Top /\ ret = 0 /\ dfs_idx[Top] \in Nat
      /\ dfs_idx'[Top] = dfs_idx[Top] + 1
  BY <1>0, FollowEdgeFacts
<1>2. /\ Vertex' = Vertex /\ TypeOK' /\ DataDistinct' /\ Untouched'
      /\ Followed' /\ StackIsPath' /\ FinishedInOrder'
  BY <1>0, <1>1, FollowOnly
<1>3. PendingEdges'
  <2> SUFFICES ASSUME NEW k \in 1..n, NEW e \in 1..dfs_idx'[st[k]]
               PROVE  color[adj[st[k]][e]] = "BLACK" \/ (k < n /\ e = dfs_idx'[st[k]])
    BY <1>0 DEF PendingEdges
  <2>1. CASE k = n
    <3>1. e \in 1..dfs_idx[Top] \/ e = dfs_idx[Top] + 1
      BY <1>1, <2>1
    <3>2. \A x \in 1..dfs_idx[Top] : color[adj[Top][x]] = "BLACK"
      BY <1>0, PendingBelow
    <3> QED
      BY <1>0, <1>1, <2>1, <3>1, <3>2 DEF NextEdge
  <2>2. CASE k \in 1..(n - 1)
    <3>1. k < n
      BY <1>1, <2>2
    <3>2. color[adj[st[k]][e]] = "BLACK" \/ e = dfs_idx'[st[k]]
      BY <1>0, <2>2, PendingBelow
    <3> QED
      BY <3>1, <3>2
  <2> QED
    BY <1>1, <2>1, <2>2
<1>4. ScanProgress' /\ CycleIsReal'
  BY <1>0, <1>1, <1>2 DEF IInv, ScanProgress, CycleIsReal
<1> QED
  BY <1>2, <1>3, <1>4 DEF IInv

\* The edge found leads to a gray vertex, which is somewhere on the stack.
LEMMA CycleWitness ==
    ASSUME IInv, CycleFound
    PROVE  \E d \in 1..Len(st) :
              /\ \A k \in d..(Len(st) - 1) : Edge(st[k], st[k + 1])
              /\ Edge(Top, st[d])
<1> DEFINE n == Len(st)
           w == NextEdge(Top)
<1>0. FollowEdge /\ color[w] = "GRAY"
  BY DEF CycleFound
<1>1. /\ n \in Nat /\ n > 0 /\ Top \in Vertex /\ w \in Vertex
      /\ adj[Top] \in Seq(Vertex) /\ dfs_idx[Top] \in Nat
      /\ dfs_idx[Top] + 1 <= Len(adj[Top])
  BY <1>0, FollowEdgeFacts
<1>2. PICK d \in 1..n : st[d] = w
  BY <1>0, <1>1 DEF IInv, StackIsPath
<1>3. Edge(Top, st[d])
  BY <1>1, <1>2 DEF Edge, HasEdge, NextEdge
<1>4. ASSUME NEW k \in d..(n - 1)
      PROVE  Edge(st[k], st[k + 1])
  <2>1. k \in 1..(n - 1) /\ k \in 1..n
    BY <1>1, <1>2
  <2>2. st[k] \in Vertex
    BY <2>1 DEF IInv, TypeOK
  <2>3. /\ adj[st[k]] \in Seq(Vertex) /\ dfs_idx[st[k]] \in Nat
        /\ dfs_idx[st[k]] > 0 /\ dfs_idx[st[k]] <= Len(adj[st[k]])
        /\ adj[st[k]][dfs_idx[st[k]]] = st[k + 1]
    BY <2>1, <2>2 DEF IInv, TypeOK, StackIsPath, Followed
  <2> QED
    BY <2>3 DEF Edge, HasEdge
<1> QED
  BY <1>3, <1>4

LEMMA CycleFoundIInv ==
    ASSUME IInv, CycleFound
    PROVE  IInv'
<1>0. /\ FollowEdge /\ pc' = "done" /\ ret' = -1
      /\ UNCHANGED <<data, adj, color, st, topost, root>>
  BY DEF CycleFound
<1>1. /\ Vertex' = Vertex /\ TypeOK' /\ DataDistinct' /\ Untouched'
      /\ Followed' /\ StackIsPath' /\ FinishedInOrder'
  BY <1>0, FollowOnly
<1>2. PendingEdges' /\ ScanProgress'
  BY <1>0, <1>1 DEF IInv, PendingEdges, ScanProgress
<1>3. CycleIsReal'
  <2>1. PICK d \in 1..Len(st) : /\ \A k \in d..(Len(st) - 1) : Edge(st[k], st[k + 1])
                                /\ Edge(Top, st[d])
    BY CycleWitness
  <2>2. /\ \A k \in d..(Len(st) - 1) : Edge(st[k], st[k + 1])'
        /\ Edge(Top, st[d])'
    BY <1>0, <2>1 DEF Edge, Top
  <2>3. Len(st') = Len(st)
    BY <1>0
  <2> QED
    BY <2>1, <2>2, <2>3 DEF CycleIsReal
<1> QED
  BY <1>1, <1>2, <1>3 DEF IInv

-----------------------------------------------------------------------------
(* The theorems.                                                           *)

LEMMA NextIInv == IInv /\ [Next]_vars => IInv'
<1> SUFFICES ASSUME IInv, [Next]_vars PROVE IInv'
  OBVIOUS
<1>1. CASE Build
  BY <1>1, AddVertexIInv, AddEdgeIInv DEF Build
<1>2. CASE StartToposort
  BY <1>2, StartToposortIInv
<1>3. CASE Sort
  BY <1>3, ScanIInv, RetireIInv, VisitIInv, SkipFinishedIInv, CycleFoundIInv DEF Sort
<1>4. CASE UNCHANGED vars
  BY <1>4 DEF vars, IInv, TypeOK, DataDistinct, Untouched, Followed, StackIsPath,
     FinishedInOrder, PendingEdges, ScanProgress, CycleIsReal, Vertex, Edge, Top
<1> QED
  BY <1>1, <1>2, <1>3, <1>4 DEF Next

\* For every graph, the invariant that ties the stack, the colours and the
\* finished vertices together holds in every state of the sort.
THEOREM InductiveInvariant == Spec => []IInv
BY InitIInv, NextIInv, PTL DEF Spec

\* The positions, indices and colours graph.c handles stay in their ranges.
THEOREM TypeCorrect == Spec => []TypeOK
<1>1. IInv => TypeOK
  BY DEF IInv
<1> QED
  BY <1>1, InductiveInvariant, PTL

\* graph_toposort answers -1 only for a graph with a cycle.
THEOREM CycleReported == Spec => []CycleIsReal
<1>1. IInv => CycleIsReal
  BY DEF IInv
<1> QED
  BY <1>1, InductiveInvariant, PTL

\* When graph_toposort answers 0, whatever the graph, every package is on
\* topost once and above all the packages its edges lead to.
THEOREM OrderCorrect == Spec => []TopoOrderValid
<1>1. IInv => TopoOrderValid
  <2> SUFFICES ASSUME IInv, pc = "done", ret = 0 PROVE TopoOrderValid
    BY DEF TopoOrderValid
  <2>1. root = Len(data) + 1 /\ st = <<>> /\ Len(data) \in Nat
    BY DEF IInv, ScanProgress, TypeOK
  <2>2. \A v \in Vertex : color[v] = "BLACK"
    <3> SUFFICES ASSUME NEW v \in Vertex PROVE color[v] = "BLACK"
      OBVIOUS
    <3>1. color[v] # "WHITE"
      BY <2>1 DEF IInv, ScanProgress, Vertex
    <3>2. color[v] # "GRAY"
      BY <2>1 DEF IInv, StackIsPath
    <3> QED
      BY <3>1, <3>2 DEF IInv, TypeOK, Color
  <2>3. \A v \in Vertex : \E k \in 1..Len(topost) : topost[k] = v
    BY <2>2 DEF IInv, FinishedInOrder
  <2>4. \A j, k \in 1..Len(topost) : topost[j] = topost[k] => j = k
    BY DEF IInv, FinishedInOrder
  <2>5. ASSUME NEW j \in 1..Len(topost), NEW k \in 1..Len(topost), Edge(topost[k], topost[j])
        PROVE  j < k
    <3>1. PICK e \in 1..Len(adj[topost[k]]) : adj[topost[k]][e] = topost[j]
      BY <2>5 DEF Edge, HasEdge
    <3>2. PICK x \in 1..(k - 1) : topost[x] = topost[j]
      BY <3>1 DEF IInv, FinishedInOrder
    <3>3. Len(topost) \in Nat
      BY DEF IInv, TypeOK
    <3>4. x \in 1..Len(topost) /\ x < k
      BY <3>2, <3>3
    <3> QED
      BY <2>4, <3>2, <3>4
  <2> QED
    BY <2>3, <2>4, <2>5 DEF TopoOrderValid
<1> QED
  BY <1>1, InductiveInvariant, PTL

-----------------------------------------------------------------------------
(* The sort implements TopoOrder.                                          *)

LEMMA BarsUnchanged ==
    ASSUME UNCHANGED <<data, adj, topost>>, verdictBar' = verdictBar
    PROVE  UNCHANGED Abstract!vars
<1>1. nodesBar' = nodesBar /\ outBar' = outBar
  BY DEF nodesBar, outBar, Vertex
<1>2. edgesBar' = edgesBar
  BY DEF edgesBar
<1> QED
  BY <1>1, <1>2 DEF Abstract!vars

LEMMA AbstractInit == Init => Abstract!Init
<1> SUFFICES ASSUME Init PROVE Abstract!Init
  OBVIOUS
<1>1. Vertex = {} /\ topost = <<>> /\ pc = "build"
  BY DEF Init, Vertex
<1>2. nodesBar = {} /\ edgesBar = {} /\ verdictBar = "none"
  BY <1>1 DEF nodesBar, edgesBar, verdictBar, NamePairs, HasVertex, Vertex
<1>3. outBar = <<>>
  BY <1>1 DEF outBar
<1> QED
  BY <1>2, <1>3 DEF Abstract!Init

\* Before the sort nothing is emitted.
LEMMA NothingEmitted ==
    ASSUME IInv, pc = "build", pc' = "build", topost' = topost
    PROVE  outBar = <<>> /\ verdictBar = "none" /\ UNCHANGED <<outBar, verdictBar>>
<1>1. topost = <<>> /\ topost' = <<>>
  BY DEF IInv, Untouched
<1> QED
  BY <1>1 DEF outBar, verdictBar

\* The names in the graph after graph_add_vertex.
LEMMA NamesLemma ==
    ASSUME NEW d \in Seq(Names), NEW name \in Names
    PROVE  LET r == graph_add_vertex(d, name) IN
           /\ \A x : HasVertex(r, x) <=> HasVertex(d, x) \/ x = name
           /\ \A v \in 1..Len(d) : r[v] = d[v]
           /\ r \in Seq(Names) /\ Len(r) >= Len(d)
<1>1. CASE HasVertex(d, name)
  BY <1>1 DEF graph_add_vertex, HasVertex
<1>2. CASE ~HasVertex(d, name)
  <2> DEFINE r == Append(d, name)
  <2>1. graph_add_vertex(d, name) = r
    BY <1>2 DEF graph_add_vertex
  <2>2. /\ r \in Seq(Names) /\ Len(r) = Len(d) + 1 /\ Len(d) \in Nat
        /\ r[Len(d) + 1] = name
        /\ \A v \in 1..Len(d) : r[v] = d[v]
    OBVIOUS
  <2> HIDE DEF r
  <2>3. \A v \in 1..Len(r) : v = Len(d) + 1 \/ v \in 1..Len(d)
    BY <2>2
  <2>4. Len(d) + 1 \in 1..Len(r) /\ \A v \in 1..Len(d) : v \in 1..Len(r)
    BY <2>2
  <2>5. \A x : HasVertex(r, x) <=> HasVertex(d, x) \/ x = name
    BY <2>2, <2>3, <2>4 DEF HasVertex
  <2> QED
    BY <2>1, <2>2, <2>5
<1> QED
  BY <1>1, <1>2

\* New vertices have no edges, the others keep theirs.
LEMMA GrownEdges ==
    ASSUME NEW d \in Seq(Names), NEW e \in Seq(Names), Len(e) >= Len(d),
           \A v \in 1..Len(d) : e[v] = d[v],
           NEW a \in [1..Len(d) -> Seq(1..Len(d))]
    PROVE  /\ \A v \in 1..Len(e) : \A w :
                 HasEdge(Grown(a, e, <<>>)[v], w) <=> v \in 1..Len(d) /\ HasEdge(a[v], w)
           /\ NamePairs(e, Grown(a, e, <<>>)) = NamePairs(d, a)
<1> DEFINE g == Grown(a, e, <<>>)
<1>1. \A v \in 1..Len(e) : g[v] = IF v \in 1..Len(d) THEN a[v] ELSE <<>>
  BY DEF Grown
<1>2. \A w : ~HasEdge(<<>>, w)
  BY DEF HasEdge
<1> HIDE DEF g
<1>3. \A v \in 1..Len(e) : \A w : HasEdge(g[v], w) <=> v \in 1..Len(d) /\ HasEdge(a[v], w)
  BY <1>1, <1>2
<1>4. \A v \in 1..Len(d) : v \in 1..Len(e)
  OBVIOUS
<1>5. \A v \in 1..Len(d) : \A w : HasEdge(a[v], w) => w \in 1..Len(d)
  BY DEF HasEdge
<1>6. NamePairs(e, g) = NamePairs(d, a)
  BY <1>3, <1>4, <1>5 DEF NamePairs
<1> QED
  BY <1>3, <1>6 DEF g

LEMMA AddVertexAbstract ==
    ASSUME IInv, NEW name \in Names, AddVertex(name)
    PROVE  Abstract!AddNode(name)
<1>1. outBar = <<>> /\ verdictBar = "none" /\ UNCHANGED <<outBar, verdictBar>>
  BY NothingEmitted DEF AddVertex
<1>2. /\ data \in Seq(Names) /\ adj \in [1..Len(data) -> Seq(1..Len(data))]
      /\ data' = graph_add_vertex(data, name) /\ adj' = Grown(adj, data', <<>>)
  BY DEF IInv, TypeOK, AddVertex, Vertex
<1>3. nodesBar' = nodesBar \cup {name}
  BY <1>2, NamesLemma DEF nodesBar
<1>4. edgesBar' = edgesBar
  <2>1. /\ data' \in Seq(Names) /\ Len(data') >= Len(data)
        /\ \A v \in 1..Len(data) : data'[v] = data[v]
    BY <1>2, NamesLemma
  <2>2. NamePairs(data', Grown(adj, data', <<>>)) = NamePairs(data, adj)
    BY <1>2, <2>1, GrownEdges
  <2> QED
    BY <1>2, <2>2 DEF edgesBar
<1> QED
  BY <1>1, <1>3, <1>4 DEF Abstract!AddNode

LEMMA AddEdgeAbstract ==
    ASSUME IInv, NEW from \in Names, NEW to \in Names, AddEdge(from, to)
    PROVE  Abstract!AddEdge(from, to)
<1> DEFINE mid == graph_add_vertex(data, from)
           f == vindex_lookup(data', from)
           t == vindex_lookup(data', to)
           g == Grown(adj, data', <<>>)
<1>1. outBar = <<>> /\ verdictBar = "none" /\ UNCHANGED <<outBar, verdictBar>>
  BY NothingEmitted DEF AddEdge
<1>2. /\ data \in Seq(Names) /\ adj \in [1..Len(data) -> Seq(1..Len(data))]
      /\ data' = graph_add_vertex(mid, to)
      /\ adj' = [g EXCEPT ![f] = vertex_add_edge(@, t)]
  BY DEF IInv, TypeOK, AddEdge, Vertex
<1>3. /\ \A x : HasVertex(mid, x) <=> HasVertex(data, x) \/ x = from
      /\ \A v \in 1..Len(data) : mid[v] = data[v]
      /\ mid \in Seq(Names) /\ Len(mid) >= Len(data)
  BY <1>2, NamesLemma
<1> HIDE DEF mid
<1>4. /\ \A x : HasVertex(data', x) <=> HasVertex(mid, x) \/ x = to
      /\ \A v \in 1..Len(mid) : data'[v] = mid[v]
      /\ data' \in Seq(Names) /\ Len(data') >= Len(mid)
  BY <1>2, <1>3, NamesLemma
<1>5. nodesBar' = nodesBar \cup {from, to}
  BY <1>3, <1>4 DEF nodesBar
<1>6. /\ f \in 1..Len(data') /\ data'[f] = from
      /\ t \in 1..Len(data') /\ data'[t] = to
  BY <1>3, <1>4, LookupLemma
<1>7. Len(data') >= Len(data) /\ \A v \in 1..Len(data) : data'[v] = data[v]
  BY <1>2, <1>3, <1>4
<1>8. NamePairs(data', g) = NamePairs(data, adj)
  BY <1>2, <1>4, <1>7, GrownEdges
<1>9. DOMAIN g = 1..Len(data') /\ g[f] \in Seq(1..Len(data'))
  <2>1. \A v \in 1..Len(data) : adj[v] \in Seq(1..Len(data'))
    BY <1>2, <1>4, <1>7, SeqMonotone, 1..Len(data) \subseteq 1..Len(data')
  <2>2. \A v \in 1..Len(data') : g[v] = IF v \in 1..Len(data) THEN adj[v] ELSE <<>>
    BY <1>2 DEF Grown
  <2>3. DOMAIN g = 1..Len(data')
    BY DEF Grown
  <2>4. <<>> \in Seq(1..Len(data'))
    OBVIOUS
  <2> HIDE DEF g, f
  <2> QED
    BY <1>6, <2>1, <2>2, <2>3, <2>4
<1>10. \A w : HasEdge(vertex_add_edge(g[f], t), w) <=> HasEdge(g[f], w) \/ w = t
  <2>1. CASE HasEdge(g[f], t)
    BY <2>1 DEF vertex_add_edge
  <2>2. CASE ~HasEdge(g[f], t)
    <3> DEFINE h == Append(g[f], t)
               n == Len(g[f])
    <3>1. n \in Nat /\ Len(h) = n + 1 /\ h[n + 1] = t /\ \A k \in 1..n : h[k] = g[f][k]
      BY <1>9
    <3>2. vertex_add_edge(g[f], t) = h
      BY <2>2 DEF vertex_add_edge
    <3> HIDE DEF h, n, g
    <3>3. \A k \in 1..Len(h) : k = n + 1 \/ k \in 1..n
      BY <3>1
    <3>4. n + 1 \in 1..Len(h) /\ \A k \in 1..n : k \in 1..Len(h)
      BY <3>1
    <3>5. \A w : HasEdge(h, w) <=> (\E k \in 1..n : g[f][k] = w) \/ w = t
      BY <3>1, <3>3, <3>4 DEF HasEdge
    <3>6. \A w : HasEdge(g[f], w) <=> \E k \in 1..n : g[f][k] = w
      BY DEF HasEdge, n
    <3> QED
      BY <3>2, <3>5, <3>6
  <2> QED
    BY <2>1, <2>2
<1>11. \A v \in 1..Len(data') : \A w :
          HasEdge(adj'[v], w) <=> HasEdge(g[v], w) \/ (v = f /\ w = t)
  <2>1. \A v \in 1..Len(data') : adj'[v] = IF v = f THEN vertex_add_edge(g[f], t) ELSE g[v]
    BY <1>2, <1>6, <1>9
  <2> HIDE DEF g, f, t
  <2> QED
    BY <1>10, <2>1
<1>12. edgesBar' = edgesBar \cup {<<from, to>>}
  <2>1. NamePairs(data', adj') = NamePairs(data', g) \cup {<<from, to>>}
    <3> HIDE DEF g, f, t
    <3>1. \A p \in Names \X Names : p \in NamePairs(data', adj') <=>
             p \in NamePairs(data', g) \/ (p[1] = from /\ p[2] = to)
      BY <1>6, <1>11 DEF NamePairs
    <3>2. NamePairs(data', adj') \subseteq Names \X Names /\ NamePairs(data', g) \subseteq Names \X Names
      BY DEF NamePairs
    <3> QED
      BY <3>1, <3>2
  <2> QED
    BY <1>8, <2>1 DEF edgesBar
<1> QED
  BY <1>1, <1>5, <1>12 DEF Abstract!AddEdge

\* The packages emitted are the names of the black vertices.
LEMMA EmittedLemma ==
    ASSUME IInv
    PROVE  /\ \A v \in Vertex : data[v] \in Abstract!Emitted <=> color[v] = "BLACK"
           /\ Abstract!Emitted \subseteq nodesBar
<1>1. Len(topost) \in Nat /\ Len(outBar) = Len(topost) /\ \A k \in 1..Len(topost) : outBar[k] = data[topost[k]]
  BY DEF IInv, TypeOK, outBar
<1>2. Abstract!Emitted = {data[topost[k]] : k \in 1..Len(topost)}
  BY <1>1 DEF Abstract!Emitted
<1>3. \A k \in 1..Len(topost) : topost[k] \in Vertex
  BY DEF IInv, TypeOK
<1>4. \A v \in Vertex : data[v] \in Names
  BY DEF IInv, TypeOK, Vertex
<1>5. \A v \in Vertex : data[v] \in Abstract!Emitted <=> \E k \in 1..Len(topost) : topost[k] = v
  BY <1>2, <1>3 DEF IInv, DataDistinct
<1>6. \A v \in Vertex : color[v] = "BLACK" <=> \E k \in 1..Len(topost) : topost[k] = v
  BY DEF IInv, FinishedInOrder
<1>7. Abstract!Emitted \subseteq nodesBar
  BY <1>2, <1>3, <1>4 DEF nodesBar, HasVertex, Vertex
<1> QED
  BY <1>5, <1>6, <1>7

\* The edge relation on positions and the one on names are the same.
LEMMA EdgeNames ==
    ASSUME IInv
    PROVE  /\ \A v, w \in Vertex : <<data[v], data[w]>> \in edgesBar <=> Edge(v, w)
           /\ \A v \in Vertex : \A b : <<data[v], b>> \in edgesBar =>
                 \E w \in Vertex : Edge(v, w) /\ b = data[w]
           /\ \A v \in Vertex : data[v] \in nodesBar
<1>1. \A v \in Vertex : data[v] \in Names
  BY DEF IInv, TypeOK, Vertex
<1>2. \A v, w \in Vertex : data[v] = data[w] => v = w
  BY DEF IInv, DataDistinct
<1>3. \A a, b : <<a, b>> \in edgesBar <=> a \in Names /\ b \in Names /\
         \E v, w \in Vertex : Edge(v, w) /\ a = data[v] /\ b = data[w]
  BY DEF edgesBar, NamePairs, Edge, Vertex
<1>4. \A v \in Vertex : data[v] \in nodesBar
  BY <1>1 DEF nodesBar, HasVertex, Vertex
<1> QED
  BY <1>1, <1>2, <1>3, <1>4

LEMMA FinishAbstract ==
    ASSUME IInv, Finish
    PROVE  Abstract!Accept
<1>1. /\ ret = 0 /\ pc = "scan" /\ pc' = "done" /\ ret' = 0 /\ st = <<>>
      /\ root > Len(data) /\ root \in 1..(Len(data) + 1) /\ Len(data) \in Nat
      /\ UNCHANGED <<data, adj, topost>>
  BY DEF IInv, ScanProgress, Untouched, TypeOK, Finish
<1>2. \A v \in Vertex : color[v] = "BLACK"
  <2>1. \A v \in Vertex : color[v] # "WHITE" /\ color[v] # "GRAY" /\ color[v] \in Color
    BY <1>1 DEF IInv, ScanProgress, StackIsPath, TypeOK, Vertex
  <2> QED
    BY <2>1 DEF Color
<1>3. Abstract!Emitted = nodesBar
  <2>1. \A x \in nodesBar : \E v \in Vertex : data[v] = x
    BY DEF nodesBar, HasVertex, Vertex
  <2> QED
    BY <1>2, <2>1, EmittedLemma
<1>4. UNCHANGED <<nodesBar, edgesBar, outBar>>
  BY <1>1 DEF nodesBar, edgesBar, outBar
<1>5. verdictBar = "none" /\ verdictBar' = "ordered"
  BY <1>1 DEF verdictBar
<1> QED
  BY <1>3, <1>4, <1>5 DEF Abstract!Accept

LEMMA RetireAbstract ==
    ASSUME IInv, Retire
    PROVE  \E n \in nodesBar : Abstract!Emit(n)
<1>1. /\ Len(st) \in Nat /\ Len(st) > 0 /\ Len(st) \in 1..Len(st) /\ st[Len(st)] = Top
      /\ Top \in Vertex /\ adj[Top] \in Seq(Vertex) /\ dfs_idx[Top] \in Nat
      /\ Len(topost) \in Nat
  BY DEF IInv, TypeOK, Retire, Top
<1>2. color[Top] = "GRAY" /\ ret = 0 /\ pc = "dfs" /\ pc' = "dfs"
  BY <1>1 DEF IInv, StackIsPath, ScanProgress, Retire, TypeOK
<1>3. UNCHANGED <<data, adj>> /\ topost' = Append(topost, Top)
  <2>1. HasVertex(data, data[Top]) /\ data \in Seq(Names)
    BY <1>1 DEF HasVertex, Vertex, IInv, TypeOK
  <2>2. vindex_lookup(data, data[Top]) \in Vertex /\ data[vindex_lookup(data, data[Top])] = data[Top]
    BY <2>1, LookupLemma DEF Vertex
  <2> QED
    BY <1>1, <2>2 DEF Retire, IInv, DataDistinct
<1>4. data[Top] \notin Abstract!Emitted /\ data[Top] \in nodesBar
  BY <1>1, <1>2, EmittedLemma, EdgeNames
<1>5. \A w \in Vertex : Edge(Top, w) => color[w] = "BLACK"
  <2> SUFFICES ASSUME NEW e \in 1..Len(adj[Top]) PROVE color[adj[Top][e]] = "BLACK"
    BY DEF Edge, HasEdge
  <2>1. dfs_idx[Top] = Len(adj[Top])
    BY <1>1 DEF Retire, Exhausted, IInv, Followed
  <2> QED
    BY <1>1, <1>2, <2>1 DEF IInv, PendingEdges
<1>6. \A m \in nodesBar : <<data[Top], m>> \in edgesBar => m \in Abstract!Emitted
  BY <1>1, <1>5, EmittedLemma, EdgeNames
<1>7. outBar' = Append(outBar, data[Top])
  <2>1. Len(topost') = Len(topost) + 1 /\ topost'[Len(topost) + 1] = Top
        /\ \A k \in 1..Len(topost) : topost'[k] = topost[k]
    BY <1>1, <1>3 DEF IInv, TypeOK
  <2>2. outBar' = [k \in 1..(Len(topost) + 1) |-> data[topost'[k]]]
    BY <1>3, <2>1 DEF outBar
  <2>3. /\ outBar = [k \in 1..Len(topost) |-> data[topost[k]]]
        /\ Len(outBar) = Len(topost)
    BY <1>1 DEF outBar
  <2>4. Append(outBar, data[Top]) = [k \in 1..(Len(topost) + 1) |->
           IF k = Len(topost) + 1 THEN data[Top] ELSE outBar[k]]
    BY <1>1, <2>3
  <2> QED
    BY <1>1, <2>1, <2>2, <2>3, <2>4
<1>8. nodesBar' = nodesBar /\ edgesBar' = edgesBar
  BY <1>3 DEF nodesBar, edgesBar
<1>9. verdictBar = "none" /\ verdictBar' = "none"
  BY <1>2 DEF verdictBar
<1> QED
  BY <1>4, <1>6, <1>7, <1>8, <1>9 DEF Abstract!Emit

LEMMA CycleFoundAbstract ==
    ASSUME IInv, CycleFound
    PROVE  Abstract!Reject
<1>1. /\ FollowEdge /\ pc = "dfs" /\ pc' = "done" /\ ret' = -1
      /\ UNCHANGED <<data, adj, color, st, topost>>
  BY DEF CycleFound, FollowEdge
<1>2. PICK d \in 1..Len(st) : /\ \A k \in d..(Len(st) - 1) : Edge(st[k], st[k + 1])
                              /\ Edge(Top, st[d])
  BY CycleWitness
<1> DEFINE n == Len(st)
           S == {data[st[k]] : k \in d..n}
<1>3. n \in Nat /\ n \in d..n /\ st[n] = Top /\ d \in 1..n
  BY <1>1, FollowEdgeFacts
<1>4. \A k \in d..n : k \in 1..n /\ st[k] \in Vertex
  BY <1>3 DEF IInv, TypeOK
<1>5. \A k \in d..n : color[st[k]] = "GRAY"
  BY <1>4 DEF IInv, StackIsPath
<1>6. S \subseteq nodesBar \ Abstract!Emitted
  <2>1. \A k \in d..n : data[st[k]] \in nodesBar /\ data[st[k]] \notin Abstract!Emitted
    BY <1>4, <1>5, EmittedLemma, EdgeNames
  <2> QED
    BY <2>1
<1>7. S # {}
  BY <1>3
<1>8. \A a \in S : \E b \in S : <<a, b>> \in edgesBar
  <2> SUFFICES ASSUME NEW k \in d..n
               PROVE  \E j \in d..n : <<data[st[k]], data[st[j]]>> \in edgesBar
    OBVIOUS
  <2>1. CASE k = n
    <3>1. d \in d..n
      BY <1>3
    <3> QED
      BY <1>2, <1>3, <1>4, <2>1, <3>1, EdgeNames
  <2>2. CASE k # n
    <3>1. k \in d..(n - 1) /\ k + 1 \in d..n
      BY <1>3, <2>2
    <3>2. Edge(st[k], st[k + 1])
      BY <1>2, <3>1
    <3> QED
      BY <1>4, <3>1, <3>2, EdgeNames
  <2> QED
    BY <2>1, <2>2
<1>9. S \in SUBSET (nodesBar \ Abstract!Emitted) /\ Abstract!NoSink(S)
  BY <1>6, <1>8 DEF Abstract!NoSink
<1>10. UNCHANGED <<nodesBar, edgesBar, outBar>>
  BY <1>1 DEF nodesBar, edgesBar, outBar
<1>11. verdictBar = "none" /\ verdictBar' = "cyclic"
  BY <1>1 DEF verdictBar
<1> HIDE DEF S
<1> QED
  BY <1>7, <1>9, <1>10, <1>11 DEF Abstract!Reject

LEMMA NextAbstract == IInv /\ [Next]_vars => [Abstract!Next]_(Abstract!vars)
<1> SUFFICES ASSUME IInv, [Next]_vars PROVE [Abstract!Next]_(Abstract!vars)
  OBVIOUS
<1>1. CASE Build
  BY <1>1, AddVertexAbstract, AddEdgeAbstract DEF Build, Abstract!Next
<1>2. CASE Retire
  BY <1>2, RetireAbstract DEF Abstract!Next
<1>3. CASE Finish
  BY <1>3, FinishAbstract DEF Abstract!Next
<1>4. CASE CycleFound
  BY <1>4, CycleFoundAbstract DEF Abstract!Next
<1>5. CASE StartToposort \/ StartDfs \/ SkipVisited \/ Visit \/ SkipFinished \/ DfsReturn
  <2>1. UNCHANGED <<data, adj, topost>>
    BY <1>5 DEF StartToposort, StartDfs, SkipVisited, Visit, SkipFinished, DfsReturn
  <2>2. verdictBar' = verdictBar
    BY <1>5 DEF StartToposort, StartDfs, SkipVisited, Visit, SkipFinished, DfsReturn,
       FollowEdge, verdictBar
  <2> QED
    BY <2>1, <2>2, BarsUnchanged
<1>6. CASE UNCHANGED vars
  BY <1>6, BarsUnchanged DEF vars, verdictBar
<1> QED
  BY <1>1, <1>2, <1>3, <1>4, <1>5, <1>6 DEF Next, Sort

\* For every set of names and every graph on them, graph_toposort is a correct
\* topological sort: every step is one TopoOrder allows, or changes nothing of
\* what TopoOrder speaks of.
THEOREM Implements == Spec => ImplementsTopoOrder
BY AbstractInit, NextAbstract, InductiveInvariant, PTL
   DEF Spec, ImplementsTopoOrder, Abstract!Spec
=============================================================================
