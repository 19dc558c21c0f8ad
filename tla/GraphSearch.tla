---------------------------- MODULE GraphSearch ----------------------------
(***************************************************************************)
(* The searches of example_graph.cpp (is a graph connected?) and           *)
(* example_digraph.cpp (a shortest path), for edges that a user enters one *)
(* after the other.  A graph takes <<v, w>> as an edge between v and w, a  *)
(* digraph as an edge from v to w.                                         *)
(***************************************************************************)
EXTENDS Integers, Sequences, FiniteSets
LOCAL INSTANCE SequencesExt

CONSTANTS
    numVertices,
    MaxEdges           \* bound: edges entered

Vertices == 1 .. numVertices

VARIABLE edges         \* as entered

Init == edges = << >>
Enter(e) == Len(edges) < MaxEdges /\ edges' = Append(edges, e)
Next == \E e \in Vertices \X Vertices : Enter(e)

-----------------------------------------------------------------------------
(* Graph: an edge is linked in front of the lists of both its ends. *)

EdgeList(v) == SelectSeq(Reverse(edges), LAMBDA e : v \in {e[1], e[2]})
OtherEnd(e, start) == IF e[1] # start THEN e[1] ELSE e[2]

anyLeft(unvisited) == unvisited # {}

\* What is left unvisited after the search from start: its edges are followed in
\* the order of its list, as long as anything is left.
RECURSIVE depthFirstSearch(_, _)
depthFirstSearch(start, unvisited) ==
    LET Follow(left, e) ==
            IF anyLeft(left) /\ OtherEnd(e, start) \in left
            THEN depthFirstSearch(OtherEnd(e, start), left)
            ELSE left
    IN  FoldLeft(Follow, unvisited \ {start}, EdgeList(start))

isConnected == ~anyLeft(depthFirstSearch(1, Vertices))

-----------------------------------------------------------------------------
(* Digraph *)

adjacencyList(v) ==
    LET from == SelectSeq(edges, LAMBDA e : e[1] = v)
    IN  [i \in DOMAIN from |-> from[i][2]]

\* The vertices that depthFirstSearchAux prints, in their order
RECURSIVE Printed(_, _)
Printed(start, printed) ==
    FoldLeft(LAMBDA p, v : IF v \in Range(p) THEN p ELSE Printed(v, p),
             Append(printed, start), adjacencyList(start))

\* A vertex is labelled when it is found.
Label(s, w) ==
    IF s.dist[w] >= 0 THEN s
    ELSE [s EXCEPT !.dist[w] = s.distance + 1, !.pred[w] = s.vertex, !.queue = Append(@, w)]

\* The vertices at a distance are in the queue before those at the next one.
RECURSIVE Labelled(_, _)
Labelled(s, destination) ==
    LET vertex == Head(s.queue)
        at     == IF s.dist[vertex] > s.distance THEN s.distance + 1 ELSE s.distance
        popped == [s EXCEPT !.queue = Tail(@), !.vertex = vertex, !.distance = at]
    IN  IF s.dist[destination] >= 0 \/ s.queue = << >> THEN s
        ELSE Labelled(FoldLeft(Label, popped, adjacencyList(vertex)), destination)

\* path[1 .. k], whose end is v
RECURSIVE PathTo(_, _, _)
PathTo(pred, v, k) ==
    IF k = 1 THEN <<v>>
    ELSE Append(PathTo(pred, pred[v], k - 1), v)

\* A vector of zeros where the destination is not reachable
shortestPath(start, destination) ==
    LET s == Labelled([dist |-> [v \in Vertices |-> IF v = start THEN 0 ELSE -1],
                       pred |-> [v \in Vertices |-> 0], queue |-> <<start>>,
                       vertex |-> start, distance |-> 0], destination)
    IN  IF s.dist[destination] < 0
        THEN [k \in 1 .. s.distance + 2 |-> 0]
        ELSE PathTo(s.pred, destination, s.distance + 2)

-----------------------------------------------------------------------------
\* Edges are between vertices, as many as the bound allows.
TypeOK == edges \in Seq(Vertices \X Vertices) /\ Len(edges) <= MaxEdges

\* The vertices at most n edges away, along edges that lead from v to w
RECURSIVE Within(_, _, _)
Within(E, v, n) ==
    IF n = 0 THEN {v}
    ELSE LET near == Within(E, v, n - 1) IN near \cup {e[2] : e \in {d \in E : d[1] \in near}}
Reachable(E, v) == Within(E, v, numVertices)

\* isConnected says whether each vertex is reachable from the first one;
\* depthFirstSearchAux prints what is reachable, once; and shortestPath, between
\* two vertices, returns a path along edges of which none is shorter, or zeros
\* if there is none.
SearchesRight ==
    LET E == Range(edges)
        Both == E \cup {<<e[2], e[1]>> : e \in E}
    IN  /\ isConnected <=> Reachable(Both, 1) = Vertices
        /\ \A v \in Vertices :
               /\ Range(Printed(v, << >>)) = Reachable(E, v)
               /\ IsInjective(Printed(v, << >>))
        /\ \A v \in Vertices, w \in Vertices : v # w =>
               LET path == shortestPath(v, w)
               IN  IF w \notin Reachable(E, v) THEN Range(path) = {0}
                   ELSE /\ path[1] = v /\ path[Len(path)] = w
                        /\ \A k \in 1 .. Len(path) - 1 : <<path[k], path[k + 1]>> \in E
                        /\ w \notin Within(E, v, Len(path) - 2)
=============================================================================
