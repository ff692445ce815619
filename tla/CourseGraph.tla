---------------------------- MODULE CourseGraph ----------------------------
(***************************************************************************)
(* The course graph builder (src/src/infrastructure/graph_builder.py): a   *)
(* list of prerequisite edges goes through Tarjan's component search, the  *)
(* resolution of cycles and the transitive reduction, and what is left is  *)
(* written to the graph store.  Everything here is a pure operator; the    *)
(* module CoursePlanning holds the state it is applied to.                 *)
(*                                                                         *)
(* An edge is [src, tgt, kind, weight], weight in tenths; an edge list is  *)
(* a sequence, because ties and the order of removals follow list order.   *)
(***************************************************************************)
EXTENDS Integers, Sequences, FiniteSets, SequencesExt, TLC

CONSTANTS
    AllowedTypes    \* the dependency types the builder keeps for its searches

Pair(e) == <<e.src, e.tgt>>
Ends(edges) == UNION {{edges[i].src, edges[i].tgt} : i \in DOMAIN edges}

Neighbours(edges, u) ==
    LET out == SelectSeq(edges, LAMBDA e : e.src = u)
    IN  [i \in DOMAIN out |-> out[i].tgt]

Targets(edges, us) == {edges[i].tgt : i \in {i \in DOMAIN edges : edges[i].src \in us}}

\* the entries of s at the positions in keep, in their order
Sift(s, keep) == FlattenSeq([i \in DOMAIN s |-> IF i \in keep THEN <<s[i]>> ELSE <<>>])

BuildAdjacency(edges) == Sift(edges, {i \in DOMAIN edges : edges[i].kind \in AllowedTypes})

-----------------------------------------------------------------------------
(* Tarjan's search.  A search state holds the index and lowlink of every   *)
(* node (Unvisited until it is opened), the stack, and the closed components. *)

Unvisited == -1

SearchStates(nodes) ==
    [count : Nat, index : [nodes -> Int], low : [nodes -> Int], stack : Seq(nodes), sccs : Seq(SUBSET nodes)]

SearchStart(nodes) ==
    [count |-> 0, index |-> [v \in nodes |-> Unvisited], low |-> [v \in nodes |-> Unvisited],
     stack |-> <<>>, sccs |-> <<>>]

Min2(a, b) == IF a < b THEN a ELSE b

CloseComponent(v, st) ==
    IF st.low[v] # st.index[v] THEN st
    ELSE LET at == CHOOSE i \in DOMAIN st.stack : st.stack[i] = v
         IN  [st EXCEPT !.stack = SubSeq(@, 1, at - 1),
                        !.sccs = Append(@, ToSet(SubSeq(st.stack, at, Len(st.stack))))]

StrongConnect(edges) ==
    LET connect[v \in Ends(edges), st \in SearchStates(Ends(edges))] ==
            LET Follow(acc, w) ==
                    IF acc.index[w] = Unvisited
                    THEN LET deeper == connect[w, acc]
                         IN  [deeper EXCEPT !.low[v] = Min2(@, deeper.low[w])]
                    ELSE IF w \in ToSet(acc.stack)
                    THEN [acc EXCEPT !.low[v] = Min2(@, acc.index[w])]
                    ELSE acc
                opened == [st EXCEPT !.count = @ + 1, !.stack = Append(@, v),
                                     !.index[v] = st.count, !.low[v] = st.count]
            IN  CloseComponent(v, FoldLeft(Follow, opened, Neighbours(edges, v)))
    IN  connect

FindSCCs(edges) ==
    LET Visit(acc, v) == IF acc.index[v] = Unvisited THEN StrongConnect(edges)[v, acc] ELSE acc
    IN  FoldLeft(Visit, SearchStart(Ends(edges)), SetToSortSeq(Ends(edges), <)).sccs

HasCycle(edges) ==
    \E scc \in ToSet(FindSCCs(edges)) :
        Cardinality(scc) > 1 \/ \E v \in scc : v \in Targets(edges, {v})

-----------------------------------------------------------------------------
(* Transitive reduction: the edges are tried one by one, grouped by their  *)
(* source in order of first appearance, against what is still there.       *)

\* what a breadth first search from the nodes of from visits, that never enters avoid
Spread(edges, avoid, from) ==
    LET upto[k \in 0 .. Cardinality(Ends(edges))] ==
            IF k = 0 THEN from
            ELSE upto[k - 1] \union (Targets(edges, upto[k - 1]) \ avoid)
    IN  upto[Cardinality(Ends(edges))]

\* Mutant: the direct edge counts as an alternative to itself.
HasAnyPath(edges, e) ==
    e.tgt \in Spread(edges, {e.src}, Targets(edges, {e.src}) \ {e.src})

HasAlternativePath(edges, e) ==
    e.tgt \in Spread(edges, {e.src}, Targets(edges, {e.src}) \ {e.src, e.tgt})

Sources(edges) ==
    LET firsts == Sift(edges, {i \in DOMAIN edges : \A j \in 1 .. i - 1 : edges[j].src # edges[i].src})
    IN  [k \in DOMAIN firsts |-> firsts[k].src]

BySource(edges) ==
    LET srcs == Sources(edges)
    IN  FlattenSeq([k \in DOMAIN srcs |-> Sift(edges, {i \in DOMAIN edges : edges[i].src = srcs[k]})])

DropPairs(edges, pairs) == Sift(edges, {i \in DOMAIN edges : Pair(edges[i]) \notin pairs})

ReduceEdges(edges) ==
    LET order == BySource(edges)
        removed[k \in 0 .. Len(order)] ==
            IF k = 0 THEN {}
            ELSE IF HasAlternativePath(DropPairs(edges, removed[k - 1]), order[k])
            THEN removed[k - 1] \union {Pair(order[k])}
            ELSE removed[k - 1]
    IN  removed[Len(order)]

-----------------------------------------------------------------------------
(* Cycle resolution and the whole pipeline. *)

Within(edges, nodes) == SelectSeq(edges, LAMBDA e : e.src \in nodes /\ e.tgt \in nodes)

\* the first of the lightest edges, as a stable sort by weight puts it first
Weakest(edges) ==
    LET i == CHOOSE i \in DOMAIN edges :
                 /\ \A j \in DOMAIN edges : edges[i].weight =< edges[j].weight
                 /\ \A j \in 1 .. i - 1 : edges[j].weight # edges[i].weight
    IN  edges[i]

\* of all edges, whatever their type: the lightest one may be of a type the search ignored
CycleEdges(edges, strategy, sccs) ==
    CASE strategy = "remove_all_cycle_edges" ->
             {Pair(e) : e \in ToSet(Within(edges, UNION sccs))}
      [] strategy = "remove_weakest_edge" ->
             {Pair(Weakest(Within(edges, scc))) : scc \in sccs}
      [] OTHER -> {}

BuildGraph(edges, strategy) ==
    LET sccs == FindSCCs(BuildAdjacency(edges))
        cyclic == {scc \in ToSet(sccs) : Cardinality(scc) > 1}
        broken == CycleEdges(edges, strategy, cyclic)
        clean == DropPairs(edges, broken)
        redundant == ReduceEdges(BuildAdjacency(clean))
        final == DropPairs(clean, redundant)
    IN  [raised |-> strategy = "raise_error" /\ cyclic # {},
         sccs |-> ToSet(sccs), broken |-> broken, clean |-> clean, final |-> final,
         isDag |-> ~HasCycle(BuildAdjacency(final))]

\* the validation of a loaded graph only looks at components of more than one node
ValidateDag(edges) == \A scc \in ToSet(FindSCCs(BuildAdjacency(edges))) : Cardinality(scc) =< 1
=============================================================================
