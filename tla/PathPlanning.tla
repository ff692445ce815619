---------------------------- MODULE PathPlanning ----------------------------
(***************************************************************************)
(* The two planners of a learning path over a course graph:                *)
(*   - PathPlanner (src/src/infrastructure/path_planner.py): Kahn's order, *)
(*     relaxation along it under one of four weightings, truncation;       *)
(*   - PlannerNode and its DAGDijkstraSolver (src/src/agents/planner_node  *)
(*     .py): the same relaxation with costs that depend on mastery.        *)
(*                                                                         *)
(* A graph is [nodes, edges], both sequences; the ends of the edges are    *)
(* among the nodes, as the store's queries guarantee.  Nodes are positive  *)
(* numbers and 0 stands for no node.  Weights and hours are in tenths,     *)
(* masteries and difficulties in hundredths, costs in thousandths.         *)
(***************************************************************************)
EXTENDS CourseGraph

CONSTANTS
    Difficulty,     \* [node -> hundredths]
    Hours,          \* [node -> tenths of an hour]
    Mastered,       \* the advance threshold, in hundredths
    Infinity        \* the distance of a node not reached, no number: the code's float inf

ASSUME InfinityAssumption == Infinity \notin Int

\* the schema of a node: a difficulty from 0 to 1, and some hours
ASSUME NodesAssumption ==
    /\ Difficulty \in [DOMAIN Difficulty -> 0 .. 100]
    /\ Hours \in [DOMAIN Difficulty -> Nat]

NodeSet(graph) == ToSet(graph.nodes)
InDegree(graph, v) == Cardinality({i \in DOMAIN graph.edges : graph.edges[i].tgt = v})

-----------------------------------------------------------------------------
(* Kahn's order.  Failed when some nodes never lose all their incoming     *)
(* edges: the code raises ValueError.  A step takes the node at the head   *)
(* of the queue and releases its targets; a target that has lost its last  *)
(* incoming edge is queued at that edge, the last one between the two.     *)

Failed == <<0>>

KahnStart(graph) ==
    LET fresh == {i \in DOMAIN graph.nodes : \A j \in 1 .. i - 1 : graph.nodes[j] # graph.nodes[i]}
    IN  [degree |-> [v \in NodeSet(graph) |-> InDegree(graph, v)],
         queue |-> Sift(graph.nodes, {i \in fresh : InDegree(graph, graph.nodes[i]) = 0}),
         topo |-> <<>>]

Between(edges, u, v) == {i \in DOMAIN edges : Pair(edges[i]) = <<u, v>>}

KahnStep(graph, st) ==
    LET u == Head(st.queue)
        degree == [v \in NodeSet(graph) |-> st.degree[v] - Cardinality(Between(graph.edges, u, v))]
        freeing == {i \in DOMAIN graph.edges :
                       /\ graph.edges[i].src = u /\ degree[graph.edges[i].tgt] = 0
                       /\ \A j \in Between(graph.edges, u, graph.edges[i].tgt) : j =< i}
        targets == [i \in DOMAIN graph.edges |-> graph.edges[i].tgt]
    IN  IF st.queue = <<>> THEN st
        ELSE [degree |-> degree, queue |-> Tail(st.queue) \o Sift(targets, freeing),
              topo |-> Append(st.topo, u)]

\* one step per node empties the queue
Kahn(graph) ==
    LET run[k \in 0 .. Cardinality(NodeSet(graph))] ==
            IF k = 0 THEN KahnStart(graph) ELSE KahnStep(graph, run[k - 1])
    IN  run[Cardinality(NodeSet(graph))].topo

ComputeTopologicalOrder(graph) ==
    IF Len(Kahn(graph)) # Cardinality(NodeSet(graph)) THEN Failed ELSE Kahn(graph)

Rank(topo, v) == IF v \in ToSet(topo) THEN CHOOSE i \in DOMAIN topo : topo[i] = v ELSE 0

-----------------------------------------------------------------------------
(* Relaxation along the order, shared by both planners: cost[i] is the     *)
(* weight of the i-th edge, and only nodes up to rank last are relaxed.    *)

\* Mutant: a node reached once keeps its first distance.
ReachesFirst(dist, e, cost) == dist[e.tgt] = Infinity

Improves(dist, e, cost) == dist[e.tgt] = Infinity \/ dist[e.tgt] > dist[e.src] + cost

RelaxEdge(tree, e, cost) ==
    IF tree.dist[e.src] = Infinity \/ ~Improves(tree.dist, e, cost) THEN tree
    ELSE [dist |-> [tree.dist EXCEPT ![e.tgt] = tree.dist[e.src] + cost],
          pred |-> [tree.pred EXCEPT ![e.tgt] = e.src]]

\* the edges in the order they are relaxed in: node by node, and as they are listed
Schedule(graph, topo, source, last) ==
    LET first == Rank(topo, source)
        numbers == [i \in DOMAIN graph.edges |-> i]
        Leaving(u) == {i \in DOMAIN graph.edges :
                          graph.edges[i].src = u /\ Rank(topo, graph.edges[i].tgt) =< last}
    IN  FlattenSeq([k \in 1 .. last - first + 1 |-> Sift(numbers, Leaving(topo[first + k - 1]))])

Root(graph, source) ==
    [dist |-> [v \in NodeSet(graph) |-> IF v = source THEN 0 ELSE Infinity],
     pred |-> [v \in NodeSet(graph) |-> 0]]

Relax(graph, topo, source, last, cost) ==
    LET order == Schedule(graph, topo, source, last)
        tree[k \in 0 .. Len(order)] ==
            IF k = 0 THEN Root(graph, source)
            ELSE RelaxEdge(tree[k - 1], graph.edges[order[k]], cost[order[k]])
    IN  tree[Len(order)]

\* back along the predecessors: no path has more nodes than there are
ReconstructPath(pred, v) ==
    LET trace[k \in 0 .. Cardinality(DOMAIN pred)] ==
            IF k = 0 THEN <<v>>
            ELSE IF pred[Head(trace[k - 1])] = 0 THEN trace[k - 1]
            ELSE <<pred[Head(trace[k - 1])]>> \o trace[k - 1]
    IN  trace[Cardinality(DOMAIN pred)]

Abs(x) == IF x < 0 THEN -x ELSE x
AtLeast(low, x) == IF x < low THEN low ELSE x
HoursOf(path) == FoldLeft(LAMBDA sum, v : sum + Hours[v], 0, path)
Shorten(path, limit) == SubSeq(path, 1, IF Len(path) > limit THEN limit ELSE Len(path))

\* nodes are dropped from the end until the time fits, but the first one stays
FitBudget(path, hours) ==
    LET fits == {k \in DOMAIN path : k = 1 \/ HoursOf(SubSeq(path, 1, k)) =< hours}
    IN  SubSeq(path, 1, CHOOSE k \in fits : \A n \in fits : n =< k)

-----------------------------------------------------------------------------
(* PathPlanner.compute_path. *)

Strategies == {"TOPO_MIN_WEIGHT", "TOPO_MIN_HOPS", "TOPO_BALANCED", "COLD_START_HEURISTIC"}

EdgeWeight(strategy, e) ==
    LET d == Difficulty[e.tgt]
    IN  CASE strategy = "TOPO_MIN_WEIGHT" -> 100 * e.weight + d * Hours[e.tgt]
          [] strategy = "TOPO_MIN_HOPS" -> 1000
          [] strategy = "TOPO_BALANCED" -> (100 + 3 * Abs(Difficulty[e.src] - d)) * e.weight
          [] strategy = "COLD_START_HEURISTIC" ->
                 AtLeast(10, (100 + IF d \in 30 .. 70 THEN -30 ELSE Abs(d - 50)) * e.weight)

EffectiveStrategy(strategy, epoch) == IF epoch < 5 THEN "COLD_START_HEURISTIC" ELSE strategy

Pruned(mastery) == {v \in DOMAIN mastery : mastery[v] >= Mastered}

NoPath == [path |-> <<>>, found |-> FALSE, source |-> 0, target |-> 0, cut |-> FALSE]

\* a context is [current, target, mastery, strategy, epoch, maxLength, hours]; 0 is no node
AutoSource(topo, ctx) ==
    LET open == {i \in DOMAIN topo : topo[i] \notin Pruned(ctx.mastery)}
    IN  IF open = {} THEN 0 ELSE topo[CHOOSE i \in open : \A j \in open : i =< j]

Distinct(s) == FoldLeft(LAMBDA seen, x : IF x \in ToSet(seen) THEN seen ELSE Append(seen, x), <<>>, s)

FarthestOpen(order, dist, mastery) ==
    LET open == SelectSeq(order, LAMBDA v : dist[v] # Infinity /\ v \notin Pruned(mastery))
        Farther(best, v) == IF best = 0 \/ dist[v] > dist[best] THEN v ELSE best
    IN  FoldLeft(Farther, 0, open)

ComputePath(graph, topo, ctx) ==
    LET source == IF ctx.current \in NodeSet(graph) THEN ctx.current ELSE AutoSource(topo, ctx)
        strategy == EffectiveStrategy(ctx.strategy, ctx.epoch)
        tree == Relax(graph, topo, source, Len(topo),
                      [i \in DOMAIN graph.edges |-> EdgeWeight(strategy, graph.edges[i])])
        target == IF ctx.target # 0 THEN ctx.target
                  ELSE FarthestOpen(Distinct(graph.nodes), tree.dist, ctx.mastery)
        whole == ReconstructPath(tree.pred, target)
        cut == FitBudget(Shorten(whole, ctx.maxLength), ctx.hours)
        just == [NoPath EXCEPT !.path = <<source>>, !.source = source, !.target = target]
    IN  IF topo = Failed \/ source = 0 THEN NoPath
        ELSE IF target = 0 THEN [just EXCEPT !.found = TRUE, !.target = source]
        ELSE IF target \notin NodeSet(graph) \/ tree.dist[target] = Infinity THEN just
        ELSE [just EXCEPT !.path = cut, !.cut = (cut # whole), !.found =
                 \A i \in 1 .. Len(cut) - 1 : cut[i + 1] \in Targets(graph.edges, {cut[i]})]

-----------------------------------------------------------------------------
(* PlannerNode.plan over DAGDijkstraSolver.solve. *)

\* Mutant: the two adjustments are swapped.
EdgeCostSwapped(e, mastery) ==
    LET m == mastery[e.src]
        factor == IF m >= 80 THEN 20 ELSE IF m =< 20 THEN 3 ELSE 10
    IN  AtLeast(1, ((100 - m) * factor * e.weight) \div 10 + 10 * Difficulty[e.tgt])

\* (1 - mastery) * weight + difficulty: forgiving above 0.8, doubled below 0.2
EdgeCost(e, mastery) ==
    LET m == mastery[e.src]
        factor == IF m >= 80 THEN 3 ELSE IF m =< 20 THEN 20 ELSE 10
    IN  AtLeast(1, ((100 - m) * factor * e.weight) \div 10 + 10 * Difficulty[e.tgt])

Solve(graph, topo, source, target, mastery) ==
    LET tree == Relax(graph, topo, source, Rank(topo, target),
                      [i \in DOMAIN graph.edges |-> EdgeCost(graph.edges[i], mastery)])
    IN  IF topo = Failed \/ Rank(topo, source) = 0 \/ Rank(topo, target) = 0
           \/ Rank(topo, source) >= Rank(topo, target) \/ tree.dist[target] = Infinity
        THEN [path |-> <<>>, cost |-> Infinity]
        ELSE [path |-> ReconstructPath(tree.pred, target), cost |-> tree.dist[target]]

MasteryMap(graph, mastery) ==
    [v \in NodeSet(graph) \union DOMAIN mastery |-> IF v \in DOMAIN mastery THEN mastery[v] ELSE 50]

\* the part of the learner's state a plan reads and writes: [path, current, target, replan]
Plan(graph, learner, profile, maxLength, hours) ==
    LET topo == ComputeTopologicalOrder(graph)
        mastery == MasteryMap(graph, profile)
        source == IF learner.current \in DOMAIN mastery THEN learner.current
                  ELSE IF learner.current = 0 THEN Head(topo) ELSE Head(graph.nodes)
        target == IF learner.target # 0 THEN learner.target ELSE Last(topo)
        solved == Solve(graph, topo, source, target, mastery)
        path == FitBudget(Shorten(solved.path, maxLength), hours)
    IN  IF graph.nodes = <<>> \/ (topo = Failed /\ (learner.current = 0 \/ learner.target = 0)) THEN learner
        ELSE IF source = target THEN [learner EXCEPT !.path = <<source>>, !.replan = FALSE]
        ELSE IF solved.path = <<>> THEN learner
        ELSE [learner EXCEPT !.path = path, !.replan = FALSE, !.current = Head(path)]
=============================================================================
