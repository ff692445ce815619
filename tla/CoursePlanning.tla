--------------------------- MODULE CoursePlanning ---------------------------
(***************************************************************************)
(* The course graph and its consumers: the graph database with the manager *)
(* that seeds and reads it (src/src/graph), the graph builder that imports *)
(* into it, one PathPlanner object with its cached order, and PlannerNode  *)
(* runs over the exported graph while a learner's mastery changes.         *)
(***************************************************************************)
EXTENDS PathPlanning

CONSTANTS
    Courses,        \* the scenarios: [nodes, edges, mastery, grades, seeded, budget], where a
                    \* seeding stops after one of the numbers of writes in seeded
    Contexts        \* the contexts compute_path is asked for, mastery left out

Masteries == 0 .. 100

\* the seed data names only nodes it has, weighs edges positively and masteries from 0 to 1
ASSUME CoursesAssumption ==
    \A c \in Courses :
        /\ c.nodes \in Seq(DOMAIN Difficulty) /\ 0 \notin ToSet(c.nodes)
        /\ c.edges \in Seq(ToSet(c.edges))
        /\ \A e \in ToSet(c.edges) : /\ e.src \in ToSet(c.nodes) /\ e.tgt \in ToSet(c.nodes)
                                      /\ e.weight \in Nat
        /\ c.mastery \in [DOMAIN c.mastery -> Masteries] /\ c.grades \subseteq Masteries
        /\ c.seeded \subseteq Nat

ASSUME ContextsAssumption ==
    Contexts \subseteq [current : Nat, target : Nat, strategy : Strategies, epoch : Nat,
                        maxLength : Nat \ {0}, hours : Nat]

VARIABLES
    course,     \* the bundled seed data, which is also what an import brings
    remote,     \* the graph database: [up, copies and loose copies of each node, rels by pair]
    manager,    \* KnowledgeGraphManager: "stopped", "memory" or "neo4j"
    planner,    \* the PathPlanner object: its graph and its cached order
    report,     \* the last result of the builder
    mastery,    \* the learner's mastery of each node, in hundredths
    answer,     \* the last compute_path: its context, graph and result
    plan,       \* the last run of PlannerNode: what it read and what it left
    budget      \* the events left in this behaviour

vars == <<course, remote, manager, planner, report, mastery, answer, plan, budget>>

NoOrder == <<>>
NoPlanner == [graph |-> [nodes |-> <<>>, edges |-> <<>>], topo |-> NoOrder]
NoReport == [strategy |-> "none"]
NoAnswer == [ctx |-> [current |-> 0], graph |-> NoPlanner.graph, result |-> NoPath]
Unplanned == [learner |-> [path |-> <<>>, current |-> 0, target |-> 0, replan |-> TRUE],
              graph |-> NoPlanner.graph, mastery |-> <<>>, cost |-> Infinity]

Spend(event) == budget[event] > 0 /\ budget' = [budget EXCEPT ![event] = @ - 1]

-----------------------------------------------------------------------------
(* The graph database.  CREATE adds a copy of a node with its course, and  *)
(* the batch MERGE a missing node without one (loose).  A relationship is  *)
(* merged between every pair of copies; reads by course skip loose nodes.  *)

CreateKnowledgeNodes(db, nodes) ==
    [db EXCEPT !.copies = [v \in DOMAIN @ |-> IF v \in ToSet(nodes) THEN @[v] + 1 ELSE @[v]]]

Stored(db) == {v \in DOMAIN db.copies : db.copies[v] + db.loose[v] > 0}

MergeKnowledgeNodes(db, nodes) ==
    [db EXCEPT !.loose = [v \in DOMAIN @ |-> IF v \in ToSet(nodes) \ Stored(db) THEN 1 ELSE @[v]]]

\* of two edges between the same nodes the later one leaves its type and weight
CreateDependencyEdges(db, edges) ==
    LET matched == {i \in DOMAIN edges : {edges[i].src, edges[i].tgt} \subseteq Stored(db)}
        merged == {Pair(edges[i]) : i \in matched}
        Latest(p) == edges[CHOOSE i \in Between(edges, p[1], p[2]) :
                               \A j \in Between(edges, p[1], p[2]) : j =< i]
    IN  [db EXCEPT !.rels = [p \in DOMAIN @ \union merged |->
             IF p \in merged THEN [edge |-> Latest(p), n |-> db.copies[p[1]] * db.copies[p[2]]] ELSE @[p]]]

ExportNodes(db) == FlattenSeq([i \in DOMAIN course.nodes |->
                       [j \in 1 .. db.copies[course.nodes[i]] |-> course.nodes[i]]])

ExportEdges(db) ==
    LET Rows(u, v) == IF <<u, v>> \notin DOMAIN db.rels THEN <<>>
                          ELSE [j \in 1 .. db.rels[<<u, v>>].n |-> db.rels[<<u, v>>].edge]
        From(u) == FlattenSeq([i \in DOMAIN course.nodes |-> Rows(u, course.nodes[i])])
    IN  FlattenSeq([i \in DOMAIN course.nodes |-> From(course.nodes[i])])

Export(db) == [nodes |-> ExportNodes(db), edges |-> ExportEdges(db)]

\* seeding writes node by node, then edge by edge; an error after k writes is swallowed
SeedNeo4j(db, k) ==
    LET nodes == Shorten(course.nodes, k)
        edges == Shorten(course.edges, AtLeast(0, k - Len(course.nodes)))
    IN  CreateDependencyEdges(CreateKnowledgeNodes(db, nodes), edges)

-----------------------------------------------------------------------------
(* KnowledgeGraphManager. *)

\* The test for an empty database reads through the same method as everyone, which
\* answers nothing until the manager is marked available: that happens afterwards.
ReadNodes == IF manager = "neo4j" THEN ExportNodes(remote) ELSE <<>>
FoundEmpty == ReadNodes = <<>>

StartManager ==
    /\ manager = "stopped" /\ Spend("start")
    /\ UNCHANGED <<course, planner, report, mastery, answer, plan>>
    /\ \/ ~remote.up /\ manager' = "memory" /\ UNCHANGED remote
       \/ /\ remote.up
          /\ manager' = "neo4j"
          /\ \E k \in course.seeded :
                 remote' = IF FoundEmpty THEN SeedNeo4j(remote, k) ELSE remote

StopManager ==
    /\ manager # "stopped"
    /\ manager' = "stopped" /\ planner' = NoPlanner
    /\ UNCHANGED <<course, remote, report, mastery, answer, plan, budget>>

SeedCourse ==
    /\ manager = "neo4j" /\ remote.up /\ Spend("reseed")
    /\ remote' = SeedNeo4j(remote, Len(course.nodes) + Len(course.edges))
    /\ UNCHANGED <<course, manager, planner, report, mastery, answer, plan>>

RemoteFlips ==
    /\ Spend("outage")
    /\ remote' = [remote EXCEPT !.up = ~@]
    /\ UNCHANGED <<course, manager, planner, report, mastery, answer, plan>>

\* A failed read answers nothing and makes every later one answer from memory:
\* the two reads of one planner may come from different sources.
CreatePathPlanner ==
    /\ manager # "stopped" /\ Spend("planner")
    /\ \/ planner' = [graph |-> [nodes |-> course.nodes, edges |-> course.edges], topo |-> NoOrder]
          /\ UNCHANGED manager
       \/ /\ manager = "neo4j"
          /\ \/ remote.up /\ UNCHANGED manager
                /\ planner' = [graph |-> Export(remote), topo |-> NoOrder]
             \/ manager' = "memory"
                /\ planner' = [graph |-> [nodes |-> ExportNodes(remote), edges |-> <<>>], topo |-> NoOrder]
             \/ manager' = "memory"
                /\ planner' = [graph |-> [nodes |-> <<>>, edges |-> course.edges], topo |-> NoOrder]
    /\ UNCHANGED <<course, remote, report, mastery, answer, plan>>

-----------------------------------------------------------------------------
(* GraphBuilder.build: what it resolves is merged into what is stored.     *)
(* Without a client that was ever connected it only reports; a database    *)
(* that fails before or after the nodes were written makes it raise, and   *)
(* nothing is reported.                                                    *)

Build(strategy) ==
    /\ Spend("build")
    /\ LET built == BuildGraph(course.edges, strategy)
           merged == MergeKnowledgeNodes(remote, course.nodes)
           made == [strategy |-> strategy, build |-> built]
       IN  \/ report' = made /\ UNCHANGED remote
           \/ /\ remote.up /\ report' = made
              /\ remote' = IF built.raised THEN merged ELSE CreateDependencyEdges(merged, built.final)
           \/ UNCHANGED report /\ (UNCHANGED remote \/ (remote.up /\ remote' = merged))
    /\ UNCHANGED <<course, manager, planner, mastery, answer, plan>>

-----------------------------------------------------------------------------
(* The PathPlanner object: edges may be added to it, and an order once     *)
(* computed is kept until they are.                                        *)

\* Mutant: an added edge leaves the cached order.
KeepCache(p) == p

InvalidateCache(p) == [p EXCEPT !.topo = NoOrder]

CachedOrder(p) == IF p.topo # NoOrder THEN p.topo ELSE ComputeTopologicalOrder(p.graph)

Remember(p) == IF CachedOrder(p) = Failed THEN p ELSE [p EXCEPT !.topo = CachedOrder(p)]

AddEdge(e) ==
    /\ {e.src, e.tgt} \subseteq NodeSet(planner.graph) /\ Spend("edit")
    /\ planner' = InvalidateCache([planner EXCEPT !.graph.edges = Append(@, e)])
    /\ UNCHANGED <<course, remote, manager, report, mastery, answer, plan>>

FindPath(asked) ==
    /\ Ends(planner.graph.edges) \subseteq NodeSet(planner.graph) /\ planner # NoPlanner
    /\ Spend("path")
    /\ LET ctx == [f \in DOMAIN asked \union {"mastery"} |-> IF f = "mastery" THEN mastery ELSE asked[f]]
       IN  answer' = [ctx |-> ctx, graph |-> planner.graph,
                      result |-> ComputePath(planner.graph, CachedOrder(planner), ctx)]
    /\ planner' = Remember(planner)
    /\ UNCHANGED <<course, remote, manager, report, mastery, plan>>

-----------------------------------------------------------------------------
(* PlannerNode over the exported graph, and the learner it plans for. *)

RunPlanner(current, target, hours) ==
    /\ remote.up /\ Spend("plan")
    /\ LET graph == Export(remote)
           learner == [Unplanned.learner EXCEPT !.current = current, !.target = target]
           topo == ComputeTopologicalOrder(graph)
       IN  /\ graph.nodes # <<>>
           /\ plan' = [learner |-> Plan(graph, learner, mastery, 50, hours),
                       graph |-> graph, mastery |-> mastery, asked |-> <<current, target, hours>>,
                       cost |-> Solve(graph, topo, current, target, MasteryMap(graph, mastery)).cost]
    /\ UNCHANGED <<course, remote, manager, planner, report, mastery, answer>>

\* The learner's profile: an evaluation may raise a mastery or lower it.
Learn(v) ==
    /\ \E grade \in course.grades : mastery' = [mastery EXCEPT ![v] = grade] /\ grade # mastery[v]
    /\ UNCHANGED <<course, remote, manager, planner, report, answer, plan, budget>>

Init ==
    /\ course \in Courses
    /\ remote = [up |-> TRUE, copies |-> [v \in ToSet(course.nodes) |-> 0],
                 loose |-> [v \in ToSet(course.nodes) |-> 0], rels |-> <<>>]
    /\ manager = "stopped" /\ planner = NoPlanner /\ report = NoReport
    /\ mastery = course.mastery /\ answer = NoAnswer /\ plan = Unplanned
    /\ budget = course.budget

Next ==
    \/ StartManager \/ StopManager \/ SeedCourse \/ RemoteFlips \/ CreatePathPlanner
    \/ \E strategy \in {"remove_weakest_edge", "remove_all_cycle_edges", "raise_error"} : Build(strategy)
    \/ \E e \in ToSet(course.edges) : AddEdge(e)
    \/ \E asked \in Contexts : FindPath(asked)
    \/ \E current, target \in ToSet(course.nodes) \union {0}, hours \in {25, 1000} :
           RunPlanner(current, target, hours)
    \/ \E v \in DOMAIN mastery : Learn(v)

Spec == Init /\ [][Next]_vars

-----------------------------------------------------------------------------
(* Properties. *)

PlanningTypeOK ==
    /\ remote.up \in BOOLEAN /\ \A v \in ToSet(course.nodes) : remote.copies[v] \in Nat
    /\ \A p \in DOMAIN remote.rels : Pair(remote.rels[p].edge) = p
    /\ manager \in {"stopped", "memory", "neo4j"}
    /\ \A v \in DOMAIN mastery : mastery[v] \in Masteries

\* Reference notions: reachability and simple paths by plain enumeration.
Reaches(edges, u, v) == v \in Spread(edges, {}, Targets(edges, {u}))
SamePart(edges, u, v) == u = v \/ (Reaches(edges, u, v) /\ Reaches(edges, v, u))

PathsFrom(edges, source, target) ==
    LET nodes == Ends(edges) \union {source}
    IN  {p \in UNION {[1 .. n -> nodes] : n \in 1 .. Cardinality(nodes)} :
            /\ p[1] = source /\ p[Len(p)] = target
            /\ \A i, j \in DOMAIN p : i # j => p[i] # p[j]
            /\ \A i \in 1 .. Len(p) - 1 : p[i + 1] \in Targets(edges, {p[i]})}

\* the cheapest of the parallel edges between two nodes, then the sum along a path
StepCost(edges, u, v, cost) ==
    LET costs == {cost[i] : i \in Between(edges, u, v)}
    IN  CHOOSE c \in costs : \A d \in costs : c =< d

PathCost(edges, path, cost) ==
    LET sum[k \in 1 .. Len(path)] ==
            IF k = 1 THEN 0 ELSE sum[k - 1] + StepCost(edges, path[k - 1], path[k], cost)
    IN  sum[Len(path)]

\* The reduction is exact: it loses no prerequisite (whatever was reachable still is),
\* and of the edges it looks at it leaves none that a way around makes redundant, in a
\* graph that is still cyclic too.
ReductionIsExact ==
    report # NoReport /\ ~report.build.raised =>
    LET b == report.build
        left == BuildAdjacency(b.final)
    IN  /\ \A u, v \in ToSet(course.nodes) : Reaches(b.final, u, v) <=> Reaches(b.clean, u, v)
        /\ \A i \in DOMAIN left :
               left[i].src # left[i].tgt => ~Reaches(DropPairs(left, {Pair(left[i])}), left[i].src, left[i].tgt)

\* What the builder hands on is what was asked for: the components it worked on are
\* exactly the sets of mutually reachable nodes, the reduction is exact, the verdict it
\* reports is the one the planners will find, and removing all the edges of the cycles
\* does leave none but self-loops.
GraphBuildIsSound ==
    /\ ReductionIsExact
    /\ report # NoReport /\ ~report.build.raised =>
       LET b == report.build
       IN  /\ \A s \in b.sccs : \A u \in s : s = {v \in Ends(course.edges) : SamePart(course.edges, u, v)}
           /\ b.isDag <=> ComputeTopologicalOrder([nodes |-> course.nodes, edges |-> b.final]) # Failed
           /\ report.strategy = "remove_all_cycle_edges" => ValidateDag(b.final)

\* The order the planner keeps is always an order of the graph it has now: an edge
\* added after a search is never ignored by the next one.
CachedOrderIsCurrent ==
    planner.topo # NoOrder =>
        /\ ToSet(planner.topo) = NodeSet(planner.graph)
        /\ \A e \in ToSet(planner.graph.edges) : Rank(planner.topo, e.src) < Rank(planner.topo, e.tgt)

\* No walk through the course is cheaper than the one a planner chose, and a planner
\* finds one whenever there is one: for compute_path under the strategy in force,
\* and for PlannerNode under the costs of the learner's mastery when it ran.
PlannedPathsAreCheapest ==
    /\ LET r == answer.result
           edges == answer.graph.edges
           strategy == EffectiveStrategy(answer.ctx.strategy, answer.ctx.epoch)
           cost == [i \in DOMAIN edges |-> EdgeWeight(strategy, edges[i])]
           paths == PathsFrom(edges, r.source, r.target)
       IN  r.source # 0 /\ r.target # 0 =>
               /\ r.found <=> paths # {}
               /\ r.found /\ ~r.cut => \A p \in paths : PathCost(edges, r.path, cost) =< PathCost(edges, p, cost)
               /\ r.found => \E p \in paths : IsPrefix(r.path, p)
    /\ plan # Unplanned /\ plan.asked[1] # plan.asked[2] /\ {plan.asked[1], plan.asked[2]} \subseteq NodeSet(plan.graph)
       /\ ComputeTopologicalOrder(plan.graph) # Failed =>
       LET edges == plan.graph.edges
           cost == [i \in DOMAIN edges |-> EdgeCost(edges[i], MasteryMap(plan.graph, plan.mastery))]
           paths == PathsFrom(edges, plan.asked[1], plan.asked[2])
       IN  /\ plan.learner.path # <<>> <=> paths # {}
           /\ paths # {} => \E p \in paths : PathCost(edges, p, cost) = plan.cost
           /\ \A p \in paths : plan.cost =< PathCost(edges, p, cost)

\* Having learnt more never makes the same journey dearer: when a plan is made again
\* between the same two nodes of the same graph, and no mastery went down in
\* between, it is still there and its cost does not go up.
MasteryNeverRaisesCost ==
    [][/\ plan # Unplanned /\ plan' # plan
       /\ plan.asked = plan'.asked /\ plan.graph = plan'.graph /\ plan.cost # Infinity
       /\ \A v \in DOMAIN plan.mastery : plan.mastery[v] =< plan'.mastery[v]
       => plan'.cost # Infinity /\ plan'.cost =< plan.cost]_vars

\* The bundled course is in the database once: starting the application again does
\* not add a second copy of what an earlier start wrote.
SeededOnce == \A v \in DOMAIN remote.copies : remote.copies[v] =< 1
=============================================================================
