-------------------------- MODULE MCCoursePlanning --------------------------
EXTENDS CoursePlanning

Edge(u, v, w) == [src |-> u, tgt |-> v, kind |-> "strict", weight |-> w]
Idle == [start |-> 0, reseed |-> 0, outage |-> 0, planner |-> 0, build |-> 0, edit |-> 0, path |-> 0, plan |-> 0]

\* every graph of three nodes with edges of two weights, to be imported once
Pairs3 == <<<<1, 1>>, <<1, 2>>, <<1, 3>>, <<2, 1>>, <<2, 3>>, <<3, 1>>, <<3, 2>>>>
Imported(ws) == SelectSeq([i \in 1 .. 7 |-> Edge(Pairs3[i][1], Pairs3[i][2], ws[i])], LAMBDA e : e.weight > 0)
Imports == {[nodes |-> <<1, 2, 3>>, edges |-> Imported(ws), grades |-> {}, mastery |-> <<>>, seeded |-> {},
             budget |-> [Idle EXCEPT !.build = 1]] : ws \in {f \in [1 .. 7 -> 0 .. 2] : f[1] < 2}}

\* a diamond with a shortcut, and a graph of four nodes with a cycle
Diamond == <<Edge(1, 2, 10), Edge(1, 3, 5), Edge(2, 4, 10), Edge(3, 4, 12), Edge(1, 4, 24)>>
Knot == <<Edge(4, 2, 8), Edge(2, 3, 10), Edge(3, 1, 10), Edge(3, 2, 12), Edge(1, 4, 10)>>

Planned == [nodes |-> <<1, 2, 3, 4>>, edges |-> Diamond, grades |-> {50, 80}, mastery |-> (1 :> 20 @@ 2 :> 50),
            seeded |-> {9}, budget |-> [Idle EXCEPT !.start = 1, !.plan = 2]]
Searched == [nodes |-> <<4, 3, 2, 1>>, edges |-> Diamond, grades |-> {65}, mastery |-> (1 :> 65 @@ 2 :> 50),
             seeded |-> {9}, budget |-> [Idle EXCEPT !.start = 1, !.planner = 1, !.edit = 1, !.path = 2]]
Edited == [nodes |-> <<1, 2, 3, 4>>, edges |-> Knot, grades |-> {}, mastery |-> <<>>,
           seeded |-> {}, budget |-> [Idle EXCEPT !.build = 2]]
Restarted == [nodes |-> <<1, 2>>, edges |-> <<Edge(1, 2, 10)>>, grades |-> {}, mastery |-> <<>>,
              seeded |-> 0 .. 3,
              budget |-> [Idle EXCEPT !.start = 2, !.outage = 2, !.planner = 1, !.build = 1, !.plan = 1]]

Reseeded == [Restarted EXCEPT !.budget.start = 1, !.budget.reseed = 1, !.seeded = {3}]

OnlyRestarts == {Restarted}
AllCourses == Imports \union {Planned, Searched, Edited, Restarted, Reseeded}

\* each strategy, one overridden during the cold start, unbounded or cut twice
MCContexts ==
    {[current |-> c[1], target |-> c[2], strategy |-> s[1], epoch |-> s[2], maxLength |-> c[3], hours |-> c[4]] :
        s \in (Strategies \X {5}) \union {<<"TOPO_MIN_HOPS", 4>>},
        c \in {<<0, 0, 20, 1000>>, <<1, 4, 20, 1000>>, <<1, 0, 2, 1000>>, <<0, 4, 20, 40>>}}

MCDifficulty == <<25, 70, 30, 75>>
MCHours == <<20, 30, 10, 25>>
=============================================================================
