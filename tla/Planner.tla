------------------------------ MODULE Planner ------------------------------
(***************************************************************************)
(* getPlan of planning/plan.cpp: a weighted A* search over cells and eight *)
(* headings. Lengths are integers; Resolution of them make a cell. Equal   *)
(* priorities leave the top of the queue open.                             *)
(***************************************************************************)
EXTENDS Integers, Sequences

CONSTANTS Frees,     \* inputs: sets of the cells where collides is false
          Goals, GoalRadius,
          Resolution, Diagonal, TurnCost,  \* costs of a step ahead, aslant, of a turn
          MaxIters   \* MAX_ITERS

VARIABLES free, goal,  \* the arguments of the call
          fringe,      \* the nodes in the priority queue
          node,        \* visited_set: from <<x, y, theta>> to the rest of the Node
          counter, status,
          last, row,   \* n and i of the loop that writes the plan
          plan         \* its rows that are written, which are the last ones
search == <<free, goal, fringe, node, counter>>
output == <<last, row, plan>>
vars == <<search, status, output>>

Start == <<0, 0, 0>>
Moves == {"ahead", "aslant"}
Turns == {"left", "right"}

Sq(i) == i * i
Sqrt(v) == CHOOSE r \in 0..v : Sq(r) <= v /\ v < Sq(r + 1)
Heuristic(n) == Sqrt(Sq(goal[1] - n[1] * Resolution) + Sq(goal[2] - n[2] * Resolution))
\* valid_actions: how far a node moves depends on its heading.
ValidActions(n) == {IF n[3] % 2 = 1 THEN "aslant" ELSE "ahead"} \cup Turns
StepCost(a) == IF a \in Turns THEN TurnCost ELSE IF a = "aslant" THEN Diagonal ELSE Resolution
\* Node's constructor.
\* Mistake: heading 7 is not among those that go ahead.
Dx_WithoutLast(theta) == IF theta \in {0, 1} THEN 1 ELSE IF theta \in 3..5 THEN -1 ELSE 0
Dx(theta) == IF theta \in {7, 0, 1} THEN 1 ELSE IF theta \in 3..5 THEN -1 ELSE 0
Dy(theta) == IF theta \in 1..3 THEN 1 ELSE IF theta \in 5..7 THEN -1 ELSE 0
NodeAfter(n, a) ==
  IF a \in Moves THEN <<n[1] + Dx(n[3]), n[2] + Dy(n[3]), n[3]>>
  ELSE <<n[1], n[2], (n[3] + (IF a = "left" THEN 1 ELSE 7)) % 8>>
Cell(n) == <<n[1], n[2]>>
\* Mistake: a turn needs a free cell ahead as well.
IsValid_Ahead(n, a) == <<n[1] + Dx(n[3]), n[2] + Dy(n[3])>> \in free
\* is_valid: to get away from obstacles, turning is always allowed.
IsValid(n, a) == a \in Moves => Cell(NodeAfter(n, a)) \in free

\* EPSILON = 6/5 weighs the heuristic.
Priority(n) == 5 * node[n].cost + 6 * Heuristic(n)
Tops == {n \in fringe : \A m \in fringe : Priority(n) <= Priority(m)}

\* NodeEqualityCompare: nodes are told apart by cell and heading, whatever they cost.
Visited(n) == n \in DOMAIN node
NewNode(n, a) == [cost |-> node[n].cost + StepCost(a), steps |-> node[n].steps + 1,
                  parent |-> n, action |-> a]

Init ==
  /\ free = {} /\ goal = <<0, 0>> /\ fringe = {}
  /\ node = [n \in {Start} |-> [cost |-> 0, steps |-> 0, parent |-> Start, action |-> "none"]]
  /\ counter = 0 /\ status = "idle" /\ last = Start /\ row = -1 /\ plan = <<>>

GetPlan(cells, g) ==
  /\ status = "idle"
  /\ free' = cells /\ goal' = g /\ fringe' = {Start} /\ status' = "search"
  /\ UNCHANGED <<node, counter, output>>

Searching == status = "search" /\ fringe # {} /\ counter <= MaxIters

\* A node within the radius is at the top: the search ends.
Finish(n) ==
  /\ Searching /\ Heuristic(n) < GoalRadius
  /\ status' = "write" /\ last' = n /\ row' = node[n].steps - 1
  /\ counter' = counter + 1 /\ fringe' = fringe \ {n}
  /\ UNCHANGED <<free, goal, node, plan>>
\* The nodes that are allocated and pushed.
Fresh(n) == {NodeAfter(n, a) : a \in {b \in ValidActions(n) :
                                        IsValid(n, b) /\ ~Visited(NodeAfter(n, b))}}
Expand(n) ==
  /\ Searching /\ Heuristic(n) >= GoalRadius
  /\ node' = [m \in DOMAIN node \cup Fresh(n) |->
                IF Visited(m) THEN node[m]
                ELSE NewNode(n, CHOOSE a \in ValidActions(n) : NodeAfter(n, a) = m)]
  /\ fringe' = (fringe \ {n}) \cup Fresh(n)
  /\ counter' = counter + 1
  /\ UNCHANGED <<free, goal, status, output>>
\* No node is left, or MAX_ITERS is passed: n = start, a plan of no steps.
GiveUp ==
  /\ status = "search" /\ ~Searching
  /\ status' = "failed"
  /\ UNCHANGED <<search, output>>

\* The plan's rows, from the last one up, by the nodes' parents.
WriteRow ==
  /\ status = "write" /\ row >= 0
  /\ plan' = <<node[last].action>> \o plan
  /\ last' = node[last].parent /\ row' = row - 1
  /\ UNCHANGED <<search, status>>
Return ==
  /\ status = "write" /\ row < 0
  /\ status' = "found"
  /\ UNCHANGED <<search, output>>

Next == \/ \E cells \in Frees, g \in Goals : GetPlan(cells, g)
        \/ \E n \in Tops : Finish(n) \/ Expand(n)
        \/ GiveUp \/ WriteRow \/ Return
Spec == Init /\ [][Next]_vars /\ WF_vars(Next)

\* planCostFromIndex(plan, idx), idx counting from 0.
PlanCostFromIndex[idx \in 0..Len(plan)] ==
  IF idx = Len(plan) THEN 0 ELSE StepCost(plan[idx + 1]) + PlanCostFromIndex[idx + 1]

(***************************************************************************)
(* Properties. PoseAt is where the robot is after k actions of the plan.   *)
(***************************************************************************)
Directions == << <<1, 0>>, <<1, 1>>, <<0, 1>>, <<-1, 1>>, <<-1, 0>>, <<-1, -1>>, <<0, -1>>, <<1, -1>> >>
Executed(p, a) ==
  IF a \in Moves THEN <<p[1] + Directions[p[3] + 1][1], p[2] + Directions[p[3] + 1][2], p[3]>>
  ELSE <<p[1], p[2], IF a = "left" THEN IF p[3] = 7 THEN 0 ELSE p[3] + 1
                     ELSE IF p[3] = 0 THEN 7 ELSE p[3] - 1>>
PoseAt[k \in 0..Len(plan)] == IF k = 0 THEN Start ELSE Executed(PoseAt[k - 1], plan[k])
\* A heading of an axis goes a cell's side far, the others go its diagonal.
Fits(p, a) == a \in Moves => (a = "aslant" <=> p[3] \in {1, 3, 5, 7})

\* The plan that is returned, executed step by step, never moves ahead into a cell that
\* collides, goes from cell to cell, and ends within the goal's radius; its cost is what the
\* search added up.
PlanReachesGoal ==
  status = "found" =>
    /\ Heuristic(PoseAt[Len(plan)]) < GoalRadius
    /\ \A k \in 1..Len(plan) :
         Fits(PoseAt[k - 1], plan[k]) /\ (plan[k] \in Moves => Cell(PoseAt[k]) \in free)
    /\ PlanCostFromIndex[0] = node[PoseAt[Len(plan)]].cost
\* No path: cells with the robot's own that free cells do not lead out of, all of them
\* outside the radius. It may turn on the spot, so that any two cells that touch are a step.
Adjacent(b, c) == Sq(c[1] - b[1]) <= 1 /\ Sq(c[2] - b[2]) <= 1
NoPath ==
  \E S \in SUBSET (free \cup {<<0, 0>>}) :
    /\ <<0, 0>> \in S
    /\ \A b \in S, c \in free : Adjacent(b, c) => c \in S
    /\ \A c \in S : Heuristic(c) >= GoalRadius
\* Nodes are closed when they are pushed; still a search that stays below MAX_ITERS gives
\* up only when the free cells around the robot do not lead to the goal.
FailsOnlyWithoutPath == status = "failed" /\ counter <= MaxIters => NoPath
\* Every call of getPlan returns.
GetPlanReturns == status = "search" ~> status \in {"found", "failed"}
============================================================================
