------------------------------ MODULE AgentPlan ------------------------------
(***************************************************************************)
(* Plans of dependent agents: archon/ai/agent_plan.py.  A plan is the list *)
(* the router's JSON was parsed into; nothing has checked it: an id may be *)
(* repeated, a dependency unknown, repeated or circular.                   *)
(*                                                                         *)
(* Both algorithms count, per agent, the dependencies that have not been   *)
(* processed, each as often as it is listed.  The order of the agents in a *)
(* queue is left out: it decides nothing but the order in which the agents *)
(* of a wave are spawned.                                                  *)
(***************************************************************************)
EXTENDS Integers, Sequences, SequencesExt, FiniteSets

(* A list of agents, each with a list of dependencies.                     *)
IsPlan(plan) ==
    /\ plan \in Seq(ToSet(plan))
    /\ \A i \in DOMAIN plan : plan[i].depends_on \in Seq(ToSet(plan[i].depends_on))

Ids(plan) == {plan[i].id : i \in DOMAIN plan}

\* `adjacency[dep]` raises KeyError for a dependency that is no agent.
UnknownDependency(plan) ==
    \E i \in DOMAIN plan : ~(ToSet(plan[i].depends_on) \subseteq Ids(plan))

\* The passes of the two nested loops, one for each dependency of each agent.
Edges(plan) == UNION {{<<i, j>> : j \in DOMAIN plan[i].depends_on} : i \in DOMAIN plan}

\* How often agents of S have agent a in their adjacency lists.
EdgesInto(plan, a, S) ==
    Cardinality({e \in Edges(plan) : plan[e[1]].id = a /\ plan[e[1]].depends_on[e[2]] \in S})

InDegree(plan) == [a \in Ids(plan) |-> EdgesInto(plan, a, Ids(plan))]

\* The keys of in_degree whose value is 0.
Roots(plan) == {a \in Ids(plan) : InDegree(plan)[a] = 0}

\* `in_degree[neighbor] -= 1`, for all neighbours of the agents of S.
Lowered(plan, deg, S) == [a \in Ids(plan) |-> deg[a] - EdgesInto(plan, a, S)]

\* Mutant of Reached: an agent is released by its first dependency.
ReachedEarly(plan, deg, S) == {a \in Ids(plan) : deg[a] > 0 /\ EdgesInto(plan, a, S) > 0}

\* The neighbours whose degree becomes 0 on the way.
Reached(plan, deg, S) == {a \in Ids(plan) : deg[a] \in 1 .. EdgesInto(plan, a, S)}

\* The rounds of topological_sort: round n has the queue of wave n + 1.  There are
\* no more waves than agents.
Rounds(plan) ==
    LET round[n \in 0 .. Len(plan)] ==
          IF n = 0 THEN [deg |-> InDegree(plan), queue |-> Roots(plan)]
          ELSE LET last == round[n - 1]
               IN [deg   |-> Lowered(plan, last.deg, last.queue),
                   queue |-> Reached(plan, last.deg, last.queue)]
    IN round

TopologicalSort(plan) ==
    LET round == Rounds(plan)
        waves == [n \in {k \in 1 .. Len(plan) : round[k - 1].queue # {}} |-> round[n - 1].queue]
        sorted == UNION {{n} \X waves[n] : n \in DOMAIN waves}
    IN IF UnknownDependency(plan) THEN [result |-> "KeyError", waves |-> <<>>]
       ELSE IF Cardinality(sorted) # Len(plan) THEN [result |-> "ValueError", waves |-> <<>>]
            ELSE [result |-> "ok", waves |-> waves]

\* validate_dependency_graph(): the same algorithm with one queue, which only
\* counts the agents it takes from it.
Visits(plan) ==
    LET visit[n \in 0 .. Len(plan)] ==
          IF n = 0 THEN [deg |-> InDegree(plan), queue |-> Roots(plan), visited |-> 0]
          ELSE LET last == visit[n - 1]
                   node == CHOOSE a \in last.queue : TRUE
               IN IF last.queue = {} THEN last
                  ELSE [deg     |-> Lowered(plan, last.deg, {node}),
                        queue   |-> (last.queue \ {node}) \cup Reached(plan, last.deg, {node}),
                        visited |-> last.visited + 1]
    IN visit

ValidateDependencyGraph(plan) ==
    ~UnknownDependency(plan) /\ Visits(plan)[Len(plan)].visited = Len(plan)
-----------------------------------------------------------------------------
(* What a plan means, without an algorithm.                                *)

DependsOn(plan, a) == UNION {ToSet(plan[i].depends_on) : i \in {j \in DOMAIN plan : plan[j].id = a}}

\* A set of agents of which each waits for another one of the set.
IsCycle(plan, C) == C # {} /\ \A a \in C : DependsOn(plan, a) \cap C # {}

Executable(plan) ==
    /\ Cardinality(Ids(plan)) = Len(plan)
    /\ ~UnknownDependency(plan)
    /\ \A C \in SUBSET Ids(plan) : ~IsCycle(plan, C)

\* All the agents a depends on, however remotely: the least set closed under
\* DependsOn.
Ancestors(plan, a) ==
    LET closed(A) == DependsOn(plan, a) \subseteq A /\ \A b \in A : DependsOn(plan, b) \subseteq A
    IN {b \in Ids(plan) : \A A \in SUBSET Ids(plan) : closed(A) => b \in A}

WaveOf(waves, a) == CHOOSE w \in DOMAIN waves : a \in waves[w]
=============================================================================
