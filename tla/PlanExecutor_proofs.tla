------------------------- MODULE PlanExecutor_proofs -------------------------
(***************************************************************************)
(* Proofs about plans of any size, for any limit of running agents and any *)
(* moment at which runs fail, hang or are cancelled.                       *)
(*                                                                         *)
(* The first part shows that both algorithms of agent_plan.py are right    *)
(* for every plan.  What Kahn's algorithm has left is decided by the set   *)
(* of agents it has processed (Processed, Processing): the degree of an    *)
(* agent is the number of its dependencies outside that set.  The rounds   *)
(* are followed by induction over the natural numbers (UpTo), which rests  *)
(* on their being well founded.                                            *)
(*                                                                         *)
(* The second part shows of the executor that an agent starts when all it  *)
(* depends on is settled, and that the final report is exact.              *)
(***************************************************************************)
EXTENDS PlanExecutor, FiniteSetTheorems, WellFoundedInduction, TLAPS

-----------------------------------------------------------------------------
(* Counting.                                                               *)

LEMMA DisjointUnion ==
  ASSUME NEW A, NEW B, IsFiniteSet(A), IsFiniteSet(B), A \cap B = {}
  PROVE  /\ IsFiniteSet(A \cup B) /\ Cardinality(A \cup B) \in Nat
         /\ Cardinality(A \cup B) = Cardinality(A) + Cardinality(B)
  <1>1. Cardinality(A) \in Nat /\ Cardinality(B) \in Nat
    BY FS_CardinalityType
  <1>2. Cardinality(A \cap B) = 0
    BY FS_EmptySet
  <1>3. /\ IsFiniteSet(A \cup B)
        /\ Cardinality(A \cup B) = Cardinality(A) + Cardinality(B) - Cardinality(A \cap B)
    BY FS_Union
  <1>4. QED
    BY <1>1, <1>2, <1>3
-----------------------------------------------------------------------------
(* A set of natural numbers has a least one.                               *)
LEMMA LeastNat ==
  ASSUME NEW S \in SUBSET Nat, S # {}
  PROVE  \E n \in S : \A m \in S : n <= m
  <1> DEFINE R == OpToRel(<, Nat)
  <1>1. IsWellFoundedOn(R, Nat)
    BY NatLessThanWellFounded
  <1>2. \A x, y \in Nat : x < y => <<x, y>> \in R
    BY DEF OpToRel
  <1> HIDE DEF R
  <1>3. PICK x \in S : \A y \in S : ~(<<y, x>> \in R)
    BY <1>1, WFMin
  <1>4. ASSUME NEW m \in S PROVE x <= m
    <2>1. x \in Nat /\ m \in Nat /\ ~(<<m, x>> \in R)
      BY <1>3
    <2>2. ~(m < x)
      BY <1>2, <2>1
    <2>3. QED
      BY <2>1, <2>2
  <1>5. QED
    BY <1>4

(* Induction, over the numbers of which something holds.                   *)
LEMMA UpTo ==
  ASSUME NEW N \in Nat, NEW T \in SUBSET Nat, 0 \in T, \A n \in T : n < N => n + 1 \in T
  PROVE  \A n \in 0 .. N : n \in T
  <1> DEFINE F == {n \in 0 .. N : n \notin T}
  <1> SUFFICES ASSUME F # {} PROVE FALSE
    OBVIOUS
  <1>0. F \in SUBSET Nat
    OBVIOUS
  <1> HIDE DEF F
  <1>1. PICK n \in F : \A m \in F : n <= m
    BY <1>0, LeastNat
  <1> USE DEF F
  <1>2. n - 1 \in Nat /\ n - 1 < N /\ n - 1 \notin F
    BY <1>1
  <1>3. n - 1 \in T
    BY <1>2
  <1>4. QED
    BY <1>1, <1>2, <1>3

LEMMA CountTo ==
  ASSUME NEW n \in Nat
  PROVE  IsFiniteSet(1 .. n) /\ Cardinality(1 .. n) = n
  <1>1. /\ IsFiniteSet(1 .. n)
        /\ Cardinality(1 .. n) = IF 1 > n THEN 0 ELSE n - 1 + 1
    BY FS_Interval
  <1>2. QED
    BY <1>1

(* A function can be defined by recursion, up to a number n.               *)
Iterates(f, n, S, b, g) ==
    f \in [0 .. n -> S] /\ f[0] = b /\ \A k \in 1 .. n : f[k] = g[f[k - 1]]

LEMMA Recursion ==
  ASSUME NEW N \in Nat, NEW S, NEW b \in S, NEW g \in [S -> S]
  PROVE  \E f : Iterates(f, N, S, b, g)
  <1> DEFINE Good(n, f) == Iterates(f, n, S, b, g)
             T == {n \in Nat : \E f : Good(n, f)}
  <1>1. 0 \in T
    <2>1. Good(0, [k \in 0 .. 0 |-> b])
      BY DEF Iterates
    <2>2. QED
      BY <2>1
  <1>2. ASSUME NEW n \in T PROVE n + 1 \in T
    <2>1. PICK f : Good(n, f)
      BY <1>2
    <2> DEFINE h == [k \in 0 .. n + 1 |-> IF k = n + 1 THEN g[f[n]] ELSE f[k]]
    <2>2. n \in Nat
      BY <1>2
    <2>3. f[n] \in S /\ g[f[n]] \in S
      BY <2>1, <2>2 DEF Iterates
    <2>4. h \in [0 .. n + 1 -> S] /\ h[0] = b
      BY <2>1, <2>2, <2>3 DEF Iterates
    <2>5. \A k \in 1 .. n + 1 : h[k] = g[h[k - 1]]
      BY <2>1, <2>2 DEF Iterates
    <2> HIDE DEF h
    <2>6. Good(n + 1, h)
      BY <2>4, <2>5 DEF Iterates
    <2> HIDE DEF Good
    <2>7. QED
      BY <2>2, <2>6
  <1>a. T \in SUBSET Nat
    OBVIOUS
  <1> HIDE DEF T
  <1>b. \A n \in 0 .. N : n \in T
    BY <1>1, <1>2, <1>a, UpTo
  <1>3. N \in T
    BY <1>b
  <1>4. QED
    BY <1>3 DEF T
-----------------------------------------------------------------------------
(* The edges into an agent.                                                *)
EdgeSet(p, a, S) == {e \in Edges(p) : p[e[1]].id = a /\ p[e[1]].depends_on[e[2]] \in S}

LEMMA PlanFinite ==
  ASSUME NEW p, IsPlan(p)
  PROVE  /\ Len(p) \in Nat /\ DOMAIN p = 1 .. Len(p)
         /\ IsFiniteSet(Ids(p)) /\ Cardinality(Ids(p)) \in Nat /\ Cardinality(Ids(p)) <= Len(p)
         /\ IsFiniteSet(Edges(p))
  <1>1. Len(p) \in Nat /\ DOMAIN p = 1 .. Len(p)
    BY DEF IsPlan
  <1>2. IsFiniteSet(DOMAIN p) /\ Cardinality(DOMAIN p) = Len(p)
    BY <1>1, CountTo
  <1> DEFINE id == [i \in DOMAIN p |-> p[i].id]
  <1>3. id \in Surjection(DOMAIN p, Ids(p))
    BY DEF Ids, Surjection
  <1>4. IsFiniteSet(Ids(p)) /\ Cardinality(Ids(p)) <= Len(p)
    BY <1>2, <1>3, FS_Surjection
  <1> DEFINE passes(i) == {<<i, j>> : j \in DOMAIN p[i].depends_on}
             all == {passes(i) : i \in DOMAIN p}
  <1>5. ASSUME NEW i \in DOMAIN p PROVE IsFiniteSet(passes(i))
    <2> DEFINE D == DOMAIN p[i].depends_on
               f == [j \in D |-> <<i, j>>]
    <2>1. D = 1 .. Len(p[i].depends_on) /\ Len(p[i].depends_on) \in Nat
      BY DEF IsPlan
    <2>2. IsFiniteSet(D)
      BY <2>1, CountTo
    <2>3. f \in Surjection(D, passes(i))
      BY DEF Surjection
    <2> HIDE DEF D, f
    <2>4. QED
      BY <2>2, <2>3, FS_Surjection
  <1>6. IsFiniteSet(all)
    <2> DEFINE f == [i \in DOMAIN p |-> passes(i)]
    <2>1. f \in Surjection(DOMAIN p, all)
      BY DEF Surjection
    <2> HIDE DEF f
    <2>2. QED
      BY <1>2, <2>1, FS_Surjection
  <1> HIDE DEF passes
  <1>7. IsFiniteSet(UNION all)
    BY <1>5, <1>6, FS_UNION
  <1>8. Edges(p) = UNION all
    BY DEF Edges, passes
  <1>9. QED
    BY <1>1, <1>4, <1>7, <1>8, FS_CardinalityType

LEMMA EdgesIntoSets ==
  ASSUME NEW p, IsPlan(p), NEW a, NEW S
  PROVE  /\ EdgesInto(p, a, S) \in Nat
         /\ EdgesInto(p, a, S) = 0 <=> DependsOn(p, a) \cap S = {}
  <1>1. IsFiniteSet(EdgeSet(p, a, S))
    BY PlanFinite, FS_Subset DEF EdgeSet
  <1>2. EdgesInto(p, a, S) = Cardinality(EdgeSet(p, a, S))
    BY DEF EdgesInto, EdgeSet
  <1>3. EdgeSet(p, a, S) = {} <=> DependsOn(p, a) \cap S = {}
    <2>1. ASSUME NEW e \in EdgeSet(p, a, S) PROVE DependsOn(p, a) \cap S # {}
      <3>1. /\ e \in Edges(p) /\ p[e[1]].id = a /\ p[e[1]].depends_on[e[2]] \in S
        BY DEF EdgeSet
      <3>2. PICK i \in DOMAIN p : \E j \in DOMAIN p[i].depends_on : e = <<i, j>>
        BY <3>1 DEF Edges
      <3>3. PICK j \in DOMAIN p[i].depends_on : e = <<i, j>>
        BY <3>2
      <3>4. p[i].id = a /\ p[i].depends_on[j] \in S
        BY <3>1, <3>3
      <3>5. p[i].depends_on[j] \in ToSet(p[i].depends_on)
        BY DEF ToSet
      <3>6. p[i].depends_on[j] \in DependsOn(p, a)
        BY <3>4, <3>5 DEF DependsOn
      <3>7. QED
        BY <3>4, <3>6
    <2>2. ASSUME NEW b \in DependsOn(p, a) \cap S PROVE EdgeSet(p, a, S) # {}
      <3>1. PICK i \in DOMAIN p : p[i].id = a /\ b \in ToSet(p[i].depends_on)
        BY DEF DependsOn
      <3>2. PICK j \in DOMAIN p[i].depends_on : b = p[i].depends_on[j]
        BY <3>1 DEF ToSet
      <3>3. <<i, j>> \in Edges(p)
        BY DEF Edges
      <3>4. <<i, j>> \in EdgeSet(p, a, S)
        BY <3>1, <3>2, <3>3 DEF EdgeSet
      <3>5. QED
        BY <3>4
    <2>3. QED
      BY <2>1, <2>2
  <1>4. QED
    BY <1>1, <1>2, <1>3, FS_CardinalityType, FS_EmptySet

LEMMA EdgesIntoSum ==
  ASSUME NEW p, IsPlan(p), NEW a, NEW S, NEW T, S \cap T = {}
  PROVE  EdgesInto(p, a, S \cup T) = EdgesInto(p, a, S) + EdgesInto(p, a, T)
  <1>1. IsFiniteSet(EdgeSet(p, a, S)) /\ IsFiniteSet(EdgeSet(p, a, T))
    BY PlanFinite, FS_Subset DEF EdgeSet
  <1>2. /\ EdgeSet(p, a, S \cup T) = EdgeSet(p, a, S) \cup EdgeSet(p, a, T)
        /\ EdgeSet(p, a, S) \cap EdgeSet(p, a, T) = {}
    BY DEF EdgeSet
  <1>3. QED
    BY <1>1, <1>2, DisjointUnion DEF EdgesInto, EdgeSet
-----------------------------------------------------------------------------
(* The agents of P have been processed: in_degree counts the others, and   *)
(* queued are those that depend on none of these.                          *)
Ready(p, P) == {a \in Ids(p) \ P : DependsOn(p, a) \subseteq P}

Acyclic(p, P) == \A C \in SUBSET P : ~IsCycle(p, C)

Processed(p, P, deg, queue) ==
    /\ P \subseteq Ids(p)
    /\ \A a \in P : DependsOn(p, a) \subseteq P
    /\ Acyclic(p, P)
    /\ deg = [a \in Ids(p) |-> EdgesInto(p, a, Ids(p) \ P)]
    /\ queue = Ready(p, P)

LEMMA KnownDependencies ==
  ASSUME NEW p, ~UnknownDependency(p), NEW a
  PROVE  DependsOn(p, a) \subseteq Ids(p)
  BY DEF UnknownDependency, DependsOn

LEMMA NothingProcessed ==
  ASSUME NEW p, IsPlan(p), ~UnknownDependency(p)
  PROVE  Processed(p, {}, InDegree(p), Roots(p))
  <1>1. Ids(p) \ {} = Ids(p)
    OBVIOUS
  <1>2. Roots(p) = Ready(p, {})
    <2>1. \A a \in Ids(p) : InDegree(p)[a] = 0 <=> DependsOn(p, a) \cap Ids(p) = {}
      BY EdgesIntoSets DEF InDegree
    <2>2. \A a \in Ids(p) : InDegree(p)[a] = 0 <=> DependsOn(p, a) = {}
      BY <2>1, KnownDependencies
    <2>3. QED
      BY <2>2 DEF Roots, Ready
  <1>3. QED
    BY <1>1, <1>2 DEF Processed, Acyclic, IsCycle, InDegree

(* Some agents of the queue are processed.                                 *)
LEMMA Processing ==
  ASSUME NEW p, IsPlan(p), ~UnknownDependency(p), NEW P, NEW deg, NEW queue,
         Processed(p, P, deg, queue), NEW S \in SUBSET queue
  PROVE  Processed(p, P \cup S, Lowered(p, deg, S), (queue \ S) \cup Reached(p, deg, S))
  <1> DEFINE Q == P \cup S
  <1>1. /\ P \subseteq Ids(p) /\ queue = Ready(p, P) /\ Q \subseteq Ids(p)
        /\ \A a \in P : DependsOn(p, a) \subseteq P
        /\ \A a \in S : a \notin P /\ DependsOn(p, a) \subseteq P
    BY DEF Processed, Ready
  <1>2. \A a \in Ids(p) : /\ deg[a] = EdgesInto(p, a, Ids(p) \ P)
                          /\ deg[a] = EdgesInto(p, a, Ids(p) \ Q) + EdgesInto(p, a, S)
                          /\ EdgesInto(p, a, Ids(p) \ Q) \in Nat /\ EdgesInto(p, a, S) \in Nat
    <2>1. Ids(p) \ P = (Ids(p) \ Q) \cup S /\ (Ids(p) \ Q) \cap S = {}
      BY <1>1
    <2>2. \A a : EdgesInto(p, a, Ids(p) \ P) = EdgesInto(p, a, Ids(p) \ Q) + EdgesInto(p, a, S)
      BY <2>1, EdgesIntoSum
    <2>3. QED
      BY <2>2, EdgesIntoSets DEF Processed
  <1>3. \A a \in Ids(p) : /\ EdgesInto(p, a, Ids(p) \ Q) = 0 <=> DependsOn(p, a) \subseteq Q
                          /\ EdgesInto(p, a, Ids(p) \ P) = 0 <=> DependsOn(p, a) \subseteq P
    BY EdgesIntoSets, KnownDependencies
  <1> HIDE DEF Q
  <1>4. Lowered(p, deg, S) = [a \in Ids(p) |-> EdgesInto(p, a, Ids(p) \ Q)]
    <2>1. ASSUME NEW a \in Ids(p)
          PROVE  deg[a] - EdgesInto(p, a, S) = EdgesInto(p, a, Ids(p) \ Q)
      <3>1. \A x, y, z : x \in Nat /\ y \in Nat /\ z = x + y => z - y = x
        OBVIOUS
      <3>2. QED
        BY <1>2, <3>1
    <2>2. QED
      BY <2>1 DEF Lowered
  <1>5. Reached(p, deg, S) = {a \in Ids(p) : DependsOn(p, a) \subseteq Q /\ ~(DependsOn(p, a) \subseteq P)}
    <2>1. \A a \in Ids(p) : deg[a] \in 1 .. EdgesInto(p, a, S)
                              <=> deg[a] # 0 /\ EdgesInto(p, a, Ids(p) \ Q) = 0
      BY <1>2
    <2>2. QED
      BY <1>2, <1>3, <2>1 DEF Reached
  <1>6. (queue \ S) \cup Reached(p, deg, S) = Ready(p, Q)
    BY <1>1, <1>5 DEF Ready, Q
  <1>7. \A a \in Q : DependsOn(p, a) \subseteq Q
    BY <1>1 DEF Q
  <1>8. Acyclic(p, Q)
    <2> SUFFICES ASSUME NEW C \in SUBSET Q, IsCycle(p, C) PROVE FALSE
      BY DEF Acyclic
    <2>1. C # {} /\ \A a \in C : DependsOn(p, a) \cap C # {} /\ DependsOn(p, a) \subseteq P
      BY <1>1 DEF IsCycle, Q
    <2>2. IsCycle(p, C \cap P)
      BY <2>1 DEF IsCycle
    <2>3. QED
      BY <2>2 DEF Processed, Acyclic
  <1>9. QED
    BY <1>1, <1>4, <1>6, <1>7, <1>8 DEF Processed, Q

(* The queue is empty: all agents have been processed, or the others wait  *)
(* for one another.                                                        *)
LEMMA NobodyReady ==
  ASSUME NEW p, ~UnknownDependency(p), NEW P \in SUBSET Ids(p), Ready(p, P) = {}, Acyclic(p, Ids(p))
  PROVE  P = Ids(p)
  <1> DEFINE C == Ids(p) \ P
  <1> SUFFICES ASSUME C # {} PROVE FALSE
    OBVIOUS
  <1>1. \A a \in C : DependsOn(p, a) \cap C # {}
    BY KnownDependencies DEF Ready
  <1>2. IsCycle(p, C)
    BY <1>1 DEF IsCycle
  <1>3. QED
    BY <1>2 DEF Acyclic

(* As many were processed as the plan has entries: all, and none twice.    *)
LEMMA AllProcessed ==
  ASSUME NEW p, IsPlan(p), NEW P \in SUBSET Ids(p), Cardinality(P) = Len(p)
  PROVE  P = Ids(p) /\ Cardinality(Ids(p)) = Len(p)
  <1>1. /\ IsFiniteSet(Ids(p)) /\ Cardinality(Ids(p)) \in Nat /\ Cardinality(Ids(p)) <= Len(p)
        /\ Len(p) \in Nat
    BY PlanFinite
  <1>2. Cardinality(P) <= Cardinality(Ids(p))
    BY <1>1, FS_Subset
  <1>3. Cardinality(Ids(p)) = Len(p)
    BY <1>1, <1>2
  <1>4. QED
    BY <1>1, <1>3, FS_Subset
-----------------------------------------------------------------------------
(* The rounds of topological_sort().                                       *)
RoundState(p) == [deg : [Ids(p) -> Int], queue : SUBSET Ids(p)]

LEMMA LoweredType ==
  ASSUME NEW p, IsPlan(p), NEW deg \in [Ids(p) -> Int], NEW S
  PROVE  Lowered(p, deg, S) \in [Ids(p) -> Int] /\ Reached(p, deg, S) \in SUBSET Ids(p)
  BY EdgesIntoSets DEF Lowered, Reached

LEMMA RoundsEqual ==
  ASSUME NEW p, IsPlan(p)
  PROVE  LET r == Rounds(p)
         IN /\ r[0] = [deg |-> InDegree(p), queue |-> Roots(p)]
            /\ \A n \in 1 .. Len(p) :
                 r[n] = [deg   |-> Lowered(p, r[n - 1].deg, r[n - 1].queue),
                         queue |-> Reached(p, r[n - 1].deg, r[n - 1].queue)]
  <1> DEFINE N == Len(p)
             b == [deg |-> InDegree(p), queue |-> Roots(p)]
             next(s) == [deg |-> Lowered(p, s.deg, s.queue), queue |-> Reached(p, s.deg, s.queue)]
             g == [s \in RoundState(p) |-> next(s)]
  <1>1. N \in Nat
    BY PlanFinite
  <1>2. b \in RoundState(p)
    BY EdgesIntoSets DEF RoundState, InDegree, Roots
  <1>3. g \in [RoundState(p) -> RoundState(p)]
    BY LoweredType DEF RoundState
  <1> HIDE DEF N, b, g
  <1> DEFINE S == RoundState(p)
  <1> HIDE DEF next, S
  <1>a. b \in S /\ g \in [S -> S]
    BY <1>2, <1>3 DEF S
  <1>b. PICK f : Iterates(f, N, S, b, g)
    BY <1>1, <1>a, Recursion
  <1>4. f \in [0 .. N -> S] /\ f[0] = b /\ \A n \in 1 .. N : f[n] = g[f[n - 1]]
    BY <1>b DEF Iterates
  <1>5. \A n \in 1 .. N : f[n] = next(f[n - 1])
    <2>1. \A n \in 1 .. N : n - 1 \in 0 .. N
      BY <1>1
    <2>2. \A s \in S : g[s] = next(s)
      BY DEF g, S
    <2>3. QED
      BY <1>4, <2>1, <2>2
  <1>6. f = [n \in 0 .. N |-> IF n = 0 THEN b ELSE next(f[n - 1])]
    <2>1. \A n \in 0 .. N : f[n] = IF n = 0 THEN b ELSE next(f[n - 1])
      BY <1>1, <1>4, <1>5
    <2>2. f = [n \in 0 .. N |-> f[n]]
      BY <1>4
    <2>3. QED
      BY <2>1, <2>2
  <1> DEFINE Is(h) == h = [n \in 0 .. N |-> IF n = 0 THEN b ELSE next(h[n - 1])]
  <1>7. Rounds(p) = CHOOSE h : Is(h)
    BY DEF Rounds, N, b, next
  <1>8. Is(Rounds(p))
    BY <1>6, <1>7
  <1>9. /\ Rounds(p)[0] = b
        /\ \A n \in 1 .. N : Rounds(p)[n] = next(Rounds(p)[n - 1])
    BY <1>1, <1>8
  <1>10. QED
    BY <1>9 DEF N, b, next

-----------------------------------------------------------------------------
Queue(p, n) == Rounds(p)[n].queue
Before(p, n) == UNION {Queue(p, k) : k \in 0 .. n - 1}
Waves(p) == [n \in {k \in 1 .. Len(p) : Queue(p, k - 1) # {}} |-> Queue(p, n - 1)]

LEMMA BeforeNext ==
  ASSUME NEW p, NEW n \in Nat
  PROVE  Before(p, 0) = {} /\ Before(p, n + 1) = Before(p, n) \cup Queue(p, n)
  <1>1. 0 .. n = (0 .. n - 1) \cup {n} /\ 0 .. 0 - 1 = {}
    OBVIOUS
  <1>2. QED
    BY <1>1 DEF Before

LEMMA RoundsProcess ==
  ASSUME NEW p, IsPlan(p), ~UnknownDependency(p)
  PROVE  \A n \in 0 .. Len(p) : Processed(p, Before(p, n), Rounds(p)[n].deg, Queue(p, n))
  <1> DEFINE N == Len(p)
             Good(n) == Processed(p, Before(p, n), Rounds(p)[n].deg, Queue(p, n))
             T == {n \in Nat : n <= N => Good(n)}
  <1>1. N \in Nat
    BY PlanFinite
  <1>2. Good(0)
    <2>1. Rounds(p)[0] = [deg |-> InDegree(p), queue |-> Roots(p)]
      BY RoundsEqual
    <2>2. Rounds(p)[0].deg = InDegree(p) /\ Queue(p, 0) = Roots(p)
      BY <2>1 DEF Queue
    <2>3. Before(p, 0) = {}
      BY BeforeNext
    <2>4. QED
      BY <2>2, <2>3, NothingProcessed
  <1>3. ASSUME NEW n \in Nat, n < N, Good(n) PROVE Good(n + 1)
    <2>1. n + 1 \in 1 .. N /\ (n + 1) - 1 = n
      BY <1>1, <1>3
    <2>2. Rounds(p)[n + 1] = [deg   |-> Lowered(p, Rounds(p)[n].deg, Queue(p, n)),
                              queue |-> Reached(p, Rounds(p)[n].deg, Queue(p, n))]
      BY <2>1, RoundsEqual DEF Queue
    <2>3. /\ Rounds(p)[n + 1].deg = Lowered(p, Rounds(p)[n].deg, Queue(p, n))
          /\ Queue(p, n + 1) = (Queue(p, n) \ Queue(p, n)) \cup Reached(p, Rounds(p)[n].deg, Queue(p, n))
      BY <2>2 DEF Queue
    <2>4. Before(p, n + 1) = Before(p, n) \cup Queue(p, n)
      BY BeforeNext
    <2>5. QED
      BY <1>3, <2>3, <2>4, Processing
  <1> HIDE DEF N, Good
  <1>4. T \in SUBSET Nat /\ 0 \in T /\ \A n \in T : n < N => n + 1 \in T
    BY <1>1, <1>2, <1>3
  <1> HIDE DEF T
  <1>5. \A n \in 0 .. N : n \in T
    BY <1>1, <1>4, UpTo
  <1>6. QED
    BY <1>1, <1>5 DEF T, Good, N

(* The queue of a round holds what has become ready and was in none before.*)
LEMMA QueueFacts ==
  ASSUME NEW p, IsPlan(p), ~UnknownDependency(p), NEW n \in 0 .. Len(p)
  PROVE  /\ Queue(p, n) = Ready(p, Before(p, n)) /\ Queue(p, n) \subseteq Ids(p)
         /\ Before(p, n) \subseteq Ids(p) /\ Acyclic(p, Before(p, n))
         /\ \A m \in 0 .. n - 1 : Queue(p, m) \cap Queue(p, n) = {}
         /\ \A m \in n .. Len(p) : Queue(p, n) = {} => Queue(p, m) = {} /\ Before(p, m) = Before(p, n)
  <1> DEFINE N == Len(p)
  <1>1. N \in Nat
    BY PlanFinite
  <1>2. \A m \in 0 .. N : /\ Queue(p, m) = Ready(p, Before(p, m)) /\ Before(p, m) \subseteq Ids(p)
                          /\ Acyclic(p, Before(p, m))
    BY RoundsProcess DEF Processed
  <1>3. ASSUME NEW m \in 0 .. n - 1 PROVE Queue(p, m) \cap Queue(p, n) = {}
    <2>1. Queue(p, m) \subseteq Before(p, n)
      BY DEF Before
    <2>2. QED
      BY <1>2, <2>1 DEF Ready
  <1>4. ASSUME Queue(p, n) = {}
        PROVE  \A m \in n .. N : Queue(p, m) = {} /\ Before(p, m) = Before(p, n)
    <2> DEFINE T == {k \in Nat : n + k <= N => Queue(p, n + k) = {} /\ Before(p, n + k) = Before(p, n)}
    <2>1. T \in SUBSET Nat /\ 0 \in T
      BY <1>4
    <2>2. ASSUME NEW k \in T PROVE k + 1 \in T
      <3>1. k \in Nat /\ n + k \in Nat /\ n + (k + 1) = (n + k) + 1
        OBVIOUS
      <3> SUFFICES ASSUME n + (k + 1) <= N
                   PROVE  /\ Queue(p, n + (k + 1)) = {}
                          /\ Before(p, n + (k + 1)) = Before(p, n)
        BY <3>1
      <3>2. Queue(p, n + k) = {} /\ Before(p, n + k) = Before(p, n)
        BY <1>1, <3>1
      <3>a. Before(p, (n + k) + 1) = Before(p, n + k) \cup Queue(p, n + k)
        BY <3>1, BeforeNext
      <3>3. Before(p, n + (k + 1)) = Before(p, n)
        BY <3>1, <3>2, <3>a
      <3>4. n + (k + 1) \in 0 .. N
        BY <1>1, <3>1
      <3>5. QED
        BY <1>2, <1>4, <3>3, <3>4
    <2> HIDE DEF T
    <2>a. N - n \in Nat /\ \A k \in T : k < N - n => k + 1 \in T
      BY <1>1, <2>2
    <2> DEFINE D == N - n
    <2> HIDE DEF N, D
    <2>3. \A k \in 0 .. D : k \in T
      BY <2>1, <2>a, UpTo DEF D
    <2>4. ASSUME NEW m \in n .. N PROVE Queue(p, m) = {} /\ Before(p, m) = Before(p, n)
      <3>1. m - n \in 0 .. D /\ n + (m - n) = m /\ m <= N
        BY <1>1 DEF D
      <3>2. m - n \in T
        BY <2>3, <3>1
      <3>3. QED
        BY <3>1, <3>2 DEF T
    <2>5. QED
      BY <2>4
  <1>5. QED
    BY <1>2, <1>3, <1>4 DEF Ready

LEMMA WavesOf ==
  ASSUME NEW p, IsPlan(p), ~UnknownDependency(p)
  PROVE  /\ \E n \in 0 .. Len(p) : DOMAIN Waves(p) = 1 .. n
         /\ DOMAIN Waves(p) \subseteq 1 .. Len(p)
         /\ UNION {Waves(p)[w] : w \in DOMAIN Waves(p)} = Before(p, Len(p))
         /\ \A v, w \in DOMAIN Waves(p) : Waves(p)[v] \cap Waves(p)[w] # {} => v = w
  <1> DEFINE N == Len(p)
             D == {k \in 1 .. N : Queue(p, k - 1) # {}}
             ended == {n \in 0 .. N : n < N => Queue(p, n) = {}}
  <1>1. N \in Nat
    BY PlanFinite
  <1>2. DOMAIN Waves(p) = D /\ \A w \in D : Waves(p)[w] = Queue(p, w - 1)
    BY DEF Waves
  <1>3. ended \in SUBSET Nat /\ ended # {}
    <2>1. N \in ended
      BY <1>1
    <2>2. QED
      BY <1>1, <2>1
  <1>4. PICK n \in ended : \A m \in ended : n <= m
    BY <1>3, LeastNat
  <1>5. D = 1 .. n
    <2>1. ASSUME NEW k \in 1 .. n PROVE k \in D
      <3>1. k - 1 \in 0 .. N /\ k - 1 < n /\ k \in 1 .. N
        BY <1>1, <1>4
      <3>2. k - 1 \notin ended
        BY <1>1, <1>4, <3>1
      <3>3. QED
        BY <3>1, <3>2
    <2>2. ASSUME NEW k \in D PROVE k \in 1 .. n
      <3>1. SUFFICES ASSUME n < k PROVE FALSE
        BY <1>1, <1>4
      <3>2. Queue(p, n) = {} /\ n \in 0 .. N /\ k - 1 \in n .. N
        BY <1>1, <1>4, <3>1
      <3>3. Queue(p, k - 1) = {}
        BY <3>2, QueueFacts
      <3>4. QED
        BY <3>3
    <2>3. QED
      BY <2>1, <2>2
  <1>6. n \in 0 .. N
    BY <1>1, <1>4
  <1> HIDE DEF ended
  <1>7. UNION {Waves(p)[w] : w \in D} = Before(p, N)
    <2>1. ASSUME NEW a \in Before(p, N) PROVE a \in UNION {Waves(p)[w] : w \in D}
      <3>1. PICK k \in 0 .. N - 1 : a \in Queue(p, k)
        BY DEF Before
      <3>2. k + 1 \in 1 .. N /\ (k + 1) - 1 = k
        BY <1>1
      <3>3. k + 1 \in D /\ a \in Waves(p)[k + 1]
        BY <1>2, <3>1, <3>2
      <3>4. QED
        BY <3>3
    <2>2. ASSUME NEW w \in D, NEW a \in Waves(p)[w] PROVE a \in Before(p, N)
      <3>1. w - 1 \in 0 .. N - 1 /\ a \in Queue(p, w - 1)
        BY <1>1, <1>2
      <3>2. QED
        BY <3>1 DEF Before
    <2>3. QED
      BY <2>1, <2>2
  <1>8. ASSUME NEW v \in D, NEW w \in D, Waves(p)[v] \cap Waves(p)[w] # {}, v < w PROVE FALSE
    <2>1. v - 1 \in 0 .. (w - 1) - 1 /\ w - 1 \in 0 .. N
      BY <1>1, <1>8
    <2>2. Queue(p, v - 1) \cap Queue(p, w - 1) = {}
      BY <2>1, QueueFacts
    <2>3. QED
      BY <1>2, <1>8, <2>2
  <1>9. \A v, w \in D : Waves(p)[v] \cap Waves(p)[w] # {} => v = w
    <2> SUFFICES ASSUME NEW v \in D, NEW w \in D, Waves(p)[v] \cap Waves(p)[w] # {}, v # w PROVE FALSE
      OBVIOUS
    <2>1. v < w \/ w < v
      BY <1>1
    <2>2. Waves(p)[w] \cap Waves(p)[v] # {}
      OBVIOUS
    <2>3. QED
      BY <1>8, <2>1, <2>2
  <1>10. QED
    BY <1>2, <1>5, <1>6, <1>7, <1>9

(* The waves, once they have all agents, sort them.                        *)
LEMMA WavesSort ==
  ASSUME NEW p, IsPlan(p), ~UnknownDependency(p), Before(p, Len(p)) = Ids(p)
  PROVE  Sorts(p, Waves(p))
  <1> DEFINE D == DOMAIN Waves(p)
             Own(a) == WaveOf(Waves(p), a)
  <1>1. Len(p) \in Nat
    BY PlanFinite
  <1>2. \A w \in D : w \in 1 .. Len(p) /\ Waves(p)[w] = Queue(p, w - 1)
    BY WavesOf DEF Waves
  <1>3. \A a \in Ids(p) : Own(a) \in D /\ a \in Waves(p)[Own(a)]
    <2>1. \A a \in Ids(p) : \E w \in D : a \in Waves(p)[w]
      BY WavesOf
    <2>2. QED
      BY <2>1 DEF WaveOf
  <1>4. ASSUME NEW a \in Ids(p), NEW w \in D, a \in Waves(p)[w] PROVE Own(a) = w
    <2>1. Waves(p)[w] \cap Waves(p)[Own(a)] # {}
      BY <1>3, <1>4
    <2>2. QED
      BY <1>3, <2>1, WavesOf
  <1> HIDE DEF Own
  <1>5. ASSUME NEW a \in Ids(p), NEW b \in DependsOn(p, a) PROVE b \in Ids(p) /\ Own(b) < Own(a)
    <2> DEFINE w == Own(a)
    <2>1. w \in D /\ w \in 1 .. Len(p) /\ w - 1 \in 0 .. Len(p) /\ a \in Queue(p, w - 1)
      BY <1>1, <1>2, <1>3
    <2>2. DependsOn(p, a) \subseteq Before(p, w - 1)
      BY <2>1, QueueFacts DEF Ready
    <2>3. PICK k \in 0 .. (w - 1) - 1 : b \in Queue(p, k)
      BY <2>2 DEF Before
    <2>4. k + 1 \in 1 .. Len(p) /\ (k + 1) - 1 = k /\ k + 1 < w
      BY <1>1, <2>1, <2>3
    <2>5. k + 1 \in D /\ b \in Waves(p)[k + 1]
      BY <2>3, <2>4 DEF Waves
    <2>6. b \in Ids(p)
      BY KnownDependencies
    <2>7. QED
      BY <1>4, <2>4, <2>5, <2>6
  <1>6. ASSUME NEW a \in Ids(p), Own(a) > 1
        PROVE  \E b \in DependsOn(p, a) : Own(b) = Own(a) - 1
    <2> DEFINE w == Own(a)
               n == w - 2
    <2>1. w \in D /\ w \in 1 .. Len(p) /\ w - 1 \in 0 .. Len(p) /\ a \in Queue(p, w - 1)
      BY <1>1, <1>2, <1>3
    <2>2. n \in Nat /\ n \in 0 .. Len(p) /\ n + 1 = w - 1
      BY <1>1, <1>6, <2>1
    <2>3. /\ DependsOn(p, a) \subseteq Before(p, n) \cup Queue(p, n)
          /\ a \notin Before(p, n) /\ a \notin Queue(p, n)
      BY <2>1, <2>2, QueueFacts, BeforeNext DEF Ready
    <2>4. PICK b \in DependsOn(p, a) : b \in Queue(p, n)
      BY <2>2, <2>3, QueueFacts DEF Ready
    <2>5. w - 1 \in 1 .. Len(p) /\ (w - 1) - 1 = n
      BY <1>1, <1>6, <2>1
    <2>6. w - 1 \in D /\ b \in Waves(p)[w - 1]
      BY <2>4, <2>5 DEF Waves
    <2>7. b \in Ids(p)
      BY KnownDependencies
    <2>8. QED
      BY <1>4, <2>4, <2>6, <2>7
  <1>7. QED
    BY <1>5, <1>6, WavesOf DEF Sorts, Own

(* `total_sorted` is the number of agents that were processed.             *)
LEMMA SortedCount ==
  ASSUME NEW p, IsPlan(p), ~UnknownDependency(p)
  PROVE  Cardinality(UNION {{n} \X Waves(p)[n] : n \in DOMAIN Waves(p)}) = Cardinality(Before(p, Len(p)))
  <1> DEFINE D == DOMAIN Waves(p)
             S == UNION {{n} \X Waves(p)[n] : n \in D}
             P == Before(p, Len(p))
             f == [x \in S |-> x[2]]
  <1>1. Len(p) \in Nat /\ Len(p) \in 0 .. Len(p)
    BY PlanFinite
  <1>2. IsFiniteSet(P)
    BY <1>1, PlanFinite, QueueFacts, FS_Subset
  <1>3. P = UNION {Waves(p)[n] : n \in D}
    BY WavesOf
  <1> HIDE DEF P
  <1>4. ASSUME NEW x \in S PROVE x[1] \in D /\ x[2] \in Waves(p)[x[1]] /\ x = <<x[1], x[2]>>
    OBVIOUS
  <1>5. f \in [S -> P]
    BY <1>3, <1>4
  <1>6. \A x, y \in S : x[2] = y[2] => x = y
    <2> SUFFICES ASSUME NEW x \in S, NEW y \in S, x[2] = y[2] PROVE x = y
      OBVIOUS
    <2>1. x[1] = y[1]
      BY <1>4, WavesOf
    <2>2. QED
      BY <1>4, <2>1
  <1>7. \A a \in P : \E x \in S : x[2] = a
    <2> SUFFICES ASSUME NEW a \in P PROVE \E x \in S : x[2] = a
      OBVIOUS
    <2>1. PICK n \in D : a \in Waves(p)[n]
      BY <1>3
    <2>2. <<n, a>> \in S
      BY <2>1
    <2>3. QED
      BY <2>2
  <1> HIDE DEF S
  <1>8. f \in Injection(S, P) /\ f \in Surjection(S, P)
    BY <1>5, <1>6, <1>7 DEF Injection, Surjection, IsInjective
  <1>9. Cardinality(S) = Cardinality(P)
    BY <1>2, <1>8, FS_Injection
  <1>10. QED
    BY <1>9 DEF S, P

(* Every round processes an agent until none is ready.                     *)
LEMMA RoundsSuffice ==
  ASSUME NEW p, IsPlan(p), Executable(p)
  PROVE  Before(p, Len(p)) = Ids(p)
  <1> DEFINE N == Len(p)
             Good(n) == Queue(p, n) = {} \/ n <= Cardinality(Before(p, n))
             T == {n \in Nat : n <= N => Good(n)}
  <1>1. N \in Nat /\ IsFiniteSet(Ids(p)) /\ Cardinality(Ids(p)) = N /\ ~UnknownDependency(p)
        /\ Acyclic(p, Ids(p))
    BY PlanFinite DEF Executable, Acyclic
  <1>2. \A n \in 0 .. N : /\ Before(p, n) \subseteq Ids(p) /\ Queue(p, n) \subseteq Ids(p)
                          /\ Queue(p, n) = Ready(p, Before(p, n))
    BY <1>1, QueueFacts
  <1>3. Good(0)
    <2>1. Before(p, 0) = {}
      BY BeforeNext
    <2>2. Cardinality(Before(p, 0)) = 0
      BY <2>1, FS_EmptySet
    <2>3. QED
      BY <2>2
  <1>4. ASSUME NEW n \in Nat, n < N, Good(n) PROVE Good(n + 1)
    <2>1. n \in 0 .. N /\ n + 1 \in n .. N
      BY <1>1, <1>4
    <2>2. CASE Queue(p, n) = {}
      BY <1>1, <2>1, <2>2, QueueFacts
    <2>3. CASE Queue(p, n) # {} /\ n <= Cardinality(Before(p, n))
      <3>1. /\ IsFiniteSet(Before(p, n)) /\ IsFiniteSet(Queue(p, n))
            /\ Before(p, n) \cap Queue(p, n) = {}
        BY <1>1, <1>2, <2>1, FS_Subset DEF Ready
      <3>2. Cardinality(Before(p, n + 1)) = Cardinality(Before(p, n)) + Cardinality(Queue(p, n))
        <4>1. Before(p, n + 1) = Before(p, n) \cup Queue(p, n)
          BY BeforeNext
        <4>2. QED
          BY <3>1, <4>1, DisjointUnion
      <3>3. /\ Cardinality(Before(p, n)) \in Nat
            /\ Cardinality(Queue(p, n)) \in Nat /\ Cardinality(Queue(p, n)) # 0
        BY <2>3, <3>1, FS_CardinalityType, FS_EmptySet
      <3>4. QED
        BY <2>3, <3>2, <3>3
    <2>4. QED
      BY <1>4, <2>2, <2>3
  <1> HIDE DEF N, Good
  <1>5. T \in SUBSET Nat /\ 0 \in T /\ \A n \in T : n < N => n + 1 \in T
    BY <1>1, <1>3, <1>4
  <1> HIDE DEF T
  <1>6. N \in T
    BY <1>1, <1>5, UpTo
  <1>7. Good(N) /\ N \in 0 .. N
    BY <1>1, <1>6 DEF T
  <1>8. CASE Queue(p, N) = {}
    BY <1>1, <1>2, <1>7, <1>8, NobodyReady DEF N
  <1>9. CASE N <= Cardinality(Before(p, N))
    <2>1. Before(p, N) \in SUBSET Ids(p)
      BY <1>2, <1>7
    <2>2. Cardinality(Before(p, N)) <= Cardinality(Ids(p)) /\ Cardinality(Before(p, N)) \in Nat
      BY <1>1, <2>1, FS_Subset, FS_CardinalityType
    <2>3. Cardinality(Ids(p)) = Cardinality(Before(p, N))
      BY <1>1, <1>9, <2>2
    <2>4. QED
      BY <1>1, <2>1, <2>3, FS_Subset DEF N
  <1>10. QED
    BY <1>7, <1>8, <1>9 DEF Good

LEMMA SortRight ==
  ASSUME NEW p, IsPlan(p)
  PROVE  /\ TopologicalSort(p).result = "ok" <=> Executable(p)
         /\ TopologicalSort(p).result = "ok" => Sorts(p, TopologicalSort(p).waves)
  <1> DEFINE sorted == UNION {{n} \X Waves(p)[n] : n \in DOMAIN Waves(p)}
  <1>1. TopologicalSort(p) =
          IF UnknownDependency(p) THEN [result |-> "KeyError", waves |-> <<>>]
          ELSE IF Cardinality(sorted) # Len(p) THEN [result |-> "ValueError", waves |-> <<>>]
          ELSE [result |-> "ok", waves |-> Waves(p)]
    BY DEF TopologicalSort, Waves, Queue
  <1> HIDE DEF sorted
  <1>2. /\ TopologicalSort(p).result = "ok" <=> ~UnknownDependency(p) /\ Cardinality(sorted) = Len(p)
        /\ TopologicalSort(p).result = "ok" => TopologicalSort(p).waves = Waves(p)
    BY <1>1
  <1>3. CASE UnknownDependency(p)
    BY <1>2, <1>3 DEF Executable
  <1>4. CASE ~UnknownDependency(p)
    <2>1. Cardinality(sorted) = Cardinality(Before(p, Len(p)))
      BY <1>4, SortedCount DEF sorted
    <2>2. Len(p) \in 0 .. Len(p)
      BY PlanFinite
    <2>3. Before(p, Len(p)) \in SUBSET Ids(p) /\ Acyclic(p, Before(p, Len(p)))
      BY <1>4, <2>2, QueueFacts
    <2>4. ASSUME Cardinality(sorted) = Len(p) PROVE Executable(p) /\ Sorts(p, Waves(p))
      <3>1. Before(p, Len(p)) = Ids(p) /\ Cardinality(Ids(p)) = Len(p)
        BY <2>1, <2>3, <2>4, AllProcessed
      <3>2. Acyclic(p, Ids(p))
        BY <2>3, <3>1
      <3>3. QED
        BY <1>4, <3>1, <3>2, WavesSort DEF Executable, Acyclic
    <2>5. ASSUME Executable(p) PROVE Cardinality(sorted) = Len(p)
      BY <2>1, <2>5, RoundsSuffice DEF Executable
    <2>6. QED
      BY <1>2, <1>4, <2>4, <2>5
  <1>5. QED
    BY <1>3, <1>4
-----------------------------------------------------------------------------
(* validate_dependency_graph() processes the agents of the queue one by    *)
(* one.                                                                    *)
VisitState(p) == [deg : [Ids(p) -> Int], queue : SUBSET Ids(p), visited : Nat]

VisitNext(p, s) ==
    LET node == CHOOSE a \in s.queue : TRUE
    IN IF s.queue = {} THEN s
       ELSE [deg     |-> Lowered(p, s.deg, {node}),
             queue   |-> (s.queue \ {node}) \cup Reached(p, s.deg, {node}),
             visited |-> s.visited + 1]

LEMMA VisitsEqual ==
  ASSUME NEW p, IsPlan(p)
  PROVE  LET v == Visits(p)
         IN /\ v[0] = [deg |-> InDegree(p), queue |-> Roots(p), visited |-> 0]
            /\ \A n \in 1 .. Len(p) : v[n] = VisitNext(p, v[n - 1])
  <1> DEFINE N == Len(p)
             b == [deg |-> InDegree(p), queue |-> Roots(p), visited |-> 0]
             S == VisitState(p)
             g == [s \in S |-> VisitNext(p, s)]
  <1>1. N \in Nat
    BY PlanFinite
  <1>2. b \in S
    BY EdgesIntoSets DEF VisitState, InDegree, Roots
  <1>3. ASSUME NEW s \in S PROVE VisitNext(p, s) \in S
    <2> DEFINE node == CHOOSE a \in s.queue : TRUE
    <2>1. /\ s.deg \in [Ids(p) -> Int] /\ s.queue \in SUBSET Ids(p) /\ s.visited \in Nat
      BY DEF VisitState
    <2>2. CASE s.queue = {}
      BY <2>2 DEF VisitNext
    <2>3. CASE s.queue # {}
      <3>1. VisitNext(p, s) = [deg     |-> Lowered(p, s.deg, {node}),
                               queue   |-> (s.queue \ {node}) \cup Reached(p, s.deg, {node}),
                               visited |-> s.visited + 1]
        BY <2>3 DEF VisitNext
      <3> HIDE DEF node
      <3>2. Lowered(p, s.deg, {node}) \in [Ids(p) -> Int] /\ Reached(p, s.deg, {node}) \in SUBSET Ids(p)
        BY <2>1, LoweredType
      <3>3. QED
        BY <2>1, <3>1, <3>2 DEF VisitState
    <2>4. QED
      BY <2>2, <2>3
  <1> HIDE DEF N, b, S
  <1>4. g \in [S -> S]
    BY <1>3
  <1> HIDE DEF g
  <1>5. PICK f : Iterates(f, N, S, b, g)
    BY <1>1, <1>2, <1>4, Recursion
  <1>6. f \in [0 .. N -> S] /\ f[0] = b /\ \A n \in 1 .. N : f[n] = g[f[n - 1]]
    BY <1>5 DEF Iterates
  <1>7. \A n \in 1 .. N : f[n] = VisitNext(p, f[n - 1])
    <2>1. \A n \in 1 .. N : n - 1 \in 0 .. N
      BY <1>1
    <2>2. QED
      BY <1>6, <2>1 DEF g
  <1>8. f = [n \in 0 .. N |-> IF n = 0 THEN b ELSE VisitNext(p, f[n - 1])]
    <2>1. \A n \in 0 .. N : f[n] = IF n = 0 THEN b ELSE VisitNext(p, f[n - 1])
      BY <1>1, <1>6, <1>7
    <2>2. f = [n \in 0 .. N |-> f[n]]
      BY <1>6
    <2>3. QED
      BY <2>1, <2>2
  <1> DEFINE Is(h) == h = [n \in 0 .. N |-> IF n = 0 THEN b ELSE VisitNext(p, h[n - 1])]
  <1>9. Visits(p) = CHOOSE h : Is(h)
    BY DEF Visits, N, b, VisitNext
  <1>10. Is(Visits(p))
    BY <1>8, <1>9
  <1>11. /\ Visits(p)[0] = b
         /\ \A n \in 1 .. N : Visits(p)[n] = VisitNext(p, Visits(p)[n - 1])
    BY <1>1, <1>10
  <1>12. QED
    BY <1>11 DEF N, b

(* After n visits n agents have been processed, or the queue is empty.     *)
VisitedUpTo(p, P, s, n) ==
    /\ Processed(p, P, s.deg, s.queue)
    /\ s.visited = Cardinality(P)
    /\ s.queue = {} \/ s.visited = n

LEMMA VisitsProcess ==
  ASSUME NEW p, IsPlan(p), ~UnknownDependency(p)
  PROVE  \E P : VisitedUpTo(p, P, Visits(p)[Len(p)], Len(p))
  <1> DEFINE N == Len(p)
             T == {n \in Nat : n <= N => \E P : VisitedUpTo(p, P, Visits(p)[n], n)}
  <1>1. N \in Nat
    BY PlanFinite
  <1>2. VisitedUpTo(p, {}, Visits(p)[0], 0)
    <2>0. Visits(p)[0] = [deg |-> InDegree(p), queue |-> Roots(p), visited |-> 0]
      BY VisitsEqual
    <2>1. /\ Visits(p)[0].deg = InDegree(p) /\ Visits(p)[0].queue = Roots(p)
          /\ Visits(p)[0].visited = 0
      BY <2>0
    <2>2. QED
      BY <2>1, NothingProcessed, FS_EmptySet DEF VisitedUpTo
  <1>3. ASSUME NEW n \in Nat, n < N, NEW P, VisitedUpTo(p, P, Visits(p)[n], n)
        PROVE  \E R : VisitedUpTo(p, R, Visits(p)[n + 1], n + 1)
    <2> DEFINE s == Visits(p)[n]
               t == Visits(p)[n + 1]
               node == CHOOSE a \in s.queue : TRUE
    <2>1. n + 1 \in 1 .. N /\ (n + 1) - 1 = n
      BY <1>1, <1>3
    <2>2. t = VisitNext(p, s)
      BY <2>1, VisitsEqual
    <2>3. Processed(p, P, s.deg, s.queue) /\ s.visited = Cardinality(P)
          /\ (s.queue = {} \/ s.visited = n)
      BY <1>3 DEF VisitedUpTo
    <2>4. CASE s.queue = {}
      <3>1. t = s
        BY <2>2, <2>4 DEF VisitNext
      <3>2. VisitedUpTo(p, P, t, n + 1)
        BY <2>3, <2>4, <3>1 DEF VisitedUpTo
      <3>3. QED
        BY <3>2
    <2>5. CASE s.queue # {}
      <3>1. t = [deg     |-> Lowered(p, s.deg, {node}),
                 queue   |-> (s.queue \ {node}) \cup Reached(p, s.deg, {node}),
                 visited |-> s.visited + 1]
        BY <2>2, <2>5 DEF VisitNext
      <3>2. node \in s.queue
        BY <2>5
      <3> HIDE DEF node
      <3>3. /\ t.deg = Lowered(p, s.deg, {node}) /\ t.visited = s.visited + 1
            /\ t.queue = (s.queue \ {node}) \cup Reached(p, s.deg, {node})
        BY <3>1
      <3> HIDE DEF s, t
      <3>4. Processed(p, P \cup {node}, t.deg, t.queue)
        <4>1. {node} \in SUBSET s.queue
          BY <3>2
        <4>2. Processed(p, P \cup {node}, Lowered(p, s.deg, {node}),
                        (s.queue \ {node}) \cup Reached(p, s.deg, {node}))
          BY <2>3, <4>1, Processing
        <4>3. QED
          BY <3>3, <4>2
      <3>5. node \notin P /\ IsFiniteSet(P)
        BY <2>3, <3>2, PlanFinite, FS_Subset DEF Processed, Ready
      <3>6. Cardinality(P \cup {node}) = Cardinality(P) + 1
        BY <3>5, FS_AddElement
      <3>7. VisitedUpTo(p, P \cup {node}, t, n + 1)
        BY <2>3, <2>5, <3>3, <3>4, <3>6 DEF VisitedUpTo
      <3>8. QED
        BY <3>7 DEF t
    <2>6. QED
      BY <2>4, <2>5
  <1> HIDE DEF N
  <1>4. T \in SUBSET Nat /\ 0 \in T /\ \A n \in T : n < N => n + 1 \in T
    BY <1>1, <1>2, <1>3
  <1> HIDE DEF T
  <1>5. N \in T
    BY <1>1, <1>4, UpTo
  <1>6. QED
    BY <1>1, <1>5 DEF T, N

LEMMA ValidationRight ==
  ASSUME NEW p, IsPlan(p)
  PROVE  ValidateDependencyGraph(p) <=> Executable(p)
  <1>1. CASE UnknownDependency(p)
    BY <1>1 DEF ValidateDependencyGraph, Executable
  <1>2. CASE ~UnknownDependency(p)
    <2> DEFINE s == Visits(p)[Len(p)]
    <2>1. PICK P : VisitedUpTo(p, P, s, Len(p))
      BY <1>2, VisitsProcess
    <2> HIDE DEF s
    <2>2. /\ P \in SUBSET Ids(p) /\ Acyclic(p, P) /\ s.queue = Ready(p, P)
          /\ s.visited = Cardinality(P) /\ (s.queue = {} \/ s.visited = Len(p))
      BY <2>1 DEF VisitedUpTo, Processed
    <2>3. ASSUME s.visited = Len(p) PROVE Executable(p)
      <3>1. P = Ids(p) /\ Cardinality(Ids(p)) = Len(p)
        BY <2>2, <2>3, AllProcessed
      <3>2. QED
        BY <1>2, <2>2, <3>1 DEF Executable, Acyclic
    <2>4. ASSUME Executable(p) PROVE s.visited = Len(p)
      <3>1. Cardinality(Ids(p)) = Len(p) /\ Acyclic(p, Ids(p))
        BY <2>4 DEF Executable, Acyclic
      <3>2. QED
        BY <1>2, <2>2, <3>1, NobodyReady
    <2>5. QED
      BY <1>2, <2>3, <2>4 DEF ValidateDependencyGraph, s
  <1>3. QED
    BY <1>1, <1>2

(* topological_sort() and validate_dependency_graph(), for every plan: they*)
(* accept exactly what can be executed, and the waves sort it.             *)
THEOREM SortCorrectTheorem == \A p : IsPlan(p) => SortCorrect(p)
  BY SortRight, ValidationRight DEF SortCorrect

-----------------------------------------------------------------------------
(* The executor.                                                           *)

Statuses == {"none", "running", "completed", "failed", "cancelled"}
Phases == {"routed", "announcing", "wave", "spawning", "ended"}

TypeInv ==
    /\ plan \in Plans
    /\ phase \in Phases /\ wave \in Nat \ {0}
    /\ status \in [Ids(plan) -> Statuses]
    /\ todo \cup waveRuns \cup failed \cup skipped \subseteq Ids(plan)
    /\ begun \cup cancelReq \cup done \subseteq Ids(plan)

(* The executor is at work on sorted waves.                                *)
Executing == phase \in {"wave", "spawning"}

(* The agents of the waves that are over, and of those that have begun.    *)
Past(a) == \E w \in DOMAIN waves : w < wave /\ a \in waves[w]
Present(a) == phase = "spawning" /\ a \in waves[wave]
Seen(a) == Past(a) \/ Present(a)

(* A run that is done stays as it ended.                                   *)
DoneInv == \A a \in done : status[a] \in {"completed", "failed", "cancelled"}

Settled(a) == a \in done /\ status[a] \in {"completed", "cancelled"}

(* What became of an agent.  One that was refused has no run.              *)
AgentsInv ==
    /\ skipped \cap (failed \cup Spawned) = {}
    /\ \A a \in failed : status[a] \in {"none", "failed"}
    /\ todo \cap (skipped \cup failed \cup Spawned) = {}
    /\ waveRuns \subseteq Spawned \ failed

WaveInv ==
    /\ phase = "spawning" => wave \in DOMAIN waves
    /\ phase = "wave" => todo = {} /\ waveRuns = {}
    /\ \A a \in todo \cup waveRuns : Present(a)
    /\ \A a \in failed \cup skipped \cup Spawned : Seen(a)
    /\ \A a \in Ids(plan) : Past(a) => a \in skipped \cup failed \/ Settled(a)
    /\ \A a \in Ids(plan) : Present(a) => a \in skipped \cup failed \cup todo \cup waveRuns

(* An agent of a wave that has begun is skipped exactly if one of its      *)
(* dependencies was, or failed; and then one it depends on failed.         *)
SkipInv ==
    /\ \A a \in Ids(plan) :
         Seen(a) /\ a \notin skipped => DependsOn(plan, a) \cap (failed \cup skipped) = {}
    /\ \A a \in skipped : Ancestors(plan, a) \cap failed # {}

ExecInv ==
    Executing => /\ Executable(plan) /\ Sorts(plan, waves)
                 /\ AgentsInv /\ WaveInv /\ SkipInv

(* Before the plan is sorted nothing has happened.                         *)
IdleInv ==
    phase \in {"routed", "announcing"} =>
        /\ Spawned \cup failed \cup skipped \cup todo \cup waveRuns = {}
        /\ wave = 1

OutcomeInv == ReportExact /\ (phase # "ended" => outcome.told = "nothing")

PlanInv == TypeInv /\ DoneInv /\ IdleInv /\ ExecInv /\ UpstreamsSettled /\ OutcomeInv

-----------------------------------------------------------------------------
(* Waves that sort a plan: what an agent depends on is in earlier ones.    *)
Layers(p, order) ==
    /\ \E n \in Nat : DOMAIN order = 1 .. n
    /\ \A w \in DOMAIN order : order[w] \subseteq Ids(p)
    /\ \A a \in Ids(p) : \E w \in DOMAIN order : a \in order[w]
    /\ \A v, w \in DOMAIN order : \A a \in order[v] : a \in order[w] => v = w
    /\ \A w \in DOMAIN order : \A a \in order[w] : \A b \in DependsOn(p, a) :
         /\ b \in Ids(p)
         /\ \E v \in DOMAIN order : v < w /\ b \in order[v]

LEMMA SortsLayers ==
  ASSUME NEW p, IsPlan(p), NEW order, Executable(p), Sorts(p, order)
  PROVE  Layers(p, order)
  <1>1. \E n \in Nat : DOMAIN order = 1 .. n
    BY PlanFinite DEF Sorts
  <1>2. /\ \A w \in DOMAIN order : order[w] \subseteq Ids(p)
        /\ \A a \in Ids(p) : \E w \in DOMAIN order : a \in order[w]
        /\ \A v, w \in DOMAIN order : \A a \in order[v] : a \in order[w] => v = w
    BY DEF Sorts
  <1>3. \A a \in Ids(p) : WaveOf(order, a) \in DOMAIN order /\ a \in order[WaveOf(order, a)]
    BY <1>2 DEF WaveOf
  <1>4. ASSUME NEW w \in DOMAIN order, NEW a \in order[w], NEW b \in DependsOn(p, a)
        PROVE  b \in Ids(p) /\ \E v \in DOMAIN order : v < w /\ b \in order[v]
    <2>1. a \in Ids(p) /\ b \in Ids(p)
      BY <1>2, KnownDependencies DEF Executable
    <2>2. WaveOf(order, a) = w
      BY <1>2, <1>3, <2>1
    <2>3. WaveOf(order, b) < WaveOf(order, a)
      BY <2>1 DEF Sorts
    <2>4. QED
      BY <1>3, <2>1, <2>2, <2>3
  <1>5. QED
    BY <1>1, <1>2, <1>4 DEF Layers

(* What an agent depends on remotely, it depends on or one of those does.  *)
LEMMA AncestorsOf ==
  ASSUME NEW p, Executable(p), NEW a
  PROVE  /\ DependsOn(p, a) \subseteq Ancestors(p, a)
         /\ \A b \in DependsOn(p, a) : Ancestors(p, b) \subseteq Ancestors(p, a)
  BY KnownDependencies DEF Ancestors, Executable

LEMMA AncestorsWithin ==
  ASSUME NEW p, NEW a, NEW A \in SUBSET Ids(p), DependsOn(p, a) \subseteq A,
         \A b \in A : DependsOn(p, b) \subseteq A
  PROVE  Ancestors(p, a) \subseteq A
  BY DEF Ancestors
-----------------------------------------------------------------------------
LEMMA InitPlanInv == Init => PlanInv
  <1> SUFFICES ASSUME Init PROVE PlanInv
    OBVIOUS
  <1>2. Spawned = {}
    BY DEF Init, Spawned
  <1>3. TypeInv
    BY DEF Init, TypeInv, Phases, Statuses
  <1>4. DoneInv /\ IdleInv /\ ExecInv
    BY <1>2 DEF Init, DoneInv, IdleInv, ExecInv, Executing
  <1>5. UpstreamsSettled
    BY <1>2 DEF UpstreamsSettled
  <1>6. OutcomeInv
    BY DEF Init, OutcomeInv, ReportExact
  <1>7. QED
    BY <1>3, <1>4, <1>5, <1>6 DEF PlanInv

(* The executor works on waves that sort the plan.                         *)
LEMMA PlanOK == TypeInv => IsPlan(plan) /\ SortCorrect(plan)
  BY PlansAssumption, SortCorrectTheorem DEF TypeInv

LEMMA SortingKeeps ==
  ASSUME PlanInv, YieldPlan \/ StartPlan
  PROVE  PlanInv'
  <1> USE DEF PlanInv
  <1>1. /\ UNCHANGED <<plan, wave, todo, waveRuns, failed, skipped, status, begun, cancelReq, done>>
        /\ phase \in {"routed", "announcing"} /\ phase' \in {"announcing", "wave", "ended"}
    BY DEF YieldPlan, StartPlan, runVars
  <1>2. Spawned' = Spawned /\ Spawned = {} /\ failed = {} /\ skipped = {} /\ todo = {}
        /\ waveRuns = {} /\ wave = 1
    BY <1>1 DEF Spawned, IdleInv
  <1>3. TypeInv' /\ DoneInv' /\ UpstreamsSettled'
    BY <1>1, <1>2 DEF TypeInv, Phases, DoneInv, UpstreamsSettled
  <1>4. IdleInv'
    BY <1>1, <1>2 DEF IdleInv
  <1>5. ExecInv'
    <2> SUFFICES ASSUME Executing' PROVE ExecInv'
      BY DEF ExecInv
    <2>1. StartPlan /\ TopologicalSort(plan).result = "ok" /\ waves' = TopologicalSort(plan).waves
          /\ phase' = "wave"
      BY <1>1 DEF Executing, YieldPlan, StartPlan
    <2>2. Executable(plan)' /\ Sorts(plan, waves)'
      BY <1>1, <2>1, PlanOK DEF SortCorrect
    <2>3. \A a : ~Seen(a)'
      <3>1. Layers(plan', waves')
        BY <1>1, <2>2, PlanOK, SortsLayers
      <3>2. QED
        BY <1>1, <1>2, <2>1, <3>1 DEF Layers, Seen, Past, Present
    <2>4. AgentsInv'
      BY <1>1, <1>2 DEF AgentsInv
    <2>5. WaveInv'
      BY <1>1, <1>2, <2>1, <2>3 DEF WaveInv, Seen
    <2>6. SkipInv'
      BY <1>1, <1>2, <2>3 DEF SkipInv
    <2>7. QED
      BY <2>2, <2>4, <2>5, <2>6 DEF ExecInv
  <1>6. OutcomeInv'
    BY <1>1 DEF OutcomeInv, ReportExact, YieldPlan, StartPlan
  <1>7. QED
    BY <1>1, <1>3, <1>4, <1>5, <1>6

(* The agents of the next wave have not been seen; what they depend on has.*)
LEMMA BeginWaveKeeps ==
  ASSUME PlanInv, BeginWave
  PROVE  PlanInv'
  <1> USE DEF PlanInv
  <1> DEFINE now == waves[wave]
             skips == {a \in now : ShouldSkip(a)}
  <1>1. /\ phase = "wave" /\ phase' = "spawning" /\ wave \in DOMAIN waves
        /\ todo' = {a \in now : ~ShouldSkip(a)} /\ skipped' = skipped \cup skips
        /\ UNCHANGED <<plan, waves, wave, waveRuns, failed, outcome, status, begun, cancelReq, done>>
    BY DEF BeginWave, runVars
  <1>2. Executable(plan) /\ Sorts(plan, waves) /\ AgentsInv /\ WaveInv /\ SkipInv
    BY <1>1 DEF ExecInv, Executing
  <1>3. Layers(plan, waves) /\ wave \in DOMAIN waves /\ now \subseteq Ids(plan)
    BY <1>1, <1>2, PlanOK, SortsLayers DEF Layers, TypeInv
  <1>4. Spawned' = Spawned
    BY <1>1 DEF Spawned
  <1> HIDE DEF now
  <1>5. \A a : ShouldSkip(a) <=> DependsOn(plan, a) \cap (failed \cup skipped) # {}
    BY DEF ShouldSkip
  <1>6. \A a : /\ Past(a)' <=> Past(a)
               /\ Present(a)' <=> a \in now
               /\ Seen(a) <=> Past(a)
               /\ Past(a) => a \notin now
               /\ Seen(a)' <=> Seen(a) \/ a \in now
    BY <1>1, <1>3 DEF Past, Present, Seen, Layers, now
  <1>7. \A a \in Ids(plan) : Seen(a)' => DependsOn(plan, a) \cap now = {}
    <2> SUFFICES ASSUME NEW a \in Ids(plan), Seen(a)', NEW b \in DependsOn(plan, a) PROVE b \notin now
      OBVIOUS
    <2>1. PICK w \in DOMAIN waves : w <= wave /\ a \in waves[w]
      BY <1>3, <1>6 DEF Past, now, Layers, TypeInv
    <2>2. PICK v \in DOMAIN waves : v < w /\ b \in waves[v]
      BY <1>3, <2>1 DEF Layers
    <2>3. v # wave
      BY <1>3, <2>1, <2>2 DEF Layers, TypeInv
    <2>4. QED
      BY <1>3, <2>2, <2>3 DEF Layers, now
  <1>8. TypeInv'
    BY <1>1, <1>3 DEF TypeInv, Phases
  <1>9. AgentsInv'
    BY <1>1, <1>2, <1>4, <1>6 DEF AgentsInv, WaveInv
  <1>10. WaveInv'
    BY <1>1, <1>2, <1>3, <1>4, <1>6 DEF WaveInv, Settled
  <1>11. SkipInv'
    <2>1. ASSUME NEW a \in Ids(plan), Seen(a)', a \notin skipped'
          PROVE  DependsOn(plan, a) \cap (failed' \cup skipped') = {}
      BY <1>1, <1>2, <1>5, <1>6, <1>7, <2>1 DEF SkipInv
    <2>2. ASSUME NEW a \in skipped' PROVE Ancestors(plan, a) \cap failed # {}
      <3>1. CASE a \in skipped
        BY <1>2, <3>1 DEF SkipInv
      <3>2. CASE a \in skips
        <4>1. PICK b \in DependsOn(plan, a) : b \in failed \cup skipped
          BY <1>5, <3>2
        <4>2. b \in Ancestors(plan, a) /\ Ancestors(plan, b) \subseteq Ancestors(plan, a)
          BY <1>2, AncestorsOf
        <4>3. QED
          BY <1>2, <4>1, <4>2 DEF SkipInv
      <3>3. QED
        BY <1>1, <2>2, <3>1, <3>2
    <2>3. QED
      BY <1>1, <2>1, <2>2 DEF SkipInv
  <1>12. QED
    BY <1>1, <1>2, <1>4, <1>8, <1>9, <1>10, <1>11
       DEF ExecInv, DoneInv, Settled, IdleInv, UpstreamsSettled, OutcomeInv, ReportExact

(* An agent is spawned, or refused and counted as failed: its dependencies *)
(* are in waves that are over.                                             *)
LEMMA SpawnKeeps ==
  ASSUME PlanInv, Spawn
  PROVE  PlanInv'
  <1> USE DEF PlanInv
  <1>1. /\ phase = "spawning"
        /\ UNCHANGED <<plan, waves, phase, wave, skipped, outcome, begun, cancelReq, done>>
    BY DEF Spawn
  <1>2. PICK a \in todo :
          /\ todo' = todo \ {a}
          /\ \/ failed' = failed \cup {a} /\ UNCHANGED <<status, waveRuns>>
             \/ /\ status' = [status EXCEPT ![a] = "running"]
                /\ waveRuns' = waveRuns \cup {a}
                /\ UNCHANGED failed
    BY DEF Spawn
  <1>3. Executable(plan) /\ Sorts(plan, waves) /\ AgentsInv /\ WaveInv /\ SkipInv
    BY <1>1 DEF ExecInv, Executing
  <1>4. Layers(plan, waves)
    BY <1>3, PlanOK, SortsLayers
  <1>5. /\ a \in Ids(plan) /\ Present(a) /\ a \notin skipped \cup failed \cup Spawned
        /\ status[a] = "none" /\ a \notin done
    <2>1. a \in Ids(plan) /\ Present(a) /\ a \notin skipped \cup failed \cup Spawned
      BY <1>3 DEF TypeInv, WaveInv, AgentsInv
    <2>2. status[a] = "none"
      BY <2>1 DEF Spawned
    <2>3. QED
      BY <2>1, <2>2 DEF DoneInv
  <1>6. \A b : (Past(b)' <=> Past(b)) /\ (Present(b)' <=> Present(b)) /\ (Seen(b)' <=> Seen(b))
    BY <1>1 DEF Past, Present, Seen
  <1>7. \A b \in Ids(plan) : Seen(b) => a \notin DependsOn(plan, b)
    <2> SUFFICES ASSUME NEW b \in Ids(plan), Seen(b), a \in DependsOn(plan, b) PROVE FALSE
      OBVIOUS
    <2>1. wave \in DOMAIN waves /\ a \in waves[wave]
      BY <1>1, <1>3, <1>5 DEF WaveInv, Present
    <2>2. PICK w \in DOMAIN waves : w <= wave /\ b \in waves[w]
      BY <1>4, <2>1 DEF Past, Present, Seen, Layers, TypeInv
    <2>3. PICK v \in DOMAIN waves : v < w /\ a \in waves[v]
      BY <1>4, <2>2 DEF Layers
    <2>4. v # wave
      BY <1>4, <2>2, <2>3 DEF Layers, TypeInv
    <2>5. QED
      BY <1>4, <2>1, <2>3, <2>4 DEF Layers
  <1>8. \A b \in DependsOn(plan, a) : Settled(b)
    <2> SUFFICES ASSUME NEW b \in DependsOn(plan, a) PROVE Settled(b)
      OBVIOUS
    <2>1. wave \in DOMAIN waves /\ a \in waves[wave]
      BY <1>1, <1>3, <1>5 DEF WaveInv, Present
    <2>2. b \in Ids(plan) /\ Past(b)
      BY <1>4, <2>1 DEF Layers, Past
    <2>3. b \notin failed \cup skipped
      BY <1>3, <1>5 DEF SkipInv, Seen
    <2>4. QED
      BY <1>3, <2>2, <2>3 DEF WaveInv
  <1>9. \A b \in Ids(plan) : b # a => status'[b] = status[b]
    BY <1>2 DEF TypeInv
  <1>10. CASE failed' = failed \cup {a} /\ UNCHANGED <<status, waveRuns>>
    <2>1. Spawned' = Spawned
      BY <1>1, <1>10 DEF Spawned
    <2>2. TypeInv'
      BY <1>1, <1>2, <1>5, <1>10 DEF TypeInv
    <2>3. AgentsInv'
      BY <1>1, <1>2, <1>3, <1>5, <1>10, <2>1 DEF AgentsInv
    <2>4. WaveInv'
      BY <1>1, <1>2, <1>3, <1>5, <1>6, <1>10, <2>1 DEF WaveInv, Settled, Seen
    <2>5. SkipInv'
      BY <1>1, <1>3, <1>6, <1>7, <1>10 DEF SkipInv
    <2>6. QED
      BY <1>1, <1>3, <1>10, <2>1, <2>2, <2>3, <2>4, <2>5
         DEF ExecInv, DoneInv, Settled, IdleInv, UpstreamsSettled, OutcomeInv, ReportExact
  <1>11. CASE /\ status' = [status EXCEPT ![a] = "running"]
              /\ waveRuns' = waveRuns \cup {a}
              /\ UNCHANGED failed
    <2>1. status'[a] = "running" /\ Spawned' = Spawned \cup {a}
      BY <1>1, <1>5, <1>9, <1>11 DEF Spawned, TypeInv
    <2>2. TypeInv'
      BY <1>1, <1>2, <1>5, <1>11 DEF TypeInv, Statuses
    <2>3. \A b \in done \cup failed : b \in Ids(plan) /\ status'[b] = status[b]
      BY <1>5, <1>9 DEF TypeInv
    <2>4. DoneInv' /\ \A b \in Ids(plan) : Settled(b) => Settled(b)'
      BY <1>1, <2>3 DEF DoneInv, Settled
    <2>5. AgentsInv'
      BY <1>1, <1>2, <1>3, <1>5, <1>11, <2>1, <2>3 DEF AgentsInv
    <2>6. WaveInv'
      BY <1>1, <1>2, <1>3, <1>5, <1>6, <1>11, <2>1, <2>4 DEF WaveInv, Seen
    <2>7. SkipInv'
      BY <1>1, <1>3, <1>6, <1>11 DEF SkipInv
    <2>8. UpstreamsSettled'
      <3>1. \A b \in Spawned' : \A c \in DependsOn(plan, b) : Settled(c)
        BY <1>8, <2>1 DEF UpstreamsSettled, Settled
      <3>2. \A b \in Spawned' : \A c \in DependsOn(plan, b) : Settled(c)'
        BY <2>4, <3>1 DEF Settled, TypeInv
      <3>3. QED
        BY <1>1, <3>2 DEF UpstreamsSettled, Settled
    <2>9. IdleInv' /\ OutcomeInv'
      BY <1>1, <1>11 DEF IdleInv, OutcomeInv, ReportExact
    <2>10. QED
      BY <1>1, <1>3, <2>2, <2>4, <2>5, <2>6, <2>7, <2>8, <2>9 DEF ExecInv
  <1>12. QED
    BY <1>2, <1>10, <1>11

(* A wave is over: all its runs are done, and those that failed count as   *)
(* failed.                                                                 *)
LEMMA EndWaveKeeps ==
  ASSUME PlanInv, EndWave
  PROVE  PlanInv'
  <1> USE DEF PlanInv
  <1> DEFINE fails == {a \in waveRuns : status[a] = "failed"}
  <1>1. /\ phase = "spawning" /\ phase' = "wave" /\ todo = {} /\ waveRuns \subseteq done
        /\ failed' = failed \cup fails /\ wave' = wave + 1 /\ waveRuns' = {}
        /\ UNCHANGED <<plan, waves, todo, skipped, outcome, status, begun, cancelReq, done>>
    BY DEF EndWave, WaveOver, runVars
  <1>2. Executable(plan) /\ Sorts(plan, waves) /\ AgentsInv /\ WaveInv /\ SkipInv
    BY <1>1 DEF ExecInv, Executing
  <1>3. Layers(plan, waves) /\ wave \in DOMAIN waves
    BY <1>1, <1>2, PlanOK, SortsLayers DEF WaveInv
  <1>4. Spawned' = Spawned
    BY <1>1 DEF Spawned
  <1>5. \A a : (Past(a)' <=> Past(a) \/ Present(a)) /\ ~Present(a)' /\ (Seen(a)' <=> Seen(a))
    BY <1>1, <1>3 DEF Past, Present, Seen, Layers, TypeInv
  <1>6. \A a \in fails : Present(a) /\ a \in Spawned /\ a \in Ids(plan)
    BY <1>2 DEF WaveInv, AgentsInv, TypeInv
  <1>7. \A a \in Ids(plan) : Seen(a) => DependsOn(plan, a) \cap fails = {}
    <2> SUFFICES ASSUME NEW a \in Ids(plan), Seen(a), NEW b \in DependsOn(plan, a) PROVE b \notin fails
      OBVIOUS
    <2>1. PICK w \in DOMAIN waves : w <= wave /\ a \in waves[w]
      BY <1>3 DEF Past, Present, Seen, Layers, TypeInv
    <2>2. PICK v \in DOMAIN waves : v < w /\ b \in waves[v]
      BY <1>3, <2>1 DEF Layers
    <2>3. v # wave
      BY <1>3, <2>1, <2>2 DEF Layers, TypeInv
    <2>4. b \notin waves[wave]
      BY <1>3, <2>2, <2>3 DEF Layers
    <2>5. QED
      BY <1>6, <2>4 DEF Present
  <1>8. TypeInv'
    BY <1>1, <1>6 DEF TypeInv, Phases
  <1>9. AgentsInv'
    BY <1>1, <1>2, <1>4, <1>6 DEF AgentsInv
  <1>10. WaveInv'
    <2>1. ASSUME NEW a \in Ids(plan), Past(a)' PROVE a \in skipped \cup failed' \/ Settled(a)
      BY <1>1, <1>2, <1>5, <2>1 DEF WaveInv, DoneInv, Settled
    <2>2. \A a \in failed' \cup skipped' \cup Spawned' : Seen(a)'
      BY <1>1, <1>2, <1>4, <1>5, <1>6 DEF WaveInv, Seen
    <2>3. QED
      BY <1>1, <1>5, <2>1, <2>2 DEF WaveInv, Settled
  <1> HIDE DEF fails
  <1>11. SkipInv'
    BY <1>1, <1>2, <1>5, <1>7 DEF SkipInv
  <1>12. QED
    BY <1>1, <1>2, <1>4, <1>8, <1>9, <1>10, <1>11
       DEF ExecInv, DoneInv, Settled, IdleInv, UpstreamsSettled, OutcomeInv, ReportExact, Executing

(* The plan ends before its last wave.                                     *)
LEMMA AbortKeeps ==
  ASSUME PlanInv, WaveTimesOut \/ Crash
  PROVE  PlanInv'
  <1> USE DEF PlanInv
  <1>1. /\ phase' = "ended" /\ outcome'.told \in {"timeout", "crashed"}
        /\ UNCHANGED <<plan, waves, wave, todo, waveRuns, failed, skipped, status, begun, done>>
        /\ cancelReq' \in {cancelReq, cancelReq \cup (waveRuns \ done)}
    BY DEF WaveTimesOut, Crash, CancelUndone, runVars
  <1>2. Spawned' = Spawned
    BY <1>1 DEF Spawned
  <1>3. TypeInv'
    BY <1>1 DEF TypeInv, Phases
  <1>4. QED
    BY <1>1, <1>2, <1>3
       DEF ExecInv, Executing, DoneInv, IdleInv, UpstreamsSettled, OutcomeInv, ReportExact
-----------------------------------------------------------------------------
LEMMA FourParts ==
  ASSUME NEW S, IsFiniteSet(S), NEW A, NEW B, NEW C, NEW D, S = ((A \cup B) \cup C) \cup D,
         A \cap B = {}, A \cap C = {}, A \cap D = {}, B \cap C = {}, B \cap D = {}, C \cap D = {}
  PROVE  Cardinality(A) + Cardinality(B) + Cardinality(C) + Cardinality(D) = Cardinality(S)
  <1>1. IsFiniteSet(A) /\ IsFiniteSet(B) /\ IsFiniteSet(C) /\ IsFiniteSet(D)
    BY FS_Subset
  <1>2. IsFiniteSet(A \cup B) /\ Cardinality(A \cup B) = Cardinality(A) + Cardinality(B)
    BY <1>1, DisjointUnion
  <1>3. /\ IsFiniteSet((A \cup B) \cup C)
        /\ Cardinality((A \cup B) \cup C) = Cardinality(A) + Cardinality(B) + Cardinality(C)
    <2>1. (A \cup B) \cap C = {}
      OBVIOUS
    <2>2. QED
      BY <1>1, <1>2, <2>1, DisjointUnion
  <1>4. ((A \cup B) \cup C) \cap D = {}
    OBVIOUS
  <1>5. Cardinality(S) = Cardinality((A \cup B) \cup C) + Cardinality(D)
    BY <1>1, <1>3, <1>4, DisjointUnion
  <1>6. QED
    BY <1>3, <1>5

(* All the waves are over: every agent was skipped, failed, or has a run   *)
(* that completed or was cancelled, and the counts are of these four.      *)
LEMMA FinishKeeps ==
  ASSUME PlanInv, Finish
  PROVE  PlanInv'
  <1> USE DEF PlanInv
  <1> DEFINE completed == {a \in Spawned : status[a] = "completed"}
             cancelled == {a \in Spawned : status[a] = "cancelled"}
  <1>1. /\ phase = "wave" /\ phase' = "ended" /\ wave \notin DOMAIN waves
        /\ UNCHANGED <<plan, waves, wave, todo, waveRuns, failed, skipped, status, begun, cancelReq, done>>
    BY DEF Finish, runVars
  <1>2. outcome' = [told      |-> "completed",
                    succeeded |-> Cardinality(completed), cancelled |-> Cardinality(cancelled),
                    failed    |-> Cardinality(failed), skipped |-> Cardinality(skipped)]
    BY DEF Finish
  <1> HIDE DEF completed, cancelled
  <1>3. /\ outcome'.told = "completed" /\ outcome'.succeeded = Cardinality(completed)
        /\ outcome'.cancelled = Cardinality(cancelled)
        /\ outcome'.failed = Cardinality(failed) /\ outcome'.skipped = Cardinality(skipped)
    BY <1>2
  <1>4. Executable(plan) /\ Sorts(plan, waves) /\ AgentsInv /\ WaveInv /\ SkipInv
    BY <1>1 DEF ExecInv, Executing
  <1>5. \A a \in Ids(plan) : Past(a)
    <2>1. Layers(plan, waves)
      BY <1>4, PlanOK, SortsLayers
    <2>2. \A w \in DOMAIN waves : w < wave
      BY <1>1, <2>1 DEF Layers, TypeInv
    <2>3. QED
      BY <2>1, <2>2 DEF Past, Layers
  <1>6. /\ failed \subseteq Ids(plan) /\ skipped \subseteq Ids(plan)
        /\ done \subseteq Ids(plan) /\ plan \in Plans
    BY DEF TypeInv
  <1>7. Cardinality(completed) + Cardinality(cancelled) + Cardinality(failed) + Cardinality(skipped) = Len(plan)
    <2>1. Ids(plan) = ((completed \cup cancelled) \cup failed) \cup skipped
      <3>1. \A a \in Ids(plan) : Settled(a) => a \in completed \cup cancelled
        BY DEF Settled, completed, cancelled, Spawned
      <3>2. completed \cup cancelled \subseteq Ids(plan)
        BY DEF completed, cancelled, Spawned
      <3>3. \A a \in Ids(plan) : a \in skipped \cup failed \/ Settled(a)
        BY <1>4, <1>5 DEF WaveInv
      <3>4. QED
        BY <1>6, <3>1, <3>2, <3>3
    <2>2. /\ completed \cap cancelled = {} /\ completed \cap failed = {} /\ completed \cap skipped = {}
          /\ cancelled \cap failed = {} /\ cancelled \cap skipped = {} /\ failed \cap skipped = {}
      BY <1>4 DEF AgentsInv, completed, cancelled
    <2>3. IsFiniteSet(Ids(plan)) /\ Cardinality(Ids(plan)) = Len(plan)
      BY <1>4, PlanOK, PlanFinite DEF Executable
    <2>4. QED
      BY <2>1, <2>2, <2>3, FourParts
  <1>8. skipped = {a \in Ids(plan) : Ancestors(plan, a) \cap failed # {}}
    <2>1. \A a \in skipped : Ancestors(plan, a) \cap failed # {}
      BY <1>4 DEF SkipInv
    <2>2. ASSUME NEW a \in Ids(plan), a \notin skipped PROVE Ancestors(plan, a) \cap failed = {}
      <3> DEFINE A == Ids(plan) \ (failed \cup skipped)
      <3>1. \A b \in Ids(plan) \ skipped : DependsOn(plan, b) \subseteq A
        <4>1. \A b \in Ids(plan) \ skipped : DependsOn(plan, b) \cap (failed \cup skipped) = {}
          BY <1>4, <1>5 DEF SkipInv, Seen
        <4>2. QED
          BY <1>4, <4>1, KnownDependencies DEF Executable
      <3>2. Ancestors(plan, a) \subseteq A
        BY <2>2, <3>1, AncestorsWithin
      <3>3. QED
        BY <3>2
    <2>3. QED
      BY <1>6, <2>1, <2>2
  <1>9. ReportExact'
    BY <1>1, <1>3, <1>7, <1>8 DEF ReportExact
  <1>10. Spawned' = Spawned
    BY <1>1 DEF Spawned
  <1>11. TypeInv'
    BY <1>1 DEF TypeInv, Phases
  <1>12. QED
    BY <1>1, <1>9, <1>10, <1>11 DEF ExecInv, Executing, DoneInv, IdleInv, UpstreamsSettled, OutcomeInv
-----------------------------------------------------------------------------
(* The runs go on: which agents have one does not change, nor how a run    *)
(* that is done, or counts as failed, has ended.                           *)
LEMMA RunsKeep ==
  ASSUME PlanInv, UNCHANGED <<plan, waves, execVars>>, Spawned' = Spawned, done \subseteq done',
         \A a \in done \cup failed : status'[a] = status[a], TypeInv', DoneInv'
  PROVE  PlanInv'
  <1> USE DEF PlanInv, execVars
  <1>1. \A a : Settled(a) => Settled(a)'
    BY DEF Settled
  <1>2. \A a : (Past(a)' <=> Past(a)) /\ (Present(a)' <=> Present(a)) /\ (Seen(a)' <=> Seen(a))
    BY DEF Past, Present, Seen
  <1>3. UpstreamsSettled'
    BY <1>1 DEF UpstreamsSettled, Settled
  <1>4. ExecInv'
    <2> SUFFICES ASSUME Executing' PROVE ExecInv'
      BY DEF ExecInv
    <2>1. Executable(plan) /\ Sorts(plan, waves) /\ AgentsInv /\ WaveInv /\ SkipInv
      BY DEF ExecInv, Executing
    <2>2. AgentsInv'
      BY <2>1 DEF AgentsInv
    <2>3. WaveInv'
      BY <1>1, <1>2, <2>1 DEF WaveInv
    <2>4. SkipInv'
      BY <1>2, <2>1 DEF SkipInv
    <2>5. QED
      BY <2>1, <2>2, <2>3, <2>4 DEF ExecInv
  <1>5. IdleInv' /\ OutcomeInv'
    BY DEF IdleInv, OutcomeInv, ReportExact
  <1>6. QED
    BY <1>3, <1>4, <1>5

LEMMA RunStepKeeps ==
  ASSUME PlanInv, NEW a \in Ids(plan), RunBegins(a) \/ UserCancels(a) \/ RunEnds(a) \/ RunDone(a)
  PROVE  PlanInv'
  <1> USE DEF PlanInv
  <1>1. UNCHANGED <<plan, waves, execVars>>
    BY DEF RunBegins, UserCancels, RunEnds, RunDone
  <1>2. CASE RunBegins(a) \/ UserCancels(a)
    <2>1. UNCHANGED <<status, done>> /\ begun' \subseteq begun \cup {a} /\ cancelReq' \subseteq cancelReq \cup {a}
      BY <1>2 DEF RunBegins, UserCancels
    <2>2. Spawned' = Spawned /\ TypeInv' /\ DoneInv'
      BY <1>1, <2>1 DEF execVars, Spawned, TypeInv, DoneInv
    <2>3. QED
      BY <1>1, <2>1, <2>2, RunsKeep
  <1>3. CASE RunEnds(a)
    <2>1. /\ status[a] = "running" /\ UNCHANGED <<begun, done>> /\ cancelReq' \subseteq cancelReq
          /\ \E s \in {"completed", "failed", "cancelled"} : status' = [status EXCEPT ![a] = s]
      BY <1>3 DEF RunEnds, Running
    <2>2. PICK s \in {"completed", "failed", "cancelled"} : status' = [status EXCEPT ![a] = s]
      BY <2>1
    <2>3. status'[a] = s /\ \A b \in Ids(plan) \ {a} : status'[b] = status[b]
      BY <2>2 DEF TypeInv
    <2>4. a \notin done
      BY <2>1 DEF DoneInv
    <2>5. TypeInv'
      BY <1>1, <2>1, <2>2 DEF TypeInv, Statuses, execVars
    <2>6. Spawned' = Spawned
      BY <1>1, <2>1, <2>3 DEF Spawned
    <2>7. DoneInv'
      BY <2>1, <2>3, <2>4 DEF DoneInv, TypeInv
    <2>8. CASE Executing
      <3>1. a \notin failed
        BY <2>1, <2>8 DEF ExecInv, AgentsInv
      <3>2. QED
        BY <1>1, <2>1, <2>3, <2>4, <2>5, <2>6, <2>7, <3>1, RunsKeep DEF TypeInv
    <2>9. CASE ~Executing
      BY <1>1, <2>1, <2>3, <2>4, <2>5, <2>6, <2>7, <2>9
         DEF ExecInv, Executing, IdleInv, OutcomeInv, ReportExact, UpstreamsSettled, execVars, TypeInv
    <2>10. QED
      BY <2>8, <2>9
  <1>4. CASE RunDone(a)
    <2>1. /\ a \in Spawned \ (Running \cup done) /\ done' = done \cup {a} /\ UNCHANGED <<begun, cancelReq>>
          /\ \/ status' = status
             \/ status[a] = "completed" /\ status' = [status EXCEPT ![a] = "cancelled"]
      BY <1>4 DEF RunDone
    <2>2. \A b \in Ids(plan) \ {a} : status'[b] = status[b]
      BY <2>1 DEF TypeInv
    <2>3. /\ status[a] \in {"completed", "failed", "cancelled"}
          /\ status'[a] \in {"completed", "failed", "cancelled"}
          /\ status[a] = "failed" => status'[a] = "failed"
      BY <2>1 DEF TypeInv, Statuses, Spawned, Running
    <2>4. TypeInv'
      BY <1>1, <2>1 DEF TypeInv, Statuses, execVars
    <2>5. Spawned' = Spawned
      BY <1>1, <2>2, <2>3 DEF Spawned
    <2>6. DoneInv'
      BY <2>1, <2>2, <2>3 DEF DoneInv, TypeInv
    <2>7. CASE Executing
      <3>1. a \in failed => status'[a] = status[a]
        BY <2>3, <2>7 DEF ExecInv, AgentsInv
      <3>2. QED
        BY <1>1, <2>1, <2>2, <2>4, <2>5, <2>6, <3>1, RunsKeep DEF TypeInv
    <2>8. CASE ~Executing
      BY <1>1, <2>1, <2>2, <2>4, <2>5, <2>6, <2>8
         DEF ExecInv, Executing, IdleInv, OutcomeInv, ReportExact, UpstreamsSettled, execVars, TypeInv
    <2>9. QED
      BY <2>7, <2>8
  <1>5. QED
    BY <1>2, <1>3, <1>4

LEMMA PlanStep == PlanInv /\ [Next]_vars => PlanInv'
  <1> SUFFICES ASSUME PlanInv, [Next]_vars PROVE PlanInv'
    OBVIOUS
  <1>1. CASE Executor
    BY <1>1, SortingKeeps, BeginWaveKeeps, SpawnKeeps, EndWaveKeeps, AbortKeeps, FinishKeeps DEF Executor
  <1>2. CASE Crash
    BY <1>2, AbortKeeps
  <1>3. ASSUME NEW a \in Ids(plan), RunBegins(a) \/ UserCancels(a) \/ RunEnds(a) \/ RunDone(a)
        PROVE  PlanInv'
    BY <1>3, RunStepKeeps
  <1>4. CASE OtherSpawns \/ OtherEnds \/ UNCHANGED vars
    <2>1. UNCHANGED <<plan, waves, execVars, runVars>>
      BY <1>4 DEF OtherSpawns, OtherEnds, vars, execVars, runVars
    <2>2. Spawned' = Spawned /\ TypeInv' /\ DoneInv'
      BY <2>1 DEF PlanInv, execVars, runVars, Spawned, TypeInv, DoneInv
    <2>3. QED
      BY <2>1, <2>2, RunsKeep DEF runVars
  <1>5. QED
    BY <1>1, <1>2, <1>3, <1>4 DEF Next

LEMMA PlanInvariant == Spec => []PlanInv
  <1>1. QED
    BY InitPlanInv, PlanStep, PTL DEF Spec

(* The executor always has a plan that is sorted right, or is turned away  *)
(* when it cannot be executed.                                             *)
THEOREM WavesCorrectTheorem == Spec => []WavesCorrect
  <1>1. PlanInv => WavesCorrect
    BY PlanOK DEF PlanInv, WavesCorrect
  <1>2. QED
    BY <1>1, PlanInvariant, PTL

(* PlanExecutor: an agent starts only when the runs of all it depends on   *)
(* are done and none of them failed, whatever fails, hangs or is cancelled *)
(* while a wave is being spawned.                                          *)
THEOREM UpstreamsSettledTheorem == Spec => []UpstreamsSettled
  <1>1. PlanInv => UpstreamsSettled
    BY DEF PlanInv
  <1>2. QED
    BY <1>1, PlanInvariant, PTL

(* Its summary: exactly the dependents of failed agents, remote ones too,  *)
(* are skipped, and each agent of the plan is counted once.                *)
THEOREM ReportExactTheorem == Spec => []ReportExact
  <1>1. PlanInv => ReportExact
    BY DEF PlanInv, OutcomeInv
  <1>2. QED
    BY <1>1, PlanInvariant, PTL
=============================================================================
