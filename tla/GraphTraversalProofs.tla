------------------------ MODULE GraphTraversalProofs ------------------------
(***************************************************************************)
(* Proofs about the bounded traversals, for every graph, depth and limit.  *)
(***************************************************************************)
EXTENDS GraphTraversal, SortingProofs, FiniteSetTheorems, SequenceTheorems,
        TLAPS

-----------------------------------------------------------------------------
(* Induction.                                                              *)

(* Induction up to a bound.                                                *)
LEMMA UpTo ==
    ASSUME NEW T, NEW m \in Nat, 0 \in T,
           \A n \in 0 .. m - 1 : n \in T => n + 1 \in T
    PROVE  0 .. m \subseteq T
  <1> SUFFICES ASSUME ~(0 .. m \subseteq T) PROVE FALSE
    OBVIOUS
  <1> DEFINE U == (0 .. m) \ T
  <1>1. U \subseteq Nat /\ U # {}
    OBVIOUS
  <1>2. PICK x \in U : \A y \in U : x <= y
    BY <1>1, LeastMember
  <1>3. x # 0 /\ x - 1 \in 0 .. m - 1
    BY <1>2
  <1>4. x - 1 \in T
    BY <1>2, <1>3
  <1> QED
    BY <1>2, <1>3, <1>4

-----------------------------------------------------------------------------
(* The edge queries.                                                       *)

(* The edges of a graph are finitely many and join nodes.                  *)
LEMMA GraphFacts ==
    ASSUME graph \in Graph
    PROVE  /\ IsFiniteSet(DOMAIN graph)
           /\ DOMAIN graph \subseteq 1 .. MaxEdges
           /\ DOMAIN graph \subseteq Nat
           /\ \A e \in DOMAIN graph : graph[e].from \in Node
                                        /\ graph[e].to \in Node
  <1>1. PICK n \in 0 .. MaxEdges : graph \in [1 .. n -> Edge]
    BY DEF Graph
  <1>2. n \in Nat /\ n <= MaxEdges /\ DOMAIN graph = 1 .. n
    BY <1>1, TraversalAssumption
  <1>3. IsFiniteSet(1 .. n)
    BY <1>2, FS_Interval
  <1>4. \A e \in 1 .. n : graph[e] \in Edge
    BY <1>1
  <1> QED
    BY <1>2, <1>3, <1>4, TraversalAssumption DEF Edge

(* The edges at a node are edges of the graph, and lead to nodes.          *)
LEMMA IncidentFacts ==
    ASSUME graph \in Graph, NEW n
    PROVE  /\ \A way : Wanted(n, way) \subseteq DOMAIN graph
           /\ Incident(n) \subseteq DOMAIN graph
           /\ \A e \in DOMAIN graph : NextKey(n, e) \in Node
           /\ Near(n) \subseteq Node
  <1>1. \A way : Wanted(n, way) \subseteq DOMAIN graph
    BY DEF Wanted, Outbound, Inbound
  <1>2. Incident(n) \subseteq DOMAIN graph
    BY <1>1 DEF Incident
  <1>3. \A e \in DOMAIN graph : NextKey(n, e) \in Node
    BY GraphFacts DEF NextKey
  <1> QED
    BY <1>1, <1>2, <1>3 DEF Near

(* Sorting edges by priority and key.                                      *)
LEMMA PrioritySorts ==
    ASSUME graph \in Graph, NEW S, S \subseteq DOMAIN graph
    PROVE  /\ IsFiniteSet(S)
           /\ IsSorting(ByPriority(S), S, {p \in S \X S : Before(p[1], p[2])})
  <1> DEFINE R == {p \in S \X S : Before(p[1], p[2])}
  <1>1. S \subseteq Nat /\ IsFiniteSet(S)
    BY GraphFacts, FS_Subset
  <1>2. \A e, f \in S : <<e, f>> \in R <=> Before(e, f)
    OBVIOUS
  <1>3. \A e : Priority(graph[e].type) \in Nat
    BY DEF Priority
  <1>4. IsOrder(R, S)
    <2> HIDE DEF R
    <2>1. \A e \in S : <<e, e>> \notin R
      BY <1>1, <1>2, <1>3 DEF Before
    <2>2. \A e, f \in S : e # f => <<e, f>> \in R \/ <<f, e>> \in R
      BY <1>1, <1>2, <1>3 DEF Before
    <2>3. \A e, f, g \in S :
             <<e, f>> \in R /\ <<f, g>> \in R => <<e, g>> \in R
      BY <1>1, <1>2, <1>3 DEF Before
    <2> QED
      BY <2>1, <2>2, <2>3 DEF IsOrder
  <1> QED
    BY <1>1, <1>4, SortedSorts DEF ByPriority

(* A page of edges: at most m, each once, all of the node, the ones that   *)
(* do not fit announced, and none of them with a better priority.          *)
LEMMA PageFacts ==
    ASSUME graph \in Graph, NEW n, NEW m \in Nat
    PROVE  LET page == NextEdgesBounded(n, m)
               left == Incident(n) \ ToSet(page.edges)
           IN  /\ page.edges \in Seq(Incident(n))
               /\ Len(page.edges) <= m
               /\ \A i, j \in 1 .. Len(page.edges) :
                     page.edges[i] = page.edges[j] => i = j
               /\ page.has_more \in BOOLEAN
               /\ page.has_more <=> left # {}
               /\ \A e \in ToSet(page.edges), f \in left :
                     Priority(graph[e].type) <= Priority(graph[f].type)
  <1> DEFINE A == Wanted(n, "outbound")
             B == Wanted(n, "inbound")
             out == EdgesLimited(n, "outbound", m + 1)
             in == EdgesLimited(n, "inbound", m + 1)
             M == ToSet(out) \union ToSet(in)
             merged == ByPriority(M)
             edges == FirstOf(merged, m)
             page == NextEdgesBounded(n, m)
             Order(S) == {p \in S \X S : Before(p[1], p[2])}
             Cut(f, S, k) ==
                /\ f \in Seq(S)
                /\ Len(f) = IF k < Cardinality(S) THEN k ELSE Cardinality(S)
                /\ ToSet(f) \subseteq S
                /\ \A i, j \in 1 .. Len(f) : f[i] = f[j] => i = j
                /\ IsFiniteSet(ToSet(f))
                /\ Cardinality(ToSet(f)) = Len(f)
                /\ k >= Cardinality(S) => ToSet(f) = S
                /\ \A e \in ToSet(f), g \in S \ ToSet(f) : Before(e, g)
  <1>1. ASSUME NEW S, S \subseteq DOMAIN graph, NEW k \in Nat
        PROVE  Cut(FirstOf(ByPriority(S), k), S, k)
    <2>1. IsFiniteSet(S) /\ IsSorting(ByPriority(S), S, Order(S))
      BY <1>1, PrioritySorts
    <2>2. \A e, g : <<e, g>> \in Order(S) => Before(e, g)
      OBVIOUS
    <2> HIDE DEF Order
    <2>3. LET f == FirstOf(ByPriority(S), k)
          IN  /\ f \in Seq(S)
              /\ Len(f) = IF k < Cardinality(S) THEN k ELSE Cardinality(S)
              /\ ToSet(f) \subseteq S
              /\ \A i, j \in 1 .. Len(f) : f[i] = f[j] => i = j
              /\ IsFiniteSet(ToSet(f))
              /\ Cardinality(ToSet(f)) = Len(f)
              /\ k >= Cardinality(S) => ToSet(f) = S
              /\ \A e \in ToSet(f), g \in S \ ToSet(f) : <<e, g>> \in Order(S)
      BY <2>1, FirstFacts
    <2> QED
      BY <2>2, <2>3
  <1>2. /\ A \subseteq DOMAIN graph /\ B \subseteq DOMAIN graph
        /\ Incident(n) = A \union B
    BY IncidentFacts DEF Incident
  <1> HIDE DEF A, B, Cut
  <1>3. Cut(out, A, m + 1) /\ Cut(in, B, m + 1)
    BY <1>1, <1>2 DEF EdgesLimited, A, B
  <1> HIDE DEF out, in
  <1>4. M \subseteq Incident(n) /\ M \subseteq DOMAIN graph
    BY <1>2, <1>3 DEF Cut
  <1>5. Cut(edges, M, m)
    BY <1>1, <1>4
  <1>6. /\ page.edges = edges
        /\ page.has_more = (Len(out) > m \/ Len(in) > m \/ Len(merged) > m)
    BY DEF NextEdgesBounded, A, B, out, in
  <1>7. IsFiniteSet(M) /\ IsSorting(merged, M, Order(M))
    BY <1>4, PrioritySorts
  <1>8. Len(merged) = Cardinality(M) /\ Cardinality(M) \in Nat
    BY <1>7, FS_CardinalityType DEF IsSorting
  <1>9. /\ IsFiniteSet(A) /\ Cardinality(A) \in Nat
        /\ IsFiniteSet(B) /\ Cardinality(B) \in Nat
    BY <1>2, PrioritySorts, FS_CardinalityType
  <1> HIDE DEF page, merged, edges
  <1>10. Len(out) <= Cardinality(M) /\ Len(in) <= Cardinality(M)
    BY <1>3, <1>7, FS_Subset DEF Cut
  <1> HIDE DEF M
  <1>11. page.has_more <=> Cardinality(M) > m
    <2>1. Len(out) \in Nat /\ Len(in) \in Nat
      BY <1>3 DEF Cut
    <2>2. (Len(out) > m \/ Len(in) > m \/ Len(merged) > m)
             <=> Cardinality(M) > m
      BY <1>8, <1>10, <2>1
    <2> QED
      BY <1>6, <2>2
  <1>12. /\ Len(edges) \in Nat /\ Len(edges) <= m
         /\ edges \in Seq(Incident(n))
    BY <1>4, <1>5, <1>8 DEF Cut
  <1>13. CASE Cardinality(M) <= m
    <2>1. Cardinality(A) <= m + 1 /\ Cardinality(B) <= m + 1
      BY <1>3, <1>9, <1>10, <1>8, <1>13 DEF Cut
    <2>2. ToSet(out) = A /\ ToSet(in) = B
      BY <1>3, <1>9, <2>1 DEF Cut
    <2>3. ToSet(edges) = Incident(n)
      BY <1>2, <1>5, <1>8, <1>13, <2>2 DEF Cut, M
    <2> QED
      BY <1>5, <1>6, <1>8, <1>11, <1>12, <1>13, <2>3 DEF Cut, page
  <1>14. CASE Cardinality(M) > m
    <2>1. Len(edges) = m /\ Cardinality(ToSet(edges)) = m
      BY <1>5, <1>8, <1>14 DEF Cut
    <2>2. ToSet(edges) \subseteq M
      BY <1>5 DEF Cut
    <2>3. \A e \in ToSet(edges), f \in M \ ToSet(edges) : Before(e, f)
      BY <1>5 DEF Cut
    <2>4. ASSUME NEW T, T \subseteq M, Cardinality(T) > m
          PROVE  \E g \in T : g \notin ToSet(edges)
      <3> SUFFICES ASSUME T \subseteq ToSet(edges) PROVE FALSE
        OBVIOUS
      <3>1. Cardinality(T) <= m
        BY <1>5, <2>1, FS_Subset DEF Cut
      <3>2. IsFiniteSet(T)
        BY <1>5, FS_Subset DEF Cut
      <3>3. Cardinality(T) \in Nat
        BY <3>2, FS_CardinalityType
      <3> QED
        BY <2>4, <3>1, <3>3
    <2>5. Incident(n) \ ToSet(edges) # {}
      BY <1>4, <1>14, <2>4
    <2>6. \A e, f : Before(e, f) =>
             Priority(graph[e].type) <= Priority(graph[f].type)
      BY DEF Before, Priority
    <2>7. ASSUME NEW e \in ToSet(edges), NEW f \in Incident(n) \ ToSet(edges)
          PROVE  Priority(graph[e].type) <= Priority(graph[f].type)
      <3>1. CASE f \in M
        BY <2>3, <2>6, <3>1
      <3>2. ASSUME NEW x, NEW S, Cut(x, S, m + 1), f \in S \ ToSet(x),
                   ToSet(x) \subseteq M, Cardinality(S) \in Nat
            PROVE  Priority(graph[e].type) <= Priority(graph[f].type)
        <4>1. Cardinality(ToSet(x)) = m + 1
          BY <3>2 DEF Cut
        <4>2. PICK g \in ToSet(x) : g \notin ToSet(edges)
          BY <2>4, <3>2, <4>1
        <4>3. Before(e, g)
          BY <2>3, <3>2, <4>2
        <4>4. Before(g, f)
          BY <3>2, <4>2 DEF Cut
        <4>5. \A k : Priority(graph[k].type) \in Nat
          BY DEF Priority
        <4> QED
          BY <2>6, <4>3, <4>4, <4>5
      <3>3. f \notin M => f \in A \ ToSet(out) \/ f \in B \ ToSet(in)
        BY <1>2, <2>7 DEF M
      <3>4. ToSet(out) \subseteq M /\ ToSet(in) \subseteq M
        BY DEF M
      <3> QED
        BY <1>3, <1>9, <3>1, <3>2, <3>3, <3>4
    <2> QED
      BY <1>5, <1>6, <1>8, <1>11, <1>12, <1>14, <2>5, <2>7 DEF Cut, page
  <1> QED
    BY <1>8, <1>13, <1>14

(* The unbounded query: every edge of the node.  Only an edge from the     *)
(* node to itself is there twice.                                          *)
LEMMA AllFacts ==
    ASSUME graph \in Graph, NEW n
    PROVE  LET all == NextEdgesAll(n)
           IN  /\ all.edges \in Seq(Incident(n))
               /\ ToSet(all.edges) = Incident(n)
               /\ all.has_more = FALSE
               /\ \A i, j \in 1 .. Len(all.edges) :
                     all.edges[i] = all.edges[j] =>
                        i = j \/ NextKey(n, all.edges[i]) = n
  <1> DEFINE A == Wanted(n, "outbound")
             B == Wanted(n, "inbound")
             a == Ascending(A)
             b == Ascending(B)
             edges == a \o b
             Lists(s, S) == /\ s \in Seq(S) /\ ToSet(s) = S
                            /\ \A i, j \in 1 .. Len(s) : s[i] = s[j] => i = j
  <1>1. /\ A \subseteq DOMAIN graph /\ B \subseteq DOMAIN graph
        /\ Incident(n) = A \union B
    BY IncidentFacts DEF Incident
  <1>2. ASSUME NEW S, S \subseteq DOMAIN graph
        PROVE  Lists(Ascending(S), S)
    <2>1. S \subseteq Nat /\ IsFiniteSet(S)
      BY <1>2, GraphFacts, FS_Subset
    <2> QED
      BY <2>1, KeySorts DEF IsSorting
  <1>3. \A e : e \in A /\ e \in B => NextKey(n, e) = n
    BY DEF Wanted, Outbound, Inbound, NextKey
  <1>4. NextEdgesAll(n) = [edges |-> edges, has_more |-> FALSE]
    BY DEF NextEdgesAll
  <1> HIDE DEF A, B
  <1>5. Lists(a, A) /\ Lists(b, B)
    BY <1>1, <1>2
  <1> HIDE DEF a, b
  <1>6. /\ a \in Seq(Incident(n)) /\ b \in Seq(Incident(n))
        /\ Len(a) \in Nat /\ Len(b) \in Nat
        /\ DOMAIN a = 1 .. Len(a) /\ DOMAIN b = 1 .. Len(b)
    BY <1>1, <1>5
  <1>7. /\ edges \in Seq(Incident(n)) /\ Len(edges) = Len(a) + Len(b)
        /\ DOMAIN edges = 1 .. Len(a) + Len(b)
        /\ \A i \in 1 .. Len(a) + Len(b) :
              edges[i] = IF i <= Len(a) THEN a[i] ELSE b[i - Len(a)]
    BY <1>6
  <1> HIDE DEF edges
  <1>8. \A i \in 1 .. Len(a) : a[i] \in A
    BY <1>5, <1>6
  <1>9. \A i \in 1 .. Len(b) : b[i] \in B
    BY <1>5, <1>6
  <1>10. ToSet(edges) = Incident(n)
    <2>1. ASSUME NEW e \in A PROVE \E i \in DOMAIN edges : edges[i] = e
      <3>1. PICK i \in 1 .. Len(a) : a[i] = e
        BY <1>5, <1>6, <2>1 DEF ToSet
      <3> QED
        BY <1>6, <1>7, <3>1
    <2>2. ASSUME NEW e \in B PROVE \E i \in DOMAIN edges : edges[i] = e
      <3>1. PICK i \in 1 .. Len(b) : b[i] = e
        BY <1>5, <1>6, <2>2 DEF ToSet
      <3>2. PICK k : k = Len(a) + i
        OBVIOUS
      <3>3. k \in DOMAIN edges /\ edges[k] = e
        BY <1>6, <1>7, <3>1, <3>2
      <3> QED
        BY <3>3
    <2>3. \A i \in DOMAIN edges : edges[i] \in Incident(n)
      BY <1>7
    <2> QED
      BY <1>1, <2>1, <2>2, <2>3 DEF ToSet
  <1>11. ASSUME NEW i \in 1 .. Len(edges), NEW j \in 1 .. Len(edges),
                edges[i] = edges[j]
         PROVE  i = j \/ NextKey(n, edges[i]) = n
    <2>1. CASE i <= Len(a) /\ j <= Len(a)
      BY <1>5, <1>6, <1>7, <1>11, <2>1
    <2>2. CASE ~(i <= Len(a)) /\ ~(j <= Len(a))
      <3>1. i - Len(a) \in 1 .. Len(b) /\ j - Len(a) \in 1 .. Len(b)
        BY <1>6, <1>7, <2>2
      <3>2. b[i - Len(a)] = b[j - Len(a)]
        BY <1>7, <1>11, <2>2
      <3>3. i - Len(a) = j - Len(a)
        BY <1>5, <3>1, <3>2
      <3> QED
        BY <1>6, <1>7, <3>3
    <2>3. CASE i <= Len(a) /\ ~(j <= Len(a))
      <3>1. edges[i] \in A /\ edges[j] \in B
        BY <1>6, <1>7, <1>8, <1>9, <2>3
      <3> QED
        BY <1>3, <1>11, <3>1
    <2>4. CASE ~(i <= Len(a)) /\ j <= Len(a)
      <3>1. edges[j] \in A /\ edges[i] \in B
        BY <1>6, <1>7, <1>8, <1>9, <2>4
      <3> QED
        BY <1>3, <1>11, <3>1
    <2> QED
      BY <2>1, <2>2, <2>3, <2>4
  <1> QED
    BY <1>4, <1>7, <1>10, <1>11

-----------------------------------------------------------------------------
(* The inductive invariant.                                                *)

Reached == {StartPath} \union ToSet(results)

(* The request, and types.                                                 *)
RequestInv ==
    /\ graph \in Graph
    /\ kind \in {"impact", "trace", "query"}
    /\ depth \in Nat
    /\ limit \in Nat \union {Unbounded}
    /\ kind = "query" => limit # Unbounded

(* What is queued was reached; what was reached starts at the start and is *)
(* not longer than asked for.                                              *)
QueueInv ==
    /\ queue \in Seq(Seq(Hop))
    /\ results \in Seq(Seq(Hop))
    /\ ToSet(queue) \subseteq Reached
    /\ \A p \in ToSet(results) :
          /\ Len(p) \in 2 .. depth + 1
          /\ p[1] = StartPath[1]
    /\ visited \subseteq Node

(* The edges fetched pay for the results they lead to.                     *)
BudgetInv ==
    /\ truncated \in BOOLEAN /\ stopped \in BOOLEAN
    /\ stopped => truncated
    /\ budget \in Nat \union {Unbounded}
    /\ kind = "query" => Len(results) <= limit
    /\ kind # "query" /\ limit # Unbounded =>
          budget # Unbounded /\ Len(results) + budget <= limit

(* A trace extends every path once: a path on the queue has not been       *)
(* extended, any other as far as it goes.                                  *)
TraceInv ==
    /\ \A p \in ToSet(results) : IsSimplePath(p)
    /\ IsInjective(results)
    /\ IsInjective(queue)
    /\ \A r \in ToSet(results) : \E p \in Reached, h \in Hop : r = Append(p, h)
    /\ \A p \in ToSet(queue), h \in Hop : Append(p, h) \notin ToSet(results)
    /\ ~stopped =>
          \A p \in Reached \ ToSet(queue) :
              Len(p) <= depth =>
                  \A e \in Incident(Last(p).node) :
                      \/ \E i \in 1 .. Len(p) :
                             p[i].node = NextKey(Last(p).node, e)
                      \/ Along(p, e) \in ToSet(results)

(* The others reach every node once, and level by level: the queue holds   *)
(* at most two levels, and the neighbours of what has left it were seen.   *)
LevelInv ==
    /\ visited = {Last(p).node : p \in Reached}
    /\ \A i \in 1 .. Len(results) :
          LET p == results[i]
          IN /\ Last(p).node \in Within(Len(p) - 1) \ Within(Len(p) - 2)
             /\ \A j \in 1 .. i - 1 : Last(results[j]).node # Last(p).node
    /\ \A i, j \in 1 .. Len(queue) :
          i < j => /\ Len(queue[i]) <= Len(queue[j])
                   /\ Len(queue[j]) <= Len(queue[1]) + 1
    /\ ~stopped =>
          \A p \in Reached \ ToSet(queue) :
              Len(p) <= depth => Near(Last(p).node) \subseteq visited

TraversalIInv ==
    /\ RequestInv
    /\ QueueInv
    /\ BudgetInv
    /\ kind = "trace" => TraceInv
    /\ kind # "trace" => LevelInv

-----------------------------------------------------------------------------
(* Distances.                                                              *)

(* The start is at distance 0.                                             *)
LEMMA StartWithin == \A n : n \in Within(0) <=> n = Start
  <1>1. ASSUME NEW w, w \in Walks(0) PROVE w[0] = Start
    BY <1>1 DEF Walks
  <1>2. ASSUME NEW n, n \in Within(0) PROVE n = Start
    <2>1. PICK k \in 0 .. 0 : n \in {w[k] : w \in Walks(k)}
      BY <1>2 DEF Within
    <2>2. k = 0
      BY <2>1
    <2>3. PICK w \in Walks(0) : n = w[0]
      BY <2>1, <2>2
    <2> QED
      BY <1>1, <2>3
  <1>3. Start \in Within(0)
    <2>1. PICK w : w = [i \in 0 .. 0 |-> Start]
      OBVIOUS
    <2>2. w \in [0 .. 0 -> Node] /\ w[0] = Start
      BY <2>1, TraversalAssumption
    <2>3. w \in Walks(0)
      BY <2>2 DEF Walks
    <2>4. Start \in {x[0] : x \in Walks(0)}
      BY <2>2, <2>3
    <2> QED
      BY <2>4 DEF Within
  <1> QED
    BY <1>2, <1>3

(* A larger distance takes in more.                                        *)
LEMMA WithinGrows ==
    ASSUME NEW a \in Nat, NEW b \in Nat, a <= b
    PROVE  Within(a) \subseteq Within(b)
  <1>1. 0 .. a \subseteq 0 .. b
    OBVIOUS
  <1> QED
    BY <1>1 DEF Within

(* One edge further.                                                       *)
LEMMA WithinStep ==
    ASSUME graph \in Graph, NEW d \in Nat, NEW n, n \in Within(d),
           NEW m, m \in Near(n)
    PROVE  m \in Within(d + 1)
  <1>1. PICK k \in 0 .. d : n \in {w[k] : w \in Walks(k)}
    BY DEF Within
  <1>2. PICK w \in Walks(k) : n = w[k]
    BY <1>1
  <1>3. /\ w \in [0 .. k -> Node] /\ w[0] = Start
        /\ \A i \in 1 .. k : w[i] \in Near(w[i - 1])
    BY <1>2 DEF Walks
  <1>4. m \in Node
    BY IncidentFacts
  <1>5. PICK x : x = [i \in 0 .. k + 1 |-> IF i <= k THEN w[i] ELSE m]
    OBVIOUS
  <1>6. k \in Nat /\ k + 1 \in 0 .. d + 1
    OBVIOUS
  <1>7. /\ x \in [0 .. k + 1 -> Node] /\ x[0] = Start /\ x[k + 1] = m
        /\ \A i \in 0 .. k : x[i] = w[i]
    BY <1>3, <1>4, <1>5, <1>6
  <1>8. ASSUME NEW i \in 1 .. k + 1 PROVE x[i] \in Near(x[i - 1])
    <2>1. CASE i = k + 1
      <3>1. i - 1 = k /\ x[k] = w[k] /\ x[i] = m
        BY <1>6, <1>7, <2>1
      <3> QED
        BY <1>2, <3>1
    <2>2. CASE i # k + 1
      <3>1. i \in 1 .. k /\ i - 1 \in 0 .. k /\ i \in 0 .. k
        BY <1>6, <2>2
      <3>2. x[i] = w[i] /\ x[i - 1] = w[i - 1]
        BY <1>7, <3>1
      <3> QED
        BY <1>3, <3>1, <3>2
    <2> QED
      BY <2>1, <2>2
  <1>9. x \in Walks(k + 1)
    BY <1>7, <1>8 DEF Walks
  <1>10. m \in {y[k + 1] : y \in Walks(k + 1)}
    BY <1>7, <1>9
  <1> QED
    BY <1>6, <1>10 DEF Within

(* Whatever is one edge further has a neighbour that is not.               *)
LEMMA WithinBack ==
    ASSUME NEW d \in Nat, NEW m, m \in Within(d + 1)
    PROVE  m \in Within(d) \/ \E n \in Within(d) : m \in Near(n)
  <1>1. PICK k \in 0 .. d + 1 : m \in {w[k] : w \in Walks(k)}
    BY DEF Within
  <1>2. CASE k <= d
    <2>1. k \in 0 .. d
      BY <1>2
    <2> QED
      BY <1>1, <2>1 DEF Within
  <1>3. CASE ~(k <= d)
    <2>1. k = d + 1
      BY <1>3
    <2>2. PICK w \in Walks(d + 1) : m = w[d + 1]
      BY <1>1, <2>1
    <2>3. /\ w \in [0 .. d + 1 -> Node] /\ w[0] = Start
          /\ \A i \in 1 .. d + 1 : w[i] \in Near(w[i - 1])
      BY <2>2 DEF Walks
    <2>4. PICK x : x = [i \in 0 .. d |-> w[i]]
      OBVIOUS
    <2>5. /\ x \in [0 .. d -> Node] /\ x[0] = Start
          /\ \A i \in 0 .. d : x[i] = w[i]
      BY <2>3, <2>4
    <2>6. ASSUME NEW i \in 1 .. d PROVE x[i] \in Near(x[i - 1])
      <3>1. i \in 0 .. d /\ i - 1 \in 0 .. d /\ i \in 1 .. d + 1
        OBVIOUS
      <3>2. x[i] = w[i] /\ x[i - 1] = w[i - 1]
        BY <2>5, <3>1
      <3> QED
        BY <2>3, <3>1, <3>2
    <2>7. x \in Walks(d)
      BY <2>5, <2>6 DEF Walks
    <2>8. x[d] \in {y[d] : y \in Walks(d)} /\ d \in 0 .. d
      BY <2>7
    <2>9. x[d] \in Within(d)
      BY <2>8 DEF Within
    <2>10. m \in Near(x[d])
      <3>1. d + 1 \in 1 .. d + 1 /\ (d + 1) - 1 = d
        OBVIOUS
      <3>2. w[d + 1] \in Near(w[d])
        BY <2>3, <3>1
      <3>3. x[d] = w[d]
        BY <2>5
      <3> QED
        BY <2>2, <3>2, <3>3
    <2> QED
      BY <2>9, <2>10
  <1> QED
    BY <1>2, <1>3

(* The paths of a traversal.                                               *)
LEMMA ReachedFacts ==
    ASSUME RequestInv, QueueInv
    PROVE  /\ \A p \in Reached : p \in Seq(Hop) /\ Len(p) \in 1 .. depth + 1
                                   /\ p[1] = StartPath[1]
                                   /\ Last(p) \in Hop
           /\ StartPath \in Seq(Hop) /\ Len(StartPath) = 1
           /\ Last(StartPath).node = Start
           /\ \A i \in 1 .. Len(results) : results[i] \in ToSet(results)
           /\ \A p \in ToSet(results) : \E i \in 1 .. Len(results) :
                 p = results[i]
           /\ Len(results) \in Nat
  <1>1. [node |-> Start, edge |-> 0] \in Hop
    BY TraversalAssumption DEF Hop
  <1>2. /\ StartPath \in Seq(Hop) /\ Len(StartPath) = 1
        /\ Last(StartPath).node = Start /\ depth \in Nat
    BY <1>1 DEF StartPath, Last, RequestInv
  <1>3. /\ results \in Seq(Seq(Hop)) /\ DOMAIN results = 1 .. Len(results)
        /\ Len(results) \in Nat
    BY DEF QueueInv
  <1>4. \A p \in ToSet(results) : /\ p \in Seq(Hop)
                                  /\ \E i \in 1 .. Len(results) : p = results[i]
    BY <1>3 DEF ToSet
  <1>5. \A i \in 1 .. Len(results) : results[i] \in ToSet(results)
    BY <1>3 DEF ToSet
  <1>6. ASSUME NEW p \in Reached
        PROVE  /\ p \in Seq(Hop) /\ Len(p) \in 1 .. depth + 1
               /\ p[1] = StartPath[1]
    <2>1. CASE p = StartPath
      <3>1. 1 \in 1 .. depth + 1
        BY <1>2
      <3> QED
        BY <1>2, <2>1, <3>1, Zenon
    <2>2. CASE p \in ToSet(results)
      <3>1. Len(p) \in 2 .. depth + 1 /\ p[1] = StartPath[1]
        BY <2>2 DEF QueueInv
      <3> QED
        BY <1>2, <1>4, <2>2, <3>1
    <2> QED
      BY <2>1, <2>2 DEF Reached
  <1>7. ASSUME NEW p \in Reached
        PROVE  Last(p) \in Hop
    BY <1>2, <1>6 DEF Last
  <1> QED
    BY <1>2, <1>3, <1>4, <1>5, <1>6, <1>7

(* When the neighbours of everything nearer than d were seen, everything   *)
(* within d was.                                                           *)
LEMMA Covered ==
    ASSUME RequestInv, QueueInv, LevelInv, NEW d \in Nat,
           \A p \in Reached : Len(p) <= d => Near(Last(p).node) \subseteq visited
    PROVE  Within(d) \subseteq visited
  <1> DEFINE T == {k \in Nat : Within(k) \subseteq visited}
  <1>1. /\ visited = {Last(p).node : p \in Reached}
        /\ \A i \in 1 .. Len(results) :
              Last(results[i]).node
                 \in Within(Len(results[i]) - 1) \ Within(Len(results[i]) - 2)
    BY DEF LevelInv
  <1>2. 0 \in T
    <2>1. Start \in visited
      BY <1>1, ReachedFacts DEF Reached
    <2> QED
      BY <2>1, StartWithin
  <1>3. ASSUME NEW k \in 0 .. d - 1, k \in T
        PROVE  k + 1 \in T
    <2> SUFFICES ASSUME NEW m, m \in Within(k + 1) PROVE m \in visited
      OBVIOUS
    <2>1. Within(k) \subseteq visited /\ k \in Nat
      BY <1>3
    <2>2. CASE m \in Within(k)
      BY <2>1, <2>2
    <2>3. CASE \E n \in Within(k) : m \in Near(n)
      <3>1. PICK n \in Within(k) : m \in Near(n)
        BY <2>3
      <3>2. PICK p \in Reached : n = Last(p).node
        BY <1>1, <2>1
      <3>3. Len(p) <= k + 1
        <4>1. CASE p = StartPath
          <5>1. Len(p) = 1
            BY <4>1, ReachedFacts
          <5> QED
            BY <2>1, <5>1
        <4>2. CASE p \in ToSet(results)
          <5>1. PICK i \in 1 .. Len(results) : p = results[i]
            BY <4>2, ReachedFacts
          <5>2. n \notin Within(Len(p) - 2) /\ Len(p) \in 2 .. depth + 1
            BY <1>1, <3>2, <4>2, <5>1 DEF QueueInv
          <5>3. Len(p) - 2 \in Nat /\ Len(p) \in Nat
            BY <5>2 DEF RequestInv
          <5>4. ~(k <= Len(p) - 2)
            BY <2>1, <3>1, <5>2, <5>3, WithinGrows
          <5> QED
            BY <2>1, <5>3, <5>4
        <4> QED
          BY <3>2, <4>1, <4>2 DEF Reached
      <3>4. Len(p) <= d
        BY <2>1, <3>2, <3>3, ReachedFacts
      <3> QED
        BY <3>1, <3>2, <3>4
    <2> QED
      BY <2>1, <2>2, <2>3, WithinBack
  <1>4. \A k \in 0 .. d - 1 : k \in T => k + 1 \in T
    BY <1>3
  <1> HIDE DEF T
  <1>5. 0 .. d \subseteq T
    BY <1>2, <1>4, UpTo
  <1>6. d \in T
    BY <1>5
  <1> QED
    BY <1>6 DEF T

-----------------------------------------------------------------------------
(* One step of the loop.                                                   *)

(* The path taken off the queue, and the rest.                             *)
LEMMA HeadFacts ==
    ASSUME RequestInv, QueueInv, Running
    PROVE  /\ Path \in ToSet(queue) /\ Path \in Reached /\ Path = queue[1]
           /\ Path \in Seq(Hop) /\ Len(Path) \in 1 .. depth + 1
           /\ Path[1] = StartPath[1]
           /\ Here = Last(Path).node /\ Here \in Node
           /\ Path[Len(Path)].node = Here
           /\ Len(queue) \in Nat /\ Len(queue) # 0
           /\ \A i \in 1 .. Len(queue) : queue[i] \in ToSet(queue)
           /\ Tail(queue) \in Seq(Seq(Hop))
           /\ Len(Tail(queue)) = Len(queue) - 1
           /\ \A i \in 1 .. Len(queue) - 1 : Tail(queue)[i] = queue[i + 1]
           /\ ToSet(Tail(queue)) = {queue[i] : i \in 2 .. Len(queue)}
           /\ ToSet(queue) = {Path} \union ToSet(Tail(queue))
  <1>1. /\ queue \in Seq(Seq(Hop)) /\ queue # <<>>
        /\ Len(queue) \in Nat /\ DOMAIN queue = 1 .. Len(queue)
    BY DEF QueueInv, Running
  <1>2. /\ Len(queue) # 0 /\ Path = queue[1]
    BY <1>1 DEF Path
  <1>3. Path \in ToSet(queue)
    <2>1. 1 \in DOMAIN queue
      BY <1>1, <1>2
    <2> QED
      BY <1>2, <2>1 DEF ToSet
  <1>4. Path \in Reached
    BY <1>3 DEF QueueInv
  <1>5. /\ Path \in Seq(Hop) /\ Len(Path) \in 1 .. depth + 1
        /\ Last(Path) \in Hop /\ Path[1] = StartPath[1]
    BY <1>4, ReachedFacts
  <1>6. Here = Last(Path).node /\ Here \in Node /\ Path[Len(Path)].node = Here
    <2>1. Here = Last(Path).node /\ Path[Len(Path)] = Last(Path)
      BY DEF Here, Last
    <2> HIDE DEF Path
    <2>2. Last(Path).node \in Node
      BY <1>5 DEF Hop
    <2> QED
      BY <2>1, <2>2
  <1>7. PICK t : t = Tail(queue)
    OBVIOUS
  <1>8. /\ t \in Seq(Seq(Hop)) /\ Len(t) = Len(queue) - 1
        /\ \A i \in 1 .. Len(queue) - 1 : t[i] = queue[i + 1]
        /\ DOMAIN t = 1 .. Len(queue) - 1
    BY <1>1, <1>2, <1>7
  <1>9. ToSet(t) = {queue[i] : i \in 2 .. Len(queue)}
    <2>1. ASSUME NEW i \in 2 .. Len(queue) PROVE queue[i] \in ToSet(t)
      <3>1. PICK k \in 1 .. Len(queue) - 1 : k + 1 = i
        BY <1>1
      <3>2. t[k] = queue[i]
        BY <1>8, <3>1
      <3> QED
        BY <1>8, <3>2 DEF ToSet
    <2>2. ASSUME NEW k \in DOMAIN t
          PROVE  t[k] \in {queue[i] : i \in 2 .. Len(queue)}
      <3>1. k + 1 \in 2 .. Len(queue) /\ t[k] = queue[k + 1]
        BY <1>1, <1>8
      <3> QED
        BY <3>1
    <2> QED
      BY <2>1, <2>2 DEF ToSet
  <1>10. ToSet(queue) = {Path} \union ToSet(t)
    <2>1. \A i \in 1 .. Len(queue) : i = 1 \/ i \in 2 .. Len(queue)
      BY <1>1
    <2>2. ToSet(queue) = {queue[i] : i \in 1 .. Len(queue)}
      BY <1>1 DEF ToSet
    <2>3. \A i \in 2 .. Len(queue) : i \in 1 .. Len(queue)
      BY <1>1
    <2> QED
      BY <1>2, <1>3, <1>9, <2>1, <2>2, <2>3
  <1>11. \A i \in 1 .. Len(queue) : queue[i] \in ToSet(queue)
    BY <1>1 DEF ToSet
  <1> QED
    BY <1>1, <1>2, <1>3, <1>4, <1>5, <1>6, <1>7, <1>8, <1>9, <1>10, <1>11

(* What the store answers.                                                 *)
LEMMA MoreFacts ==
    ASSUME RequestInv, EdgeBudget \in Nat \union {Unbounded}
    PROVE  LET more == NextEdges
           IN  /\ more.edges \in Seq(Incident(Here))
               /\ more.has_more \in BOOLEAN
               /\ EdgeBudget # Unbounded => Len(more.edges) <= EdgeBudget
               /\ ~more.has_more => ToSet(more.edges) = Incident(Here)
               /\ \A i, j \in 1 .. Len(more.edges) :
                     more.edges[i] = more.edges[j] =>
                        i = j \/ NextKey(Here, more.edges[i]) = Here
  <1>1. graph \in Graph
    BY DEF RequestInv
  <1>2. CASE EdgeBudget = Unbounded
    <2>1. NextEdges = NextEdgesAll(Here)
      BY <1>2 DEF NextEdges
    <2> QED
      BY <1>1, <1>2, <2>1, AllFacts
  <1>3. CASE EdgeBudget # Unbounded
    <2>1. NextEdges = NextEdgesBounded(Here, EdgeBudget) /\ EdgeBudget \in Nat
      BY <1>3 DEF NextEdges
    <2>2. PICK page : page = NextEdgesBounded(Here, EdgeBudget)
      OBVIOUS
    <2>3. LET left == Incident(Here) \ ToSet(page.edges)
          IN  /\ page.edges \in Seq(Incident(Here))
              /\ Len(page.edges) <= EdgeBudget
              /\ \A i, j \in 1 .. Len(page.edges) :
                    page.edges[i] = page.edges[j] => i = j
              /\ page.has_more \in BOOLEAN
              /\ page.has_more <=> left # {}
      BY <1>1, <2>1, <2>2, PageFacts
    <2>4. ToSet(page.edges) \subseteq Incident(Here)
      BY <2>3 DEF ToSet
    <2> QED
      BY <2>1, <2>2, <2>3, <2>4
  <1> QED
    BY <1>2, <1>3

(* A path and one edge more.                                               *)
LEMMA AlongFacts ==
    ASSUME graph \in Graph, NEW p \in Seq(Hop), Len(p) >= 1,
           NEW e \in Incident(Last(p).node)
    PROVE  /\ Along(p, e) \in Seq(Hop)
           /\ Len(Along(p, e)) = Len(p) + 1
           /\ \A i \in 1 .. Len(p) : Along(p, e)[i] = p[i]
           /\ Last(Along(p, e)) = Along(p, e)[Len(p) + 1]
           /\ Last(Along(p, e)).node = NextKey(Last(p).node, e)
           /\ Last(Along(p, e)).edge = e
           /\ \E h \in Hop : Along(p, e) = Append(p, h)
  <1>1. PICK h : h = [node |-> NextKey(Last(p).node, e), edge |-> e]
    OBVIOUS
  <1>2. e \in DOMAIN graph
    BY IncidentFacts
  <1>3. e \in 0 .. MaxEdges /\ NextKey(Last(p).node, e) \in Node
    BY <1>2, IncidentFacts, GraphFacts, TraversalAssumption
  <1>4. h \in Hop /\ h.node = NextKey(Last(p).node, e) /\ h.edge = e
    BY <1>1, <1>3 DEF Hop
  <1>5. Along(p, e) = Append(p, h)
    BY <1>1 DEF Along
  <1>6. PICK q : q = Append(p, h)
    OBVIOUS
  <1>7. /\ q \in Seq(Hop) /\ Len(q) = Len(p) + 1
        /\ \A i \in 1 .. Len(p) : q[i] = p[i]
        /\ q[Len(p) + 1] = h
    BY <1>4, <1>6, AppendProperties
  <1>8. Last(q) = q[Len(p) + 1]
    BY <1>7 DEF Last
  <1> QED
    BY <1>4, <1>5, <1>6, <1>7, <1>8

(* Whether an edge leads on: a trace avoids its own path, the others what  *)
(* anything has seen.                                                      *)
OnPath(p, n) == \E i \in 1 .. Len(p) : p[i].node = n

(* What is found along the edges fetched.                                  *)
LEMMA FoundFacts ==
    ASSUME RequestInv, QueueInv, Running,
           NEW es, es \in Seq(Incident(Here)),
           \A i, j \in 1 .. Len(es) :
              es[i] = es[j] => i = j \/ NextKey(Here, es[i]) = Here
    PROVE  /\ Found(es) \in Seq(Seq(Hop))
           /\ Len(Found(es)) <= Len(es)
           /\ \A p \in ToSet(Found(es)) :
                 \E e \in Incident(Here) :
                    /\ p = Along(Path, e)
                    /\ kind = "trace" => ~OnPath(Path, NextKey(Here, e))
                    /\ kind # "trace" => NextKey(Here, e) \notin visited
           /\ kind = "trace" =>
                 /\ IsInjective(Found(es))
                 /\ \A e \in ToSet(es) : \/ OnPath(Path, NextKey(Here, e))
                                         \/ Along(Path, e) \in ToSet(Found(es))
           /\ kind # "trace" =>
                 /\ \A i, j \in 1 .. Len(Found(es)) :
                       Last(Found(es)[i]).node = Last(Found(es)[j]).node
                          => i = j
                 /\ \A e \in ToSet(es) :
                       \/ NextKey(Here, e) \in visited
                       \/ \E p \in ToSet(Found(es)) :
                             Last(p).node = NextKey(Here, e)
  <1> DEFINE next(i) == NextKey(Here, es[i])
             new(i) == IF kind = "trace"
                       THEN \A h \in ToSet(Path) : h.node # next(i)
                       ELSE /\ next(i) \notin visited
                            /\ \A j \in 1 .. i - 1 : next(j) # next(i)
             S == {i \in 1 .. Len(es) : new(i)}
             steps == Ascending(S)
             f == Found(es)
  <1>1. /\ Path \in Seq(Hop) /\ Len(Path) \in Nat /\ Len(Path) >= 1
        /\ Here = Last(Path).node /\ Path[Len(Path)].node = Here
        /\ DOMAIN Path = 1 .. Len(Path)
    BY HeadFacts DEF RequestInv
  <1>2. /\ Len(es) \in Nat /\ DOMAIN es = 1 .. Len(es)
        /\ \A i \in 1 .. Len(es) : es[i] \in Incident(Here)
        /\ \A e \in ToSet(es) : \E i \in 1 .. Len(es) : e = es[i]
    BY DEF ToSet
  <1>3. NewSteps(es) = steps
    BY DEF NewSteps
  <1>4. \A n : (\A h \in ToSet(Path) : h.node # n) <=> ~OnPath(Path, n)
    BY <1>1 DEF ToSet, OnPath
  <1>5. S \subseteq 1 .. Len(es) /\ S \subseteq Nat
    BY <1>2
  <1>6. IsFiniteSet(1 .. Len(es)) /\ Cardinality(1 .. Len(es)) = Len(es)
    <2>1. PICK n \in Nat : n = Len(es)
      BY <1>2
    <2>2. /\ IsFiniteSet(1 .. n)
          /\ Cardinality(1 .. n) = IF 1 > n THEN 0 ELSE n - 1 + 1
      BY FS_Interval
    <2>3. Cardinality(1 .. n) = n
      BY <2>2
    <2> QED
      BY <2>1, <2>2, <2>3
  <1>7. \A i \in 1 .. Len(es) : i \in S <=> new(i)
    OBVIOUS
  <1> HIDE DEF S
  <1>8. IsFiniteSet(S) /\ Cardinality(S) <= Len(es) /\ Cardinality(S) \in Nat
    BY <1>5, <1>6, FS_Subset, FS_CardinalityType
  <1>9. IsSorting(steps, S, {p \in S \X S : p[1] < p[2]})
    BY <1>5, <1>8, KeySorts
  <1>10. /\ steps \in Seq(S) /\ Len(steps) = Cardinality(S)
         /\ DOMAIN steps = 1 .. Cardinality(S)
         /\ \A i, j \in 1 .. Cardinality(S) : steps[i] = steps[j] => i = j
         /\ \A k \in S : \E i \in 1 .. Cardinality(S) : steps[i] = k
    <2>1. /\ steps \in Seq(S) /\ Len(steps) = Cardinality(S)
          /\ ToSet(steps) = S
          /\ \A i, j \in 1 .. Len(steps) : steps[i] = steps[j] => i = j
      BY <1>9 DEF IsSorting
    <2>2. DOMAIN steps = 1 .. Cardinality(S)
      BY <2>1
    <2>3. \A k \in S : \E i \in 1 .. Cardinality(S) : steps[i] = k
      BY <2>1, <2>2 DEF ToSet
    <2> QED
      BY <2>1, <2>2, <2>3
  <1> HIDE DEF steps
  <1>11. f = [i \in 1 .. Cardinality(S) |-> Along(Path, es[steps[i]])]
    BY <1>3, <1>10 DEF Found
  <1> HIDE DEF f, new
  <1>12. \A i \in 1 .. Cardinality(S) :
            steps[i] \in S /\ steps[i] \in 1 .. Len(es)
    <2> TAKE i \in 1 .. Cardinality(S)
    <2>1. steps \in Seq(S) /\ i \in 1 .. Len(steps)
      BY <1>10
    <2>2. steps[i] \in S
      BY <2>1, ElementOfSeq
    <2> QED
      BY <1>5, <2>2
  <1>13. \A i \in 1 .. Cardinality(S) :
            /\ f[i] = Along(Path, es[steps[i]])
            /\ es[steps[i]] \in Incident(Here)
            /\ f[i] \in Seq(Hop)
            /\ Last(f[i]).node = next(steps[i])
            /\ Last(f[i]).edge = es[steps[i]]
    <2> TAKE i \in 1 .. Cardinality(S)
    <2>1. f[i] = Along(Path, es[steps[i]]) /\ es[steps[i]] \in Incident(Here)
      BY <1>2, <1>11, <1>12
    <2>2. graph \in Graph
      BY DEF RequestInv
    <2> HIDE DEF next
    <2>3. /\ Along(Path, es[steps[i]]) \in Seq(Hop)
          /\ Last(Along(Path, es[steps[i]])).node
                = NextKey(Here, es[steps[i]])
          /\ Last(Along(Path, es[steps[i]])).edge = es[steps[i]]
      BY <1>1, <2>1, <2>2, AlongFacts
    <2> QED
      BY <2>1, <2>3 DEF next
  <1>14. /\ f \in Seq(Seq(Hop)) /\ Len(f) = Cardinality(S)
         /\ DOMAIN f = 1 .. Cardinality(S)
    BY <1>8, <1>11, <1>13
  <1>15. ToSet(f) = {f[i] : i \in 1 .. Cardinality(S)}
    BY <1>14 DEF ToSet
  <1>16. \A i \in S : /\ kind = "trace" => ~OnPath(Path, next(i))
                      /\ kind # "trace" => next(i) \notin visited
    BY <1>4, <1>5, <1>7 DEF new
  <1>17. \A i \in S : \E p \in ToSet(f) : p = Along(Path, es[i])
                                            /\ Last(p).node = next(i)
    <2> TAKE k \in S
    <2>1. PICK i \in 1 .. Cardinality(S) : steps[i] = k
      BY <1>10
    <2> QED
      BY <1>13, <1>15, <2>1
  <1>18. \A p \in ToSet(f) :
            \E e \in Incident(Here) :
               /\ p = Along(Path, e)
               /\ kind = "trace" => ~OnPath(Path, NextKey(Here, e))
               /\ kind # "trace" => NextKey(Here, e) \notin visited
    <2> TAKE p \in ToSet(f)
    <2>1. PICK i \in 1 .. Cardinality(S) : p = f[i]
      BY <1>15
    <2>2. /\ p = Along(Path, es[steps[i]])
          /\ es[steps[i]] \in Incident(Here)
          /\ steps[i] \in S
      BY <1>12, <1>13, <2>1
    <2> QED
      BY <1>16, <2>2
  <1>19. CASE kind = "trace"
    <2>1. ASSUME NEW i \in 1 .. Cardinality(S), NEW j \in 1 .. Cardinality(S),
                 f[i] = f[j]
          PROVE  i = j
      <3>1. es[steps[i]] = es[steps[j]]
        BY <1>13, <2>1
      <3>2. ~OnPath(Path, next(steps[i]))
        BY <1>12, <1>16, <1>19
      <3>3. next(steps[i]) # Here
        BY <1>1, <3>2 DEF OnPath
      <3>4. steps[i] = steps[j]
        BY <1>12, <3>1, <3>3
      <3> QED
        BY <1>10, <3>4
    <2>2. IsInjective(f)
      BY <1>14, <2>1 DEF IsInjective
    <2>3. \A e \in ToSet(es) : \/ OnPath(Path, NextKey(Here, e))
                               \/ Along(Path, e) \in ToSet(f)
      <3> TAKE e \in ToSet(es)
      <3>1. PICK i \in 1 .. Len(es) : e = es[i]
        BY <1>2
      <3>2. i \in S \/ OnPath(Path, next(i))
        BY <1>4, <1>7, <1>19 DEF new
      <3> QED
        BY <1>17, <3>1, <3>2
    <2> QED
      BY <1>8, <1>14, <1>18, <1>19, <2>2, <2>3 DEF f
  <1>20. CASE kind # "trace"
    <2>1. ASSUME NEW i \in S, NEW j \in S, next(i) = next(j)
          PROVE  i = j
      <3>1. /\ \A k \in 1 .. i - 1 : next(k) # next(i)
            /\ \A k \in 1 .. j - 1 : next(k) # next(j)
        BY <1>5, <1>7, <1>20 DEF new
      <3>2. i \in Nat /\ j \in Nat /\ i >= 1 /\ j >= 1
        BY <1>5
      <3>3. ~(i < j)
        BY <2>1, <3>1, <3>2
      <3>4. ~(j < i)
        BY <2>1, <3>1, <3>2
      <3> QED
        BY <3>2, <3>3, <3>4
    <2>2. \A i, j \in 1 .. Cardinality(S) :
             Last(f[i]).node = Last(f[j]).node => i = j
      <3> TAKE i, j \in 1 .. Cardinality(S)
      <3>1. /\ steps[i] \in S /\ Last(f[i]).node = next(steps[i])
            /\ steps[j] \in S /\ Last(f[j]).node = next(steps[j])
        BY <1>12, <1>13
      <3>2. next(steps[i]) = next(steps[j]) => steps[i] = steps[j]
        BY <2>1, <3>1
      <3> QED
        BY <1>10, <3>1, <3>2
    <2>3. \A e \in ToSet(es) : \/ NextKey(Here, e) \in visited
                               \/ \E p \in ToSet(f) :
                                     Last(p).node = NextKey(Here, e)
      <3> TAKE e \in ToSet(es)
      <3> SUFFICES ASSUME NextKey(Here, e) \notin visited
                   PROVE  \E p \in ToSet(f) : Last(p).node = NextKey(Here, e)
        OBVIOUS
      <3> DEFINE T == {i \in 1 .. Len(es) : next(i) = NextKey(Here, e)}
      <3>1. T \subseteq Nat /\ T # {}
        BY <1>2
      <3>2. PICK x \in T : \A y \in T : x <= y
        BY <3>1, LeastMember
      <3>3. \A j \in 1 .. x - 1 : next(j) # next(x)
        BY <1>2, <3>2
      <3>4. x \in S /\ next(x) = NextKey(Here, e)
        BY <1>7, <1>20, <3>2, <3>3 DEF new
      <3> QED
        BY <1>17, <3>4
    <2> QED
      BY <1>8, <1>14, <1>18, <1>20, <2>2, <2>3 DEF f
  <1> QED
    BY <1>19, <1>20

(* The graph and the request stay.                                         *)
LEMMA SameGraph ==
    ASSUME UNCHANGED inputs
    PROVE  /\ \A n : Incident(n)' = Incident(n)
           /\ \A n, e : NextKey(n, e)' = NextKey(n, e)
           /\ \A n : Near(n)' = Near(n)
           /\ \A d : Within(d)' = Within(d)
           /\ \A p : IsSimplePath(p)' = IsSimplePath(p)
           /\ \A p, e : Along(p, e)' = Along(p, e)
           /\ RequestInv' = RequestInv
           /\ graph' = graph /\ kind' = kind /\ direction' = direction
           /\ filter' = filter /\ depth' = depth /\ limit' = limit
  <1>1. \A n : Incident(n)' = Incident(n)
    BY DEF Incident, Wanted, Outbound, Inbound, inputs
  <1>2. \A n, e : NextKey(n, e)' = NextKey(n, e)
    BY DEF NextKey, inputs
  <1>3. \A n : Near(n)' = Near(n)
    BY <1>1, <1>2 DEF Near
  <1>4. \A d : Walks(d)' = Walks(d)
    BY <1>3 DEF Walks
  <1>5. \A d : Within(d)' = Within(d)
    BY <1>4 DEF Within
  <1>6. \A p : IsSimplePath(p)' = IsSimplePath(p)
    BY <1>1, <1>2 DEF IsSimplePath, inputs
  <1>7. \A p, e : Along(p, e)' = Along(p, e)
    BY <1>2 DEF Along
  <1>8. RequestInv' = RequestInv
    BY DEF RequestInv, inputs
  <1> QED
    BY <1>1, <1>2, <1>3, <1>5, <1>6, <1>7, <1>8 DEF inputs

(* The loop begins with the start alone, or does not begin.                *)
LEMMA InitStep ==
    ASSUME Init
    PROVE  TraversalIInv
  <1>1. RequestInv
    BY TraversalAssumption DEF Init, RequestInv
  <1>2. /\ results = <<>> /\ visited = {Start} /\ budget = limit
        /\ truncated = FALSE /\ stopped = FALSE
    BY DEF Init
  <1>3. results \in Seq(Seq(Hop)) /\ Len(results) = 0 /\ ToSet(results) = {}
    BY <1>2 DEF ToSet
  <1>4. Reached = {StartPath}
    BY <1>3 DEF Reached
  <1>5. [node |-> Start, edge |-> 0] \in Hop
    BY TraversalAssumption DEF Hop
  <1>6. /\ StartPath \in Seq(Hop) /\ Len(StartPath) = 1
        /\ Last(StartPath).node = Start
    BY <1>5 DEF StartPath, Last
  <1>7. \/ queue = <<StartPath>>
        \/ queue = <<>> /\ (depth = 0 \/ graph = <<>>)
    BY DEF Init
  <1> HIDE DEF StartPath
  <1>8. /\ queue \in Seq(Seq(Hop)) /\ ToSet(queue) \subseteq {StartPath}
        /\ queue = <<StartPath>> => StartPath \in ToSet(queue)
        /\ Len(queue) \in {0, 1} /\ DOMAIN queue \subseteq {1}
    <2>1. CASE queue = <<StartPath>>
      <3>1. /\ queue \in Seq(Seq(Hop)) /\ Len(queue) = 1 /\ queue[1] = StartPath
            /\ DOMAIN queue = {1}
        BY <1>6, <2>1
      <3> QED
        BY <3>1 DEF ToSet
    <2>2. CASE queue = <<>>
      <3>1. /\ queue \in Seq(Seq(Hop)) /\ Len(queue) = 0
            /\ DOMAIN queue = {} /\ queue # <<StartPath>>
        BY <2>2
      <3> QED
        BY <3>1 DEF ToSet
    <2> QED
      BY <1>7, <2>1, <2>2
  <1>9. QueueInv
    BY <1>2, <1>3, <1>4, <1>8, TraversalAssumption DEF QueueInv
  <1>10. BudgetInv
    <2>1. /\ limit \in Nat \union {Unbounded}
          /\ kind = "query" => limit \in Nat
      BY <1>1 DEF RequestInv
    <2>2. kind = "query" => Len(results) <= limit
      BY <1>3, <2>1
    <2>3. limit # Unbounded => budget # Unbounded /\ Len(results) + budget <= limit
      BY <1>2, <1>3, <2>1
    <2> HIDE DEF Init
    <2>4. truncated \in BOOLEAN /\ stopped \in BOOLEAN /\ ~stopped
      BY <1>2
    <2>5. budget \in Nat \union {Unbounded}
      BY <1>2, <2>1
    <2> QED
      BY <2>2, <2>3, <2>4, <2>5 DEF BudgetInv
  <1>11. ASSUME NEW p \in Reached \ ToSet(queue), Len(p) <= depth
         PROVE  Incident(Last(p).node) = {}
    <2>1. p = StartPath /\ queue # <<StartPath>>
      BY <1>4, <1>8
    <2>2. graph = <<>>
      BY <1>6, <1>7, <1>11, <2>1
    <2>3. DOMAIN graph = {}
      BY <2>2
    <2> QED
      BY <1>1, <2>3, IncidentFacts DEF RequestInv
  <1>12. TraceInv
    <2>1. IsInjective(results) /\ IsInjective(queue)
      <3>1. DOMAIN results = {}
        BY <1>2
      <3> QED
        BY <1>8, <3>1 DEF IsInjective
    <2> QED
      BY <1>3, <1>11, <2>1 DEF TraceInv
  <1>13. LevelInv
    <2>1. visited = {Last(p).node : p \in Reached}
      <3>1. {Last(p).node : p \in Reached} = {Last(StartPath).node}
        BY <1>4
      <3> QED
        BY <1>2, <1>6, <3>1
    <2>2. \A i, j \in 1 .. Len(queue) : ~(i < j)
      <3>1. CASE Len(queue) = 0
        BY <3>1
      <3>2. CASE Len(queue) = 1
        BY <3>2
      <3> QED
        BY <1>8, <3>1, <3>2
    <2>3. \A p \in Reached \ ToSet(queue) :
             Len(p) <= depth => Near(Last(p).node) \subseteq visited
      BY <1>11 DEF Near
    <2>4. 1 .. Len(results) = {}
      BY <1>3
    <2> QED
      BY <2>1, <2>2, <2>3, <2>4 DEF LevelInv
  <1> QED
    BY <1>1, <1>9, <1>10, <1>12, <1>13 DEF TraversalIInv

(* Nothing to do.                                                          *)
LEMMA StutterStep ==
    ASSUME TraversalIInv, UNCHANGED vars
    PROVE  TraversalIInv'
  <1>1. UNCHANGED inputs /\ UNCHANGED <<queue, visited, results, budget,
                                        truncated, stopped>>
    BY DEF vars, inputs
  <1>2. Reached' = Reached
    BY <1>1 DEF Reached
  <1>3. QueueInv'
    BY <1>1, <1>2, SameGraph DEF TraversalIInv, QueueInv
  <1>4. BudgetInv'
    BY <1>1, SameGraph DEF TraversalIInv, BudgetInv
  <1>5. kind' = "trace" => TraceInv'
    BY <1>1, <1>2, SameGraph DEF TraversalIInv, TraceInv
  <1>6. kind' # "trace" => LevelInv'
    BY <1>1, <1>2, SameGraph DEF TraversalIInv, LevelInv
  <1> QED
    BY <1>1, <1>3, <1>4, <1>5, <1>6, SameGraph DEF TraversalIInv

(* Without its head the queue still holds two levels in order.             *)
LEMMA TailLevels ==
    ASSUME RequestInv, QueueInv, LevelInv, Running
    PROVE  LET t == Tail(queue)
           IN  \A i, j \in 1 .. Len(t) :
                  i < j => Len(t[i]) <= Len(t[j]) /\ Len(t[j]) <= Len(t[1]) + 1
  <1>1. PICK t : t = Tail(queue)
    OBVIOUS
  <1>2. /\ Len(t) = Len(queue) - 1 /\ Len(queue) \in Nat /\ Len(queue) # 0
        /\ \A i \in 1 .. Len(queue) - 1 : t[i] = queue[i + 1]
        /\ queue \in Seq(Seq(Hop))
    BY <1>1, HeadFacts DEF QueueInv
  <1>3. ASSUME NEW i \in 1 .. Len(t), NEW j \in 1 .. Len(t), i < j
        PROVE  Len(t[i]) <= Len(t[j]) /\ Len(t[j]) <= Len(t[1]) + 1
    <2>1. /\ i + 1 \in 1 .. Len(queue) /\ j + 1 \in 1 .. Len(queue)
          /\ i + 1 < j + 1 /\ 1 < j + 1 /\ 1 \in 1 .. Len(queue)
          /\ 2 \in 1 .. Len(queue) /\ 1 < 2 /\ 1 \in 1 .. Len(queue) - 1
          /\ i \in 1 .. Len(queue) - 1 /\ j \in 1 .. Len(queue) - 1
      <3>1. PICK n \in Nat : n = Len(queue)
        BY <1>2
      <3>2. i \in 1 .. n - 1 /\ j \in 1 .. n - 1 /\ i < j
        BY <1>2, <1>3, <3>1
      <3>3. /\ i + 1 \in 1 .. n /\ j + 1 \in 1 .. n
            /\ i + 1 < j + 1 /\ 1 < j + 1 /\ 1 \in 1 .. n
            /\ 2 \in 1 .. n /\ 1 < 2 /\ 1 \in 1 .. n - 1
        BY <3>2
      <3> QED
        BY <3>1, <3>2, <3>3
    <2>2. t[i] = queue[i + 1] /\ t[j] = queue[j + 1] /\ t[1] = queue[2]
      <3>1. t[i] = queue[i + 1] /\ t[j] = queue[j + 1] /\ t[1] = queue[1 + 1]
        BY <1>2, <2>1
      <3> QED
        BY <3>1
    <2>3. /\ Len(queue[i + 1]) <= Len(queue[j + 1])
          /\ Len(queue[j + 1]) <= Len(queue[1]) + 1
          /\ Len(queue[1]) <= Len(queue[2])
      BY <2>1 DEF LevelInv
    <2>4. /\ Len(queue[j + 1]) \in Nat /\ Len(queue[1]) \in Nat
          /\ Len(queue[2]) \in Nat
      BY <1>2, <2>1
    <2> QED
      BY <2>2, <2>3, <2>4
  <1> QED
    BY <1>1, <1>3

(* The last level of impact_analysis_bounded is taken off unextended: it   *)
(* is as deep as asked for.                                                *)
LEMMA SkipStep ==
    ASSUME TraversalIInv, SkipLastLevel
    PROVE  TraversalIInv'
  <1>1. /\ Running /\ Depth = depth /\ queue' = Tail(queue)
        /\ UNCHANGED inputs
        /\ UNCHANGED <<visited, results, budget, truncated, stopped>>
    BY DEF SkipLastLevel
  <1>2. RequestInv /\ QueueInv /\ BudgetInv
    BY DEF TraversalIInv
  <1>3. Reached' = Reached
    BY <1>1 DEF Reached
  <1>4. /\ queue' \in Seq(Seq(Hop)) /\ ToSet(queue') \subseteq ToSet(queue)
        /\ ToSet(queue) = {Path} \union ToSet(queue')
        /\ Len(queue') = Len(queue) - 1 /\ Len(queue) \in Nat
        /\ Len(queue) # 0 /\ DOMAIN queue' = 1 .. Len(queue) - 1
        /\ \A i \in 1 .. Len(queue) - 1 : queue'[i] = queue[i + 1]
        /\ DOMAIN queue = 1 .. Len(queue)
    BY <1>1, <1>2, HeadFacts DEF QueueInv
  <1>5. ASSUME NEW p, Len(p) <= depth, p \notin ToSet(queue')
        PROVE  p \notin ToSet(queue)
    <2>1. Len(Path) = depth + 1 /\ depth \in Nat
      BY <1>1, <1>2, HeadFacts DEF Depth, RequestInv
    <2> QED
      BY <1>4, <1>5, <2>1
  <1>6. QueueInv'
    BY <1>1, <1>2, <1>3, <1>4, SameGraph DEF QueueInv
  <1>7. BudgetInv'
    BY <1>1, <1>2, SameGraph DEF BudgetInv
  <1>8. ASSUME kind = "trace" PROVE TraceInv'
    <2>1. TraceInv
      BY <1>8 DEF TraversalIInv
    <2>2. IsInjective(queue)'
      <3>1. \A a, b \in 1 .. Len(queue) : queue[a] = queue[b] => a = b
        BY <1>4, <2>1 DEF TraceInv, IsInjective
      <3>2. ASSUME NEW a \in 1 .. Len(queue) - 1, NEW b \in 1 .. Len(queue) - 1,
                   queue'[a] = queue'[b]
            PROVE  a = b
        <4>1. a + 1 \in 1 .. Len(queue) /\ b + 1 \in 1 .. Len(queue)
          BY <1>4
        <4>2. queue[a + 1] = queue[b + 1]
          BY <1>4, <3>2
        <4>3. a + 1 = b + 1
          BY <3>1, <4>1, <4>2
        <4> QED
          BY <1>4, <4>3
      <3> QED
        BY <1>4, <3>2 DEF IsInjective
    <2>3. ~stopped' =>
             \A p \in Reached' \ ToSet(queue') :
                Len(p) <= depth =>
                   \A e \in Incident(Last(p).node) :
                      \/ \E i \in 1 .. Len(p) :
                            p[i].node = NextKey(Last(p).node, e)
                      \/ Along(p, e) \in ToSet(results)
      BY <1>1, <1>3, <1>5, <2>1 DEF TraceInv
    <2> QED
      BY <1>1, <1>3, <1>4, <2>1, <2>2, <2>3, SameGraph DEF TraceInv
  <1>9. ASSUME kind # "trace" PROVE LevelInv'
    <2>1. LevelInv
      BY <1>9 DEF TraversalIInv
    <2>2. \A i, j \in 1 .. Len(queue') :
             i < j => /\ Len(queue'[i]) <= Len(queue'[j])
                      /\ Len(queue'[j]) <= Len(queue'[1]) + 1
      BY <1>1, <1>2, <2>1, TailLevels
    <2>3. ~stopped' =>
             \A p \in Reached' \ ToSet(queue') :
                Len(p) <= depth => Near(Last(p).node) \subseteq visited
      BY <1>1, <1>3, <1>5, <2>1 DEF LevelInv
    <2> QED
      BY <1>1, <1>3, <2>1, <2>2, <2>3, SameGraph DEF LevelInv
  <1> QED
    BY <1>1, <1>2, <1>6, <1>7, <1>8, <1>9, SameGraph DEF TraversalIInv

(* A query that gives up says so.                                          *)
LEMMA StopStep ==
    ASSUME TraversalIInv, StopAtLimit
    PROVE  TraversalIInv'
  <1>1. /\ Running /\ kind = "query" /\ queue' = Tail(queue)
        /\ stopped' = TRUE /\ truncated' = TRUE
        /\ UNCHANGED inputs
        /\ UNCHANGED <<visited, results, budget>>
    BY DEF StopAtLimit
  <1>2. RequestInv /\ QueueInv /\ BudgetInv /\ LevelInv
    BY <1>1 DEF TraversalIInv
  <1>3. Reached' = Reached
    BY <1>1 DEF Reached
  <1>4. /\ queue' \in Seq(Seq(Hop)) /\ ToSet(queue') \subseteq ToSet(queue)
        /\ Len(queue') = Len(queue) - 1 /\ Len(queue) \in Nat
        /\ \A i \in 1 .. Len(queue) - 1 : queue'[i] = queue[i + 1]
    BY <1>1, <1>2, HeadFacts DEF QueueInv
  <1>5. QueueInv'
    BY <1>1, <1>2, <1>3, <1>4, SameGraph DEF QueueInv
  <1>6. BudgetInv'
    BY <1>1, <1>2, SameGraph DEF BudgetInv
  <1>7. LevelInv'
    <2>1. \A i, j \in 1 .. Len(queue') :
             i < j => /\ Len(queue'[i]) <= Len(queue'[j])
                      /\ Len(queue'[j]) <= Len(queue'[1]) + 1
      BY <1>1, <1>2, TailLevels
    <2> QED
      BY <1>1, <1>2, <1>3, <2>1, SameGraph DEF LevelInv
  <1> QED
    BY <1>1, <1>2, <1>5, <1>6, <1>7, SameGraph DEF TraversalIInv

-----------------------------------------------------------------------------
(* Expanding a path.                                                       *)

(* One sequence after another.                                             *)
LEMMA ConcatFacts ==
    ASSUME NEW A, NEW s \in Seq(A), NEW t \in Seq(A)
    PROVE  /\ s \o t \in Seq(A) /\ Len(s) \in Nat /\ Len(t) \in Nat
           /\ Len(s \o t) = Len(s) + Len(t)
           /\ DOMAIN s = 1 .. Len(s) /\ DOMAIN t = 1 .. Len(t)
           /\ DOMAIN (s \o t) = 1 .. Len(s) + Len(t)
           /\ \A i \in 1 .. Len(s) : (s \o t)[i] = s[i]
           /\ \A i \in 1 .. Len(s) + Len(t) :
                 ~(i <= Len(s)) => /\ i - Len(s) \in 1 .. Len(t)
                                   /\ (s \o t)[i] = t[i - Len(s)]
           /\ \A i \in 1 .. Len(s) : s[i] \in ToSet(s)
           /\ \A i \in 1 .. Len(t) : t[i] \in ToSet(t)
           /\ ToSet(s \o t) = ToSet(s) \union ToSet(t)
  <1>1. PICK u : u = s \o t
    OBVIOUS
  <1>2. /\ Len(s) \in Nat /\ Len(t) \in Nat /\ u \in Seq(A)
        /\ Len(u) = Len(s) + Len(t)
        /\ DOMAIN s = 1 .. Len(s) /\ DOMAIN t = 1 .. Len(t)
    BY <1>1
  <1>3. \A i \in 1 .. Len(s) + Len(t) :
           u[i] = IF i <= Len(s) THEN s[i] ELSE t[i - Len(s)]
    BY <1>1, ConcatProperties
  <1>4. DOMAIN u = 1 .. Len(s) + Len(t)
    BY <1>2
  <1>5. \A i \in 1 .. Len(s) : u[i] = s[i] /\ i \in DOMAIN u
    BY <1>2, <1>3, <1>4
  <1>6. \A i \in 1 .. Len(s) + Len(t) :
           ~(i <= Len(s)) => i - Len(s) \in 1 .. Len(t) /\ u[i] = t[i - Len(s)]
    BY <1>2, <1>3
  <1>7. ASSUME NEW k \in 1 .. Len(t)
        PROVE  \E i \in DOMAIN u : u[i] = t[k]
    <2>1. PICK i : i = Len(s) + k
      OBVIOUS
    <2>2. /\ i \in 1 .. Len(s) + Len(t) /\ ~(i <= Len(s)) /\ i - Len(s) = k
      BY <1>2, <2>1
    <2> QED
      BY <1>4, <1>6, <2>2
  <1>8. ToSet(u) = ToSet(s) \union ToSet(t)
    <2>1. ASSUME NEW i \in DOMAIN u
          PROVE  u[i] \in ToSet(s) \union ToSet(t)
      <3>1. CASE i <= Len(s)
        <4>1. i \in DOMAIN s /\ u[i] = s[i]
          BY <1>2, <1>4, <1>5, <3>1
        <4> QED
          BY <4>1 DEF ToSet
      <3>2. CASE ~(i <= Len(s))
        <4>1. i - Len(s) \in DOMAIN t /\ u[i] = t[i - Len(s)]
          BY <1>2, <1>4, <1>6, <3>2
        <4> QED
          BY <4>1 DEF ToSet
      <3> QED
        BY <3>1, <3>2
    <2>2. ASSUME NEW i \in DOMAIN s PROVE s[i] \in ToSet(u)
      <3>1. i \in DOMAIN u /\ u[i] = s[i]
        BY <1>2, <1>5
      <3> QED
        BY <3>1 DEF ToSet
    <2>3. ASSUME NEW k \in DOMAIN t PROVE t[k] \in ToSet(u)
      BY <1>2, <1>7 DEF ToSet
    <2> QED
      BY <2>1, <2>2, <2>3 DEF ToSet
  <1>9. /\ \A i \in 1 .. Len(s) : s[i] \in ToSet(s)
        /\ \A i \in 1 .. Len(t) : t[i] \in ToSet(t)
    BY <1>2 DEF ToSet
  <1> QED
    BY <1>1, <1>2, <1>4, <1>5, <1>6, <1>8, <1>9

(* A path with a last hop has one beginning.                               *)
LEMMA AppendOnce ==
    ASSUME NEW p \in Seq(Hop), NEW q \in Seq(Hop), NEW h \in Hop, NEW k \in Hop,
           Append(p, h) = Append(q, k)
    PROVE  p = q
  <1>1. /\ Len(Append(p, h)) = Len(p) + 1 /\ Len(p) \in Nat
        /\ \A i \in 1 .. Len(p) : Append(p, h)[i] = p[i]
    BY AppendProperties
  <1>2. /\ Len(Append(q, k)) = Len(q) + 1 /\ Len(q) \in Nat
        /\ \A i \in 1 .. Len(q) : Append(q, k)[i] = q[i]
    BY AppendProperties
  <1>3. Len(p) = Len(q)
    BY <1>1, <1>2
  <1>4. \A i \in 1 .. Len(p) : p[i] = q[i]
    BY <1>1, <1>2, <1>3
  <1> QED
    BY <1>3, <1>4, SeqEqual

(* A step of the loop that found the paths f, with more edges or not.      *)
Finds(f, hm) ==
    /\ Running /\ ~stopped
    /\ Len(Path) <= depth
    /\ UNCHANGED inputs
    /\ f \in Seq(Seq(Hop)) /\ hm \in BOOLEAN
    /\ results' = results \o f
    /\ queue' = Tail(queue) \o Queued(f)
    /\ visited' = IF kind = "trace" THEN visited
                  ELSE visited \union {Last(p).node : p \in ToSet(f)}
    /\ truncated' = (truncated \/ hm)
    /\ stopped' = hm
    /\ kind = "query" => budget' = budget /\ Len(results) + Len(f) <= limit
    /\ kind # "query" =>
          IF budget = Unbounded THEN budget' = Unbounded
          ELSE budget' \in Nat /\ budget' + Len(f) <= budget
    /\ \A p \in ToSet(f) :
          \E e \in Incident(Here) :
             /\ p = Along(Path, e)
             /\ kind = "trace" => ~OnPath(Path, NextKey(Here, e))
             /\ kind # "trace" => NextKey(Here, e) \notin visited
    /\ kind = "trace" =>
          /\ IsInjective(f)
          /\ ~hm => \A e \in Incident(Here) :
                       \/ OnPath(Path, NextKey(Here, e))
                       \/ Along(Path, e) \in ToSet(f)
    /\ kind # "trace" =>
          /\ \A i, j \in 1 .. Len(f) : Last(f[i]).node = Last(f[j]).node => i = j
          /\ ~hm => \A e \in Incident(Here) :
                       \/ NextKey(Here, e) \in visited
                       \/ \E p \in ToSet(f) : Last(p).node = NextKey(Here, e)

(* Expand is such a step.                                                  *)
LEMMA ExpandFinds ==
    ASSUME TraversalIInv, Expand
    PROVE  \E f, hm : Finds(f, hm)
  <1>1. RequestInv /\ QueueInv /\ BudgetInv
    BY DEF TraversalIInv
  <1>2. /\ Running /\ Depth < depth
        /\ kind = "query" => Len(results) < limit
        /\ UNCHANGED inputs
    BY DEF Expand
  <1>3. /\ depth \in Nat /\ Len(results) \in Nat
        /\ limit \in Nat \union {Unbounded}
        /\ kind = "query" => limit \in Nat
        /\ budget \in Nat \union {Unbounded}
    BY <1>1 DEF RequestInv, BudgetInv, QueueInv
  <1>4. EdgeBudget \in Nat \union {Unbounded}
    BY <1>2, <1>3 DEF EdgeBudget
  <1>5. PICK more : more = NextEdges
    OBVIOUS
  <1>6. PICK f : f = Found(more.edges)
    OBVIOUS
  <1>7. /\ results' = results \o f
        /\ queue' = Tail(queue) \o Queued(f)
        /\ visited' = IF kind = "trace" THEN visited
                      ELSE visited \union {Last(p).node : p \in ToSet(f)}
        /\ budget' = IF kind = "query" THEN budget
                     ELSE BudgetAfter(Len(more.edges))
        /\ truncated' = (truncated \/ more.has_more)
        /\ stopped' = more.has_more
    BY <1>5, <1>6 DEF Expand
  <1>8. /\ more.edges \in Seq(Incident(Here))
        /\ more.has_more \in BOOLEAN
        /\ EdgeBudget # Unbounded => Len(more.edges) <= EdgeBudget
        /\ ~more.has_more => ToSet(more.edges) = Incident(Here)
        /\ \A i, j \in 1 .. Len(more.edges) :
              more.edges[i] = more.edges[j] =>
                 i = j \/ NextKey(Here, more.edges[i]) = Here
    BY <1>1, <1>4, <1>5, MoreFacts
  <1>9. PICK es : es = more.edges
    OBVIOUS
  <1>10. /\ f \in Seq(Seq(Hop))
         /\ Len(f) <= Len(es)
         /\ \A p \in ToSet(f) :
               \E e \in Incident(Here) :
                  /\ p = Along(Path, e)
                  /\ kind = "trace" => ~OnPath(Path, NextKey(Here, e))
                  /\ kind # "trace" => NextKey(Here, e) \notin visited
         /\ kind = "trace" =>
               /\ IsInjective(f)
               /\ \A e \in ToSet(es) : \/ OnPath(Path, NextKey(Here, e))
                                       \/ Along(Path, e) \in ToSet(f)
         /\ kind # "trace" =>
               /\ \A i, j \in 1 .. Len(f) :
                     Last(f[i]).node = Last(f[j]).node => i = j
               /\ \A e \in ToSet(es) :
                     \/ NextKey(Here, e) \in visited
                     \/ \E p \in ToSet(f) : Last(p).node = NextKey(Here, e)
    BY <1>1, <1>2, <1>6, <1>8, <1>9, FoundFacts
  <1>11. Len(Path) <= depth /\ ~stopped
    <2>1. Len(Path) \in Nat
      BY <1>1, <1>2, HeadFacts
    <2> QED
      BY <1>2, <1>3, <2>1 DEF Depth, Running
  <1>12. Len(f) \in Nat /\ Len(es) \in Nat
    BY <1>8, <1>9, <1>10
  <1>13. kind = "query" => budget' = budget /\ Len(results) + Len(f) <= limit
    <2> SUFFICES ASSUME kind = "query"
                 PROVE  budget' = budget /\ Len(results) + Len(f) <= limit
      OBVIOUS
    <2>1. EdgeBudget = limit - Len(results) /\ limit \in Nat
      BY <1>3 DEF EdgeBudget
    <2>2. EdgeBudget # Unbounded
      BY <1>2, <1>3, <2>1, TraversalAssumption
    <2>3. Len(es) <= limit - Len(results)
      BY <1>8, <1>9, <2>1, <2>2
    <2> QED
      BY <1>3, <1>7, <1>10, <1>12, <2>1, <2>3
  <1>14. kind # "query" =>
            IF budget = Unbounded THEN budget' = Unbounded
            ELSE budget' \in Nat /\ budget' + Len(f) <= budget
    <2> SUFFICES ASSUME kind # "query"
                 PROVE  IF budget = Unbounded THEN budget' = Unbounded
                        ELSE budget' \in Nat /\ budget' + Len(f) <= budget
      OBVIOUS
    <2>1. EdgeBudget = budget
      BY DEF EdgeBudget
    <2>2. CASE budget = Unbounded
      BY <1>7, <2>2 DEF BudgetAfter
    <2>3. CASE budget # Unbounded
      <3>1. budget' = budget - Len(es) /\ budget \in Nat /\ Len(es) <= budget
        BY <1>3, <1>7, <1>8, <1>9, <2>1, <2>3 DEF BudgetAfter
      <3> QED
        BY <1>10, <1>12, <2>3, <3>1
    <2> QED
      BY <2>2, <2>3
  <1>15. Finds(f, more.has_more)
    <2>1. /\ kind = "trace" /\ ~more.has_more =>
               \A e \in Incident(Here) : \/ OnPath(Path, NextKey(Here, e))
                                         \/ Along(Path, e) \in ToSet(f)
          /\ kind # "trace" /\ ~more.has_more =>
               \A e \in Incident(Here) :
                  \/ NextKey(Here, e) \in visited
                  \/ \E p \in ToSet(f) : Last(p).node = NextKey(Here, e)
      BY <1>8, <1>9, <1>10
    <2> QED
      BY <1>2, <1>7, <1>8, <1>10, <1>11, <1>13, <1>14, <2>1 DEF Finds
  <1> QED
    BY <1>15

(* What is found is one hop longer than the path it extends.               *)
LEMMA FoundPaths ==
    ASSUME RequestInv, QueueInv, NEW f, NEW hm, Finds(f, hm)
    PROVE  \A p \in ToSet(f) :
              \E e \in Incident(Here) :
                 /\ p = Along(Path, e)
                 /\ kind = "trace" => ~OnPath(Path, NextKey(Here, e))
                 /\ kind # "trace" => NextKey(Here, e) \notin visited
                 /\ p \in Seq(Hop)
                 /\ Len(p) = Len(Path) + 1
                 /\ \A i \in 1 .. Len(Path) : p[i] = Path[i]
                 /\ Last(p) = p[Len(Path) + 1]
                 /\ Last(p).node = NextKey(Here, e) /\ Last(p).edge = e
                 /\ Last(p).node \in Node
                 /\ \E h \in Hop : p = Append(Path, h)
  <1> TAKE p \in ToSet(f)
  <1>1. PICK e \in Incident(Here) :
           /\ p = Along(Path, e)
           /\ kind = "trace" => ~OnPath(Path, NextKey(Here, e))
           /\ kind # "trace" => NextKey(Here, e) \notin visited
    BY DEF Finds
  <1>2. /\ Path \in Seq(Hop) /\ Len(Path) >= 1 /\ Here = Last(Path).node
        /\ graph \in Graph
    BY HeadFacts DEF Finds, RequestInv
  <1>3. e \in Incident(Last(Path).node)
    BY <1>2
  <1>4. /\ Along(Path, e) \in Seq(Hop)
        /\ Len(Along(Path, e)) = Len(Path) + 1
        /\ \A i \in 1 .. Len(Path) : Along(Path, e)[i] = Path[i]
        /\ Last(Along(Path, e)) = Along(Path, e)[Len(Path) + 1]
        /\ Last(Along(Path, e)).node = NextKey(Last(Path).node, e)
        /\ Last(Along(Path, e)).edge = e
        /\ \E h \in Hop : Along(Path, e) = Append(Path, h)
    BY <1>2, <1>3, AlongFacts
  <1>5. NextKey(Here, e) \in Node
    BY <1>2, IncidentFacts
  <1> QED
    BY <1>1, <1>2, <1>4, <1>5

(* What is queued of it, and what only reported.                           *)
LEMMA QueuedFacts ==
    ASSUME NEW f \in Seq(Seq(Hop)), RequestInv, Len(Path) \in Nat
    PROVE  /\ Queued(f) \in Seq(Seq(Hop))
           /\ Queued(f) = f \/ (Queued(f) = <<>> /\ Len(Path) + 1 > depth)
           /\ ToSet(Queued(f)) \subseteq ToSet(f)
  <1>1. depth \in Nat
    BY DEF RequestInv
  <1>2. Queued(f) = f \/ (Queued(f) = <<>> /\ Len(Path) + 1 > depth)
    <2>1. PICK n \in Nat : n = Len(Path)
      OBVIOUS
    <2>2. Depth + 1 < depth <=> (n - 1) + 1 < depth
      BY <2>1 DEF Depth
    <2>3. ~(Depth + 1 < depth) => n + 1 > depth
      BY <1>1, <2>2
    <2>4. CASE kind = "impact" \/ Depth + 1 < depth
      BY <2>4 DEF Queued
    <2>5. CASE ~(kind = "impact" \/ Depth + 1 < depth)
      <3>1. Queued(f) = <<>>
        BY <2>5 DEF Queued
      <3>2. Len(Path) + 1 > depth
        BY <2>1, <2>3, <2>5
      <3> QED
        BY <3>1, <3>2
    <2> QED
      BY <2>4, <2>5
  <1>3. <<>> \in Seq(Seq(Hop)) /\ ToSet(<<>>) = {}
    BY DEF ToSet
  <1> QED
    BY <1>2, <1>3

(* The queue and the results after the step.                               *)
LEMMA FoundQueue ==
    ASSUME RequestInv, QueueInv, NEW f, NEW hm, Finds(f, hm)
    PROVE  /\ QueueInv'
           /\ Reached' = Reached \union ToSet(f)
           /\ ToSet(results') = ToSet(results) \union ToSet(f)
           /\ ToSet(queue') = ToSet(Tail(queue)) \union ToSet(Queued(f))
           /\ \A p \in Reached' \ ToSet(queue') :
                 Len(p) <= depth =>
                    \/ p = Path
                    \/ p \in Reached \ ToSet(queue)
  <1>1. /\ f \in Seq(Seq(Hop)) /\ results' = results \o f /\ Running
        /\ queue' = Tail(queue) \o Queued(f) /\ UNCHANGED inputs
        /\ Len(Path) <= depth
    BY DEF Finds
  <1>2. /\ results \in Seq(Seq(Hop)) /\ queue \in Seq(Seq(Hop))
        /\ depth \in Nat /\ depth' = depth
    BY <1>1 DEF QueueInv, RequestInv, inputs
  <1>3. /\ Len(Path) \in 1 .. depth + 1 /\ Len(Path) \in Nat
        /\ Tail(queue) \in Seq(Seq(Hop)) /\ Path \in Reached
        /\ ToSet(queue) = {Path} \union ToSet(Tail(queue))
        /\ Path[1] = StartPath[1] /\ Len(Path) >= 1
    BY <1>1, <1>2, HeadFacts
  <1>4. /\ Queued(f) \in Seq(Seq(Hop))
        /\ Queued(f) = f \/ (Queued(f) = <<>> /\ Len(Path) + 1 > depth)
        /\ ToSet(Queued(f)) \subseteq ToSet(f)
    BY <1>1, <1>3, QueuedFacts
  <1>5. /\ results' \in Seq(Seq(Hop))
        /\ ToSet(results') = ToSet(results) \union ToSet(f)
    BY <1>1, <1>2, ConcatFacts
  <1>6. /\ queue' \in Seq(Seq(Hop))
        /\ ToSet(queue') = ToSet(Tail(queue)) \union ToSet(Queued(f))
    <2>1. PICK t, g : t = Tail(queue) /\ g = Queued(f)
      OBVIOUS
    <2>2. t \in Seq(Seq(Hop)) /\ g \in Seq(Seq(Hop)) /\ queue' = t \o g
      BY <1>1, <1>3, <1>4, <2>1
    <2>3. t \o g \in Seq(Seq(Hop)) /\ ToSet(t \o g) = ToSet(t) \union ToSet(g)
      BY <2>2, ConcatFacts
    <2> QED
      BY <2>1, <2>2, <2>3
  <1>7. Reached' = Reached \union ToSet(f)
    BY <1>5 DEF Reached
  <1>8. ToSet(queue) \subseteq Reached
    BY DEF QueueInv
  <1>9. ToSet(queue') \subseteq Reached'
    BY <1>3, <1>4, <1>6, <1>7, <1>8
  <1>10. ASSUME NEW p \in ToSet(f)
         PROVE  /\ Len(p) = Len(Path) + 1 /\ Len(p) \in 2 .. depth + 1
                /\ p[1] = StartPath[1] /\ Last(p).node \in Node
    <2>1. /\ Len(p) = Len(Path) + 1 /\ Last(p).node \in Node
          /\ \A i \in 1 .. Len(Path) : p[i] = Path[i]
      BY <1>10, FoundPaths
    <2>2. 1 \in 1 .. Len(Path)
      BY <1>3
    <2>3. Len(p) \in 2 .. depth + 1
      BY <1>1, <1>2, <1>3, <2>1
    <2> QED
      BY <1>3, <2>1, <2>2, <2>3
  <1>11. visited' \subseteq Node
    BY <1>10 DEF Finds, QueueInv
  <1>12. \A p \in ToSet(results') :
            Len(p) \in 2 .. depth' + 1 /\ p[1] = StartPath[1]
    BY <1>2, <1>5, <1>10 DEF QueueInv
  <1>13. QueueInv'
    BY <1>5, <1>6, <1>9, <1>11, <1>12 DEF QueueInv, StartPath
  <1>14. ASSUME NEW p \in Reached' \ ToSet(queue'), Len(p) <= depth
         PROVE  p = Path \/ p \in Reached \ ToSet(queue)
    <2>1. CASE p \in Reached
      BY <1>3, <1>6, <1>14, <2>1
    <2>2. CASE p \in ToSet(f)
      <3>1. Queued(f) # f
        BY <1>6, <1>14, <2>2
      <3>2. Len(p) > depth
        BY <1>4, <1>10, <2>2, <3>1
      <3> QED
        BY <1>2, <1>3, <1>10, <1>14, <2>2, <3>2
    <2> QED
      BY <1>7, <1>14, <2>1, <2>2
  <1> QED
    BY <1>5, <1>6, <1>7, <1>13, <1>14

(* The budget pays for what is found.                                      *)
LEMMA FoundBudget ==
    ASSUME RequestInv, QueueInv, BudgetInv, NEW f, NEW hm, Finds(f, hm)
    PROVE  BudgetInv'
  <1>1. /\ f \in Seq(Seq(Hop)) /\ results' = results \o f /\ hm \in BOOLEAN
        /\ truncated' = (truncated \/ hm) /\ stopped' = hm
        /\ UNCHANGED inputs
        /\ kind = "query" => budget' = budget /\ Len(results) + Len(f) <= limit
        /\ kind # "query" =>
              IF budget = Unbounded THEN budget' = Unbounded
              ELSE budget' \in Nat /\ budget' + Len(f) <= budget
    BY DEF Finds
  <1>2. /\ results \in Seq(Seq(Hop)) /\ kind' = kind /\ limit' = limit
        /\ limit \in Nat \union {Unbounded}
        /\ kind = "query" => limit \in Nat
    BY <1>1 DEF QueueInv, RequestInv, inputs
  <1>3. /\ Len(results') = Len(results) + Len(f)
        /\ Len(results) \in Nat /\ Len(f) \in Nat
    BY <1>1, <1>2, ConcatFacts
  <1>4. /\ truncated' \in BOOLEAN /\ stopped' \in BOOLEAN
        /\ stopped' => truncated'
    BY <1>1
  <1>5. /\ budget \in Nat \union {Unbounded}
        /\ kind # "query" /\ limit # Unbounded =>
              budget # Unbounded /\ Len(results) + budget <= limit
    BY DEF BudgetInv
  <1>6. budget' \in Nat \union {Unbounded}
    BY <1>1, <1>5
  <1>7. kind = "query" => Len(results') <= limit
    BY <1>1, <1>3
  <1>8. ASSUME kind # "query", limit # Unbounded
        PROVE  budget' # Unbounded /\ Len(results') + budget' <= limit
    <2>1. /\ budget \in Nat /\ budget' \in Nat /\ budget' + Len(f) <= budget
          /\ Len(results) + budget <= limit /\ limit \in Nat
      BY <1>1, <1>2, <1>5, <1>8
    <2> QED
      BY <1>3, <2>1, TraversalAssumption
  <1> QED
    BY <1>2, <1>4, <1>6, <1>7, <1>8 DEF BudgetInv

(* A simple path goes on along an edge to a node it has not visited.       *)
LEMMA SimpleAlong ==
    ASSUME RequestInv, NEW p \in Seq(Hop), Len(p) \in 1 .. depth,
           p = StartPath \/ IsSimplePath(p),
           NEW e \in Incident(Last(p).node),
           ~OnPath(p, NextKey(Last(p).node, e))
    PROVE  IsSimplePath(Along(p, e))
  <1>1. graph \in Graph /\ depth \in Nat /\ Len(p) \in Nat /\ Len(p) >= 1
    BY DEF RequestInv
  <1>2. PICK q : q = Along(p, e)
    OBVIOUS
  <1>3. PICK m \in Nat : m = Len(p)
    BY <1>1
  <1>4. /\ q \in Seq(Hop) /\ Len(q) = m + 1
        /\ \A i \in 1 .. m : q[i] = p[i]
        /\ Last(q) = q[m + 1]
        /\ Last(q).node = NextKey(Last(p).node, e) /\ Last(q).edge = e
    BY <1>1, <1>2, <1>3, AlongFacts
  <1>5. /\ p[1] = StartPath[1]
        /\ \A i \in 2 .. m : /\ p[i].edge \in Incident(p[i - 1].node)
                             /\ p[i].node = NextKey(p[i - 1].node, p[i].edge)
        /\ \A i, j \in 1 .. m : p[i].node = p[j].node => i = j
    <2>1. CASE p = StartPath
      <3>1. m = 1
        BY <1>3, <2>1 DEF StartPath
      <3> QED
        BY <2>1, <3>1
    <2>2. CASE IsSimplePath(p)
      BY <1>3, <2>2 DEF IsSimplePath
    <2> QED
      BY <2>1, <2>2
  <1>6. \A i \in 1 .. m : p[i].node # NextKey(Last(p).node, e)
    BY <1>3 DEF OnPath
  <1>7. ASSUME NEW i \in 2 .. Len(q)
        PROVE  /\ q[i].edge \in Incident(q[i - 1].node)
               /\ q[i].node = NextKey(q[i - 1].node, q[i].edge)
    <2>1. CASE i = m + 1
      <3>1. i - 1 = m /\ m \in 1 .. m /\ q[m] = p[m] /\ p[m] = Last(p)
        BY <1>1, <1>3, <1>4, <2>1 DEF Last
      <3>2. q[i] = Last(q) /\ q[i - 1] = Last(p)
        BY <1>4, <2>1, <3>1
      <3> QED
        BY <1>4, <3>2
    <2>2. CASE i # m + 1
      <3>1. i \in 2 .. m /\ i \in 1 .. m /\ i - 1 \in 1 .. m
        BY <1>4, <2>2
      <3>2. q[i] = p[i] /\ q[i - 1] = p[i - 1]
        BY <1>4, <3>1
      <3> QED
        BY <1>5, <3>1, <3>2
    <2> QED
      BY <2>1, <2>2
  <1>8. ASSUME NEW i \in 1 .. Len(q), NEW j \in 1 .. Len(q),
               q[i].node = q[j].node
        PROVE  i = j
    <2>1. \A k \in 1 .. m + 1 : k = m + 1 \/ k \in 1 .. m
      BY <1>1
    <2>2. i \in 1 .. m + 1 /\ j \in 1 .. m + 1
      BY <1>4
    <2>3. \A k \in 1 .. m : q[k].node # q[m + 1].node
      BY <1>4, <1>6
    <2>4. CASE i = m + 1 \/ j = m + 1
      BY <1>8, <2>1, <2>2, <2>3, <2>4
    <2>5. CASE i \in 1 .. m /\ j \in 1 .. m
      BY <1>4, <1>5, <1>8, <2>5
    <2> QED
      BY <2>1, <2>2, <2>4, <2>5
  <1>9. Len(q) \in 2 .. depth + 1
    BY <1>1, <1>3, <1>4
  <1>10. q[1] = StartPath[1]
    BY <1>1, <1>3, <1>4, <1>5
  <1>11. IsSimplePath(q)
    BY <1>7, <1>8, <1>9, <1>10 DEF IsSimplePath
  <1> QED
    BY <1>2, <1>11

(* Two sequences without repetition and without a common element.          *)
LEMMA ConcatInjective ==
    ASSUME NEW A, NEW s \in Seq(A), NEW t \in Seq(A),
           IsInjective(s), IsInjective(t), ToSet(s) \intersect ToSet(t) = {}
    PROVE  IsInjective(s \o t)
  <1>1. PICK u, m, n : u = s \o t /\ m = Len(s) /\ n = Len(t)
    OBVIOUS
  <1>2. /\ m \in Nat /\ n \in Nat /\ DOMAIN s = 1 .. m /\ DOMAIN t = 1 .. n
        /\ DOMAIN u = 1 .. m + n
        /\ \A i \in 1 .. m : u[i] = s[i] /\ s[i] \in ToSet(s)
        /\ \A i \in 1 .. m + n :
              ~(i <= m) => i - m \in 1 .. n /\ u[i] = t[i - m]
        /\ \A i \in 1 .. n : t[i] \in ToSet(t)
    BY <1>1, ConcatFacts
  <1>3. ASSUME NEW i \in 1 .. m + n, NEW j \in 1 .. m + n, u[i] = u[j]
        PROVE  i = j
    <2>1. CASE i <= m /\ j <= m
      <3>1. i \in 1 .. m /\ j \in 1 .. m
        BY <1>2, <2>1
      <3> QED
        BY <1>2, <1>3, <3>1 DEF IsInjective
    <2>2. CASE ~(i <= m) /\ ~(j <= m)
      <3>1. /\ i - m \in DOMAIN t /\ j - m \in DOMAIN t
            /\ t[i - m] = t[j - m]
        BY <1>2, <1>3, <2>2
      <3>2. i - m = j - m
        BY <3>1 DEF IsInjective
      <3> QED
        BY <1>2, <3>2
    <2>3. CASE i <= m /\ ~(j <= m)
      <3>1. i \in 1 .. m
        BY <1>2, <2>3
      <3>2. u[i] \in ToSet(s) /\ u[j] \in ToSet(t)
        BY <1>2, <2>3, <3>1
      <3> QED
        BY <1>3, <3>2
    <2>4. CASE ~(i <= m) /\ j <= m
      <3>1. j \in 1 .. m
        BY <1>2, <2>4
      <3>2. u[j] \in ToSet(s) /\ u[i] \in ToSet(t)
        BY <1>2, <2>4, <3>1
      <3> QED
        BY <1>3, <3>2
    <2> QED
      BY <2>1, <2>2, <2>3, <2>4
  <1> QED
    BY <1>1, <1>2, <1>3 DEF IsInjective

(* A trace goes on.                                                        *)
LEMMA FoundTrace ==
    ASSUME RequestInv, QueueInv, TraceInv, kind = "trace",
           NEW f, NEW hm, Finds(f, hm)
    PROVE  TraceInv'
  <1>1. /\ f \in Seq(Seq(Hop)) /\ results' = results \o f /\ Running
        /\ queue' = Tail(queue) \o Queued(f) /\ UNCHANGED inputs
        /\ Len(Path) <= depth /\ ~stopped /\ stopped' = hm
        /\ IsInjective(f)
        /\ ~hm => \A e \in Incident(Here) :
                     \/ OnPath(Path, NextKey(Here, e))
                     \/ Along(Path, e) \in ToSet(f)
    BY DEF Finds
  <1>2. /\ results \in Seq(Seq(Hop)) /\ queue \in Seq(Seq(Hop))
        /\ DOMAIN queue = 1 .. Len(queue)
        /\ depth \in Nat /\ depth' = depth /\ graph \in Graph
        /\ ToSet(queue) \subseteq Reached
    BY <1>1 DEF QueueInv, RequestInv, inputs
  <1>3. /\ Len(Path) \in 1 .. depth + 1 /\ Len(Path) \in Nat
        /\ Tail(queue) \in Seq(Seq(Hop)) /\ Path \in Reached
        /\ Path \in ToSet(queue) /\ Path \in Seq(Hop)
        /\ ToSet(queue) = {Path} \union ToSet(Tail(queue))
        /\ Len(Path) >= 1 /\ Here = Last(Path).node
        /\ Path = queue[1] /\ Len(queue) \in Nat /\ Len(queue) # 0
        /\ Len(Tail(queue)) = Len(queue) - 1
        /\ \A i \in 1 .. Len(queue) - 1 : Tail(queue)[i] = queue[i + 1]
        /\ ToSet(Tail(queue)) = {queue[i] : i \in 2 .. Len(queue)}
    BY <1>1, <1>2, HeadFacts
  <1>4. /\ Queued(f) \in Seq(Seq(Hop))
        /\ Queued(f) = f \/ (Queued(f) = <<>> /\ Len(Path) + 1 > depth)
        /\ ToSet(Queued(f)) \subseteq ToSet(f)
    BY <1>1, <1>3, QueuedFacts
  <1>5. /\ Reached' = Reached \union ToSet(f)
        /\ ToSet(results') = ToSet(results) \union ToSet(f)
        /\ ToSet(queue') = ToSet(Tail(queue)) \union ToSet(Queued(f))
        /\ \A p \in Reached' \ ToSet(queue') :
              Len(p) <= depth => p = Path \/ p \in Reached \ ToSet(queue)
    BY FoundQueue
  <1>6. ASSUME NEW p \in Reached
        PROVE  p \in Seq(Hop)
    BY <1>6, ReachedFacts
  <1>7. \A p \in ToSet(f) :
           /\ p \in Seq(Hop) /\ Len(p) = Len(Path) + 1
           /\ \E h \in Hop : p = Append(Path, h)
           /\ \E e \in Incident(Here) :
                 p = Along(Path, e) /\ ~OnPath(Path, NextKey(Here, e))
    BY FoundPaths
  <1>8. \A p \in ToSet(f) : p \notin ToSet(results)
    BY <1>3, <1>7 DEF TraceInv
  <1>9. \A p \in ToSet(f) : p \notin Reached
    <2> TAKE p \in ToSet(f)
    <2>1. Len(p) # 1
      BY <1>3, <1>7
    <2>2. Len(StartPath) = 1
      BY ReachedFacts
    <2> QED
      BY <1>8, <2>1, <2>2 DEF Reached
  <1>10. ASSUME NEW p \in ToSet(results')
         PROVE  IsSimplePath(p)
    <2>1. CASE p \in ToSet(results)
      BY <2>1 DEF TraceInv
    <2>2. CASE p \in ToSet(f)
      <3>1. PICK e \in Incident(Here) :
               p = Along(Path, e) /\ ~OnPath(Path, NextKey(Here, e))
        BY <1>7, <2>2
      <3>2. Path = StartPath \/ IsSimplePath(Path)
        BY <1>3 DEF Reached, TraceInv
      <3>3. Len(Path) \in 1 .. depth
        BY <1>1, <1>2, <1>3
      <3>4. /\ e \in Incident(Last(Path).node)
            /\ ~OnPath(Path, NextKey(Last(Path).node, e))
        BY <1>3, <3>1
      <3> QED
        BY <1>3, <3>1, <3>2, <3>3, <3>4, SimpleAlong
    <2> QED
      BY <1>5, <1>10, <2>1, <2>2
  <1>11. IsInjective(results')
    <2>1. IsInjective(results) /\ ToSet(results) \intersect ToSet(f) = {}
      BY <1>8 DEF TraceInv
    <2> QED
      BY <1>1, <1>2, <2>1, ConcatInjective
  <1>12. \A a, b \in 1 .. Len(queue) : queue[a] = queue[b] => a = b
    BY <1>2 DEF TraceInv, IsInjective
  <1>13. Path \notin ToSet(Tail(queue))
    <2>1. \A i \in 2 .. Len(queue) : i \in 1 .. Len(queue) /\ i # 1
      BY <1>3
    <2>2. 1 \in 1 .. Len(queue)
      BY <1>3
    <2> QED
      BY <1>3, <1>12, <2>1, <2>2
  <1>14. PICK t, g : t = Tail(queue) /\ g = Queued(f)
    OBVIOUS
  <1>15. IsInjective(queue')
    <2>1. IsInjective(t)
      <3>1. PICK n \in Nat : n = Len(queue)
        BY <1>3
      <3>2. DOMAIN t = 1 .. n - 1 /\ \A i \in 1 .. n - 1 : t[i] = queue[i + 1]
        BY <1>3, <1>14, <3>1
      <3>3. ASSUME NEW a \in 1 .. n - 1, NEW b \in 1 .. n - 1, t[a] = t[b]
            PROVE  a = b
        <4>1. a + 1 \in 1 .. n /\ b + 1 \in 1 .. n
          OBVIOUS
        <4>2. a + 1 = b + 1
          BY <1>12, <3>1, <3>2, <3>3, <4>1
        <4> QED
          BY <4>2
      <3> QED
        BY <3>2, <3>3 DEF IsInjective
    <2>2. IsInjective(g)
      <3>1. IsInjective(<<>>)
        BY DEF IsInjective
      <3> QED
        BY <1>1, <1>4, <1>14, <3>1
    <2>3. ToSet(t) \intersect ToSet(g) = {}
      BY <1>2, <1>3, <1>4, <1>9, <1>14
    <2>4. t \in Seq(Seq(Hop)) /\ g \in Seq(Seq(Hop)) /\ queue' = t \o g
      BY <1>1, <1>3, <1>4, <1>14
    <2> QED
      BY <2>1, <2>2, <2>3, <2>4, ConcatInjective
  <1>16. ASSUME NEW r \in ToSet(results')
         PROVE  \E p \in Reached', h \in Hop : r = Append(p, h)
    <2>1. CASE r \in ToSet(results)
      BY <1>5, <2>1 DEF TraceInv
    <2>2. CASE r \in ToSet(f)
      BY <1>3, <1>5, <1>7, <2>2
    <2> QED
      BY <1>5, <1>16, <2>1, <2>2
  <1>17. ASSUME NEW p \in ToSet(queue'), NEW h \in Hop,
                Append(p, h) \in ToSet(results')
         PROVE  FALSE
    <2>1. ASSUME p \in Seq(Hop), Append(p, h) \in ToSet(f)
          PROVE  p = Path
      <3>1. PICK k \in Hop : Append(p, h) = Append(Path, k)
        BY <1>7, <2>1
      <3> QED
        BY <1>3, <2>1, <3>1, AppendOnce
    <2>2. CASE p \in ToSet(Tail(queue))
      <3>1. p \in ToSet(queue) /\ p \in Seq(Hop)
        BY <1>2, <1>3, <1>6, <2>2
      <3>2. Append(p, h) \notin ToSet(results)
        BY <3>1 DEF TraceInv
      <3> QED
        BY <1>5, <1>13, <1>17, <2>1, <2>2, <3>1, <3>2
    <2>3. CASE p \in ToSet(f)
      <3>1. p \in Seq(Hop) /\ p # Path
        BY <1>3, <1>7, <1>9, <2>3
      <3>2. Append(p, h) \in ToSet(results)
        BY <1>5, <1>17, <2>1, <3>1
      <3>3. PICK r \in Reached : \E k \in Hop : Append(p, h) = Append(r, k)
        BY <3>2 DEF TraceInv
      <3>4. p = r
        BY <1>6, <3>1, <3>3, AppendOnce
      <3> QED
        BY <1>9, <2>3, <3>3, <3>4
    <2> QED
      BY <1>4, <1>5, <2>2, <2>3
  <1>18. ASSUME ~stopped', NEW p \in Reached' \ ToSet(queue'),
                Len(p) <= depth, NEW e \in Incident(Last(p).node)
         PROVE  \/ \E i \in 1 .. Len(p) : p[i].node = NextKey(Last(p).node, e)
                \/ Along(p, e) \in ToSet(results')
    <2>1. CASE p = Path
      <3>1. \/ OnPath(Path, NextKey(Here, e))
            \/ Along(Path, e) \in ToSet(f)
        BY <1>1, <1>3, <1>18, <2>1
      <3> QED
        BY <1>3, <1>5, <2>1, <3>1 DEF OnPath
    <2>2. CASE p \in Reached \ ToSet(queue)
      BY <1>1, <1>5, <1>18, <2>2 DEF TraceInv
    <2> QED
      BY <1>5, <1>18, <2>1, <2>2
  <1>19. /\ \A n : Incident(n)' = Incident(n)
         /\ \A n, e : NextKey(n, e)' = NextKey(n, e)
         /\ \A p : IsSimplePath(p)' = IsSimplePath(p)
         /\ \A p, e : Along(p, e)' = Along(p, e)
    BY <1>1, SameGraph
  <1> QED
    BY <1>2, <1>10, <1>11, <1>15, <1>16, <1>17, <1>18, <1>19 DEF TraceInv

(* The others go on, level by level.                                       *)
LEMMA FoundLevels ==
    ASSUME RequestInv, QueueInv, LevelInv, kind # "trace",
           NEW f, NEW hm, Finds(f, hm)
    PROVE  LevelInv'
  <1>1. /\ f \in Seq(Seq(Hop)) /\ results' = results \o f /\ Running
        /\ queue' = Tail(queue) \o Queued(f) /\ UNCHANGED inputs
        /\ Len(Path) <= depth /\ ~stopped /\ stopped' = hm
        /\ visited' = visited \union {Last(p).node : p \in ToSet(f)}
        /\ \A i, j \in 1 .. Len(f) : Last(f[i]).node = Last(f[j]).node => i = j
        /\ ~hm => \A e \in Incident(Here) :
                     \/ NextKey(Here, e) \in visited
                     \/ \E p \in ToSet(f) : Last(p).node = NextKey(Here, e)
    BY DEF Finds
  <1>2. /\ results \in Seq(Seq(Hop)) /\ queue \in Seq(Seq(Hop))
        /\ DOMAIN queue = 1 .. Len(queue)
        /\ depth \in Nat /\ depth' = depth /\ graph \in Graph
        /\ ToSet(queue) \subseteq Reached
    BY <1>1 DEF QueueInv, RequestInv, inputs
  <1>3. /\ Len(Path) \in 1 .. depth + 1 /\ Len(Path) \in Nat
        /\ Tail(queue) \in Seq(Seq(Hop)) /\ Path \in Reached
        /\ Path \in ToSet(queue) /\ Path \in Seq(Hop)
        /\ ToSet(queue) = {Path} \union ToSet(Tail(queue))
        /\ Len(Path) >= 1 /\ Here = Last(Path).node
        /\ Path = queue[1] /\ Len(queue) \in Nat /\ Len(queue) # 0
        /\ ToSet(Tail(queue)) = {queue[i] : i \in 2 .. Len(queue)}
    BY <1>1, <1>2, HeadFacts
  <1>4. /\ Queued(f) \in Seq(Seq(Hop))
        /\ Queued(f) = f \/ (Queued(f) = <<>> /\ Len(Path) + 1 > depth)
        /\ ToSet(Queued(f)) \subseteq ToSet(f)
    BY <1>1, <1>3, QueuedFacts
  <1>5. /\ Reached' = Reached \union ToSet(f)
        /\ ToSet(queue') = ToSet(Tail(queue)) \union ToSet(Queued(f))
        /\ \A p \in Reached' \ ToSet(queue') :
              Len(p) <= depth => p = Path \/ p \in Reached \ ToSet(queue)
    BY FoundQueue
  <1>6. \A p \in ToSet(f) :
           /\ p \in Seq(Hop) /\ Len(p) = Len(Path) + 1
           /\ \E e \in Incident(Here) : /\ Last(p).node = NextKey(Here, e)
                                        /\ NextKey(Here, e) \notin visited
    BY FoundPaths
  <1>7. /\ visited = {Last(p).node : p \in Reached}
        /\ \A i \in 1 .. Len(results) :
              /\ Last(results[i]).node
                   \in Within(Len(results[i]) - 1) \ Within(Len(results[i]) - 2)
              /\ \A j \in 1 .. i - 1 :
                    Last(results[j]).node # Last(results[i]).node
        /\ \A i, j \in 1 .. Len(queue) :
              i < j => /\ Len(queue[i]) <= Len(queue[j])
                       /\ Len(queue[j]) <= Len(queue[1]) + 1
        /\ \A p \in Reached \ ToSet(queue) :
              Len(p) <= depth => Near(Last(p).node) \subseteq visited
    BY <1>1 DEF LevelInv
  <1>8. visited' = {Last(p).node : p \in Reached'}
    BY <1>1, <1>5, <1>7
  <1>9. PICK L \in Nat : L = Len(Path) /\ L >= 1 /\ L <= depth
    BY <1>1, <1>3
  <1>10. ASSUME NEW p \in ToSet(queue)
         PROVE  Len(p) \in L .. L + 1
    <2>1. PICK i \in 1 .. Len(queue) : p = queue[i]
      BY <1>2 DEF ToSet
    <2>2. Len(p) \in Nat
      BY <1>2, <2>1
    <2>3. CASE i = 1
      BY <1>3, <1>9, <2>1, <2>3
    <2>4. CASE i # 1
      <3>1. 1 < i /\ 1 \in 1 .. Len(queue)
        BY <1>3, <2>4
      <3>2. Len(queue[1]) <= Len(p) /\ Len(p) <= Len(queue[1]) + 1
        BY <1>7, <2>1, <3>1
      <3> QED
        BY <1>3, <1>9, <2>2, <3>2
    <2> QED
      BY <2>3, <2>4
  <1>11. Within(L - 1) \subseteq visited
    <2>1. ASSUME NEW p \in Reached, Len(p) <= L - 1
          PROVE  Near(Last(p).node) \subseteq visited
      <3>1. Len(p) \in Nat
        BY <1>2, ReachedFacts
      <3>2. p \notin ToSet(queue)
        BY <1>9, <1>10, <2>1, <3>1
      <3>3. Len(p) <= depth
        BY <1>2, <1>9, <2>1, <3>1
      <3> QED
        BY <1>7, <3>2, <3>3
    <2>2. L - 1 \in Nat
      BY <1>9
    <2> QED
      BY <2>1, <2>2, Covered
  <1>12. Here \in Within(L - 1)
    <2>1. CASE Path = StartPath
      <3>1. L = 1 /\ Here = Start
        BY <1>3, <1>9, <2>1, ReachedFacts
      <3>2. L - 1 = 0
        BY <3>1
      <3> QED
        BY <3>1, <3>2, StartWithin
    <2>2. CASE Path \in ToSet(results)
      <3>1. PICK i \in 1 .. Len(results) : Path = results[i]
        BY <2>2, ReachedFacts
      <3> QED
        BY <1>3, <1>7, <1>9, <3>1
    <2> QED
      BY <1>3, <2>1, <2>2 DEF Reached
  <1>13. ASSUME NEW p \in ToSet(f)
         PROVE  /\ Last(p).node \in Within(Len(p) - 1) \ Within(Len(p) - 2)
                /\ Last(p).node \notin visited
    <2>1. PICK e \in Incident(Here) : /\ Last(p).node = NextKey(Here, e)
                                      /\ NextKey(Here, e) \notin visited
      BY <1>6
    <2>2. Last(p).node \in Near(Here)
      BY <2>1 DEF Near
    <2>3. L - 1 \in Nat /\ (L - 1) + 1 = L
      BY <1>9
    <2>4. Last(p).node \in Within((L - 1) + 1)
      BY <1>2, <1>12, <2>2, <2>3, WithinStep
    <2>5. Len(p) - 1 = L /\ Len(p) - 2 = L - 1
      BY <1>6, <1>9
    <2> QED
      BY <1>11, <2>1, <2>3, <2>4, <2>5
  <1>14. PICK r, m, n : r = results \o f /\ m = Len(results) /\ n = Len(f)
    OBVIOUS
  <1>15. /\ m \in Nat /\ n \in Nat /\ Len(r) = m + n
         /\ \A i \in 1 .. m : r[i] = results[i]
         /\ \A i \in 1 .. m + n :
               ~(i <= m) => i - m \in 1 .. n /\ r[i] = f[i - m]
         /\ \A i \in 1 .. n : f[i] \in ToSet(f)
    BY <1>1, <1>2, <1>14, ConcatFacts
  <1>16. \A i \in 1 .. m : Last(results[i]).node \in visited
    <2>1. \A i \in 1 .. m : results[i] \in Reached
      BY <1>14, ReachedFacts DEF Reached
    <2> QED
      BY <1>7, <2>1
  <1>17. ASSUME NEW i \in 1 .. m + n
         PROVE  /\ Last(r[i]).node \in Within(Len(r[i]) - 1)
                                         \ Within(Len(r[i]) - 2)
                /\ \A j \in 1 .. i - 1 : Last(r[j]).node # Last(r[i]).node
    <2>1. CASE i <= m
      <3>1. i \in 1 .. m /\ \A j \in 1 .. i - 1 : j \in 1 .. m
        BY <1>15, <2>1
      <3>2. r[i] = results[i] /\ \A j \in 1 .. i - 1 : r[j] = results[j]
        BY <1>15, <3>1
      <3> QED
        BY <1>7, <1>14, <3>1, <3>2
    <2>2. CASE ~(i <= m)
      <3>1. i - m \in 1 .. n /\ r[i] = f[i - m] /\ r[i] \in ToSet(f)
        BY <1>15, <2>2
      <3>2. ASSUME NEW j \in 1 .. i - 1
            PROVE  Last(r[j]).node # Last(r[i]).node
        <4>1. CASE j <= m
          <5>1. j \in 1 .. m
            BY <1>15, <4>1
          <5>2. Last(r[j]).node \in visited
            BY <1>15, <1>16, <5>1
          <5> QED
            BY <1>13, <3>1, <5>2
        <4>2. CASE ~(j <= m)
          <5>1. j \in 1 .. m + n /\ j # i
            BY <1>15
          <5>2. j - m \in 1 .. n /\ r[j] = f[j - m] /\ j - m # i - m
            BY <1>15, <4>2, <5>1
          <5> QED
            BY <1>1, <1>14, <3>1, <5>2
        <4> QED
          BY <4>1, <4>2
      <3> QED
        BY <1>13, <3>1, <3>2
    <2> QED
      BY <2>1, <2>2
  <1>18. PICK t, g, q : t = Tail(queue) /\ g = Queued(f) /\ q = t \o g
    OBVIOUS
  <1>19. PICK a, b : a = Len(t) /\ b = Len(g)
    OBVIOUS
  <1>20. /\ a \in Nat /\ b \in Nat /\ Len(q) = a + b
         /\ \A i \in 1 .. a : q[i] = t[i]
         /\ \A i \in 1 .. a + b :
               ~(i <= a) => i - a \in 1 .. b /\ q[i] = g[i - a]
         /\ \A i \in 1 .. a : t[i] \in ToSet(t)
         /\ \A i \in 1 .. b : g[i] \in ToSet(g)
    <2>1. t \in Seq(Seq(Hop)) /\ g \in Seq(Seq(Hop))
      BY <1>3, <1>4, <1>18
    <2>2. /\ Len(t) \in Nat /\ Len(g) \in Nat
          /\ Len(t \o g) = Len(t) + Len(g)
          /\ \A i \in 1 .. Len(t) : (t \o g)[i] = t[i]
          /\ \A i \in 1 .. Len(t) + Len(g) :
                ~(i <= Len(t)) => /\ i - Len(t) \in 1 .. Len(g)
                                  /\ (t \o g)[i] = g[i - Len(t)]
          /\ \A i \in 1 .. Len(t) : t[i] \in ToSet(t)
          /\ \A i \in 1 .. Len(g) : g[i] \in ToSet(g)
      BY <2>1, ConcatFacts
    <2>3. q = t \o g
      BY <1>18
    <2> QED
      BY <1>19, <2>2, <2>3
  <1>21. /\ \A i \in 1 .. a : Len(q[i]) \in L .. L + 1
         /\ \A i \in 1 .. a + b : ~(i <= a) => Len(q[i]) = L + 1
    <2>1. \A i \in 1 .. a : q[i] \in ToSet(queue)
      BY <1>3, <1>18, <1>20
    <2>2. \A i \in 1 .. a + b : ~(i <= a) => q[i] \in ToSet(f)
      BY <1>4, <1>18, <1>20
    <2> QED
      BY <1>6, <1>9, <1>10, <2>1, <2>2
  <1>22. ASSUME NEW i \in 1 .. a + b, NEW j \in 1 .. a + b, i < j
         PROVE  Len(q[i]) <= Len(q[j]) /\ Len(q[j]) <= Len(q[1]) + 1
    <2>1. \A k \in 1 .. a + b : Len(q[k]) \in L .. L + 1
      <3> TAKE k \in 1 .. a + b
      <3>1. CASE k <= a
        <4>1. k \in 1 .. a
          BY <1>20, <3>1
        <4> QED
          BY <1>21, <4>1
      <3>2. CASE ~(k <= a)
        BY <1>9, <1>21, <3>2
      <3> QED
        BY <3>1, <3>2
    <2>2. 1 \in 1 .. a + b
      BY <1>20
    <2>3. Len(q[j]) <= Len(q[1]) + 1
      <3>1. Len(q[j]) \in L .. L + 1 /\ Len(q[1]) \in L .. L + 1
        BY <2>1, <2>2
      <3> QED
        BY <1>9, <3>1
    <2>4. CASE j <= a
      <3>1. i \in 1 .. a /\ j \in 1 .. a
        BY <1>20, <1>22, <2>4
      <3>2. Len(t[i]) <= Len(t[j])
        BY <1>1, <1>18, <1>19, <1>22, <3>1, TailLevels
      <3> QED
        BY <1>20, <2>3, <3>1, <3>2
    <2>5. CASE ~(j <= a)
      <3>1. Len(q[j]) = L + 1 /\ Len(q[i]) \in L .. L + 1
        BY <1>21, <2>1, <2>5
      <3> QED
        BY <1>9, <2>3, <3>1
    <2> QED
      BY <2>4, <2>5
  <1>23. ASSUME ~stopped', NEW p \in Reached' \ ToSet(queue'), Len(p) <= depth
         PROVE  Near(Last(p).node) \subseteq visited'
    <2>1. CASE p = Path
      <3>1. \A e \in Incident(Here) : NextKey(Here, e) \in visited'
        BY <1>1, <1>23
      <3> QED
        BY <1>3, <2>1, <3>1 DEF Near
    <2>2. CASE p \in Reached \ ToSet(queue)
      BY <1>1, <1>7, <1>23, <2>2
    <2> QED
      BY <1>5, <1>23, <2>1, <2>2
  <1>24. /\ \A n1 : Near(n1)' = Near(n1)
         /\ \A d : Within(d)' = Within(d)
    BY <1>1, SameGraph
  <1>25. results' = r /\ queue' = q
    BY <1>1, <1>14, <1>18
  <1> QED
    BY <1>2, <1>8, <1>15, <1>17, <1>20, <1>22, <1>23, <1>24, <1>25 DEF LevelInv

-----------------------------------------------------------------------------
(* The theorems.                                                           *)

(* Every step of the three loops keeps the invariant.                      *)
THEOREM TraversalInvariant == Spec => []TraversalIInv
  <1>1. Init => TraversalIInv
    BY InitStep
  <1>2. TraversalIInv /\ [Next]_vars => TraversalIInv'
    <2> SUFFICES ASSUME TraversalIInv, [Next]_vars
                 PROVE  TraversalIInv'
      OBVIOUS
    <2>1. CASE SkipLastLevel
      BY <2>1, SkipStep
    <2>2. CASE StopAtLimit
      BY <2>2, StopStep
    <2>3. CASE Expand
      <3>1. PICK f, hm : Finds(f, hm)
        BY <2>3, ExpandFinds
      <3>2. /\ RequestInv /\ QueueInv /\ BudgetInv
            /\ kind = "trace" => TraceInv
            /\ kind # "trace" => LevelInv
        BY DEF TraversalIInv
      <3>3. RequestInv' /\ kind' = kind
        BY <3>1, <3>2, SameGraph DEF Finds
      <3>4. QueueInv' /\ BudgetInv'
        BY <3>1, <3>2, FoundQueue, FoundBudget
      <3>5. kind = "trace" => TraceInv'
        BY <3>1, <3>2, FoundTrace
      <3>6. kind # "trace" => LevelInv'
        BY <3>1, <3>2, FoundLevels
      <3> QED
        BY <3>3, <3>4, <3>5, <3>6 DEF TraversalIInv
    <2>4. CASE Done \/ UNCHANGED vars
      BY <2>4, StutterStep DEF Done
    <2> QED
      BY <2>1, <2>2, <2>3, <2>4 DEF Next
  <1> QED
    BY <1>1, <1>2, PTL DEF Spec

(* Every variable always holds a value of its kind.                        *)
THEOREM TraversalTypes == Spec => []TraversalTypeOK
  <1>1. TraversalIInv => TraversalTypeOK
    BY DEF TraversalIInv, RequestInv, QueueInv, BudgetInv, TraversalTypeOK
  <1> QED
    BY <1>1, TraversalInvariant, PTL

(* No traversal returns more than its limit, whatever its budget counts.   *)
THEOREM LimitIsKept == Spec => []LimitHolds
  <1>1. TraversalIInv => LimitHolds
    <2> SUFFICES ASSUME TraversalIInv, limit # Unbounded
                 PROVE  Len(results) <= limit
      BY DEF LimitHolds
    <2>1. Len(results) \in Nat /\ limit \in Nat
      BY DEF TraversalIInv, RequestInv, QueueInv
    <2>2. CASE kind = "query"
      BY <2>2 DEF TraversalIInv, BudgetInv
    <2>3. CASE kind # "query"
      <3>1. /\ budget \in Nat \union {Unbounded} /\ budget # Unbounded
            /\ Len(results) + budget <= limit
        BY <2>3 DEF TraversalIInv, BudgetInv
      <3> QED
        BY <2>1, <3>1
    <2> QED
      BY <2>2, <2>3
  <1> QED
    BY <1>1, TraversalInvariant, PTL

(* A traced path exists, visits no node twice and is reported once.        *)
THEOREM TracedPathsAreSimple == Spec => []PathsAreSimple
  <1>1. TraversalIInv => PathsAreSimple
    BY DEF TraversalIInv, TraceInv, PathsAreSimple
  <1> QED
    BY <1>1, TraversalInvariant, PTL

(* The depth reported with an object is its distance from the start, and   *)
(* it is reported once, also in a result that was cut short.               *)
THEOREM DepthsAreDistances == Spec => []DepthIsDistance
  <1>1. TraversalIInv => DepthIsDistance
    <2> SUFFICES ASSUME TraversalIInv, kind # "trace",
                        NEW i \in 1 .. Len(results)
                 PROVE  /\ Len(results[i]) - 1 \in 1 .. depth
                        /\ Last(results[i]).node
                              \in Within(Len(results[i]) - 1)
                                    \ Within((Len(results[i]) - 1) - 1)
                        /\ \A j \in 1 .. i - 1 :
                              Last(results[j]).node # Last(results[i]).node
      BY DEF DepthIsDistance
    <2>1. RequestInv /\ QueueInv /\ LevelInv
      BY DEF TraversalIInv
    <2>2. PICK p : p = results[i]
      OBVIOUS
    <2>3. p \in ToSet(results)
      BY <2>1, <2>2, ReachedFacts
    <2>4. Len(p) \in 2 .. depth + 1 /\ depth \in Nat
      BY <2>1, <2>3 DEF QueueInv, RequestInv
    <2>5. Len(p) - 1 \in 1 .. depth /\ (Len(p) - 1) - 1 = Len(p) - 2
      BY <2>4
    <2> QED
      BY <2>1, <2>2, <2>5 DEF LevelInv
  <1> QED
    BY <1>1, TraversalInvariant, PTL

(* When the edges of a node do not fit the budget, dependencies and        *)
(* constraints stay ahead of indexes and those ahead of ownership, and     *)
(* has_more tells exactly whether some did not fit.                        *)
THEOREM EvidenceFirst == Spec => []EvidenceBeforeOwnership
  <1>1. TraversalIInv => EvidenceBeforeOwnership
    <2> SUFFICES ASSUME TraversalIInv, Running, EdgeBudget # Unbounded
                 PROVE  EvidenceBeforeOwnership
      BY DEF EvidenceBeforeOwnership
    <2>1. /\ Len(results) \in Nat /\ graph \in Graph
          /\ limit \in Nat \union {Unbounded}
          /\ budget \in Nat \union {Unbounded}
          /\ kind = "query" => limit \in Nat /\ Len(results) <= limit
      BY DEF TraversalIInv, RequestInv, QueueInv, BudgetInv
    <2>2. EdgeBudget \in Nat
      BY <2>1 DEF EdgeBudget
    <2>3. PICK m \in Nat : m = EdgeBudget
      BY <2>2
    <2>4. PICK page : page = NextEdgesBounded(Here, m)
      OBVIOUS
    <2>5. /\ page.has_more <=> Incident(Here) \ ToSet(page.edges) # {}
          /\ \A e \in ToSet(page.edges),
                f \in Incident(Here) \ ToSet(page.edges) :
                Priority(graph[e].type) <= Priority(graph[f].type)
      BY <2>1, <2>4, PageFacts
    <2> QED
      BY <2>3, <2>4, <2>5 DEF EvidenceBeforeOwnership
  <1> QED
    BY <1>1, TraversalInvariant, PTL

(* A result without the truncated flag is complete: every node within the  *)
(* depth, or every simple path.                                            *)
THEOREM CutsAreAnnounced == Spec => []CompleteUnlessTruncated
  <1>1. ASSUME TraversalIInv, ~Running, ~truncated
        PROVE  /\ RequestInv /\ QueueInv /\ ~stopped /\ depth \in Nat
               /\ ToSet(queue) = {}
    <2>1. RequestInv /\ QueueInv /\ BudgetInv /\ depth \in Nat
      BY <1>1 DEF TraversalIInv, RequestInv
    <2>2. ~stopped /\ queue = <<>>
      BY <1>1, <2>1 DEF Running, BudgetInv
    <2> QED
      BY <2>1, <2>2 DEF ToSet
  <1>2. ASSUME TraversalIInv, ~Running, ~truncated, kind # "trace"
        PROVE  {Last(p).node : p \in ToSet(results)}
                  = Within(depth) \ {Start}
    <2>1. /\ RequestInv /\ QueueInv /\ LevelInv /\ ~stopped
          /\ depth \in Nat /\ ToSet(queue) = {}
      BY <1>1, <1>2 DEF TraversalIInv
    <2>2. /\ visited = {Last(p).node : p \in Reached}
          /\ \A p \in Reached :
                Len(p) <= depth => Near(Last(p).node) \subseteq visited
      BY <2>1 DEF LevelInv
    <2>3. Within(depth) \subseteq visited
      BY <2>1, <2>2, Covered
    <2>4. Last(StartPath).node = Start
      BY <2>1, ReachedFacts
    <2>5. ASSUME NEW n \in Within(depth), n # Start
          PROVE  \E p \in ToSet(results) : n = Last(p).node
      BY <2>2, <2>3, <2>4, <2>5 DEF Reached
    <2>6. ASSUME NEW p \in ToSet(results)
          PROVE  Last(p).node \in Within(depth) /\ Last(p).node # Start
      <3>1. PICK i \in 1 .. Len(results) : p = results[i]
        BY <2>1, ReachedFacts
      <3>2. Last(p).node \in Within(Len(p) - 1) \ Within(Len(p) - 2)
        BY <2>1, <3>1 DEF LevelInv
      <3>3. Len(p) \in 2 .. depth + 1
        BY <2>1 DEF QueueInv
      <3>4. PICK d \in Nat : d = Len(p) - 2
        BY <2>1, <3>3
      <3>5. Len(p) - 1 = d + 1 /\ d + 1 <= depth /\ d + 1 \in Nat /\ 0 <= d
        BY <2>1, <3>3, <3>4
      <3>6. Within(d + 1) \subseteq Within(depth) /\ Within(0) \subseteq Within(d)
        BY <2>1, <3>5, WithinGrows
      <3> QED
        BY <3>2, <3>4, <3>5, <3>6, StartWithin
    <2> QED
      BY <2>5, <2>6
  <1>3. ASSUME TraversalIInv, ~Running, ~truncated, kind = "trace"
        PROVE  ToSet(results) = SimplePaths
    <2>1. /\ RequestInv /\ QueueInv /\ TraceInv /\ ~stopped
          /\ depth \in Nat /\ ToSet(queue) = {} /\ graph \in Graph
      BY <1>1, <1>3 DEF TraversalIInv, RequestInv
    <2>2. ASSUME NEW p \in ToSet(results)
          PROVE  p \in SimplePaths
      <3>1. p \in Seq(Hop) /\ IsSimplePath(p) /\ Len(p) \in 2 .. depth + 1
            /\ p[1] = StartPath[1]
        BY <2>1, ReachedFacts DEF TraceInv, Reached, QueueInv
      <3>2. PICK d \in 1 .. depth : Len(p) = d + 1
        <4>1. Len(p) - 1 \in 1 .. depth /\ Len(p) = (Len(p) - 1) + 1
          BY <2>1, <3>1
        <4> QED
          BY <4>1
      <3>3. PICK q : q = [i \in 1 .. d |-> p[i + 1]]
        OBVIOUS
      <3>4. q \in [1 .. d -> Hop] /\ q \in Seq(Hop) /\ Len(q) = d
        BY <2>1, <3>1, <3>2, <3>3
      <3>5. /\ StartPath \in Seq(Hop) /\ Len(StartPath) = 1
        BY <2>1, ReachedFacts
      <3>6. StartPath \o q = p
        <4>1. PICK s : s = StartPath
          OBVIOUS
        <4>2. /\ s \o q \in Seq(Hop) /\ Len(s \o q) = 1 + d
              /\ \A i \in 1 .. 1 : (s \o q)[i] = s[i]
              /\ \A i \in 1 .. 1 + d :
                    ~(i <= 1) => i - 1 \in 1 .. d /\ (s \o q)[i] = q[i - 1]
          BY <3>4, <3>5, <4>1, ConcatFacts
        <4>3. ASSUME NEW i \in 1 .. d + 1 PROVE (s \o q)[i] = p[i]
          <5>1. CASE i = 1
            BY <3>1, <4>1, <4>2, <5>1
          <5>2. CASE i # 1
            <6>1. i - 1 \in 1 .. d /\ (s \o q)[i] = q[i - 1] /\ (i - 1) + 1 = i
              BY <3>2, <4>2, <5>2
            <6> QED
              BY <3>3, <6>1
          <5> QED
            BY <5>1, <5>2
        <4>4. Len(s \o q) = Len(p) /\ Len(p) = d + 1
          BY <3>2, <4>2
        <4> QED
          BY <3>1, <4>1, <4>2, <4>3, <4>4, SeqEqual
      <3>7. p \in {StartPath \o x : x \in [1 .. d -> Hop]}
        BY <3>4, <3>6
      <3> QED
        BY <3>1, <3>7 DEF SimplePaths
    <2>3. ASSUME NEW p \in SimplePaths
          PROVE  p \in ToSet(results)
      <3>1. PICK d \in 1 .. depth : p \in {StartPath \o x : x \in [1 .. d -> Hop]}
        BY DEF SimplePaths
      <3>2. PICK x \in [1 .. d -> Hop] : p = StartPath \o x
        BY <3>1
      <3>3. d \in Nat /\ x \in Seq(Hop) /\ Len(x) = d
        BY <2>1, <3>1
      <3>4. /\ StartPath \in Seq(Hop) /\ Len(StartPath) = 1
        BY <2>1, ReachedFacts
      <3>5. p \in Seq(Hop) /\ Len(p) = 1 + d /\ DOMAIN p = 1 .. 1 + d
        BY <3>2, <3>3, <3>4, ConcatFacts
      <3>6. /\ p[1] = StartPath[1]
            /\ \A i \in 2 .. Len(p) :
                  /\ p[i].edge \in Incident(p[i - 1].node)
                  /\ p[i].node = NextKey(p[i - 1].node, p[i].edge)
            /\ \A i, j \in 1 .. Len(p) : p[i].node = p[j].node => i = j
        BY DEF SimplePaths, IsSimplePath
      <3> DEFINE Begin(k) == SubSeq(p, 1, k + 1)
                 T == {k \in Nat : k <= d => Begin(k) \in Reached}
      <3>7. ASSUME NEW k \in 0 .. d
            PROVE  /\ Begin(k) \in Seq(Hop) /\ Len(Begin(k)) = k + 1
                   /\ \A i \in 1 .. k + 1 : Begin(k)[i] = p[i]
        BY <3>3, <3>5
      <3>8. 0 \in T
        <4>1. 0 \in 0 .. d /\ 1 \in 1 .. 0 + 1
          BY <3>3
        <4>2. /\ Begin(0) \in Seq(Hop) /\ Len(Begin(0)) = 1
              /\ Begin(0)[1] = StartPath[1]
          <5>1. /\ Begin(0) \in Seq(Hop) /\ Len(Begin(0)) = 0 + 1
                /\ \A i \in 1 .. 0 + 1 : Begin(0)[i] = p[i]
            BY <3>7, <4>1
          <5> HIDE DEF Begin
          <5> QED
            BY <3>6, <4>1, <5>1
        <4>3. Begin(0) = StartPath
          <5> HIDE DEF Begin
          <5>1. \A i \in 1 .. 1 : Begin(0)[i] = StartPath[i]
            BY <4>2
          <5> QED
            BY <3>4, <4>2, <5>1, SeqEqual
        <4> QED
          BY <4>3 DEF Reached
      <3> HIDE DEF Begin
      <3>9. ASSUME NEW k \in 0 .. d - 1, k \in T
            PROVE  k + 1 \in T
        <4>1. /\ k \in 0 .. d /\ k + 1 \in 0 .. d /\ k \in Nat /\ k + 1 <= depth
              /\ k + 1 \in 1 .. k + 1 /\ k + 2 \in 2 .. 1 + d
              /\ (k + 2) - 1 = k + 1 /\ (k + 1) + 1 = k + 2
              /\ \A i \in 1 .. k + 1 : i \in 1 .. k + 2 /\ i \in 1 .. 1 + d
                                        /\ i # k + 2
              /\ k + 2 \in 1 .. k + 2 /\ k + 2 \in 1 .. 1 + d
          BY <2>1, <3>3
        <4>2. PICK b, c : b = Begin(k) /\ c = Begin(k + 1)
          OBVIOUS
        <4>3. /\ b \in Seq(Hop) /\ Len(b) = k + 1 /\ b \in Reached
              /\ \A i \in 1 .. k + 1 : b[i] = p[i]
          BY <3>7, <3>9, <4>1, <4>2
        <4>4. /\ c \in Seq(Hop) /\ Len(c) = k + 2
              /\ \A i \in 1 .. k + 2 : c[i] = p[i]
          BY <3>7, <4>1, <4>2
        <4>5. PICK e, n : e = p[k + 2].edge /\ n = Last(b).node
          OBVIOUS
        <4>6. Last(b) = p[k + 1]
          BY <4>1, <4>3 DEF Last
        <4>7. e \in Incident(n) /\ p[k + 2].node = NextKey(n, e)
          BY <3>5, <3>6, <4>1, <4>5, <4>6
        <4>8. ~\E i \in 1 .. k + 1 : b[i].node = NextKey(n, e)
          BY <3>5, <3>6, <4>1, <4>3, <4>7
        <4>9. Along(b, e) \in ToSet(results)
          BY <2>1, <4>1, <4>3, <4>5, <4>7, <4>8 DEF TraceInv
        <4>10. PICK a : a = Along(b, e)
          OBVIOUS
        <4>11. /\ a \in Seq(Hop) /\ Len(a) = k + 2
               /\ \A i \in 1 .. k + 1 : a[i] = b[i]
               /\ Last(a) = a[k + 2]
               /\ Last(a).node = NextKey(n, e) /\ Last(a).edge = e
          <5>1. Len(b) >= 1 /\ Len(b) + 1 = k + 2
            BY <4>1, <4>3
          <5> QED
            BY <2>1, <4>3, <4>5, <4>7, <4>10, <5>1, AlongFacts
        <4>12. a[k + 2] = p[k + 2]
          <5>1. a[k + 2] \in Hop /\ p[k + 2] \in Hop
            BY <3>5, <4>1, <4>11
          <5>2. /\ a[k + 2].node = p[k + 2].node
                /\ a[k + 2].edge = p[k + 2].edge
            BY <4>5, <4>7, <4>11
          <5> QED
            BY <5>1, <5>2 DEF Hop
        <4>13. \A i \in 1 .. k + 2 : a[i] = c[i]
          <5> TAKE i \in 1 .. k + 2
          <5>1. i = k + 2 \/ i \in 1 .. k + 1
            BY <4>1
          <5> QED
            BY <4>3, <4>4, <4>11, <4>12, <5>1
        <4>14. a = c
          BY <4>4, <4>11, <4>13, SeqEqual
        <4> QED
          BY <4>1, <4>2, <4>9, <4>10, <4>14 DEF Reached
      <3>10. \A k \in 0 .. d - 1 : k \in T => k + 1 \in T
        BY <3>9
      <3> HIDE DEF T
      <3>11. d \in T
        <4>1. 0 .. d \subseteq T
          BY <3>3, <3>8, <3>10, UpTo
        <4> QED
          BY <3>3, <4>1
      <3>12. Begin(d) \in Reached
        BY <3>3, <3>11 DEF T
      <3>13. Begin(d) = p
        <4>1. d \in 0 .. d /\ d + 1 = 1 + d
          BY <3>3
        <4>2. /\ Begin(d) \in Seq(Hop) /\ Len(Begin(d)) = 1 + d
              /\ \A i \in 1 .. 1 + d : Begin(d)[i] = p[i]
          BY <3>7, <4>1
        <4> QED
          BY <3>5, <4>2, SeqEqual
      <3>14. p # StartPath
        BY <3>1, <3>3, <3>4, <3>5
      <3> QED
        BY <3>12, <3>13, <3>14 DEF Reached
    <2> QED
      BY <2>2, <2>3
  <1>4. TraversalIInv => CompleteUnlessTruncated
    BY <1>2, <1>3 DEF CompleteUnlessTruncated
  <1> QED
    BY <1>4, TraversalInvariant, PTL

=============================================================================
