--------------------------- MODULE GraphTraversal ---------------------------
(***************************************************************************)
(* The bounded traversals of one snapshot's graph: impact_analysis_bounded,*)
(* trace_relationships_bounded and the traversal of query_graph, with the  *)
(* ordered, limited edge queries of graph_store.rs they share.             *)
(*                                                                         *)
(* All three are breadth-first: take a path off the queue, ask the store   *)
(* for the next edges of its last node, at most as many as the budget has  *)
(* left, and append what they reach.  They differ in what counts as seen   *)
(* (every node once, or once per path), in what the budget counts (edges   *)
(* fetched, or nodes found) and in when they give up.                      *)
(*                                                                         *)
(* Edge keys are the numbers 1..n, in the order SQLite sorts them.  The    *)
(* state is the path each node was reached by, where the code keeps a node *)
(* and its depth.  The grouping and sorting of a finished result is left   *)
(* out.                                                                    *)
(***************************************************************************)
EXTENDS Naturals, Sequences, FiniteSets, SequencesExt, Sorting

CONSTANTS
    Node,       \* node keys of the snapshot
    Start,      \* the object the traversal starts from
    EdgeType,   \* edge types in use
    MaxEdges,   \* bound on the size of the graph
    MaxDepth,   \* bound on the depth asked for
    MaxLimit,   \* bound on the result limit asked for
    Unbounded   \* usize::MAX, the limit of the unbounded entry points

ASSUME TraversalAssumption ==
    /\ Start \in Node
    /\ {MaxEdges, MaxDepth, MaxLimit} \subseteq Nat
    /\ Unbounded \notin Nat

VARIABLES
    graph,      \* the edges of the snapshot, by key
    kind,       \* "impact", "trace" or "query"
    direction,  \* Direction
    filter,     \* the edge types asked for
    depth,      \* max_depth
    limit,      \* max_results, max_paths or the query's limit
    queue,      \* paths still to extend
    visited,    \* nodes seen ("impact", "query")
    results,    \* the paths found so far
    budget,     \* remaining_budget
    truncated,  \* the flag reported with the result
    stopped     \* the loop was left early

inputs == <<graph, kind, direction, filter, depth, limit>>
vars == <<graph, kind, direction, filter, depth, limit, queue, visited,
          results, budget, truncated, stopped>>

Edge == [from : Node, to : Node, type : EdgeType]
Graph == UNION {[1 .. n -> Edge] : n \in 0 .. MaxEdges}
Hop == [node : Node, edge : 0 .. MaxEdges]

-----------------------------------------------------------------------------
(* The edge queries.                                                       *)

(* traversal_edge_priority, and the same CASE in the ORDER BY clauses.     *)
Priority(type) ==
    IF type \in {"DATABASE_HAS_SCHEMA", "SCHEMA_HAS_TABLE",
                 "SCHEMA_HAS_VIEW", "SCHEMA_HAS_ROUTINE", "TABLE_HAS_COLUMN"}
    THEN 2
    ELSE IF type = "TABLE_HAS_INDEX" THEN 1 ELSE 0

(* Variant: plain key order.                                               *)
BeforeByKey(e, f) == e < f

Before(e, f) ==
    \/ Priority(graph[e].type) < Priority(graph[f].type)
    \/ Priority(graph[e].type) = Priority(graph[f].type) /\ e < f

ByPriority(S) == Sorted(S, {p \in S \X S : Before(p[1], p[2])})

Outbound(n) ==
    {e \in DOMAIN graph : graph[e].from = n /\ graph[e].type \in filter}
Inbound(n) ==
    {e \in DOMAIN graph : graph[e].to = n /\ graph[e].type \in filter}

Wanted(n, way) ==
    IF direction \notin {way, "both"} THEN {}
    ELSE IF way = "outbound" THEN Outbound(n) ELSE Inbound(n)

(* edges_from_limited, edges_to_limited and their by-type forms.           *)
EdgesLimited(n, way, fetchLimit) ==
    FirstOf(ByPriority(Wanted(n, way)), fetchLimit)

(* The node an edge leads to, seen from n.                                 *)
NextKey(n, e) ==
    IF direction = "inbound" \/ graph[e].from # n
    THEN graph[e].from ELSE graph[e].to

(* next_edges_bounded and merge_bounded_edges: both directions fetch one   *)
(* edge more than the budget, are merged, sorted, freed of duplicates and  *)
(* cut.                                                                    *)
NextEdgesBounded(n, maxEdges) ==
    LET out == EdgesLimited(n, "outbound", maxEdges + 1)
        in == EdgesLimited(n, "inbound", maxEdges + 1)
        merged == ByPriority(ToSet(out) \union ToSet(in))
    IN [edges |-> FirstOf(merged, maxEdges),
        has_more |-> \/ Len(out) > maxEdges
                     \/ Len(in) > maxEdges
                     \/ Len(merged) > maxEdges]

(* next_edges: in key order, outbound first, nothing cut.                  *)
NextEdgesAll(n) ==
    [edges |-> Ascending(Wanted(n, "outbound"))
                 \o Ascending(Wanted(n, "inbound")),
     has_more |-> FALSE]

-----------------------------------------------------------------------------
StartPath == <<[node |-> Start, edge |-> 0]>>

(* The early returns: the start is not in the snapshot, or depth 0.        *)
Init ==
    /\ graph \in Graph
    /\ kind \in {"impact", "trace", "query"}
    /\ direction \in {"inbound", "outbound", "both"}
    /\ filter \in IF kind = "query"
                  THEN {EdgeType} \union {{t} : t \in EdgeType}
                  ELSE {EdgeType}
    /\ depth \in 0 .. MaxDepth
    /\ limit \in (0 .. MaxLimit) \union (IF kind = "query" THEN {}
                                         ELSE {Unbounded})
    /\ \/ queue = IF depth = 0 /\ kind # "impact" THEN <<>> ELSE <<StartPath>>
       \/ queue = <<>> /\ graph = <<>>
    /\ visited = {Start}
    /\ results = <<>>
    /\ budget = limit
    /\ truncated = FALSE
    /\ stopped = FALSE

Running == queue # <<>> /\ ~stopped
Path == Head(queue)
Here == Last(Path).node
Depth == Len(Path) - 1

(* impact_analysis_bounded queues nodes of the last level and skips them.  *)
SkipLastLevel ==
    /\ Running
    /\ Depth = depth
    /\ queue' = Tail(queue)
    /\ UNCHANGED <<inputs, visited, results, budget, truncated, stopped>>

(* Variant: the limit cuts without a word.                                 *)
StopAtLimitQuietly ==
    /\ Running
    /\ Depth < depth
    /\ kind = "query"
    /\ Len(results) = limit
    /\ stopped' = TRUE
    /\ queue' = Tail(queue)
    /\ UNCHANGED <<inputs, visited, results, budget, truncated>>

(* bounded_traversal gives up when the limit is reached with work left.    *)
StopAtLimit ==
    /\ Running
    /\ Depth < depth
    /\ kind = "query"
    /\ Len(results) = limit
    /\ truncated' = TRUE
    /\ stopped' = TRUE
    /\ queue' = Tail(queue)
    /\ UNCHANGED <<inputs, visited, results, budget>>

EdgeBudget == IF kind = "query" THEN limit - Len(results) ELSE budget

NextEdges ==
    IF EdgeBudget = Unbounded THEN NextEdgesAll(Here)
    ELSE NextEdgesBounded(Here, EdgeBudget)

(* Variant: two edges of one step to the same node report it twice.        *)
NewStepsOfEveryEdge(es) ==
    LET next(i) == NextKey(Here, es[i])
        new(i) == next(i) \notin IF kind = "trace"
                                THEN {h.node : h \in ToSet(Path)} ELSE visited
    IN Ascending({i \in 1 .. Len(es) : new(i)})

(* Variant: a trace only avoids going straight back.                       *)
NewStepsNotBack(es) ==
    LET next(i) == NextKey(Here, es[i])
        new(i) == IF kind = "trace"
                  THEN next(i) \notin {h.node : h \in ToSet(Tail(Path))}
                  ELSE /\ next(i) \notin visited
                       /\ \A j \in 1 .. i - 1 : next(j) # next(i)
    IN Ascending({i \in 1 .. Len(es) : new(i)})

(* The edges that lead somewhere new, in order.  A trace asks whether the  *)
(* path has been there; the others whether anything has, this loop         *)
(* included.                                                               *)
NewSteps(es) ==
    LET next(i) == NextKey(Here, es[i])
        new(i) == IF kind = "trace"
                  THEN \A h \in ToSet(Path) : h.node # next(i)
                  ELSE /\ next(i) \notin visited
                       /\ \A j \in 1 .. i - 1 : next(j) # next(i)
    IN Ascending({i \in 1 .. Len(es) : new(i)})

(* The path that goes on along an edge, and the ones along the new edges.  *)
Along(p, e) ==
    Append(p, [node |-> NextKey(Last(p).node, e), edge |-> e])

Found(es) ==
    LET steps == NewSteps(es)
    IN [i \in 1 .. Len(steps) |-> Along(Path, es[steps[i]])]

(* What is put on the queue: all of it, or what is not yet at full depth.  *)
Queued(found) == IF kind = "impact" \/ Depth + 1 < depth THEN found ELSE <<>>

(* Variants: the budget is spent once per node, or never.                  *)
BudgetOverspent(n) == IF budget = Unbounded THEN budget ELSE budget - n - 1
BudgetKept(n) == budget

(* remaining_budget after n edges were fetched.                            *)
BudgetAfter(n) == IF budget = Unbounded THEN budget ELSE budget - n

Expand ==
    /\ Running
    /\ Depth < depth
    /\ kind = "query" => Len(results) < limit
    /\ LET more == NextEdges
           found == Found(more.edges)
       IN /\ results' = results \o found
          /\ queue' = Tail(queue) \o Queued(found)
          /\ visited' = IF kind = "trace" THEN visited
                        ELSE visited \union {Last(p).node : p \in ToSet(found)}
          /\ budget' = IF kind = "query" THEN budget
                       ELSE BudgetAfter(Len(more.edges))
          /\ truncated' = (truncated \/ more.has_more)
          /\ stopped' = more.has_more
    /\ UNCHANGED inputs

Done == ~Running /\ UNCHANGED vars

Next == SkipLastLevel \/ StopAtLimit \/ Expand \/ Done

Spec == Init /\ [][Next]_vars

-----------------------------------------------------------------------------
(* Reference: what is there to be found.                                   *)

Incident(n) == Wanted(n, "outbound") \union Wanted(n, "inbound")

Near(n) == {NextKey(n, e) : e \in Incident(n)}

(* Walks of d edges, as the nodes they visit.                              *)
Walks(d) ==
    {w \in [0 .. d -> Node] :
        /\ w[0] = Start
        /\ \A i \in 1 .. d : w[i] \in Near(w[i - 1])}

(* Nodes at most d edges away from the start.                              *)
Within(d) == UNION {{w[k] : w \in Walks(k)} : k \in 0 .. d}

(* A path of 1 to max_depth edges from the start: every hop follows an     *)
(* edge from the node before, and no node is visited twice.                *)
IsSimplePath(p) ==
    /\ Len(p) \in 2 .. depth + 1
    /\ p[1] = StartPath[1]
    /\ \A i \in 2 .. Len(p) :
          LET n == p[i - 1].node
          IN /\ p[i].edge \in Incident(n)
             /\ p[i].node = NextKey(n, p[i].edge)
    /\ \A i, j \in 1 .. Len(p) : p[i].node = p[j].node => i = j

SimplePaths ==
    {p \in UNION {{StartPath \o q : q \in [1 .. d -> Hop]} : d \in 1 .. depth} :
        IsSimplePath(p)}

-----------------------------------------------------------------------------
(* Properties.                                                             *)

(* Every variable holds a value of its kind.                               *)
TraversalTypeOK ==
    /\ graph \in Graph
    /\ queue \in Seq(Seq(Hop))
    /\ results \in Seq(Seq(Hop))
    /\ visited \subseteq Node
    /\ budget \in Nat \union {Unbounded}
    /\ truncated \in BOOLEAN
    /\ stopped \in BOOLEAN

(* A result without the truncated flag is complete: every node within the  *)
(* depth, or every simple path.  What was cut is always announced.         *)
CompleteUnlessTruncated ==
    ~Running /\ ~truncated /\ graph # <<>> =>
        IF kind = "trace" THEN ToSet(results) = SimplePaths
        ELSE {Last(p).node : p \in ToSet(results)} = Within(depth) \ {Start}

(* The depth reported with an object is its distance from the start, and   *)
(* it is reported once, also in a result that was cut short.               *)
DepthIsDistance ==
    kind # "trace" =>
        \A i \in 1 .. Len(results) :
            LET d == Len(results[i]) - 1
                n == Last(results[i]).node
            IN /\ d \in 1 .. depth
               /\ n \in Within(d) \ Within(d - 1)
               /\ \A j \in 1 .. i - 1 : Last(results[j]).node # n

(* A traced path exists, visits no node twice and is reported once.        *)
PathsAreSimple ==
    kind = "trace" =>
        /\ \A p \in ToSet(results) : IsSimplePath(p)
        /\ IsInjective(results)

(* No traversal returns more than its limit, although an edge budget, not  *)
(* the number of results, is what two of them count down.                  *)
LimitHolds == limit # Unbounded => Len(results) <= limit

(* When the edges of a node do not fit the budget, dependencies and        *)
(* constraints stay ahead of indexes, and those ahead of the five types of *)
(* ownership, METADATA_PARENT not being one, over both directions; and     *)
(* has_more tells exactly whether some did not fit.                        *)
EvidenceBeforeOwnership ==
    Running /\ EdgeBudget # Unbounded =>
        LET page == NextEdgesBounded(Here, EdgeBudget)
            left == Incident(Here) \ ToSet(page.edges)
        IN /\ page.has_more <=> left # {}
           /\ \A e \in ToSet(page.edges), f \in left :
                  Priority(graph[e].type) <= Priority(graph[f].type)
=============================================================================
