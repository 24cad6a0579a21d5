----------------------------- MODULE SchemaDiff -----------------------------
(***************************************************************************)
(* The schema_diff tool: two selectors are resolved, four statements read  *)
(* the nodes and edges of both snapshots, the rows are compared, and every *)
(* node that was added, removed or changed is the seed of a bounded impact *)
(* analysis (schema_diff.rs; schema_diff_for_request of the MCP server).   *)
(* Nothing runs in a read transaction: an index run may replace a snapshot *)
(* between any two statements.                                             *)
(*                                                                         *)
(* An object is a number, in the order of its comparable key (ObjectKeys); *)
(* what else a node row says is its look, and a node in KeyTexts lists the *)
(* key of another object in its properties, as a text that has the alias   *)
(* in it.  The impact analysis is the one of GraphTraversal; the edges and *)
(* nodes one step of it fetches are read together.  An edge may be stored  *)
(* twice with the same type and ends (two columns of a foreign key).       *)
(***************************************************************************)
EXTENDS Naturals, Sequences, FiniteSets, SequencesExt, Sorting

CONSTANTS
    SnapshotKeys,       \* snapshot keys, a sequence in the order of the texts
    DiffAliasOf,        \* alias_from_snapshot_key
    Generations,        \* what an index run may store under each key
    Missing,            \* nothing is stored
    EdgeTypes,          \* edge types, a sequence in the order of the texts
    KeyTexts,           \* objects with key texts in their properties
    MAX_RESULT_LIMIT,   \* 200 in the code
    AskedLimits,        \* result limits asked for
    MaxReplacements,    \* bound on index runs during the diff
    NoBound             \* usize::MAX

SnapshotKey == ToSet(SnapshotKeys)
Selector == SnapshotKey \union {DiffAliasOf[k] : k \in SnapshotKey}
Generation == UNION {Generations[k] : k \in SnapshotKey}
Object == UNION {DOMAIN g.look : g \in Generation}

ASSUME DiffAssumption ==
    /\ Object \subseteq Nat
    /\ MAX_RESULT_LIMIT \in Nat \ {0} /\ AskedLimits \subseteq Nat
    /\ SnapshotKeys \in Seq(SnapshotKey) /\ EdgeTypes \in Seq(ToSet(EdgeTypes))
    /\ Missing \notin Generation /\ NoBound \notin Nat
    /\ \A g \in Generation :
           /\ IsFiniteSet(DOMAIN g.look)
           /\ g.edges \in Seq([type : ToSet(EdgeTypes),
                               from : DOMAIN g.look, to : DOMAIN g.look])

VARIABLES
    stored,         \* the generation under each snapshot key
    replaced,       \* index runs since the diff began
    history,        \* ghost: what each key held since the diff began
    ask,            \* the request: from_alias, to_alias and result_limit
    step,           \* the next statement, or the outcome
    ends,           \* the resolved keys, from and to
    rows,           \* the rows read, by comparable key
    diff,           \* the lists of the result, and their counts
    seeds,          \* seeds still to be analysed
    seed,           \* the seed being analysed
    remaining,      \* remaining_results
    queue, visited, results, budget, cut, stopped,  \* its impact analysis
    impacts,        \* the analyses done
    truncated       \* the flag reported with the result

traversal == <<queue, visited, results, budget, cut, stopped>>
diffVars == <<stored, replaced, history, ask, step, ends, rows, diff, seeds,
              seed, remaining, traversal, impacts, truncated>>

-----------------------------------------------------------------------------
(* Comparable rows.                                                        *)

(* comparable_payload: fields named connection_alias are removed at every  *)
(* depth; an alias inside a text stays.                                    *)
ComparablePayload(k, g, o) ==
    <<g.look[o], IF o \in KeyTexts THEN {DiffAliasOf[k]} ELSE {}>>

(* snapshot_nodes: the nodes of a snapshot by comparable key.              *)
ComparableNodes(k, g) ==
    [o \in DOMAIN g.look |-> ComparablePayload(k, g, o)]
SnapshotNodes(k) == ComparableNodes(k, stored[k])

(* comparable_edge_key, by which snapshot_edges keeps one edge.            *)
EdgeKeysOf(g) == {<<e.type, e.from, e.to>> : e \in ToSet(g.edges)}

(* The order of the texts "type:from->to". *)
TypeRank(type) == CHOOSE i \in DOMAIN EdgeTypes : EdgeTypes[i] = type
EdgeBefore(e, f) ==
    \/ TypeRank(e[1]) < TypeRank(f[1])
    \/ e[1] = f[1] /\ e[2] < f[2]
    \/ e[1] = f[1] /\ e[2] = f[2] /\ e[3] < f[3]
ByEdgeKey(S) == Sorted(S, {p \in S \X S : EdgeBefore(p[1], p[2])})

(* The order of the seeds: by snapshot key, then by node key.              *)
KeyRank(k) == CHOOSE i \in DOMAIN SnapshotKeys : SnapshotKeys[i] = k
SeedBefore(s, t) ==
    \/ KeyRank(s[1]) < KeyRank(t[1])
    \/ s[1] = t[1] /\ s[2] < t[2]
BySeed(S) == Sorted(S, {p \in S \X S : SeedBefore(p[1], p[2])})

-----------------------------------------------------------------------------
NoRows == [from_nodes |-> <<>>, to_nodes |-> <<>>,
           from_edges |-> {}, to_edges |-> {}]
NoCounts == [added |-> 0, removed |-> 0, changed |-> 0,
             added_edges |-> 0, removed_edges |-> 0, seeds |-> 0]
NoDiff == [added |-> <<>>, removed |-> <<>>, changed |-> <<>>,
           added_edges |-> <<>>, removed_edges |-> <<>>, counts |-> NoCounts]

DiffInit ==
    /\ stored \in {s \in [SnapshotKey -> Generation \union {Missing}] :
                      \A k \in SnapshotKey :
                          s[k] \in Generations[k] \union {Missing}}
    /\ replaced = 0
    /\ history = [k \in SnapshotKey |-> {stored[k]}]
    /\ ask \in [from : Selector, to : Selector, limit : AskedLimits]
    /\ step = "resolve_from"
    /\ ends = <<>>
    /\ rows = NoRows
    /\ diff = NoDiff
    /\ seeds = <<>> /\ seed = <<>> /\ remaining = 0
    /\ queue = <<>> /\ visited = {} /\ results = <<>>
    /\ budget = 0 /\ cut = FALSE /\ stopped = FALSE
    /\ impacts = <<>>
    /\ truncated = FALSE

Working == step \notin {"done", "not_found", "ambiguous", "refused"}

(* An index run of another process replaces a snapshot, or stores one.     *)
Reindex(k, g) ==
    /\ Working
    /\ replaced < MaxReplacements
    /\ g \in Generations[k] \ {stored[k]}
    /\ replaced' = replaced + 1
    /\ stored' = [stored EXCEPT ![k] = g]
    /\ history' = [history EXCEPT ![k] = @ \union {g}]
    /\ UNCHANGED <<ask, step, ends, rows, diff, seeds, seed, remaining,
                   traversal, impacts, truncated>>

world == <<stored, replaced, history, ask>>

(* resolve_snapshot_key: a stored snapshot key, or else the only stored    *)
(* key with that alias.  A key that was resolved stays, so that            *)
(* require_snapshot finds it.                                              *)
Matches(selector) ==
    IF selector \in SnapshotKey /\ stored[selector] # Missing
    THEN {selector}
    ELSE {k \in SnapshotKey :
             stored[k] # Missing /\ DiffAliasOf[k] = selector}

Resolve(at, selector, next) ==
    /\ step = at
    /\ LET matches == Matches(selector)
       IN \/ /\ matches = {}
             /\ step' = "not_found"
             /\ UNCHANGED ends
          \/ /\ Cardinality(matches) > 1
             /\ step' = "ambiguous"
             /\ UNCHANGED ends
          \/ \E k \in matches :
                /\ matches = {k}
                /\ ends' = Append(ends, k)
                /\ step' = next
    /\ UNCHANGED <<world, rows, diff, seeds, seed, remaining, traversal,
                   impacts, truncated>>

ResolveFrom == Resolve("resolve_from", ask.from, "resolve_to")
ResolveTo == Resolve("resolve_to", ask.to, "limit")

(* A limit of zero is refused, any other clamped.                          *)
RefuseResultLimit ==
    /\ step = "limit" /\ ask.limit = 0
    /\ step' = "refused"
    /\ UNCHANGED <<world, ends, rows, diff, seeds, seed, remaining,
                   traversal, impacts, truncated>>

Limit ==
    IF ask.limit < MAX_RESULT_LIMIT THEN ask.limit ELSE MAX_RESULT_LIMIT

(* The four reads, each a statement: the first after the limit is clamped. *)
ReadRows ==
    /\ \/ /\ step = "limit" /\ ask.limit > 0 /\ step' = "to_nodes"
          /\ rows' = [rows EXCEPT !.from_nodes = SnapshotNodes(ends[1])]
       \/ /\ step = "to_nodes" /\ step' = "from_edges"
          /\ rows' = [rows EXCEPT !.to_nodes = SnapshotNodes(ends[2])]
       \/ /\ step = "from_edges" /\ step' = "to_edges"
          /\ rows' = [rows EXCEPT !.from_edges = EdgeKeysOf(stored[ends[1]])]
       \/ /\ step = "to_edges" /\ step' = "compare"
          /\ rows' = [rows EXCEPT !.to_edges = EdgeKeysOf(stored[ends[2]])]
    /\ UNCHANGED <<world, ends, diff, seeds, seed, remaining, traversal,
                   impacts, truncated>>

AddedNodes == DOMAIN rows.to_nodes \ DOMAIN rows.from_nodes
RemovedNodes == DOMAIN rows.from_nodes \ DOMAIN rows.to_nodes

(* Variant: only the texts in the properties are compared.                 *)
ChangedNodesByTexts ==
    {o \in DOMAIN rows.to_nodes \intersect DOMAIN rows.from_nodes :
        rows.to_nodes[o][2] # rows.from_nodes[o][2]}

ChangedNodes ==
    {o \in DOMAIN rows.to_nodes \intersect DOMAIN rows.from_nodes :
        rows.to_nodes[o] # rows.from_nodes[o]}

(* Variant: what is gone is looked for in the newer snapshot.              *)
ChangedImpactSeedsInTo ==
    {ends[2]} \X (AddedNodes \union ChangedNodes \union RemovedNodes)

(* changed_impact_seeds: what is gone is looked for where it was.          *)
ChangedImpactSeeds ==
    ({ends[2]} \X (AddedNodes \union ChangedNodes))
        \union ({ends[1]} \X RemovedNodes)

(* The comparison of build_schema_diff, and its cut at the limit.          *)
Compare ==
    /\ step = "compare"
    /\ LET added == Ascending(AddedNodes)
           removed == Ascending(RemovedNodes)
           changed == Ascending(ChangedNodes)
           addedEdges == ByEdgeKey(rows.to_edges \ rows.from_edges)
           removedEdges == ByEdgeKey(rows.from_edges \ rows.to_edges)
           allSeeds == BySeed(ChangedImpactSeeds)
           of(nodes, o) == [object |-> o, payload |-> nodes[o]]
       IN /\ diff' =
               [added |-> [i \in 1 .. Len(FirstOf(added, Limit)) |->
                              of(rows.to_nodes, added[i])],
                removed |-> FirstOf(removed, Limit),
                changed |-> [i \in 1 .. Len(FirstOf(changed, Limit)) |->
                                of(rows.to_nodes, changed[i])],
                added_edges |-> FirstOf(addedEdges, Limit),
                removed_edges |-> FirstOf(removedEdges, Limit),
                counts |-> [added |-> Len(added), removed |-> Len(removed),
                            changed |-> Len(changed),
                            added_edges |-> Len(addedEdges),
                            removed_edges |-> Len(removedEdges),
                            seeds |-> Len(allSeeds)]]
          /\ seeds' = FirstOf(allSeeds, Limit)
          /\ truncated' = \E n \in {Len(added), Len(removed), Len(changed),
                                     Len(addedEdges), Len(removedEdges),
                                     Len(allSeeds)} : n > Limit
          /\ step' = "seed"
    /\ remaining' = Limit
    /\ UNCHANGED <<world, ends, rows, seed, traversal, impacts>>

-----------------------------------------------------------------------------
(* changed_impacts: one impact analysis per seed, all from one budget, of  *)
(* depth DEFAULT_SCHEMA_DIFF_IMPACT_MAX_DEPTH.                             *)

T == INSTANCE GraphTraversal WITH
         Node <- Object, Start <- CHOOSE o \in Object : TRUE,
         EdgeType <- ToSet(EdgeTypes), MaxEdges <- 0,
         MaxDepth <- 2, MaxLimit <- MAX_RESULT_LIMIT,
         Unbounded <- NoBound,
         graph <- stored[seed[1]].edges, kind <- "impact",
         direction <- "both", filter <- ToSet(EdgeTypes),
         depth <- 2, limit <- remaining, truncated <- cut

(* The seed is looked up: one that is gone has no impact.                  *)
StartSeed ==
    /\ step = "seed" /\ seeds # <<>>
    /\ step' = "impact"
    /\ seed' = Head(seeds)
    /\ seeds' = Tail(seeds)
    /\ LET object == Head(seeds)[2]
       IN /\ visited' = {object}
          /\ queue' = IF object \in DOMAIN stored[Head(seeds)[1]].look
                      THEN <<<<[node |-> object, edge |-> 0]>>>> ELSE <<>>
    /\ results' = <<>>
    /\ budget' = remaining
    /\ cut' = FALSE /\ stopped' = FALSE
    /\ UNCHANGED <<world, ends, rows, diff, remaining, impacts, truncated>>

(* One round of the traversal. *)
Traverse ==
    /\ step = "impact"
    /\ UNCHANGED <<world, step, ends, rows, diff, seeds, seed, remaining,
                   impacts, truncated>>
    /\ T!Expand \/ T!SkipLastLevel

(* Variant: the seed is charged as well, and nothing saturates.            *)
FinishSeedCharged ==
    /\ step = "impact" /\ ~T!Running
    /\ step' = "seed"
    /\ remaining' = remaining - Len(results) - 1
    /\ truncated' = (truncated \/ cut)
    /\ impacts' = Append(impacts, [seed |-> seed, nodes |-> {}])
    /\ UNCHANGED <<world, ends, rows, diff, seeds, seed, traversal>>

(* The nodes found are taken off what the seeds share.                     *)
FinishSeed ==
    /\ step = "impact" /\ ~T!Running
    /\ step' = "seed"
    /\ remaining' = IF Len(results) < remaining
                    THEN remaining - Len(results) ELSE 0
    /\ truncated' = (truncated \/ cut)
    /\ impacts' = Append(impacts,
           [seed |-> seed, nodes |-> {Last(p).node : p \in ToSet(results)}])
    /\ UNCHANGED <<world, ends, rows, diff, seeds, seed, traversal>>

ReturnDiff ==
    /\ step = "seed" /\ seeds = <<>>
    /\ step' = "done"
    /\ UNCHANGED <<world, ends, rows, diff, seeds, seed, remaining,
                   traversal, impacts, truncated>>

DiffNext ==
    \/ \E k \in SnapshotKey : \E g \in Generations[k] : Reindex(k, g)
    \/ ResolveFrom \/ ResolveTo
    \/ RefuseResultLimit \/ ReadRows \/ Compare
    \/ StartSeed \/ Traverse \/ FinishSeed \/ ReturnDiff

DiffSpec == DiffInit /\ [][DiffNext]_diffVars

-----------------------------------------------------------------------------
(* Properties.                                                             *)

(* Every variable of the diff holds a value of its kind, and no more is    *)
(* left to be found than was asked for.                                    *)
DiffTypeOK ==
    /\ \A k \in SnapshotKey : stored[k] \in Generations[k] \union {Missing}
    /\ ends \in Seq(SnapshotKey) /\ Len(ends) <= 2
    /\ seeds \in Seq(SnapshotKey \X Object)
    /\ impacts \in Seq([seed : SnapshotKey \X Object, nodes : SUBSET Object])
    /\ remaining \in 0 .. Limit
    /\ truncated \in BOOLEAN

Held(i) == history[ends[i]] \ {Missing}
Quiet == \A i \in {1, 2} : Cardinality(Held(i)) = 1
ObjectsIn(records) == {r.object : r \in records}

(* Nothing was cut from the lists of nodes, of edges.                      *)
AllNodesListed ==
    /\ Len(diff.added) = diff.counts.added
    /\ Len(diff.removed) = diff.counts.removed
    /\ Len(diff.changed) = diff.counts.changed
AllEdgesListed ==
    /\ Len(diff.added_edges) = diff.counts.added_edges
    /\ Len(diff.removed_edges) = diff.counts.removed_edges

(* The older nodes with the lists applied to them.                         *)
Patched(old, removed, added, changed) ==
    LET said == added \union changed
    IN  [o \in (DOMAIN old \ removed) \union ObjectsIn(added) |->
            IF o \in ObjectsIn(said)
            THEN (CHOOSE r \in said : r.object = o).payload ELSE old[o]]

(* The node lists lead from generation f to generation t.                  *)
NodesPatch(f, t) ==
    LET old == ComparableNodes(ends[1], f)
        new == ComparableNodes(ends[2], t)
        altered == {o \in DOMAIN old \intersect DOMAIN new : old[o] # new[o]}
    IN /\ diff.counts.added = Cardinality(DOMAIN new \ DOMAIN old)
       /\ diff.counts.removed = Cardinality(DOMAIN old \ DOMAIN new)
       /\ diff.counts.changed = Cardinality(altered)
       /\ \A r \in ToSet(diff.added) \union ToSet(diff.changed) :
              r.object \in DOMAIN new /\ r.payload = new[r.object]
       /\ ObjectsIn(ToSet(diff.added)) \subseteq DOMAIN new \ DOMAIN old
       /\ ToSet(diff.removed) \subseteq DOMAIN old \ DOMAIN new
       /\ ObjectsIn(ToSet(diff.changed)) \subseteq altered
       /\ AllNodesListed =>
              new = Patched(old, ToSet(diff.removed), ToSet(diff.added),
                            ToSet(diff.changed))

(* The edge lists lead from the edges of f to those of t.                  *)
EdgesPatch(f, t) ==
    /\ diff.counts.added_edges = Cardinality(EdgeKeysOf(t) \ EdgeKeysOf(f))
    /\ diff.counts.removed_edges = Cardinality(EdgeKeysOf(f) \ EdgeKeysOf(t))
    /\ ToSet(diff.added_edges) \subseteq EdgeKeysOf(t) \ EdgeKeysOf(f)
    /\ ToSet(diff.removed_edges) \subseteq EdgeKeysOf(f) \ EdgeKeysOf(t)
    /\ AllEdgesListed =>
          EdgeKeysOf(t) = (EdgeKeysOf(f) \ ToSet(diff.removed_edges))
                              \union ToSet(diff.added_edges)

(* However index runs interleave with its statements, the node lists of a  *)
(* diff turn a whole generation of one snapshot into a whole generation of *)
(* the other, and so do the edge lists; of the same two when nothing was   *)
(* replaced.  Counts are exact also when a list was cut.                   *)
DiffIsPatch ==
    step \in {"seed", "impact", "done"} =>
        /\ \E f \in Held(1), t \in Held(2) : NodesPatch(f, t)
        /\ \E f \in Held(1), t \in Held(2) : EdgesPatch(f, t)

(* The ends of the edges of generation g that touch an object of S, and    *)
(* the objects at most two edges away from o.                              *)
Beside(g, S) ==
    UNION {{e.from, e.to} : e \in {e \in ToSet(g.edges) :
                                     {e.from, e.to} \intersect S # {}}}
Reach(g, o) ==
    LET near == {o} \union Beside(g, {o})
    IN  near \union Beside(g, near)

(* The nodes of all impacts, a node once for each seed it was found from.  *)
NodesFound == UNION {{i} \X impacts[i].nodes : i \in DOMAIN impacts}

ImpactIsWhole(g, o) ==
    \E i \in ToSet(impacts) :
        i.seed[2] = o /\ i.nodes = Reach(g, o) \ {o}

(* A diff that is not marked truncated is whole: every list, every seed,   *)
(* and, when nothing was replaced, everything near a listed object in the  *)
(* snapshot that has it, although the seeds share one budget.  Every list, *)
(* the seeds, and the nodes of all impacts together keep to the limit.     *)
DiffIsComplete ==
    step = "done" =>
        /\ \A list \in {diff.added, diff.changed} : Len(list) <= Limit
        /\ \A n \in {Len(diff.removed), Len(diff.added_edges),
                      Len(diff.removed_edges), Len(impacts)} : n <= Limit
        /\ Cardinality(NodesFound) <= Limit
        /\ ~truncated =>
              /\ diff.counts =
                    [added |-> Len(diff.added), removed |-> Len(diff.removed),
                     changed |-> Len(diff.changed),
                     added_edges |-> Len(diff.added_edges),
                     removed_edges |-> Len(diff.removed_edges),
                     seeds |-> Len(impacts)]
              /\ Quiet =>
                    /\ \A o \in ToSet(diff.removed) :
                           ImpactIsWhole(stored[ends[1]], o)
                    /\ \A r \in ToSet(diff.added) \union ToSet(diff.changed) :
                           ImpactIsWhole(stored[ends[2]], r.object)

(* Two snapshots of one schema that differ in the alias only have no       *)
(* differences (README.md: "without treating connection-alias changes as   *)
(* schema changes").                                                       *)
AliasChangesAreNoSchemaChanges ==
    step = "done" /\ Quiet /\ stored[ends[1]] = stored[ends[2]] =>
        diff.counts = NoCounts
=============================================================================
