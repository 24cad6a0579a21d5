------------------------- MODULE CertificationProofs -------------------------
(***************************************************************************)
(* Proofs about the certification and the projection, for every adapter    *)
(* and every catalog.                                                      *)
(*                                                                         *)
(* An adapter does what it likes with the snapshot until it hands it over; *)
(* PipelineSpec says no more of it than that, so what is proved of it does *)
(* not depend on how the rows of a catalog were mapped.  The adapter of    *)
(* AdapterFaults, which loses, doubles and misdirects what it maps, is     *)
(* shown to be one of those adapters.                                      *)
(***************************************************************************)
EXTENDS AdapterFaults, FiniteSetTheorems, TLAPS

-----------------------------------------------------------------------------
(* Any adapter.                                                            *)

(* A step before the snapshot is certified: anything that neither touches  *)
(* the store nor claims to be certified.                                   *)
AnyMapping ==
    /\ ~Certified /\ ~Certified'
    /\ UNCHANGED graph

PipelineNext == AnyMapping \/ Certify \/ Store

PipelineSpec ==
    /\ ~Certified /\ graph = EmptyGraph
    /\ [][PipelineNext]_pipelineVars

(* What the stages after the certification rest on.                        *)
PipelineIInv ==
    /\ Certified => /\ validate_canonical_schema_snapshot(snapshot)
                    /\ CountsReconciled(snapshot, discovered)
    /\ stage = "stored" => ProjectionHolds /\ graph = Projection
    /\ stage = "failed" => ~ProjectionHolds
    /\ stage # "stored" => graph = EmptyGraph

(* The stored graph is that of a certified snapshot, and nothing else is   *)
(* ever in the store.                                                      *)
THEOREM PipelineInvariant == PipelineSpec => []PipelineIInv
  <1>1. ~Certified /\ graph = EmptyGraph => PipelineIInv
    BY DEF PipelineIInv, Certified
  <1>2. PipelineIInv /\ [PipelineNext]_pipelineVars => PipelineIInv'
    <2> SUFFICES ASSUME PipelineIInv, [PipelineNext]_pipelineVars
                 PROVE  PipelineIInv'
      OBVIOUS
    <2>1. CASE AnyMapping
      BY <2>1 DEF AnyMapping, PipelineIInv, Certified
    <2>2. CASE Certify
      BY <2>2 DEF Certify, PipelineIInv, Certified
    <2>3. CASE Store
      <3>1. /\ validate_canonical_schema_snapshot(snapshot)
            /\ CountsReconciled(snapshot, discovered)
            /\ graph = EmptyGraph
        BY <2>3 DEF Store, PipelineIInv, Certified
      <3>2. UNCHANGED <<snapshot, discovered>>
        BY <2>3 DEF Store
      <3>3. Projection' = Projection /\ (ProjectionHolds' <=> ProjectionHolds)
        BY <3>2 DEF Projection, ProjectionHolds
      <3>4. CASE ProjectionHolds
        BY <2>3, <3>1, <3>2, <3>3, <3>4 DEF Store, PipelineIInv
      <3>5. CASE ~ProjectionHolds
        BY <2>3, <3>1, <3>2, <3>3, <3>5 DEF Store, PipelineIInv
      <3> QED
        BY <3>4, <3>5
    <2>4. CASE UNCHANGED pipelineVars
      BY <2>4 DEF pipelineVars, PipelineIInv, Certified, Projection,
                  ProjectionHolds
    <2> QED
      BY <2>1, <2>2, <2>3, <2>4 DEF PipelineNext
  <1> QED
    BY <1>1, <1>2, PTL DEF PipelineSpec

-----------------------------------------------------------------------------
(* The graph is closed.                                                    *)

(* An object of a collection is an object.                                 *)
LEMMA CollectionsAreObjects ==
    ASSUME NEW s
    PROVE  /\ DatabaseKey \in KeysOf(AllObjects(s))
           /\ KeysOf(BaseObjects(s)) \subseteq KeysOf(AllObjects(s))
           /\ \A o \in s.schema \cup s.table \cup s.column \cup s.constraint
                       \cup s.index \cup s.view \cup s.trigger \cup s.routine
                       \cup s.metadata : o.key \in KeysOf(AllObjects(s))
  <1>1. Object(DatabaseKey, NoKey, <<"database">>) \in BaseObjects(s)
    BY DEF BaseObjects
  <1>2. Object(DatabaseKey, NoKey, <<"database">>).key = DatabaseKey
    BY DEF Object
  <1>3. DatabaseKey \in KeysOf(AllObjects(s))
    BY <1>1, <1>2 DEF KeysOf, AllObjects
  <1> QED
    BY <1>3 DEF KeysOf, AllObjects, BaseObjects

(* An edge of an owned object.                                             *)
LEMMA OwnershipClosed ==
    ASSUME NEW objects, NEW type, NEW keys,
           \A o \in objects : o.owner \in keys /\ o.key \in keys
    PROVE  \A e \in OwnershipEdges(objects, type) :
              e.from \in keys /\ e.to \in keys
  BY DEF OwnershipEdges, Edge

(* Dependencies.                                                           *)
LEMMA DependenciesClosed ==
    ASSUME NEW dependents, NEW kind, NEW keys,
           \A v \in dependents : v.key \in keys /\ v.depends_on \subseteq keys
    PROVE  \A e \in DependencyEdges(dependents, kind) :
              e.from \in keys /\ e.to \in keys
  <1> SUFFICES ASSUME NEW e \in DependencyEdges(dependents, kind)
               PROVE  e.from \in keys /\ e.to \in keys
    OBVIOUS
  <1>1. PICK v \in dependents : \E d \in v.depends_on :
           e = Edge(<<kind, "depends_on", d.kind>>, v.key, d, None, v.row, 0)
    BY DEF DependencyEdges
  <1> QED
    BY <1>1 DEF Edge

(* Every edge the builder derives from a valid snapshot ends in objects of *)
(* the snapshot: the validators look up each key that becomes an endpoint. *)
LEMMA ValidIsClosed ==
    ASSUME NEW s, validate_canonical_schema_snapshot(s)
    PROVE  \A e \in GraphEdges(s) : /\ e.from \in KeysOf(AllObjects(s))
                                    /\ e.to \in KeysOf(AllObjects(s))
  <1> DEFINE base == KeysOf(BaseObjects(s))
             keys == KeysOf(AllObjects(s))
             Closed(E) == \A e \in E : e.from \in keys /\ e.to \in keys
  <1>1. /\ DatabaseKey \in keys /\ base \subseteq keys
        /\ \A o \in s.schema \cup s.table \cup s.column \cup s.constraint
                    \cup s.index \cup s.view \cup s.trigger \cup s.routine
                    \cup s.metadata : o.key \in keys
    BY CollectionsAreObjects
  <1>2. /\ ValidSchemasAndTables(s, base) /\ ValidColumns(s, base)
        /\ ValidConstraints(s, base) /\ ValidIndexes(s, base)
        /\ ValidDependents(s.view, base) /\ ValidTriggers(s, base)
        /\ ValidDependents(s.routine, base)
        /\ ValidMetadataObjects(s, keys) /\ ValidRelationships(s, keys)
    BY DEF validate_canonical_schema_snapshot, validate_schema_snapshot
  <1> HIDE DEF base, keys
  <1>3. Closed(OwnershipEdges(s.schema, "database_has_schema"))
    BY <1>1, <1>2, OwnershipClosed DEF ValidSchemasAndTables
  <1>4. Closed(OwnershipEdges(s.table, "schema_has_table"))
    BY <1>1, <1>2, OwnershipClosed DEF ValidSchemasAndTables, Resolves
  <1>5. Closed(OwnershipEdges(s.column, "table_has_column"))
    BY <1>1, <1>2, OwnershipClosed DEF ValidColumns, Resolves
  <1>6. Closed(insert_constraint_edges(s))
    <2>1. Closed(OwnershipEdges(s.constraint, "table_has_constraint"))
      BY <1>1, <1>2, OwnershipClosed DEF ValidConstraints, Resolves
    <2>2. ASSUME NEW c \in s.constraint, NEW i \in DOMAIN c.columns
          PROVE  c.columns[i] \in keys /\ c.key \in keys
      <3>1. c.columns[i] \in Elements(c.columns)
        BY DEF Elements
      <3> QED
        BY <1>1, <1>2, <3>1 DEF ValidConstraints, ColumnOf, Resolves
    <2>3. ASSUME NEW c \in s.constraint, c.key.kind = "foreign_key",
                 NEW i \in DOMAIN c.referenced
          PROVE  c.referenced[i] \in keys /\ c.key \in keys
      <3>1. c.referenced[i] \in Elements(c.referenced)
        BY DEF Elements
      <3> QED
        BY <1>1, <1>2, <2>3, <3>1
        DEF ValidConstraints, ColumnOf, Resolves
    <2> DEFINE own == OwnershipEdges(s.constraint, "table_has_constraint")
               columnIn == UNION {{Edge(<<"column_in", c.key.kind>>,
                                        c.columns[i], c.key, None, c.row, i) :
                                      i \in DOMAIN c.columns} :
                                     c \in s.constraint}
               toColumn == UNION {{Edge(<<"fk_to_column">>, c.key,
                                        c.referenced[i], None, c.row, i) :
                                      i \in DOMAIN c.referenced} :
                                     c \in {d \in s.constraint :
                                              d.key.kind = "foreign_key"}}
    <2>4. Closed(columnIn)
      BY <2>2 DEF Edge
    <2>5. Closed(toColumn)
      BY <2>3 DEF Edge
    <2>6. insert_constraint_edges(s) = own \cup columnIn \cup toColumn
      BY DEF insert_constraint_edges
    <2> HIDE DEF own, columnIn, toColumn
    <2>7. Closed(own \cup columnIn \cup toColumn)
      BY <2>1, <2>4, <2>5 DEF own
    <2> QED
      BY <2>6, <2>7
  <1>7. Closed(IndexEdges(s))
    <2>1. Closed(OwnershipEdges(s.index, "table_has_index"))
      BY <1>1, <1>2, OwnershipClosed DEF ValidIndexes, Resolves
    <2>2. ASSUME NEW x \in s.index, NEW i \in DOMAIN x.columns
          PROVE  x.columns[i] \in keys /\ x.key \in keys
      <3>1. x.columns[i] \in Elements(x.columns)
        BY DEF Elements
      <3> QED
        BY <1>1, <1>2, <3>1 DEF ValidIndexes, ColumnOf, Resolves
    <2> QED
      BY <2>1, <2>2 DEF IndexEdges, Edge
  <1>8. /\ Closed(OwnershipEdges(s.view, "schema_has_view"))
        /\ Closed(OwnershipEdges(s.routine, "schema_has_routine"))
    BY <1>1, <1>2, OwnershipClosed DEF ValidDependents, Resolves
  <1>9. /\ Closed(DependencyEdges(s.view, "view"))
        /\ Closed(DependencyEdges(s.routine, "routine"))
    BY <1>1, <1>2, DependenciesClosed DEF ValidDependents
  <1>10. Closed(TriggerEdges(s))
    <2>1. \A t \in s.trigger : /\ t.owner \in keys /\ t.key \in keys
                               /\ t.routine # NoKey => t.routine \in keys
      BY <1>1, <1>2 DEF ValidTriggers, Resolves
    <2> QED
      BY <2>1 DEF TriggerEdges, Edge
  <1>11. Closed(MetadataEdges(s))
    <2>1. Closed(OwnershipEdges({o \in s.metadata : o.owner # NoKey},
                                "metadata_parent"))
      BY <1>1, <1>2, OwnershipClosed DEF ValidMetadataObjects
    <2>2. \A r \in s.relationship : r.from \in keys /\ r.to \in keys
      BY <1>2 DEF ValidRelationships
    <2> QED
      BY <2>1, <2>2 DEF MetadataEdges, Edge
  <1>12. Closed(GraphEdges(s))
    BY <1>3, <1>4, <1>5, <1>6, <1>7, <1>8, <1>9, <1>10, <1>11 DEF GraphEdges
  <1> QED
    BY <1>12 DEF keys

(* Whatever an adapter hands over, a snapshot that is certified never      *)
(* violates the foreign keys of the edge table: both ends of every edge    *)
(* the builder inserts are nodes it has inserted before.                   *)
THEOREM ForeignKeysHold == PipelineSpec => []CertifiedEdgesHaveNodes
  <1>1. PipelineIInv => CertifiedEdgesHaveNodes
    <2> SUFFICES ASSUME PipelineIInv, Certified,
                        NEW e \in GraphEdges(snapshot)
                 PROVE  /\ e.from \in NodeRows(snapshot)
                        /\ e.to \in NodeRows(snapshot)
      BY DEF CertifiedEdgesHaveNodes, EdgesHaveNodes
    <2>1. validate_canonical_schema_snapshot(snapshot)
      BY DEF PipelineIInv
    <2> QED
      BY <2>1, ValidIsClosed DEF NodeRows
  <1> QED
    BY <1>1, PipelineInvariant, PTL

(* The stored rows are those counted in the catalog: one node for every    *)
(* discovered object, and one edge for every relationship, two for a       *)
(* foreign key pair and a trigger.                                         *)
THEOREM StoredAsDiscovered == PipelineSpec => []StoredIsDiscovered
  <1>1. PipelineIInv => StoredIsDiscovered
    <2> SUFFICES ASSUME PipelineIInv, stage = "stored"
                 PROVE  StoredIsDiscovered
      BY DEF StoredIsDiscovered
    <2>1. /\ CountsReconciled(snapshot, discovered)
          /\ ProjectionHolds /\ graph = Projection
      BY DEF PipelineIInv, Certified
    <2>2. /\ discovered.objects = emitted_object_counts(snapshot)
          /\ discovered.relationships = emitted_relationship_counts(snapshot)
      BY <2>1 DEF CountsReconciled
    <2>3. /\ Cardinality(graph.nodes)
                = certified_graph_projection_counts(snapshot).nodes
          /\ Cardinality(graph.edges)
                = certified_graph_projection_counts(snapshot).edges
      BY <2>1 DEF ProjectionHolds, Projection
    <2>4. emitted_relationship_counts(snapshot).trigger_target
             = Cardinality(snapshot.trigger)
      BY DEF emitted_relationship_counts
    <2>5. /\ certified_graph_projection_counts(snapshot).nodes
                = Total(discovered.objects)
          /\ certified_graph_projection_counts(snapshot).edges
                = Total(discovered.relationships)
                    + discovered.relationships.foreign_key_column_pair
                    + discovered.relationships.trigger_target
      BY <2>2, <2>4 DEF certified_graph_projection_counts
    <2> QED
      BY <2>1, <2>3, <2>5 DEF StoredIsDiscovered
  <1> QED
    BY <1>1, PipelineInvariant, PTL

-----------------------------------------------------------------------------
(* No two rows of a certified snapshot have one key.                       *)

(* The vectors of the code are finite.                                     *)
FiniteParts(s) ==
    /\ \A o \in s.constraint : IsList(o.columns) /\ IsList(o.referenced)
    /\ \A x \in s.index : IsList(x.columns)
    /\ \A v \in s.view \cup s.routine : IsFiniteSet(v.depends_on)
    /\ IsFiniteSet(s.schema) /\ IsFiniteSet(s.table)
    /\ IsFiniteSet(s.column) /\ IsFiniteSet(s.constraint)
    /\ IsFiniteSet(s.index) /\ IsFiniteSet(s.view)
    /\ IsFiniteSet(s.trigger) /\ IsFiniteSet(s.routine)
    /\ IsFiniteSet(s.metadata) /\ IsFiniteSet(s.relationship)

(* The names of the collections.                                           *)
LEMMA Collections ==
    Collection = {"schema", "table", "column", "constraint", "index", "view",
                  "trigger", "routine", "metadata", "annotation",
                  "relationship"}
  BY DEF Collection, EmptySnapshot

LEMMA SnapshotFinite ==
    ASSUME NEW s, IsSnapshot(s)
    PROVE  FiniteParts(s)
  <1>1. /\ s.schema = s["schema"] /\ s.table = s["table"]
        /\ s.column = s["column"] /\ s.constraint = s["constraint"]
        /\ s.index = s["index"] /\ s.view = s["view"]
        /\ s.trigger = s["trigger"] /\ s.routine = s["routine"]
        /\ s.metadata = s["metadata"] /\ s.relationship = s["relationship"]
    OBVIOUS
  <1>2. \A c \in Collection :
           IsFiniteSet(s[c]) /\ \A e \in s[c] : IsElement(c, e)
    BY DEF IsSnapshot
  <1>3. \A o \in s.constraint : IsList(o.columns) /\ IsList(o.referenced)
    BY <1>1, <1>2, Collections DEF IsElement
  <1>4. \A x \in s.index : IsList(x.columns)
    BY <1>1, <1>2, Collections DEF IsElement
  <1>5. \A v \in s.view \cup s.routine : IsFiniteSet(v.depends_on)
    BY <1>1, <1>2, Collections DEF IsElement
  <1> QED
    BY <1>1, <1>2, <1>3, <1>4, <1>5, Collections DEF FiniteParts

(* A function on a finite set has as many values as arguments exactly when *)
(* it is one-to-one.                                                       *)
LEMMA SameSize ==
    ASSUME NEW S, IsFiniteSet(S), NEW T, NEW f \in [S -> T],
           T = {f[x] : x \in S}
    PROVE  /\ IsFiniteSet(T)
           /\ Cardinality(T) = Cardinality(S)
                 <=> \A x, y \in S : f[x] = f[y] => x = y
  <1>1. f \in Surjection(S, T)
    BY DEF Surjection
  <1>2. IsFiniteSet(T) /\ (Cardinality(T) = Cardinality(S)
                             <=> f \in Injection(S, T))
    BY <1>1, FS_Surjection
  <1>3. f \in Injection(S, T) <=> \A x, y \in S : f[x] = f[y] => x = y
    BY DEF Injection, IsInjective
  <1> QED
    BY <1>2, <1>3

(* Objects with keys of their own.                                         *)
LEMMA KeysIdentify ==
    ASSUME NEW objects, IsFiniteSet(objects)
    PROVE  UniqueKeys(objects) <=>
              \A o, p \in objects : o.key = p.key => o = p
  <1> DEFINE f == [o \in objects |-> o.key]
             T == KeysOf(objects)
  <1>1. /\ f \in [objects -> T] /\ T = {f[x] : x \in objects}
        /\ \A o \in objects : f[o] = o.key
    BY DEF KeysOf
  <1> HIDE DEF f
  <1>2. Cardinality(T) = Cardinality(objects)
           <=> \A o, p \in objects : f[o] = f[p] => o = p
    BY <1>1, SameSize
  <1> QED
    BY <1>1, <1>2 DEF UniqueKeys

(* A list without repetitions.                                             *)
LEMMA ListInjective ==
    ASSUME NEW q, IsList(q), Injective(q)
    PROVE  \A i, j \in DOMAIN q : q[i] = q[j] => i = j
  <1>1. PICK n \in Nat : n = Len(q) /\ DOMAIN q = 1 .. n
    BY DEF IsList
  <1> DEFINE D == 1 .. n
             f == [i \in D |-> q[i]]
             T == Elements(q)
  <1>2. IsFiniteSet(D) /\ Cardinality(D) = n
    BY FS_Interval
  <1>3. Cardinality(T) = n
    BY <1>1 DEF Injective, Elements
  <1>4. /\ f \in [D -> T] /\ T = {f[x] : x \in D} /\ \A i \in D : f[i] = q[i]
    BY <1>1 DEF Elements
  <1> HIDE DEF f, T, D
  <1>5. \A i, j \in D : f[i] = f[j] => i = j
    BY <1>2, <1>3, <1>4, SameSize
  <1> QED
    BY <1>1, <1>4, <1>5 DEF D

(* Sets of edges in which the key tells, and the first words of their      *)
(* types.                                                                  *)
Distinct(E) == \A e, f \in E : EdgeKey(e) = EdgeKey(f) => e = f
Tagged(E, tags) == \A e \in E : e.type[1] \in tags

(* Edges of different types do not meet.                                   *)
LEMMA DistinctUnion ==
    ASSUME NEW E, NEW F, NEW T, NEW U, Distinct(E), Distinct(F),
           Tagged(E, T), Tagged(F, U), T \cap U = {}
    PROVE  Distinct(E \cup F) /\ Tagged(E \cup F, T \cup U)
  <1>1. \A e, f : EdgeKey(e) = EdgeKey(f) => e.type = f.type
    BY DEF EdgeKey
  <1>2. \A e \in E, f \in F : e.type[1] # f.type[1]
    BY DEF Tagged
  <1>3. \A e \in E, f \in F : EdgeKey(e) # EdgeKey(f)
    BY <1>1, <1>2
  <1> QED
    BY <1>3 DEF Distinct, Tagged

(* The edges of owned objects.                                             *)
LEMMA OwnershipDistinct ==
    ASSUME NEW objects, NEW type,
           \A o, p \in objects : o.key = p.key => o = p
    PROVE  /\ Distinct(OwnershipEdges(objects, type))
           /\ Tagged(OwnershipEdges(objects, type), {type})
  <1> DEFINE E == OwnershipEdges(objects, type)
  <1>1. ASSUME NEW e \in E
        PROVE  \E o \in objects :
                  /\ e = Edge(<<type>>, o.owner, o.key, None, o.row, 0)
                  /\ e.to = o.key /\ e.type = <<type>>
    BY DEF OwnershipEdges, Edge
  <1>2. ASSUME NEW e \in E, NEW f \in E, EdgeKey(e) = EdgeKey(f)
        PROVE  e = f
    <2>1. e.to = f.to
      BY <1>2 DEF EdgeKey
    <2> QED
      BY <1>1, <2>1
  <1>3. ASSUME NEW e \in E PROVE e.type[1] = type
    BY <1>1
  <1> QED
    BY <1>2, <1>3 DEF Distinct, Tagged

(* The edges between constraints or indexes and their columns.             *)
NoRepeat(owners, list) ==
    \A o \in owners : \A i, j \in DOMAIN list[o] :
        list[o][i] = list[o][j] => i = j

OfTag(owners, type, tag) == \A o \in owners : type[o][1] = tag

FromList(E, owners, list, type) ==
    \A e \in E : \E o \in owners : \E i \in DOMAIN list[o] :
        e = Edge(type[o], list[o][i], o.key, None, o.row, i)

ToList(E, owners, list, type) ==
    \A e \in E : \E o \in owners : \E i \in DOMAIN list[o] :
        e = Edge(type[o], o.key, list[o][i], None, o.row, i)

(* Edges from listed columns.                                              *)
LEMMA FromListDistinct ==
    ASSUME NEW owners, NEW E, NEW tag, NEW list, NEW type,
           \A o, p \in owners : o.key = p.key => o = p,
           NoRepeat(owners, list), OfTag(owners, type, tag),
           FromList(E, owners, list, type)
    PROVE  Distinct(E) /\ Tagged(E, {tag})
  <1>1. ASSUME NEW e \in E, NEW f \in E, EdgeKey(e) = EdgeKey(f)
        PROVE  e = f
    <2>1. PICK o \in owners : \E i \in DOMAIN list[o] :
             e = Edge(type[o], list[o][i], o.key, None, o.row, i)
      BY DEF FromList
    <2>2. PICK i \in DOMAIN list[o] :
             e = Edge(type[o], list[o][i], o.key, None, o.row, i)
      BY <2>1
    <2>3. PICK p \in owners : \E j \in DOMAIN list[p] :
             f = Edge(type[p], list[p][j], p.key, None, p.row, j)
      BY DEF FromList
    <2>4. PICK j \in DOMAIN list[p] :
             f = Edge(type[p], list[p][j], p.key, None, p.row, j)
      BY <2>3
    <2>5. e.to = f.to /\ e.from = f.from
      BY <1>1 DEF EdgeKey
    <2>6. o = p
      BY <2>2, <2>4, <2>5 DEF Edge
    <2>7. list[o][i] = list[p][j]
      BY <2>2, <2>4, <2>5 DEF Edge
    <2>8. i = j
      BY <2>6, <2>7 DEF NoRepeat
    <2> QED
      BY <2>2, <2>4, <2>6, <2>8
  <1>2. ASSUME NEW e \in E PROVE e.type[1] = tag
    BY DEF Edge, FromList, OfTag
  <1> QED
    BY <1>1, <1>2 DEF Distinct, Tagged

(* Edges to listed columns.                                                *)
LEMMA ToListDistinct ==
    ASSUME NEW owners, NEW E, NEW tag, NEW list, NEW type,
           \A o, p \in owners : o.key = p.key => o = p,
           NoRepeat(owners, list), OfTag(owners, type, tag),
           ToList(E, owners, list, type)
    PROVE  Distinct(E) /\ Tagged(E, {tag})
  <1>1. ASSUME NEW e \in E, NEW f \in E, EdgeKey(e) = EdgeKey(f)
        PROVE  e = f
    <2>1. PICK o \in owners : \E i \in DOMAIN list[o] :
             e = Edge(type[o], o.key, list[o][i], None, o.row, i)
      BY DEF ToList
    <2>2. PICK i \in DOMAIN list[o] :
             e = Edge(type[o], o.key, list[o][i], None, o.row, i)
      BY <2>1
    <2>3. PICK p \in owners : \E j \in DOMAIN list[p] :
             f = Edge(type[p], p.key, list[p][j], None, p.row, j)
      BY DEF ToList
    <2>4. PICK j \in DOMAIN list[p] :
             f = Edge(type[p], p.key, list[p][j], None, p.row, j)
      BY <2>3
    <2>5. e.to = f.to /\ e.from = f.from
      BY <1>1 DEF EdgeKey
    <2>6. o = p
      BY <2>2, <2>4, <2>5 DEF Edge
    <2>7. list[o][i] = list[p][j]
      BY <2>2, <2>4, <2>5 DEF Edge
    <2>8. i = j
      BY <2>6, <2>7 DEF NoRepeat
    <2> QED
      BY <2>2, <2>4, <2>6, <2>8
  <1>2. ASSUME NEW e \in E PROVE e.type[1] = tag
    BY DEF Edge, ToList, OfTag
  <1> QED
    BY <1>1, <1>2 DEF Distinct, Tagged

(* There are finitely many objects.                                        *)
LEMMA ObjectsFinite ==
    ASSUME NEW s, FiniteParts(s)
    PROVE  IsFiniteSet(AllObjects(s))
  <1> DEFINE database == {Object(DatabaseKey, NoKey, <<"database">>)}
  <1>1. IsFiniteSet(database)
    BY FS_Singleton
  <1> HIDE DEF database
  <1>2. IsFiniteSet(database \cup s.schema \cup s.table)
    BY <1>1, FS_Union DEF FiniteParts
  <1>3. IsFiniteSet(database \cup s.schema \cup s.table
                      \cup s.column \cup s.constraint)
    BY <1>2, FS_Union DEF FiniteParts
  <1>4. IsFiniteSet(database \cup s.schema \cup s.table
                      \cup s.column \cup s.constraint
                      \cup s.index \cup s.view)
    BY <1>3, FS_Union DEF FiniteParts
  <1>5. IsFiniteSet(database \cup s.schema \cup s.table
                      \cup s.column \cup s.constraint
                      \cup s.index \cup s.view \cup s.trigger
                      \cup s.routine \cup s.metadata)
    BY <1>4, FS_Union DEF FiniteParts
  <1> QED
    BY <1>5 DEF AllObjects, BaseObjects, database

(* The edges of a valid snapshot are told apart by their keys.             *)
LEMMA EdgesDistinct ==
    ASSUME NEW s, validate_canonical_schema_snapshot(s), FiniteParts(s)
    PROVE  Distinct(GraphEdges(s))
  <1> DEFINE Unique(S) == \A o, p \in S : o.key = p.key => o = p
             base == KeysOf(BaseObjects(s))
             keys == KeysOf(AllObjects(s))
  <1>1. Unique(AllObjects(s))
    <2>1. IsFiniteSet(AllObjects(s))
      BY ObjectsFinite
    <2>2. UniqueKeys(AllObjects(s))
      BY DEF validate_canonical_schema_snapshot, ValidMetadataObjects
    <2> QED
      BY <2>1, <2>2, KeysIdentify
  <1>2. /\ Unique(s.schema) /\ Unique(s.table) /\ Unique(s.column)
        /\ Unique(s.constraint) /\ Unique(s.index) /\ Unique(s.view)
        /\ Unique(s.trigger) /\ Unique(s.routine) /\ Unique(s.metadata)
    BY <1>1 DEF AllObjects, BaseObjects
  <1>3. /\ ValidConstraints(s, base) /\ ValidIndexes(s, base)
        /\ ValidRelationships(s, keys)
    BY DEF validate_canonical_schema_snapshot, validate_schema_snapshot
  <1> HIDE DEF base, keys
  <1> DEFINE Own(S, type) == OwnershipEdges(S, type)
             Apart(E, T) == Distinct(E) /\ Tagged(E, T)
  <1>4. /\ Apart(Own(s.schema, "database_has_schema"),
                 {"database_has_schema"})
        /\ Apart(Own(s.table, "schema_has_table"), {"schema_has_table"})
        /\ Apart(Own(s.column, "table_has_column"), {"table_has_column"})
        /\ Apart(Own(s.constraint, "table_has_constraint"),
                 {"table_has_constraint"})
        /\ Apart(Own(s.index, "table_has_index"), {"table_has_index"})
        /\ Apart(Own(s.view, "schema_has_view"), {"schema_has_view"})
        /\ Apart(Own(s.routine, "schema_has_routine"), {"schema_has_routine"})
    BY <1>2, OwnershipDistinct
  <1>5. Apart(insert_constraint_edges(s),
              {"table_has_constraint", "column_in", "fk_to_column"})
    <2> DEFINE fks == {d \in s.constraint : d.key.kind = "foreign_key"}
               columnIn == UNION {{Edge(<<"column_in", c.key.kind>>,
                                        c.columns[i], c.key, None, c.row, i) :
                                      i \in DOMAIN c.columns} :
                                     c \in s.constraint}
               toColumn == UNION {{Edge(<<"fk_to_column">>, c.key,
                                        c.referenced[i], None, c.row, i) :
                                      i \in DOMAIN c.referenced} : c \in fks}
               own == Own(s.constraint, "table_has_constraint")
    <2>1. \A c \in s.constraint :
             /\ IsList(c.columns) /\ Injective(c.columns)
             /\ IsList(c.referenced) /\ Injective(c.referenced)
      BY <1>3 DEF FiniteParts, ValidConstraints
    <2>2. \A c \in s.constraint :
             /\ \A i, j \in DOMAIN c.columns :
                   c.columns[i] = c.columns[j] => i = j
             /\ \A i, j \in DOMAIN c.referenced :
                   c.referenced[i] = c.referenced[j] => i = j
      BY <2>1, ListInjective
    <2>3. Apart(columnIn, {"column_in"})
      <3>1. PICK list : list = [c \in s.constraint |-> c.columns]
        OBVIOUS
      <3>2. PICK type :
               type = [c \in s.constraint |-> <<"column_in", c.key.kind>>]
        OBVIOUS
      <3>3. FromList(columnIn, s.constraint, list, type)
        BY <3>1, <3>2 DEF FromList
      <3>4. NoRepeat(s.constraint, list)
        BY <2>2, <3>1 DEF NoRepeat
      <3>5. OfTag(s.constraint, type, "column_in")
        BY <3>2 DEF OfTag
      <3> HIDE DEF columnIn
      <3> QED
        BY <1>2, <3>3, <3>4, <3>5, FromListDistinct
    <2>4. Apart(toColumn, {"fk_to_column"})
      <3>1. PICK list : list = [c \in fks |-> c.referenced]
        OBVIOUS
      <3>2. PICK type : type = [c \in fks |-> <<"fk_to_column">>]
        OBVIOUS
      <3>3. ToList(toColumn, fks, list, type)
        BY <3>1, <3>2 DEF ToList
      <3>4. NoRepeat(fks, list)
        BY <2>2, <3>1 DEF NoRepeat
      <3>5. OfTag(fks, type, "fk_to_column")
        BY <3>2 DEF OfTag
      <3>6. \A o, p \in fks : o.key = p.key => o = p
        BY <1>2
      <3> HIDE DEF toColumn, fks
      <3> QED
        BY <3>3, <3>4, <3>5, <3>6, ToListDistinct
    <2>5. insert_constraint_edges(s) = (own \cup columnIn) \cup toColumn
      BY DEF insert_constraint_edges
    <2> HIDE DEF columnIn, toColumn
    <2>6. Apart(own \cup columnIn, {"table_has_constraint"} \cup {"column_in"})
      BY <1>4, <2>3, DistinctUnion
    <2>7. Apart((own \cup columnIn) \cup toColumn,
                ({"table_has_constraint"} \cup {"column_in"})
                    \cup {"fk_to_column"})
      BY <2>4, <2>6, DistinctUnion
    <2>8. ({"table_has_constraint"} \cup {"column_in"}) \cup {"fk_to_column"}
             = {"table_has_constraint", "column_in", "fk_to_column"}
      OBVIOUS
    <2> QED
      BY <2>5, <2>7, <2>8
  <1>6. Apart(IndexEdges(s), {"table_has_index", "column_in_index"})
    <2> DEFINE columnIn == UNION {{Edge(<<"column_in_index">>, x.columns[i],
                                        x.key, None, x.row, i) :
                                      i \in DOMAIN x.columns} : x \in s.index}
               own == Own(s.index, "table_has_index")
    <2>1. \A x \in s.index : IsList(x.columns) /\ Injective(x.columns)
      BY <1>3 DEF FiniteParts, ValidIndexes
    <2>2. \A x \in s.index : \A i, j \in DOMAIN x.columns :
             x.columns[i] = x.columns[j] => i = j
      BY <2>1, ListInjective
    <2>3. Apart(columnIn, {"column_in_index"})
      <3>1. PICK list : list = [x \in s.index |-> x.columns]
        OBVIOUS
      <3>2. PICK type : type = [x \in s.index |-> <<"column_in_index">>]
        OBVIOUS
      <3>3. FromList(columnIn, s.index, list, type)
        BY <3>1, <3>2 DEF FromList
      <3>4. NoRepeat(s.index, list)
        BY <2>2, <3>1 DEF NoRepeat
      <3>5. OfTag(s.index, type, "column_in_index")
        BY <3>2 DEF OfTag
      <3> HIDE DEF columnIn
      <3> QED
        BY <1>2, <3>3, <3>4, <3>5, FromListDistinct
    <2>4. IndexEdges(s) = own \cup columnIn
      BY DEF IndexEdges
    <2> HIDE DEF columnIn
    <2>5. Apart(own \cup columnIn,
                {"table_has_index"} \cup {"column_in_index"})
      BY <1>4, <2>3, DistinctUnion
    <2>6. {"table_has_index"} \cup {"column_in_index"}
             = {"table_has_index", "column_in_index"}
      OBVIOUS
    <2> QED
      BY <2>4, <2>5, <2>6
  <1>7. ASSUME NEW S, NEW kind, Unique(S)
        PROVE  Apart(DependencyEdges(S, kind), {kind})
    <2>1. ASSUME NEW e \in DependencyEdges(S, kind)
          PROVE  \E v \in S : \E d \in v.depends_on :
                    e = Edge(<<kind, "depends_on", d.kind>>, v.key, d, None,
                             v.row, 0)
      BY DEF DependencyEdges
    <2>2. ASSUME NEW e \in DependencyEdges(S, kind) PROVE e.type[1] = kind
      BY <2>1 DEF Edge
    <2>3. ASSUME NEW e \in DependencyEdges(S, kind),
                 NEW f \in DependencyEdges(S, kind), EdgeKey(e) = EdgeKey(f)
          PROVE  e = f
      <3>1. e.from = f.from /\ e.to = f.to
        BY <2>3 DEF EdgeKey
      <3>2. PICK v \in S : \E d \in v.depends_on :
               e = Edge(<<kind, "depends_on", d.kind>>, v.key, d, None,
                        v.row, 0)
        BY <2>1
      <3>3. PICK w \in S : \E d \in w.depends_on :
               f = Edge(<<kind, "depends_on", d.kind>>, w.key, d, None,
                        w.row, 0)
        BY <2>1
      <3>4. v = w
        BY <1>7, <3>1, <3>2, <3>3 DEF Edge
      <3> QED
        BY <3>1, <3>2, <3>3, <3>4 DEF Edge
    <2> QED
      BY <2>2, <2>3 DEF Distinct, Tagged
  <1>8. Apart(TriggerEdges(s),
              {"has_trigger", "trigger_on", "trigger_executes_routine"})
    <2> DEFINE
          has == {Edge(<<"has_trigger">>, t.owner, t.key, None, t.row, 0) :
                     t \in s.trigger}
          on == {Edge(<<"trigger_on">>, t.key, t.owner, None, t.row, 0) :
                    t \in s.trigger}
          runs == {Edge(<<"trigger_executes_routine">>, t.key, t.routine,
                        None, t.row, 0) :
                      t \in {u \in s.trigger : u.routine # NoKey}}
    <2>1. Apart(has, {"has_trigger"})
      <3>1. has = Own(s.trigger, "has_trigger")
        BY DEF OwnershipEdges
      <3>2. Apart(Own(s.trigger, "has_trigger"), {"has_trigger"})
        BY <1>2, OwnershipDistinct
      <3> HIDE DEF has
      <3> QED
        BY <3>1, <3>2
    <2>2. Apart(on, {"trigger_on"})
      <3>1. ASSUME NEW e \in on
            PROVE  \E t \in s.trigger :
                      /\ e = Edge(<<"trigger_on">>, t.key, t.owner, None,
                                  t.row, 0)
                      /\ e.from = t.key /\ e.type = <<"trigger_on">>
        BY DEF Edge
      <3>2. ASSUME NEW e \in on, NEW f \in on, EdgeKey(e) = EdgeKey(f)
            PROVE  e = f
        <4>1. e.from = f.from
          BY <3>2 DEF EdgeKey
        <4> QED
          BY <1>2, <3>1, <4>1
      <3>3. ASSUME NEW e \in on PROVE e.type[1] = "trigger_on"
        BY <3>1
      <3> QED
        BY <3>2, <3>3 DEF Distinct, Tagged
    <2>3. Apart(runs, {"trigger_executes_routine"})
      <3>1. ASSUME NEW e \in runs
            PROVE  \E t \in s.trigger :
                      /\ e = Edge(<<"trigger_executes_routine">>, t.key,
                                  t.routine, None, t.row, 0)
                      /\ e.from = t.key
                      /\ e.type = <<"trigger_executes_routine">>
        BY DEF Edge
      <3>2. ASSUME NEW e \in runs, NEW f \in runs, EdgeKey(e) = EdgeKey(f)
            PROVE  e = f
        <4>1. e.from = f.from
          BY <3>2 DEF EdgeKey
        <4> QED
          BY <1>2, <3>1, <4>1
      <3>3. ASSUME NEW e \in runs
            PROVE  e.type[1] = "trigger_executes_routine"
        BY <3>1
      <3> QED
        BY <3>2, <3>3 DEF Distinct, Tagged
    <2>4. TriggerEdges(s) = (has \cup on) \cup runs
      BY DEF TriggerEdges
    <2> HIDE DEF has, on, runs
    <2>5. Apart(has \cup on, {"has_trigger"} \cup {"trigger_on"})
      BY <2>1, <2>2, DistinctUnion
    <2>6. Apart((has \cup on) \cup runs,
                ({"has_trigger"} \cup {"trigger_on"})
                    \cup {"trigger_executes_routine"})
      BY <2>3, <2>5, DistinctUnion
    <2>7. ({"has_trigger"} \cup {"trigger_on"})
                \cup {"trigger_executes_routine"}
             = {"has_trigger", "trigger_on", "trigger_executes_routine"}
      OBVIOUS
    <2> QED
      BY <2>4, <2>6, <2>7
  <1>9. Apart(MetadataEdges(s), {"metadata_parent", "metadata"})
    <2> DEFINE
          own == Own({o \in s.metadata : o.owner # NoKey}, "metadata_parent")
          links == {Edge(<<"metadata", r.kind>>, r.from, r.to, r.ordinal,
                         r.row, 0) : r \in s.relationship}
          Id(r) == <<r.kind, r.from, r.to, r.ordinal>>
    <2>1. Apart(own, {"metadata_parent"})
      BY <1>2, OwnershipDistinct
    <2>2. \A r, q \in s.relationship : Id(r) = Id(q) => r = q
      <3> DEFINE f == [r \in s.relationship |-> Id(r)]
                 T == {Id(r) : r \in s.relationship}
      <3>1. IsFiniteSet(s.relationship)
            /\ Cardinality(T) = Cardinality(s.relationship)
        BY <1>3 DEF ValidRelationships, FiniteParts
      <3> HIDE DEF Id
      <3>2. /\ f \in [s.relationship -> T]
            /\ T = {f[r] : r \in s.relationship}
            /\ \A r \in s.relationship : f[r] = Id(r)
        OBVIOUS
      <3> HIDE DEF f, T
      <3>3. \A r, q \in s.relationship : f[r] = f[q] => r = q
        BY <3>1, <3>2, SameSize
      <3> QED
        BY <3>2, <3>3
    <2>3. Apart(links, {"metadata"})
      <3>1. ASSUME NEW e \in links
            PROVE  \E r \in s.relationship :
                      /\ e = Edge(<<"metadata", r.kind>>, r.from, r.to,
                                  r.ordinal, r.row, 0)
                      /\ e.type = <<"metadata", r.kind>> /\ e.from = r.from
                      /\ e.to = r.to /\ e.ordinal = r.ordinal
        BY DEF Edge
      <3>2. ASSUME NEW e \in links, NEW f \in links, EdgeKey(e) = EdgeKey(f)
            PROVE  e = f
        <4>1. /\ e.type = f.type /\ e.from = f.from /\ e.to = f.to
              /\ e.ordinal = f.ordinal
          BY <3>2 DEF EdgeKey
        <4>2. PICK r \in s.relationship :
                 /\ e = Edge(<<"metadata", r.kind>>, r.from, r.to,
                             r.ordinal, r.row, 0)
                 /\ e.type = <<"metadata", r.kind>> /\ e.from = r.from
                 /\ e.to = r.to /\ e.ordinal = r.ordinal
          BY <3>1
        <4>3. PICK q \in s.relationship :
                 /\ f = Edge(<<"metadata", q.kind>>, q.from, q.to,
                             q.ordinal, q.row, 0)
                 /\ f.type = <<"metadata", q.kind>> /\ f.from = q.from
                 /\ f.to = q.to /\ f.ordinal = q.ordinal
          BY <3>1
        <4>4. r.kind = q.kind
          BY <4>1, <4>2, <4>3
        <4>5. r = q
          BY <2>2, <4>1, <4>2, <4>3, <4>4
        <4> QED
          BY <4>2, <4>3, <4>5
      <3>3. ASSUME NEW e \in links PROVE e.type[1] = "metadata"
        <4>1. PICK r \in s.relationship : e.type = <<"metadata", r.kind>>
          BY <3>1
        <4> QED
          BY <4>1
      <3> QED
        BY <3>2, <3>3 DEF Distinct, Tagged
    <2>4. MetadataEdges(s) = own \cup links
      BY DEF MetadataEdges
    <2> HIDE DEF own, links
    <2>5. Apart(own \cup links, {"metadata_parent"} \cup {"metadata"})
      BY <2>1, <2>3, DistinctUnion
    <2>6. {"metadata_parent"} \cup {"metadata"}
             = {"metadata_parent", "metadata"}
      OBVIOUS
    <2> QED
      BY <2>4, <2>5, <2>6
  <1>10. /\ Apart(DependencyEdges(s.view, "view"), {"view"})
         /\ Apart(DependencyEdges(s.routine, "routine"), {"routine"})
    BY <1>2, <1>7
  <1> DEFINE
        a1 == Own(s.schema, "database_has_schema")
                \cup Own(s.table, "schema_has_table")
        t1 == {"database_has_schema", "schema_has_table"}
        a2 == a1 \cup Own(s.column, "table_has_column")
        t2 == t1 \cup {"table_has_column"}
        a3 == a2 \cup insert_constraint_edges(s)
        t3 == t2 \cup {"table_has_constraint", "column_in", "fk_to_column"}
        a4 == a3 \cup IndexEdges(s)
        t4 == t3 \cup {"table_has_index", "column_in_index"}
        a5 == a4 \cup Own(s.view, "schema_has_view")
        t5 == t4 \cup {"schema_has_view"}
        a6 == a5 \cup DependencyEdges(s.view, "view")
        t6 == t5 \cup {"view"}
        a7 == a6 \cup TriggerEdges(s)
        t7 == t6 \cup {"has_trigger", "trigger_on",
                       "trigger_executes_routine"}
        a8 == a7 \cup Own(s.routine, "schema_has_routine")
        t8 == t7 \cup {"schema_has_routine"}
        a9 == a8 \cup DependencyEdges(s.routine, "routine")
        t9 == t8 \cup {"routine"}
        a10 == a9 \cup MetadataEdges(s)
        t10 == t9 \cup {"metadata_parent", "metadata"}
  <1>11. GraphEdges(s) = a10
    BY DEF GraphEdges
  <1>12. /\ t1 \cap {"table_has_column"} = {}
         /\ t2 \cap {"table_has_constraint", "column_in", "fk_to_column"} = {}
         /\ t3 \cap {"table_has_index", "column_in_index"} = {}
         /\ t4 \cap {"schema_has_view"} = {} /\ t5 \cap {"view"} = {}
         /\ t6 \cap {"has_trigger", "trigger_on",
                     "trigger_executes_routine"} = {}
         /\ t7 \cap {"schema_has_routine"} = {} /\ t8 \cap {"routine"} = {}
         /\ t9 \cap {"metadata_parent", "metadata"} = {}
    OBVIOUS
  <1> HIDE DEF Own
  <1>13. Apart(a1, t1)
    <2>1. Apart(a1, {"database_has_schema"} \cup {"schema_has_table"})
      BY <1>4, DistinctUnion
    <2>2. {"database_has_schema"} \cup {"schema_has_table"} = t1
      OBVIOUS
    <2> QED
      BY <2>1, <2>2
  <1> HIDE DEF a1, t1
  <1>14. Apart(a2, t2)
    BY <1>4, <1>12, <1>13, DistinctUnion
  <1> HIDE DEF a2, t2
  <1>15. Apart(a3, t3)
    BY <1>5, <1>12, <1>14, DistinctUnion
  <1> HIDE DEF a3, t3
  <1>16. Apart(a4, t4)
    BY <1>6, <1>12, <1>15, DistinctUnion
  <1> HIDE DEF a4, t4
  <1>17. Apart(a5, t5)
    BY <1>4, <1>12, <1>16, DistinctUnion
  <1> HIDE DEF a5, t5
  <1>18. Apart(a6, t6)
    BY <1>10, <1>12, <1>17, DistinctUnion
  <1> HIDE DEF a6, t6
  <1>19. Apart(a7, t7)
    BY <1>8, <1>12, <1>18, DistinctUnion
  <1> HIDE DEF a7, t7
  <1>20. Apart(a8, t8)
    BY <1>4, <1>12, <1>19, DistinctUnion
  <1> HIDE DEF a8, t8
  <1>21. Apart(a9, t9)
    BY <1>10, <1>12, <1>20, DistinctUnion
  <1> HIDE DEF a9, t9
  <1>22. Apart(a10, t10)
    BY <1>9, <1>12, <1>21, DistinctUnion
  <1> QED
    BY <1>11, <1>22

(* The values of a function on a finite set.                               *)
LEMMA FiniteValues ==
    ASSUME NEW S, IsFiniteSet(S), NEW f, NEW T, T = {f[x] : x \in S}
    PROVE  IsFiniteSet(T)
  <1> DEFINE g == [x \in S |-> f[x]]
  <1>1. g \in [S -> T] /\ T = {g[x] : x \in S}
    OBVIOUS
  <1> HIDE DEF g
  <1> QED
    BY <1>1, SameSize

(* Finitely many finite lots.                                              *)
LEMMA FiniteLots ==
    ASSUME NEW S, IsFiniteSet(S), NEW f, \A x \in S : IsFiniteSet(f[x])
    PROVE  IsFiniteSet(UNION {f[x] : x \in S})
  <1> DEFINE T == {f[x] : x \in S}
  <1>1. IsFiniteSet(T)
    BY FiniteValues
  <1>2. \A U \in T : IsFiniteSet(U)
    OBVIOUS
  <1> QED
    BY <1>1, <1>2, FS_UNION

(* A snapshot has finitely many edges.                                     *)
LEMMA EdgesFinite ==
    ASSUME NEW s, FiniteParts(s)
    PROVE  IsFiniteSet(GraphEdges(s))
  <1>1. ASSUME NEW S, IsFiniteSet(S), NEW type
        PROVE  IsFiniteSet(OwnershipEdges(S, type))
    <2>1. PICK f : f = [o \in S |-> Edge(<<type>>, o.owner, o.key, None,
                                          o.row, 0)]
      OBVIOUS
    <2>2. OwnershipEdges(S, type) = {f[o] : o \in S}
      BY <2>1 DEF OwnershipEdges
    <2> QED
      BY <1>1, <2>2, FiniteValues
  <1>2. ASSUME NEW q, IsList(q) PROVE IsFiniteSet(DOMAIN q)
    <2>1. PICK n \in Nat : DOMAIN q = 1 .. n
      BY <1>2 DEF IsList
    <2> QED
      BY <2>1, FS_Interval
  <1>3. IsFiniteSet(insert_constraint_edges(s))
    <2> DEFINE fks == {d \in s.constraint : d.key.kind = "foreign_key"}
               In(c) == {Edge(<<"column_in", c.key.kind>>, c.columns[i],
                              c.key, None, c.row, i) : i \in DOMAIN c.columns}
               To(c) == {Edge(<<"fk_to_column">>, c.key, c.referenced[i],
                              None, c.row, i) : i \in DOMAIN c.referenced}
               columnIn == UNION {In(c) : c \in s.constraint}
               toColumn == UNION {To(c) : c \in fks}
               own == OwnershipEdges(s.constraint, "table_has_constraint")
    <2>1. IsFiniteSet(own)
      BY <1>1 DEF FiniteParts
    <2>2. IsFiniteSet(columnIn)
      <3>1. ASSUME NEW c \in s.constraint PROVE IsFiniteSet(In(c))
        <4>1. PICK f : f = [i \in DOMAIN c.columns |->
                              Edge(<<"column_in", c.key.kind>>, c.columns[i],
                                   c.key, None, c.row, i)]
          OBVIOUS
        <4>2. In(c) = {f[i] : i \in DOMAIN c.columns}
          BY <4>1
        <4>3. IsFiniteSet(DOMAIN c.columns)
          BY <1>2 DEF FiniteParts
        <4> HIDE DEF In
        <4> QED
          BY <4>2, <4>3, FiniteValues
      <3> HIDE DEF In
      <3>2. PICK g : g = [c \in s.constraint |-> In(c)]
        OBVIOUS
      <3>3. columnIn = UNION {g[c] : c \in s.constraint}
        BY <3>2
      <3> QED
        BY <3>1, <3>2, <3>3, FiniteLots DEF FiniteParts
    <2>3. IsFiniteSet(toColumn)
      <3>1. ASSUME NEW c \in fks PROVE IsFiniteSet(To(c))
        <4>1. PICK f : f = [i \in DOMAIN c.referenced |->
                              Edge(<<"fk_to_column">>, c.key, c.referenced[i],
                                   None, c.row, i)]
          OBVIOUS
        <4>2. To(c) = {f[i] : i \in DOMAIN c.referenced}
          BY <4>1
        <4>3. IsFiniteSet(DOMAIN c.referenced)
          BY <1>2 DEF FiniteParts
        <4> HIDE DEF To
        <4> QED
          BY <4>2, <4>3, FiniteValues
      <3>2. IsFiniteSet(fks)
        BY FS_Subset DEF FiniteParts
      <3> HIDE DEF To, fks
      <3>3. PICK g : g = [c \in fks |-> To(c)]
        OBVIOUS
      <3>4. toColumn = UNION {g[c] : c \in fks}
        BY <3>3
      <3> QED
        BY <3>1, <3>2, <3>3, <3>4, FiniteLots
    <2>4. insert_constraint_edges(s) = own \cup columnIn \cup toColumn
      BY DEF insert_constraint_edges
    <2> HIDE DEF columnIn, toColumn
    <2> QED
      BY <2>1, <2>2, <2>3, <2>4, FS_Union
  <1>4. IsFiniteSet(IndexEdges(s))
    <2> DEFINE In(x) == {Edge(<<"column_in_index">>, x.columns[i], x.key,
                              None, x.row, i) : i \in DOMAIN x.columns}
               columnIn == UNION {In(x) : x \in s.index}
               own == OwnershipEdges(s.index, "table_has_index")
    <2>1. IsFiniteSet(own)
      BY <1>1 DEF FiniteParts
    <2>2. IsFiniteSet(columnIn)
      <3>1. ASSUME NEW x \in s.index PROVE IsFiniteSet(In(x))
        <4>1. PICK f : f = [i \in DOMAIN x.columns |->
                              Edge(<<"column_in_index">>, x.columns[i],
                                   x.key, None, x.row, i)]
          OBVIOUS
        <4>2. In(x) = {f[i] : i \in DOMAIN x.columns}
          BY <4>1
        <4>3. IsFiniteSet(DOMAIN x.columns)
          BY <1>2 DEF FiniteParts
        <4> HIDE DEF In
        <4> QED
          BY <4>2, <4>3, FiniteValues
      <3> HIDE DEF In
      <3>2. PICK g : g = [x \in s.index |-> In(x)]
        OBVIOUS
      <3>3. columnIn = UNION {g[x] : x \in s.index}
        BY <3>2
      <3> QED
        BY <3>1, <3>2, <3>3, FiniteLots DEF FiniteParts
    <2>3. IndexEdges(s) = own \cup columnIn
      BY DEF IndexEdges
    <2> HIDE DEF columnIn
    <2> QED
      BY <2>1, <2>2, <2>3, FS_Union
  <1>5. ASSUME NEW S, IsFiniteSet(S), NEW kind,
               \A v \in S : IsFiniteSet(v.depends_on)
        PROVE  IsFiniteSet(DependencyEdges(S, kind))
    <2> DEFINE D(v) == {e \in v.depends_on : e.kind \in Projected(kind)}
               To(v) == {Edge(<<kind, "depends_on", d.kind>>, v.key, d, None,
                              v.row, 0) : d \in D(v)}
    <2>1. ASSUME NEW v \in S PROVE IsFiniteSet(To(v))
      <3>1. PICK f : f = [d \in D(v) |->
                            Edge(<<kind, "depends_on", d.kind>>, v.key, d,
                                 None, v.row, 0)]
        OBVIOUS
      <3>2. To(v) = {f[d] : d \in D(v)}
        BY <3>1
      <3>3. IsFiniteSet(D(v))
        BY <1>5, FS_Subset
      <3> HIDE DEF To
      <3> QED
        BY <3>2, <3>3, FiniteValues
    <2>2. DependencyEdges(S, kind) = UNION {To(v) : v \in S}
      BY DEF DependencyEdges
    <2> HIDE DEF To
    <2>3. PICK g : g = [v \in S |-> To(v)]
      OBVIOUS
    <2>4. UNION {To(v) : v \in S} = UNION {g[v] : v \in S}
      BY <2>3
    <2> QED
      BY <1>5, <2>1, <2>2, <2>3, <2>4, FiniteLots
  <1>6. /\ IsFiniteSet(DependencyEdges(s.view, "view"))
        /\ IsFiniteSet(DependencyEdges(s.routine, "routine"))
    BY <1>5 DEF FiniteParts
  <1>7. IsFiniteSet(TriggerEdges(s))
    <2> DEFINE
          has == {Edge(<<"has_trigger">>, t.owner, t.key, None, t.row, 0) :
                     t \in s.trigger}
          on == {Edge(<<"trigger_on">>, t.key, t.owner, None, t.row, 0) :
                    t \in s.trigger}
          with == {u \in s.trigger : u.routine # NoKey}
          runs == {Edge(<<"trigger_executes_routine">>, t.key, t.routine,
                        None, t.row, 0) : t \in with}
    <2>1. IsFiniteSet(s.trigger) /\ IsFiniteSet(with)
      BY FS_Subset DEF FiniteParts
    <2>2. IsFiniteSet(has)
      <3>1. PICK f : f = [t \in s.trigger |->
                            Edge(<<"has_trigger">>, t.owner, t.key, None,
                                 t.row, 0)]
        OBVIOUS
      <3>2. has = {f[t] : t \in s.trigger}
        BY <3>1
      <3> HIDE DEF has
      <3> QED
        BY <2>1, <3>2, FiniteValues
    <2>3. IsFiniteSet(on)
      <3>1. PICK f : f = [t \in s.trigger |->
                            Edge(<<"trigger_on">>, t.key, t.owner, None,
                                 t.row, 0)]
        OBVIOUS
      <3>2. on = {f[t] : t \in s.trigger}
        BY <3>1
      <3> HIDE DEF on
      <3> QED
        BY <2>1, <3>2, FiniteValues
    <2>4. IsFiniteSet(runs)
      <3>1. PICK f : f = [t \in with |->
                            Edge(<<"trigger_executes_routine">>, t.key,
                                 t.routine, None, t.row, 0)]
        OBVIOUS
      <3>2. runs = {f[t] : t \in with}
        BY <3>1
      <3> HIDE DEF runs
      <3> QED
        BY <2>1, <3>2, FiniteValues
    <2>5. TriggerEdges(s) = has \cup on \cup runs
      BY DEF TriggerEdges
    <2> HIDE DEF has, on, runs
    <2> QED
      BY <2>2, <2>3, <2>4, <2>5, FS_Union
  <1>8. IsFiniteSet(MetadataEdges(s))
    <2> DEFINE
          owned == {o \in s.metadata : o.owner # NoKey}
          links == {Edge(<<"metadata", r.kind>>, r.from, r.to, r.ordinal,
                         r.row, 0) : r \in s.relationship}
    <2>1. IsFiniteSet(owned)
      BY FS_Subset DEF FiniteParts
    <2>2. IsFiniteSet(OwnershipEdges(owned, "metadata_parent"))
      BY <1>1, <2>1
    <2>3. IsFiniteSet(links)
      <3>1. PICK f : f = [r \in s.relationship |->
                            Edge(<<"metadata", r.kind>>, r.from, r.to,
                                 r.ordinal, r.row, 0)]
        OBVIOUS
      <3>2. links = {f[r] : r \in s.relationship}
        BY <3>1
      <3> HIDE DEF links
      <3> QED
        BY <3>2, FiniteValues DEF FiniteParts
    <2>4. MetadataEdges(s) = OwnershipEdges(owned, "metadata_parent")
                                \cup links
      BY DEF MetadataEdges
    <2> HIDE DEF owned, links
    <2> QED
      BY <2>2, <2>3, <2>4, FS_Union
  <1>9. /\ IsFiniteSet(OwnershipEdges(s.schema, "database_has_schema"))
        /\ IsFiniteSet(OwnershipEdges(s.table, "schema_has_table"))
        /\ IsFiniteSet(OwnershipEdges(s.column, "table_has_column"))
        /\ IsFiniteSet(OwnershipEdges(s.view, "schema_has_view"))
        /\ IsFiniteSet(OwnershipEdges(s.routine, "schema_has_routine"))
    BY <1>1 DEF FiniteParts
  <1> DEFINE
        a1 == OwnershipEdges(s.schema, "database_has_schema")
                \cup OwnershipEdges(s.table, "schema_has_table")
                \cup OwnershipEdges(s.column, "table_has_column")
        a2 == a1 \cup insert_constraint_edges(s) \cup IndexEdges(s)
        a3 == a2 \cup OwnershipEdges(s.view, "schema_has_view")
                \cup DependencyEdges(s.view, "view")
        a4 == a3 \cup TriggerEdges(s)
                \cup OwnershipEdges(s.routine, "schema_has_routine")
        a5 == a4 \cup DependencyEdges(s.routine, "routine")
                \cup MetadataEdges(s)
  <1>10. GraphEdges(s) = a5
    BY DEF GraphEdges
  <1>11. IsFiniteSet(a1)
    BY <1>9, FS_Union
  <1> HIDE DEF a1
  <1>12. IsFiniteSet(a2)
    BY <1>3, <1>4, <1>11, FS_Union
  <1> HIDE DEF a2
  <1>13. IsFiniteSet(a3)
    BY <1>6, <1>9, <1>12, FS_Union
  <1> HIDE DEF a3
  <1>14. IsFiniteSet(a4)
    BY <1>7, <1>9, <1>13, FS_Union
  <1> HIDE DEF a4
  <1>15. IsFiniteSet(a5)
    BY <1>6, <1>8, <1>14, FS_Union
  <1> QED
    BY <1>10, <1>15

(* Every insert of the projection makes a row of its own.                  *)
EveryInsertIsNew(s) ==
    /\ Cardinality(NodeRows(s)) = Cardinality(AllObjects(s))
    /\ Cardinality(EdgeRows(s)) = Cardinality(GraphEdges(s))

NothingOverwritten ==
    Certified /\ IsSnapshot(snapshot) => EveryInsertIsNew(snapshot)

(* insert_node and insert_edge are upserts: an object or edge with the key *)
(* of another would take its place in the graph without an error.  The     *)
(* validators are strict enough that this never happens to a snapshot that *)
(* is certified, so each of its objects and edges is one row.              *)
THEOREM UpsertsNeverUpdate == PipelineSpec => []NothingOverwritten
  <1>1. PipelineIInv => NothingOverwritten
    <2> SUFFICES ASSUME PipelineIInv, Certified, IsSnapshot(snapshot)
                 PROVE  EveryInsertIsNew(snapshot)
      BY DEF NothingOverwritten
    <2> DEFINE E == GraphEdges(snapshot)
               T == EdgeRows(snapshot)
    <2>1. validate_canonical_schema_snapshot(snapshot)
      BY DEF PipelineIInv
    <2>2. UniqueKeys(AllObjects(snapshot))
      BY <2>1 DEF validate_canonical_schema_snapshot, ValidMetadataObjects
    <2>3. IsFiniteSet(E) /\ Distinct(E)
      BY <2>1, EdgesFinite, EdgesDistinct, SnapshotFinite
    <2>4. T = {EdgeKey(e) : e \in E}
      BY DEF EdgeRows
    <2> HIDE DEF E, T
    <2>5. PICK f : f = [e \in E |-> EdgeKey(e)]
      OBVIOUS
    <2>6. /\ f \in [E -> T] /\ T = {f[e] : e \in E}
          /\ \A e, g \in E : f[e] = f[g] => e = g
      BY <2>3, <2>4, <2>5 DEF Distinct
    <2>7. Cardinality(T) = Cardinality(E)
      BY <2>3, <2>6, SameSize
    <2> QED
      BY <2>2, <2>7 DEF EveryInsertIsNew, UniqueKeys, NodeRows, E, T
  <1> QED
    BY <1>1, PipelineInvariant, PTL

-----------------------------------------------------------------------------
(* As many rows as were counted.                                           *)

Counted(S, n) == IsFiniteSet(S) /\ Cardinality(S) = n

(* The places of a sum: n[k] of them in every part k.                      *)
Places(K, n) == UNION {{k} \X (1 .. n[k]) : k \in K}

(* The values of a one-to-one function.                                    *)
LEMMA CountedValues ==
    ASSUME NEW S, IsFiniteSet(S), NEW f, NEW T, T = {f[x] : x \in S},
           \A x, y \in S : f[x] = f[y] => x = y
    PROVE  Counted(T, Cardinality(S))
  <1>1. PICK g : g = [x \in S |-> f[x]]
    OBVIOUS
  <1>2. /\ g \in [S -> T] /\ T = {g[x] : x \in S}
        /\ \A x, y \in S : g[x] = g[y] => x = y
    BY <1>1
  <1>3. IsFiniteSet(T) /\ Cardinality(T) = Cardinality(S)
    BY <1>2, SameSize
  <1> QED
    BY <1>3 DEF Counted

(* A set in parts, each as large as its number: as large as their sum.     *)
LEMMA CountedParts ==
    ASSUME NEW K, IsFiniteSet(K), NEW A, NEW n,
           \A k \in K : n[k] \in Nat /\ Counted(A[k], n[k]),
           \A k, l \in K : k # l => A[k] \cap A[l] = {},
           NEW U, U = UNION {A[k] : k \in K}
    PROVE  Counted(U, Cardinality(Places(K, n)))
  <1> DEFINE Number(k) == Bijection(1 .. n[k], A[k])
             P == Places(K, n)
  <1>1. ASSUME NEW k \in K PROVE \E h : h \in Number(k)
    <2>1. ExistsBijection(1 .. Cardinality(A[k]), A[k])
      BY FS_CardinalityType DEF Counted
    <2> QED
      BY <2>1 DEF Counted, ExistsBijection
  <1>2. PICK g : g = [k \in K |-> CHOOSE h : h \in Number(k)]
    OBVIOUS
  <1>3. \A k \in K : g[k] \in Number(k)
    BY <1>1, <1>2
  <1>4. ASSUME NEW k \in K
        PROVE  /\ \A i \in 1 .. n[k] : g[k][i] \in A[k]
               /\ \A i, j \in 1 .. n[k] : g[k][i] = g[k][j] => i = j
               /\ \A x \in A[k] : \E i \in 1 .. n[k] : g[k][i] = x
    BY <1>3 DEF Bijection, Injection, Surjection, IsInjective
  <1>5. IsFiniteSet(P)
    <2>1. PICK f : f = [k \in K |-> {k} \X (1 .. n[k])]
      OBVIOUS
    <2>2. ASSUME NEW k \in K PROVE IsFiniteSet(f[k])
      <3>1. PICK m \in Nat : m = n[k]
        OBVIOUS
      <3>2. IsFiniteSet({k})
        BY FS_Singleton
      <3>3. IsFiniteSet(1 .. m)
        BY FS_Interval
      <3>4. IsFiniteSet({k} \X (1 .. m))
        BY <3>2, <3>3, FS_Product
      <3> QED
        BY <2>1, <3>1, <3>4
    <2>3. P = UNION {f[k] : k \in K}
      BY <2>1 DEF Places
    <2> HIDE DEF P
    <2> QED
      BY <2>2, <2>3, FiniteLots
  <1>6. PICK f : f = [p \in P |-> g[p[1]][p[2]]]
    OBVIOUS
  <1>7. \A p \in P : /\ p[1] \in K /\ p[2] \in 1 .. n[p[1]]
                     /\ p = <<p[1], p[2]>>
                     /\ f[p] = g[p[1]][p[2]]
    BY <1>6 DEF Places
  <1>8. \A k \in K : \A i \in 1 .. n[k] : <<k, i>> \in P
    BY DEF Places
  <1>9. U = {f[p] : p \in P}
    <2>1. ASSUME NEW p \in P PROVE f[p] \in U
      BY <1>4, <1>7
    <2>2. ASSUME NEW u \in U PROVE \E p \in P : u = f[p]
      <3>1. PICK k \in K : u \in A[k]
        OBVIOUS
      <3>2. PICK i \in 1 .. n[k] : g[k][i] = u
        BY <1>4, <3>1
      <3>3. <<k, i>> \in P
        BY <1>8
      <3>4. f[<<k, i>>] = u
        BY <1>6, <3>2, <3>3
      <3> QED
        BY <3>3, <3>4
    <2> HIDE DEF P
    <2> QED
      BY <2>1, <2>2
  <1>10. ASSUME NEW p \in P, NEW q \in P, f[p] = f[q]
         PROVE  p = q
    <2>1. /\ g[p[1]][p[2]] \in A[p[1]] /\ g[q[1]][q[2]] \in A[q[1]]
          /\ g[p[1]][p[2]] = g[q[1]][q[2]]
      BY <1>4, <1>7, <1>10
    <2>2. p[1] = q[1]
      BY <1>7, <2>1
    <2>3. p[2] = q[2]
      BY <1>4, <1>7, <2>1, <2>2
    <2> QED
      BY <1>7, <2>2, <2>3
  <1> HIDE DEF P
  <1> QED
    BY <1>5, <1>9, <1>10, CountedValues DEF P

(* Two parts.                                                              *)
LEMMA CountedTwo ==
    ASSUME NEW S, NEW T, NEW m \in Nat, NEW n \in Nat, Counted(S, m),
           Counted(T, n), S \cap T = {}
    PROVE  Counted(S \cup T, m + n)
  <1>1. IsFiniteSet(S \cup T)
        /\ Cardinality(S \cup T) = Cardinality(S) + Cardinality(T)
                                     - Cardinality(S \cap T)
    BY FS_Union DEF Counted
  <1>2. Cardinality(S \cap T) = 0
    BY FS_EmptySet
  <1> QED
    BY <1>1, <1>2 DEF Counted

(* What counted numbers add up to.                                         *)
LEMMA TotalPlaces ==
    ASSUME NEW counts
    PROVE  Total(counts) = Cardinality(Places(DOMAIN counts, counts))
  BY DEF Total, SumOver, Places

LEMMA FourFinite ==
    \A a, b, c, d : IsFiniteSet({a, b, c, d})
  <1> SUFFICES ASSUME NEW a, NEW b, NEW c, NEW d
               PROVE  IsFiniteSet({a, b, c, d})
    OBVIOUS
  <1>1. IsFiniteSet({a})
    BY FS_Singleton
  <1>2. IsFiniteSet({a} \cup {b})
    BY <1>1, FS_AddElement
  <1>3. IsFiniteSet({a} \cup {b} \cup {c})
    BY <1>2, FS_AddElement
  <1>4. IsFiniteSet({a} \cup {b} \cup {c} \cup {d})
    BY <1>3, FS_AddElement
  <1>5. {a, b, c, d} = {a} \cup {b} \cup {c} \cup {d}
    OBVIOUS
  <1> QED
    BY <1>4, <1>5

(* There are finitely many categories.                                     *)
LEMMA CategoriesFinite ==
    IsFiniteSet(ObjectCategory) /\ IsFiniteSet(RelationshipCategory)
  <1>1. IsFiniteSet(TypedKind)
    <2> DEFINE
          g1 == {"schema", "table", "column", "index"}
          g2 == {"view", "trigger", "routine", "routine"}
    <2>1. /\ IsFiniteSet(g1)
          /\ IsFiniteSet(g2)
      BY FourFinite
    <2>2. TypedKind = g1 \cup g2
      BY DEF TypedKind
    <2> HIDE DEF g1, g2
    <2>3. IsFiniteSet(g1 \cup g2)
      BY <2>1, FS_Union
    <2> QED
      BY <2>2, <2>3
  <1>2. IsFiniteSet(ConstraintKind)
    BY FourFinite DEF ConstraintKind
  <1>3. IsFiniteSet(MetadataKind)
    <2> DEFINE
          g1 == {"primary_key", "unique_constraint", "check_constraint",
                 "index"}
          g2 == {"routine", "materialized_view", "view_column", "sequence"}
          g3 == {"routine_parameter", "user_defined_type", "domain",
                 "enum_value"}
          g4 == {"synonym", "exclusion_constraint", "event", "package"}
          g5 == {"principal", "policy", "trigger", "extension"}
    <2>1. /\ IsFiniteSet(g1)
          /\ IsFiniteSet(g2)
          /\ IsFiniteSet(g3)
          /\ IsFiniteSet(g4)
          /\ IsFiniteSet(g5)
      BY FourFinite
    <2>2. MetadataKind = g1 \cup g2 \cup g3 \cup g4 \cup g5
      BY DEF MetadataKind
    <2> HIDE DEF g1, g2, g3, g4, g5
    <2>3. IsFiniteSet(g1 \cup g2)
      BY <2>1, FS_Union
    <2>4. IsFiniteSet(g1 \cup g2 \cup g3)
      BY <2>1, <2>3, FS_Union
    <2>5. IsFiniteSet(g1 \cup g2 \cup g3 \cup g4)
      BY <2>1, <2>4, FS_Union
    <2>6. IsFiniteSet(g1 \cup g2 \cup g3 \cup g4 \cup g5)
      BY <2>1, <2>5, FS_Union
    <2> QED
      BY <2>2, <2>6
  <1>4. IsFiniteSet({"database"})
    BY FS_Singleton
  <1>5. IsFiniteSet({"database"} \cup TypedKind)
    BY <1>1, <1>4, FS_Union
  <1>6. IsFiniteSet({"database"} \cup TypedKind \cup ConstraintKind)
    BY <1>2, <1>5, FS_Union
  <1>7. IsFiniteSet(ObjectCategory)
    BY <1>3, <1>6, FS_Union DEF ObjectCategory
  <1>8. IsFiniteSet(RelationshipCategory)
    <2> DEFINE
          g1 == {"database_has_schema", "schema_has_table", "table_has_column",
                 "table_has_constraint"}
          g2 == {"constraint_column", "foreign_key_column_pair",
                 "table_has_index", "index_column"}
          g3 == {"schema_has_view", "view_dependency", "trigger_target",
                 "trigger_routine"}
          g4 == {"schema_has_routine", "routine_dependency", "metadata_parent",
                 "metadata_relationship"}
    <2>1. /\ IsFiniteSet(g1)
          /\ IsFiniteSet(g2)
          /\ IsFiniteSet(g3)
          /\ IsFiniteSet(g4)
      BY FourFinite
    <2>2. RelationshipCategory = g1 \cup g2 \cup g3 \cup g4
      BY DEF RelationshipCategory
    <2> HIDE DEF g1, g2, g3, g4
    <2>3. IsFiniteSet(g1 \cup g2)
      BY <2>1, FS_Union
    <2>4. IsFiniteSet(g1 \cup g2 \cup g3)
      BY <2>1, <2>3, FS_Union
    <2>5. IsFiniteSet(g1 \cup g2 \cup g3 \cup g4)
      BY <2>1, <2>4, FS_Union
    <2> QED
      BY <2>2, <2>5
  <1> QED
    BY <1>7, <1>8

(* The elements of two collections are different even when their keys are  *)
(* not: they have other fields.                                            *)
LEMMA CollectionsApart ==
    ASSUME NEW s, IsSnapshot(s)
    PROVE  /\ s.index \cap s.metadata = {} /\ s.routine \cap s.metadata = {}
           /\ s.trigger \cap s.metadata = {}
           /\ s.constraint \cap s.metadata = {}
  <1>1. ASSUME NEW e \in s.metadata PROVE DOMAIN e = {"key", "owner", "row"}
    <2>1. e = Object(e.key, e.owner, e.row)
      BY Collections DEF IsSnapshot, IsElement
    <2> QED
      BY <2>1 DEF Object
  <1>2. ASSUME NEW e \in s.index PROVE "columns" \in DOMAIN e
    <2>1. e = Index(e.key, e.owner, e.columns, e.expression, e.row)
      BY Collections DEF IsSnapshot, IsElement
    <2> QED
      BY <2>1 DEF Index
  <1>3. ASSUME NEW e \in s.routine PROVE "depends_on" \in DOMAIN e
    <2>1. e = Dependent(e.key, e.owner, e.depends_on, e.row)
      BY Collections DEF IsSnapshot, IsElement
    <2> QED
      BY <2>1 DEF Dependent
  <1>4. ASSUME NEW e \in s.trigger PROVE "events" \in DOMAIN e
    <2>1. e = Trigger(e.key, e.owner, e.events, e.routine, e.row)
      BY Collections DEF IsSnapshot, IsElement
    <2> QED
      BY <2>1 DEF Trigger
  <1>5. ASSUME NEW e \in s.constraint PROVE "columns" \in DOMAIN e
    <2>1. e = Constraint(e.key, e.owner, e.columns, e.target, e.referenced,
                         e.expression, e.row)
      BY Collections DEF IsSnapshot, IsElement
    <2> QED
      BY <2>1 DEF Constraint
  <1> QED
    BY <1>1, <1>2, <1>3, <1>4, <1>5

(* There are as many objects as the counts of their kinds add up to.       *)
LEMMA NodesCounted ==
    ASSUME NEW s, IsSnapshot(s), validate_canonical_schema_snapshot(s)
    PROVE  Cardinality(AllObjects(s))
              = certified_graph_projection_counts(s).nodes
  <1> DEFINE counts == emitted_object_counts(s)
             Of(k) == {o \in AllObjects(s) : o.key.kind = k}
             Meta(k) == {o \in s.metadata : o.key.kind = k}
             Cons(k) == {o \in s.constraint : o.key.kind = k}
             database == Object(DatabaseKey, NoKey, <<"database">>)
  <1>1. FiniteParts(s)
    BY SnapshotFinite
  <1>2. /\ \A kind \in TypedKind : \A o \in s[kind] : o.key.kind = kind
        /\ \A o \in s.constraint : o.key.kind \in ConstraintKind
        /\ \A o \in s.metadata : o.key.kind \in MetadataKind
        /\ database.key.kind = "database"
    BY DEF validate_canonical_schema_snapshot, validate_schema_snapshot,
           ValidRegistry, ValidMetadataObjects, Object, DatabaseKey, Key
  <1>3. AllObjects(s) = {database} \cup (UNION {s[k] : k \in TypedKind})
                           \cup s.constraint \cup s.metadata
    BY DEF AllObjects, BaseObjects, TypedKind
  <1>4. \A k \in TypedKind : IsFiniteSet(s[k]) /\ s[k] \cap Meta(k) = {}
    BY <1>1, <1>2, CollectionsApart DEF FiniteParts, TypedKind, MetadataKind
  <1>5. \A k : /\ IsFiniteSet(Meta(k)) /\ IsFiniteSet(Cons(k))
               /\ Cons(k) \cap Meta(k) = {}
    <2> SUFFICES ASSUME NEW k
                 PROVE  /\ IsFiniteSet(Meta(k)) /\ IsFiniteSet(Cons(k))
                        /\ Cons(k) \cap Meta(k) = {}
      OBVIOUS
    <2>1. IsFiniteSet(s.metadata) /\ IsFiniteSet(s.constraint)
      BY <1>1 DEF FiniteParts
    <2>2. Meta(k) \in SUBSET s.metadata /\ Cons(k) \in SUBSET s.constraint
      OBVIOUS
    <2>3. Cons(k) \cap Meta(k) = {}
      BY CollectionsApart
    <2> HIDE DEF Meta, Cons
    <2> QED
      BY <2>1, <2>2, <2>3, FS_Subset
  <1>6. /\ {"database"} \cap (TypedKind \cup ConstraintKind \cup MetadataKind)
              = {}
        /\ TypedKind \cap ConstraintKind = {}
    BY DEF TypedKind, ConstraintKind, MetadataKind
  <1>7. ASSUME NEW k \in ObjectCategory
        PROVE  counts[k] \in Nat /\ Counted(Of(k), counts[k])
    <2>1. CASE k = "database"
      <3>1. Of(k) = {database} \cup {} /\ Meta(k) = {}
        BY <1>2, <1>3, <1>6, <2>1
      <3>2. Cardinality({database}) = 1 /\ IsFiniteSet({database})
        BY FS_Singleton
      <3>3. counts[k] = 1 + Cardinality(Meta(k))
        BY <1>6, <2>1 DEF emitted_object_counts
      <3>4. Cardinality(Meta(k)) = 0
        BY <3>1, FS_EmptySet
      <3> HIDE DEF Of, Meta, counts
      <3> QED
        BY <3>1, <3>2, <3>3, <3>4 DEF Counted
    <2>2. CASE k \in TypedKind
      <3>1. Of(k) = s[k] \cup Meta(k)
        BY <1>2, <1>3, <1>6, <2>2
      <3>2. counts[k] = Cardinality(s[k]) + Cardinality(Meta(k))
        BY <1>6, <2>2 DEF emitted_object_counts
      <3>3. s[k] \cap Meta(k) = {} /\ IsFiniteSet(s[k])
            /\ IsFiniteSet(Meta(k))
        BY <1>4, <1>5, <2>2
      <3> HIDE DEF Of, Meta, counts
      <3>4. Cardinality(s[k]) \in Nat /\ Cardinality(Meta(k)) \in Nat
        BY <3>3, FS_CardinalityType
      <3>5. PICK m \in Nat : m = Cardinality(s[k])
        BY <3>4
      <3>6. PICK n \in Nat : n = Cardinality(Meta(k))
        BY <3>4
      <3>7. Counted(s[k], m) /\ Counted(Meta(k), n)
        BY <3>3, <3>5, <3>6 DEF Counted
      <3>8. Counted(s[k] \cup Meta(k), m + n)
        BY <3>3, <3>7, CountedTwo
      <3> QED
        BY <3>1, <3>2, <3>5, <3>6, <3>8
    <2>3. CASE k \notin {"database"} \cup TypedKind
      <3>1. Of(k) = Cons(k) \cup Meta(k)
        BY <1>2, <1>3, <2>3
      <3>2. counts[k] = Cardinality(Cons(k)) + Cardinality(Meta(k))
        BY <2>3 DEF emitted_object_counts
      <3>3. Cons(k) \cap Meta(k) = {} /\ IsFiniteSet(Cons(k))
            /\ IsFiniteSet(Meta(k))
        BY <1>5
      <3> HIDE DEF Of, Meta, Cons, counts
      <3>4. Cardinality(Cons(k)) \in Nat /\ Cardinality(Meta(k)) \in Nat
        BY <3>3, FS_CardinalityType
      <3>5. PICK m \in Nat : m = Cardinality(Cons(k))
        BY <3>4
      <3>6. PICK n \in Nat : n = Cardinality(Meta(k))
        BY <3>4
      <3>7. Counted(Cons(k), m) /\ Counted(Meta(k), n)
        BY <3>3, <3>5, <3>6 DEF Counted
      <3>8. Counted(Cons(k) \cup Meta(k), m + n)
        BY <3>3, <3>7, CountedTwo
      <3> QED
        BY <3>1, <3>2, <3>5, <3>6, <3>8
    <2> QED
      BY <2>1, <2>2, <2>3
  <1>8. \A o \in AllObjects(s) : o.key.kind \in ObjectCategory
    BY <1>2, <1>3 DEF ObjectCategory
  <1>9. PICK A : A = [k \in ObjectCategory |-> Of(k)]
    OBVIOUS
  <1>10. AllObjects(s) = UNION {A[k] : k \in ObjectCategory}
    BY <1>8, <1>9
  <1>11. \A k, l \in ObjectCategory : k # l => A[k] \cap A[l] = {}
    BY <1>9
  <1>12. \A k \in ObjectCategory :
            counts[k] \in Nat /\ Counted(A[k], counts[k])
    BY <1>7, <1>9
  <1>13. DOMAIN counts = ObjectCategory
    BY DEF emitted_object_counts
  <1>14. certified_graph_projection_counts(s).nodes = Total(counts)
    BY DEF certified_graph_projection_counts
  <1> HIDE DEF counts
  <1>15. Counted(AllObjects(s), Cardinality(Places(ObjectCategory, counts)))
    BY <1>10, <1>11, <1>12, CategoriesFinite, CountedParts
  <1> QED
    BY <1>13, <1>14, <1>15, TotalPlaces DEF Counted

(* One row for every object of a collection.                               *)
LEMMA OwnershipCounted ==
    ASSUME NEW objects, NEW type, IsFiniteSet(objects),
           \A o, p \in objects : o.key = p.key => o = p
    PROVE  Counted(OwnershipEdges(objects, type), Cardinality(objects))
  <1>1. PICK f : f = [o \in objects |->
                        Edge(<<type>>, o.owner, o.key, None, o.row, 0)]
    OBVIOUS
  <1>2. OwnershipEdges(objects, type) = {f[o] : o \in objects}
    BY <1>1 DEF OwnershipEdges
  <1>3. \A o \in objects : f[o].to = o.key
    BY <1>1 DEF Edge
  <1>4. \A o, p \in objects : f[o] = f[p] => o = p
    BY <1>3
  <1> QED
    BY <1>2, <1>4, CountedValues

(* One row for every place in the lists or sets of some objects.           *)
Rows(owners, edge, at) == UNION {{edge[o][i] : i \in at[o]} : o \in owners}

Identified(owners, edge, at) ==
    \A o, p \in owners : \A i \in at[o] : \A j \in at[p] :
        edge[o][i] = edge[p][j] => o = p /\ i = j

LEMMA RowsCounted ==
    ASSUME NEW owners, IsFiniteSet(owners), NEW edge, NEW at, NEW n,
           \A o \in owners : Counted(at[o], n[o]),
           Identified(owners, edge, at)
    PROVE  Counted(Rows(owners, edge, at), Cardinality(Places(owners, n)))
  <1> DEFINE Of(o) == {edge[o][i] : i \in at[o]}
  <1>1. ASSUME NEW o \in owners PROVE n[o] \in Nat /\ Counted(Of(o), n[o])
    <2>1. \A i, j \in at[o] : edge[o][i] = edge[o][j] => i = j
      BY DEF Identified
    <2>2. PICK f : f = edge[o]
      OBVIOUS
    <2>3. Of(o) = {f[i] : i \in at[o]}
      BY <2>2
    <2>4. \A i, j \in at[o] : f[i] = f[j] => i = j
      BY <2>1, <2>2
    <2>5. IsFiniteSet(at[o]) /\ Cardinality(at[o]) = n[o]
      BY DEF Counted
    <2> HIDE DEF Of
    <2>6. Counted(Of(o), Cardinality(at[o]))
      BY <2>3, <2>4, <2>5, CountedValues
    <2>7. Cardinality(at[o]) \in Nat
      BY <2>5, FS_CardinalityType
    <2> QED
      BY <2>5, <2>6, <2>7
  <1>2. PICK A : A = [o \in owners |-> Of(o)]
    OBVIOUS
  <1>3. Rows(owners, edge, at) = UNION {A[o] : o \in owners}
    BY <1>2 DEF Rows
  <1>4. \A o, p \in owners : o # p => A[o] \cap A[p] = {}
    BY <1>2 DEF Identified
  <1>5. \A o \in owners : n[o] \in Nat /\ Counted(A[o], n[o])
    BY <1>1, <1>2
  <1> QED
    BY <1>3, <1>4, <1>5, CountedParts

(* The places of a list.                                                   *)
LEMMA ListPlaces ==
    ASSUME NEW q, IsList(q)
    PROVE  Counted(DOMAIN q, Len(q))
  <1>1. PICK n \in Nat : n = Len(q) /\ DOMAIN q = 1 .. n
    BY DEF IsList
  <1>2. IsFiniteSet(1 .. n) /\ Cardinality(1 .. n) = n
    BY FS_Interval
  <1> QED
    BY <1>1, <1>2 DEF Counted

(* The rows between columns and constraints or indexes, and how many       *)
(* columns these have.                                                     *)
Unique(objects) == \A o, p \in objects : o.key = p.key => o = p

InColumns(C) ==
    UNION {{Edge(<<"column_in", c.key.kind>>, c.columns[i], c.key, None,
                 c.row, i) : i \in DOMAIN c.columns} : c \in C}

ToColumns(C) ==
    UNION {{Edge(<<"fk_to_column">>, c.key, c.referenced[i], None, c.row, i) :
              i \in DOMAIN c.referenced} : c \in C}

IndexColumns(X) ==
    UNION {{Edge(<<"column_in_index">>, x.columns[i], x.key, None, x.row, i) :
              i \in DOMAIN x.columns} : x \in X}

Columns(C) == Cardinality(UNION {{c} \X (1 .. Len(c.columns)) : c \in C})

Dependencies(V) ==
    Cardinality(UNION {{v} \X (1 .. Cardinality(v.depends_on)) : v \in V})

LEMMA InColumnsCounted ==
    ASSUME NEW C, IsFiniteSet(C), Unique(C), \A c \in C : IsList(c.columns)
    PROVE  Counted(InColumns(C), Columns(C))
  <1>1. PICK edge : edge = [c \in C |-> [i \in DOMAIN c.columns |->
           Edge(<<"column_in", c.key.kind>>, c.columns[i], c.key, None,
                c.row, i)]]
    OBVIOUS
  <1>2. PICK at : at = [c \in C |-> DOMAIN c.columns]
    OBVIOUS
  <1>3. PICK n : n = [c \in C |-> Len(c.columns)]
    OBVIOUS
  <1>4. InColumns(C) = Rows(C, edge, at)
    <2>1. ASSUME NEW e \in InColumns(C) PROVE e \in Rows(C, edge, at)
      <3>1. PICK c \in C : \E i \in DOMAIN c.columns :
                e = Edge(<<"column_in", c.key.kind>>, c.columns[i],
                         c.key, None, c.row, i)
        BY DEF InColumns
      <3>2. PICK i \in DOMAIN c.columns :
                e = Edge(<<"column_in", c.key.kind>>, c.columns[i],
                         c.key, None, c.row, i)
        BY <3>1
      <3>3. i \in at[c] /\ e = edge[c][i]
        BY <1>1, <1>2, <3>2
      <3> QED
        BY <3>3 DEF Rows
    <2>2. ASSUME NEW e \in Rows(C, edge, at) PROVE e \in InColumns(C)
      <3>1. PICK c \in C : \E i \in at[c] : e = edge[c][i]
        BY DEF Rows
      <3>2. PICK i \in DOMAIN c.columns :
                e = Edge(<<"column_in", c.key.kind>>, c.columns[i],
                         c.key, None, c.row, i)
        BY <1>1, <1>2, <3>1
      <3>3. e \in {Edge(<<"column_in", c.key.kind>>, c.columns[j], c.key,
                        None, c.row, j) : j \in DOMAIN c.columns}
        BY <3>2
      <3> QED
        BY <3>3 DEF InColumns
    <2> QED
      BY <2>1, <2>2
  <1>5. Columns(C) = Cardinality(Places(C, n))
    BY <1>3 DEF Columns, Places
  <1>6. \A c \in C : \A i \in at[c] : edge[c][i].to = c.key
                                      /\ edge[c][i].pos = i
    BY <1>1, <1>2 DEF Edge
  <1>7. Identified(C, edge, at)
    BY <1>6 DEF Identified, Unique
  <1>8. \A c \in C : Counted(at[c], n[c])
    BY <1>2, <1>3, ListPlaces
  <1> QED
    BY <1>4, <1>5, <1>7, <1>8, RowsCounted

LEMMA ToColumnsCounted ==
    ASSUME NEW C, IsFiniteSet(C), Unique(C),
           \A c \in C : IsList(c.referenced)
                        /\ Len(c.columns) = Len(c.referenced)
    PROVE  Counted(ToColumns(C), Columns(C))
  <1>1. PICK edge : edge = [c \in C |-> [i \in DOMAIN c.referenced |->
           Edge(<<"fk_to_column">>, c.key, c.referenced[i], None, c.row, i)]]
    OBVIOUS
  <1>2. PICK at : at = [c \in C |-> DOMAIN c.referenced]
    OBVIOUS
  <1>3. PICK n : n = [c \in C |-> Len(c.columns)]
    OBVIOUS
  <1>4. ToColumns(C) = Rows(C, edge, at)
    BY <1>1, <1>2 DEF ToColumns, Rows
  <1>5. Columns(C) = Cardinality(Places(C, n))
    BY <1>3 DEF Columns, Places
  <1>6. \A c \in C : \A i \in at[c] : edge[c][i].from = c.key
                                      /\ edge[c][i].pos = i
    BY <1>1, <1>2 DEF Edge
  <1>7. Identified(C, edge, at)
    BY <1>6 DEF Identified, Unique
  <1>8. ASSUME NEW c \in C PROVE Counted(at[c], n[c])
    <2>1. Counted(DOMAIN c.referenced, Len(c.referenced))
      BY ListPlaces
    <2> QED
      BY <1>2, <1>3, <2>1
  <1> QED
    BY <1>4, <1>5, <1>7, <1>8, RowsCounted

LEMMA IndexColumnsCounted ==
    ASSUME NEW X, IsFiniteSet(X), Unique(X), \A x \in X : IsList(x.columns)
    PROVE  Counted(IndexColumns(X), Columns(X))
  <1>1. PICK edge : edge = [x \in X |-> [i \in DOMAIN x.columns |->
           Edge(<<"column_in_index">>, x.columns[i], x.key, None, x.row, i)]]
    OBVIOUS
  <1>2. PICK at : at = [x \in X |-> DOMAIN x.columns]
    OBVIOUS
  <1>3. PICK n : n = [x \in X |-> Len(x.columns)]
    OBVIOUS
  <1>4. IndexColumns(X) = Rows(X, edge, at)
    <2>1. ASSUME NEW e \in IndexColumns(X) PROVE e \in Rows(X, edge, at)
      <3>1. PICK x \in X : \E i \in DOMAIN x.columns :
                e = Edge(<<"column_in_index">>, x.columns[i], x.key, None,
                         x.row, i)
        BY DEF IndexColumns
      <3>2. PICK i \in DOMAIN x.columns :
                e = Edge(<<"column_in_index">>, x.columns[i], x.key, None,
                         x.row, i)
        BY <3>1
      <3>3. i \in at[x] /\ e = edge[x][i]
        BY <1>1, <1>2, <3>2
      <3> QED
        BY <3>3 DEF Rows
    <2>2. ASSUME NEW e \in Rows(X, edge, at) PROVE e \in IndexColumns(X)
      <3>1. PICK x \in X : \E i \in at[x] : e = edge[x][i]
        BY DEF Rows
      <3>2. PICK i \in DOMAIN x.columns :
                e = Edge(<<"column_in_index">>, x.columns[i], x.key, None,
                         x.row, i)
        BY <1>1, <1>2, <3>1
      <3> QED
        BY <3>2 DEF IndexColumns
    <2> QED
      BY <2>1, <2>2
  <1>5. Columns(X) = Cardinality(Places(X, n))
    BY <1>3 DEF Columns, Places
  <1>6. \A x \in X : \A i \in at[x] : edge[x][i].to = x.key
                                      /\ edge[x][i].pos = i
    BY <1>1, <1>2 DEF Edge
  <1>7. Identified(X, edge, at)
    BY <1>6 DEF Identified, Unique
  <1>8. \A x \in X : Counted(at[x], n[x])
    BY <1>2, <1>3, ListPlaces
  <1> QED
    BY <1>4, <1>5, <1>7, <1>8, RowsCounted

(* When every dependency has an edge type there is a row for each.         *)
LEMMA DependenciesCounted ==
    ASSUME NEW V, NEW kind, IsFiniteSet(V), Unique(V),
           \A v \in V : IsFiniteSet(v.depends_on),
           \A v \in V : \A d \in v.depends_on : d.kind \in Projected(kind)
    PROVE  Counted(DependencyEdges(V, kind), Dependencies(V))
  <1>1. PICK edge : edge = [v \in V |-> [d \in v.depends_on |->
           Edge(<<kind, "depends_on", d.kind>>, v.key, d, None, v.row, 0)]]
    OBVIOUS
  <1>2. PICK at : at = [v \in V |-> v.depends_on]
    OBVIOUS
  <1>3. PICK n : n = [v \in V |-> Cardinality(v.depends_on)]
    OBVIOUS
  <1>4. DependencyEdges(V, kind) = Rows(V, edge, at)
    <2>1. \A v \in V :
             {d \in v.depends_on : d.kind \in Projected(kind)} = v.depends_on
      OBVIOUS
    <2>2. ASSUME NEW e \in DependencyEdges(V, kind)
          PROVE  e \in Rows(V, edge, at)
      <3>1. PICK v \in V : \E d \in v.depends_on :
               e = Edge(<<kind, "depends_on", d.kind>>, v.key, d, None,
                        v.row, 0)
        BY DEF DependencyEdges
      <3>2. PICK d \in v.depends_on :
               e = Edge(<<kind, "depends_on", d.kind>>, v.key, d, None,
                        v.row, 0)
        BY <3>1
      <3>3. d \in at[v] /\ e = edge[v][d]
        BY <1>1, <1>2, <3>2
      <3> QED
        BY <3>3 DEF Rows
    <2>3. ASSUME NEW e \in Rows(V, edge, at)
          PROVE  e \in DependencyEdges(V, kind)
      <3>1. PICK v \in V : \E d \in at[v] : e = edge[v][d]
        BY DEF Rows
      <3>2. PICK d \in v.depends_on :
               e = Edge(<<kind, "depends_on", d.kind>>, v.key, d, None,
                        v.row, 0)
        BY <1>1, <1>2, <3>1
      <3>3. d \in {c \in v.depends_on : c.kind \in Projected(kind)}
        BY <2>1
      <3> QED
        BY <3>2, <3>3 DEF DependencyEdges
    <2> QED
      BY <2>2, <2>3
  <1>5. Dependencies(V) = Cardinality(Places(V, n))
    BY <1>3 DEF Dependencies, Places
  <1>6. \A v \in V : \A d \in at[v] : edge[v][d].from = v.key
                                      /\ edge[v][d].to = d
    BY <1>1, <1>2 DEF Edge
  <1>7. Identified(V, edge, at)
    BY <1>6 DEF Identified, Unique
  <1>8. \A v \in V : Counted(at[v], n[v])
    BY <1>2, <1>3 DEF Counted
  <1> QED
    BY <1>4, <1>5, <1>7, <1>8, RowsCounted

(* The rows of triggers and of relationships between metadata objects.     *)
TriggerOn(S) == {Edge(<<"trigger_on">>, t.key, t.owner, None, t.row, 0) :
                    t \in S}
TriggerExecutes(S) ==
    {Edge(<<"trigger_executes_routine">>, t.key, t.routine, None, t.row, 0) :
        t \in S}
Links(R) ==
    {Edge(<<"metadata", r.kind>>, r.from, r.to, r.ordinal, r.row, 0) : r \in R}

LEMMA TriggersCounted ==
    ASSUME NEW S, IsFiniteSet(S), Unique(S)
    PROVE  /\ Counted(TriggerOn(S), Cardinality(S))
           /\ Counted(TriggerExecutes(S), Cardinality(S))
  <1>1. Counted(TriggerOn(S), Cardinality(S))
    <2>1. PICK f : f = [t \in S |-> Edge(<<"trigger_on">>, t.key, t.owner,
                                         None, t.row, 0)]
      OBVIOUS
    <2>2. TriggerOn(S) = {f[t] : t \in S} /\ \A t \in S : f[t].from = t.key
      BY <2>1 DEF TriggerOn, Edge
    <2>3. \A t, u \in S : f[t] = f[u] => t = u
      BY <2>2 DEF Unique
    <2> QED
      BY <2>2, <2>3, CountedValues
  <1>2. Counted(TriggerExecutes(S), Cardinality(S))
    <2>1. PICK f : f = [t \in S |-> Edge(<<"trigger_executes_routine">>,
                                         t.key, t.routine, None, t.row, 0)]
      OBVIOUS
    <2>2. TriggerExecutes(S) = {f[t] : t \in S}
          /\ \A t \in S : f[t].from = t.key
      BY <2>1 DEF TriggerExecutes, Edge
    <2>3. \A t, u \in S : f[t] = f[u] => t = u
      BY <2>2 DEF Unique
    <2> QED
      BY <2>2, <2>3, CountedValues
  <1> QED
    BY <1>1, <1>2

LEMMA LinksCounted ==
    ASSUME NEW R, IsFiniteSet(R),
           \A r \in R :
              r = Relationship(r.kind, r.from, r.to, r.ordinal, r.row)
    PROVE  Counted(Links(R), Cardinality(R))
  <1>1. PICK f : f = [r \in R |-> Edge(<<"metadata", r.kind>>, r.from, r.to,
                                       r.ordinal, r.row, 0)]
    OBVIOUS
  <1>2. Links(R) = {f[r] : r \in R}
    BY <1>1 DEF Links
  <1>3. ASSUME NEW r \in R, NEW q \in R, f[r] = f[q] PROVE r = q
    <2>1. /\ f[r].type = <<"metadata", r.kind>>
          /\ f[q].type = <<"metadata", q.kind>>
      BY <1>1 DEF Edge
    <2>2. r.kind = q.kind
      BY <1>3, <2>1
    <2>3. /\ r.from = q.from /\ r.to = q.to /\ r.ordinal = q.ordinal
          /\ r.row = q.row
      BY <1>1, <1>3 DEF Edge
    <2> QED
      BY <2>2, <2>3
  <1> QED
    BY <1>2, <1>3, CountedValues

(* The rows of the graph by the category they are counted in.  Only the    *)
(* rows to referenced columns and from triggers to what they are on are in *)
(* no category of their own.                                               *)
ForeignKeys(s) == {d \in s.constraint : d.key.kind = "foreign_key"}

EdgesOf(s, k) ==
    CASE k = "database_has_schema" ->
            OwnershipEdges(s.schema, "database_has_schema")
      [] k = "schema_has_table" ->
            OwnershipEdges(s.table, "schema_has_table")
      [] k = "table_has_column" ->
            OwnershipEdges(s.column, "table_has_column")
      [] k = "table_has_constraint" ->
            OwnershipEdges(s.constraint, "table_has_constraint")
      [] k = "constraint_column" ->
            InColumns(s.constraint \ ForeignKeys(s))
      [] k = "foreign_key_column_pair" ->
            InColumns(ForeignKeys(s))
      [] k = "table_has_index" ->
            OwnershipEdges(s.index, "table_has_index")
      [] k = "index_column" ->
            IndexColumns(s.index)
      [] k = "schema_has_view" ->
            OwnershipEdges(s.view, "schema_has_view")
      [] k = "view_dependency" ->
            DependencyEdges(s.view, "view")
      [] k = "trigger_target" ->
            OwnershipEdges(s.trigger, "has_trigger")
      [] k = "trigger_routine" ->
            TriggerExecutes({t \in s.trigger : t.routine # NoKey})
      [] k = "schema_has_routine" ->
            OwnershipEdges(s.routine, "schema_has_routine")
      [] k = "routine_dependency" ->
            DependencyEdges(s.routine, "routine")
      [] k = "metadata_parent" ->
            OwnershipEdges({o \in s.metadata : o.owner # NoKey},
                           "metadata_parent")
      [] k = "metadata_relationship" ->
            Links(s.relationship)

CategoryOf(e) ==
    CASE e.type[1] = "column_in" /\ e.type[2] = "foreign_key" ->
            "foreign_key_column_pair"
      [] e.type[1] = "column_in" /\ e.type[2] # "foreign_key" ->
            "constraint_column"
      [] e.type[1] = "column_in_index" -> "index_column"
      [] e.type[1] = "view" -> "view_dependency"
      [] e.type[1] = "routine" -> "routine_dependency"
      [] e.type[1] = "has_trigger" -> "trigger_target"
      [] e.type[1] = "trigger_executes_routine" -> "trigger_routine"
      [] e.type[1] = "metadata" -> "metadata_relationship"
      [] OTHER -> e.type[1]

(* The rows of one kind have one category.                                 *)
OfCategory(E, k) == \A e \in E : CategoryOf(e) = k

LEMMA OwnershipCategory ==
    ASSUME NEW objects, NEW type,
           type \notin {"column_in", "column_in_index", "view", "routine",
                        "has_trigger", "trigger_executes_routine", "metadata"}
    PROVE  OfCategory(OwnershipEdges(objects, type), type)
  <1> SUFFICES ASSUME NEW e \in OwnershipEdges(objects, type)
               PROVE  CategoryOf(e) = type
    BY DEF OfCategory
  <1>1. e.type = <<type>>
    BY DEF OwnershipEdges, Edge
  <1>2. e.type[1] = type
    BY <1>1
  <1> QED
    BY <1>2 DEF CategoryOf

LEMMA ColumnCategories ==
    ASSUME NEW s
    PROVE  /\ OfCategory(InColumns(s.constraint \ ForeignKeys(s)),
                         "constraint_column")
           /\ OfCategory(InColumns(ForeignKeys(s)), "foreign_key_column_pair")
           /\ OfCategory(ToColumns(ForeignKeys(s)), "fk_to_column")
           /\ OfCategory(IndexColumns(s.index), "index_column")
  <1>1. ASSUME NEW C, NEW e \in InColumns(C)
        PROVE  \E c \in C : e.type[1] = "column_in" /\ e.type[2] = c.key.kind
    <2>1. PICK c \in C : e.type = <<"column_in", c.key.kind>>
      BY DEF InColumns, Edge
    <2> QED
      BY <2>1
  <1>2. OfCategory(InColumns(s.constraint \ ForeignKeys(s)),
                   "constraint_column")
    BY <1>1 DEF OfCategory, CategoryOf, ForeignKeys
  <1>3. OfCategory(InColumns(ForeignKeys(s)), "foreign_key_column_pair")
    BY <1>1 DEF OfCategory, CategoryOf, ForeignKeys
  <1>4. ASSUME NEW e \in ToColumns(ForeignKeys(s))
        PROVE  e.type[1] = "fk_to_column"
    BY DEF ToColumns, Edge
  <1>5. ASSUME NEW e \in IndexColumns(s.index)
        PROVE  e.type[1] = "column_in_index"
    BY DEF IndexColumns, Edge
  <1>6. OfCategory(ToColumns(ForeignKeys(s)), "fk_to_column")
    BY <1>4 DEF OfCategory, CategoryOf
  <1>7. OfCategory(IndexColumns(s.index), "index_column")
    BY <1>5 DEF OfCategory, CategoryOf
  <1> QED
    BY <1>2, <1>3, <1>6, <1>7

LEMMA OtherCategories ==
    ASSUME NEW s
    PROVE  /\ OfCategory(DependencyEdges(s.view, "view"), "view_dependency")
           /\ OfCategory(DependencyEdges(s.routine, "routine"),
                         "routine_dependency")
           /\ OfCategory(OwnershipEdges(s.trigger, "has_trigger"),
                         "trigger_target")
           /\ \A S : OfCategory(TriggerExecutes(S), "trigger_routine")
           /\ OfCategory(TriggerOn(s.trigger), "trigger_on")
           /\ OfCategory(Links(s.relationship), "metadata_relationship")
  <1>1. ASSUME NEW V, NEW kind, NEW e \in DependencyEdges(V, kind)
        PROVE  e.type[1] = kind
    <2>1. PICK v \in V : \E d \in v.depends_on :
             e.type = <<kind, "depends_on", d.kind>>
      BY DEF DependencyEdges, Edge
    <2>2. PICK d : e.type = <<kind, "depends_on", d.kind>>
      BY <2>1
    <2> QED
      BY <2>2
  <1>2. ASSUME NEW e \in OwnershipEdges(s.trigger, "has_trigger")
        PROVE  e.type[1] = "has_trigger"
    BY DEF OwnershipEdges, Edge
  <1>3. ASSUME NEW S, NEW e \in TriggerExecutes(S)
        PROVE  e.type[1] = "trigger_executes_routine"
    BY DEF TriggerExecutes, Edge
  <1>4. ASSUME NEW e \in TriggerOn(s.trigger) PROVE e.type[1] = "trigger_on"
    BY DEF TriggerOn, Edge
  <1>5. ASSUME NEW e \in Links(s.relationship) PROVE e.type[1] = "metadata"
    <2>1. PICK r \in s.relationship : e.type = <<"metadata", r.kind>>
      BY DEF Links, Edge
    <2> QED
      BY <2>1
  <1>6. /\ OfCategory(DependencyEdges(s.view, "view"), "view_dependency")
        /\ OfCategory(DependencyEdges(s.routine, "routine"),
                      "routine_dependency")
    BY <1>1 DEF OfCategory, CategoryOf
  <1>7. OfCategory(OwnershipEdges(s.trigger, "has_trigger"), "trigger_target")
    BY <1>2 DEF OfCategory, CategoryOf
  <1>8. \A S : OfCategory(TriggerExecutes(S), "trigger_routine")
    BY <1>3 DEF OfCategory, CategoryOf
  <1>9. OfCategory(TriggerOn(s.trigger), "trigger_on")
    BY <1>4 DEF OfCategory, CategoryOf
  <1>10. OfCategory(Links(s.relationship), "metadata_relationship")
    BY <1>5 DEF OfCategory, CategoryOf
  <1> QED
    BY <1>6, <1>7, <1>8, <1>9, <1>10

(* The rows of two sets of constraints.                                    *)
LEMMA InColumnsUnion ==
    ASSUME NEW C, NEW D
    PROVE  InColumns(C \cup D) = InColumns(C) \cup InColumns(D)
  <1> DEFINE Of(c) == {Edge(<<"column_in", c.key.kind>>, c.columns[i], c.key,
                            None, c.row, i) : i \in DOMAIN c.columns}
  <1>1. \A S : InColumns(S) = UNION {Of(c) : c \in S}
    BY DEF InColumns
  <1> HIDE DEF Of
  <1> QED
    BY <1>1

(* The graph is made of these rows.                                        *)
LEMMA GraphInParts ==
    ASSUME NEW s
    PROVE  GraphEdges(s) = (UNION {EdgesOf(s, k) : k \in RelationshipCategory})
                              \cup ToColumns(ForeignKeys(s))
                              \cup TriggerOn(s.trigger)
  <1> DEFINE C == s.constraint
             F == ForeignKeys(s)
             executing == {t \in s.trigger : t.routine # NoKey}
             owned == {o \in s.metadata : o.owner # NoKey}
  <1>1. InColumns(C) = InColumns(C \ F) \cup InColumns(F)
    <2>1. C = (C \ F) \cup F
      BY DEF ForeignKeys
    <2> QED
      BY <2>1, InColumnsUnion
  <1>2. insert_constraint_edges(s)
           = OwnershipEdges(C, "table_has_constraint") \cup InColumns(C)
                \cup ToColumns(F)
    BY DEF insert_constraint_edges, InColumns, ToColumns, ForeignKeys
  <1>3. IndexEdges(s) = OwnershipEdges(s.index, "table_has_index")
                           \cup IndexColumns(s.index)
    BY DEF IndexEdges, IndexColumns
  <1>4. TriggerEdges(s) = OwnershipEdges(s.trigger, "has_trigger")
                             \cup TriggerOn(s.trigger)
                             \cup TriggerExecutes(executing)
    BY DEF TriggerEdges, OwnershipEdges, TriggerOn, TriggerExecutes
  <1>5. MetadataEdges(s) = OwnershipEdges(owned, "metadata_parent")
                              \cup Links(s.relationship)
    BY DEF MetadataEdges, Links
  <1>6. PICK B : B = [k \in RelationshipCategory |-> EdgesOf(s, k)]
    OBVIOUS
  <1>7. /\ B["database_has_schema"]
              = OwnershipEdges(s.schema, "database_has_schema")
        /\ B["schema_has_table"] = OwnershipEdges(s.table, "schema_has_table")
        /\ B["table_has_column"] = OwnershipEdges(s.column, "table_has_column")
        /\ B["table_has_constraint"]
              = OwnershipEdges(s.constraint, "table_has_constraint")
        /\ B["constraint_column"] = InColumns(C \ F)
        /\ B["foreign_key_column_pair"] = InColumns(F)
        /\ B["table_has_index"] = OwnershipEdges(s.index, "table_has_index")
        /\ B["index_column"] = IndexColumns(s.index)
        /\ B["schema_has_view"] = OwnershipEdges(s.view, "schema_has_view")
        /\ B["view_dependency"] = DependencyEdges(s.view, "view")
        /\ B["trigger_target"] = OwnershipEdges(s.trigger, "has_trigger")
        /\ B["trigger_routine"] = TriggerExecutes(executing)
        /\ B["schema_has_routine"]
              = OwnershipEdges(s.routine, "schema_has_routine")
        /\ B["routine_dependency"] = DependencyEdges(s.routine, "routine")
        /\ B["metadata_parent"] = OwnershipEdges(owned, "metadata_parent")
        /\ B["metadata_relationship"] = Links(s.relationship)
    BY <1>6 DEF RelationshipCategory, EdgesOf
  <1>8. UNION {B[k] : k \in RelationshipCategory}
           = B["database_has_schema"] \cup B["schema_has_table"]
               \cup B["table_has_column"] \cup B["table_has_constraint"]
               \cup B["constraint_column"] \cup B["foreign_key_column_pair"]
               \cup B["table_has_index"] \cup B["index_column"]
               \cup B["schema_has_view"] \cup B["view_dependency"]
               \cup B["trigger_target"] \cup B["trigger_routine"]
               \cup B["schema_has_routine"] \cup B["routine_dependency"]
               \cup B["metadata_parent"] \cup B["metadata_relationship"]
    BY DEF RelationshipCategory
  <1>9. UNION {B[k] : k \in RelationshipCategory}
           = UNION {EdgesOf(s, k) : k \in RelationshipCategory}
    BY <1>6
  <1> HIDE DEF C, F, executing, owned
  <1>10. GraphEdges(s)
            = B["database_has_schema"] \cup B["schema_has_table"]
                \cup B["table_has_column"]
                \cup (B["table_has_constraint"]
                         \cup (B["constraint_column"]
                                  \cup B["foreign_key_column_pair"])
                         \cup ToColumns(F))
                \cup (B["table_has_index"] \cup B["index_column"])
                \cup B["schema_has_view"] \cup B["view_dependency"]
                \cup (B["trigger_target"] \cup TriggerOn(s.trigger)
                         \cup B["trigger_routine"])
                \cup B["schema_has_routine"] \cup B["routine_dependency"]
                \cup (B["metadata_parent"] \cup B["metadata_relationship"])
    <2>1. insert_constraint_edges(s)
             = B["table_has_constraint"]
                  \cup (B["constraint_column"]
                           \cup B["foreign_key_column_pair"])
                  \cup ToColumns(F)
      <3>1. /\ B["table_has_constraint"]
                  = OwnershipEdges(C, "table_has_constraint")
            /\ B["constraint_column"] = InColumns(C \ F)
            /\ B["foreign_key_column_pair"] = InColumns(F)
        BY <1>7 DEF C
      <3>2. InColumns(C) = B["constraint_column"]
                              \cup B["foreign_key_column_pair"]
        BY <1>1, <3>1
      <3> QED
        BY <1>2, <3>1, <3>2
    <2>2. IndexEdges(s) = B["table_has_index"] \cup B["index_column"]
      BY <1>3, <1>7
    <2>3. TriggerEdges(s) = B["trigger_target"] \cup TriggerOn(s.trigger)
                               \cup B["trigger_routine"]
      BY <1>4, <1>7
    <2>4. MetadataEdges(s) = B["metadata_parent"]
                                \cup B["metadata_relationship"]
      BY <1>5, <1>7
    <2>5. /\ B["database_has_schema"]
                = OwnershipEdges(s.schema, "database_has_schema")
          /\ B["schema_has_table"]
                = OwnershipEdges(s.table, "schema_has_table")
          /\ B["table_has_column"]
                = OwnershipEdges(s.column, "table_has_column")
          /\ B["schema_has_view"]
                = OwnershipEdges(s.view, "schema_has_view")
          /\ B["view_dependency"] = DependencyEdges(s.view, "view")
          /\ B["schema_has_routine"]
                = OwnershipEdges(s.routine, "schema_has_routine")
          /\ B["routine_dependency"] = DependencyEdges(s.routine, "routine")
      BY <1>7
    <2> QED
      BY <2>1, <2>2, <2>3, <2>4, <2>5 DEF GraphEdges
  <1> HIDE DEF F
  <1>11. GraphEdges(s) = (UNION {B[k] : k \in RelationshipCategory})
                            \cup ToColumns(F) \cup TriggerOn(s.trigger)
    BY <1>8, <1>10
  <1> QED
    BY <1>9, <1>11 DEF F

(* Every part has the number of rows that was counted for it.              *)
AllProjected(s) ==
    /\ \A v \in s.view : \A d \in v.depends_on : d.kind \in Projected("view")
    /\ \A v \in s.routine : \A d \in v.depends_on :
          d.kind \in Projected("routine")

LEMMA PartsCounted ==
    ASSUME NEW s, IsSnapshot(s), validate_canonical_schema_snapshot(s),
           AllProjected(s), NEW k \in RelationshipCategory
    PROVE  Counted(EdgesOf(s, k), emitted_relationship_counts(s)[k])
  <1> DEFINE C == s.constraint
             F == ForeignKeys(s)
             executing == {t \in s.trigger : t.routine # NoKey}
             owned == {o \in s.metadata : o.owner # NoKey}
             counts == emitted_relationship_counts(s)
  <1>1. FiniteParts(s)
    BY SnapshotFinite
  <1>2. Unique(AllObjects(s))
    <2>1. UniqueKeys(AllObjects(s))
      BY DEF validate_canonical_schema_snapshot, ValidMetadataObjects
    <2>2. IsFiniteSet(AllObjects(s))
      BY <1>1, ObjectsFinite
    <2> QED
      BY <2>1, <2>2, KeysIdentify DEF Unique
  <1>3. /\ Unique(s.schema) /\ Unique(s.table) /\ Unique(s.column)
        /\ Unique(C) /\ Unique(C \ F) /\ Unique(F) /\ Unique(s.index)
        /\ Unique(s.view) /\ Unique(s.trigger) /\ Unique(executing)
        /\ Unique(s.routine) /\ Unique(owned)
    BY <1>2 DEF Unique, AllObjects, BaseObjects, ForeignKeys
  <1>4. /\ IsFiniteSet(s.schema) /\ IsFiniteSet(s.table)
        /\ IsFiniteSet(s.column) /\ IsFiniteSet(C) /\ IsFiniteSet(s.index)
        /\ IsFiniteSet(s.view) /\ IsFiniteSet(s.trigger)
        /\ IsFiniteSet(s.routine) /\ IsFiniteSet(s.metadata)
        /\ IsFiniteSet(s.relationship)
    BY <1>1 DEF FiniteParts
  <1>5. /\ F \in SUBSET C /\ C \ F \in SUBSET C
        /\ executing \in SUBSET s.trigger /\ owned \in SUBSET s.metadata
    BY DEF ForeignKeys
  <1> HIDE DEF C, F, executing, owned, counts
  <1>6. /\ IsFiniteSet(F) /\ IsFiniteSet(C \ F) /\ IsFiniteSet(executing)
        /\ IsFiniteSet(owned)
    BY <1>4, <1>5, FS_Subset

  <1>7. /\ Counted(OwnershipEdges(s.schema, "database_has_schema"),
                   Cardinality(s.schema))
        /\ Counted(OwnershipEdges(s.table, "schema_has_table"),
                   Cardinality(s.table))
        /\ Counted(OwnershipEdges(s.column, "table_has_column"),
                   Cardinality(s.column))
        /\ Counted(OwnershipEdges(C, "table_has_constraint"), Cardinality(C))
        /\ Counted(OwnershipEdges(s.index, "table_has_index"),
                   Cardinality(s.index))
        /\ Counted(OwnershipEdges(s.view, "schema_has_view"),
                   Cardinality(s.view))
        /\ Counted(OwnershipEdges(s.trigger, "has_trigger"),
                   Cardinality(s.trigger))
        /\ Counted(OwnershipEdges(s.routine, "schema_has_routine"),
                   Cardinality(s.routine))
        /\ Counted(OwnershipEdges(owned, "metadata_parent"),
                   Cardinality(owned))
    BY <1>3, <1>4, <1>6, OwnershipCounted DEF Unique
  <1>8. /\ Counted(InColumns(C \ F), Columns(C \ F))
        /\ Counted(InColumns(F), Columns(F))
    <2>1. \A c \in C : IsList(c.columns)
      BY <1>1 DEF FiniteParts, C
    <2> QED
      BY <1>3, <1>5, <1>6, <2>1, InColumnsCounted
  <1>9. Counted(IndexColumns(s.index), Columns(s.index))
    <2>1. \A x \in s.index : IsList(x.columns)
      BY <1>1 DEF FiniteParts
    <2> QED
      BY <1>3, <1>4, <2>1, IndexColumnsCounted
  <1>10. /\ Counted(DependencyEdges(s.view, "view"), Dependencies(s.view))
         /\ Counted(DependencyEdges(s.routine, "routine"),
                    Dependencies(s.routine))
    <2>1. \A v \in s.view \cup s.routine : IsFiniteSet(v.depends_on)
      BY <1>1 DEF FiniteParts
    <2> QED
      BY <1>3, <1>4, <2>1, DependenciesCounted DEF AllProjected
  <1>11. Counted(TriggerExecutes(executing), Cardinality(executing))
    BY <1>3, <1>6, TriggersCounted
  <1>12. Counted(Links(s.relationship), Cardinality(s.relationship))
    <2>1. \A r \in s.relationship :
             r = Relationship(r.kind, r.from, r.to, r.ordinal, r.row)
      BY Collections DEF IsSnapshot, IsElement
    <2> QED
      BY <1>4, <2>1, LinksCounted
  <1>13. /\ counts["database_has_schema"] = Cardinality(s.schema)
         /\ counts["schema_has_table"] = Cardinality(s.table)
         /\ counts["table_has_column"] = Cardinality(s.column)
         /\ counts["table_has_constraint"] = Cardinality(C)
         /\ counts["constraint_column"] = Columns(C \ F)
         /\ counts["foreign_key_column_pair"] = Columns(F)
         /\ counts["table_has_index"] = Cardinality(s.index)
         /\ counts["index_column"] = Columns(s.index)
         /\ counts["schema_has_view"] = Cardinality(s.view)
         /\ counts["view_dependency"] = Dependencies(s.view)
         /\ counts["trigger_target"] = Cardinality(s.trigger)
         /\ counts["trigger_routine"] = Cardinality(executing)
         /\ counts["schema_has_routine"] = Cardinality(s.routine)
         /\ counts["routine_dependency"] = Dependencies(s.routine)
         /\ counts["metadata_parent"] = Cardinality(owned)
         /\ counts["metadata_relationship"] = Cardinality(s.relationship)
    BY DEF counts, emitted_relationship_counts, SumOver, Columns, Dependencies,
           ForeignKeys, C, F, executing, owned
  <1>14. /\ EdgesOf(s, "database_has_schema")
               = OwnershipEdges(s.schema, "database_has_schema")
         /\ EdgesOf(s, "schema_has_table")
               = OwnershipEdges(s.table, "schema_has_table")
         /\ EdgesOf(s, "table_has_column")
               = OwnershipEdges(s.column, "table_has_column")
         /\ EdgesOf(s, "table_has_constraint")
               = OwnershipEdges(C, "table_has_constraint")
         /\ EdgesOf(s, "constraint_column") = InColumns(C \ F)
         /\ EdgesOf(s, "foreign_key_column_pair") = InColumns(F)
         /\ EdgesOf(s, "table_has_index")
               = OwnershipEdges(s.index, "table_has_index")
         /\ EdgesOf(s, "index_column") = IndexColumns(s.index)
         /\ EdgesOf(s, "schema_has_view")
               = OwnershipEdges(s.view, "schema_has_view")
         /\ EdgesOf(s, "view_dependency") = DependencyEdges(s.view, "view")
         /\ EdgesOf(s, "trigger_target")
               = OwnershipEdges(s.trigger, "has_trigger")
         /\ EdgesOf(s, "trigger_routine") = TriggerExecutes(executing)
         /\ EdgesOf(s, "schema_has_routine")
               = OwnershipEdges(s.routine, "schema_has_routine")
         /\ EdgesOf(s, "routine_dependency")
               = DependencyEdges(s.routine, "routine")
         /\ EdgesOf(s, "metadata_parent")
               = OwnershipEdges(owned, "metadata_parent")
         /\ EdgesOf(s, "metadata_relationship") = Links(s.relationship)
    BY DEF EdgesOf, C, F, executing, owned
  <1> QED
    BY <1>7, <1>8, <1>9, <1>10, <1>11, <1>12, <1>13, <1>14
       DEF RelationshipCategory, counts

(* No row is of two parts.                                                 *)
LEMMA PartsApart ==
    ASSUME NEW s
    PROVE  /\ \A k \in RelationshipCategory : OfCategory(EdgesOf(s, k), k)
           /\ OfCategory(ToColumns(ForeignKeys(s)), "fk_to_column")
           /\ OfCategory(TriggerOn(s.trigger), "trigger_on")
  <1>1. ASSUME NEW k \in RelationshipCategory
        PROVE  OfCategory(EdgesOf(s, k), k)
    <2>1. CASE k \in {"database_has_schema", "schema_has_table",
                      "table_has_column", "table_has_constraint",
                      "table_has_index", "schema_has_view",
                      "schema_has_routine", "metadata_parent"}
      <3>1. \E S : EdgesOf(s, k) = OwnershipEdges(S, k)
        BY <2>1 DEF EdgesOf
      <3> QED
        BY <2>1, <3>1, OwnershipCategory
    <2>2. CASE k = "constraint_column"
      <3>1. EdgesOf(s, k) = InColumns(s.constraint \ ForeignKeys(s))
        BY <2>2 DEF EdgesOf
      <3> QED
        BY <2>2, <3>1, ColumnCategories
    <2>3. CASE k = "foreign_key_column_pair"
      <3>1. EdgesOf(s, k) = InColumns(ForeignKeys(s))
        BY <2>3 DEF EdgesOf
      <3> QED
        BY <2>3, <3>1, ColumnCategories
    <2>4. CASE k = "index_column"
      <3>1. EdgesOf(s, k) = IndexColumns(s.index)
        BY <2>4 DEF EdgesOf
      <3> QED
        BY <2>4, <3>1, ColumnCategories
    <2>5. CASE k = "view_dependency"
      <3>1. EdgesOf(s, k) = DependencyEdges(s.view, "view")
        BY <2>5 DEF EdgesOf
      <3> QED
        BY <2>5, <3>1, OtherCategories
    <2>6. CASE k = "trigger_target"
      <3>1. EdgesOf(s, k) = OwnershipEdges(s.trigger, "has_trigger")
        BY <2>6 DEF EdgesOf
      <3> QED
        BY <2>6, <3>1, OtherCategories
    <2>7. CASE k = "trigger_routine"
      <3>1. \E S : EdgesOf(s, k) = TriggerExecutes(S)
        BY <2>7 DEF EdgesOf
      <3> QED
        BY <2>7, <3>1, OtherCategories
    <2>8. CASE k = "routine_dependency"
      <3>1. EdgesOf(s, k) = DependencyEdges(s.routine, "routine")
        BY <2>8 DEF EdgesOf
      <3> QED
        BY <2>8, <3>1, OtherCategories
    <2>9. CASE k = "metadata_relationship"
      <3>1. EdgesOf(s, k) = Links(s.relationship)
        BY <2>9 DEF EdgesOf
      <3> QED
        BY <2>9, <3>1, OtherCategories
    <2> QED
      BY <2>1, <2>2, <2>3, <2>4, <2>5, <2>6, <2>7, <2>8, <2>9
         DEF RelationshipCategory
  <1> QED
    BY <1>1, ColumnCategories, OtherCategories

(* When every dependency has an edge type, there are as many edges as the  *)
(* counts say there must be.                                               *)
LEMMA EdgesCounted ==
    ASSUME NEW s, IsSnapshot(s), validate_canonical_schema_snapshot(s),
           AllProjected(s)
    PROVE  Cardinality(GraphEdges(s))
              = certified_graph_projection_counts(s).edges
  <1> DEFINE K == RelationshipCategory
             F == ForeignKeys(s)
             U == UNION {EdgesOf(s, k) : k \in K}
             to == ToColumns(F)
             on == TriggerOn(s.trigger)
             counts == emitted_relationship_counts(s)
  <1>1. FiniteParts(s)
    BY SnapshotFinite
  <1>2. /\ DOMAIN counts = K
        /\ counts.foreign_key_column_pair = Columns(F)
    BY DEF emitted_relationship_counts, RelationshipCategory, SumOver, Columns,
           ForeignKeys
  <1>3. /\ certified_graph_projection_counts(s).edges
              = Total(counts) + counts.foreign_key_column_pair
                  + Cardinality(s.trigger)
    BY DEF certified_graph_projection_counts
  <1>4. \A k \in K : Counted(EdgesOf(s, k), counts[k])
    BY PartsCounted
  <1> HIDE DEF counts
  <1>5. \A k \in K : counts[k] \in Nat
    <2> SUFFICES ASSUME NEW k \in K PROVE counts[k] \in Nat
      OBVIOUS
    <2>1. PICK E : E = EdgesOf(s, k)
      OBVIOUS
    <2>2. IsFiniteSet(E) /\ Cardinality(E) = counts[k]
      BY <1>4, <2>1 DEF Counted
    <2>3. Cardinality(E) \in Nat
      BY <2>2, FS_CardinalityType
    <2> QED
      BY <2>2, <2>3
  <1>6. /\ \A k \in K : OfCategory(EdgesOf(s, k), k)
        /\ OfCategory(to, "fk_to_column") /\ OfCategory(on, "trigger_on")
    BY PartsApart
  <1>7. Counted(U, Total(counts))
    <2>1. PICK A : A = [k \in K |-> EdgesOf(s, k)]
      OBVIOUS
    <2>2. U = UNION {A[k] : k \in K}
      BY <2>1
    <2>3. \A k \in K : counts[k] \in Nat /\ Counted(A[k], counts[k])
      BY <1>4, <1>5, <2>1
    <2>4. \A k, l \in K : k # l => A[k] \cap A[l] = {}
      BY <1>6, <2>1 DEF OfCategory
    <2>5. IsFiniteSet(K)
      BY CategoriesFinite
    <2> HIDE DEF U, K
    <2>6. Counted(U, Cardinality(Places(K, counts)))
      BY <2>2, <2>3, <2>4, <2>5, CountedParts
    <2> QED
      BY <1>2, <2>6, TotalPlaces
  <1>8. Unique(AllObjects(s))
    <2>1. UniqueKeys(AllObjects(s))
      BY DEF validate_canonical_schema_snapshot, ValidMetadataObjects
    <2>2. IsFiniteSet(AllObjects(s))
      BY <1>1, ObjectsFinite
    <2> QED
      BY <2>1, <2>2, KeysIdentify DEF Unique
  <1>9. Counted(to, Columns(F))
    <2>1. IsFiniteSet(F)
      <3>1. F \in SUBSET s.constraint /\ IsFiniteSet(s.constraint)
        BY <1>1 DEF ForeignKeys, FiniteParts
      <3> QED
        BY <3>1, FS_Subset
    <2>2. Unique(F)
      BY <1>8 DEF Unique, AllObjects, BaseObjects, ForeignKeys
    <2>3. \A c \in F : IsList(c.referenced)
      BY <1>1 DEF FiniteParts, ForeignKeys
    <2>4. ValidConstraints(s, KeysOf(BaseObjects(s)))
      BY DEF validate_canonical_schema_snapshot, validate_schema_snapshot
    <2>5. \A c \in F : Len(c.columns) = Len(c.referenced)
      BY <2>4 DEF ValidConstraints, ForeignKeys
    <2> HIDE DEF F
    <2> QED
      BY <2>1, <2>2, <2>3, <2>5, ToColumnsCounted
  <1>10. Counted(on, Cardinality(s.trigger))
    <2>1. IsFiniteSet(s.trigger) /\ Unique(s.trigger)
      BY <1>1, <1>8 DEF FiniteParts, Unique, AllObjects, BaseObjects
    <2> QED
      BY <2>1, TriggersCounted
  <1>11. \A e \in U : CategoryOf(e) \in K
    BY <1>6 DEF OfCategory
  <1>12. to \cap on = {} /\ U \cap to = {} /\ U \cap on = {}
    <2>1. "fk_to_column" \notin K /\ "trigger_on" \notin K
      BY DEF RelationshipCategory
    <2> HIDE DEF K, U, to, on
    <2> QED
      BY <1>6, <1>11, <2>1 DEF OfCategory
  <1>13. GraphEdges(s) = U \cup to \cup on
    BY GraphInParts
  <1> HIDE DEF K, F, U, to, on
  <1>14. PICK l \in Nat : l = Total(counts) /\ Counted(U, l)
    BY <1>7, FS_CardinalityType DEF Counted
  <1>15. PICK m \in Nat : m = Columns(F) /\ Counted(to, m)
    BY <1>9, FS_CardinalityType DEF Counted
  <1>16. PICK n \in Nat : n = Cardinality(s.trigger) /\ Counted(on, n)
    BY <1>10, FS_CardinalityType DEF Counted
  <1>17. Counted(U \cup to, l + m)
    BY <1>12, <1>14, <1>15, CountedTwo
  <1>18. (U \cup to) \cap on = {} /\ l + m \in Nat
    BY <1>12
  <1>19. Counted((U \cup to) \cup on, (l + m) + n)
    BY <1>16, <1>17, <1>18, CountedTwo
  <1> QED
    BY <1>2, <1>3, <1>13, <1>14, <1>15, <1>16, <1>19 DEF Counted

(* What certify_schema_snapshot accepts is stored, except when a view or a *)
(* routine depends on a kind of object the builder has no edge type for:   *)
(* emitted_relationship_counts counts that dependency and insert_edge is   *)
(* never asked for it, so verify_projection_counts finds an edge missing.  *)
THEOREM OnlyUnprojectedFail ==
    PipelineSpec /\ []IsSnapshot(snapshot)
        => []OnlyUnprojectedDependenciesFail
  <1>1. PipelineIInv /\ NothingOverwritten /\ IsSnapshot(snapshot)
        /\ CertifiedEdgesHaveNodes
           => OnlyUnprojectedDependenciesFail
    <2> SUFFICES ASSUME PipelineIInv, NothingOverwritten, IsSnapshot(snapshot),
                        CertifiedEdgesHaveNodes, stage = "failed",
                        AllProjected(snapshot)
                 PROVE  FALSE
      <3>1. ~AllProjected(snapshot) =>
               \E kind \in {"view", "routine"} : \E v \in snapshot[kind] :
                  \E d \in v.depends_on : d.kind \notin Projected(kind)
        <4>1. CASE \E v \in snapshot.view : \E d \in v.depends_on :
                      d.kind \notin Projected("view")
          BY <4>1
        <4>2. CASE \E v \in snapshot.routine : \E d \in v.depends_on :
                      d.kind \notin Projected("routine")
          BY <4>2
        <4> QED
          BY <4>1, <4>2 DEF AllProjected
      <3> QED
        BY <3>1 DEF OnlyUnprojectedDependenciesFail
    <2>1. validate_canonical_schema_snapshot(snapshot)
      BY DEF PipelineIInv, Certified
    <2>2. EveryInsertIsNew(snapshot) /\ EdgesHaveNodes(snapshot)
      BY DEF NothingOverwritten, CertifiedEdgesHaveNodes, Certified
    <2>3. Cardinality(AllObjects(snapshot))
             = certified_graph_projection_counts(snapshot).nodes
      BY <2>1, NodesCounted
    <2>4. Cardinality(GraphEdges(snapshot))
             = certified_graph_projection_counts(snapshot).edges
      BY <2>1, EdgesCounted
    <2> QED
      BY <2>2, <2>3, <2>4
         DEF PipelineIInv, ProjectionHolds, EveryInsertIsNew
  <1> QED
    BY <1>1, PipelineInvariant, UpsertsNeverUpdate, ForeignKeysHold, PTL

-----------------------------------------------------------------------------
(* The adapter that gets things wrong.                                     *)

(* Every step of the faulty adapter is one that PipelineSpec allows.       *)
THEOREM FaultsImplementPipeline == FaultsSpec => PipelineSpec
  <1>1. FaultsInit => ~Certified /\ graph = EmptyGraph
    BY DEF FaultsInit, PipelineInit, Certified
  <1>2. [FaultsNext]_vars => [PipelineNext]_pipelineVars
    <2> SUFFICES ASSUME [FaultsNext]_vars
                 PROVE  [PipelineNext]_pipelineVars
      OBVIOUS
    <2>1. ASSUME NEW next, Fault(next)
          PROVE  AnyMapping
      BY <2>1 DEF Fault, AnyMapping, Certified
    <2>2. CASE MapRows
      BY <2>2 DEF MapRows, AnyMapping, Certified, PipelineNext
    <2>3. CASE LoseElement
      BY <2>1, <2>3 DEF LoseElement, PipelineNext
    <2>4. CASE WriteTwice
      BY <2>1, <2>4 DEF WriteTwice, PipelineNext
    <2>5. CASE HiddenRow
      BY <2>1, <2>5 DEF HiddenRow, PipelineNext
    <2>6. CASE WrongOwner
      BY <2>1, <2>6 DEF WrongOwner, PipelineNext
    <2>7. CASE WrongReference
      BY <2>1, <2>7 DEF WrongReference, PipelineNext
    <2>8. CASE HandOver
      BY <2>8 DEF HandOver, AnyMapping, Certified, PipelineNext
    <2>9. CASE Certify \/ Store
      BY <2>9 DEF PipelineNext
    <2>10. CASE UNCHANGED vars
      BY <2>10 DEF vars, pipelineVars
    <2> QED
      BY <2>2, <2>3, <2>4, <2>5, <2>6, <2>7, <2>8, <2>9, <2>10
         DEF FaultsNext, Done
  <1> QED
    BY <1>1, <1>2, PTL DEF FaultsSpec, PipelineSpec

(* A snapshot with other elements in one collection.                       *)
LEMMA ReplaceElements ==
    ASSUME NEW s, IsSnapshot(s), NEW c \in Collection, NEW S,
           IsFiniteSet(S), \A e \in S : IsElement(c, e)
    PROVE  IsSnapshot([s EXCEPT ![c] = S])
  BY DEF IsSnapshot

(* An element with another row, owner or end, or with another key among    *)
(* those it refers to, is an element of its collection.                    *)
LEMMA OtherRow ==
    ASSUME NEW c \in Collection, NEW e, IsElement(c, e), NEW row
    PROVE  IsElement(c, [e EXCEPT !.row = row])
  <1>1. CASE c \in {"schema", "table", "metadata", "annotation"}
    BY <1>1 DEF IsElement, Object
  <1>2. CASE c = "column"
    BY <1>2 DEF IsElement, Column
  <1>3. CASE c = "constraint"
    BY <1>3 DEF IsElement, Constraint
  <1>4. CASE c = "index"
    BY <1>4 DEF IsElement, Index
  <1>5. CASE c \in {"view", "routine"}
    BY <1>5 DEF IsElement, Dependent
  <1>6. CASE c = "trigger"
    BY <1>6 DEF IsElement, Trigger
  <1>7. CASE c = "relationship"
    BY <1>7 DEF IsElement, Relationship
  <1> QED
    BY <1>1, <1>2, <1>3, <1>4, <1>5, <1>6, <1>7, Collections

LEMMA OtherOwner ==
    ASSUME NEW c \in Collection \ {"annotation", "relationship"}, NEW e,
           IsElement(c, e), NEW owner
    PROVE  IsElement(c, [e EXCEPT !.owner = owner])
  <1>1. CASE c \in {"schema", "table", "metadata"}
    BY <1>1 DEF IsElement, Object
  <1>2. CASE c = "column"
    BY <1>2 DEF IsElement, Column
  <1>3. CASE c = "constraint"
    BY <1>3 DEF IsElement, Constraint
  <1>4. CASE c = "index"
    BY <1>4 DEF IsElement, Index
  <1>5. CASE c \in {"view", "routine"}
    BY <1>5 DEF IsElement, Dependent
  <1>6. CASE c = "trigger"
    BY <1>6 DEF IsElement, Trigger
  <1> QED
    BY <1>1, <1>2, <1>3, <1>4, <1>5, <1>6, Collections

LEMMA OtherEntry ==
    ASSUME NEW q, IsList(q), NEW i, NEW k
    PROVE  IsList([q EXCEPT ![i] = k])
  <1>1. PICK n \in Nat : DOMAIN q = 1 .. n
    BY DEF IsList
  <1>2. PICK r : r = [q EXCEPT ![i] = k]
    OBVIOUS
  <1>3. PICK V : V = {r[j] : j \in 1 .. n}
    OBVIOUS
  <1>4. r \in [1 .. n -> V]
    BY <1>1, <1>2, <1>3
  <1>5. r \in Seq(V) /\ Len(r) = n /\ DOMAIN r = 1 .. n
    BY <1>4
  <1>6. IsList(r)
    BY <1>5 DEF IsList
  <1> QED
    BY <1>2, <1>6

LEMMA OtherReference ==
    ASSUME NEW e, NEW k, NEW i
    PROVE  /\ IsElement("relationship", e) =>
                 IsElement("relationship", [e EXCEPT !.to = k])
           /\ \A c \in {"constraint", "index"} : IsElement(c, e) =>
                 IsElement(c, [e EXCEPT !.columns[i] = k])
           /\ \A c \in {"view", "routine"} : \A d : IsElement(c, e) =>
                 IsElement(c, [e EXCEPT !.depends_on = (@ \ {d}) \cup {k}])
           /\ IsElement("constraint", e) =>
                 IsElement("constraint", [e EXCEPT !.referenced[i] = k])
  <1>1. IsElement("relationship", e) =>
           IsElement("relationship", [e EXCEPT !.to = k])
    BY DEF IsElement, Relationship
  <1>2. ASSUME IsElement("constraint", e)
        PROVE  IsElement("constraint", [e EXCEPT !.columns[i] = k])
    <2>1. PICK q : q = [e.columns EXCEPT ![i] = k]
      OBVIOUS
    <2>2. IsList(q)
      BY <1>2, <2>1, OtherEntry DEF IsElement
    <2>3. e = Constraint(e.key, e.owner, e.columns, e.target, e.referenced,
                         e.expression, e.row)
      BY <1>2 DEF IsElement
    <2>4. [e EXCEPT !.columns[i] = k]
             = Constraint(e.key, e.owner, q, e.target, e.referenced,
                          e.expression, e.row)
      BY <2>1, <2>3 DEF Constraint
    <2> QED
      BY <1>2, <2>2, <2>4 DEF IsElement, Constraint
  <1>3. ASSUME IsElement("index", e)
        PROVE  IsElement("index", [e EXCEPT !.columns[i] = k])
    <2>1. PICK q : q = [e.columns EXCEPT ![i] = k]
      OBVIOUS
    <2>2. IsList(q)
      BY <1>3, <2>1, OtherEntry DEF IsElement
    <2>3. e = Index(e.key, e.owner, e.columns, e.expression, e.row)
      BY <1>3 DEF IsElement
    <2>4. [e EXCEPT !.columns[i] = k]
             = Index(e.key, e.owner, q, e.expression, e.row)
      BY <2>1, <2>3 DEF Index
    <2> QED
      BY <1>3, <2>2, <2>4 DEF IsElement, Index
  <1>4. ASSUME NEW c \in {"view", "routine"}, NEW d, IsElement(c, e)
        PROVE  IsElement(c, [e EXCEPT !.depends_on = (@ \ {d}) \cup {k}])
    <2>1. PICK D : D = (e.depends_on \ {d}) \cup {k}
      OBVIOUS
    <2>2. IsFiniteSet(e.depends_on \ {d})
      BY <1>4, FS_RemoveElement DEF IsElement
    <2>3. IsFiniteSet(D)
      BY <2>1, <2>2, FS_AddElement
    <2>4. e = Dependent(e.key, e.owner, e.depends_on, e.row)
      BY <1>4 DEF IsElement
    <2>5. [e EXCEPT !.depends_on = (@ \ {d}) \cup {k}]
             = Dependent(e.key, e.owner, D, e.row)
      BY <2>1, <2>4 DEF Dependent
    <2> QED
      BY <1>4, <2>3, <2>5 DEF IsElement, Dependent
  <1>5. ASSUME IsElement("constraint", e)
        PROVE  IsElement("constraint", [e EXCEPT !.referenced[i] = k])
    <2>1. PICK q : q = [e.referenced EXCEPT ![i] = k]
      OBVIOUS
    <2>2. IsList(q)
      BY <1>5, <2>1, OtherEntry DEF IsElement
    <2>3. e = Constraint(e.key, e.owner, e.columns, e.target, e.referenced,
                         e.expression, e.row)
      BY <1>5 DEF IsElement
    <2>4. [e EXCEPT !.referenced[i] = k]
             = Constraint(e.key, e.owner, e.columns, e.target, q,
                          e.expression, e.row)
      BY <2>1, <2>3 DEF Constraint
    <2> QED
      BY <1>5, <2>2, <2>4 DEF IsElement, Constraint
  <1> QED
    BY <1>1, <1>2, <1>3, <1>4, <1>5

(* The errors stay within the types of the program: a lost, doubled or     *)
(* misdirected element leaves a snapshot.                                  *)
LEMMA ReplaceKeeps ==
    ASSUME NEW s, IsSnapshot(s), NEW c \in Collection, NEW e \in s[c], NEW f,
           IsElement(c, f)
    PROVE  /\ IsSnapshot([s EXCEPT ![c] = @ \ {e}])
           /\ IsSnapshot([s EXCEPT ![c] = @ \cup {f}])
           /\ IsSnapshot([s EXCEPT ![c] = (@ \ {e}) \cup {f}])
  <1>1. IsFiniteSet(s[c]) /\ \A g \in s[c] : IsElement(c, g)
    BY DEF IsSnapshot
  <1>2. IsFiniteSet(s[c] \ {e})
    BY <1>1, FS_RemoveElement
  <1>3. IsFiniteSet(s[c] \cup {f})
    BY <1>1, FS_AddElement
  <1>4. IsFiniteSet((s[c] \ {e}) \cup {f})
    BY <1>2, FS_AddElement
  <1>5. \A g \in (s[c] \ {e}) \cup {f} : IsElement(c, g)
    BY <1>1
  <1>6. IsSnapshot([s EXCEPT ![c] = s[c] \ {e}])
    BY <1>1, <1>2, ReplaceElements
  <1>7. IsSnapshot([s EXCEPT ![c] = s[c] \cup {f}])
    BY <1>1, <1>3, ReplaceElements
  <1>8. IsSnapshot([s EXCEPT ![c] = (s[c] \ {e}) \cup {f}])
    BY <1>4, <1>5, ReplaceElements
  <1> QED
    BY <1>6, <1>7, <1>8

LEMMA EmptyIsSnapshot == IsSnapshot(EmptySnapshot)
  <1>1. EmptySnapshot = [c \in Collection |-> EmptySnapshot[c]]
    BY DEF EmptySnapshot, Collection
  <1>2. DOMAIN EmptySnapshot = Collection
    BY DEF Collection
  <1>3. \A c \in Collection : EmptySnapshot[c] = {}
    BY Collections DEF EmptySnapshot
  <1>4. \A c \in Collection : IsFiniteSet(EmptySnapshot[c])
    BY <1>3, FS_EmptySet
  <1> QED
    BY <1>1, <1>2, <1>3, <1>4 DEF IsSnapshot

THEOREM FaultsKeepSnapshots == FaultsSpec => []IsSnapshot(snapshot)
  <1>1. FaultsInit => IsSnapshot(snapshot)
    BY EmptyIsSnapshot DEF FaultsInit, PipelineInit
  <1>2. IsSnapshot(snapshot) /\ [FaultsNext]_vars => IsSnapshot(snapshot)'
    <2> SUFFICES ASSUME IsSnapshot(snapshot), [FaultsNext]_vars
                 PROVE  IsSnapshot(snapshot')
      OBVIOUS
    <2>1. \A c \in Collection : \A e \in snapshot[c] : IsElement(c, e)
      BY DEF IsSnapshot
    <2>2. CASE MapRows
      BY <2>2, FaultAssumption DEF MapRows
    <2>3. ASSUME NEW c \in Collection, NEW e \in snapshot[c]
          PROVE  IsSnapshot([snapshot EXCEPT ![c] = @ \ {e}])
      BY <2>1, ReplaceKeeps
    <2>4. CASE LoseElement
      BY <2>3, <2>4 DEF LoseElement, Fault
    <2>5. CASE WriteTwice
      <3>1. PICK c \in Collection : \E e \in snapshot[c] :
               snapshot' = [snapshot EXCEPT
                     ![c] = @ \cup {[e EXCEPT !.row = <<"again", e.row>>]}]
        BY <2>5 DEF WriteTwice, Fault
      <3>2. PICK e \in snapshot[c] :
               snapshot' = [snapshot EXCEPT
                     ![c] = @ \cup {[e EXCEPT !.row = <<"again", e.row>>]}]
        BY <3>1
      <3>3. IsElement(c, [e EXCEPT !.row = <<"again", e.row>>])
        BY <2>1, OtherRow
      <3> QED
        BY <3>2, <3>3, ReplaceKeeps
    <2>6. CASE HiddenRow
      BY <2>3, <2>6 DEF HiddenRow, Fault
    <2>7. ASSUME NEW c \in Collection, NEW e \in snapshot[c], NEW f,
                 IsElement(c, f)
          PROVE  IsSnapshot(Replace(c, e, f))
      BY <2>7, ReplaceKeeps DEF Replace
    <2>8. CASE WrongOwner
      <3>1. PICK c \in Collection \ {"annotation", "relationship"},
                 k \in Target : \E e \in snapshot[c] :
               snapshot' = Replace(c, e, [e EXCEPT !.owner = k])
        BY <2>8 DEF WrongOwner, Fault
      <3>2. PICK e \in snapshot[c] :
               snapshot' = Replace(c, e, [e EXCEPT !.owner = k])
        BY <3>1
      <3>3. IsElement(c, e)
        BY <2>1
      <3>4. IsElement(c, [e EXCEPT !.owner = k])
        BY <3>3, OtherOwner
      <3> QED
        BY <2>7, <3>2, <3>4
    <2>9. CASE WrongReference
      <3>1. PICK k \in Target :
               \/ \E r \in snapshot.relationship :
                     Fault(Replace("relationship", r, [r EXCEPT !.to = k]))
               \/ \E c \in {"constraint", "index"} :
                     \E x \in snapshot[c] : \E i \in DOMAIN x.columns :
                        Fault(Replace(c, x, [x EXCEPT !.columns[i] = k]))
               \/ \E c \in {"view", "routine"} :
                     \E v \in snapshot[c] : \E d \in v.depends_on :
                        Fault(Replace(c, v, [v EXCEPT !.depends_on =
                                                (@ \ {d}) \cup {k}]))
               \/ \E x \in snapshot.constraint : \E i \in DOMAIN x.referenced :
                     Fault(Replace("constraint", x,
                                   [x EXCEPT !.referenced[i] = k]))
        BY <2>9 DEF WrongReference
      <3>2. ASSUME NEW r \in snapshot.relationship,
                   snapshot' = Replace("relationship", r, [r EXCEPT !.to = k])
            PROVE  IsSnapshot(snapshot')
        <4>1. IsElement("relationship", [r EXCEPT !.to = k])
          BY <2>1, Collections, OtherReference
        <4> QED
          BY <2>7, <3>2, <4>1, Collections
      <3>3. ASSUME NEW c \in {"constraint", "index"}, NEW x \in snapshot[c],
                   NEW i,
                   snapshot' = Replace(c, x, [x EXCEPT !.columns[i] = k])
            PROVE  IsSnapshot(snapshot')
        <4>1. c \in Collection /\ IsElement(c, x)
          BY <2>1, Collections
        <4>2. IsElement(c, [x EXCEPT !.columns[i] = k])
          BY <4>1, OtherReference
        <4> QED
          BY <2>7, <3>3, <4>1, <4>2
      <3>4. ASSUME NEW c \in {"view", "routine"}, NEW v \in snapshot[c],
                   NEW d, snapshot' = Replace(c, v, [v EXCEPT !.depends_on =
                                                      (@ \ {d}) \cup {k}])
            PROVE  IsSnapshot(snapshot')
        <4>1. c \in Collection /\ IsElement(c, v)
          BY <2>1, Collections
        <4>2. IsElement(c, [v EXCEPT !.depends_on = (@ \ {d}) \cup {k}])
          BY <4>1, OtherReference
        <4> QED
          BY <2>7, <3>4, <4>1, <4>2
      <3>5. ASSUME NEW x \in snapshot.constraint, NEW i,
                   snapshot' = Replace("constraint", x,
                                       [x EXCEPT !.referenced[i] = k])
            PROVE  IsSnapshot(snapshot')
        <4>1. "constraint" \in Collection /\ IsElement("constraint", x)
          BY <2>1, Collections
        <4>2. IsElement("constraint", [x EXCEPT !.referenced[i] = k])
          BY <4>1, OtherReference
        <4> QED
          BY <2>7, <3>5, <4>1, <4>2
      <3>6. CASE \E r \in snapshot.relationship :
                    Fault(Replace("relationship", r, [r EXCEPT !.to = k]))
        BY <3>2, <3>6 DEF Fault
      <3>7. CASE \E c \in {"constraint", "index"} :
                    \E x \in snapshot[c] : \E i \in DOMAIN x.columns :
                       Fault(Replace(c, x, [x EXCEPT !.columns[i] = k]))
        BY <3>3, <3>7 DEF Fault
      <3>8. CASE \E c \in {"view", "routine"} :
                    \E v \in snapshot[c] : \E d \in v.depends_on :
                       Fault(Replace(c, v, [v EXCEPT !.depends_on =
                                               (@ \ {d}) \cup {k}]))
        BY <3>4, <3>8 DEF Fault
      <3>9. CASE \E x \in snapshot.constraint : \E i \in DOMAIN x.referenced :
                    Fault(Replace("constraint", x,
                                  [x EXCEPT !.referenced[i] = k]))
        BY <3>5, <3>9 DEF Fault
      <3> QED
        BY <3>1, <3>6, <3>7, <3>8, <3>9
    <2>10. CASE HandOver \/ Certify \/ Store \/ UNCHANGED vars
      BY <2>10 DEF HandOver, Certify, Store, vars
    <2> QED
      BY <2>2, <2>4, <2>5, <2>6, <2>8, <2>9, <2>10 DEF FaultsNext, Done
  <1> QED
    BY <1>1, <1>2, PTL DEF FaultsSpec

(* However many elements the adapter lost, doubled or pointed at the wrong *)
(* object: what is certified meets no foreign key and overwrites nothing   *)
(* in the store, it is stored unless a dependency has no edge type, and    *)
(* the graph that is stored in the end is as large as what was counted in  *)
(* the catalog.                                                            *)
THEOREM FaultsAreContained ==
    FaultsSpec => /\ []CertifiedEdgesHaveNodes /\ []StoredIsDiscovered
                  /\ [](Certified => EveryInsertIsNew(snapshot))
                  /\ []OnlyUnprojectedDependenciesFail
  <1>1. NothingOverwritten /\ IsSnapshot(snapshot)
           => (Certified => EveryInsertIsNew(snapshot))
    BY DEF NothingOverwritten
  <1> QED
    BY <1>1, FaultsImplementPipeline, ForeignKeysHold, StoredAsDiscovered,
       UpsertsNeverUpdate, OnlyUnprojectedFail, FaultsKeepSnapshots, PTL

=============================================================================
