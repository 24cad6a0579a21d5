--------------------------- MODULE CanonicalModel ---------------------------
(***************************************************************************)
(* The canonical snapshot every adapter produces, what makes one valid,    *)
(* the counts it is certified with and the graph it is projected to.       *)
(*                                                                         *)
(* A snapshot is a record with one set per collection.  The collections of *)
(* the code are vectors: every element carries in `row' the catalog row it *)
(* was made from, so that two elements with one key stay two elements.     *)
(* Source kind, connection alias and database are the same in every key of *)
(* a snapshot (each adapter builds its keys with one function) and are     *)
(* left out; names, texts and properties are present or absent, no more.   *)
(***************************************************************************)
EXTENDS Integers, Sequences, FiniteSets, FiniteSetsExt, Functions

ConstraintKind ==
    {"primary_key", "foreign_key", "unique_constraint", "check_constraint"}

(* Kinds with a typed collection of their own.                             *)
TypedKind == {"schema", "table", "column", "index", "view", "trigger",
              "routine"}

(* is_canonical_metadata_kind.                                             *)
MetadataKind ==
    {"primary_key", "unique_constraint", "check_constraint", "index",
     "routine", "materialized_view", "view_column", "sequence",
     "routine_parameter", "user_defined_type", "domain", "enum_value",
     "synonym", "exclusion_constraint", "event", "package", "principal",
     "policy", "trigger", "extension"}

ObjectCategory ==
    {"database"} \cup TypedKind \cup ConstraintKind \cup MetadataKind

RelationshipCategory ==
    {"database_has_schema", "schema_has_table", "table_has_column",
     "table_has_constraint", "constraint_column", "foreign_key_column_pair",
     "table_has_index", "index_column", "schema_has_view",
     "view_dependency", "trigger_target", "trigger_routine",
     "schema_has_routine", "routine_dependency", "metadata_parent",
     "metadata_relationship"}

-----------------------------------------------------------------------------
(* Keys and elements.                                                      *)

(* sub is "" where the code has None.                                      *)
Key(kind, schema, name, sub) ==
    [kind |-> kind, schema |-> schema, name |-> name, sub |-> sub]

NoKey == Key("none", "", "", "")
DatabaseKey == Key("database", "db", "db", "")
SchemaKey(schema) == Key("schema", schema, schema, "")

(* owner is the database_key, schema_key, table_key or parent_key.         *)
Object(key, owner, row) == [key |-> key, owner |-> owner, row |-> row]

Column(key, owner, ordinal, row) ==
    [key |-> key, owner |-> owner, ordinal |-> ordinal, row |-> row]

Constraint(key, owner, columns, target, referenced, expression, row) ==
    [key |-> key, owner |-> owner, columns |-> columns, target |-> target,
     referenced |-> referenced, expression |-> expression, row |-> row]

Index(key, owner, columns, expression, row) ==
    [key |-> key, owner |-> owner, columns |-> columns,
     expression |-> expression, row |-> row]

(* Views and routines: depends_on is sorted and free of duplicates after   *)
(* normalize_canonical_snapshot, so it is a set.                           *)
Dependent(key, owner, depends_on, row) ==
    [key |-> key, owner |-> owner, depends_on |-> depends_on, row |-> row]

Trigger(key, owner, events, routine, row) ==
    [key |-> key, owner |-> owner, events |-> events, routine |-> routine,
     row |-> row]

(* ordinal is None or Some(n): -1 stands for None.                         *)
None == -1

Relationship(kind, from, to, ordinal, row) ==
    [kind |-> kind, from |-> from, to |-> to, ordinal |-> ordinal,
     row |-> row]

(* CanonicalSchemaSnapshot with nothing but its database.                  *)
EmptySnapshot ==
    [schema |-> {}, table |-> {}, column |-> {}, constraint |-> {},
     index |-> {}, view |-> {}, trigger |-> {}, routine |-> {},
     metadata |-> {}, annotation |-> {}, relationship |-> {}]

Collection == DOMAIN EmptySnapshot

(* What the structs of the code and their vectors are: every element has   *)
(* the fields of its collection, lists and sets of keys are finite.        *)
IsList(q) == Len(q) \in Nat /\ DOMAIN q = 1 .. Len(q)

IsElement(c, e) ==
    /\ c \in {"schema", "table", "metadata", "annotation"} =>
          e = Object(e.key, e.owner, e.row)
    /\ c = "column" => e = Column(e.key, e.owner, e.ordinal, e.row)
    /\ c = "constraint" =>
          /\ e = Constraint(e.key, e.owner, e.columns, e.target, e.referenced,
                            e.expression, e.row)
          /\ IsList(e.columns) /\ IsList(e.referenced)
    /\ c = "index" =>
          /\ e = Index(e.key, e.owner, e.columns, e.expression, e.row)
          /\ IsList(e.columns)
    /\ c \in {"view", "routine"} =>
          /\ e = Dependent(e.key, e.owner, e.depends_on, e.row)
          /\ IsFiniteSet(e.depends_on)
    /\ c = "trigger" => e = Trigger(e.key, e.owner, e.events, e.routine, e.row)
    /\ c = "relationship" =>
          e = Relationship(e.kind, e.from, e.to, e.ordinal, e.row)

IsSnapshot(s) ==
    /\ DOMAIN s = Collection
    /\ s = [c \in Collection |-> s[c]]
    /\ \A c \in Collection :
          IsFiniteSet(s[c]) /\ \A e \in s[c] : IsElement(c, e)

Injective(seq) == Cardinality({seq[i] : i \in DOMAIN seq}) = Len(seq)
Elements(seq) == {seq[i] : i \in DOMAIN seq}

(* The typed objects, and with the metadata objects all of them.           *)
BaseObjects(s) ==
    {Object(DatabaseKey, NoKey, <<"database">>)} \cup s.schema \cup s.table
      \cup s.column \cup s.constraint \cup s.index \cup s.view
      \cup s.trigger \cup s.routine

AllObjects(s) == BaseObjects(s) \cup s.metadata
KeysOf(objects) == {o.key : o \in objects}
UniqueKeys(objects) == Cardinality(KeysOf(objects)) = Cardinality(objects)

-----------------------------------------------------------------------------
(* validate_schema_snapshot, one conjunct per collection.                  *)

(* require_kind and require_one_of: the target is there with this kind.    *)
Resolves(keys, target, kinds) == target \in keys /\ target.kind \in kinds

ColumnOf(keys, column, table) ==
    /\ Resolves(keys, column, {"column"})
    /\ column.schema = table.schema
    /\ column.name = table.name

(* register: the kind of the collection and a key of its own; then         *)
(* validate_registered_scope: no empty component.                          *)
ValidRegistry(s) ==
    /\ \A kind \in TypedKind : \A o \in s[kind] : o.key.kind = kind
    /\ \A o \in s.constraint : o.key.kind \in ConstraintKind
    /\ UniqueKeys(BaseObjects(s))
    /\ \A o \in BaseObjects(s) : o.key.schema # "" /\ o.key.name # ""

ValidSchemasAndTables(s, keys) ==
    /\ \A o \in s.schema : /\ o.owner = DatabaseKey
                           /\ o.key.schema = o.key.name
    /\ \A o \in s.table : Resolves(keys, o.owner, {"schema"})

ValidColumns(s, keys) ==
    /\ \A c \in s.column :
          /\ Resolves(keys, c.owner, {"table"})
          /\ c.key.schema = c.owner.schema /\ c.key.name = c.owner.name
          /\ c.ordinal # 0
    /\ Cardinality({<<c.owner, c.ordinal>> : c \in s.column})
          = Cardinality(s.column)

ValidConstraints(s, keys) ==
    \A c \in s.constraint :
        /\ Resolves(keys, c.owner, {"table"})
        /\ c.key.schema = c.owner.schema /\ c.key.name = c.owner.name
        /\ \A k \in Elements(c.columns) : ColumnOf(keys, k, c.owner)
        /\ Injective(c.columns) /\ Injective(c.referenced)
        /\ \/ /\ c.key.kind \in {"primary_key", "unique_constraint"}
              /\ c.columns # <<>> /\ c.target = NoKey /\ c.referenced = <<>>
           \/ /\ c.key.kind = "foreign_key"
              /\ c.columns # <<>>
              /\ Resolves(keys, c.target, {"table"})
              /\ \A k \in Elements(c.referenced) : ColumnOf(keys, k, c.target)
              /\ Len(c.columns) = Len(c.referenced)
           \/ c.key.kind = "check_constraint" /\ c.expression

ValidIndexes(s, keys) ==
    \A i \in s.index :
        /\ Resolves(keys, i.owner, {"table"})
        /\ i.key.schema = i.owner.schema /\ i.key.name = i.owner.name
        /\ \A k \in Elements(i.columns) : ColumnOf(keys, k, i.owner)
        /\ Injective(i.columns)
        /\ i.columns # <<>> \/ i.expression

(* require_any looks among the typed objects only.                         *)
ValidDependents(dependents, keys) ==
    \A v \in dependents : /\ Resolves(keys, v.owner, {"schema"})
                          /\ v.depends_on \subseteq keys

ValidTriggers(s, keys) ==
    \A t \in s.trigger :
        /\ Resolves(keys, t.owner, {"table", "view"})
        /\ t.key.schema = t.owner.schema /\ t.key.name = t.owner.name
        /\ t.events # {}
        /\ t.routine = NoKey \/ Resolves(keys, t.routine, {"routine"})

validate_schema_snapshot(s) ==
    LET keys == KeysOf(BaseObjects(s)) IN
    /\ ValidRegistry(s)
    /\ ValidSchemasAndTables(s, keys)
    /\ ValidColumns(s, keys)
    /\ ValidConstraints(s, keys)
    /\ ValidIndexes(s, keys)
    /\ ValidDependents(s.view, keys)
    /\ ValidTriggers(s, keys)
    /\ ValidDependents(s.routine, keys)

-----------------------------------------------------------------------------
(* validate_canonical_schema_snapshot.                                     *)

(* require_metadata_parent_kind.                                           *)
ParentKinds(kind) ==
    CASE kind = "view_column" -> {"view", "materialized_view"}
      [] kind \in {"materialized_view", "sequence", "user_defined_type",
                   "domain", "synonym", "package"} -> {"schema"}
      [] kind \in {"primary_key", "unique_constraint", "index"} ->
            {"materialized_view"}
      [] kind = "routine" -> {"package", "user_defined_type"}
      [] kind = "check_constraint" -> {"domain", "materialized_view"}
      [] kind \in {"event", "principal"} -> {"database", "schema"}
      [] kind = "routine_parameter" -> {"routine"}
      [] kind = "enum_value" -> {"user_defined_type"}
      [] kind = "exclusion_constraint" -> {"table"}
      [] kind = "policy" -> {"schema", "table", "view"}
      [] kind = "trigger" -> {"database", "schema", "table", "view",
                              "materialized_view"}
      [] OTHER -> ObjectCategory

(* validate_relationship_endpoint_kinds; a kind not listed is an Extension. *)
EndpointKinds(kind, from, to) ==
    CASE kind = "uses_type" ->
            /\ from \in {"column", "view_column", "routine",
                         "routine_parameter", "sequence",
                         "user_defined_type", "extension"}
            /\ to \in {"user_defined_type", "domain"}
      [] kind = "uses_sequence" -> from = "column" /\ to = "sequence"
      [] kind = "partition_of" -> from = "table" /\ to = "table"
      [] kind = "inherits_from" ->
            from \in {"table", "user_defined_type"} /\ to = from
      [] kind = "synonym_for" -> from = "synonym"
      [] kind = "has_parameter" ->
            from \in {"routine", "package"} /\ to = "routine_parameter"
      [] kind = "returns_type" ->
            from = "routine" /\ to \in {"user_defined_type", "domain"}
      [] kind = "owned_by" -> to = "principal"
      [] kind = "materializes" ->
            from = "materialized_view" /\ to \in {"table", "view"}
      [] kind = "invokes" ->
            from \in {"routine", "trigger", "event"} /\ to = "routine"
      [] kind = "includes_column" ->
            from = "index" /\ to \in {"column", "view_column"}
      [] kind = "excludes_with" ->
            from = "exclusion_constraint" /\ to = "column"
      [] OTHER -> TRUE

(* Variant: two metadata objects may have one key.                         *)
ValidMetadataObjectsShared(s, keys) ==
    \A o \in s.metadata : /\ o.key.kind \in MetadataKind
                          /\ o.owner \in keys
                          /\ o.owner.kind \in ParentKinds(o.key.kind)

ValidMetadataObjects(s, keys) ==
    /\ UniqueKeys(AllObjects(s))
    /\ \A o \in s.metadata : /\ o.key.kind \in MetadataKind
                             /\ o.owner \in keys
                             /\ o.owner.kind \in ParentKinds(o.key.kind)

ValidAnnotations(s, keys) ==
    KeysOf(s.annotation) \subseteq keys /\ UniqueKeys(s.annotation)

(* Variant: the targets of relationships are not looked up.                *)
ValidRelationshipsDangling(s, keys) ==
    \A r \in s.relationship :
        EndpointKinds(r.kind, r.from.kind, r.to.kind) /\ r.ordinal # 0

ValidRelationships(s, keys) ==
    /\ \A r \in s.relationship :
          /\ r.from \in keys /\ r.to \in keys
          /\ EndpointKinds(r.kind, r.from.kind, r.to.kind)
          /\ r.ordinal # 0
    /\ Cardinality({<<r.kind, r.from, r.to, r.ordinal>> :
                       r \in s.relationship}) = Cardinality(s.relationship)

validate_canonical_schema_snapshot(s) ==
    LET keys == KeysOf(AllObjects(s)) IN
    /\ validate_schema_snapshot(s)
    /\ ValidMetadataObjects(s, keys)
    /\ ValidAnnotations(s, keys)
    /\ ValidRelationships(s, keys)

-----------------------------------------------------------------------------
(* Counts of a snapshot.                                                   *)

emitted_object_counts(s) ==
    [k \in ObjectCategory |->
        (CASE k = "database" -> 1
           [] k \in TypedKind -> Cardinality(s[k])
           [] OTHER -> Cardinality({c \in s.constraint : c.key.kind = k}))
        + Cardinality({o \in s.metadata : o.key.kind = k})]

(* The sum of sizes: as many as there are numbered places in the elements. *)
SumOver(S, size(_)) == Cardinality(UNION {{x} \X (1 .. size(x)) : x \in S})
Total(counts) ==
    LET size(k) == counts[k] IN SumOver(DOMAIN counts, size)

emitted_relationship_counts(s) ==
    LET fks == {c \in s.constraint : c.key.kind = "foreign_key"}
        columns(o) == Len(o.columns)
        depends(o) == Cardinality(o.depends_on)
    IN [database_has_schema |-> Cardinality(s.schema),
        schema_has_table |-> Cardinality(s.table),
        table_has_column |-> Cardinality(s.column),
        table_has_constraint |-> Cardinality(s.constraint),
        constraint_column |-> SumOver(s.constraint \ fks, columns),
        foreign_key_column_pair |-> SumOver(fks, columns),
        table_has_index |-> Cardinality(s.index),
        index_column |-> SumOver(s.index, columns),
        schema_has_view |-> Cardinality(s.view),
        view_dependency |-> SumOver(s.view, depends),
        trigger_target |-> Cardinality(s.trigger),
        trigger_routine |->
            Cardinality({t \in s.trigger : t.routine # NoKey}),
        schema_has_routine |-> Cardinality(s.routine),
        routine_dependency |-> SumOver(s.routine, depends),
        metadata_parent |->
            Cardinality({o \in s.metadata : o.owner # NoKey}),
        metadata_relationship |-> Cardinality(s.relationship)]

(* DiscoveryCounts: what the adapter counted in the rows it read.  An      *)
(* adapter names the categories it found rows for; the others are zero.    *)
Counts(objects, relationships) ==
    [objects |-> [k \in ObjectCategory |->
                     IF k \in DOMAIN objects THEN objects[k]
                     ELSE IF k = "database" THEN 1 ELSE 0],
     relationships |-> [k \in RelationshipCategory |->
                           IF k \in DOMAIN relationships
                           THEN relationships[k] ELSE 0]]

(* Variant: only the objects are reconciled.                               *)
CountsReconciledObjectsOnly(s, counts) ==
    counts.objects = emitted_object_counts(s)

(* The count part of certify_schema_snapshot and, once more over the proof *)
(* it wrote, validate_count_reconciliation.                                *)
CountsReconciled(s, counts) ==
    /\ counts.objects = emitted_object_counts(s)
    /\ counts.relationships = emitted_relationship_counts(s)

-----------------------------------------------------------------------------
(* The projection to the graph store.                                      *)

(* A row insert_edge is asked for; by and pos tell two requests apart.     *)
Edge(type, from, to, ordinal, by, pos) ==
    [type |-> type, from |-> from, to |-> to, ordinal |-> ordinal,
     by |-> by, pos |-> pos]

OwnershipEdges(objects, type) ==
    {Edge(<<type>>, o.owner, o.key, None, o.row, 0) : o \in objects}

insert_constraint_edges(s) ==
    OwnershipEdges(s.constraint, "table_has_constraint")
      \cup (UNION {{Edge(<<"column_in", c.key.kind>>, c.columns[i], c.key,
                         None, c.row, i) : i \in DOMAIN c.columns} :
                      c \in s.constraint})
      \cup (UNION {{Edge(<<"fk_to_column">>, c.key, c.referenced[i], None,
                         c.row, i) : i \in DOMAIN c.referenced} :
                      c \in {d \in s.constraint : d.key.kind = "foreign_key"}})

IndexEdges(s) ==
    OwnershipEdges(s.index, "table_has_index")
      \cup UNION {{Edge(<<"column_in_index">>, x.columns[i], x.key, None,
                        x.row, i) : i \in DOMAIN x.columns} : x \in s.index}

(* The kinds a dependency has an edge type for; others are passed over.    *)
Projected(owner) ==
    IF owner = "view" THEN {"table", "column", "view"}
    ELSE {"table", "column"}

DependencyEdges(dependents, kind) ==
    UNION {{Edge(<<kind, "depends_on", d.kind>>, v.key, d, None, v.row, 0) :
               d \in {e \in v.depends_on : e.kind \in Projected(kind)}} :
              v \in dependents}

TriggerEdges(s) ==
    {Edge(<<"has_trigger">>, t.owner, t.key, None, t.row, 0) : t \in s.trigger}
      \cup {Edge(<<"trigger_on">>, t.key, t.owner, None, t.row, 0) :
               t \in s.trigger}
      \cup {Edge(<<"trigger_executes_routine">>, t.key, t.routine, None,
                 t.row, 0) : t \in {u \in s.trigger : u.routine # NoKey}}

MetadataEdges(s) ==
    OwnershipEdges({o \in s.metadata : o.owner # NoKey}, "metadata_parent")
      \cup {Edge(<<"metadata", r.kind>>, r.from, r.to, r.ordinal, r.row, 0) :
               r \in s.relationship}

GraphEdges(s) ==
    OwnershipEdges(s.schema, "database_has_schema")
      \cup OwnershipEdges(s.table, "schema_has_table")
      \cup OwnershipEdges(s.column, "table_has_column")
      \cup insert_constraint_edges(s) \cup IndexEdges(s)
      \cup OwnershipEdges(s.view, "schema_has_view")
      \cup DependencyEdges(s.view, "view")
      \cup TriggerEdges(s)
      \cup OwnershipEdges(s.routine, "schema_has_routine")
      \cup DependencyEdges(s.routine, "routine")
      \cup MetadataEdges(s)

(* The row of an edge, told from others by what edge_key is made of.       *)
EdgeKey(e) ==
    [type |-> e.type, from |-> e.from, to |-> e.to, ordinal |-> e.ordinal]

(* certified_graph_projection_counts, of the emitted counts of the proof.  *)
certified_graph_projection_counts(s) ==
    LET objects == emitted_object_counts(s)
        relationships == emitted_relationship_counts(s)
    IN [nodes |-> Total(objects),
        edges |-> Total(relationships)
                    + relationships.foreign_key_column_pair
                    + Cardinality(s.trigger)]

(* The rows the builder's requests leave.  Both tables are upserted: the   *)
(* second request of a key updates the row of the first.                   *)
NodeRows(s) == KeysOf(AllObjects(s))
EdgeRows(s) == {EdgeKey(e) : e \in GraphEdges(s)}

(* The foreign keys of the edge table.  All nodes are inserted before the  *)
(* first edge, so an edge fails when an end of it is no node at all.       *)
EdgesHaveNodes(s) ==
    \A e \in GraphEdges(s) : {e.from, e.to} \subseteq NodeRows(s)

=============================================================================
