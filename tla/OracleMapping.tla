---------------------------- MODULE OracleMapping ----------------------------
(***************************************************************************)
(* The Oracle adapter between the checked rows and the certification:      *)
(* OracleSnapshotMapper::map and the counts it takes of the rows.          *)
(***************************************************************************)
EXTENDS OracleCatalog

vars == <<snapshot, discovered, stage, graph, server, raw>>

Mapping(at, ok, result, then) ==
    MappingStep(at, ok, result, then) /\ UNCHANGED <<server, raw>>

ValidateCatalog == Mapping("validate", validate_raw_catalog, snapshot, "types")

-----------------------------------------------------------------------------
(* Keys.                                                                   *)

oracle_key(kind, owner, name, sub) == Key(kind, owner, name, sub)
Extension(owner, name, sub) == oracle_key("extension", owner, name, sub)
Principal(name) == oracle_key("principal", "db", name, "")
TypeKey(owner, name) == oracle_key("user_defined_type", owner, name, "")

(* A materialized view takes the place of the table that contains it.      *)
IsMaterialized(owner, name) ==
    <<owner, name>> \in Named(raw.materialized_views)
RelationKey(owner, name) ==
    oracle_key(IF IsMaterialized(owner, name) THEN "materialized_view"
               ELSE "table", owner, name, "")
ViewKey(owner, name) == oracle_key("view", owner, name, "")
ColumnKey(owner, table, name) ==
    oracle_key(IF IsMaterialized(owner, table) THEN "view_column"
               ELSE "column", owner, table, name)
RoutineKey(owner, name) == oracle_key("routine", owner, name, "")
PackageKey(owner, name) == oracle_key("package", owner, name, "")
PackageRoutineKey(r) ==
    oracle_key("routine", r.owner, r.name, oracle_package_routine_signature(r))
MethodText(m) == "method:" \o ToString(m.num) \o ":" \o m.name
MethodKey(m) == oracle_key("routine", m.owner, m.of, MethodText(m))

Base(rows) == {r \in rows : ~IsMaterialized(r.owner, r.table)}

TriggerKey(t) ==
    oracle_key("trigger", t.owner,
               CASE t.base = "SCHEMA" -> t.owner [] t.base = "DATABASE" -> "db"
                 [] OTHER -> t.table, t.name)

Annotated(key) == Object(key, NoKey, <<key.kind, key.name, key.sub>>)
Metadata(key, parent) ==
    Object(key, parent, <<key.kind, key.schema, key.name, key.sub>>)
Link(kind, from, to) == Relationship(kind, from, to, None, <<"">>)

UsesType(key, r) ==
    IF r.type_owner = "" THEN {}
    ELSE {Link("uses_type", key, TypeKey(r.type_owner, r.type))}

-----------------------------------------------------------------------------
(* Schemas, principals and types.                                          *)

AttributeKey(a) ==
    Extension(a.owner, a.of,
              "attribute:" \o ToString(a.pos) \o ":" \o a.name)
MethodOf(p) == CHOOSE m \in raw.type_methods : p \in ParametersOf(m)
MethodParameterKey(p) ==
    oracle_key("routine_parameter", p.owner, p.of,
               MethodText(MethodOf(p)) \o "#parameter:" \o ToString(p.pos)
                 \o ":" \o p.name)

MapTypes ==
    LET owners == Owners(server)
    IN Mapping("types", TRUE,
        [snapshot EXCEPT
            !.schema = {Object(SchemaKey(o), DatabaseKey, <<o>>) :
                           o \in owners},
            !.metadata =
                {Metadata(Principal(o), DatabaseKey) : o \in owners}
                \cup {Metadata(TypeKey(t.owner, t.name), SchemaKey(t.owner)) :
                         t \in raw.user_types}
                \cup {Metadata(AttributeKey(a), TypeKey(a.owner, a.of)) :
                         a \in raw.type_attributes},
            !.relationship =
                {Link("inherits_from", TypeKey(t.owner, t.name),
                      TypeKey(t.super_owner, t.super)) :
                    t \in {u \in raw.user_types : u.super # ""}}
                \cup UNION {UsesType(AttributeKey(a), a) :
                               a \in raw.type_attributes}
                \cup UNION {UsesType(TypeKey(c.owner, c.name), c) :
                               c \in raw.collection_types}],
        "methods")

(* A result is at position 0, so that ordinals are positions plus one.     *)
MapMethods ==
    Mapping("methods", TRUE,
        [snapshot EXCEPT
            !.metadata = @
                \cup {Metadata(MethodKey(m), TypeKey(m.owner, m.of)) :
                         m \in raw.type_methods}
                \cup {Metadata(MethodParameterKey(p), MethodKey(MethodOf(p))) :
                         p \in raw.type_method_parameters},
            !.relationship = @
                \cup {Relationship("has_parameter", MethodKey(MethodOf(p)),
                                   MethodParameterKey(p), p.pos + 1, <<"">>) :
                         p \in raw.type_method_parameters}
                \cup UNION {UsesType(MethodParameterKey(p), p) :
                               p \in raw.type_method_parameters}],
        "relations")

-----------------------------------------------------------------------------
(* Sequences, materialized views, tables, views and columns of views.      *)

SequenceKey(owner, name) == oracle_key("sequence", owner, name, "")

MappedSequences ==
    {Metadata(SequenceKey(q.owner, q.name), SchemaKey(q.owner)) :
        q \in raw.sequences}
MappedMaterializedViews ==
    {Metadata(RelationKey(v.owner, v.name), SchemaKey(v.owner)) :
        v \in raw.materialized_views}
MappedTables ==
    {Object(RelationKey(t.owner, t.name), SchemaKey(t.owner),
            <<t.owner, t.name>>) :
        t \in {u \in raw.tables : ~IsMaterialized(u.owner, u.name)}}
MappedViews ==
    {Dependent(ViewKey(v.owner, v.name), SchemaKey(v.owner), {},
               <<v.owner, v.name>>) : v \in raw.views}

ViewColumnKey(c) == oracle_key("view_column", c.owner, c.table, c.name)
MappedViewColumns ==
    {Metadata(ViewColumnKey(c), ViewKey(c.owner, c.table)) :
        c \in raw.view_columns}
MaterializedColumns == raw.columns \ Base(raw.columns)
MappedMaterializedColumns ==
    {Metadata(ViewColumnKey(c), RelationKey(c.owner, c.table)) :
        c \in MaterializedColumns}

AnnotatedAll(objects) == {Annotated(o.key) : o \in objects}

MapRelations ==
    Mapping("relations", TRUE,
        [snapshot EXCEPT
            !.table = MappedTables,
            !.view = MappedViews,
            !.annotation = AnnotatedAll(MappedTables)
                             \cup AnnotatedAll(MappedViews),
            !.metadata = @ \cup MappedSequences \cup MappedMaterializedViews
                \cup MappedViewColumns \cup MappedMaterializedColumns,
            !.relationship = @ \cup UNION {UsesType(ViewColumnKey(c), c) :
                c \in raw.view_columns \cup MaterializedColumns}],
        "routines")

-----------------------------------------------------------------------------
(* Routines, packages and synonyms.                                        *)

Display(a) == ToString(a.seq) \o ":" \o (IF a.pos = 0 THEN "RETURN" ELSE a.name)
ArgumentKey(a) ==
    oracle_key("routine_parameter", a.owner, a.routine, Display(a))
PackageRoutineOf(a) ==
    CHOOSE r \in raw.package_routines : a \in PackageArgumentsOf(r)
PackageArgumentKey(a) ==
    oracle_key("routine_parameter", a.owner, a.package,
               oracle_package_routine_signature(PackageRoutineOf(a))
                 \o "#" \o Display(a))
SynonymKey(owner, name) == oracle_key("synonym", owner, name, "")

HasParameter(routine, key, a) ==
    Relationship("has_parameter", routine, key, a.seq, <<"">>)

MappedRoutines ==
    {Dependent(RoutineKey(r.owner, r.name), SchemaKey(r.owner), {},
               <<r.owner, r.name>>) : r \in raw.routines}
MappedSynonyms ==
    {Metadata(SynonymKey(y.owner, y.name), SchemaKey(y.owner)) :
        y \in raw.synonyms}
ArgumentLinks ==
    {HasParameter(RoutineKey(a.owner, a.routine), ArgumentKey(a), a) :
        a \in raw.arguments}
      \cup UNION {UsesType(ArgumentKey(a), a) : a \in raw.arguments}

MapRoutines ==
    Mapping("routines", TRUE,
        [snapshot EXCEPT
            !.routine = MappedRoutines,
            !.annotation = @ \cup AnnotatedAll(MappedRoutines),
            !.metadata = @ \cup MappedSynonyms
                \cup {Metadata(ArgumentKey(a), RoutineKey(a.owner, a.routine)) :
                         a \in raw.arguments},
            !.relationship = @ \cup ArgumentLinks],
        "packages")

MappedPackages ==
    {Metadata(PackageKey(p.owner, p.name), SchemaKey(p.owner)) :
        p \in raw.packages}
MappedPackageRoutines ==
    {Metadata(PackageRoutineKey(r), PackageKey(r.owner, r.name)) :
        r \in raw.package_routines}

MapPackages ==
    LET routine(a) == PackageRoutineKey(PackageRoutineOf(a))
    IN Mapping("packages", TRUE,
        [snapshot EXCEPT
            !.metadata = @ \cup MappedPackages \cup MappedPackageRoutines
                \cup {Metadata(PackageArgumentKey(a), routine(a)) :
                         a \in raw.package_arguments},
            !.relationship = @
                \cup {HasParameter(routine(a), PackageArgumentKey(a), a) :
                         a \in raw.package_arguments}
                \cup UNION {UsesType(PackageArgumentKey(a), a) :
                               a \in raw.package_arguments}],
        "dependencies")

-----------------------------------------------------------------------------
(* Dependencies on what is not Oracle's own.                               *)

AppDependencies(types) ==
    {d \in raw.dependencies : d.type \in types /\ ~Maintained(d)}

TargetKey(d) ==
    CASE d.ref_type = "TABLE" -> RelationKey(d.ref_owner, d.ref)
      [] d.ref_type = "VIEW" -> ViewKey(d.ref_owner, d.ref)
      [] d.ref_type = "MATERIALIZED VIEW" ->
            oracle_key("materialized_view", d.ref_owner, d.ref, "")
      [] d.ref_type = "SEQUENCE" -> SequenceKey(d.ref_owner, d.ref)
      [] d.ref_type \in {"FUNCTION", "PROCEDURE"} ->
            RoutineKey(d.ref_owner, d.ref)
      [] d.ref_type = "PACKAGE" -> PackageKey(d.ref_owner, d.ref)
      [] d.ref_type = "SYNONYM" -> SynonymKey(d.ref_owner, d.ref)
      [] OTHER -> TypeKey(d.ref_owner, d.ref)

(* Only synonyms and types may depend on a synonym.                        *)
NoSynonyms(types) ==
    \A d \in AppDependencies(types) : d.ref_type # "SYNONYM"

(* A link per row: the type it is recorded with tells two rows apart.      *)
DependencyLink(kind, from, d) ==
    Relationship(kind, from, TargetKey(d), None, <<d.ref_type>>)

SynonymLinks ==
    {DependencyLink("synonym_for", SynonymKey(d.owner, d.name), d) :
        d \in AppDependencies({"SYNONYM"})}

(* Views and routines: a type is a link, anything else is in depends_on.   *)
DependsOn(o, types) ==
    {TargetKey(d) : d \in {e \in AppDependencies(types) :
        e.owner = o.schema /\ e.name = o.name /\ e.ref_type # "TYPE"}}
TypeLinks(types) ==
    {DependencyLink("depends_on",
                    IF d.type = "VIEW" THEN ViewKey(d.owner, d.name)
                    ELSE RoutineKey(d.owner, d.name), d) :
        d \in {e \in AppDependencies(types) : e.ref_type = "TYPE"}}
RoutineType == {"FUNCTION", "PROCEDURE"}

(* Variant: a view's own container is one of its dependencies.             *)
MaterializedDependenciesOnItself == AppDependencies({"MATERIALIZED VIEW"})

(* Not the container of the view itself.                                   *)
MaterializedDependencies ==
    {d \in AppDependencies({"MATERIALIZED VIEW"}) :
        ~(d.ref_type = "TABLE" /\ d.owner = d.ref_owner /\ d.name = d.ref)}
MaterializedLinks ==
    {DependencyLink(
        IF \/ d.ref_type = "VIEW"
           \/ d.ref_type = "TABLE" /\ ~IsMaterialized(d.ref_owner, d.ref)
        THEN "materializes" ELSE "depends_on",
        RelationKey(d.owner, d.name), d) : d \in MaterializedDependencies}

(* The rows of a specification and of its body, without that of the body   *)
(* on the specification, are taken together.                               *)
Grouped(spec, body) ==
    {[owner |-> d.owner, name |-> d.name, ref_owner |-> d.ref_owner,
      ref |-> d.ref, ref_type |-> d.ref_type] :
        d \in {e \in AppDependencies({spec, body}) :
                  ~(/\ e.type = body /\ e.ref_type = spec
                    /\ e.owner = e.ref_owner /\ e.name = e.ref)}}
oracle_package_dependency_groups == Grouped("PACKAGE", "PACKAGE BODY")
oracle_type_dependency_groups == Grouped("TYPE", "TYPE BODY")

MapDependencies ==
    Mapping("dependencies",
        NoSynonyms({"VIEW", "MATERIALIZED VIEW", "PACKAGE", "PACKAGE BODY"}
                     \cup RoutineType),
        [snapshot EXCEPT
            !.view = {Dependent(v.key, v.owner, DependsOn(v.key, {"VIEW"}),
                                v.row) : v \in @},
            !.routine = {Dependent(r.key, r.owner,
                                   DependsOn(r.key, RoutineType), r.row) :
                            r \in @},
            !.relationship = @ \cup SynonymLinks \cup MaterializedLinks
                \cup TypeLinks({"VIEW"} \cup RoutineType)
                \cup {DependencyLink("depends_on",
                                     PackageKey(g.owner, g.name), g) :
                         g \in oracle_package_dependency_groups}
                \cup {DependencyLink("depends_on",
                                     TypeKey(g.owner, g.name), g) :
                         g \in oracle_type_dependency_groups}],
        "columns")

-----------------------------------------------------------------------------
(* Columns, constraints and indexes.                                       *)

MapColumns ==
    LET key(c) == ColumnKey(c.owner, c.table, c.name)
        columns == Base(raw.columns)
    IN Mapping("columns", TRUE,
        [snapshot EXCEPT
            !.column = {Column(key(c), RelationKey(c.owner, c.table), c.num,
                               <<c.owner, c.table, c.name>>) : c \in columns},
            !.annotation = @ \cup {Annotated(key(c)) : c \in columns},
            !.relationship = @
                \cup {Link("uses_sequence",
                           ColumnKey(i.owner, i.table, i.column),
                           SequenceKey(i.owner, i.sequence)) :
                         i \in Base(raw.identity_columns)}
                \cup UNION {UsesType(key(c), c) : c \in columns}],
        "constraints")

(* By position; the columns of a check have none.                          *)
InPosition(columns) == SetToSortSeq(columns, LAMBDA c, d : c.pos <= d.pos)
resolve_named_columns(owner, table, columns) ==
    LET sorted == InPosition(columns)
    IN [n \in DOMAIN sorted |-> ColumnKey(owner, table, sorted[n].name)]

KindOf(k) ==
    CASE k.type = "P" -> "primary_key" [] k.type = "U" -> "unique_constraint"
      [] k.type = "R" -> "foreign_key" [] OTHER -> "check_constraint"
ConstraintKey(k) == oracle_key(KindOf(k), k.owner, k.table, k.name)
Referenced(k) ==
    CHOOSE r \in raw.constraints : r.owner = k.ref_owner /\ r.name = k.ref

ConstraintOf(k) ==
    LET foreign == k.type = "R"
        columns(c) == resolve_named_columns(c.owner, c.table,
                                            ConstraintColumns(c))
    IN Constraint(ConstraintKey(k), RelationKey(k.owner, k.table), columns(k),
                  IF foreign THEN RelationKey(Referenced(k).owner,
                                              Referenced(k).table)
                  ELSE NoKey,
                  IF foreign THEN columns(Referenced(k)) ELSE <<>>,
                  k.type = "C", <<k.owner, k.name>>)

(* The constraints of a materialized view are metadata.                    *)
MapConstraints ==
    LET materialized == raw.constraints \ Base(raw.constraints)
    IN Mapping("constraints",
        \A k \in raw.constraints :
            k.type = "R" => ~IsMaterialized(k.ref_owner, Referenced(k).table),
        [snapshot EXCEPT
            !.constraint = {ConstraintOf(k) : k \in Base(raw.constraints)},
            !.annotation = @ \cup {Annotated(ConstraintKey(k)) :
                                      k \in Base(raw.constraints)},
            !.metadata = @ \cup {Metadata(ConstraintKey(k),
                                          RelationKey(k.owner, k.table)) :
                                    k \in materialized},
            !.relationship = @ \cup UNION {
                {Relationship("oracle_constraint_column", ConstraintKey(k),
                              ColumnKey(k.owner, k.table, c.name),
                              IF c.pos = 0 THEN None ELSE c.pos, <<"">>) :
                    c \in ConstraintColumns(k)} : k \in materialized}],
        "indexes")

IndexKey(i) == oracle_key("index", i.table_owner, i.table, i.name)
DirectColumns(i) == {c \in IndexColumns(i) : ~IsExpression(c)}
OnMaterialized(i) == IsMaterialized(i.table_owner, i.table)

MapIndexes ==
    LET materialized == {i \in raw.indexes : OnMaterialized(i)}
        direct == raw.indexes \ materialized
        at(i) == RelationKey(i.table_owner, i.table)
    IN Mapping("indexes", TRUE,
        [snapshot EXCEPT
            !.index = {Index(IndexKey(i), at(i),
                             resolve_named_columns(i.table_owner, i.table,
                                                   DirectColumns(i)),
                             i.type \in FunctionBased, <<i.owner, i.name>>) :
                          i \in direct},
            !.annotation = @ \cup {Annotated(IndexKey(i)) : i \in direct},
            !.metadata = @ \cup {Metadata(IndexKey(i), at(i)) :
                                    i \in materialized},
            !.relationship = @ \cup UNION {
                {Relationship("includes_column", IndexKey(i),
                              ColumnKey(i.table_owner, i.table, c.name),
                              c.pos, <<"">>) : c \in DirectColumns(i)} :
                i \in materialized}],
        "partitions")

-----------------------------------------------------------------------------
(* Partitions and LOBs.                                                    *)

PartitionKey(owner, table, part) ==
    Extension(owner, table, "partition:" \o part)
SubpartitionKey(owner, table, part, sub) ==
    Extension(owner, table, "partition:" \o part \o ":subpartition:" \o sub)

(* Under the table of the index.                                           *)
IndexOf(p) ==
    CHOOSE i \in raw.indexes : i.owner = p.owner /\ i.name = p.name
IndexPartitionKey(p) ==
    Extension(p.owner, IndexOf(p).table,
              "index:" \o p.name \o ":partition:" \o p.part)
IndexSubpartitionKey(q) ==
    Extension(q.owner, IndexOf(q).table,
              "index:" \o q.name \o ":partition:" \o q.part
                \o ":subpartition:" \o q.sub)

MappedTablePartitions ==
    {Metadata(PartitionKey(p.owner, p.name, p.part),
              RelationKey(p.owner, p.name)) : p \in raw.table_partitions}
MappedTableSubpartitions ==
    {Metadata(SubpartitionKey(q.owner, q.name, q.part, q.sub),
              PartitionKey(q.owner, q.name, q.part)) :
        q \in raw.table_subpartitions}
MappedIndexPartitions ==
    {Metadata(IndexPartitionKey(p), IndexKey(IndexOf(p))) :
        p \in raw.index_partitions}
MappedIndexSubpartitions ==
    {Metadata(IndexSubpartitionKey(q), IndexPartitionKey(q)) :
        q \in raw.index_subpartitions}

MapPartitions ==
    Mapping("partitions", TRUE,
        [snapshot EXCEPT !.metadata = @
            \cup MappedTablePartitions \cup MappedTableSubpartitions
            \cup MappedIndexPartitions \cup MappedIndexSubpartitions],
        "lobs")

LobKey(l) ==
    Extension(l.owner, l.table, "column:" \o l.column \o ":lob:" \o l.name)
LobPartitionKey(p) ==
    Extension(p.owner, p.table,
              LobKey(LobOf(p)).sub \o ":partition:" \o p.part)
LobSubpartitionKey(q) ==
    Extension(q.owner, q.table, LobPartitionKey(q).sub \o ":subpartition:"
                                  \o q.sub)
SubpartitionOf(q) ==
    CHOOSE t \in raw.table_subpartitions :
        t.owner = q.owner /\ t.name = q.table /\ t.sub = q.table_sub

MappedLobs ==
    {Metadata(LobKey(l), ColumnKey(l.owner, l.table, l.column)) :
        l \in raw.lobs}
MappedLobPartitions ==
    {Metadata(LobPartitionKey(p), LobKey(LobOf(p))) : p \in raw.lob_partitions}
LobPartitionLinks ==
    {Relationship("oracle_lob_partition_storage", LobPartitionKey(p),
                  PartitionKey(p.owner, p.table, p.table_part), p.pos,
                  <<"">>) : p \in raw.lob_partitions}
MappedLobSubpartitions ==
    {Metadata(LobSubpartitionKey(q), LobPartitionKey(q)) :
        q \in raw.lob_subpartitions}
LobSubpartitionLinks ==
    {Relationship("oracle_lob_subpartition_storage", LobSubpartitionKey(q),
                  SubpartitionKey(q.owner, q.table, SubpartitionOf(q).part,
                                  q.table_sub), q.pos, <<"">>) :
        q \in raw.lob_subpartitions}

(* The column of a LOB is looked up among those of tables.                 *)
MapLobs ==
    Mapping("lobs", \A l \in raw.lobs : ~IsMaterialized(l.owner, l.table),
        [snapshot EXCEPT
            !.metadata = @ \cup MappedLobs \cup MappedLobPartitions
                           \cup MappedLobSubpartitions,
            !.relationship = @ \cup LobPartitionLinks
                               \cup LobSubpartitionLinks],
        "triggers")

-----------------------------------------------------------------------------
(* Triggers.                                                               *)

OnRelation(t) == t.base \in {"TABLE", "VIEW"}
TriggerOf(d) ==
    CHOOSE t \in raw.triggers : t.owner = d.owner /\ t.name = d.name

(* Not the relation the trigger is on.                                     *)
TriggerDependencies ==
    {d \in AppDependencies({"TRIGGER"}) :
        LET t == TriggerOf(d)
        IN ~(/\ OnRelation(t) /\ d.ref_owner = t.table_owner
             /\ d.ref = t.table /\ d.ref_type = t.base)}

MapTriggers ==
    LET typed == {t \in raw.triggers : OnRelation(t)}
        parent(t) == CASE t.base = "SCHEMA" -> SchemaKey(t.owner)
                       [] t.base = "DATABASE" -> DatabaseKey
                       [] t.base = "VIEW" -> ViewKey(t.table_owner, t.table)
                       [] OTHER -> RelationKey(t.table_owner, t.table)
    IN Mapping("triggers",
        \A d \in TriggerDependencies : d.ref_type # "SYNONYM",
        [snapshot EXCEPT
            !.trigger = {Trigger(TriggerKey(t), parent(t), t.events, NoKey,
                                 <<t.owner, t.name>>) : t \in typed},
            !.annotation = @ \cup {Annotated(TriggerKey(t)) : t \in typed},
            !.metadata = @ \cup {Metadata(TriggerKey(t), parent(t)) :
                                    t \in raw.triggers \ typed},
            !.relationship = @ \cup
                {DependencyLink(IF d.ref_type \in RoutineType THEN "invokes"
                                ELSE "depends_on",
                                TriggerKey(TriggerOf(d)), d) :
                    d \in TriggerDependencies}],
        "count")

-----------------------------------------------------------------------------
(* discovery_counts_from_catalog.                                          *)

OnView(rows) == Cardinality(rows) - Cardinality(Base(rows))
OnViewIndexes == {i \in raw.indexes : OnMaterialized(i)}

Partitions ==
    Cardinality(raw.table_partitions) + Cardinality(raw.table_subpartitions)
      + Cardinality(raw.index_partitions)
      + Cardinality(raw.index_subpartitions) + Cardinality(raw.lobs)
      + Cardinality(raw.lob_partitions) + Cardinality(raw.lob_subpartitions)
Parameters ==
    Cardinality(raw.arguments) + Cardinality(raw.package_arguments)
      + Cardinality(raw.type_method_parameters)

CountedObjects ==
    LET owners == Cardinality(Owners(server))
        constraints(type) ==
            Cardinality({k \in raw.constraints : k.type = type})
    IN [database |-> 1, schema |-> owners, principal |-> owners,
        table |-> Cardinality(raw.tables)
                    - Cardinality({t \in raw.tables :
                                      IsMaterialized(t.owner, t.name)}),
        column |-> Cardinality(Base(raw.columns)),
        index |-> Cardinality(raw.indexes),
        sequence |-> Cardinality(raw.sequences),
        view |-> Cardinality(raw.views),
        synonym |-> Cardinality(raw.synonyms),
        user_defined_type |-> Cardinality(raw.user_types),
        extension |-> Cardinality(raw.type_attributes) + Partitions,
        trigger |-> Cardinality(raw.triggers),
        routine |-> Cardinality(raw.routines)
                      + Cardinality(raw.package_routines)
                      + Cardinality(raw.type_methods),
        routine_parameter |-> Parameters,
        package |-> Cardinality(raw.packages),
        view_column |-> Cardinality(raw.view_columns) + OnView(raw.columns),
        materialized_view |-> Cardinality(raw.materialized_views),
        primary_key |-> constraints("P"), foreign_key |-> constraints("R"),
        unique_constraint |-> constraints("U"),
        check_constraint |-> constraints("C")]

CountedParents ==
    Cardinality(Owners(server)) + Cardinality(raw.sequences)
      + Cardinality(raw.synonyms) + Cardinality(raw.user_types)
      + Cardinality(raw.type_attributes) + Partitions
      + Cardinality(raw.type_methods) + Parameters
      + Cardinality(raw.view_columns) + Cardinality(raw.materialized_views)
      + OnView(raw.columns) + OnView(raw.constraints)
      + Cardinality(OnViewIndexes) + Cardinality(raw.packages)
      + Cardinality(raw.package_routines)
      + Cardinality({t \in raw.triggers : ~OnRelation(t)})

CountedReferences ==
    LET typed(rows) == Cardinality({r \in rows : r.type_owner # ""})
    IN typed(raw.type_attributes) + typed(raw.collection_types)
         + typed(raw.type_method_parameters) + typed(raw.columns)
         + typed(raw.view_columns) + typed(raw.arguments)
         + typed(raw.package_arguments)
         + Cardinality({t \in raw.user_types : t.super_owner # ""})

CountedDependencies(types, on_type) ==
    Cardinality({d \in AppDependencies(types) :
                    d.ref_type = "TYPE" <=> on_type})

(* The two filters of the mapping, written again over the rows.            *)
materialized_view_dependency_count ==
    Cardinality({d \in AppDependencies({"MATERIALIZED VIEW"}) :
        <<d.ref_type, d.ref_owner, d.ref>> # <<"TABLE", d.owner, d.name>>})
trigger_dependency_count ==
    Cardinality({d \in AppDependencies({"TRIGGER"}) :
        \A t \in raw.triggers :
            (OnRelation(t) /\ t.owner = d.owner /\ t.name = d.name) =>
                <<d.ref_owner, d.ref, d.ref_type>>
                  # <<t.table_owner, t.table, t.base>>})

CountedRelationships ==
    LET columns(k) == Cardinality(ConstraintColumns(k))
        direct(i) == Cardinality(DirectColumns(i))
        constraints == Base(raw.constraints)
        foreign == {k \in constraints : k.type = "R"}
    IN [database_has_schema |-> Cardinality(Owners(server)),
        schema_has_table |-> CountedObjects.table,
        table_has_column |-> Cardinality(Base(raw.columns)),
        table_has_constraint |-> Cardinality(constraints),
        constraint_column |-> SumOver(constraints \ foreign, columns),
        foreign_key_column_pair |-> SumOver(foreign, columns),
        table_has_index |-> Cardinality(raw.indexes \ OnViewIndexes),
        index_column |-> SumOver(raw.indexes \ OnViewIndexes, direct),
        schema_has_view |-> Cardinality(raw.views),
        view_dependency |-> CountedDependencies({"VIEW"}, FALSE),
        trigger_target |->
            Cardinality({t \in raw.triggers : OnRelation(t)}),
        schema_has_routine |-> Cardinality(raw.routines),
        routine_dependency |-> CountedDependencies(RoutineType, FALSE),
        metadata_parent |-> CountedParents,
        metadata_relationship |->
            Cardinality(raw.identity_columns)
              + materialized_view_dependency_count
              + trigger_dependency_count
              + Cardinality(AppDependencies({"SYNONYM"}))
              + Cardinality(oracle_type_dependency_groups)
              + CountedReferences
              + CountedDependencies({"VIEW"} \cup RoutineType, TRUE)
              + Parameters
              + Cardinality(oracle_package_dependency_groups)
              + Cardinality(raw.lob_partitions)
              + Cardinality(raw.lob_subpartitions)
              + SumOver(raw.constraints \ constraints, columns)
              + SumOver(OnViewIndexes, direct)]

(* The counts are compared by the certification only.                      *)
Count ==
    /\ stage = "count"
    /\ discovered' = Counts(CountedObjects, CountedRelationships)
    /\ stage' = "certify"
    /\ UNCHANGED <<snapshot, graph, server, raw>>

-----------------------------------------------------------------------------

OracleInit(servers) ==
    /\ PipelineInit("read")
    /\ server \in servers
    /\ raw = NoRows

Done == Ended /\ UNCHANGED vars

OracleNext ==
    \/ ReadCatalog \/ ValidateCatalog \/ MapTypes \/ MapMethods
    \/ MapRelations \/ MapRoutines \/ MapPackages \/ MapDependencies
    \/ MapColumns \/ MapConstraints \/ MapIndexes \/ MapPartitions
    \/ MapLobs \/ MapTriggers \/ Count
    \/ Certify /\ UNCHANGED <<server, raw>>
    \/ Store /\ UNCHANGED <<server, raw>>
    \/ Done

OracleSpec(servers) == OracleInit(servers) /\ [][OracleNext]_vars

-----------------------------------------------------------------------------
(* Properties.                                                             *)

OracleTypeOK ==
    /\ PipelineTypeOK
    /\ stage \in LateStage \cup
          {"read", "validate", "types", "methods", "relations", "routines",
           "packages", "dependencies", "columns", "constraints", "indexes",
           "partitions", "lobs", "triggers", "count"}
    /\ \A k \in DOMAIN NoRows \cap DOMAIN server : raw[k] \subseteq server[k]
    /\ raw.view_columns \subseteq server.columns
    /\ raw.routines \cup raw.packages \cup raw.package_routines
         \subseteq server.procedures
    /\ raw.package_arguments \subseteq server.arguments

(* The counts taken of the rows are those of what the mapping made of      *)
(* them, the relations that a materialized view moves to another category  *)
(* included: the certification never refuses a catalog because of them.    *)
OracleCountsAgree ==
    stage = "count" =>
        CountsReconciled(snapshot,
                         Counts(CountedObjects, CountedRelationships))

(* What the selected owners have that the dictionary lists and an analysis *)
(* is to have a node for.                                                  *)
ListedObjects(s) ==
    {o \in OfOwners(s, s.inventory) :
        /\ ~o.maintained /\ ~o.secondary /\ ~Recycled(s, o.owner, o.name)
        /\ o.type = "INDEX" =>
              ~\E l \in s.lobs : l.owner = o.owner /\ l.index = o.name}

NodeOf(o) ==
    CASE o.type = "TABLE" -> RelationKey(o.owner, o.name)
      [] o.type = "VIEW" -> ViewKey(o.owner, o.name)
      [] o.type = "MATERIALIZED VIEW" ->
            oracle_key("materialized_view", o.owner, o.name, "")
      [] o.type = "SEQUENCE" -> SequenceKey(o.owner, o.name)
      [] o.type = "SYNONYM" -> SynonymKey(o.owner, o.name)
      [] o.type \in RoutineType -> RoutineKey(o.owner, o.name)
      [] o.type \in {"PACKAGE", "PACKAGE BODY"} ->
            PackageKey(o.owner, o.name)
      [] OTHER -> TypeKey(o.owner, o.name)

(* Even if a row is missing from one of the views, a stored snapshot has a *)
(* node for every object the dictionary lists: tables, views, types and    *)
(* code by their names, indexes and triggers under their relations, and as *)
(* many extensions as there are LOBs, partitions and attributes.           *)
OracleInventoryIsStored ==
    stage = "stored" =>
        LET objects == ListedObjects(server)
            parts == {o \in objects :
                         /\ o.type \in PartitionType \cup {"LOB"}
                         /\ ~\E l \in server.lobs : l.index = o.name}
            under == {"INDEX", "TRIGGER"}
            attributes(t) == t.attributes
        IN /\ \A o \in objects :
                 IF o.type \in under
                 THEN \E k \in graph.nodes : /\ k.kind \in {"index", "trigger"}
                                             /\ k.schema = o.owner
                                             /\ k.sub = o.name
                 ELSE o.type \notin PartitionType \cup {"LOB"} =>
                          NodeOf(o) \in graph.nodes
           /\ Cardinality({k \in graph.nodes : k.kind = "extension"})
                = Cardinality(parts)
                    + SumOver(read_user_types(server), attributes)

(* The dependencies of the selected owners that are not on Oracle's own.   *)
AppUses(s) ==
    {d \in read_dependencies(s) :
        ~\E u \in s.users : u.name = d.ref_owner /\ u.maintained}

(* A foreign key's columns are paired by position with those of the key it *)
(* refers to, and what an object depends on is linked to it.               *)
OracleReferencesAreStored ==
    (stage = "stored" /\ ~server.lossy) =>
        LET at(columns, n) == CHOOSE c \in columns : c.pos = n
            edge(type, from, to) ==
                \E e \in graph.edges : /\ e.type = type
                                       /\ e.from = from /\ e.to = to
        IN /\ \A k \in {c \in raw.constraints : c.type = "R"} :
                 LET r == Referenced(k)
                     columns == ConstraintColumns(k)
                     targets == ConstraintColumns(r)
                 IN \E f \in snapshot.constraint :
                       /\ f.key = ConstraintKey(k)
                       /\ Len(f.columns) = Cardinality(columns)
                       /\ \A n \in 1..Cardinality(columns) :
                             /\ f.columns[n] = ColumnKey(k.owner, k.table,
                                                      at(columns, n).name)
                             /\ f.referenced[n] = ColumnKey(r.owner, r.table,
                                                      at(targets, n).name)
                             /\ edge(<<"column_in", "foreign_key">>,
                                     f.columns[n], f.key)
                             /\ edge(<<"fk_to_column">>, f.key,
                                     f.referenced[n])
           /\ \A d \in AppUses(server) :
                 d.name # d.ref =>
                     \E e \in graph.edges :
                         /\ e.to.schema = d.ref_owner /\ e.to.name = d.ref
                         /\ e.from.schema = d.owner
                         /\ d.name \in {e.from.name, e.from.sub}

(* A definition that runs text: EXECUTE IMMEDIATE, DBMS_SQL and a cursor   *)
(* that is opened for anything but a query.                                *)
OpensText(tokens) ==
    \E n, f \in DOMAIN tokens :
        /\ n < f /\ tokens[n] = "OPEN" /\ tokens[f] = "FOR"
        /\ \A m \in n..f : tokens[m] # ";"
        /\ f < Len(tokens) => tokens[f + 1] \notin {"SELECT", "WITH"}
RunsPlsqlText(tokens) ==
    \/ \E n \in DOMAIN tokens : \/ tokens[n] = "IMMEDIATE"
                                \/ tokens[n] = "DBMS_SQL"
    \/ OpensText(tokens)

(* A stored routine runs no text: its dependencies are in the dictionary.  *)
OracleDynamicSqlFailsClosed ==
    stage = "stored" =>
        \A r \in raw.routines : ~RunsPlsqlText(Source(r, r.type))

-----------------------------------------------------------------------------
(* What is refused, said of what is declared.                              *)

(* A feature of one object.                                                *)
UnsupportedObject(s) ==
    \/ \E o \in ListedObjects(s) : ~o.valid \/ o.type \notin SupportedType
    \/ \E t \in read_tables(s) : t.special
    \/ \E v \in read_views(s) : v.typed \/ v.large \/ ~v.text
    \/ \E v \in read_materialized_views(s) :
          v.large \/ ~v.text \/ ~v.compiled \/ v.link # ""
    \/ \E t \in read_user_types(s) : t.incomplete
    \/ \E i \in read_indexes(s) : i.type \notin Plain \cup FunctionBased
    \/ \E t \in read_triggers(s) :
          t.base \in {"TABLE", "VIEW"} /\ t.owner # t.table_owner
    \/ \E r \in read_routines(s) :
          reject_dynamic_plsql(Text(Lines(s, r.owner, r.name, r.type)))

(* Objects of a table in the recycle bin that keep their own names.        *)
LeftInRecycleBin(s) ==
    \/ \E t \in read_triggers(s) : Recycled(s, t.table_owner, t.table)
    \/ \E l \in read_lobs(s) : Recycled(s, l.owner, l.table)
    \/ \E h \in read_partitioned_tables(s) : Recycled(s, h.owner, h.name)

(* What a materialized view has that is looked up among tables.            *)
UsesView(s) ==
    LET on(r) == <<r.owner, r.table>> \in Named(s.materialized_views)
    IN \/ \E l \in read_lobs(s) : on(l)
       \/ \E k \in read_constraints(s), r \in s.constraints :
             /\ k.type = "R" /\ on(r)
             /\ r.owner = k.ref_owner /\ r.name = k.ref

(* An object outside, a synonym, or what a view or a routine has no edge   *)
(* for.                                                                    *)
UnsupportedUse(s) ==
    \/ \E d \in read_dependencies(s) :
          d.ref_owner \notin {u.name : u \in s.users}
    \/ \E d \in AppUses(s) :
          \/ d.ref_owner \notin Owners(s)
          \/ d.ref_type = "SYNONYM" /\ d.type # "SYNONYM"
          \/ /\ d.type \in {"VIEW"} \cup RoutineType
             /\ \/ d.ref_type \notin {"TABLE", "TYPE"} \cup
                      (IF d.type = "VIEW" THEN {"VIEW"} ELSE {})
                \/ <<d.ref_owner, d.ref>> \in Named(s.materialized_views)

UnsupportedServer(s) ==
    \/ ~ScopeReadable(s) \/ OfOwners(s, s.links) # {}
    \/ UnsupportedObject(s) \/ LeftInRecycleBin(s)
    \/ UsesView(s) \/ UnsupportedUse(s)

(* A dictionary that lost nothing is stored unless it is one of these.     *)
OracleStoredUnlessUnsupported ==
    (Ended /\ ~server.lossy) =>
        (stage = "stored" <=> ~UnsupportedServer(server))

=============================================================================
