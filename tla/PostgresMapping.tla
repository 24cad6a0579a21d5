--------------------------- MODULE PostgresMapping ---------------------------
(***************************************************************************)
(* The PostgreSQL and YugabyteDB adapter between pg_catalog and the        *)
(* certification: the rows of the selected schemas are read in one         *)
(* repeatable-read transaction, resolved by oid, mapped and counted again. *)
(*                                                                         *)
(* A server is the rows of its pg_catalog; an oid is a string, "" is NULL  *)
(* or oid 0, and a table is identified by its oid in every other catalog.  *)
(* YugabyteDB's physical properties come from a function of its own, which *)
(* may miss a relation.                                                    *)
(***************************************************************************)
EXTENDS Certification, SequencesExt

VARIABLES
    server,         \* the server, with the scope requested of it
    raw             \* RawPostgresCatalog

vars == <<snapshot, discovered, stage, graph, server, raw>>

System == {"pg_catalog", "information_schema"}
is_system_schema(schema) == schema \in System

TableRel == {"r", "p", "f"}
ReadRel == TableRel \cup {"v", "m", "S", "c"}

-----------------------------------------------------------------------------
(* The scope and the rows: every query joins to the schema of its owner.   *)

read_schemas(s) == {n \in s.schemas : ~is_system_schema(n.name)}

Selected(s) ==
    IF s.requested = {} THEN read_schemas(s)
    ELSE {n \in read_schemas(s) : n.name \in s.requested}
Scope(s) == {n.name : n \in Selected(s)}

(* The selected schemas exist, there is one, and all of them are visible.  *)
ScopeReadable(s) ==
    /\ s.requested \subseteq {n.name : n \in read_schemas(s)}
    /\ Selected(s) # {}
    /\ \A n \in Selected(s) : n.usage

RowOf(rows, oid) == CHOOSE r \in rows : r.oid = oid
Oids(rows) == {r.oid : r \in rows}
SchemaOf(rows, oid) == RowOf(rows, oid).schema
InRel(s, oid) == SchemaOf(s.relations, oid) \in Scope(s)
KindIn(s, oid) == RowOf(s.relations, oid).kind

reject_unsupported_relations(s) ==
    \A r \in s.relations :
        r.schema \in Scope(s) => r.kind \in ReadRel \cup {"i", "I"}

read_relations(s) ==
    {r \in s.relations : r.schema \in Scope(s) /\ r.kind \in ReadRel}

read_columns(s) ==
    {c \in s.columns : /\ InRel(s, c.relation)
                       /\ KindIn(s, c.relation) \in ReadRel \ {"S"}
                       /\ ~c.dropped}

(* Constraint triggers and, from version 18 on, NOT NULL are left out.     *)
read_constraints(s) ==
    {k \in s.constraints :
        /\ k.kind \in {"p", "u", "f", "c", "x"}
        /\ IF k.relation # "" THEN InRel(s, k.relation)
           ELSE SchemaOf(s.types, k.domain) \in Scope(s)}

read_indexes(s) == {i \in s.indexes : InRel(s, i.relation)}
read_index_terms(s) ==
    {t \in s.index_terms : t.index \in Oids(read_indexes(s))}
read_types(s) ==
    {t \in s.types : /\ t.schema \in Scope(s)
                     /\ t.kind \in {"b", "c", "d", "e", "r", "m"}}
read_enum_values(s) ==
    {e \in s.enum_values : SchemaOf(s.types, e.type) \in Scope(s)}
read_sequences(s) == {q \in s.sequences : InRel(s, q.relation)}
read_routines(s) == {f \in s.routines : f.schema \in Scope(s)}
read_routine_parameters(s) ==
    {a \in s.routine_parameters :
        SchemaOf(s.routines, a.routine) \in Scope(s)}
read_triggers(s) ==
    {t \in s.triggers : InRel(s, t.relation) /\ ~t.internal}
read_inheritance(s) ==
    {h \in s.inheritance : /\ InRel(s, h.child)
                           /\ KindIn(s, h.child) \in TableRel
                           /\ KindIn(s, h.parent) \in TableRel}
read_view_dependencies(s) ==
    {d \in s.view_dependencies : InRel(s, d.view) /\ d.target # d.view}
read_routine_dependencies(s) ==
    {d \in s.routine_dependencies :
        /\ SchemaOf(s.routines, d.owner) \in Scope(s)
        /\ ~(d.class = "routine" /\ d.target = d.owner)}

(* Owned sequences of the scope, and defaults of columns of the scope that *)
(* call a sequence.  The UNION keeps two rows of different type.           *)
read_sequence_usages(s) ==
    {u \in s.sequence_usages :
        IF u.type = "n" THEN InRel(s, u.relation) ELSE InRel(s, u.sequence)}

read_policies(s) == {p \in s.policies : InRel(s, p.relation)}

(* read_yugabyte_catalog: tablegroups and tablespaces are not scoped.      *)
PhysicalKind(s, oid) ==
    IF oid \in Oids(s.relations) THEN KindIn(s, oid) ELSE "i"
read_yugabyte_catalog(s) ==
    {y \in s.yb_properties :
        /\ PhysicalKind(s, y.oid) \in TableRel \cup {"m", "S", "i", "I"}
        /\ IF y.oid \in Oids(s.relations) THEN InRel(s, y.oid)
           ELSE y.oid \in Oids(read_indexes(s))}

NoRows ==
    [schemas |-> {}, principals |-> {}, relations |-> {}, columns |-> {},
     constraints |-> {}, indexes |-> {}, index_terms |-> {}, types |-> {},
     enum_values |-> {}, sequences |-> {}, routines |-> {},
     routine_parameters |-> {}, triggers |-> {}, inheritance |-> {},
     view_dependencies |-> {}, routine_dependencies |-> {},
     sequence_usages |-> {}, policies |-> {}, extensions |-> {},
     event_triggers |-> {}, yb_properties |-> {}, tablegroups |-> {},
     tablespaces |-> {}]

(* RawPostgresCatalog::read.  Roles, extensions and event triggers are     *)
(* those of the whole database.                                            *)
Rows(s) ==
    [schemas |-> Selected(s), principals |-> s.principals,
     relations |-> read_relations(s), columns |-> read_columns(s),
     constraints |-> read_constraints(s), indexes |-> read_indexes(s),
     index_terms |-> read_index_terms(s), types |-> read_types(s),
     enum_values |-> read_enum_values(s), sequences |-> read_sequences(s),
     routines |-> read_routines(s),
     routine_parameters |-> read_routine_parameters(s),
     triggers |-> read_triggers(s), inheritance |-> read_inheritance(s),
     view_dependencies |-> read_view_dependencies(s),
     routine_dependencies |-> read_routine_dependencies(s),
     sequence_usages |-> read_sequence_usages(s),
     policies |-> read_policies(s), extensions |-> s.extensions,
     event_triggers |-> s.event_triggers,
     yb_properties |-> read_yugabyte_catalog(s),
     tablegroups |-> s.tablegroups, tablespaces |-> s.tablespaces]

(* What yb_table_properties reports: all relations, or all but one.        *)
Reported(s) ==
    {s} \cup {[s EXCEPT !.yb_properties = @ \ {y}] : y \in s.yb_properties}

(* statistics_target: the default is -1 up to version 16, then NULL.       *)
statistics_target(s, value) ==
    \/ value \in {"off", "custom"}
    \/ value = (IF s.version <= 16 THEN "-1" ELSE "")

ReadCatalog ==
    /\ stage = "read"
    /\ \E s \in Reported(server) :
          IF /\ ScopeReadable(s)
             /\ reject_unsupported_relations(s)
             /\ \A c \in read_columns(s) : statistics_target(s, c.stats)
          THEN raw' = Rows(s) /\ stage' = "validate"
          ELSE stage' = "refused" /\ UNCHANGED raw
    /\ UNCHANGED <<snapshot, discovered, graph, server>>

-----------------------------------------------------------------------------
(* validate_raw_catalog.                                                   *)

Mapping(at, ok, result, then) ==
    MappingStep(at, ok, result, then) /\ UNCHANGED <<server, raw>>

Yugabyte == server.product = "YugabyteDB"

(* Variant: only the zero oid is not looked up, whatever the default is.   *)
effective_yugabyte_tablespace_oidAsIs(oid) == oid

effective_yugabyte_tablespace_oid(oid) ==
    IF oid = "" THEN server.default_tablespace ELSE oid

(* A relation without storage has none of the fields.                      *)
StorageBacked(y) == y.tablets > 0
CoherentProperties(y) ==
    /\ StorageBacked(y) \/ (y.group = "" /\ y.colocation = "" /\ ~y.split)
    /\ StorageBacked(y) =>
          /\ y.split => y.hash = 0
          /\ y.colocated <=> y.group # ""
          /\ y.colocated <=> y.colocation # ""
          /\ y.group # "" => y.group \in Oids(raw.tablegroups)
          /\ effective_yugabyte_tablespace_oid(y.tablespace)
                \in Oids(raw.tablespaces)

(* Variant: relations the function left out are not missed.                *)
PhysicalInventoryCoveredOnly ==
    Oids(raw.yb_properties)
      \subseteq Oids({r \in raw.relations : r.kind \notin {"v", "c"}})
                  \cup Oids(raw.indexes)

(* Every physical relation and every index, each once, nothing else.       *)
PhysicalInventory ==
    Oids(raw.yb_properties)
      = Oids({r \in raw.relations : r.kind \notin {"v", "c"}})
          \cup Oids(raw.indexes)

validate_yugabyte_catalog ==
    /\ server.default_tablespace \in Oids(raw.tablespaces)
    /\ \A g \in raw.tablegroups :
          effective_yugabyte_tablespace_oid(g.tablespace)
            \in Oids(raw.tablespaces)
    /\ \A y \in raw.yb_properties : CoherentProperties(y)
    /\ PhysicalInventory

(* Sizes, and routine bodies whose dependencies pg_depend does not have.   *)
Sized ==
    /\ \A r \in raw.relations : ~r.large
    /\ \A k \in raw.constraints : ~k.large
    /\ \A f \in raw.routines : ~f.large

(* Variant: opaque bodies are let through.                                 *)
BodiesTrackedAssumed == TRUE

BodiesTracked == \A f \in raw.routines : f.tracked

Validate ==
    Mapping("validate",
            (Yugabyte => validate_yugabyte_catalog) /\ Sized /\ BodiesTracked,
            snapshot, "types")

-----------------------------------------------------------------------------
(* Keys and lookups: the maps from oid to key.                             *)

pg_key(kind, schema, name, sub) == Key(kind, schema, name, sub)
InDatabase(kind, name) == pg_key(kind, "db", name, "")

Principal(oid) == InDatabase("principal", oid)

TypeKind(t) == IF t.kind = "d" THEN "domain" ELSE "user_defined_type"
HasType(oid) == oid \in Oids(raw.types)
TypeKey(oid) ==
    LET t == RowOf(raw.types, oid) IN pg_key(TypeKind(t), t.schema, t.name, "")

RelationKind(kind) == CASE kind \in TableRel -> "table"
                        [] kind = "v" -> "view"
                        [] kind = "m" -> "materialized_view"
                        [] kind = "S" -> "sequence"
                        [] OTHER -> "none"
Rel(oid) == RowOf(raw.relations, oid)
HasRelation(oid) == oid \in Oids(raw.relations) /\ Rel(oid).kind # "c"
HasTable(oid) == oid \in Oids(raw.relations) /\ Rel(oid).kind \in TableRel
RelationKey(oid) ==
    pg_key(RelationKind(Rel(oid).kind), Rel(oid).schema, Rel(oid).name, "")

HasColumn(oid, num) ==
    \E c \in raw.columns : c.relation = oid /\ c.num = num
ColumnKind(kind) == CASE kind \in TableRel -> "column"
                      [] kind \in {"v", "m"} -> "view_column"
                      [] OTHER -> "extension"
ColumnKey(oid, num) ==
    LET c == CHOOSE c \in raw.columns : c.relation = oid /\ c.num = num
    IN pg_key(ColumnKind(Rel(oid).kind), Rel(oid).schema, Rel(oid).name,
              c.name)

HasRoutine(oid) == oid \in Oids(raw.routines)
RoutineKey(oid) ==
    LET f == RowOf(raw.routines, oid)
    IN pg_key("routine", f.schema, f.name, f.args)

Annotated(key) == Object(key, NoKey, <<key.kind, key.name, key.sub>>)
Metadata(key, parent) == Object(key, parent, <<key.kind, key.name, key.sub>>)
Link(kind, from, to, ordinal, tag) ==
    Relationship(kind, from, to, ordinal, <<tag>>)

(* add_owned_by and the rule of add_type_use: a target outside the scope   *)
(* is passed over when it is the system's and refused otherwise.           *)
HasOwner(rows) == \A r \in rows : r.owner \in Oids(raw.principals)
add_owned_by(key, owner) == Link("owned_by", key, Principal(owner), None, "")

(* Variant: a type outside the scope is passed over.                       *)
TypeInReachAlways(oid) == TRUE

TypeInReach(oid) ==
    HasType(oid) \/ is_system_schema(SchemaOf(server.types, oid))

add_type_use(kind, key, oid) ==
    IF HasType(oid) THEN {Link(kind, key, TypeKey(oid), None, "")} ELSE {}

-----------------------------------------------------------------------------
(* Principals, schemas, types and enum values.                             *)

EnumKey(e) ==
    pg_key("enum_value", TypeKey(e.type).schema, TypeKey(e.type).name, e.label)

MapTypes ==
    Mapping("types", HasOwner(raw.schemas) /\ HasOwner(raw.types),
        [snapshot EXCEPT
            !.schema = {Object(SchemaKey(n.name), DatabaseKey, <<n.name>>) :
                           n \in raw.schemas},
            !.annotation = {Annotated(SchemaKey(n.name)) : n \in raw.schemas},
            !.metadata = {Metadata(Principal(p.oid), DatabaseKey) :
                             p \in raw.principals}
                \cup {Metadata(TypeKey(t.oid), SchemaKey(t.schema)) :
                         t \in raw.types}
                \cup {Metadata(EnumKey(e), TypeKey(e.type)) :
                         e \in raw.enum_values},
            !.relationship = {add_owned_by(SchemaKey(n.name), n.owner) :
                                 n \in raw.schemas}
                \cup {add_owned_by(TypeKey(t.oid), t.owner) :
                         t \in raw.types}],
        "relations")

-----------------------------------------------------------------------------
(* Relations and columns.                                                  *)

OfKind(kinds) == {r \in raw.relations : r.kind \in kinds}
HasSequenceRow(oid) == \E q \in raw.sequences : q.relation = oid

MapRelations ==
    LET tables == OfKind(TableRel)
        views == OfKind({"v"})
        other == OfKind({"m", "S"})
    IN Mapping("relations",
        /\ HasOwner(raw.relations)
        /\ \A q \in OfKind({"S"}) : HasSequenceRow(q.oid),
        [snapshot EXCEPT
            !.table = {Object(RelationKey(r.oid), SchemaKey(r.schema),
                              <<r.oid>>) : r \in tables},
            !.view = {Dependent(RelationKey(r.oid), SchemaKey(r.schema), {},
                                <<r.oid>>) : r \in views},
            !.annotation = @ \cup {Annotated(RelationKey(r.oid)) :
                                      r \in tables \cup views},
            !.metadata = @ \cup {Metadata(RelationKey(r.oid),
                                          SchemaKey(r.schema)) : r \in other},
            !.relationship = @ \cup {add_owned_by(RelationKey(r.oid), r.owner) :
                                        r \in tables \cup views \cup other}],
        "columns")

ColumnsOf(kinds) == {c \in raw.columns : Rel(c.relation).kind \in kinds}
KeyOf(c) == ColumnKey(c.relation, c.num)

(* The attributes of a composite type are extension objects of the type,   *)
(* and only these may have a type outside the scope.                       *)
MapColumns ==
    LET base == ColumnsOf(TableRel)
        output == ColumnsOf({"v", "m"})
        attributes == ColumnsOf({"c"})
        composite(c) == Rel(c.relation).row_type
    IN Mapping("columns",
        /\ \A c \in base \cup output : TypeInReach(c.type)
        /\ \A c \in attributes : HasType(composite(c)),
        [snapshot EXCEPT
            !.column = {Column(KeyOf(c), RelationKey(c.relation), c.num,
                               <<c.relation, c.name>>) : c \in base},
            !.annotation = @ \cup {Annotated(KeyOf(c)) : c \in base},
            !.metadata = @
                \cup {Metadata(KeyOf(c), RelationKey(c.relation)) :
                         c \in output}
                \cup {Metadata(KeyOf(c), TypeKey(composite(c))) :
                         c \in attributes},
            !.relationship = @
                \cup UNION {add_type_use("uses_type", KeyOf(c), c.type) :
                               c \in base \cup output}
                \cup UNION {add_type_use("depends_on", KeyOf(c), c.type) :
                               c \in attributes}],
        "constraints")

-----------------------------------------------------------------------------
(* Constraints.                                                            *)

ConstraintKindOf(k) == CASE k.kind = "p" -> "primary_key"
                         [] k.kind = "u" -> "unique_constraint"
                         [] k.kind = "f" -> "foreign_key"
                         [] k.kind = "c" -> "check_constraint"
                         [] OTHER -> "exclusion_constraint"

Parent(k) == IF k.domain # "" THEN TypeKey(k.domain) ELSE RelationKey(k.relation)
ConstraintKey(k) ==
    pg_key(ConstraintKindOf(k), Parent(k).schema, Parent(k).name, k.name)

(* resolve_columns: no expression and no system column, and all there.     *)
ColumnsResolve(oid, numbers) ==
    \A n \in Elements(numbers) : n > 0 /\ HasColumn(oid, n)
resolve_columns(oid, numbers) ==
    [i \in DOMAIN numbers |-> ColumnKey(oid, numbers[i])]

ConstraintMaps(k) ==
    IF k.domain # "" THEN k.kind = "c" /\ HasType(k.domain)
    ELSE /\ HasTable(k.relation)
         /\ IF k.kind = "x"
            THEN \A n \in Elements(k.columns) :
                    n > 0 => HasColumn(k.relation, n)
            ELSE ColumnsResolve(k.relation, k.columns)
         /\ k.kind = "f" => /\ HasTable(k.ref)
                            /\ ColumnsResolve(k.ref, k.ref_columns)

ConstraintOf(k) ==
    Constraint(ConstraintKey(k), RelationKey(k.relation),
               resolve_columns(k.relation, k.columns),
               IF k.kind = "f" THEN RelationKey(k.ref) ELSE NoKey,
               IF k.kind = "f" THEN resolve_columns(k.ref, k.ref_columns)
               ELSE <<>>,
               k.kind = "c", <<k.relation, k.name>>)

(* Expressions keep their place among the elements of an exclusion.        *)
ExcludesWith(k) ==
    {Link("excludes_with", ConstraintKey(k),
          ColumnKey(k.relation, k.columns[i]), i, "") :
        i \in {j \in DOMAIN k.columns : k.columns[j] > 0}}

MapConstraints ==
    LET typed == {k \in raw.constraints : k.domain = "" /\ k.kind # "x"}
        exclusions == {k \in raw.constraints : k.kind = "x"}
    IN Mapping("constraints",
        \A k \in raw.constraints : ConstraintMaps(k),
        [snapshot EXCEPT
            !.constraint = {ConstraintOf(k) : k \in typed},
            !.annotation = @ \cup {Annotated(ConstraintKey(k)) : k \in typed},
            !.metadata = @ \cup {Metadata(ConstraintKey(k), Parent(k)) :
                                    k \in raw.constraints \ typed},
            !.relationship = @ \cup UNION {ExcludesWith(k) : k \in exclusions}],
        "indexes")

-----------------------------------------------------------------------------
(* Indexes.                                                                *)

group_index_terms(i) == {t \in raw.index_terms : t.index = i.oid}
IndexKey(i) ==
    pg_key("index", Rel(i.relation).schema, Rel(i.relation).name, i.name)

IndexMaps(i) ==
    /\ group_index_terms(i) # {}
    /\ i.relation \in Oids(raw.relations)
    /\ Rel(i.relation).kind \in TableRel \cup {"m"}
    /\ \A t \in group_index_terms(i) :
          t.column > 0 => HasColumn(i.relation, t.column)

(* The key columns in order, each once: a column may come back as a part.  *)
KeyColumns(i) ==
    LET terms == {t \in group_index_terms(i) : t.key /\ t.column > 0}
        first == {t \in terms : ~\E u \in terms : /\ u.column = t.column
                                                 /\ u.ordinal < t.ordinal}
        before(t, u) == t.ordinal < u.ordinal
        sorted == SetToSortSeq(first, before)
    IN [n \in DOMAIN sorted |-> ColumnKey(i.relation, sorted[n].column)]

add_included_columns(i) ==
    {Link("includes_column", IndexKey(i), ColumnKey(i.relation, t.column),
          t.ordinal, "") :
        t \in {u \in group_index_terms(i) : u.column > 0}}

MapIndexes ==
    LET base == {i \in raw.indexes : HasTable(i.relation)}
    IN Mapping("indexes",
        \A i \in raw.indexes : IndexMaps(i),
        [snapshot EXCEPT
            !.index = {Index(IndexKey(i), RelationKey(i.relation),
                             KeyColumns(i), i.expression, <<i.oid>>) :
                          i \in base},
            !.annotation = @ \cup {Annotated(IndexKey(i)) : i \in base},
            !.metadata = @ \cup {Metadata(IndexKey(i),
                                          RelationKey(i.relation)) :
                                    i \in raw.indexes \ base},
            !.relationship = @ \cup UNION {add_included_columns(i) :
                                              i \in raw.indexes}],
        "placement")

-----------------------------------------------------------------------------
(* map_yugabyte_metadata.                                                  *)

Tablespace(oid) == InDatabase("extension", "tablespace:" \o oid)
Tablegroup(oid) == InDatabase("extension", "tablegroup:" \o oid)
PhysicalKey(oid) ==
    IF HasRelation(oid) THEN RelationKey(oid)
    ELSE IndexKey(RowOf(raw.indexes, oid))

UsesTablespace(key, oid) ==
    Link("yugabytedb_uses_tablespace", key,
         Tablespace(effective_yugabyte_tablespace_oid(oid)), None, "")

PlacementOf(y) ==
    (IF StorageBacked(y)
     THEN {UsesTablespace(PhysicalKey(y.oid), y.tablespace)} ELSE {})
    \cup (IF y.group # ""
          THEN {Link("yugabytedb_member_of_tablegroup", PhysicalKey(y.oid),
                     Tablegroup(y.group), None, "")} ELSE {})

(* merge_metadata_properties: a new annotation when the object has none,   *)
(* which is so for the database only.                                      *)
MapPlacement ==
    LET spaces == raw.tablespaces
        groups == raw.tablegroups
    IN Mapping("placement", HasOwner(spaces) /\ HasOwner(groups),
        IF ~Yugabyte THEN snapshot ELSE
        [snapshot EXCEPT
            !.annotation = @ \cup {Annotated(DatabaseKey)},
            !.metadata = @
                \cup {Metadata(Tablespace(p.oid), DatabaseKey) : p \in spaces}
                \cup {Metadata(Tablegroup(g.oid), DatabaseKey) : g \in groups},
            !.relationship = @
                \cup {add_owned_by(Tablespace(p.oid), p.owner) : p \in spaces}
                \cup {add_owned_by(Tablegroup(g.oid), g.owner) : g \in groups}
                \cup {UsesTablespace(Tablegroup(g.oid), g.tablespace) :
                         g \in groups}
                \cup {Link("yugabytedb_default_tablespace", DatabaseKey,
                           Tablespace(server.default_tablespace), None, "")}
                \cup UNION {PlacementOf(y) : y \in raw.yb_properties}],
        "views")

-----------------------------------------------------------------------------
(* Dependencies of views.                                                  *)

(* resolve_relation_dependency.                                            *)
Foreign(d) == ~is_system_schema(SchemaOf(server.relations, d.target))
DependencyResolves(d) ==
    Foreign(d) => IF d.column > 0 THEN HasColumn(d.target, d.column)
                  ELSE HasRelation(d.target)
resolve_relation_dependency(d) ==
    IF d.column > 0 THEN ColumnKey(d.target, d.column)
    ELSE RelationKey(d.target)

is_base_snapshot_kind(kind) == kind \in TypedKind \cup ConstraintKind

ReadsOf(oid) == {d \in raw.view_dependencies : d.view = oid /\ Foreign(d)}
TypedReads(oid) ==
    {resolve_relation_dependency(d) :
        d \in {e \in ReadsOf(oid) :
                  is_base_snapshot_kind(resolve_relation_dependency(e).kind)}}

(* Every dependency once more, numbered per owner.                         *)
Numbered(owner, targets) ==
    LET seq == SetToSeq(targets)
    IN {Link("postgres_catalog_dependency", owner, seq[i], i, "") :
           i \in DOMAIN seq}

(* Of a view, what is no typed object; of a materialized view, all of it.  *)
OtherReads(r) ==
    {Link("depends_on", RelationKey(r.oid), key, None, "") :
        key \in {resolve_relation_dependency(d) : d \in ReadsOf(r.oid)}
                  \ (IF r.kind = "v" THEN TypedReads(r.oid) ELSE {})}

MapViews ==
    Mapping("views",
        \A d \in raw.view_dependencies : DependencyResolves(d),
        [snapshot EXCEPT
            !.view = {Dependent(v.key, v.owner, TypedReads(v.row[1]), v.row) :
                         v \in @},
            !.relationship = @ \cup UNION {
                OtherReads(r)
                  \cup Numbered(RelationKey(r.oid),
                                {resolve_relation_dependency(d) :
                                    d \in ReadsOf(r.oid)}) :
                r \in OfKind({"v", "m"})}],
        "routines")

-----------------------------------------------------------------------------
(* Routines, their parameters and dependencies.                            *)

ParameterKey(a) ==
    pg_key("routine_parameter", RoutineKey(a.routine).schema,
           RoutineKey(a.routine).name,
           RoutineKey(a.routine).sub \o "#" \o ToString(a.ordinal) \o ":"
             \o a.name)

(* resolve_routine_dependency: a target of any of the three classes.       *)
RoutineTarget(d) ==
    CASE d.class = "relation" /\ d.sub > 0 -> HasColumn(d.target, d.sub)
      [] d.class = "relation" -> HasRelation(d.target)
      [] d.class = "routine" -> HasRoutine(d.target)
      [] OTHER -> HasType(d.target)
TargetSchema(d) ==
    CASE d.class = "relation" -> SchemaOf(server.relations, d.target)
      [] d.class = "routine" -> SchemaOf(server.routines, d.target)
      [] OTHER -> SchemaOf(server.types, d.target)
resolve_routine_dependency(d) ==
    CASE d.class = "relation" /\ d.sub > 0 -> ColumnKey(d.target, d.sub)
      [] d.class = "relation" -> RelationKey(d.target)
      [] d.class = "routine" -> RoutineKey(d.target)
      [] OTHER -> TypeKey(d.target)

UsesOf(f) ==
    {resolve_routine_dependency(d) :
        d \in {e \in raw.routine_dependencies :
                  e.owner = f.oid /\ ~is_system_schema(TargetSchema(e))}}

RoutinesResolve ==
    /\ HasOwner(raw.routines)
    /\ \A f \in raw.routines : TypeInReach(f.returns)
    /\ \A a \in raw.routine_parameters :
          HasRoutine(a.routine) /\ a.ordinal > 0 /\ TypeInReach(a.type)
    /\ \A d \in raw.routine_dependencies :
          is_system_schema(TargetSchema(d)) \/ RoutineTarget(d)

MapRoutines ==
    LET parameters == raw.routine_parameters IN
    Mapping("routines", RoutinesResolve,
        [snapshot EXCEPT
            !.routine = {Dependent(RoutineKey(f.oid), SchemaKey(f.schema),
                                   UsesOf(f), <<f.oid>>) : f \in raw.routines},
            !.annotation = @ \cup {Annotated(RoutineKey(f.oid)) :
                                      f \in raw.routines},
            !.metadata = @ \cup {Metadata(ParameterKey(a),
                                          RoutineKey(a.routine)) :
                                    a \in parameters},
            !.relationship = @
                \cup {add_owned_by(RoutineKey(f.oid), f.owner) :
                         f \in raw.routines}
                \cup UNION {add_type_use("returns_type", RoutineKey(f.oid),
                                         f.returns) : f \in raw.routines}
                \cup {Link("has_parameter", RoutineKey(a.routine),
                           ParameterKey(a), a.ordinal, "") : a \in parameters}
                \cup UNION {add_type_use("uses_type", ParameterKey(a),
                                         a.type) : a \in parameters}
                \cup UNION {Numbered(RoutineKey(f.oid), UsesOf(f)) :
                               f \in raw.routines}],
        "triggers")

-----------------------------------------------------------------------------
(* Triggers, inheritance and sequences.                                    *)

TriggerOf(t) ==
    Trigger(pg_key("trigger", Rel(t.relation).schema, Rel(t.relation).name,
                   t.name),
            RelationKey(t.relation), {"INSERT"}, RoutineKey(t.routine),
            <<t.relation, t.name>>)

MapTriggers ==
    Mapping("triggers",
        \A t \in raw.triggers :
            /\ HasRelation(t.relation)
            /\ Rel(t.relation).kind \in TableRel \cup {"v"}
            /\ HasRoutine(t.routine),
        [snapshot EXCEPT
            !.trigger = {TriggerOf(t) : t \in raw.triggers},
            !.annotation = @ \cup {Annotated(TriggerOf(t).key) :
                                      t \in raw.triggers}],
        "inheritance")

MapInheritance ==
    Mapping("inheritance",
        \A h \in raw.inheritance : HasTable(h.child) /\ HasTable(h.parent),
        [snapshot EXCEPT !.relationship = @ \cup
            {Link(IF h.partition THEN "partition_of" ELSE "inherits_from",
                  RelationKey(h.child), RelationKey(h.parent), None, "") :
                h \in raw.inheritance}],
        "sequences")

MapSequences ==
    Mapping("sequences",
        \A u \in raw.sequence_usages :
            /\ HasColumn(u.relation, u.column)
            /\ Rel(u.relation).kind \in TableRel
            /\ HasRelation(u.sequence) /\ Rel(u.sequence).kind = "S",
        [snapshot EXCEPT !.relationship = @ \cup
            {Link("uses_sequence", ColumnKey(u.relation, u.column),
                  RelationKey(u.sequence), None, u.type) :
                u \in raw.sequence_usages}],
        "closure")

-----------------------------------------------------------------------------
(* Relationships of types, policies, extensions and event triggers.        *)

TypeRoles == {"base", "element", "subtype", "multirange"}

TypesReach ==
    \A t \in raw.types : \A role \in TypeRoles :
        t[role] \in {"", t.oid} \/ TypeInReach(t[role])

add_type_relationships(t) ==
    {Link("depends_on", TypeKey(t.oid), TypeKey(t[role]), None, role) :
        role \in {r \in TypeRoles : /\ t[r] \notin {"", t.oid}
                                    /\ HasType(t[r])}}
    \cup (IF t.relation # "" /\ HasRelation(t.relation)
          THEN {Link("depends_on", TypeKey(t.oid), RelationKey(t.relation),
                     None, "relation")} ELSE {})

PolicyKey(p) ==
    pg_key("policy", Rel(p.relation).schema, Rel(p.relation).name, p.name)

(* PUBLIC is role 0 and no principal.                                      *)
PoliciesMap ==
    \A p \in raw.policies : /\ HasRelation(p.relation)
                            /\ p.roles \ {""} \subseteq Oids(raw.principals)
PolicyRoles(p) ==
    {Link("postgres_policy_role", PolicyKey(p), Principal(r), None, "") :
        r \in p.roles \ {""}}

EventKey(e) == InDatabase("event", e.oid)
EventsMap ==
    HasOwner(raw.event_triggers)
      /\ \A e \in raw.event_triggers : HasRoutine(e.routine)

MapClosure ==
    LET extension(x) == InDatabase("extension", x.oid) IN
    Mapping("closure",
        /\ TypesReach /\ PoliciesMap /\ EventsMap
        /\ HasOwner(raw.extensions),
        [snapshot EXCEPT
            !.metadata = @
                \cup {Metadata(PolicyKey(p), RelationKey(p.relation)) :
                         p \in raw.policies}
                \cup {Metadata(extension(x), DatabaseKey) :
                         x \in raw.extensions}
                \cup {Metadata(EventKey(e), DatabaseKey) :
                         e \in raw.event_triggers},
            !.relationship = @
                \cup UNION {add_type_relationships(t) : t \in raw.types}
                \cup UNION {PolicyRoles(p) : p \in raw.policies}
                \cup {add_owned_by(extension(x), x.owner) :
                         x \in raw.extensions}
                \cup {add_owned_by(EventKey(e), e.owner) :
                         e \in raw.event_triggers}
                \cup {Link("invokes", EventKey(e), RoutineKey(e.routine),
                           None, "") : e \in raw.event_triggers}],
        "deduplicate")

(* deduplicate_metadata_relationships refuses; it removes nothing.         *)
Deduplicate ==
    Mapping("deduplicate",
        Cardinality({<<r.kind, r.from, r.to, r.ordinal>> :
                        r \in snapshot.relationship})
          = Cardinality(snapshot.relationship),
        snapshot, "count")

-----------------------------------------------------------------------------
(* discovery_counts_from_catalog.                                          *)

Constraints(kinds) == {k \in raw.constraints : k.kind \in kinds}
RelationConstraints(kinds) ==
    {k \in Constraints(kinds) : k.relation # ""}

CountedObjects ==
    [schema |-> Cardinality(raw.schemas),
     table |-> Cardinality(OfKind(TableRel)),
     column |-> Cardinality(ColumnsOf(TableRel)),
     primary_key |-> Cardinality(Constraints({"p"})),
     foreign_key |-> Cardinality(Constraints({"f"})),
     unique_constraint |-> Cardinality(Constraints({"u"})),
     check_constraint |-> Cardinality(Constraints({"c"})),
     index |-> Cardinality(raw.indexes),
     view |-> Cardinality(OfKind({"v"})),
     view_column |-> Cardinality(ColumnsOf({"v", "m"})),
     trigger |-> Cardinality(raw.triggers),
     routine |-> Cardinality(raw.routines),
     materialized_view |-> Cardinality(OfKind({"m"})),
     sequence |-> Cardinality(raw.sequences),
     routine_parameter |-> Cardinality(raw.routine_parameters),
     user_defined_type |->
        Cardinality({t \in raw.types : t.kind # "d"}),
     domain |-> Cardinality({t \in raw.types : t.kind = "d"}),
     enum_value |-> Cardinality(raw.enum_values),
     exclusion_constraint |-> Cardinality(Constraints({"x"})),
     event |-> Cardinality(raw.event_triggers),
     principal |-> Cardinality(raw.principals),
     policy |-> Cardinality(raw.policies),
     extension |-> Cardinality(raw.extensions)
                     + Cardinality(ColumnsOf({"c"}))
                     + (IF Yugabyte THEN Cardinality(raw.tablegroups)
                                           + Cardinality(raw.tablespaces)
                        ELSE 0)]

(* Variant: the parts of an index are counted, not its columns.            *)
IndexColumnCountOfParts ==
    Cardinality({t \in raw.index_terms :
                    /\ HasTable(RowOf(raw.indexes, t.index).relation)
                    /\ t.key /\ t.column > 0})

IndexColumnCount ==
    Cardinality({<<t.index, t.column>> :
        t \in {u \in raw.index_terms :
                  /\ HasTable(RowOf(raw.indexes, u.index).relation)
                  /\ u.key /\ u.column > 0}})

ViewDependencyCount ==
    Cardinality({<<d.view, d.target, d.column>> :
        d \in {e \in raw.view_dependencies :
                  /\ Foreign(e)
                  /\ Rel(e.view).kind = "v"
                  /\ e.target \in Oids(raw.relations)
                  /\ Rel(e.target).kind \in TableRel
                        \cup (IF e.column > 0 THEN {} ELSE {"v"})}})

RoutineDependencyCount ==
    Cardinality({d \in raw.routine_dependencies :
                    ~is_system_schema(TargetSchema(d))})

(* The ledger starts as the emitted counts; these are overwritten.         *)
CountedRelationships ==
    LET columns(k) == Len(k.columns)
        emitted == emitted_relationship_counts(snapshot)
    IN [emitted EXCEPT
        !.database_has_schema = Cardinality(raw.schemas),
        !.schema_has_table = Cardinality(OfKind(TableRel)),
        !.table_has_column = Cardinality(ColumnsOf(TableRel)),
        !.table_has_constraint =
            Cardinality(RelationConstraints({"p", "u", "f", "c"})),
        !.constraint_column =
            SumOver(RelationConstraints({"p", "u", "c"}), columns),
        !.foreign_key_column_pair = SumOver(Constraints({"f"}), columns),
        !.table_has_index =
            Cardinality({i \in raw.indexes : HasTable(i.relation)}),
        !.index_column = IndexColumnCount,
        !.schema_has_view = Cardinality(OfKind({"v"})),
        !.view_dependency = ViewDependencyCount,
        !.trigger_target = Cardinality(raw.triggers),
        !.trigger_routine = Cardinality(raw.triggers),
        !.schema_has_routine = Cardinality(raw.routines),
        !.routine_dependency = RoutineDependencyCount]

(* The adapter compares the counts itself and refuses a mismatch.          *)
Count ==
    /\ stage = "count"
    /\ \E counts \in {Counts(CountedObjects, CountedRelationships)} :
          IF CountsReconciled(snapshot, counts)
          THEN discovered' = counts /\ stage' = "certify"
          ELSE stage' = "refused" /\ UNCHANGED discovered
    /\ UNCHANGED <<snapshot, graph, server, raw>>

-----------------------------------------------------------------------------

PostgresInit(servers) ==
    /\ PipelineInit("read")
    /\ server \in servers
    /\ raw = NoRows

Done == Ended /\ UNCHANGED vars

PostgresNext ==
    \/ ReadCatalog \/ Validate \/ MapTypes \/ MapRelations \/ MapColumns
    \/ MapConstraints \/ MapIndexes \/ MapPlacement \/ MapViews
    \/ MapRoutines \/ MapTriggers \/ MapInheritance \/ MapSequences
    \/ MapClosure \/ Deduplicate \/ Count
    \/ Certify /\ UNCHANGED <<server, raw>>
    \/ Store /\ UNCHANGED <<server, raw>>
    \/ Done

PostgresSpec(servers) == PostgresInit(servers) /\ [][PostgresNext]_vars

-----------------------------------------------------------------------------
(* Properties.                                                             *)

PostgresTypeOK ==
    /\ PipelineTypeOK
    /\ stage \in LateStage \cup
          {"read", "validate", "types", "relations", "columns",
           "constraints", "indexes", "placement", "views", "routines",
           "triggers", "inheritance", "sequences", "closure", "deduplicate",
           "count"}
    /\ \A k \in DOMAIN NoRows : raw[k] \subseteq server[k]
    /\ \A c \in raw.columns : c.relation \in Oids(raw.relations)

(* The comparison at the end of the mapping never refuses a catalog: the   *)
(* rows are counted as they are mapped, the duplicate columns of an index  *)
(* and the dependencies without a typed target included.                   *)
PostgresCountsAgree ==
    stage = "count" =>
        CountsReconciled(snapshot,
                         Counts(CountedObjects, CountedRelationships))

(* What pg_catalog records objects of the scope to use.                    *)
TypeUses(s) ==
    {c.type : c \in {d \in read_columns(s) : KindIn(s, d.relation) # "c"}}
      \cup {f.returns : f \in read_routines(s)}
      \cup {a.type : a \in read_routine_parameters(s)}
      \cup (UNION {{t[r] : r \in TypeRoles} : t \in read_types(s)} \ {""})

RelationUses(s) ==
    {k.ref : k \in {c \in read_constraints(s) : c.kind = "f"}}
      \cup {h.parent : h \in read_inheritance(s)}
      \cup {d.target : d \in read_view_dependencies(s)}
      \cup {d.target : d \in {e \in read_routine_dependencies(s) :
                                 e.class = "relation"}}
      \cup {u.relation : u \in read_sequence_usages(s)}
      \cup {u.sequence : u \in read_sequence_usages(s)}

LeavesScope(s) ==
    \/ \E t \in TypeUses(s) : SchemaOf(s.types, t) \notin Scope(s) \cup System
    \/ \E r \in RelationUses(s) :
          SchemaOf(s.relations, r) \notin Scope(s) \cup System

(* A column that owns a sequence and calls it in its default: serial.      *)
HasSerial(s) ==
    \E u, v \in read_sequence_usages(s) :
        /\ u.relation = v.relation /\ u.column = v.column
        /\ u.sequence = v.sequence /\ u.type # v.type

(* A routine that uses anything but tables and their columns.              *)
UsesUnprojected(s) ==
    \E d \in read_routine_dependencies(s) :
        \/ d.class = "type" /\ ~is_system_schema(SchemaOf(s.types, d.target))
        \/ d.class = "routine"
             /\ ~is_system_schema(SchemaOf(s.routines, d.target))
        \/ d.class = "relation"
             /\ ~is_system_schema(SchemaOf(s.relations, d.target))
             /\ KindIn(s, d.target) \notin TableRel

UnsupportedServer(s) ==
    \/ ~ScopeReadable(s)
    \/ LeavesScope(s) \/ HasSerial(s) \/ UsesUnprojected(s)
    \/ \E r \in s.relations :
          r.schema \in Scope(s) /\ (r.large \/ r.kind \notin ReadRel)
    \/ \E f \in read_routines(s) : ~f.tracked
    \/ read_triggers(s) # {} \/ s.event_triggers # {}
    \/ \E k \in read_constraints(s) :
          k.kind # "x" /\ \E n \in Elements(k.columns) : n <= 0

(* With nothing missing a database is stored unless it is one of these.    *)
(* Any trigger is among them: its function is opaque or out of the scope.  *)
PostgresStoredUnlessUnsupported ==
    Ended =>
        (stage = "stored" <=>
            ~UnsupportedServer(server) /\ raw = Rows(server))

(* What a stored object of the scope refers to is stored and linked: no    *)
(* foreign key, type of a column, part of a type or relation a view reads  *)
(* is passed over unless it is the system's.                               *)
ReferencesAreStored ==
    stage = "stored" =>
        LET linked(from, to) ==
                \E e \in graph.edges : e.from = from /\ e.to = to
        IN /\ \A k \in server.constraints :
                 k.kind = "f" /\ k \in raw.constraints =>
                     \A i \in DOMAIN k.columns :
                         linked(ConstraintKey(k),
                                ColumnKey(k.ref, k.ref_columns[i]))
           /\ \A c \in raw.columns :
                 KindIn(server, c.relation) # "c"
                   /\ ~is_system_schema(SchemaOf(server.types, c.type)) =>
                     HasType(c.type) /\ linked(KeyOf(c), TypeKey(c.type))
           /\ \A d \in read_view_dependencies(server) :
                 Foreign(d) => linked(RelationKey(d.view),
                                      resolve_relation_dependency(d))
           /\ \A t \in raw.types : \A role \in TypeRoles :
                 t[role] \notin {"", t.oid}
                   /\ ~is_system_schema(SchemaOf(server.types, t[role])) =>
                     HasType(t[role]) /\ linked(TypeKey(t.oid),
                                                TypeKey(t[role]))

(* The same of the attributes of composite types.  The plan says that no   *)
(* adapter may silently drop a relationship; the type of an attribute is   *)
(* passed over when it is outside the selected schemas.                    *)
AttributeTypesAreStored ==
    stage = "stored" =>
        \A c \in raw.columns :
            KindIn(server, c.relation) = "c"
              /\ ~is_system_schema(SchemaOf(server.types, c.type)) =>
                HasType(c.type)

(* YugabyteDB: a stored physical relation or index is in exactly one       *)
(* tablespace, and exactly the colocated ones are in a tablegroup, which   *)
(* is in a tablespace itself.                                              *)
PlacementIsComplete ==
    stage = "stored" /\ Yugabyte =>
        LET to(key, kind) ==
                {e.to : e \in {f \in graph.edges :
                                  /\ f.from = key
                                  /\ f.type = <<"metadata", kind>>}}
        IN \A y \in read_yugabyte_catalog(server) :
              /\ Cardinality(to(PhysicalKey(y.oid),
                                "yugabytedb_uses_tablespace"))
                    = IF StorageBacked(y) THEN 1 ELSE 0
              /\ \A g \in to(PhysicalKey(y.oid),
                             "yugabytedb_member_of_tablegroup") :
                    to(g, "yugabytedb_uses_tablespace") # {}
              /\ y.colocated <=> to(PhysicalKey(y.oid),
                                    "yugabytedb_member_of_tablegroup") # {}

=============================================================================
