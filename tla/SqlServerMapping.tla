-------------------------- MODULE SqlServerMapping --------------------------
(***************************************************************************)
(* The SQL Server adapter between the sys catalog views and the            *)
(* certification: the rows of the selected schemas are read, checked for   *)
(* what has no dependencies in the catalog, resolved by object id, mapped  *)
(* and counted again.                                                      *)
(*                                                                         *)
(* A server is the rows of its sys views; ids are strings, "" is NULL or   *)
(* 0, and numbers are used where the order of rows counts.  That two reads *)
(* agree is CatalogDiscovery's matter.                                     *)
(***************************************************************************)
EXTENDS Certification, SequencesExt

VARIABLES
    server,         \* the server, with the scope requested of it
    raw             \* RawSqlServerCatalog

vars == <<snapshot, discovered, stage, graph, server, raw>>

-----------------------------------------------------------------------------
(* The scope and the rows.                                                 *)

(* Neither the system's schemas nor those of the fixed roles.              *)
read_schemas(s) == {n \in s.schemas : ~n.system}

ScopeReadable(s) == s.requested \subseteq {n.name : n \in read_schemas(s)}
select_schemas(s) ==
    IF s.requested = {} THEN {n.name : n \in read_schemas(s)}
    ELSE s.requested

InScope(s, rows) == {r \in rows : r.schema \in select_schemas(s)}
Ids(rows) == {r.id : r \in rows}
RowOf(rows, id) == CHOOSE r \in rows : r.id = id

read_tables(s) == InScope(s, s.tables)
read_views(s) == InScope(s, s.views)
read_routines(s) == InScope(s, s.routines)
read_user_types(s) == InScope(s, s.user_types)
read_sequences(s) == InScope(s, s.sequences)
read_synonyms(s) == InScope(s, s.synonyms)
read_security_policies(s) == InScope(s, s.policies)
read_xml_schema_collections(s) == InScope(s, s.collections)

(* The rows that have columns: tables, views and table types.              *)
Relations(s) ==
    Ids(read_tables(s)) \cup Ids(read_views(s))
      \cup ({t.table_object : t \in read_user_types(s)} \ {""})

read_columns(s) == {c \in s.columns : c.object \in Relations(s)}

(* Three statements: keys, foreign keys and checks.                        *)
ConstraintsOf(s, kinds) ==
    {k \in s.constraints : k.kind \in kinds /\ k.table \in Relations(s)}
KeyConstraints(s) == ConstraintsOf(s, {"primary_key", "unique_constraint"})
ForeignKeys(s) == ConstraintsOf(s, {"foreign_key"})
CheckConstraints(s) == ConstraintsOf(s, {"check_constraint"})
read_constraints(s) ==
    KeyConstraints(s) \cup ForeignKeys(s) \cup CheckConstraints(s)

read_indexes(s) == {i \in s.indexes : i.object \in Relations(s)}

(* Of the routines that were read.                                         *)
read_parameters(s) ==
    {p \in s.parameters : p.object \in Ids(read_routines(s))}

(* Database triggers are read whatever the scope is.                       *)
read_triggers(s) ==
    {t \in s.triggers : t.class = 1 => t.parent \in Relations(s)}

(* Filtered by the schema of the object that has the dependency.           *)
read_dependencies(s) ==
    {d \in s.dependencies :
        d.from_schema \in select_schemas(s) \cup {"__database__"}}

read_partition_functions(s) == {f \in s.functions : ~f.system}
read_partitions(s) ==
    {p \in s.partitions :
        p.object \in Ids(read_tables(s)) \cup Ids(read_views(s))}

read_unsupported_objects(s) ==
    {u \in s.unsupported : u.schema \in select_schemas(s) \cup {""}}

(* Properties of what was read, by class; any other class is left out, and *)
(* so is the object behind a table type.                                   *)
select_extended_properties(s) ==
    LET objects == UNION {Ids(rows) : rows \in
            {read_tables(s), read_views(s),
             read_routines(s), read_triggers(s),
             read_sequences(s), read_synonyms(s),
             read_security_policies(s), read_constraints(s)}}
        described(p) ==
            CASE p.class = "database" -> p.major = "" /\ p.minor = 0
              [] p.class = "object" /\ p.minor = 0 -> p.major \in objects
              [] p.class = "object" ->
                    \E c \in read_columns(s) :
                        c.object = p.major /\ c.num = p.minor
              [] p.class = "parameter" ->
                    \E a \in read_parameters(s) :
                        a.object = p.major /\ a.num = p.minor
              [] p.class = "schema" -> p.major \in select_schemas(s)
              [] p.class = "principal" -> p.major \in Ids(s.principals)
              [] p.class = "type" -> p.major \in Ids(read_user_types(s))
              [] p.class = "index" ->
                    \E i \in read_indexes(s) :
                        i.object = p.major /\ i.num = p.minor
              [] p.class = "type_column" ->
                    \E t \in read_user_types(s) :
                        /\ t.id = p.major /\ t.table_object # ""
                        /\ \E c \in read_columns(s) :
                              c.object = t.table_object /\ c.num = p.minor
              [] p.class = "xml" ->
                    p.major \in Ids(read_xml_schema_collections(s))
              [] p.class = "scheme" -> p.major \in Ids(s.schemes)
              [] p.class = "function" ->
                    p.major \in Ids(read_partition_functions(s))
              [] OTHER -> FALSE
    IN {p \in s.properties : described(p)}

NoRows ==
    [schemas |-> {}, principals |-> {}, tables |-> {}, columns |-> {},
     constraints |-> {}, indexes |-> {}, views |-> {}, routines |-> {},
     parameters |-> {}, triggers |-> {}, user_types |-> {},
     sequences |-> {}, synonyms |-> {}, dependencies |-> {},
     functions |-> {}, schemes |-> {}, partitions |-> {}, policies |-> {},
     collections |-> {}, properties |-> {}]

(* RawSqlServerCatalog::read.                                              *)
Rows(s) ==
    [schemas |-> {n \in read_schemas(s) : n.name \in select_schemas(s)},
     principals |-> s.principals,
     tables |-> read_tables(s), columns |-> read_columns(s),
     constraints |-> read_constraints(s), indexes |-> read_indexes(s),
     views |-> read_views(s), routines |-> read_routines(s),
     parameters |-> read_parameters(s), triggers |-> read_triggers(s),
     user_types |-> read_user_types(s),
     sequences |-> read_sequences(s),
     synonyms |-> read_synonyms(s),
     dependencies |-> read_dependencies(s),
     functions |-> read_partition_functions(s), schemes |-> s.schemes,
     partitions |-> read_partitions(s), policies |-> read_security_policies(s),
     collections |-> read_xml_schema_collections(s),
     properties |-> select_extended_properties(s)]

(* ensure_definition_size: columns, views and routines are measured before *)
(* the scope is applied to them, the others after.                         *)
Sized(s) ==
    /\ \A rows \in {s.columns, s.views, s.routines, read_constraints(s),
                    read_indexes(s), read_triggers(s)} :
          \A r \in rows : ~r.large
    /\ \A i \in read_indexes(s) : i.columns # <<>>
    /\ \A t \in read_triggers(s) : t.events # {}

-----------------------------------------------------------------------------
(* validate_supported_metadata.  A definition is the sequence of its       *)
(* tokens that are not blank; a hidden one is <<>>.                        *)

is_variable_token(token) == token = "@variable"
is_string_token(token) == token = "'text'"
Literal(token) == is_variable_token(token) \/ is_string_token(token)

(* tokens is what follows EXEC; token 7 reaches the last of four names.    *)
execute_target_is_dynamic(tokens) ==
    LET at(n) == IF n \in DOMAIN tokens THEN tokens[n] ELSE "'text'" IN
    CASE is_string_token(at(1)) -> TRUE
      [] at(1) = "(" -> Literal(at(2))
      [] is_variable_token(at(1)) ->
            2 \notin DOMAIN tokens \/ at(2) # "=" \/ Literal(at(3))
      [] OTHER -> \E n \in DOMAIN tokens : n <= 7 /\ at(n) = "sp_executesql"

From(tokens, n) == SubSeq(tokens, n, Len(tokens))

reject_dynamic_sql(tokens) ==
    \E n \in DOMAIN tokens :
        /\ tokens[n] = "EXEC"
        /\ ~(n < Len(tokens) /\ tokens[n + 1] = "AS")
        /\ execute_target_is_dynamic(From(tokens, n + 1))

require_visible_definition(tokens) == tokens # <<>>

Clr == {"PC", "FS", "FT", "AF"}

validate_supported_metadata(s) ==
    /\ read_unsupported_objects(s) = {}
    /\ \A v \in read_views(s) : require_visible_definition(v.definition)
    /\ \A f \in read_routines(s) : f.type \notin Clr
    /\ \A f \in read_routines(s) \cup read_triggers(s) :
          /\ require_visible_definition(f.definition)
          /\ ~reject_dynamic_sql(f.definition)
    /\ \A t \in read_user_types(s) : ~t.assembly /\ ~t.bound
    /\ \A d \in read_dependencies(s) : ~d.runtime

ReadCatalog ==
    /\ stage = "read"
    /\ IF /\ ScopeReadable(server)
          /\ Sized(server)
          /\ validate_supported_metadata(server)
       THEN raw' = Rows(server) /\ stage' = "validate"
       ELSE stage' = "refused" /\ UNCHANGED raw
    /\ UNCHANGED <<snapshot, discovered, graph, server>>

-----------------------------------------------------------------------------
(* Keys and lookups: the maps from object id to key.                       *)

Mapping(at, ok, result, then) ==
    MappingStep(at, ok, result, then) /\ UNCHANGED <<server, raw>>

sqlserver_key(kind, schema, name, sub) == Key(kind, schema, name, sub)
Extension(schema, name, sub) == sqlserver_key("extension", schema, name, sub)
Principal(id) == sqlserver_key("principal", "db", id, id)

HasType(id) == id \in Ids(raw.user_types)
Named(kind, rows, id) ==
    sqlserver_key(kind, RowOf(rows, id).schema, RowOf(rows, id).name, "")
TypeKey(id) == Named("user_defined_type", raw.user_types, id)

IsTable(id) == id \in Ids(raw.tables)
IsView(id) == id \in Ids(raw.views)
Indexed(id) == IsView(id) /\ RowOf(raw.views, id).indexed
IsTableType(id) == \E t \in raw.user_types : t.table_object = id /\ id # ""
TypeBehind(id) == CHOOSE t \in raw.user_types : t.table_object = id

RelationKey(id) ==
    CASE IsTable(id) -> Named("table", raw.tables, id)
      [] Indexed(id) -> Named("materialized_view", raw.views, id)
      [] IsView(id) -> Named("view", raw.views, id)
      [] OTHER -> TypeKey(TypeBehind(id).id)

(* metadata_trigger_key: of triggers on indexed views and the database.    *)
OnRelation(t) == t.class = 1 /\ ~Indexed(t.parent)
TriggerKey(t) ==
    IF OnRelation(t)
    THEN sqlserver_key("trigger", RelationKey(t.parent).schema,
                       RelationKey(t.parent).name, t.name)
    ELSE sqlserver_key("trigger",
                       IF t.class = 0 THEN "db"
                       ELSE RelationKey(t.parent).schema, t.name, t.id)

ConstraintKey(k) ==
    IF IsTable(k.table)
    THEN sqlserver_key(k.kind, RelationKey(k.table).schema,
                       RelationKey(k.table).name, k.name)
    ELSE Extension(RelationKey(k.table).schema, RelationKey(k.table).name,
                   "table-type-constraint:" \o k.id)

(* object_keys.                                                            *)
HasObject(id) ==
    \/ IsTable(id) \/ IsView(id) \/ IsTableType(id)
    \/ \E rows \in {raw.routines, raw.sequences, raw.synonyms, raw.policies,
                    raw.triggers, raw.constraints} : id \in Ids(rows)
ObjectKeyOf(id) ==
    CASE id \in Ids(raw.routines) -> Named("routine", raw.routines, id)
      [] id \in Ids(raw.sequences) -> Named("sequence", raw.sequences, id)
      [] id \in Ids(raw.synonyms) -> Named("synonym", raw.synonyms, id)
      [] id \in Ids(raw.policies) -> Named("policy", raw.policies, id)
      [] id \in Ids(raw.triggers) -> TriggerKey(RowOf(raw.triggers, id))
      [] id \in Ids(raw.constraints) ->
            ConstraintKey(RowOf(raw.constraints, id))
      [] OTHER -> RelationKey(id)

(* name_keys: by schema and name, as they are written.                     *)
NamedRows == raw.tables \cup raw.views \cup raw.routines \cup raw.sequences
               \cup raw.synonyms
HasName(schema, name) ==
    \E r \in NamedRows : r.schema = schema /\ r.name = name
NameKey(schema, name) ==
    ObjectKeyOf((CHOOSE r \in NamedRows :
                    r.schema = schema /\ r.name = name).id)

HasColumn(id, num) ==
    \E c \in raw.columns : c.object = id /\ c.num = num
ColumnKey(id, num) ==
    LET c == CHOOSE c \in raw.columns : c.object = id /\ c.num = num
        parent == RelationKey(id)
    IN CASE IsTable(id) ->
               sqlserver_key("column", parent.schema, parent.name, c.name)
         [] IsView(id) ->
               sqlserver_key("view_column", parent.schema, parent.name, c.name)
         [] OTHER -> Extension(parent.schema, parent.name,
                               "table-type-column:" \o ToString(c.num)
                                 \o ":" \o c.name)
KeyOf(c) == ColumnKey(c.object, c.num)

Annotated(key) == Object(key, NoKey, <<key.kind, key.name, key.sub>>)
Metadata(key, parent, row) == Object(key, parent, row)
Link(kind, from, to, ordinal, tag) ==
    Relationship(kind, from, to, ordinal, tag)
Plain(kind, from, to) == Link(kind, from, to, None, <<"">>)

add_owned_by(key, owner) == Plain("owned_by", key, Principal(owner))

EffectiveOwner(r) ==
    IF r.owner # "" THEN r.owner
    ELSE (CHOOSE n \in raw.schemas : n.name = r.schema).owner
HasOwner(rows) == \A r \in rows : EffectiveOwner(r) \in Ids(raw.principals)
add_effective_owner(key, r) == add_owned_by(key, EffectiveOwner(r))

(* A user type outside the scope is passed over.                           *)
UseOfType(kind, key, id) ==
    IF HasType(id) THEN {Plain(kind, key, TypeKey(id))} ELSE {}

(* validate_raw_inventory.                                                 *)
require_unique(rows) == Cardinality(Ids(rows)) = Cardinality(rows)
ValidateInventory ==
    Mapping("validate",
        \A rows \in {raw.principals, raw.tables, raw.views, raw.routines,
                     raw.triggers, raw.constraints, raw.user_types,
                     raw.sequences, raw.synonyms, raw.functions,
                     raw.schemes, raw.policies, raw.collections} :
            require_unique(rows),
        snapshot, "types")

-----------------------------------------------------------------------------
(* Principals, schemas, user types, XML schema collections and sequences.  *)

MapTypes ==
    Mapping("types", \A n \in raw.schemas : n.owner \in Ids(raw.principals),
        [snapshot EXCEPT
            !.schema = {Object(SchemaKey(n.name), DatabaseKey, <<n.name>>) :
                           n \in raw.schemas},
            !.annotation = {Annotated(DatabaseKey)},
            !.metadata = {Metadata(Principal(p.id), DatabaseKey, <<p.id>>) :
                             p \in raw.principals}
                \cup {Metadata(TypeKey(t.id), SchemaKey(t.schema), <<t.id>>) :
                         t \in raw.user_types},
            !.relationship = {add_owned_by(SchemaKey(n.name), n.owner) :
                                 n \in raw.schemas}],
        "collections")

CollectionKey(x) == Extension(x.schema, x.name, "xml-schema-collection")
HasCollection(id) == id \in Ids(raw.collections)
UseOfXml(key, id) ==
    IF id = "" THEN {}
    ELSE {Plain("uses_xml_schema_collection", key,
                CollectionKey(RowOf(raw.collections, id)))}

map_xml_schema_collections ==
    {Metadata(CollectionKey(x), SchemaKey(x.schema), <<x.id>>) :
        x \in raw.collections}
    \cup UNION {{Metadata(Extension(x.schema, x.name,
                                    "xml-schema-namespace:" \o n),
                          CollectionKey(x), <<x.id, n>>) : n \in x.namespaces} :
                   x \in raw.collections}

SequenceKey(q) == sqlserver_key("sequence", q.schema, q.name, "")

MapCollections ==
    Mapping("collections",
        HasOwner(raw.collections) /\ HasOwner(raw.sequences),
        [snapshot EXCEPT
            !.metadata = @ \cup map_xml_schema_collections
                \cup {Metadata(SequenceKey(q), SchemaKey(q.schema), <<q.id>>) :
                         q \in raw.sequences},
            !.relationship = @
                \cup {add_effective_owner(CollectionKey(x), x) :
                         x \in raw.collections}
                \cup {add_effective_owner(SequenceKey(q), q) :
                         q \in raw.sequences}
                \cup UNION {UseOfType("uses_type", SequenceKey(q), q.type) :
                               q \in raw.sequences}],
        "relations")

-----------------------------------------------------------------------------
(* Tables, views, routines and triggers.                                   *)

(* routine_kind, and insert_object_identity: no second object of one name. *)
RelationsMap ==
    /\ HasOwner(raw.tables) /\ HasOwner(raw.views) /\ HasOwner(raw.routines)
    /\ \A f \in raw.routines : f.type \in {"P", "FN", "IF", "TF"}
    /\ LET rows == NamedRows \ raw.synonyms
       IN Cardinality({<<r.schema, r.name>> : r \in rows}) = Cardinality(rows)

MapRelations ==
    LET plain == {v \in raw.views : ~v.indexed}
        rows == raw.tables \cup raw.views \cup raw.routines
        typed == raw.tables \cup plain \cup raw.routines
        at(r) == SchemaKey(r.schema)
    IN Mapping("relations", RelationsMap,
        [snapshot EXCEPT
            !.table = {Object(RelationKey(t.id), at(t), <<t.id>>) :
                          t \in raw.tables},
            !.view = {Dependent(RelationKey(v.id), at(v), {}, <<v.id>>) :
                         v \in plain},
            !.routine = {Dependent(ObjectKeyOf(f.id), at(f), {}, <<f.id>>) :
                            f \in raw.routines},
            !.annotation = @ \cup {Annotated(ObjectKeyOf(r.id)) : r \in typed},
            !.metadata = @ \cup {Metadata(RelationKey(v.id), at(v), <<v.id>>) :
                                    v \in raw.views \ plain},
            !.relationship = @ \cup {add_effective_owner(ObjectKeyOf(r.id), r) :
                                        r \in rows}],
        "triggers")

MapTriggers ==
    LET typed == {t \in raw.triggers : OnRelation(t)}
        parent(t) == IF t.class = 0 THEN DatabaseKey ELSE RelationKey(t.parent)
    IN Mapping("triggers",
        \A t \in raw.triggers :
            t.class = 0 \/ (t.class = 1 /\ HasObject(t.parent)),
        [snapshot EXCEPT
            !.trigger = {Trigger(TriggerKey(t), parent(t), t.events, NoKey,
                                 <<t.id>>) : t \in typed},
            !.annotation = @ \cup {Annotated(TriggerKey(t)) : t \in typed},
            !.metadata = @ \cup {Metadata(TriggerKey(t), parent(t), <<t.id>>) :
                                    t \in raw.triggers \ typed}],
        "columns")

-----------------------------------------------------------------------------
(* Columns, constraints and indexes.                                       *)

MapColumns ==
    LET base == {c \in raw.columns : IsTable(c.object)}
        row(c) == <<c.object, c.name>>
        kind(c) == IF IsTableType(c.object) THEN "depends_on" ELSE "uses_type"
    IN Mapping("columns",
        \A c \in raw.columns : /\ HasObject(c.object)
                               /\ c.num > 0
                               /\ c.xml = "" \/ HasCollection(c.xml),
        [snapshot EXCEPT
            !.column = {Column(KeyOf(c), RelationKey(c.object), c.num,
                               row(c)) : c \in base},
            !.annotation = @ \cup {Annotated(KeyOf(c)) : c \in base},
            !.metadata = @ \cup {Metadata(KeyOf(c), RelationKey(c.object),
                                          row(c)) : c \in raw.columns \ base},
            !.relationship = @
                \cup UNION {UseOfType(kind(c), KeyOf(c), c.type) :
                               c \in raw.columns}
                \cup UNION {UseOfXml(KeyOf(c), c.xml) : c \in raw.columns}],
        "constraints")

ColumnsResolve(id, numbers) ==
    \A n \in Elements(numbers) : HasColumn(id, n)
Resolved(id, numbers) == [i \in DOMAIN numbers |-> ColumnKey(id, numbers[i])]

ConstraintMaps(k) ==
    /\ HasObject(k.table) /\ ColumnsResolve(k.table, k.columns)
    /\ k.kind = "foreign_key" =>
          /\ IsTable(k.table) /\ IsTable(k.ref)
          /\ ColumnsResolve(k.ref, k.ref_columns)

ConstraintOf(k) ==
    Constraint(ConstraintKey(k), RelationKey(k.table),
               Resolved(k.table, k.columns),
               IF k.kind = "foreign_key" THEN RelationKey(k.ref) ELSE NoKey,
               Resolved(k.ref, k.ref_columns), k.kind = "check_constraint",
               <<k.id>>)

MapConstraints ==
    LET typed == {k \in raw.constraints : IsTable(k.table)}
        other == raw.constraints \ typed
        columns(k) ==
            {Link("table_type_constraint_column", ConstraintKey(k),
                  ColumnKey(k.table, k.columns[i]), i, <<"">>) :
                i \in DOMAIN k.columns}
    IN Mapping("constraints", \A k \in raw.constraints : ConstraintMaps(k),
        [snapshot EXCEPT
            !.constraint = {ConstraintOf(k) : k \in typed},
            !.annotation = @ \cup {Annotated(ConstraintKey(k)) : k \in typed},
            !.metadata = @ \cup {Metadata(ConstraintKey(k),
                                          RelationKey(k.table), <<k.id>>) :
                                    k \in other},
            !.relationship = @ \cup UNION {columns(k) : k \in other}],
        "indexes")

IndexKey(i) ==
    LET parent == RelationKey(i.object)
    IN IF IsTableType(i.object)
       THEN Extension(parent.schema, parent.name,
                      "table-type-index:" \o ToString(i.num) \o ":"
                        \o i.name)
       ELSE sqlserver_key("index", parent.schema, parent.name, i.name)

(* Key columns by key ordinal; a columnstore index has none and all its    *)
(* columns stand for them.                                                 *)
KeyColumns(i) ==
    LET keys == {n \in DOMAIN i.columns : i.columns[n].key > 0}
        order == SetToSortSeq(keys, LAMBDA m, n :
                                 i.columns[m].key < i.columns[n].key)
        all == IF keys = {} THEN [n \in DOMAIN i.columns |-> n] ELSE order
    IN [n \in DOMAIN all |-> ColumnKey(i.object, i.columns[all[n]].column)]

(* Of a table type all columns, of the others the included ones.           *)
ColumnLinks(i, kind, positions) ==
    {Link(kind, IndexKey(i), ColumnKey(i.object, i.columns[n].column), n,
          <<"">>) : n \in positions}
add_included_column_relationships(i) ==
    IF IsTableType(i.object)
    THEN ColumnLinks(i, "table_type_index_column", DOMAIN i.columns)
    ELSE ColumnLinks(i, "includes_column",
                     {n \in DOMAIN i.columns : i.columns[n].included})

MapIndexes ==
    LET typed == {i \in raw.indexes : IsTable(i.object)}
        row(i) == <<i.object, i.name>>
    IN Mapping("indexes",
        \A i \in raw.indexes :
            /\ IsTable(i.object) \/ Indexed(i.object) \/ IsTableType(i.object)
            /\ \A n \in DOMAIN i.columns :
                  HasColumn(i.object, i.columns[n].column),
        [snapshot EXCEPT
            !.index = {Index(IndexKey(i), RelationKey(i.object),
                             KeyColumns(i), FALSE, row(i)) : i \in typed},
            !.annotation = @ \cup {Annotated(IndexKey(i)) : i \in typed},
            !.metadata = @ \cup {Metadata(IndexKey(i), RelationKey(i.object),
                                          row(i)) : i \in raw.indexes \ typed},
            !.relationship = @ \cup UNION {
                add_included_column_relationships(i) : i \in raw.indexes}],
        "parameters")

-----------------------------------------------------------------------------
(* Parameters, synonyms and security policies.                             *)

RoutineKey(id) == Named("routine", raw.routines, id)
ParameterKey(a) ==
    sqlserver_key("routine_parameter", RoutineKey(a.object).schema,
                  RoutineKey(a.object).name,
                  ToString(a.num) \o ":" \o a.name)

(* The result of a function is its parameter 0: it has what it uses on the *)
(* routine.                                                                *)
ParameterLinks(a) ==
    LET result == a.num = 0
        user == IF result THEN RoutineKey(a.object) ELSE ParameterKey(a)
    IN {Link("has_parameter", RoutineKey(a.object), ParameterKey(a),
             a.num + 1, <<"">>)}
         \cup UseOfType(IF result THEN "returns_type" ELSE "uses_type",
                        user, a.type)
         \cup UseOfXml(user, a.xml)

MapParameters ==
    Mapping("parameters",
        \A a \in raw.parameters : a.xml = "" \/ HasCollection(a.xml),
        [snapshot EXCEPT
            !.metadata = @ \cup {Metadata(ParameterKey(a),
                                          RoutineKey(a.object),
                                          <<a.object, a.name>>) :
                                    a \in raw.parameters},
            !.relationship = @ \cup UNION {ParameterLinks(a) :
                                              a \in raw.parameters}],
        "policies")

PredicateKey(p, q) ==
    Extension(p.schema, p.name, "predicate:" \o q.id)

MapPolicies ==
    LET named == raw.synonyms \cup raw.policies
        predicates(p) ==
            {Metadata(PredicateKey(p, q), ObjectKeyOf(p.id), <<p.id, q.id>>) :
                q \in p.predicates}
        applies(p) ==
            {Plain("security_predicate_applies_to", PredicateKey(p, q),
                   RelationKey(q.target)) : q \in p.predicates}
    IN Mapping("policies",
        /\ HasOwner(raw.synonyms) /\ HasOwner(raw.policies)
        /\ \A p \in raw.policies : \A q \in p.predicates :
              IsTable(q.target) \/ IsView(q.target),
        [snapshot EXCEPT
            !.metadata = @
                \cup {Metadata(ObjectKeyOf(r.id), SchemaKey(r.schema),
                               <<r.id>>) : r \in named}
                \cup UNION {predicates(p) : p \in raw.policies},
            !.relationship = @
                \cup {add_effective_owner(ObjectKeyOf(r.id), r) : r \in named}
                \cup UNION {applies(p) : p \in raw.policies}],
        "partitions")

-----------------------------------------------------------------------------
(* map_partitions.                                                         *)

FunctionKey(f) == Extension("db", f.id, "partition-function:" \o f.id)
SchemeKey(m) == Extension("db", m.id, "partition-scheme:" \o m.id)

IndexRow(object, num) ==
    CHOOSE i \in raw.indexes : i.object = object /\ i.num = num
HasIndex(object, num) ==
    \E i \in raw.indexes : i.object = object /\ i.num = num

(* Partition 0 of an object is its heap.                                   *)
PartitionParent(p) ==
    IF p.index = 0 THEN ObjectKeyOf(p.object)
    ELSE IndexKey(IndexRow(p.object, p.index))
PartitionKey(p) ==
    Extension(PartitionParent(p).schema, PartitionParent(p).name,
              "partition:" \o ToString(p.index) \o ":" \o p.number)

OnScheme(p) ==
    HasIndex(p.object, p.index)
      /\ IndexRow(p.object, p.index).space \in Ids(raw.schemes)
UsesScheme(p) ==
    {Plain("partition_uses_scheme", PartitionKey(p),
           SchemeKey(RowOf(raw.schemes,
                           IndexRow(p.object, p.index).space))) :
        x \in IF OnScheme(p) THEN {p} ELSE {}}

Temporal == {t \in raw.tables : t.history # ""}

PartitionsMap ==
    /\ \A m \in raw.schemes : m.function \in Ids(raw.functions)
    /\ \A p \in raw.partitions :
          IF p.index = 0 THEN HasObject(p.object)
          ELSE HasIndex(p.object, p.index)
    /\ \A t \in Temporal : IsTable(t.history)

MapPartitions ==
    Mapping("partitions", PartitionsMap,
        [snapshot EXCEPT
            !.metadata = @
                \cup {Metadata(FunctionKey(f), DatabaseKey, <<f.id>>) :
                         f \in raw.functions}
                \cup UNION {{Metadata(Extension("db", f.id,
                                                "partition-boundary:" \o v),
                                      FunctionKey(f), <<f.id, v>>) :
                                v \in f.values} : f \in raw.functions}
                \cup {Metadata(SchemeKey(m), DatabaseKey, <<m.id>>) :
                         m \in raw.schemes}
                \cup {Metadata(PartitionKey(p), PartitionParent(p),
                               <<p.object, ToString(p.index), p.number>>) :
                         p \in raw.partitions},
            !.relationship = @
                \cup {Plain("partition_scheme_uses_function", SchemeKey(m),
                            FunctionKey(RowOf(raw.functions, m.function))) :
                         m \in raw.schemes}
                \cup UNION {UsesScheme(p) : p \in raw.partitions}
                \cup {Plain("temporal_history_table", RelationKey(t.id),
                            RelationKey(t.history)) : t \in Temporal}],
        "properties")

-----------------------------------------------------------------------------
(* map_extended_properties, with ExtendedPropertyTargetRegistry::resolve.  *)

PropertyTarget(p) ==
    CASE p.class = "database" -> DatabaseKey
      [] p.class = "object" /\ p.minor = 0 -> ObjectKeyOf(p.major)
      [] p.class = "object" -> ColumnKey(p.major, p.minor)
      [] p.class = "parameter" ->
            ParameterKey(CHOOSE a \in raw.parameters :
                            a.object = p.major /\ a.num = p.minor)
      [] p.class = "schema" -> SchemaKey(p.major)
      [] p.class = "principal" -> Principal(p.major)
      [] p.class = "type" -> TypeKey(p.major)
      [] p.class = "index" -> IndexKey(IndexRow(p.major, p.minor))
      [] p.class = "type_column" ->
            ColumnKey(RowOf(raw.user_types, p.major).table_object, p.minor)
      [] p.class = "xml" -> CollectionKey(RowOf(raw.collections, p.major))
      [] p.class = "scheme" -> SchemeKey(RowOf(raw.schemes, p.major))
      [] OTHER -> FunctionKey(RowOf(raw.functions, p.major))

PropertyKey(p) ==
    Extension(PropertyTarget(p).schema, PropertyTarget(p).name,
              "extended-property:" \o p.class \o ":" \o p.major \o ":"
                \o ToString(p.minor) \o ":" \o p.name)

MapProperties ==
    Mapping("properties", TRUE,
        [snapshot EXCEPT !.metadata = @ \cup
            {Metadata(PropertyKey(p), PropertyTarget(p),
                      <<p.class, p.major, ToString(p.minor), p.name>>) :
                p \in raw.properties}],
        "references")

-----------------------------------------------------------------------------
(* Synonym targets and dependencies.                                       *)

(* resolve_dependency_target and map_synonym_targets: a name without       *)
(* server in this database, exactly as it is written.                      *)
Local(r) == r.server = "" /\ r.database \in {"", "db"}
ByName(r) == Local(r) /\ r.schema # "" /\ HasName(r.schema, r.entity)

(* The parts that are given, joined by dots.                               *)
Dotted(part) == IF part = "" THEN "" ELSE part \o "."
FullName(r) == Dotted(r.server) \o Dotted(r.database) \o Dotted(r.schema)
                 \o r.entity
ExternalKey(name) == Extension("external", name, "reference")

(* A synonym's name is the base object name, with all its parts.           *)
SynonymTarget(y) ==
    IF ByName(y.target) THEN NameKey(y.target.schema, y.target.entity)
    ELSE ExternalKey(y.base)

HasDirect(d) ==
    CASE d.class = 1 /\ d.to_minor > 0 -> HasColumn(d.to, d.to_minor)
      [] d.class = 1 -> HasObject(d.to)
      [] d.class = 6 -> HasType(d.to)
      [] d.class = 7 -> HasIndex(d.to, d.to_minor)
      [] d.class = 10 -> HasCollection(d.to)
      [] OTHER -> d.to \in Ids(raw.functions)
Direct(d) ==
    CASE d.class = 1 /\ d.to_minor > 0 -> ColumnKey(d.to, d.to_minor)
      [] d.class = 1 -> ObjectKeyOf(d.to)
      [] d.class = 6 -> TypeKey(d.to)
      [] d.class = 7 -> IndexKey(IndexRow(d.to, d.to_minor))
      [] d.class = 10 -> CollectionKey(RowOf(raw.collections, d.to))
      [] OTHER -> FunctionKey(RowOf(raw.functions, d.to))

IsExternal(d) == ~HasDirect(d) /\ ~ByName(d.name)

(* Variant: a name that is not found is left out.                          *)
resolve_dependency_targetKnown(d) ==
    IF HasDirect(d) THEN Direct(d)
    ELSE IF ByName(d.name) THEN NameKey(d.name.schema, d.name.entity)
    ELSE ObjectKeyOf(d.from)

resolve_dependency_target(d) ==
    IF HasDirect(d) THEN Direct(d)
    ELSE IF ByName(d.name) THEN NameKey(d.name.schema, d.name.entity)
    ELSE ExternalKey(FullName(d.name))

(* The object, or the column of a computed column or a default.            *)
DefaultOf(id) == {c \in raw.columns : c.default = id /\ id # ""}
HasSource(d) == HasObject(d.from) \/ DefaultOf(d.from) # {}
Source(d) ==
    IF d.from_minor > 0 /\ HasColumn(d.from, d.from_minor)
    THEN ColumnKey(d.from, d.from_minor)
    ELSE IF HasObject(d.from) THEN ObjectKeyOf(d.from)
    ELSE KeyOf(CHOOSE c \in DefaultOf(d.from) : TRUE)

is_legacy_schema_object_kind(kind) ==
    kind \in TypedKind \cup ConstraintKind \cup {"database"}

(* Dependencies of an object on itself are passed over.                    *)
Effective ==
    {d \in raw.dependencies : Source(d) # resolve_dependency_target(d)}
TypedDependency(d) ==
    /\ Source(d).kind \in {"view", "routine"}
    /\ is_legacy_schema_object_kind(resolve_dependency_target(d).kind)
DependsOn(key) ==
    {resolve_dependency_target(d) :
        d \in {e \in Effective : Source(e) = key /\ TypedDependency(e)}}

DependencyKind(from, to) ==
    CASE from = "column" /\ to = "sequence" -> "uses_sequence"
      [] from = "materialized_view" /\ to \in {"table", "view"} ->
            "materializes"
      [] from = "trigger" /\ to = "routine" -> "invokes"
      [] OTHER -> "depends_on"
DependencyTag(d) ==
    <<d.from, ToString(d.from_minor), d.to, ToString(d.to_minor),
      FullName(d.name)>>

map_dependencies ==
    {Link(DependencyKind(Source(d).kind, resolve_dependency_target(d).kind),
          Source(d), resolve_dependency_target(d), None, DependencyTag(d)) :
        d \in {e \in Effective : ~TypedDependency(e)}}

ExternalNames ==
    {y.base : y \in {z \in raw.synonyms : ~ByName(z.target)}}
      \cup {FullName(d.name) : d \in {e \in raw.dependencies : IsExternal(e)}}

add_principal_memberships ==
    {add_owned_by(Principal(p.id), p.owner) :
        p \in {q \in raw.principals : q.owner # ""}}

MapReferences ==
    Mapping("references",
        /\ \A d \in raw.dependencies :
              HasSource(d) /\ d.class \in {1, 6, 7, 10, 21}
        /\ \A p \in raw.principals : p.owner \in Ids(raw.principals) \cup {""},
        [snapshot EXCEPT
            !.view = {Dependent(v.key, v.owner, DependsOn(v.key), v.row) :
                         v \in @},
            !.routine = {Dependent(f.key, f.owner, DependsOn(f.key), f.row) :
                            f \in @},
            !.metadata = @ \cup {Metadata(ExternalKey(n), DatabaseKey, <<n>>) :
                                    n \in ExternalNames},
            !.relationship = @
                \cup {Plain("synonym_for", ObjectKeyOf(y.id),
                            SynonymTarget(y)) : y \in raw.synonyms}
                \cup map_dependencies \cup add_principal_memberships],
        "unique")

(* validate_relationship_uniqueness.                                       *)
RelationshipsUnique ==
    Mapping("unique",
        Cardinality({<<r.kind, r.from, r.to, r.ordinal>> :
                        r \in snapshot.relationship})
          = Cardinality(snapshot.relationship),
        snapshot, "count")

-----------------------------------------------------------------------------
(* discovery_counts_from_catalog.                                          *)

TableColumns == {c \in raw.columns : IsTable(c.object)}
ViewColumns == {c \in raw.columns : IsView(c.object)}
TableConstraints(kinds) ==
    {k \in raw.constraints : IsTable(k.table) /\ k.kind \in kinds}
TypeConstraints == {k \in raw.constraints : IsTableType(k.table)}
TableIndexes == {i \in raw.indexes : IsTable(i.object)}
ViewIndexes == {i \in raw.indexes : IsView(i.object)}
TypeIndexes == {i \in raw.indexes : IsTableType(i.object)}
PlainViews == {v \in raw.views : ~v.indexed}
MetadataTriggers ==
    {t \in raw.triggers : t.class = 0 \/ Indexed(t.parent)}

(* What the mapping itself noted: SqlServerProjectionLedger.               *)
ExternalObjects == Cardinality(ExternalNames)
DependencyRelationships == Cardinality(map_dependencies)

expected_extension_object_count ==
    LET predicates(p) == Cardinality(p.predicates)
        values(f) == Cardinality(f.values)
        namespaces(x) == Cardinality(x.namespaces)
    IN Cardinality({c \in raw.columns : IsTableType(c.object)})
         + Cardinality(TypeConstraints) + Cardinality(TypeIndexes)
         + SumOver(raw.policies, predicates)
         + Cardinality(raw.functions) + SumOver(raw.functions, values)
         + Cardinality(raw.schemes) + Cardinality(raw.partitions)
         + Cardinality(raw.collections) + SumOver(raw.collections, namespaces)
         + Cardinality(raw.properties) + ExternalObjects

CountedObjects ==
    [schema |-> Cardinality(raw.schemas),
     principal |-> Cardinality(raw.principals),
     table |-> Cardinality(raw.tables),
     column |-> Cardinality(TableColumns),
     view_column |-> Cardinality(ViewColumns),
     primary_key |-> Cardinality(TableConstraints({"primary_key"})),
     foreign_key |-> Cardinality(TableConstraints({"foreign_key"})),
     unique_constraint |->
        Cardinality(TableConstraints({"unique_constraint"})),
     check_constraint |-> Cardinality(TableConstraints({"check_constraint"})),
     index |-> Cardinality(raw.indexes \ TypeIndexes),
     view |-> Cardinality(PlainViews),
     materialized_view |-> Cardinality(raw.views \ PlainViews),
     routine |-> Cardinality(raw.routines),
     routine_parameter |-> Cardinality(raw.parameters),
     trigger |-> Cardinality(raw.triggers),
     user_defined_type |-> Cardinality(raw.user_types),
     sequence |-> Cardinality(raw.sequences),
     synonym |-> Cardinality(raw.synonyms),
     policy |-> Cardinality(raw.policies),
     extension |-> expected_extension_object_count]

expected_metadata_parent_count ==
    Cardinality(raw.principals) + Cardinality(raw.user_types)
      + Cardinality(raw.sequences) + Cardinality(raw.views \ PlainViews)
      + Cardinality(MetadataTriggers) + Cardinality(ViewColumns)
      + Cardinality(ViewIndexes) + Cardinality(raw.parameters)
      + Cardinality(raw.synonyms) + Cardinality(raw.policies)
      + expected_extension_object_count

expected_metadata_relationship_count ==
    LET columns(k) == Len(k.columns)
        predicates(p) == Cardinality(p.predicates)
        included(i) ==
            Cardinality({n \in DOMAIN i.columns : i.columns[n].included})
        size(rows) == Cardinality(rows)
        owned == {raw.schemas, raw.sequences, raw.tables, raw.views,
                  raw.routines, raw.synonyms, raw.policies}
        typed(rows) == Cardinality({r \in rows : HasType(r.type)})
        xml(rows) == Cardinality({r \in rows : r.xml # ""})
    IN SumOver(owned, size)
         + Cardinality({p \in raw.principals : p.owner # ""})
         + typed(raw.sequences) + typed(raw.columns) + typed(raw.parameters)
         + SumOver(TypeConstraints, columns)
         + SumOver(TypeIndexes, columns)
         + Cardinality(raw.parameters) + SumOver(raw.policies, predicates)
         + SumOver(raw.indexes \ TypeIndexes, included)
         + Cardinality(raw.schemes)
         + Cardinality({p \in raw.partitions : OnScheme(p)})
         + Cardinality(Temporal) + Cardinality(raw.synonyms)
         + Cardinality(raw.collections)
         + xml(raw.columns) + xml(raw.parameters)
         + DependencyRelationships

(* Variant: only columns with a key ordinal are counted.                   *)
projected_index_column_countOfKeys(i) ==
    Cardinality({n \in DOMAIN i.columns : i.columns[n].key > 0})

projected_index_column_count(i) ==
    LET keys == {n \in DOMAIN i.columns : i.columns[n].key > 0}
    IN IF keys = {} THEN Len(i.columns) ELSE Cardinality(keys)

CountedRelationships ==
    LET columns(k) == Len(k.columns)
        depends(v) == Cardinality(v.depends_on)
        keys == ConstraintKind \ {"foreign_key"}
    IN [database_has_schema |-> Cardinality(raw.schemas),
        schema_has_table |-> Cardinality(raw.tables),
        table_has_column |-> Cardinality(TableColumns),
        table_has_constraint |->
            Cardinality(TableConstraints(ConstraintKind)),
        constraint_column |-> SumOver(TableConstraints(keys), columns),
        foreign_key_column_pair |->
            SumOver(TableConstraints({"foreign_key"}), columns),
        table_has_index |-> Cardinality(TableIndexes),
        index_column |->
            SumOver(TableIndexes, projected_index_column_count),
        schema_has_view |-> Cardinality(PlainViews),
        view_dependency |-> SumOver(snapshot.view, depends),
        trigger_target |-> Cardinality(raw.triggers \ MetadataTriggers),
        schema_has_routine |-> Cardinality(raw.routines),
        routine_dependency |-> SumOver(snapshot.routine, depends),
        metadata_parent |-> expected_metadata_parent_count,
        metadata_relationship |-> expected_metadata_relationship_count]

(* The adapter compares the counts itself and refuses a mismatch.          *)
Count ==
    /\ stage = "count"
    /\ \E counts \in {Counts(CountedObjects, CountedRelationships)} :
          IF CountsReconciled(snapshot, counts)
          THEN discovered' = counts /\ stage' = "certify"
          ELSE stage' = "refused" /\ UNCHANGED discovered
    /\ UNCHANGED <<snapshot, graph, server, raw>>

-----------------------------------------------------------------------------

SqlServerInit(servers) ==
    /\ PipelineInit("read")
    /\ server \in servers
    /\ raw = NoRows

Done == Ended /\ UNCHANGED vars

SqlServerNext ==
    \/ ReadCatalog \/ ValidateInventory \/ MapTypes \/ MapCollections
    \/ MapRelations \/ MapTriggers \/ MapColumns \/ MapConstraints
    \/ MapIndexes \/ MapParameters \/ MapPolicies \/ MapPartitions
    \/ MapProperties \/ MapReferences \/ RelationshipsUnique \/ Count
    \/ Certify /\ UNCHANGED <<server, raw>>
    \/ Store /\ UNCHANGED <<server, raw>>
    \/ Done

SqlServerSpec(servers) == SqlServerInit(servers) /\ [][SqlServerNext]_vars

-----------------------------------------------------------------------------
(* Properties.                                                             *)

SqlServerTypeOK ==
    /\ PipelineTypeOK
    /\ stage \in LateStage \cup
          {"read", "validate", "types", "collections", "relations",
           "triggers", "columns", "constraints", "indexes", "parameters",
           "policies", "partitions", "properties", "references", "unique",
           "count"}
    /\ \A k \in DOMAIN NoRows : raw[k] \subseteq server[k]

(* The comparison at the end of the mapping never refuses a catalog: the   *)
(* sums over the rows, the ledger of external references and dependencies  *)
(* included, are what the mapping made of them.                            *)
SqlServerCountsAgree ==
    stage = "count" =>
        CountsReconciled(snapshot,
                         Counts(CountedObjects, CountedRelationships))

(* The names that a definition may execute text by, said of T-SQL: a text  *)
(* or a variable in parentheses, a procedure named by a variable or text,  *)
(* and sp_executesql, each also where the return code is kept.             *)
Executed(tokens) ==
    IF Len(tokens) > 1 /\ is_variable_token(tokens[1]) /\ tokens[2] = "="
    THEN From(tokens, 3) ELSE tokens
RunsText(tokens) ==
    \E n \in DOMAIN tokens :
        /\ tokens[n] = "EXEC"
        /\ LET callee == Executed(From(tokens, n + 1))
               names == {m \in DOMAIN callee :
                            \A i \in 1..m :
                                callee[i] \in {"name", ".", "sp_executesql"}}
           IN \/ callee # <<>> /\ Literal(callee[1])
              \/ Len(callee) > 1 /\ callee[1] = "(" /\ Literal(callee[2])
              \/ \E m \in names : callee[m] = "sp_executesql"

(* A definition that runs text is refused: its dependencies are not in the *)
(* catalog, and the adapter notes that dynamic SQL fails closed.           *)
DynamicSqlFailsClosed ==
    stage = "stored" =>
        \A f \in raw.routines \cup raw.triggers : ~RunsText(f.definition)

(* What leaves the selected schemas and has no place to go.                *)
LeavesScope(s) ==
    \/ \E k \in read_constraints(s) :
          k.kind = "foreign_key" /\ k.ref \notin Ids(read_tables(s))
    \/ \E r \in read_columns(s) \cup read_parameters(s) :
          r.xml \notin Ids(read_xml_schema_collections(s)) \cup {""}
    \/ \E t \in read_tables(s) :
          t.history \notin Ids(read_tables(s)) \cup {""}
    \/ \E p \in read_security_policies(s) : \E q \in p.predicates :
          q.target \notin Ids(read_tables(s))
                            \cup Ids(read_views(s))

(* What a dependency of the scope is on: the id where that is in the scope *)
(* and the name otherwise.                                                 *)
InReach(s, d) ==
    /\ d.to # ""
    /\ \/ d.class = 1 /\ \E rows \in {s.tables, s.views, s.routines,
                                      s.sequences, s.synonyms} :
                             d.to \in Ids(InScope(s, rows))
       \/ d.class = 6 /\ d.to \in Ids(read_user_types(s))
       \/ d.class = 10 /\ d.to \in Ids(read_xml_schema_collections(s))
       \/ d.class = 21
On(s, d) == IF InReach(s, d) THEN <<d.to, ToString(d.to_minor)>>
            ELSE <<FullName(d.name)>>

(* Two dependencies of one object that come to one target outside: the     *)
(* columns of a table a schema-bound module uses.                          *)
MeetOutside(s) ==
    \E d, e \in read_dependencies(s) :
        /\ d # e /\ d.from = e.from /\ d.from_minor = e.from_minor
        /\ ~InReach(s, d) /\ On(s, d) = On(s, e)

(* A view that uses routines or a routine that uses more than tables.      *)
UsesUnprojected(s) ==
    \E d \in read_dependencies(s) :
        /\ InReach(s, d) /\ d.class = 1 /\ d.to # d.from
        /\ \/ /\ d.from \in Ids(read_routines(s))
              /\ d.to_minor = 0
              /\ d.to \in Ids(read_routines(s)) \cup
                          {v.id : v \in {w \in s.views : ~w.indexed}}
           \/ /\ d.from \in {v.id : v \in {w \in s.views : ~w.indexed}}
              /\ d.to \in Ids(read_routines(s))

UnsupportedServer(s) ==
    \/ ~ScopeReadable(s) \/ read_unsupported_objects(s) # {}
    \/ \E r \in s.columns \cup s.views \cup s.routines : r.large
    \/ \E v \in read_views(s) : v.definition = <<>>
    \/ \E f \in read_routines(s) : f.type \in Clr
    \/ \E f \in read_routines(s) \cup read_triggers(s) :
          \/ f.definition = <<>>
          \/ /\ RunsText(f.definition)
             /\ ~\E n \in DOMAIN f.definition :
                   f.definition[n] = "=" /\ n < Len(f.definition)
                     /\ f.definition[n + 1] \in {"name", "sp_executesql"}
    \/ \E t \in read_user_types(s) : t.assembly \/ t.bound
    \/ \E d \in read_dependencies(s) : d.runtime
    \/ LeavesScope(s) \/ MeetOutside(s) \/ UsesUnprojected(s)

(* A database is stored unless it is one of these.                         *)
SqlServerStoredUnlessUnsupported ==
    Ended => (stage = "stored" <=> ~UnsupportedServer(server))

(* What an object of the scope refers to is linked to it: the target of a  *)
(* foreign key, and of every dependency the object itself or, outside the  *)
(* scope, a node of its name.                                              *)
SqlServerReferencesAreStored ==
    stage = "stored" =>
        LET linked(from, names) ==
                \E e \in graph.edges : /\ e.from = from
                                       /\ e.to.name \in names
                                       /\ e.to # e.from
        IN /\ \A k \in read_constraints(server) :
                 k.kind = "foreign_key" =>
                     Cardinality({e \in graph.edges :
                                     /\ e.type = <<"fk_to_column">>
                                     /\ e.from = ConstraintKey(k)
                                     /\ e.to.name = RelationKey(k.ref).name})
                       = Len(k.ref_columns)
           /\ \A d \in read_dependencies(server) :
                 d.to # d.from =>
                     linked(Source(d), {d.name.entity, FullName(d.name)})
           /\ \A y \in InScope(server, server.synonyms) :
                 linked(ObjectKeyOf(y.id), {y.target.entity, y.base})

(* The user types columns, sequences and parameters of the scope have are  *)
(* stored.                                                                 *)
SqlServerTypeUsesAreStored ==
    stage = "stored" =>
        \A r \in raw.columns \cup raw.sequences \cup raw.parameters :
            r.type \in Ids(server.user_types) => HasType(r.type)

=============================================================================
