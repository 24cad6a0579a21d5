---------------------------- MODULE MysqlMapping ----------------------------
(***************************************************************************)
(* The MySQL and MariaDB adapter between the server and the certification: *)
(* the rows of INFORMATION_SCHEMA that belong to the selected database are *)
(* read, reconciled with each other, mapped and counted a second time.     *)
(*                                                                         *)
(* A server is the rows its INFORMATION_SCHEMA holds.  The server may      *)
(* report all of them but one: the cross-checks between the tables are     *)
(* there for rows that do not arrive.  "" stands for NULL.                 *)
(***************************************************************************)
EXTENDS Certification, SequencesExt

CONSTANT Lower(_)   \* to_ascii_lowercase

VARIABLES
    server,     \* the server
    raw         \* RawMysqlFamilyCatalog

vars == <<snapshot, discovered, stage, graph, server, raw>>

-----------------------------------------------------------------------------
(* Privileges and sizes, before any row is read.                           *)

MetadataPrivilege == {"SELECT", "SHOW VIEW", "EXECUTE", "EVENT", "TRIGGER"}

(* grant_scope_matches: global, or exactly the selected database.          *)
ScopeMatches(g, s) == g.scope \in {"*.*", s.database}

(* parse_schema_grant: ALL stands for the five privileges; a grant of      *)
(* another scope and a row that is no grant of privileges say nothing.     *)
parse_schema_grant(g, s) ==
    IF ~ScopeMatches(g, s) THEN {}
    ELSE IF "ALL" \in g.privileges THEN MetadataPrivilege
    ELSE g.privileges

GrantsParse(s) ==
    \A g \in s.grants : ScopeMatches(g, s) => "?" \notin g.privileges

require_metadata_privileges(s) ==
    MetadataPrivilege \subseteq UNION {parse_schema_grant(g, s) :
                                          g \in s.grants}

Of(s, rows) == {r \in rows : r.schema = s.database}

check_definition_sizes(s) ==
    \A k \in {"views", "routines", "triggers", "events"} :
        \A r \in Of(s, s[k]) : r.definition # "large"

-----------------------------------------------------------------------------
(* RawMysqlFamilyCatalog::read: the rows of the selected database.         *)

read_tables(s) == Of(s, s.tables)
read_columns(s) == Of(s, s.columns)
read_constraints(s) == Of(s, s.constraints)

read_key_usage(s) == Of(s, s.key_usage)
read_reference_rules(s) == Of(s, s.reference_rules)
read_checks(s) ==
    IF s.product = "MariaDB" THEN Of(s, s.checks)
    ELSE {c \in Of(s, s.checks) :
             \E k \in s.constraints :
                 /\ k.schema = c.schema /\ k.name = c.constraint
                 /\ k.type = "CHECK"}
read_index_parts(s) == Of(s, s.index_parts)
read_views(s) == Of(s, s.views)

(* MariaDB has no usage tables: the definitions are parsed instead.        *)
read_view_table_usage(s) ==
    IF s.product = "MariaDB" THEN {} ELSE Of(s, s.view_table_usage)
read_view_routine_usage(s) ==
    IF s.product = "MariaDB" THEN {} ELSE Of(s, s.view_routine_usage)

read_routines(s) == Of(s, s.routines)
read_parameters(s) == Of(s, s.parameters)
read_triggers(s) == Of(s, s.triggers)
read_events(s) == Of(s, s.events)
read_partitions(s) == {p \in Of(s, s.partitions) : p.name # ""}

(* The names are those of TABLES.  The newer versions have a SEQUENCES     *)
(* table as well, and the two must name the same sequences.                *)
SequenceNames(s) ==
    {t.name : t \in {u \in read_tables(s) : u.type = "SEQUENCE"}}

read_sequences(s) ==
    IF s.product = "MySQL" THEN {}
    ELSE IF s.sequences_table THEN Of(s, s.sequences)
    ELSE {r \in s.show_create : r.name \in SequenceNames(s)}

SequencesReadable(s) ==
    s.product = "MariaDB" =>
        /\ \A n \in SequenceNames(s) :
              \E r \in s.show_create : r.name = n /\ r.definition = "text"
        /\ s.sequences_table =>
              {r.name : r \in Of(s, s.sequences)} = SequenceNames(s)

NoRows ==
    [tables |-> {}, columns |-> {}, constraints |-> {}, key_usage |-> {},
     reference_rules |-> {}, checks |-> {}, index_parts |-> {}, views |-> {},
     view_table_usage |-> {}, view_routine_usage |-> {}, routines |-> {},
     parameters |-> {}, triggers |-> {}, events |-> {}, partitions |-> {},
     sequences |-> {}]

Rows(s) ==
    [tables |-> read_tables(s), columns |-> read_columns(s),
     constraints |-> read_constraints(s), key_usage |-> read_key_usage(s),
     reference_rules |-> read_reference_rules(s), checks |-> read_checks(s),
     index_parts |-> read_index_parts(s), views |-> read_views(s),
     view_table_usage |-> read_view_table_usage(s),
     view_routine_usage |-> read_view_routine_usage(s),
     routines |-> read_routines(s), parameters |-> read_parameters(s),
     triggers |-> read_triggers(s), events |-> read_events(s),
     partitions |-> read_partitions(s), sequences |-> read_sequences(s)]

(* What arrives of a server: all rows, or all but one.                     *)
Reported(s) ==
    {s} \cup UNION {{[s EXCEPT ![k] = @ \ {r}] : r \in s[k]} :
                       k \in DOMAIN NoRows}

ReadCatalog ==
    /\ stage = "read"
    /\ \E s \in Reported(server) :
          IF /\ GrantsParse(s) /\ require_metadata_privileges(s)
             /\ check_definition_sizes(s)
             /\ SequencesReadable(s)
          THEN raw' = Rows(s) /\ stage' = "inventory"
          ELSE stage' = "refused" /\ UNCHANGED raw
    /\ UNCHANGED <<snapshot, discovered, graph, server>>

-----------------------------------------------------------------------------
(* MysqlFamilySnapshotMapper: names and lookups.                           *)

(* normalize_object_name depends on lower_case_table_names; columns are    *)
(* always compared in lower case.                                          *)
Norm(name) == IF server.lower THEN Lower(name) ELSE name

family_key(kind, name, sub) == Key(kind, server.database, name, sub)
Schema == SchemaKey(server.database)

OfType(type) == {t \in raw.tables : t.type = type}
Distinct(rows, id(_)) == Cardinality({id(r) : r \in rows}) = Cardinality(rows)

HasTable(name) == \E t \in OfType("BASE TABLE") : Norm(t.name) = Norm(name)
HasView(name) == \E v \in raw.views : Norm(v.name) = Norm(name)
TableKey(name) ==
    family_key("table", (CHOOSE t \in OfType("BASE TABLE") :
                            Norm(t.name) = Norm(name)).name, "")
ViewKey(name) ==
    family_key("view", (CHOOSE v \in raw.views :
                           Norm(v.name) = Norm(name)).name, "")
RelationKey(name) == IF HasTable(name) THEN TableKey(name) ELSE ViewKey(name)

(* column_keys: base table columns, in the spelling of COLUMNS.            *)
ColumnRow(table, name) ==
    {c \in raw.columns : /\ HasTable(c.table)
                         /\ Norm(c.table) = Norm(table)
                         /\ Lower(c.name) = Lower(name)}
HasColumn(table, name) == ColumnRow(table, name) # {}
ColumnKey(table, name) ==
    LET c == CHOOSE c \in ColumnRow(table, name) : TRUE
    IN family_key("column", c.table, c.name)

(* require_contiguous_ordinals over rows sorted by ordinal.                *)
Contiguous(rows) == {r.ordinal : r \in rows} = 1 .. Cardinality(rows)
InOrder(rows) == SetToSortSeq(rows, LAMBDA r, q : r.ordinal < q.ordinal)

Annotated(key) == Object(key, NoKey, <<key.kind, key.name, key.sub>>)
Metadata(key, parent) == Object(key, parent, <<key.kind, key.name, key.sub>>)
Link(kind, from, to, ordinal) ==
    Relationship(kind, from, to, ordinal, <<from, to, ordinal>>)

Mapping(at, ok, result, then) ==
    MappingStep(at, ok, result, then) /\ UNCHANGED <<server, raw>>

validate_raw_table_inventory ==
    LET name(r) == Norm(r.name)
        names(rows) == {Norm(r.name) : r \in rows}
    IN /\ Distinct(raw.tables, name)
       /\ \A t \in raw.tables :
             t.type \in {"BASE TABLE", "VIEW"}
                          \cup (IF server.product = "MariaDB"
                                THEN {"SEQUENCE"} ELSE {})
       /\ names(OfType("VIEW")) = names(raw.views)
       /\ Distinct(raw.views, name)
       /\ names(OfType("SEQUENCE")) = names(raw.sequences)
       /\ Distinct(raw.sequences, name)

CurrentUser == family_key("principal", "user", "")
RoleKey(r) == family_key("principal", r, "active_role")

(* map_principals: roles are compared without quotes and case.             *)
map_principals ==
    {Metadata(CurrentUser, DatabaseKey)}
      \cup {Metadata(RoleKey(r), DatabaseKey) : r \in server.roles}
RolesDistinct == Distinct(server.roles, Lower)

map_sequences ==
    {Metadata(family_key("sequence", q.name, ""), Schema) :
        q \in raw.sequences}

MapInventory ==
    Mapping("inventory", validate_raw_table_inventory /\ RolesDistinct,
        [snapshot EXCEPT
            !.schema = {Object(Schema, DatabaseKey, <<server.database>>)},
            !.table = {Object(TableKey(t.name), Schema, <<t.name>>) :
                          t \in OfType("BASE TABLE")},
            !.metadata = map_principals \cup map_sequences,
            !.annotation = {Annotated(DatabaseKey)}
                \cup {Annotated(TableKey(t.name)) :
                         t \in OfType("BASE TABLE")}],
        "views")

-----------------------------------------------------------------------------
(* Views and columns.                                                      *)

(* parse_mariadb_view_relations: a name without a schema that is the alias *)
(* of a WITH query, or DUAL, is no relation.                               *)
parse_mariadb_view_relations(v) ==
    {r \in v.relations :
        ~(r.schema = "" /\ (\/ r.name = "dual"
                            \/ \E a \in v.ctes : Norm(a) = Norm(r.name)))}

(* The relations a view names, per product.                                *)
ViewRelations(v) ==
    IF server.product = "MariaDB" THEN parse_mariadb_view_relations(v)
    ELSE {[schema |-> u.target_schema, name |-> u.target] :
             u \in {w \in raw.view_table_usage : Norm(w.view) = Norm(v.name)}}

InScope(schema) == Norm(schema) = Norm(server.database)

ViewsResolve ==
    /\ \A u \in raw.view_table_usage : HasView(u.view)
    /\ \A v \in raw.views :
          /\ v.definition \notin {"hidden"} \cup
                (IF server.product = "MariaDB" THEN {"unparsed"} ELSE {})
          /\ \A r \in ViewRelations(v) :
                /\ r.schema = "" \/ InScope(r.schema)
                /\ HasTable(r.name) \/ HasView(r.name)

(* Variant: a view gets only the tables it reads.                          *)
resolve_view_dependenciesTables(v) ==
    {RelationKey(r.name) : r \in {q \in ViewRelations(v) : HasTable(q.name)}}

resolve_view_dependencies(v) ==
    {RelationKey(r.name) : r \in ViewRelations(v)}

MapViews ==
    Mapping("views", ViewsResolve,
        [snapshot EXCEPT
            !.view = {Dependent(ViewKey(v.name), Schema,
                                resolve_view_dependencies(v), <<v.name>>) :
                         v \in raw.views},
            !.annotation = @ \cup {Annotated(ViewKey(v.name)) :
                                      v \in raw.views}],
        "columns")

(* map_columns: by the type of the relation a column is a column, a view   *)
(* column or an extension object of its sequence.                          *)
ColumnsOf(type) ==
    {c \in raw.columns : \E t \in OfType(type) : Norm(t.name) = Norm(c.table)}

MapColumns ==
    LET base == ColumnsOf("BASE TABLE")
        id(c) == <<Norm(c.table), Lower(c.name)>>
        sequence(c) == CHOOSE q \in raw.sequences :
                          Norm(q.name) = Norm(c.table)
    IN Mapping("columns",
        /\ \A c \in raw.columns :
              \E t \in raw.tables : Norm(t.name) = Norm(c.table)
        /\ Distinct(base, id),
        [snapshot EXCEPT
            !.column = {Column(family_key("column", c.table, c.name),
                               TableKey(c.table), c.ordinal,
                               <<c.table, c.name>>) : c \in base},
            !.annotation = @ \cup
                {Annotated(family_key("column", c.table, c.name)) :
                    c \in base},
            !.metadata = @
                \cup {Metadata(family_key("view_column", c.table, c.name),
                               ViewKey(c.table)) : c \in ColumnsOf("VIEW")}
                \cup {Metadata(family_key("extension", c.table,
                                          "sequence_column:" \o c.name),
                               family_key("sequence", sequence(c).name, "")) :
                         c \in ColumnsOf("SEQUENCE")}],
        "constraints")

-----------------------------------------------------------------------------
(* map_constraints.                                                        *)

Identity(table, name) == <<Norm(table), name>>
ConstraintId(k) == Identity(k.table, k.name)
UseId(u) == Identity(u.table, u.constraint)

Uses(k) == {u \in raw.key_usage : UseId(u) = ConstraintId(k)}

KindOf(type) == CASE type = "PRIMARY KEY" -> "primary_key"
                  [] type = "FOREIGN KEY" -> "foreign_key"
                  [] type = "UNIQUE" -> "unique_constraint"
                  [] type = "CHECK" -> "check_constraint"
                  [] OTHER -> "none"

(* A pair of a foreign key: every part there, in scope, one target.        *)
ForeignKeyMaps(uses) ==
    /\ \A u \in uses : /\ u.ref_schema # "" /\ InScope(u.ref_schema)
                       /\ u.ref_table # "" /\ HasTable(u.ref_table)
                       /\ u.ref_column # ""
                       /\ HasColumn(u.ref_table, u.ref_column)
    /\ Cardinality({Norm(u.ref_table) : u \in uses}) = 1

(* Variant: a gap in the ordinals is closed by the sort.                   *)
KeyUsesMapGaps(k, uses) ==
    /\ uses # {}
    /\ \A u \in uses : HasColumn(k.table, u.column)
    /\ IF k.type = "FOREIGN KEY" THEN ForeignKeyMaps(uses)
       ELSE \A u \in uses :
               u.ref_schema = "" /\ u.ref_table = "" /\ u.ref_column = ""

KeyUsesMap(k, uses) ==
    /\ uses # {} /\ Contiguous(uses)
    /\ \A u \in uses : HasColumn(k.table, u.column)
    /\ IF k.type = "FOREIGN KEY" THEN ForeignKeyMaps(uses)
       ELSE \A u \in uses :
               u.ref_schema = "" /\ u.ref_table = "" /\ u.ref_column = ""

(* The row of CHECK_CONSTRAINTS and of REFERENTIAL_CONSTRAINTS.            *)
RowFor(k, rows) == {c \in rows : UseId(c) = ConstraintId(k)}

ConstraintMaps(k) ==
    /\ HasTable(k.table)
    /\ KindOf(k.type) # "none"
    /\ IF k.type = "CHECK" THEN Uses(k) = {} ELSE KeyUsesMap(k, Uses(k))
    /\ k.type = "CHECK" => Cardinality(RowFor(k, raw.checks)) = 1
    /\ k.type = "FOREIGN KEY" =>
          Cardinality(RowFor(k, raw.reference_rules)) = 1

(* Rows of the other three tables that no constraint took.                 *)
NoOrphans ==
    LET ids(types) == {ConstraintId(k) :
                          k \in {c \in raw.constraints : c.type \in types}}
    IN /\ \A u \in raw.key_usage :
             UseId(u) \in ids({"PRIMARY KEY", "FOREIGN KEY", "UNIQUE",
                               "CHECK"})
       /\ \A c \in raw.checks : UseId(c) \in ids({"CHECK"})
       /\ \A r \in raw.reference_rules : UseId(r) \in ids({"FOREIGN KEY"})

ConstraintOf(k) ==
    LET uses == InOrder(Uses(k))
        fk == k.type = "FOREIGN KEY"
    IN Constraint(
        family_key(KindOf(k.type), k.table, k.name), TableKey(k.table),
        [i \in DOMAIN uses |-> ColumnKey(k.table, uses[i].column)],
        IF fk THEN TableKey(uses[1].ref_table) ELSE NoKey,
        IF fk THEN [i \in DOMAIN uses |-> ColumnKey(uses[i].ref_table,
                                                    uses[i].ref_column)]
        ELSE <<>>,
        k.type = "CHECK", <<k.table, k.name, k.type>>)

MapConstraints ==
    Mapping("constraints",
        /\ Distinct(raw.constraints, ConstraintId)
        /\ \A k \in raw.constraints : ConstraintMaps(k)
        /\ NoOrphans,
        [snapshot EXCEPT
            !.constraint = {ConstraintOf(k) : k \in raw.constraints},
            !.annotation = @ \cup
                {Annotated(family_key(KindOf(k.type), k.table, k.name)) :
                    k \in raw.constraints}],
        "indexes")

-----------------------------------------------------------------------------
(* map_indexes.                                                            *)

IndexId(p) == Identity(p.table, p.index)
IndexIds == {IndexId(p) : p \in raw.index_parts}
Parts(id) == {p \in raw.index_parts : IndexId(p) = id}
FirstPart(id) == InOrder(Parts(id))[1]

(* Variant: a gap in the ordinals is closed by the sort.                   *)
IndexMapsGaps(id) ==
    /\ Cardinality({p.about : p \in Parts(id)}) = 1
    /\ \A p \in Parts(id) :
          /\ HasTable(p.table)
          /\ p.column # "" /\ ~p.expression => HasColumn(p.table, p.column)
          /\ (p.column # "") # p.expression

IndexMaps(id) ==
    /\ Contiguous(Parts(id))
    /\ Cardinality({p.about : p \in Parts(id)}) = 1
    /\ \A p \in Parts(id) :
          /\ HasTable(p.table)
          /\ p.column # "" /\ ~p.expression => HasColumn(p.table, p.column)
          /\ (p.column # "") # p.expression

IndexOf(id) ==
    LET first == FirstPart(id)
        columns == SelectSeq(InOrder(Parts(id)), LAMBDA p : p.column # "")
    IN Index(family_key("index", first.table, first.index),
             TableKey(first.table),
             [i \in DOMAIN columns |->
                 ColumnKey(first.table, columns[i].column)],
             \E p \in Parts(id) : p.expression, <<first.table, first.index>>)

MapIndexes ==
    Mapping("indexes", \A id \in IndexIds : IndexMaps(id),
        [snapshot EXCEPT
            !.index = {IndexOf(id) : id \in IndexIds},
            !.annotation = @ \cup
                {Annotated(family_key("index", FirstPart(id).table,
                                      FirstPart(id).index)) :
                    id \in IndexIds}],
        "routines")

-----------------------------------------------------------------------------
(* Routines, triggers, events and partitions.                              *)

RoutineKey(r) == family_key("routine", r.name, r.specific)

ParameterOwner(p) ==
    {r \in raw.routines : Lower(r.specific) = Lower(p.specific)}

(* A return value has ordinal 0, which no canonical relationship may have. *)
MapRoutines ==
    LET specific(r) == Lower(r.specific)
        id(p) == <<p.specific, p.ordinal>>
        owner(p) == CHOOSE r \in ParameterOwner(p) : TRUE
        key(p) == family_key("routine_parameter", owner(p).name,
                             p.specific \o ":" \o ToString(p.ordinal)
                                \o ":" \o p.name)
    IN Mapping("routines",
        /\ \A r \in raw.routines : /\ r.definition # "hidden"
                                   /\ r.type \in {"FUNCTION", "PROCEDURE"}
        /\ Distinct(raw.routines, specific)
        /\ \A p \in raw.parameters :
              \E r \in ParameterOwner(p) :
                  r.specific = p.specific /\ r.type = p.type
        /\ Distinct(raw.parameters, id),
        [snapshot EXCEPT
            !.routine = {Dependent(RoutineKey(r), Schema, {},
                                   <<r.specific>>) : r \in raw.routines},
            !.annotation = @ \cup {Annotated(RoutineKey(r)) :
                                      r \in raw.routines},
            !.metadata = @ \cup {Metadata(key(p), RoutineKey(owner(p))) :
                                    p \in raw.parameters},
            !.relationship = @ \cup
                {Link("has_parameter", RoutineKey(owner(p)), key(p),
                      p.ordinal) : p \in raw.parameters}],
        "triggers")

MapTriggers ==
    LET name(t) == Lower(t.name)
        key(t) == family_key("trigger", t.table, t.name)
    IN Mapping("triggers",
        /\ Distinct(raw.triggers, name)
        /\ \A t \in raw.triggers :
              t.definition # "hidden" /\ HasTable(t.table),
        [snapshot EXCEPT
            !.trigger = {Trigger(key(t), TableKey(t.table), {t.event}, NoKey,
                                 <<t.name>>) : t \in raw.triggers},
            !.annotation = @ \cup {Annotated(key(t)) : t \in raw.triggers}],
        "events")

MapEvents ==
    LET name(e) == Lower(e.name)
    IN Mapping("events",
        /\ Distinct(raw.events, name)
        /\ \A e \in raw.events : e.definition # "hidden",
        [snapshot EXCEPT !.metadata = @ \cup
            {Metadata(family_key("event", e.name, ""), Schema) :
                e \in raw.events}],
        "partitions")

(* A row of PARTITIONS is a subpartition; the partition is made with the   *)
(* first of its rows.                                                      *)
PartitionKey(p) == family_key("extension", p.table, "partition:" \o p.name)

map_partitions ==
    {Object(PartitionKey(p), TableKey(p.table), <<p.table, p.name>>) :
        p \in raw.partitions}
      \cup {Object(family_key("extension", p.table,
                              "partition:" \o p.name \o ":subpartition:"
                                 \o p.sub),
                   PartitionKey(p), <<p.table, p.name, p.sub>>) :
               p \in {q \in raw.partitions : q.sub # ""}}

MapPartitions ==
    LET id(p) == <<Norm(p.table), p.name, p.sub>>
    IN Mapping("partitions",
        /\ \A p \in raw.partitions : HasTable(p.table)
        /\ Distinct({p \in raw.partitions : p.sub # ""}, id),
        [snapshot EXCEPT !.metadata = @ \cup map_partitions],
        "closure")

-----------------------------------------------------------------------------
(* The end of the mapping.                                                 *)

RoutineNamed(specific) ==
    {r \in raw.routines : Lower(r.specific) = Lower(specific)}

map_view_routine_relationships ==
    {Link("invokes", ViewKey(u.view),
          RoutineKey(CHOOSE r \in RoutineNamed(u.specific) : TRUE), None) :
        u \in raw.view_routine_usage}

ViewRoutinesResolve ==
    \A u \in raw.view_routine_usage :
        /\ InScope(u.routine_schema)
        /\ HasView(u.view)
        /\ RoutineNamed(u.specific) # {}

add_principal_relationships ==
    {Link("active_role", CurrentUser, RoleKey(r), None) : r \in server.roles}

(* Variant: only routines are bodies whose dependencies are unknown.       *)
ensure_dependency_closureRoutines == raw.routines = {}

(* The server has no catalog of what bodies depend on, so a database with  *)
(* a routine, a trigger or an event is not stored at all.                  *)
ensure_dependency_closure ==
    raw.routines = {} /\ raw.triggers = {} /\ raw.events = {}

Close ==
    Mapping("closure", ViewRoutinesResolve /\ ensure_dependency_closure,
        [snapshot EXCEPT !.relationship =
            @ \cup map_view_routine_relationships
              \cup add_principal_relationships],
        "count")

(* discovery_counts_from_catalog: rows, except for the dependencies of     *)
(* views and the metadata, which are counted in the snapshot.              *)
CountedObjects ==
    LET of(type) == Cardinality({k \in raw.constraints : k.type = type})
    IN [schema |-> 1, table |-> Cardinality(OfType("BASE TABLE")),
        column |-> Cardinality(ColumnsOf("BASE TABLE")),
        primary_key |-> of("PRIMARY KEY"), foreign_key |-> of("FOREIGN KEY"),
        unique_constraint |-> of("UNIQUE"), check_constraint |-> of("CHECK"),
        index |-> Cardinality(IndexIds), view |-> Cardinality(raw.views),
        view_column |-> Cardinality(ColumnsOf("VIEW")),
        trigger |-> Cardinality(raw.triggers),
        routine |-> Cardinality(raw.routines),
        sequence |-> Cardinality(raw.sequences),
        routine_parameter |-> Cardinality(raw.parameters),
        event |-> Cardinality(raw.events),
        principal |-> 1 + Cardinality(server.roles),
        extension |-> Cardinality(ColumnsOf("SEQUENCE"))
            + Cardinality({<<Norm(p.table), p.name>> : p \in raw.partitions})
            + Cardinality({p \in raw.partitions : p.sub # ""})]

(* Variant: the expression parts of an index are counted as columns.       *)
IndexColumnCountOfParts == Cardinality(raw.index_parts)

IndexColumnCount == Cardinality({p \in raw.index_parts : p.column # ""})

CountedRelationships ==
    LET fkIds == {ConstraintId(k) : k \in {c \in raw.constraints :
                                              c.type = "FOREIGN KEY"}}
        depends(v) == Cardinality(v.depends_on)
    IN [database_has_schema |-> 1,
        schema_has_table |-> Cardinality(OfType("BASE TABLE")),
        table_has_column |-> Cardinality(ColumnsOf("BASE TABLE")),
        table_has_constraint |-> Cardinality(raw.constraints),
        constraint_column |-> Cardinality({u \in raw.key_usage :
                                              UseId(u) \notin fkIds}),
        foreign_key_column_pair |-> Cardinality({u \in raw.key_usage :
                                                    UseId(u) \in fkIds}),
        table_has_index |-> Cardinality(IndexIds),
        index_column |-> IndexColumnCount,
        schema_has_view |-> Cardinality(raw.views),
        view_dependency |-> SumOver(snapshot.view, depends),
        trigger_target |-> Cardinality(raw.triggers),
        schema_has_routine |-> Cardinality(raw.routines),
        metadata_parent |-> Cardinality(snapshot.metadata),
        metadata_relationship |-> Cardinality(snapshot.relationship)]

(* This adapter compares the counts itself and refuses a mismatch.         *)
Count ==
    /\ stage = "count"
    /\ \E counts \in {Counts(CountedObjects, CountedRelationships)} :
          IF CountsReconciled(snapshot, counts)
          THEN discovered' = counts /\ stage' = "certify"
          ELSE stage' = "refused" /\ UNCHANGED discovered
    /\ UNCHANGED <<snapshot, graph, server, raw>>

-----------------------------------------------------------------------------

MysqlInit(servers) ==
    /\ PipelineInit("read")
    /\ server \in servers
    /\ raw = NoRows

Done == Ended /\ UNCHANGED vars

MysqlNext ==
    \/ ReadCatalog \/ MapInventory \/ MapViews \/ MapColumns
    \/ MapConstraints \/ MapIndexes \/ MapRoutines \/ MapTriggers
    \/ MapEvents \/ MapPartitions \/ Close \/ Count
    \/ Certify /\ UNCHANGED <<server, raw>>
    \/ Store /\ UNCHANGED <<server, raw>>
    \/ Done

MysqlSpec(servers) == MysqlInit(servers) /\ [][MysqlNext]_vars

-----------------------------------------------------------------------------
(* Properties.                                                             *)

MysqlTypeOK ==
    /\ PipelineTypeOK
    /\ stage \in LateStage \cup
          {"read", "inventory", "views", "columns", "constraints",
           "indexes", "routines", "triggers", "events", "partitions",
           "closure", "count"}
    /\ \A k \in DOMAIN NoRows \ {"sequences"} :
          raw[k] \subseteq Of(server, server[k])

(* The comparison at the end of the mapping never refuses a catalog: the   *)
(* rows are counted as they are mapped, also when one of them is missing.  *)
MysqlCountsAgree ==
    stage = "count" =>
        CountsReconciled(snapshot,
                         Counts(CountedObjects, CountedRelationships))

(* The databases that are not stored although every row arrived, said of   *)
(* the rows of the server.                                                 *)
Invisible(s) ==
    \/ ~MetadataPrivilege \subseteq
          UNION {IF "ALL" \in g.privileges THEN MetadataPrivilege
                 ELSE g.privileges :
                    g \in {h \in s.grants : h.scope \in {"*.*", s.database}}}
    \/ \E g \in s.grants : /\ g.scope \in {"*.*", s.database}
                           /\ "?" \in g.privileges
    \/ \E v \in Of(s, s.views) : v.definition \in {"hidden", "large"}

HasBodies(s) ==
    \/ Of(s, s.routines) # {} \/ Of(s, s.triggers) # {}
    \/ Of(s, s.events) # {}

LeavesDatabase(s) ==
    \/ \E u \in Of(s, s.key_usage) :
          u.ref_schema \notin {"", s.database}
    \/ \E v \in Of(s, s.views) : \E r \in v.relations :
          \/ r.schema \notin {"", s.database}
          \/ ~\E t \in Of(s, s.tables) :
                /\ t.name = r.name \/ (s.lower /\ t.name = Lower(r.name))
                /\ t.type \in {"BASE TABLE", "VIEW"}

(* One name for two constraints of a table of different types, a partition *)
(* named like a subpartition, and roles that differ only in case.          *)
NamesMeet(s) ==
    \/ \E j, k \in Of(s, s.constraints) :
          j.table = k.table /\ j.name = k.name /\ j.type # k.type
    \/ \E p, q \in Of(s, s.partitions) :
          p.table = q.table /\ p.name = q.name \o ":subpartition:" \o q.sub
    \/ \E a, b \in s.roles : a # b /\ Lower(a) = Lower(b)

UnsupportedServer(s) ==
    \/ Invisible(s) \/ HasBodies(s) \/ LeavesDatabase(s) \/ NamesMeet(s)
    \/ \E t \in Of(s, s.tables) : t.type = "SYSTEM VERSIONED"
    \/ s.product = "MariaDB" /\ \E v \in Of(s, s.views) :
          v.definition = "unparsed"

MysqlStoredUnlessUnsupported ==
    Ended /\ raw = Rows(server) =>
        (stage = "stored" <=> ~UnsupportedServer(server))

(* With a row missing a stored key or index may lose its last columns, for *)
(* the ordinals of the others are contiguous still, but never one in front *)
(* of another: its columns are those of the first rows that KEY_COLUMN_    *)
(* USAGE or STATISTICS have of it, in their order, at least one of a key,  *)
(* and a foreign key pairs each with the column it references.             *)
FirstColumns(rows, n) ==
    InOrder({r \in rows : r.ordinal <= n /\ r.column # ""})
Names(keys) == [i \in DOMAIN keys |-> Lower(keys[i].sub)]

KeysLoseOnlyTheirEnd ==
    stage = "stored" =>
        /\ \A c \in {d \in snapshot.constraint :
                         d.key.kind # "check_constraint"} :
              LET uses == {u \in Of(server, server.key_usage) :
                              UseId(u) = Identity(c.row[1], c.row[2])}
              IN \E n \in 1 .. Cardinality(uses) :
                    LET first == FirstColumns(uses, n) IN
                        /\ Names(c.columns)
                              = [i \in 1 .. n |-> Lower(first[i].column)]
                        /\ c.key.kind = "foreign_key" =>
                              Names(c.referenced)
                                = [i \in 1 .. n |->
                                      Lower(first[i].ref_column)]
        /\ \A x \in snapshot.index :
              LET parts == {p \in Of(server, server.index_parts) :
                               IndexId(p) = Identity(x.row[1], x.row[2])}
              IN \E n \in 1 .. Cardinality(parts) :
                    LET first == FirstColumns(parts, n) IN
                        Names(x.columns)
                          = [i \in DOMAIN first |-> Lower(first[i].column)]

(* Every relation a stored view names is an edge from the view, unless the *)
(* row that says so is the one that did not arrive.                        *)
ViewReadsAreStored ==
    stage = "stored" /\ raw = Rows(server) =>
        \A v \in Of(server, server.views) : \A r \in v.relations :
            \E e \in graph.edges : /\ e.from = ViewKey(v.name)
                                   /\ e.to = RelationKey(r.name)

=============================================================================
