---------------------------- MODULE SqliteMapping ----------------------------
(***************************************************************************)
(* The SQLite adapter between the file and the certification: what the     *)
(* PRAGMAs return is read, cross-checked against the parsed CREATE         *)
(* statements, mapped to the canonical snapshot collection by collection,  *)
(* and counted a second time.                                              *)
(*                                                                         *)
(* A file is what its CREATE statements declare.  What SQLite derives from *)
(* them (implicit indexes, auxiliary index terms, foreign key ids, the     *)
(* accesses the authorizer reports) is external and modelled from how the  *)
(* adapter uses it.  Anything the adapter cannot account for refuses the   *)
(* whole file.                                                             *)
(***************************************************************************)
EXTENDS Certification, SequencesExt

CONSTANT Fold(_)    \* fold_identifier: SQLite compares names without case

VARIABLES
    file,       \* the database file
    raw         \* RawSqliteCatalog

vars == <<snapshot, discovered, stage, graph, file, raw>>

Same(a, b) == Fold(a) = Fold(b)

-----------------------------------------------------------------------------
(* What SQLite derives from the declarations.                              *)

(* PRAGMA index_xinfo: the key terms, then the rowid or, WITHOUT ROWID, the *)
(* columns that complete the row.                                          *)
ColumnTerm(c, key) == [cid |-> "column", col |-> c, key |-> key]
RowidTerm == [cid |-> "rowid", col |-> "", key |-> FALSE]

Auxiliary(rel, keyColumns, origin) ==
    LET rest == IF origin = "pk" THEN [i \in DOMAIN rel.cols |->
                                          rel.cols[i].name]
                ELSE rel.pk
        missing(c) == c \notin Elements(keyColumns)
    IN IF rel.rowid THEN <<RowidTerm>>
       ELSE LET names == SelectSeq(rest, missing)
            IN [i \in DOMAIN names |-> ColumnTerm(names[i], FALSE)]

ImplicitIndex(rel, name, columns, origin) ==
    [table |-> rel.name, name |-> name, origin |-> origin,
     terms |-> [i \in DOMAIN columns |-> ColumnTerm(columns[i], TRUE)]
                  \o Auxiliary(rel, columns, origin),
     probe |-> {}, row |-> <<rel.name, name>>]

(* PRAGMA index_list: the index of a PRIMARY KEY that is not the rowid, one *)
(* per UNIQUE whose columns no earlier key has, and the CREATE INDEXes.    *)
HasKeyIndex(rel) == rel.pk # <<>> /\ ~(rel.rowid /\ rel.alias)

Redundant(rel, i) ==
    \/ HasKeyIndex(rel) /\ rel.uniques[i].cols = rel.pk
    \/ \E j \in 1 .. i - 1 : rel.uniques[j].cols = rel.uniques[i].cols

index_list(f, rel) ==
    {ImplicitIndex(rel, "auto0", rel.pk, "pk") :
        x \in IF HasKeyIndex(rel) THEN {1} ELSE {}}
      \cup {ImplicitIndex(rel, "auto" \o ToString(i), rel.uniques[i].cols,
                          "u") :
               i \in {j \in DOMAIN rel.uniques : ~Redundant(rel, j)}}
      \cup {[table |-> rel.name, name |-> x.name, origin |-> "c",
             terms |-> [i \in DOMAIN x.terms |->
                           IF x.terms[i] = "" THEN
                               [cid |-> "expr", col |-> "", key |-> TRUE]
                           ELSE ColumnTerm(x.terms[i], TRUE)]
                          \o Auxiliary(rel, x.terms, "c"),
             probe |-> x.probe, row |-> <<rel.name, x.name>>] :
               x \in {y \in f.index : Same(y.table, rel.name)}}

(* PRAGMA foreign_key_list: the last declared key has id 0.                *)
foreign_key_list(rel) ==
    {[table |-> rel.name, id |-> Len(rel.fks) - i,
      cols |-> rel.fks[i].cols, target |-> rel.fks[i].target,
      refs |-> rel.fks[i].refs, row |-> <<rel.name, "fk", i>>] :
        i \in DOMAIN rel.fks}

-----------------------------------------------------------------------------
(* RawSqliteCatalog::read.                                                 *)

IsTable(rel) == rel.type \in {"table", "virtual", "shadow"}
System(name) == name \in {"sqlite_sequence", "sqlite_stat1"}

read_relations(f) == {rel \in f.relation : ~System(rel.name)}

(* The early errors of read_relations and read_database_names.             *)
RelationsReadable(f) ==
    /\ ~f.attached
    /\ \A rel \in read_relations(f) :
          /\ rel.type \in {"table", "virtual", "shadow", "view"}
          /\ rel.sql \/ rel.type = "shadow"
          /\ \A other \in read_relations(f) :
                Same(rel.name, other.name) => rel = other

read_indexes(f) ==
    UNION {index_list(f, rel) :
              rel \in {r \in read_relations(f) : IsTable(r)}}

read_foreign_keys(f) ==
    UNION {foreign_key_list(rel) :
              rel \in {r \in read_relations(f) : IsTable(r)}}

read_triggers(f) == f.trigger

NoRows == [relations |-> {}, indexes |-> {}, foreign_keys |-> {},
           triggers |-> {}]

ReadCatalog ==
    /\ stage = "read"
    /\ IF RelationsReadable(file)
       THEN /\ raw' = [relations |-> read_relations(file),
                       indexes |-> read_indexes(file),
                       foreign_keys |-> read_foreign_keys(file),
                       triggers |-> read_triggers(file)]
            /\ stage' = "tables"
       ELSE /\ stage' = "refused"
            /\ UNCHANGED raw
    /\ UNCHANGED <<snapshot, discovered, graph, file>>

-----------------------------------------------------------------------------
(* SqliteSnapshotMapper: keys, and lookups by folded name.                 *)

Main(kind, name, sub) == Key(kind, "main", name, sub)
MainSchema == SchemaKey("main")

Tables == {rel \in raw.relations : IsTable(rel)}
Views == {rel \in raw.relations : rel.type = "view"}
RelationKey(rel) == Main(IF IsTable(rel) THEN "table" ELSE "view",
                         rel.name, "")
ColumnKey(rel, name) == Main(IF IsTable(rel) THEN "column" ELSE "view_column",
                             rel.name, name)

Named(name) == {rel \in raw.relations : Same(rel.name, name)}
HasColumn(rel, name) == \E i \in DOMAIN rel.cols : Same(rel.cols[i].name, name)

(* The key has the spelling of table_xinfo, whatever the reference has.    *)
ResolvedColumn(rel, name) ==
    LET i == CHOOSE k \in DOMAIN rel.cols : Same(rel.cols[k].name, name)
    IN ColumnKey(rel, rel.cols[i].name)

ResolvedColumns(rel, names) ==
    [i \in DOMAIN names |-> ResolvedColumn(rel, names[i])]

(* resolve_named_columns succeeds.                                         *)
ColumnsResolve(rel, names) == \A c \in Elements(names) : HasColumn(rel, c)

RowidAlias == {"rowid", "oid", "_rowid_"}

(* map_accesses: relations outside the inventory fail unless they are      *)
(* SQLite's own; the rowid is no column.                                   *)
AccessesResolve(reads) ==
    \A a \in reads :
        \/ System(a.relation) /\ Named(a.relation) = {}
        \/ \E rel \in Named(a.relation) :
              a.column \in RowidAlias \cup {""} \/ HasColumn(rel, a.column)

map_accesses(reads) ==
    UNION {{RelationKey(rel)}
             \cup {ResolvedColumn(rel, c) :
                      c \in {a.column} \ (RowidAlias \cup {""})} :
              <<a, rel>> \in {p \in reads \X raw.relations :
                                 Same(p[1].relation, p[2].name)}}

(* expression_dependencies of expressions over one table.                  *)
Accesses(rel, columns) ==
    {[relation |-> rel.name, column |-> c] : c \in columns}

DependsOn(from, to) ==
    Relationship("depends_on", from, to, None, <<from, to, None>>)

Mapping(at, ok, result, then) ==
    MappingStep(at, ok, result, then) /\ UNCHANGED <<file, raw>>

MapTables ==
    Mapping("tables", TRUE,
        [snapshot EXCEPT
            !.schema = {Object(MainSchema, DatabaseKey, <<"main">>)},
            !.table = {Object(RelationKey(rel), MainSchema, <<rel.name>>) :
                          rel \in Tables}],
        "columns")

(* Columns of tables, columns of views and the annotations of tables and   *)
(* table columns.  A generated column needs its parsed expression.         *)
MapColumns ==
    LET columnsOf(rel) ==
            {Column(ColumnKey(rel, rel.cols[i].name), RelationKey(rel), i,
                    <<rel.name, i>>) : i \in DOMAIN rel.cols}
        annotated == UNION {columnsOf(rel) : rel \in Tables}
    IN Mapping("columns",
        \A rel \in Tables : \A i \in DOMAIN rel.cols :
            rel.cols[i].hidden \in {2, 3} => rel.type # "virtual",
        [snapshot EXCEPT
            !.column = annotated,
            !.metadata = UNION {{Object(c.key, c.owner, c.row) :
                                    c \in columnsOf(rel)} : rel \in Views},
            !.annotation =
                {Object(o.key, NoKey, o.row) :
                    o \in annotated \cup snapshot.table}],
        "generated")

(* map_generated_dependencies: only columns of the table itself.           *)
MapGenerated ==
    LET inputs(rel, i) == rel.cols[i].reads \ RowidAlias
        parsed == {rel \in Tables : rel.type # "virtual"}
    IN Mapping("generated",
        \A rel \in parsed : \A i \in DOMAIN rel.cols :
            AccessesResolve(Accesses(rel, rel.cols[i].reads)),
        [snapshot EXCEPT !.relationship = @ \cup
            UNION {UNION {{DependsOn(ColumnKey(rel, rel.cols[i].name),
                                     ResolvedColumn(rel, c)) :
                              c \in inputs(rel, i)} :
                             i \in DOMAIN rel.cols} : rel \in parsed}],
        "constraints")

-----------------------------------------------------------------------------
(* map_constraints.                                                        *)

(* Variant: a repeated name is used again as it is.                        *)
AllocatedNamesPlain(bases) == bases

(* ConstraintNameAllocator: the second use of a name gets a number.        *)
AllocatedNames(bases) ==
    [i \in DOMAIN bases |->
        LET uses == Cardinality({j \in 1 .. i : Same(bases[j], bases[i])})
        IN IF uses = 1 THEN bases[i]
           ELSE bases[i] \o "#" \o ToString(uses)]

Declared(name, fallback) == IF name = "" THEN fallback ELSE name

(* Unique indexes in the order of their names, which is the order of the   *)
(* declarations; each takes the name of the UNIQUE with its columns.       *)
UniqueIndexes(rel) ==
    LET of(i) == {x \in raw.indexes : /\ x.table = rel.name
                                      /\ x.name = "auto" \o ToString(i)}
        kept == SelectSeq([i \in DOMAIN rel.uniques |-> i],
                          LAMBDA i : of(i) # {})
    IN [k \in DOMAIN kept |-> CHOOSE x \in of(kept[k]) : TRUE]

KeyColumns(x) ==
    LET keys == SelectSeq(x.terms, LAMBDA t : t.key)
    IN [i \in DOMAIN keys |-> keys[i].col]

ForeignKeys(rel) ==
    LET of == {fk \in raw.foreign_keys : fk.table = rel.name}
    IN [i \in 1 .. Cardinality(of) |-> CHOOSE fk \in of : fk.id = i - 1]

(* CREATE TABLE and the PRAGMAs agree on the number of UNIQUE constraints. *)
UniqueCountsAgree(rel) ==
    rel.type = "virtual" \/ Len(rel.uniques) = Len(UniqueIndexes(rel))

(* resolve_raw_foreign_key: an implicit reference is to the primary key of *)
(* the target.                                                             *)
ReferencedNames(fk, target) == IF fk.refs = <<>> THEN target.pk ELSE fk.refs

ForeignKeyResolves(rel, fk) ==
    \E target \in Named(fk.target) :
        /\ IsTable(target)
        /\ ColumnsResolve(rel, fk.cols)
        /\ ColumnsResolve(target, ReferencedNames(fk, target))
        /\ fk.refs = <<>> => Len(target.pk) = Len(fk.cols)

(* The names of the constraints of a table, in the order they are taken    *)
(* (the one element of the set).                                           *)
ConstraintNames(rel) ==
    LET uniques == UniqueIndexes(rel)
        unique(i) == CHOOSE u \in Elements(rel.uniques) :
                        u.cols = KeyColumns(uniques[i])
        fks == ForeignKeys(rel)
        declaredFk(fk) == rel.fks[Len(rel.fks) - fk.id]
    IN {AllocatedNames(bases) : bases \in {
         (IF rel.pk = <<>> THEN <<>> ELSE <<"pk_" \o rel.name>>)
         \o [i \in DOMAIN uniques |->
                Declared(unique(i).name, "uq_" \o ToString(i))]
         \o [i \in DOMAIN rel.checks |->
                Declared(rel.checks[i].name, "ck_" \o ToString(i))]
         \o [i \in DOMAIN fks |->
                Declared(declaredFk(fks[i]).name,
                         "fk_" \o ToString(fks[i].id))]}}

KeyConstraints(rel, names) ==
    LET pks == IF rel.pk = <<>> THEN 0 ELSE 1
        uniques == UniqueIndexes(rel)
    IN {Constraint(Main("primary_key", rel.name, names[1]),
                   RelationKey(rel), ResolvedColumns(rel, rel.pk), NoKey,
                   <<>>, FALSE, <<rel.name, "pk">>) : x \in 1 .. pks}
       \cup {Constraint(Main("unique_constraint", rel.name, names[pks + i]),
                        RelationKey(rel),
                        ResolvedColumns(rel, KeyColumns(uniques[i])), NoKey,
                        <<>>, FALSE, uniques[i].row) : i \in DOMAIN uniques}

(* Variant: a CHECK that reads no column is no constraint of the table.    *)
CheckConstraintsReading(rel, names) ==
    LET before == Len(names) - Len(rel.checks) - Len(ForeignKeys(rel))
        columns(c) == {ResolvedColumn(rel, x) : x \in c.reads \ RowidAlias}
    IN {Constraint(Main("check_constraint", rel.name, names[before + i]),
                   RelationKey(rel), SetToSeq(columns(rel.checks[i])),
                   NoKey, <<>>, TRUE, <<rel.name, "ck", i>>) :
           i \in {j \in DOMAIN rel.checks : columns(rel.checks[j]) # {}}}

(* The columns of a CHECK are those its expression reads of the table; they *)
(* are sorted, so their order says nothing.                                *)
CheckConstraints(rel, names) ==
    LET before == Len(names) - Len(rel.checks) - Len(ForeignKeys(rel))
        columns(c) == {ResolvedColumn(rel, x) : x \in c.reads \ RowidAlias}
    IN {Constraint(Main("check_constraint", rel.name, names[before + i]),
                   RelationKey(rel), SetToSeq(columns(rel.checks[i])),
                   NoKey, <<>>, TRUE, <<rel.name, "ck", i>>) :
           i \in IF rel.type = "virtual" THEN {} ELSE DOMAIN rel.checks}

ForeignKeyConstraints(rel, names) ==
    LET fks == ForeignKeys(rel)
        before == Len(names) - Len(fks)
        target(fk) == CHOOSE t \in Named(fk.target) : TRUE
    IN {Constraint(Main("foreign_key", rel.name, names[before + i]),
                   RelationKey(rel), ResolvedColumns(rel, fks[i].cols),
                   RelationKey(target(fks[i])),
                   ResolvedColumns(target(fks[i]),
                                   ReferencedNames(fks[i], target(fks[i]))),
                   FALSE, fks[i].row) : i \in DOMAIN fks}

MapConstraints ==
    Mapping("constraints",
        \A rel \in Tables :
            /\ UniqueCountsAgree(rel)
            /\ \A c \in Elements(rel.checks) :
                  AccessesResolve(Accesses(rel, c.reads))
            /\ \A fk \in Elements(ForeignKeys(rel)) :
                  ForeignKeyResolves(rel, fk),
        [snapshot EXCEPT !.constraint =
            UNION {UNION {KeyConstraints(rel, names)
                            \cup CheckConstraints(rel, names)
                            \cup ForeignKeyConstraints(rel, names) :
                             names \in ConstraintNames(rel)} :
                      rel \in Tables}],
        "indexes")

-----------------------------------------------------------------------------
(* map_indexes, the views and map_triggers.                                *)

OwnerOf(x) == CHOOSE rel \in Tables : Same(rel.name, x.table)
IndexKey(x) == Main("index", x.table, x.name)

(* The direct columns; a term that is an expression or the rowid is in the *)
(* expression text instead.                                                *)
DirectColumns(x) ==
    LET keys == SelectSeq(x.terms, LAMBDA t : t.key /\ t.cid = "column")
    IN [i \in DOMAIN keys |-> ResolvedColumn(OwnerOf(x), keys[i].col)]

(* What the expression terms and the predicate read, and the columns the   *)
(* index carries without being keyed by them.                              *)
IndexRelationships(x) ==
    {DependsOn(IndexKey(x), k) :
        k \in map_accesses(Accesses(OwnerOf(x), x.probe))}
      \cup {Relationship("includes_column", IndexKey(x),
                         ResolvedColumn(OwnerOf(x), x.terms[i].col), i,
                         <<IndexKey(x),
                           ResolvedColumn(OwnerOf(x), x.terms[i].col), i>>) :
               i \in {j \in DOMAIN x.terms : /\ ~x.terms[j].key
                                             /\ x.terms[j].cid = "column"}}

MapIndexes ==
    Mapping("indexes",
        \A x \in raw.indexes :
            /\ AccessesResolve(Accesses(OwnerOf(x), x.probe))
            /\ \A t \in Elements(x.terms) :
                  t.cid = "column" => HasColumn(OwnerOf(x), t.col),
        [snapshot EXCEPT
            !.index = {Index(IndexKey(x), RelationKey(OwnerOf(x)),
                             DirectColumns(x),
                             \E t \in Elements(x.terms) :
                                t.key /\ t.cid # "column",
                             x.row) : x \in raw.indexes},
            !.relationship = @ \cup UNION {IndexRelationships(x) :
                                              x \in raw.indexes}],
        "views")

(* Dependencies on columns of views are metadata: require_any and the      *)
(* graph builder know only columns of tables.                              *)
MapViews ==
    LET inside(v) == {k \in map_accesses(v.reads) : k.kind = "view_column"}
    IN Mapping("views", \A v \in Views : AccessesResolve(v.reads),
        [snapshot EXCEPT
            !.view = {Dependent(RelationKey(v), MainSchema,
                                map_accesses(v.reads) \ inside(v),
                                <<v.name>>) : v \in Views},
            !.relationship = @ \cup UNION {{DependsOn(RelationKey(v), k) :
                                               k \in inside(v)} :
                                              v \in Views}],
        "triggers")

(* trigger_probe_sql can be prepared: an UPDATE needs a writable column.   *)
Preparable(t, owner) ==
    \/ t.event # "update"
    \/ IF t.of = <<>>
       THEN \E c \in Elements(owner.cols) : c.hidden \notin {2, 3}
       ELSE HasColumn(owner, t.of[1])

(* Variant: the columns of UPDATE OF are not dependencies.                 *)
TriggerDependenciesOfBody(t, owner) == map_accesses(t.reads)

TriggerDependencies(t, owner) ==
    map_accesses(t.reads)
      \cup {ResolvedColumn(owner, c) : c \in Elements(t.of)}

MapTriggers ==
    LET owner(t) == CHOOSE rel \in Named(t.table) : TRUE
        key(t) == Main("trigger", t.table, t.name)
    IN Mapping("triggers",
        \A t \in raw.triggers :
            /\ Named(t.table) # {}
            /\ Preparable(t, owner(t))
            /\ AccessesResolve(t.reads)
            /\ ColumnsResolve(owner(t), t.of),
        [snapshot EXCEPT
            !.trigger = {Trigger(key(t), RelationKey(owner(t)), {t.event},
                                 NoKey, <<t.name>>) : t \in raw.triggers},
            !.relationship = @ \cup
                UNION {{DependsOn(key(t), k) :
                           k \in TriggerDependencies(t, owner(t))} :
                          t \in raw.triggers}],
        "count")

(* discovery_counts: the rows once more, except for the dependencies the   *)
(* authorizer reported, which only the mapping has.                        *)
Tally ==
    LET pkColumns(rel) == Len(rel.pk)
        checks(rel) == Len(rel.checks)
        columns(rel) == Len(rel.cols)
        parts(fk) == Len(fk.cols)
        keyTerms(x) == Len(SelectSeq(x.terms, LAMBDA t : t.key))
        direct(x) == Len(SelectSeq(x.terms,
                            LAMBDA t : t.key /\ t.cid = "column"))
        uniques == {x \in raw.indexes : x.origin = "u"}
        parsed == {rel \in Tables : rel.type # "virtual"}
    IN [tables |-> Cardinality(Tables), views |-> Cardinality(Views),
        table_columns |-> SumOver(Tables, columns),
        view_columns |-> SumOver(Views, columns),
        primary_keys |-> Cardinality({rel \in Tables : rel.pk # <<>>}),
        primary_key_columns |-> SumOver(Tables, pkColumns),
        foreign_keys |-> Cardinality(raw.foreign_keys),
        foreign_key_pairs |-> SumOver(raw.foreign_keys, parts),
        unique_constraints |-> Cardinality(uniques),
        unique_columns |-> SumOver(uniques, keyTerms),
        check_constraints |-> SumOver(parsed, checks),
        direct_index_columns |-> SumOver(raw.indexes, direct),
        indexes |-> Cardinality(raw.indexes),
        triggers |-> Cardinality(raw.triggers)]

CountedObjects(n) ==
    [schema |-> 1, table |-> n.tables, column |-> n.table_columns,
     view_column |-> n.view_columns, primary_key |-> n.primary_keys,
     foreign_key |-> n.foreign_keys,
     unique_constraint |-> n.unique_constraints,
     check_constraint |-> n.check_constraints, index |-> n.indexes,
     view |-> n.views, trigger |-> n.triggers]

CountedRelationships(n) ==
    LET columns(c) == Len(c.columns)
        depends(v) == Cardinality(v.depends_on)
        checks == {c \in snapshot.constraint :
                      c.key.kind = "check_constraint"}
    IN [database_has_schema |-> 1, schema_has_table |-> n.tables,
        table_has_column |-> n.table_columns,
        table_has_constraint |-> n.primary_keys + n.foreign_keys
            + n.unique_constraints + n.check_constraints,
        constraint_column |-> n.primary_key_columns + n.unique_columns
            + SumOver(checks, columns),
        foreign_key_column_pair |-> n.foreign_key_pairs,
        table_has_index |-> n.indexes,
        index_column |-> n.direct_index_columns,
        schema_has_view |-> n.views,
        view_dependency |-> SumOver(snapshot.view, depends),
        trigger_target |-> n.triggers, metadata_parent |-> n.view_columns,
        metadata_relationship |-> Cardinality(snapshot.relationship)]

Count ==
    /\ stage = "count"
    /\ \E n \in {Tally} :
          discovered' = Counts(CountedObjects(n), CountedRelationships(n))
    /\ stage' = "certify"
    /\ UNCHANGED <<snapshot, graph, file, raw>>

-----------------------------------------------------------------------------

SqliteInit(files) ==
    /\ PipelineInit("read")
    /\ file \in files
    /\ raw = NoRows

Done == Ended /\ UNCHANGED vars

SqliteNext ==
    \/ ReadCatalog
    \/ MapTables \/ MapColumns \/ MapGenerated \/ MapConstraints
    \/ MapIndexes \/ MapViews \/ MapTriggers
    \/ Count
    \/ Certify /\ UNCHANGED <<file, raw>>
    \/ Store /\ UNCHANGED <<file, raw>>
    \/ Done

SqliteSpec(files) == SqliteInit(files) /\ [][SqliteNext]_vars

-----------------------------------------------------------------------------
(* Properties.                                                             *)

SqliteTypeOK ==
    /\ PipelineTypeOK
    /\ stage \in LateStage \cup {"read", "tables", "columns", "generated",
                                 "constraints", "indexes", "views",
                                 "triggers", "count"}
    /\ raw.relations \subseteq file.relation
    /\ raw.triggers \subseteq file.trigger

(* What discovery_counts finds in the rows and what the mapping made of    *)
(* them agree in every category, for every file the mapping accepts: the   *)
(* certification never rejects a SQLite file for a count.                  *)
SqliteCountsAgree ==
    stage = "certify" => CountsReconciled(snapshot, discovered)

(* The files that are legal SQLite and are still not stored, said of the   *)
(* declarations and not of the mapping: a reference to something that does *)
(* not exist, a UNIQUE SQLite needs no index for, an index on a column     *)
(* twice, a trigger that spells its table differently, and constraint      *)
(* names that meet a numbered name.                                        *)
Dangling(f) ==
    LET rels == {r \in f.relation : ~System(r.name)}
        there(a) == \E r \in f.relation :
            /\ Same(r.name, a.relation)
            /\ \/ a.column \in RowidAlias \cup {""}
               \/ \E i \in DOMAIN r.cols : Same(r.cols[i].name, a.column)
    IN \/ \E v \in f.relation : \E a \in v.reads : ~there(a)
       \/ \E t \in f.trigger : \E a \in t.reads : ~there(a)
       \/ \E r \in rels : \E fk \in Elements(r.fks) :
             ~\E target \in rels :
                /\ Same(target.name, fk.target) /\ IsTable(target)
                /\ IF fk.refs = <<>> THEN Len(target.pk) = Len(fk.cols)
                   ELSE \A c \in Elements(fk.refs) :
                            \E i \in DOMAIN target.cols :
                                Same(target.cols[i].name, c)

NamesMeet(rel) ==
    LET names(seq) == [i \in DOMAIN seq |-> seq[i].name]
        named == {names(rel.uniques), names(rel.checks), names(rel.fks)}
    IN \E seq \in named : \E i, j \in DOMAIN seq :
          i # j /\ seq[j] = seq[i] \o "#2"
                /\ \E k \in DOMAIN seq : k # i /\ seq[k] = seq[i] /\ seq[k] # ""

Unsupported(f) ==
    \/ f.attached
    \/ Dangling(f)
    \/ \E r \in f.relation : \E i \in DOMAIN r.uniques : Redundant(r, i)
    \/ \E r \in f.relation : NamesMeet(r)
    \/ \E x \in f.index : \E i, j \in DOMAIN x.terms :
          i # j /\ x.terms[i] = x.terms[j] /\ x.terms[i] # ""
    \/ \E t \in f.trigger : t.table \notin {r.name : r \in f.relation}

StoredUnlessUnsupported ==
    Ended => (stage = "stored" <=> ~Unsupported(file))

(* Whoever follows the graph from a table or column finds every view and   *)
(* trigger that reads it, through an edge or a metadata relationship.      *)
ReadersAreStored ==
    stage = "stored" =>
        LET linked(from, to) == \E e \in graph.edges :
                e.from = from /\ e.to = to
            of(a, rel) ==
                {RelationKey(rel)}
                  \cup {ResolvedColumn(rel, c) :
                           c \in {a.column} \ (RowidAlias \cup {""})}
            followed(from, reads) ==
                \A a \in reads : \A rel \in raw.relations :
                    Same(rel.name, a.relation) =>
                        \A k \in of(a, rel) : linked(from, k)
        IN /\ \A v \in file.relation : v.type = "view" =>
                 followed(Main("view", v.name, ""), v.reads)
           /\ \A t \in file.trigger :
                 followed(Main("trigger", t.table, t.name),
                          t.reads \cup {[relation |-> t.table, column |-> c] :
                                           c \in Elements(t.of)})

=============================================================================
