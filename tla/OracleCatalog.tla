---------------------------- MODULE OracleCatalog ----------------------------
(***************************************************************************)
(* The Oracle adapter up to its mapping: the rows of the selected owners   *)
(* are read from some forty dictionary views and checked against the       *)
(* inventory of objects and against each other.                            *)
(*                                                                         *)
(* A server is the rows of its dictionary views; "" is NULL.  The id of an *)
(* object is its owner, type and name.  A row may be missing from what was *)
(* read (server.lossy): the checks are there to notice it.  That two reads *)
(* agree is CatalogDiscovery's matter.                                     *)
(***************************************************************************)
EXTENDS Certification, SequencesExt

VARIABLES
    server,         \* the server, with the owners requested of it
    raw             \* RawOracleCatalog

-----------------------------------------------------------------------------
(* The scope: DictionaryScope::select.                                     *)

(* The session's own schema when none is requested.                        *)
normalize_requested_schemas(s) ==
    IF s.requested = <<>> THEN <<s.session>> ELSE s.requested
Owners(s) == Elements(normalize_requested_schemas(s))

read_principals(s) == {u \in s.users : u.name \in Owners(s)}

ScopeReadable(s) ==
    /\ Injective(normalize_requested_schemas(s))
    /\ {u.name : u \in read_principals(s)} = Owners(s)
    /\ \A u \in read_principals(s) : ~u.maintained

OfOwners(s, rows) == {r \in rows : r.owner \in Owners(s)}
Named(rows) == {<<r.owner, r.name>> : r \in rows}

reject_database_links(s) == OfOwners(s, s.links) = {}
read_recycle_bin(s) == OfOwners(s, s.recycle)
Recycled(s, owner, name) == <<owner, name>> \in Named(read_recycle_bin(s))

-----------------------------------------------------------------------------
(* The rows of the dictionary views.                                       *)

read_inventory(s) ==
    {o \in OfOwners(s, s.inventory) :
        ~o.maintained /\ ~Recycled(s, o.owner, o.name)}

(* Tables that are neither secondary nor dropped.                          *)
Live(s) == Named({t \in OfOwners(s, s.tables) : ~t.secondary /\ ~t.dropped})
OfTables(s, rows) == {r \in rows : <<r.owner, r.table>> \in Live(s)}

read_tables(s) ==
    {t \in OfOwners(s, s.tables) :
        /\ <<t.owner, t.name>> \in Live(s)
        /\ ~Recycled(s, t.owner, t.name)}
read_columns(s) ==
    {c \in OfTables(s, s.columns) : ~Recycled(s, c.owner, c.table)}
read_view_columns(s) ==
    {c \in OfOwners(s, s.columns) : <<c.owner, c.table>> \in Named(s.views)}

read_sequences(s) == OfOwners(s, s.sequences)
read_identity_columns(s) == OfOwners(s, s.identity_columns)
read_views(s) == OfOwners(s, s.views)
read_materialized_views(s) == OfOwners(s, s.materialized_views)
read_synonyms(s) == OfOwners(s, s.synonyms)
read_user_types(s) == OfOwners(s, s.user_types)
read_type_attributes(s) == OfOwners(s, s.type_attributes)
read_collection_types(s) == OfOwners(s, s.collection_types)
read_type_methods(s) == OfOwners(s, s.type_methods)
(* Parameters and results: two statements.                                 *)
read_type_method_parameters(s) == OfOwners(s, s.type_method_parameters)

(* Neither triggers, LOBs nor partitions are looked up in the recycle bin. *)
read_triggers(s) == OfOwners(s, s.triggers)

(* DBA_PROCEDURES, three times.                                            *)
read_routines(s) ==
    {p \in OfOwners(s, s.procedures) :
        p.procedure = "" /\ p.type \in {"FUNCTION", "PROCEDURE"}}
read_packages(s) ==
    {p \in OfOwners(s, s.procedures) :
        p.procedure = "" /\ p.type = "PACKAGE"}
read_package_routines(s) ==
    {p \in OfOwners(s, s.procedures) :
        p.procedure # "" /\ p.type = "PACKAGE"}

(* DBA_ARGUMENTS, twice: those in a package only if the package is there.  *)
read_arguments(s, packaged) ==
    {a \in OfOwners(s, s.arguments) :
        /\ packaged <=> a.package # ""
        /\ packaged => \E o \in s.inventory :
                          /\ o.owner = a.owner
                          /\ o.type = "PACKAGE" /\ o.name = a.package}
read_routine_arguments(s) == read_arguments(s, FALSE)
read_package_arguments(s) == read_arguments(s, TRUE)

read_constraints(s) ==
    {k \in OfTables(s, s.constraints) : ~Recycled(s, k.owner, k.table)}
attach_constraint_columns(s) == OfTables(s, s.constraint_columns)

(* By the owner of the table.                                              *)
Indexed(s) ==
    {i \in s.indexes : <<i.table_owner, i.table>> \in Live(s) /\ ~i.lob}
read_indexes(s) ==
    {i \in Indexed(s) : ~Recycled(s, i.table_owner, i.table)}
attach_index_columns(s) ==
    {c \in s.index_columns : <<c.owner, c.index>> \in Named(Indexed(s))}
attach_index_expressions(s) ==
    {e \in s.index_expressions : <<e.owner, e.index>> \in Named(Indexed(s))}

read_partitioned_tables(s) == OfOwners(s, s.partitioned_tables)
read_table_partitions(s) == OfOwners(s, s.table_partitions)
read_table_subpartitions(s) == OfOwners(s, s.table_subpartitions)

(* Indexes of LOBs are left out: their partitions are those of the LOBs.   *)
NotOfLob(s, rows) ==
    {r \in OfOwners(s, rows) :
        \E i \in s.indexes :
            i.owner = r.owner /\ i.name = r.name /\ ~i.lob}
read_partitioned_indexes(s) == NotOfLob(s, s.partitioned_indexes)
read_index_partitions(s) == NotOfLob(s, s.index_partitions)
read_index_subpartitions(s) == NotOfLob(s, s.index_subpartitions)
read_partition_key_columns(s) ==
    {c \in OfOwners(s, s.partition_keys) :
        c.type = "INDEX" =>
            ~\E i \in s.indexes :
                i.owner = c.owner /\ i.name = c.name /\ i.lob}

read_lobs(s) == OfOwners(s, s.lobs)
read_lob_partitions(s) == OfOwners(s, s.lob_partitions)
read_lob_subpartitions(s) == OfOwners(s, s.lob_subpartitions)

(* The owner of what is depended on must be a user whose kind is known:    *)
(* PUBLIC is none.                                                         *)
read_dependencies(s) == OfOwners(s, s.dependencies)
OwnersKnown(s) ==
    \A d \in read_dependencies(s) : \E u \in s.users : u.name = d.ref_owner

-----------------------------------------------------------------------------
(* Sources arrive line by line.                                            *)

Lines(s, owner, name, type) ==
    {l \in s.sources : l.owner = owner /\ l.name = name /\ l.type = type}
SourcesOf(s, types) == {l \in OfOwners(s, s.sources) : l.type \in types}

(* Every line has a header and follows the line before.                    *)
ContiguousSources(s, types, headers) ==
    \A l \in SourcesOf(s, types) :
        /\ <<l.owner, l.name>> \in Named(headers)
        /\ \A n \in 1..l.line : \E m \in Lines(s, l.owner, l.name, l.type) :
               m.line = n
        /\ ~l.large

(* Routines and types have a specification, a body is optional.            *)
attach_type_sources(s) ==
    /\ ContiguousSources(s, {"TYPE", "TYPE BODY"}, read_user_types(s))
    /\ \A t \in read_user_types(s) : Lines(s, t.owner, t.name, "TYPE") # {}
attach_routine_sources(s) ==
    /\ ContiguousSources(s, {"FUNCTION", "PROCEDURE"}, read_routines(s))
    /\ \A r \in read_routines(s) : Lines(s, r.owner, r.name, r.type) # {}
attach_package_sources(s) ==
    /\ ContiguousSources(s, {"PACKAGE", "PACKAGE BODY"}, read_packages(s))
    /\ \A p \in read_packages(s) : Lines(s, p.owner, p.name, "PACKAGE") # {}

(* Columns of constraints and indexes have a header.                       *)
ColumnsAttach(s) ==
    /\ \A c \in attach_constraint_columns(s) :
          \E k \in read_constraints(s) :
              k.owner = c.owner /\ k.name = c.constraint /\ k.table = c.table
    /\ \A c \in attach_index_columns(s) :
          <<c.owner, c.index>> \in Named(read_indexes(s))
    /\ \A e \in attach_index_expressions(s) :
          \E c \in attach_index_columns(s) :
              c.owner = e.owner /\ c.index = e.index /\ c.pos = e.pos

(* normalize_definition and normalize_partition_high_value.                *)
Sized(s) ==
    \A r \in read_views(s) \cup read_materialized_views(s)
               \cup read_table_partitions(s) : ~r.large

NoRows ==
    [inventory |-> {}, tables |-> {}, columns |-> {}, view_columns |-> {},
     sequences |-> {},
     identity_columns |-> {}, views |-> {}, materialized_views |-> {},
     synonyms |-> {}, user_types |-> {}, sources |-> {},
     type_attributes |-> {}, collection_types |-> {}, type_methods |-> {},
     type_method_parameters |-> {}, triggers |-> {}, routines |-> {},
     packages |-> {}, package_routines |-> {}, arguments |-> {},
     package_arguments |-> {}, constraints |-> {}, constraint_columns |-> {},
     indexes |-> {}, index_columns |-> {}, index_expressions |-> {},
     partitioned_tables |-> {}, table_partitions |-> {},
     table_subpartitions |-> {}, partitioned_indexes |-> {},
     index_partitions |-> {}, index_subpartitions |-> {},
     partition_keys |-> {}, lobs |-> {}, lob_partitions |-> {},
     lob_subpartitions |-> {}, dependencies |-> {}]

(* RawOracleCatalog::read.                                                 *)
Rows(s) ==
    [inventory |-> read_inventory(s), tables |-> read_tables(s),
     columns |-> read_columns(s), view_columns |-> read_view_columns(s),
     sequences |-> read_sequences(s),
     identity_columns |-> read_identity_columns(s), views |-> read_views(s),
     materialized_views |-> read_materialized_views(s),
     synonyms |-> read_synonyms(s), user_types |-> read_user_types(s),
     sources |-> OfOwners(s, s.sources),
     type_attributes |-> read_type_attributes(s),
     collection_types |-> read_collection_types(s),
     type_methods |-> read_type_methods(s),
     type_method_parameters |-> read_type_method_parameters(s),
     triggers |-> read_triggers(s), routines |-> read_routines(s),
     packages |-> read_packages(s),
     package_routines |-> read_package_routines(s),
     arguments |-> read_routine_arguments(s),
     package_arguments |-> read_package_arguments(s),
     constraints |-> read_constraints(s),
     constraint_columns |-> attach_constraint_columns(s),
     indexes |-> read_indexes(s), index_columns |-> attach_index_columns(s),
     index_expressions |-> attach_index_expressions(s),
     partitioned_tables |-> read_partitioned_tables(s),
     table_partitions |-> read_table_partitions(s),
     table_subpartitions |-> read_table_subpartitions(s),
     partitioned_indexes |-> read_partitioned_indexes(s),
     index_partitions |-> read_index_partitions(s),
     index_subpartitions |-> read_index_subpartitions(s),
     partition_keys |-> read_partition_key_columns(s),
     lobs |-> read_lobs(s), lob_partitions |-> read_lob_partitions(s),
     lob_subpartitions |-> read_lob_subpartitions(s),
     dependencies |-> read_dependencies(s)]

(* What the server reports: all rows or, if it is lossy, all but one.      *)
Reported(s) ==
    LET views == DOMAIN s \ {"requested", "session", "lossy"}
    IN {s} \cup (IF ~s.lossy THEN {}
                 ELSE UNION {{[s EXCEPT ![v] = @ \ {row}] : row \in s[v]} :
                                v \in views})

ReadsFit(s) ==
    /\ ScopeReadable(s) /\ reject_database_links(s) /\ OwnersKnown(s)
    /\ attach_type_sources(s) /\ attach_routine_sources(s)
    /\ attach_package_sources(s) /\ ColumnsAttach(s) /\ Sized(s)

ReadCatalog ==
    /\ stage = "read"
    /\ \E s \in Reported(server) :
          IF ReadsFit(s)
          THEN raw' = Rows(s) /\ stage' = "validate"
          ELSE stage' = "refused" /\ UNCHANGED raw
    /\ UNCHANGED <<snapshot, discovered, graph, server>>

-----------------------------------------------------------------------------
(* validate_raw_catalog: the inventory.                                    *)

PartitionType ==
    {"TABLE PARTITION", "TABLE SUBPARTITION", "INDEX PARTITION",
     "INDEX SUBPARTITION", "LOB PARTITION", "LOB SUBPARTITION"}
SupportedType ==
    {"TABLE", "INDEX", "SEQUENCE", "VIEW", "MATERIALIZED VIEW", "TRIGGER",
     "FUNCTION", "PROCEDURE", "PACKAGE", "PACKAGE BODY", "SYNONYM", "TYPE",
     "TYPE BODY", "LOB"} \cup PartitionType

Inventory == {o \in raw.inventory : ~o.secondary}
InventoryOf(type) == Named({o \in Inventory : o.type = type})

SoundInventory ==
    /\ \A o \in Inventory : /\ o.type \in SupportedType
                            /\ o.valid
                            /\ o.type \in PartitionType <=> o.sub # ""
    /\ Cardinality({<<o.owner, o.type, o.name, o.sub>> : o \in Inventory})
         = Cardinality(Inventory)

Unique(rows) == Cardinality(Named(rows)) = Cardinality(rows)

(* Variant: the rows are looked up but not counted.                        *)
ListedUncounted(type, rows) ==
    Unique(rows) /\ Named(rows) \subseteq InventoryOf(type)

(* No row twice, every row in the inventory and as many as there.          *)
Listed(type, rows) == Unique(rows) /\ Named(rows) = InventoryOf(type)

ensure_reference_owner(owner) == owner \in Owners(server)

(* A type without an owner is built in.                                    *)
ensure_user_type_reference(r) ==
    r.type_owner # "" =>
        /\ ensure_reference_owner(r.type_owner)
        /\ <<r.type_owner, r.type>> \in Named(raw.user_types)

-----------------------------------------------------------------------------
(* Dynamic PL/SQL.  A definition is the sequence of its tokens.            *)

(* Literals, quoted names and punctuation are no words.                    *)
oracle_plsql_words(tokens) ==
    SelectSeq(tokens, LAMBDA w : w \notin {"'text'", "quoted", ";", "."})

Adjacent(words, first, second) ==
    \E n \in DOMAIN words :
        n < Len(words) /\ words[n] = first /\ words[n + 1] = second

(* OPEN cursor FOR, not followed by a query; FOR is among the next three.  *)
dynamic_open(words) ==
    LET at(n) == IF n \in DOMAIN words THEN words[n] ELSE ""
    IN \E n \in DOMAIN words :
          /\ words[n] = "OPEN"
          /\ \E f \in 1..3 :
                /\ at(n + f) = "FOR"
                /\ \A g \in 1..(f - 1) : at(n + g) # "FOR"
                /\ at(n + f + 1) \notin {"SELECT", "WITH"}

reject_dynamic_plsql(tokens) ==
    LET words == oracle_plsql_words(tokens)
    IN \/ Adjacent(words, "EXECUTE", "IMMEDIATE")
       \/ Adjacent(words, "DBMS_UTILITY", "EXEC_DDL_STATEMENT")
       \/ \E n \in DOMAIN words : words[n] = "DBMS_SQL"
       \/ dynamic_open(words)

SourceLines(o, type) == Lines(raw, o.owner, o.name, type)
Text(lines) ==
    FlattenSeq([n \in 1..Cardinality(lines) |->
                   (CHOOSE l \in lines : l.line = n).words])
Source(o, type) == Text(SourceLines(o, type))

-----------------------------------------------------------------------------
(* Tables, columns, sequences, views and synonyms.                         *)

SoundTables ==
    Listed("TABLE", raw.tables) /\ \A t \in raw.tables : ~t.special

SoundColumns(columns, relations) ==
    /\ \A c \in columns : <<c.owner, c.table>> \in relations /\ c.num > 0
    /\ Cardinality({<<c.owner, c.table, c.name>> : c \in columns})
         = Cardinality(columns)
    /\ Cardinality({<<c.owner, c.table, c.num>> : c \in columns})
         = Cardinality(columns)
    /\ \A c \in columns : ensure_user_type_reference(c)

SoundSequences == Listed("SEQUENCE", raw.sequences)

(* Columns that are flagged, details of identities and the tables' flags.  *)
SoundIdentities ==
    LET flagged == {<<c.owner, c.table, c.name>> :
                       c \in {d \in raw.columns : d.identity}}
        details == {<<i.owner, i.table, i.column>> :
                       i \in raw.identity_columns}
    IN /\ flagged = details
       /\ Cardinality(details) = Cardinality(raw.identity_columns)
       /\ \A i \in raw.identity_columns :
             <<i.owner, i.sequence>> \in Named(raw.sequences)
       /\ \A t \in raw.tables :
             t.identity <=> \E f \in flagged : f[1] = t.owner /\ f[2] = t.name

SoundViews ==
    /\ Listed("VIEW", raw.views)
    /\ \A v \in raw.views : v.text /\ ~v.typed

SoundMaterializedViews ==
    /\ Listed("MATERIALIZED VIEW", raw.materialized_views)
    /\ Named(raw.materialized_views) \subseteq Named(raw.tables)
    /\ \A v \in raw.materialized_views :
          v.text /\ v.link = "" /\ v.compiled /\ v.container = v.name

SoundSynonyms ==
    /\ Listed("SYNONYM", raw.synonyms)
    /\ \A y \in raw.synonyms :
          ensure_reference_owner(y.target_owner) /\ y.link = ""

-----------------------------------------------------------------------------
(* Types.                                                                  *)

WithBody(rows, body) == {r \in rows : SourceLines(r, body) # {}}

SoundTypes ==
    /\ Listed("TYPE", raw.user_types)
    /\ Listed("TYPE BODY", WithBody(raw.user_types, "TYPE BODY"))
    /\ \A t \in raw.user_types :
          /\ t.code \in {"OBJECT", "COLLECTION"} /\ ~t.incomplete
          /\ ~reject_dynamic_plsql(Source(t, "TYPE BODY"))
          /\ t.super # "" =>
                /\ ensure_reference_owner(t.super_owner)
                /\ <<t.super_owner, t.super>> \in
                      Named(raw.user_types) \ {<<t.owner, t.name>>}

Members(rows, t) == {r \in rows : r.owner = t.owner /\ r.of = t.name}
ensure_contiguous_positions(rows) ==
    {r.pos : r \in rows} = 1..Cardinality(rows)

SoundAttributes ==
    /\ \A a \in raw.type_attributes :
          /\ <<a.owner, a.of>> \in Named(raw.user_types)
          /\ ensure_user_type_reference(a)
    /\ \A t \in raw.user_types :
          LET attributes == Members(raw.type_attributes, t)
          IN /\ Cardinality(attributes) = t.attributes
             /\ ensure_contiguous_positions(attributes)

SoundCollections ==
    /\ Unique(raw.collection_types)
    /\ Named(raw.collection_types)
         = Named({t \in raw.user_types : t.code = "COLLECTION"})
    /\ \A c \in raw.collection_types : ensure_user_type_reference(c)

SoundMethods ==
    /\ \A m \in raw.type_methods :
          \E t \in raw.user_types :
              t.owner = m.owner /\ t.name = m.of /\ t.code = "OBJECT"
    /\ Cardinality({<<m.owner, m.of, m.num>> : m \in raw.type_methods})
         = Cardinality(raw.type_methods)
    /\ \A t \in raw.user_types :
          Cardinality(Members(raw.type_methods, t)) = t.methods

ParametersOf(m) ==
    {p \in Members(raw.type_method_parameters, [owner |-> m.owner,
                                                name |-> m.of]) :
        p.method = m.num}

SoundMethodParameters ==
    /\ \A p \in raw.type_method_parameters :
          /\ \E m \in raw.type_methods : p \in ParametersOf(m)
          /\ ensure_user_type_reference(p)
    /\ Cardinality({<<p.owner, p.of, p.method, p.result, p.pos>> :
                       p \in raw.type_method_parameters})
         = Cardinality(raw.type_method_parameters)
    /\ \A m \in raw.type_methods :
          /\ Cardinality({p \in ParametersOf(m) : ~p.result}) = m.parameters
          /\ Cardinality({p \in ParametersOf(m) : p.result}) = m.results

-----------------------------------------------------------------------------
(* Triggers, routines and packages.                                        *)

SoundTriggers ==
    /\ Listed("TRIGGER", raw.triggers)
    /\ \A t \in raw.triggers :
          LET target == <<t.table_owner, t.table>> IN
          /\ \/ /\ t.base = "TABLE"
                /\ target \in Named(raw.tables)
                                \ Named(raw.materialized_views)
                /\ t.owner = t.table_owner
             \/ /\ t.base = "VIEW"
                /\ target \in Named(raw.views) /\ t.owner = t.table_owner
             \/ t.base = "SCHEMA" /\ t.owner = t.table_owner /\ t.table = ""
             \/ t.base = "DATABASE" /\ t.table = ""
          /\ t.action \in {"PL/SQL", "CALL"}
          /\ t.body # <<>> /\ ~reject_dynamic_plsql(t.body)

SoundRoutines ==
    /\ Unique(raw.routines)
    /\ Named(raw.routines)
         = InventoryOf("FUNCTION") \cup InventoryOf("PROCEDURE")
    /\ \A r \in raw.routines :
          /\ <<r.owner, r.name>> \in InventoryOf(r.type)
          /\ ~r.special
          /\ ~reject_dynamic_plsql(Source(r, r.type))

(* A return value comes first, at position 0, unnamed and OUT.             *)
InOrder(arguments, returns) ==
    \A a \in arguments :
        /\ a.seq \in 1..Cardinality(arguments)
        /\ a.pos = IF returns THEN a.seq - 1 ELSE a.seq
        /\ a.pos = 0 => a.name = "" /\ a.mode = "OUT"

ArgumentsOf(r) ==
    {a \in raw.arguments : a.owner = r.owner /\ a.routine = r.name}

SoundArgument(a) ==
    ~a.nested /\ a.type # "" /\ ensure_user_type_reference(a)

SoundArguments ==
    /\ \A a \in raw.arguments :
          /\ <<a.owner, a.routine>> \in Named(raw.routines)
          /\ SoundArgument(a)
    /\ Cardinality({<<a.owner, a.routine, a.seq>> : a \in raw.arguments})
         = Cardinality(raw.arguments)
    /\ \A r \in raw.routines :
          /\ Cardinality({a \in ArgumentsOf(r) : a.pos = 0})
               = IF r.type = "FUNCTION" THEN 1 ELSE 0
          /\ InOrder(ArgumentsOf(r), r.type = "FUNCTION")

SoundPackages ==
    /\ Listed("PACKAGE", raw.packages)
    /\ Listed("PACKAGE BODY", WithBody(raw.packages, "PACKAGE BODY"))
    /\ \A p \in raw.packages :
          ~reject_dynamic_plsql(Source(p, "PACKAGE BODY"))

SoundPackageRoutines ==
    /\ \A r \in raw.package_routines :
          <<r.owner, r.name>> \in Named(raw.packages) /\ r.sub > 0 /\ ~r.special
    /\ Cardinality({<<r.owner, r.name, r.sub>> : r \in raw.package_routines})
         = Cardinality(raw.package_routines)

PackageArgumentsOf(r) ==
    {a \in raw.package_arguments :
        a.owner = r.owner /\ a.package = r.name /\ a.sub = r.sub}
Returns(arguments) == \E a \in arguments : a.pos = 0

validate_package_argument_order(r) ==
    /\ Cardinality({a \in PackageArgumentsOf(r) : a.pos = 0}) <= 1
    /\ InOrder(PackageArgumentsOf(r), Returns(PackageArgumentsOf(r)))

format_oracle_argument_type(a) ==
    IF a.type_owner = "" THEN a.type ELSE a.type_owner \o "." \o a.type

(* The modes and types of the parameters, not their names.                 *)
oracle_package_routine_signature(r) ==
    LET arguments == PackageArgumentsOf(r)
        text(a) == a.mode \o " " \o format_oracle_argument_type(a)
        join(n) == FoldLeft(LAMBDA t, m : t \o text(CHOOSE a \in arguments :
                                                    a.pos = m) \o ",",
                            "", [m \in 1..n |-> m])
        parameters == {a \in arguments : a.pos > 0}
    IN r.procedure \o "(" \o join(Cardinality(parameters)) \o ")"
         \o IF ~Returns(arguments) THEN ""
            ELSE "->" \o format_oracle_argument_type(
                            CHOOSE a \in arguments : a.pos = 0)

SoundPackageArguments ==
    /\ \A a \in raw.package_arguments :
          /\ SoundArgument(a)
          /\ \E r \in raw.package_routines :
                a \in PackageArgumentsOf(r) /\ a.routine = r.procedure
    /\ Cardinality({<<a.owner, a.package, a.sub, a.seq>> :
                       a \in raw.package_arguments})
         = Cardinality(raw.package_arguments)
    /\ \A r \in raw.package_routines : validate_package_argument_order(r)
    /\ Cardinality({<<r.owner, r.name, oracle_package_routine_signature(r)>> :
                       r \in raw.package_routines})
         = Cardinality(raw.package_routines)

-----------------------------------------------------------------------------
(* Dependencies.                                                           *)

Maintained(d) == \E u \in server.users : u.name = d.ref_owner /\ u.maintained

ObjectsOf(type) ==
    CASE type = "TABLE" -> Named(raw.tables)
      [] type = "VIEW" -> Named(raw.views)
      [] type = "MATERIALIZED VIEW" -> Named(raw.materialized_views)
      [] type = "SEQUENCE" -> Named(raw.sequences)
      [] type \in {"FUNCTION", "PROCEDURE"} ->
            Named({r \in raw.routines : r.type = type})
      [] type \in {"PACKAGE", "PACKAGE BODY"} -> Named(raw.packages)
      [] type = "SYNONYM" -> Named(raw.synonyms)
      [] type \in {"TYPE", "TYPE BODY"} -> Named(raw.user_types)
      [] type = "TRIGGER" -> Named(raw.triggers)
      [] OTHER -> {}

SoundDependencies ==
    \A d \in raw.dependencies :
        /\ ~d.link
        /\ d.type # "SEQUENCE" /\ <<d.owner, d.name>> \in ObjectsOf(d.type)
        /\ d.hard <=> d.type # "MATERIALIZED VIEW"
        /\ ~Maintained(d) =>
              /\ d.type = "TABLE" => d.ref_type = "TYPE"
              /\ ensure_reference_owner(d.ref_owner)
              /\ d.ref_type \notin {"TRIGGER", "PACKAGE BODY", "TYPE BODY"}
              /\ <<d.ref_owner, d.ref>> \in ObjectsOf(d.ref_type)

Dependencies(o, type) ==
    {d \in raw.dependencies :
        d.owner = o.owner /\ d.name = o.name /\ d.type = type /\ ~Maintained(d)}
Once(o, type, to_owner, to, to_types) ==
    Cardinality({d \in Dependencies(o, type) :
                    /\ d.ref_owner = to_owner /\ d.ref = to
                    /\ d.ref_type \in to_types}) = 1

(* What other views say an object uses is among its dependencies, once.    *)
ExpectedDependencies ==
    /\ \A y \in raw.synonyms :
          Once(y, "SYNONYM", y.target_owner, y.target,
               SupportedType \cup {"SYNONYM"})
    /\ \A c \in raw.columns :
          c.type_owner # "" =>
              Once([owner |-> c.owner, name |-> c.table], "TABLE",
                   c.type_owner, c.type, {"TYPE"})
    /\ \A v \in raw.materialized_views :
          Once(v, "MATERIALIZED VIEW", v.owner, v.container, {"TABLE"})
    /\ \A t \in raw.triggers :
          t.base \in {"TABLE", "VIEW"} =>
              Once(t, "TRIGGER", t.table_owner, t.table, {t.base})
    /\ \A p \in WithBody(raw.packages, "PACKAGE BODY") :
          Once(p, "PACKAGE BODY", p.owner, p.name, {"PACKAGE"})

-----------------------------------------------------------------------------
(* Constraints and indexes.                                                *)

ConstraintColumns(k) ==
    {c \in raw.constraint_columns :
        c.owner = k.owner /\ c.constraint = k.name}
HasColumn(owner, table, name) ==
    \E c \in raw.columns : c.owner = owner /\ c.table = table /\ c.name = name

(* Positions are distinct; that none is missing is not asked for.          *)
SoundConstraints ==
    /\ Unique(raw.constraints)
    /\ \A k \in raw.constraints :
          LET columns == ConstraintColumns(k)
              positions == {c.pos : c \in columns}
          IN /\ <<k.owner, k.table>> \in Named(raw.tables)
             /\ k.type \in {"P", "U", "R", "C"}
             /\ <<k.owner, k.table>> \in Named(raw.materialized_views) =>
                   k.type # "R"
             /\ k.type # "C" =>
                   /\ columns # {} /\ 0 \notin positions
                   /\ Cardinality(positions) = Cardinality(columns)
             /\ \A c \in columns : HasColumn(k.owner, k.table, c.name)

SoundForeignKeys ==
    \A k \in {c \in raw.constraints : c.type = "R"} :
        /\ ensure_reference_owner(k.ref_owner)
        /\ \E r \in raw.constraints :
              /\ r.owner = k.ref_owner /\ r.name = k.ref
              /\ r.type \in {"P", "U"}
              /\ Cardinality(ConstraintColumns(r))
                   = Cardinality(ConstraintColumns(k))

IndexColumns(i) ==
    {c \in raw.index_columns : c.owner = i.owner /\ c.index = i.name}
IsExpression(c) ==
    \E e \in raw.index_expressions :
        e.owner = c.owner /\ e.index = c.index /\ e.pos = c.pos
Plain == {"NORMAL", "BITMAP"}
FunctionBased == {"FUNCTION-BASED NORMAL", "FUNCTION-BASED BITMAP"}

(* A hidden column of the system's is what an expression stands behind.    *)
SoundIndexes ==
    /\ Unique(raw.indexes)
    /\ Named(raw.indexes) \subseteq InventoryOf("INDEX")
    /\ Cardinality(InventoryOf("INDEX"))
         = Cardinality(raw.indexes) + Cardinality(raw.lobs)
    /\ \A i \in raw.indexes :
          LET columns == IndexColumns(i)
              behind(c) == \E d \in raw.columns :
                              /\ d.owner = i.table_owner /\ d.table = i.table
                              /\ d.name = c.name /\ d.generated
          IN /\ i.owner = i.table_owner
             /\ <<i.table_owner, i.table>> \in Named(raw.tables)
             /\ i.type \in Plain \cup FunctionBased /\ ~i.disabled
             /\ columns # {}
             /\ Cardinality({c.pos : c \in columns}) = Cardinality(columns)
             /\ \A c \in columns :
                   /\ HasColumn(i.table_owner, i.table, c.name)
                   /\ i.type \in FunctionBased =>
                         (IsExpression(c) <=> behind(c))
             /\ i.type \in FunctionBased <=> \E c \in columns : IsExpression(c)

-----------------------------------------------------------------------------
(* validate_partition_catalog, of tables and of indexes.                   *)

LobIndexes == {<<l.owner, l.index>> : l \in raw.lobs}
SubInventory(type) ==
    {<<o.owner, o.name, o.sub>> : o \in {q \in Inventory : q.type = type}}
OfLobIndexes(keys) == {k \in keys : <<k[1], k[2]>> \in LobIndexes}

PartsOf(parts, o) ==
    {p \in parts : p.owner = o.owner /\ p.name = o.name}
SubsOf(subs, p) == {q \in PartsOf(subs, p) : q.part = p.part}

(* Partitions are those of the inventory, as many as their parent says and *)
(* without a gap; so are subpartitions.                                    *)
SoundParts(type, partitioned, headers, parts, subs) ==
    LET inventory(sort) == SubInventory(type \o sort)
                             \ OfLobIndexes(SubInventory(type \o sort))
    IN /\ Unique(headers) /\ Named(headers) = Named(partitioned)
       /\ \A h \in headers :
             /\ h.supported /\ h.count > 0 /\ h.keys > 0
             /\ Cardinality(PartsOf(parts, h)) = h.count
             /\ ensure_contiguous_positions(PartsOf(parts, h))
             /\ \A p \in PartsOf(parts, h) : p.composite <=> h.subkeys > 0
       /\ {<<p.owner, p.name, p.part>> : p \in parts} = inventory(" PARTITION")
       /\ {<<q.owner, q.name, q.sub>> : q \in subs}
            = inventory(" SUBPARTITION")
       /\ \A p \in parts :
             /\ <<p.owner, p.name>> \in Named(headers)
             /\ Cardinality(SubsOf(subs, p)) = p.subs
             /\ ensure_contiguous_positions(SubsOf(subs, p))
       /\ \A q \in subs : \E p \in parts : q \in SubsOf(subs, p)

SoundPartitionKeys ==
    LET of(h, type, sub) ==
            {c \in raw.partition_keys : /\ c.owner = h.owner /\ c.name = h.name
                                        /\ c.type = type /\ c.sub = sub}
        complete(headers, type) ==
            \A h \in headers :
                /\ Cardinality(of(h, type, FALSE)) = h.keys
                /\ Cardinality(of(h, type, TRUE)) = h.subkeys
                /\ ensure_contiguous_positions(of(h, type, FALSE))
                /\ ensure_contiguous_positions(of(h, type, TRUE))
        keys(h) == h.keys + h.subkeys
    IN /\ \A c \in raw.partition_keys :
             \/ c.type = "TABLE" /\ HasColumn(c.owner, c.name, c.column)
             \/ /\ c.type = "INDEX"
                /\ \E i \in raw.indexes :
                      /\ i.owner = c.owner /\ i.name = c.name
                      /\ HasColumn(c.owner, i.table, c.column)
       /\ complete(raw.partitioned_tables, "TABLE")
       /\ complete(raw.partitioned_indexes, "INDEX")
       /\ Cardinality(raw.partition_keys)
            = SumOver(raw.partitioned_tables, keys)
                + SumOver(raw.partitioned_indexes, keys)

validate_partition_catalog ==
    /\ SoundParts("TABLE", {t \in raw.tables : t.partitioned},
                  raw.partitioned_tables, raw.table_partitions,
                  raw.table_subpartitions)
    /\ SoundParts("INDEX", {i \in raw.indexes : i.partitioned},
                  raw.partitioned_indexes, raw.index_partitions,
                  raw.index_subpartitions)
    /\ SoundPartitionKeys

-----------------------------------------------------------------------------
(* validate_lob_catalog: a LOB is stored as its table is, in a segment and *)
(* an index of its own.                                                    *)

SoundLobs ==
    /\ {<<l.owner, l.name>> : l \in raw.lobs} = InventoryOf("LOB")
    /\ Unique(raw.lobs) /\ Cardinality(LobIndexes) = Cardinality(raw.lobs)
    /\ LobIndexes \subseteq InventoryOf("INDEX")
    /\ Cardinality({<<l.owner, l.table, l.column>> : l \in raw.lobs})
         = Cardinality(raw.lobs)
    /\ \A l \in raw.lobs :
          /\ HasColumn(l.owner, l.table, l.column)
          /\ \E t \in raw.tables : /\ t.owner = l.owner /\ t.name = l.table
                                   /\ t.partitioned <=> l.partitioned

TablePartition(p) ==
    {t \in raw.table_partitions :
        t.owner = p.owner /\ t.name = p.table /\ t.part = p.table_part}
LobOf(p) == CHOOSE l \in raw.lobs : l.owner = p.owner /\ l.name = p.name

SoundLobPartitions ==
    LET of(l) == PartsOf(raw.lob_partitions, l)
    IN /\ \A p \in raw.lob_partitions :
             /\ <<p.owner, p.name>> \in Named(raw.lobs)
             /\ \E t \in TablePartition(p) : p.pos = t.pos
       /\ \A l \in raw.lobs :
             /\ Cardinality(of(l))
                  = Cardinality({t \in raw.table_partitions :
                        l.partitioned /\ t.owner = l.owner /\ t.name = l.table})
             /\ ensure_contiguous_positions(of(l))
       /\ {<<p.owner, p.name, p.part>> : p \in raw.lob_partitions}
            = SubInventory("LOB PARTITION")
       /\ {<<p.owner, LobOf(p).index, p.index_part>> :
              p \in raw.lob_partitions}
            = OfLobIndexes(SubInventory("INDEX PARTITION"))

SoundLobSubpartitions ==
    /\ \A q \in raw.lob_subpartitions :
          \E p \in raw.lob_partitions :
              /\ q \in SubsOf(raw.lob_subpartitions, p)
              /\ \E t \in raw.table_subpartitions :
                    /\ t.owner = q.owner /\ t.name = q.table
                    /\ t.sub = q.table_sub
                    /\ t.part = p.table_part /\ t.pos = q.pos
    /\ \A p \in raw.lob_partitions :
          /\ \A t \in TablePartition(p) :
                Cardinality(SubsOf(raw.lob_subpartitions, p)) = t.subs
          /\ ensure_contiguous_positions(SubsOf(raw.lob_subpartitions, p))
    /\ {<<q.owner, q.name, q.sub>> : q \in raw.lob_subpartitions}
         = SubInventory("LOB SUBPARTITION")
    /\ {<<q.owner, LobOf(q).index, q.index_sub>> :
           q \in raw.lob_subpartitions}
         = OfLobIndexes(SubInventory("INDEX SUBPARTITION"))

validate_lob_catalog ==
    SoundLobs /\ SoundLobPartitions /\ SoundLobSubpartitions

validate_raw_catalog ==
    /\ SoundInventory /\ SoundTables
    /\ SoundColumns(raw.columns, Named(raw.tables))
    /\ SoundColumns(raw.view_columns, Named(raw.views))
    /\ SoundSequences /\ SoundIdentities /\ SoundViews
    /\ SoundMaterializedViews /\ SoundSynonyms
    /\ SoundTypes /\ SoundAttributes /\ SoundCollections
    /\ SoundMethods /\ SoundMethodParameters
    /\ SoundTriggers /\ SoundRoutines /\ SoundArguments
    /\ SoundPackages /\ SoundPackageRoutines /\ SoundPackageArguments
    /\ SoundDependencies /\ ExpectedDependencies
    /\ SoundConstraints /\ SoundForeignKeys /\ SoundIndexes
    /\ validate_partition_catalog /\ validate_lob_catalog

=============================================================================
