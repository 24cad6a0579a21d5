-------------------------- MODULE MCPostgresMapping --------------------------
(* A table whose second column was dropped, and features added to it: a    *)
(* second schema, types of every kind, views, routines, sequences,         *)
(* placement, and references that leave the selected schemas.              *)
EXTENDS PostgresMapping

Relation(oid, schema, kind) ==
    [oid |-> oid, schema |-> schema, name |-> oid, kind |-> kind,
     owner |-> "alice", row_type |-> "row_" \o oid, large |-> FALSE]
Attr(relation, num, name, type) ==
    [relation |-> relation, num |-> num, name |-> name, type |-> type,
     dropped |-> FALSE, stats |-> "-1"]
Con(relation, name, kind, columns) ==
    [relation |-> relation, domain |-> "", name |-> name, kind |-> kind,
     columns |-> columns, ref |-> "", ref_columns |-> <<>>, large |-> FALSE]
Fk(relation, name, columns, ref, referenced) ==
    [Con(relation, name, "f", columns) EXCEPT !.ref = ref,
                                              !.ref_columns = referenced]
Idx(oid, relation, expression) ==
    [oid |-> oid, name |-> oid, relation |-> relation,
     expression |-> expression]
Term(index, ordinal, column, key) ==
    [index |-> index, ordinal |-> ordinal, column |-> column, key |-> key]
Type(oid, schema, kind) ==
    [oid |-> oid, schema |-> schema, name |-> oid, kind |-> kind,
     owner |-> "alice", relation |-> "", base |-> "", element |-> "",
     subtype |-> "", multirange |-> ""]
Read(view, target, column) ==
    [view |-> view, target |-> target, column |-> column]
Routine(oid, args, tracked) ==
    [oid |-> oid, schema |-> "app", name |-> "fn", args |-> args,
     owner |-> "alice", returns |-> "int", tracked |-> tracked,
     large |-> FALSE]
Needs(owner, class, target, sub) ==
    [owner |-> owner, class |-> class, target |-> target, sub |-> sub]
Usage(relation, column, sequence, type) ==
    [relation |-> relation, column |-> column, sequence |-> sequence,
     type |-> type]

Base == [NoRows EXCEPT
    !.schemas = {[name |-> n, usage |-> TRUE, owner |-> "alice"] :
                    n \in {"app", "ext", "pg_catalog"}},
    !.principals = {[oid |-> "alice"], [oid |-> "bob"]},
    !.relations = {Relation("t1", "app", "r"), Relation("t9", "ext", "r"),
                   Relation("pg_class", "pg_catalog", "r")},
    !.types = {Type("int", "pg_catalog", "b"), Type("ext_enum", "ext", "e"),
               [Type("row_t1", "app", "c") EXCEPT !.relation = "t1"],
               [Type("array_t1", "app", "b") EXCEPT !.element = "row_t1"],
               [Type("row_t9", "ext", "c") EXCEPT !.relation = "t9"]},
    !.enum_values = {[type |-> "ext_enum", label |-> "on"]},
    !.columns = {Attr("t1", 1, "a", "int"),
                 [Attr("t1", 2, "gone", "int") EXCEPT !.dropped = TRUE],
                 Attr("t1", 3, "b", "int"), Attr("t9", 1, "a", "int"),
                 Attr("pg_class", 1, "oid", "int")},
    !.constraints = {Con("t1", "pk", "p", <<1>>), Con("t1", "u", "u", <<3, 1>>),
                     Con("t1", "c", "c", <<3>>), Con("t1", "nn", "n", <<1>>)},
    !.indexes = {Idx("i1", "t1", FALSE), Idx("i2", "t1", TRUE)},
    !.index_terms = {Term("i1", 1, 1, TRUE), Term("i2", 1, 3, TRUE),
                     Term("i2", 2, 0, TRUE), Term("i2", 3, 3, TRUE),
                     Term("i2", 4, 1, FALSE)}]

(* The features.                                                           *)
Referencing == [NoRows EXCEPT
    !.relations = {Relation("t2", "app", "p")},
    !.columns = {Attr("t2", 1, "x", "row_t1"), Attr("t2", 2, "y", "int")},
    !.constraints = {Fk("t2", "f", <<2, 1>>, "t1", <<3, 1>>)}]
FkOut == [NoRows EXCEPT
    !.constraints = {Fk("t1", "g", <<1>>, "t9", <<1>>)}]
FromExt == [NoRows EXCEPT
    !.constraints = {Fk("t9", "h", <<1>>, "t1", <<1>>)}]
SystemCheck == [NoRows EXCEPT
    !.constraints = {Con("t1", "sys", "c", <<-6>>)}]
Exclusion == [NoRows EXCEPT
    !.constraints = {Con("t1", "x", "x", <<1, 0, 3>>)},
    !.indexes = {Idx("i3", "t1", TRUE)},
    !.index_terms = {Term("i3", 1, 1, TRUE), Term("i3", 2, 0, TRUE)}]

View(oid, kind, reads) == [NoRows EXCEPT
    !.relations = {Relation(oid, "app", kind)},
    !.columns = {Attr(oid, 1, "a", "int")},
    !.view_dependencies = reads]
V1 == View("v1", "v", {Read("v1", "t1", 1), Read("v1", "t1", 3),
                       Read("v1", "v1", 0), Read("v1", "pg_class", 1)})
V2 == View("v2", "v", {Read("v2", "v1", 1), Read("v2", "v1", 0)})
M1 == [View("m1", "m", {Read("m1", "v1", 1), Read("m1", "t1", 0)}) EXCEPT
    !.indexes = {Idx("i4", "m1", FALSE)},
    !.index_terms = {Term("i4", 1, 1, TRUE)}]
V3 == View("v3", "v", {Read("v3", "m1", 0)})
V4 == View("v4", "v", {Read("v4", "t9", 1)})
LargeView == [View("v5", "v", {}) EXCEPT
    !.relations = {[Relation("v5", "app", "v") EXCEPT !.large = TRUE]}]
Graph == [NoRows EXCEPT !.relations = {Relation("g1", "app", "g")}]

UserTypes == [NoRows EXCEPT
    !.types = {Type("mood", "app", "e"),
               [Type("amount", "app", "d") EXCEPT !.base = "int"],
               [Type("row_addr", "app", "c") EXCEPT !.relation = "addr"],
               [Type("span", "app", "r") EXCEPT !.subtype = "amount",
                                                !.multirange = "spans"],
               Type("spans", "app", "m")},
    !.relations = {Relation("addr", "app", "c"), Relation("t3", "app", "f")},
    !.columns = {Attr("addr", 1, "city", "ext_enum"),
                 Attr("addr", 2, "at", "span"), Attr("t3", 1, "m", "mood")},
    !.enum_values = {[type |-> "mood", label |-> l] : l \in {"on", "off"}},
    !.constraints = {[Con("", "pos", "c", <<>>) EXCEPT !.domain = "amount"]}]
TypeOut == [NoRows EXCEPT !.columns = {Attr("t1", 4, "e", "ext_enum")}]
ElementOut == [NoRows EXCEPT
    !.types = {[Type("list", "app", "b") EXCEPT !.element = "ext_enum"]}]

Sequence(oid) == [NoRows EXCEPT !.relations = {Relation(oid, "app", "S")},
                           !.sequences = {[relation |-> oid]}]
Default == [Sequence("q1") EXCEPT
    !.sequence_usages = {Usage("t1", 1, "q1", "n")}]
Identity == [Sequence("q2") EXCEPT
    !.sequence_usages = {Usage("t1", 3, "q2", "i")}]
Serial == [Sequence("q3") EXCEPT
    !.sequence_usages = {Usage("t1", 1, "q3", "a"), Usage("t1", 1, "q3", "n")}]
OwnedOut == [Sequence("q4") EXCEPT
    !.sequence_usages = {Usage("t9", 1, "q4", "a")}]

Overloads == [NoRows EXCEPT
    !.routines = {Routine("f1", "int", TRUE), Routine("f2", "text", TRUE)},
    !.routine_parameters =
        {[routine |-> f, ordinal |-> 1, name |-> "p", type |-> "int"] :
            f \in {"f1", "f2"}},
    !.routine_dependencies = {Needs("f1", "relation", "t1", 1),
                              Needs("f1", "relation", "t1", 0),
                              Needs("f2", "relation", "pg_class", 0)}]
With(needs) == [Overloads EXCEPT !.routine_dependencies = @ \cup {needs}]
Opaque == [NoRows EXCEPT !.routines = {Routine("f3", "", FALSE)}]
Fires(routine) == [Opaque EXCEPT
    !.triggers = {[name |-> "g", relation |-> "t1", routine |-> routine,
                   internal |-> FALSE],
                  [name |-> "ri", relation |-> "t1", routine |-> "sys",
                   internal |-> TRUE]},
    !.routines = IF routine = "f3" THEN @
                 ELSE {[Routine("sys", "", FALSE) EXCEPT
                           !.schema = "pg_catalog"]}]
Event == [NoRows EXCEPT
    !.routines = {[Routine("f4", "", FALSE) EXCEPT !.schema = "ext"]},
    !.event_triggers = {[oid |-> "e1", routine |-> "f4", owner |-> "bob"]}]

Partition == [NoRows EXCEPT
    !.relations = {Relation("p1", "app", "r")},
    !.columns = {Attr("p1", 1, "a", "int")},
    !.inheritance = {[child |-> "p1", parent |-> "t1", partition |-> TRUE]}]
ParentOut == [NoRows EXCEPT
    !.inheritance = {[child |-> "t1", parent |-> "t9", partition |-> FALSE]}]
Policy == [NoRows EXCEPT
    !.policies = {[relation |-> "t1", name |-> "own", roles |-> {"", "bob"}]},
    !.extensions = {[oid |-> "pgcrypto", owner |-> "bob"]}]

Features ==
    {Referencing, FkOut, FromExt, SystemCheck, Exclusion, V1, LargeView,
     V4, Graph, UserTypes, TypeOut, ElementOut, Default, Identity, Serial,
     OwnedOut, Overloads, With(Needs("f1", "type", "row_t1", 0)),
     With(Needs("f1", "routine", "f2", 0)), With(Needs("f1", "relation",
     "t9", 0)), Opaque, Fires("f3"), Fires("sys"), Event, Partition,
     ParentOut, Policy}

Merge(features) ==
    [k \in DOMAIN NoRows |-> Base[k] \cup UNION {f[k] : f \in features}]

Build(features, version, requested) ==
    [Merge(features) EXCEPT
        !.columns = {IF version <= 16 THEN c ELSE [c EXCEPT !.stats = ""] :
                        c \in @}]
      @@ [product |-> "PostgreSQL", version |-> version,
          requested |-> requested, default_tablespace |-> ""]

Physical(rows) ==
    {r.oid : r \in {q \in rows.relations : q.kind \notin {"v", "c"}}}
      \cup {i.oid : i \in rows.indexes}

(* Placement: t1 colocated in g1, the other relations on their own.        *)
Property(oid, group, tablespace, tablets) ==
    [oid |-> oid, group |-> group, colocated |-> group # "",
     colocation |-> group, split |-> FALSE, hash |-> 0,
     tablespace |-> tablespace, tablets |-> tablets]

Distributed(features, space, change) ==
    LET rows == Merge(features)
    IN [rows EXCEPT
           !.yb_properties =
               {IF oid = "t1" THEN change
                ELSE Property(oid, "", IF oid = "i1" THEN space ELSE "",
                              IF oid = "q1" THEN 0 ELSE 1) :
                   oid \in Physical(rows)},
           !.tablegroups = {[oid |-> "g1", tablespace |-> "",
                             owner |-> "alice"]},
           !.tablespaces = {[oid |-> o, owner |-> "alice"] :
                               o \in {"default", "ssd"}}]
       @@ [product |-> "YugabyteDB", version |-> 15, requested |-> {"app"},
           default_tablespace |-> "default"]

T1 == Property("t1", "g1", "", 2)

MCServers ==
    {Build({a, b}, 16, {"app"}) : a, b \in Features}
    \cup {Build({V1, V2, M1, V3, f}, 16, requested) :
             f \in Features \ {V1},
             requested \in {{}, {"app"}, {"app", "ext"}, {"ext"}}}
    \cup {Build({V1, f}, 17, requested) :
             f \in {Referencing, Policy},
             requested \in {{"app"}, {"pg_catalog"}, {"none"}}}
    \cup {[Build({V1}, 16, {"app"}) EXCEPT
              !.schemas = {[n EXCEPT !.usage = FALSE] : n \in @}]}
    \cup {Distributed({V1, M1, f}, space, T1) :
             f \in {Referencing, Default, Policy, Partition},
             space \in {"", "ssd"}}

=============================================================================
