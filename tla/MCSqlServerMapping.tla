------------------------- MODULE MCSqlServerMapping -------------------------
(* A table with a key, a columnstore index and partitions, and features    *)
(* added to it: table types, indexed views, routines, triggers, synonyms,  *)
(* policies, dependencies by id and by name, and what leaves the selected  *)
(* schemas.                                                                *)
EXTENDS SqlServerMapping

Obj(id, schema) ==
    [id |-> id, schema |-> schema, name |-> id, owner |-> ""]
Table(id, schema) == Obj(id, schema) @@ [history |-> ""]
Col(object, num, name) ==
    [object |-> object, num |-> num, name |-> name, type |-> "int",
     xml |-> "", default |-> "", large |-> FALSE]
Con(id, table, kind, columns) ==
    [id |-> id, table |-> table, name |-> id, kind |-> kind,
     columns |-> columns, ref |-> "", ref_columns |-> <<>>, large |-> FALSE]
Fk(id, table, columns, ref, referenced) ==
    [Con(id, table, "foreign_key", columns) EXCEPT
        !.ref = ref, !.ref_columns = referenced]
Part(column, key, included) ==
    [column |-> column, key |-> key, included |-> included]
Idx(object, num, name, columns) ==
    [object |-> object, num |-> num, name |-> name, columns |-> columns,
     space |-> "primary", large |-> FALSE]
View(id, schema, indexed) ==
    Obj(id, schema) @@ [indexed |-> indexed, definition |-> <<"name">>,
                        large |-> FALSE]
Routine(id, definition) ==
    Obj(id, "app") @@ [type |-> "P", definition |-> definition,
                       large |-> FALSE]
Parameter(object, num, name, type) ==
    [object |-> object, num |-> num, name |-> name, type |-> type,
     xml |-> ""]
Trig(id, class, parent) ==
    [id |-> id, name |-> id, class |-> class, parent |-> parent,
     events |-> {"INSERT"}, definition |-> <<"name">>, large |-> FALSE]
Type(id, schema, object) ==
    [id |-> id, schema |-> schema, name |-> id, table_object |-> object,
     assembly |-> FALSE, bound |-> FALSE]
Sq(id, type) == Obj(id, "app") @@ [type |-> type]
Name(server_, database, schema, entity) ==
    [server |-> server_, database |-> database, schema |-> schema,
     entity |-> entity]
Synonym(id, target, base) ==
    Obj(id, "app") @@ [target |-> target, base |-> base]
Dep(from, minor, class, to, to_minor, name) ==
    [from |-> from, from_minor |-> minor, from_schema |-> "app",
     class |-> class, to |-> to, to_minor |-> to_minor, name |-> name,
     runtime |-> FALSE]
OnId(from, to) == Dep(from, 0, 1, to, 0, Name("", "", "app", to))
Property(class, major, minor) ==
    [class |-> class, major |-> major, minor |-> minor, name |-> "note"]
Pt(object, index, number) ==
    [object |-> object, index |-> index, number |-> number]

Base == [NoRows EXCEPT
    !.schemas = {[name |-> "app", owner |-> "dbo", system |-> FALSE],
                 [name |-> "ext", owner |-> "eve", system |-> FALSE],
                 [name |-> "sys", owner |-> "dbo", system |-> TRUE]},
    !.principals = {[id |-> "dbo", owner |-> ""],
                    [id |-> "eve", owner |-> "dbo"]},
    !.tables = {Table("t1", "app"),
                [Table("t9", "ext") EXCEPT !.owner = "dbo"]},
    !.columns = {Col("t1", 1, "a"), Col("t1", 3, "b"), Col("t9", 1, "a")},
    !.constraints = {Con("pk", "t1", "primary_key", <<3, 1>>)},
    !.indexes = {Idx("t1", 1, "pk", <<Part(1, 2, FALSE), Part(3, 1, FALSE)>>)},
    !.partitions = {Pt("t1", 1, "1"), Pt("t9", 0, "1")}]

(* The features.                                                           *)
Rest == [NoRows EXCEPT
    !.indexes = {Idx("t1", 2, "cs", <<Part(3, 0, FALSE), Part(1, 0, FALSE)>>),
                 Idx("t1", 3, "inc", <<Part(3, 1, FALSE), Part(1, 0, TRUE)>>)},
    !.constraints = {Con("ck", "t1", "check_constraint", <<>>),
                     Con("uq", "t1", "unique_constraint", <<1>>)},
    !.dependencies = {Dep("ck", 0, 1, "t1", 3, Name("", "", "app", "t1"))}]
Referencing == [NoRows EXCEPT
    !.tables = {[Table("t2", "app") EXCEPT !.history = "t3"],
                Table("t3", "app")},
    !.columns = {Col("t2", 1, "x"), Col("t2", 2, "y"), Col("t3", 1, "x")},
    !.constraints = {Fk("fk", "t2", <<2, 1>>, "t1", <<3, 1>>)}]
FkOut == [NoRows EXCEPT !.constraints = {Fk("fo", "t1", <<1>>, "t9", <<1>>)}]
HistoryOut == [NoRows EXCEPT
    !.tables = {[Table("t4", "app") EXCEPT !.history = "t9"]}]
Partitioned == [NoRows EXCEPT
    !.functions = {[id |-> "pf", values |-> {"1", "2"}, system |-> FALSE],
                   [id |-> "sf", values |-> {}, system |-> TRUE]},
    !.schemes = {[id |-> "ps", function |-> "pf"]},
    !.indexes = {[Idx("t1", 4, "part", <<Part(1, 1, FALSE)>>) EXCEPT
                     !.space = "ps"]},
    !.partitions = {Pt("t1", 4, "1"), Pt("t1", 4, "2")},
    !.properties = {Property("scheme", "ps", 0),
                    Property("function", "pf", 0)}]
TableType == [NoRows EXCEPT
    !.user_types = {Type("tt", "app", "tt_object"), Type("code", "app", "")},
    !.columns = {[Col("tt_object", 1, "a") EXCEPT !.type = "code"],
                 Col("tt_object", 2, "b"),
                 [Col("t1", 4, "c") EXCEPT !.type = "code"]},
    !.constraints = {Con("tpk", "tt_object", "primary_key", <<2, 1>>)},
    !.indexes = {Idx("tt_object", 1, "tpk", <<Part(2, 1, FALSE),
                                              Part(1, 2, FALSE)>>)},
    !.properties = {Property("type", "tt", 0),
                    Property("type_column", "tt", 2),
                    Property("object", "tt_object", 0)}]
TypeOut == [NoRows EXCEPT
    !.user_types = {Type("money", "ext", "")},
    !.columns = {[Col("t1", 5, "d") EXCEPT !.type = "money"]}]
Assembly == [NoRows EXCEPT
    !.user_types = {[Type("clr", "app", "") EXCEPT !.assembly = TRUE]}]
Xml == [NoRows EXCEPT
    !.collections = {Obj("xc", "app") @@ [namespaces |-> {"n1", "n2"}]},
    !.columns = {[Col("t1", 6, "e") EXCEPT !.xml = "xc"]},
    !.properties = {Property("xml", "xc", 0)}]
XmlOut == [NoRows EXCEPT
    !.collections = {Obj("xe", "ext") @@ [namespaces |-> {}]},
    !.properties = {Property("xml", "xe", 0)},
    !.columns = {[Col("t1", 7, "f") EXCEPT !.xml = "xe"]}]
Sequences_ == [NoRows EXCEPT
    !.sequences = {Sq("q1", "code")},
    !.columns = {[Col("t1", 8, "g") EXCEPT !.default = "df"]},
    !.dependencies = {OnId("df", "q1")},
    !.properties = {Property("database", "", 0), Property("schema", "app", 0),
                    Property("principal", "eve", 0),
                    Property("object", "t1", 0), Property("object", "t1", 3),
                    Property("index", "t1", 1), Property("other", "x", 0)}]
V1 == [NoRows EXCEPT
    !.views = {View("v1", "app", FALSE)},
    !.columns = {Col("v1", 1, "a")},
    !.dependencies = {OnId("v1", "t1"), OnId("v1", "v1")}]
Indexed_ == [NoRows EXCEPT
    !.views = {View("m1", "app", TRUE)},
    !.columns = {Col("m1", 1, "a")},
    !.indexes = {Idx("m1", 1, "mi", <<Part(1, 1, FALSE)>>)},
    !.triggers = {Trig("g3", 1, "m1")},
    !.dependencies = {OnId("m1", "t1"),
                      Dep("m1", 0, 1, "t1", 1, Name("", "", "app", "t1"))}]
ViewOut == [NoRows EXCEPT
    !.views = {View("v2", "app", FALSE)},
    !.dependencies = {Dep("v2", 0, 1, "t9", 0, Name("", "", "ext", "t9")),
                      Dep("v2", 0, 1, "", 0, Name("", "other", "", "ext"))}]
BoundOut == [NoRows EXCEPT
    !.views = {View("v3", "app", FALSE)},
    !.dependencies = {Dep("v3", 0, 1, "t9", 0, Name("", "", "ext", "t9")),
                      Dep("v3", 0, 1, "t9", 1, Name("", "", "ext", "t9"))}]
Hidden == [NoRows EXCEPT
    !.views = {[View("v4", "app", FALSE) EXCEPT !.definition = <<>>]}]
LargeOutside == [NoRows EXCEPT
    !.views = {[View("v5", "ext", FALSE) EXCEPT !.large = TRUE]}]
Calls == [NoRows EXCEPT
    !.routines = {Routine("p1", <<"name", "EXEC", "AS", "name">>),
                  [Routine("f1", <<"EXEC", "@variable", "=", "name">>) EXCEPT
                      !.type = "FN"]},
    !.parameters = {Parameter("f1", 0, "return", "code"),
                    Parameter("f1", 1, "x", "money"),
                    Parameter("p1", 1, "y", "int")},
    !.triggers = {Trig("g1", 1, "t1"), Trig("g0", 0, "")},
    !.dependencies = {OnId("p1", "t1"), OnId("g1", "p1"),
                      Dep("f1", 0, 6, "code", 0, Name("", "", "app", "code")),
                      [Dep("g0", 0, 1, "", 0, Name("", "", "", "late"))
                          EXCEPT !.from_schema = "__database__"]},
    !.properties = {Property("parameter", "p1", 1),
                    Property("object", "g1", 0)}]
CallsRoutine == [NoRows EXCEPT
    !.routines = {Routine("p2", <<"EXEC", "name">>)},
    !.dependencies = {OnId("p2", "p1")}]
ReadsView == [V1 EXCEPT !.dependencies = @ \cup {OnId("p1", "v1")}]
Body(tokens) == [NoRows EXCEPT !.routines = {Routine("p3", tokens)}]
Dynamic == {Body(b) : b \in {
    <<"EXEC", "(", "@variable">>, <<"EXEC", "name", ".", "sp_executesql">>,
    <<"EXEC", "@variable">>, <<"EXEC", "'text'">>,
    <<"EXEC", "@variable", "=", "'text'">>,
    <<"EXEC", "@variable", "=", "name", ".", "sp_executesql", "'text'">>}}
ClrRoutine == [NoRows EXCEPT
    !.routines = {[Routine("p4", <<"name">>) EXCEPT !.type = "PC"]}]
Runtime == [NoRows EXCEPT
    !.routines = {Routine("p5", <<"name">>)},
    !.dependencies = {[Dep("p5", 0, 1, "", 0, Name("", "", "", "late"))
                          EXCEPT !.runtime = TRUE]}]
Synonyms == [NoRows EXCEPT
    !.synonyms = {Synonym("s1", Name("", "db", "app", "t1"), "[app].[t1]"),
                  Synonym("s2", Name("", "", "ext", "t9"), "[ext].[t9]"),
                  Synonym("s3", Name("srv", "db", "app", "t1"),
                          "[srv].[db].[app].[t1]")}]
Policy == [NoRows EXCEPT
    !.policies = {Obj("po", "app")
                    @@ [predicates |-> {[id |-> "1", target |-> "t1"]}]}]
PolicyOut == [NoRows EXCEPT
    !.policies = {Obj("pe", "app")
                    @@ [predicates |-> {[id |-> "1", target |-> "t9"]}]}]

Singles ==
    {Rest, Referencing, FkOut, HistoryOut, Partitioned, TableType, TypeOut,
     Assembly, Xml, XmlOut, Sequences_, V1, Indexed_, ViewOut, BoundOut,
     Hidden, LargeOutside, Calls, ClrRoutine, Runtime, Synonyms, Policy,
     PolicyOut} \cup Dynamic

Union(x, y) == [k \in DOMAIN x |-> x[k] \cup y[k]]
Both(x, y) == Union(Union(Base, x), y)
Plenty == Union(Union(Union(Rest, Referencing), Union(TableType, Sequences_)),
                Union(Union(Synonyms, Partitioned), Union(Calls, V1)))
Ask(rows, requested, unsupported) ==
    rows @@ [requested |-> requested, unsupported |-> unsupported]

MCServers ==
    {Ask(Both(x, y), r, {}) : x \in {NoRows, Plenty}, y \in Singles,
                              r \in {{}, {"app"}, {"ext"}}}
      \cup {Ask(Both(x, y), {"app"}, {}) :
               x \in {V1, Xml, Calls, Indexed_, Referencing},
               y \in {V1, Xml, Calls, Synonyms, Policy, XmlOut, ViewOut,
                      TypeOut}}
      \cup {Ask(Both(Calls, y), {"app"}, {}) :
               y \in {CallsRoutine, ReadsView}}
      \cup {Ask(Base, {"app", "sys"}, {}), Ask(Base, {"none"}, {}),
            Ask(Base, {"app"}, {[schema |-> "app"]}),
            Ask(Base, {"app"}, {[schema |-> "ext"]}),
            Ask(Base, {"app"}, {[schema |-> ""]})}

=============================================================================
