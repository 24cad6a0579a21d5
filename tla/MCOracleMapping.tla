--------------------------- MODULE MCOracleMapping ---------------------------
(* A table with a key, and features added to it: views, materialized views *)
(* and types, routines and packages, synonyms, triggers, partitions and    *)
(* LOBs, what is not supported, and dictionaries that lose a row.          *)
EXTENDS OracleMapping

Obj(name) == [owner |-> "app", name |-> name]
User(name, maintained) == [name |-> name, maintained |-> maintained]
Tab(owner, name) ==
    [owner |-> owner, name |-> name, secondary |-> FALSE, dropped |-> FALSE,
     partitioned |-> FALSE, special |-> FALSE, identity |-> FALSE]
Col(table, name, num) ==
    [owner |-> "app", table |-> table, name |-> name, num |-> num,
     type_owner |-> "", type |-> "NUMBER", identity |-> FALSE,
     generated |-> FALSE]
Typed(row, type) == [row EXCEPT !.type_owner = "app", !.type = type]
View(name) ==
    Obj(name) @@ [text |-> TRUE, typed |-> FALSE, large |-> FALSE]
Mview(name) ==
    Obj(name) @@ [text |-> TRUE, link |-> "", compiled |-> TRUE,
                  container |-> name, large |-> FALSE]
Syn(name, owner, target) ==
    Obj(name) @@ [target_owner |-> owner, target |-> target, link |-> ""]
Type(name, code, attributes, methods) ==
    Obj(name) @@ [code |-> code, attributes |-> attributes,
                  methods |-> methods, super_owner |-> "", super |-> "",
                  incomplete |-> FALSE]
Line(name, type, line, words) ==
    Obj(name) @@ [type |-> type, line |-> line, words |-> words,
                  large |-> FALSE]
Trig(name, base, table_owner, table) ==
    Obj(name) @@ [base |-> base, table_owner |-> table_owner,
                  table |-> table, action |-> "PL/SQL", body |-> <<"NULL">>,
                  events |-> {"INSERT"}]
Proc(name, procedure, type, sub) ==
    Obj(name) @@ [procedure |-> procedure, type |-> type, sub |-> sub,
                  special |-> FALSE]
Arg(package, routine, sub, seq, pos, name, type) ==
    [owner |-> "app", package |-> package, routine |-> routine, sub |-> sub,
     seq |-> seq, pos |-> pos, name |-> name,
     mode |-> IF pos = 0 THEN "OUT" ELSE "IN", type_owner |-> "",
     type |-> type, nested |-> FALSE]
Con(name, table, type) ==
    Obj(name) @@ [table |-> table, type |-> type, ref_owner |-> "",
                  ref |-> ""]
Fk(name, table, ref_owner, ref) ==
    [Con(name, table, "R") EXCEPT !.ref_owner = ref_owner, !.ref = ref]
ConCol(constraint, table, name, pos) ==
    [owner |-> "app", constraint |-> constraint, table |-> table,
     name |-> name, pos |-> pos]
Idx(name, table) ==
    Obj(name) @@ [table_owner |-> "app", table |-> table, type |-> "NORMAL",
                  lob |-> FALSE, partitioned |-> FALSE, disabled |-> FALSE]
IdxCol(index, name, pos) ==
    [owner |-> "app", index |-> index, name |-> name, pos |-> pos]
Dep(name, type, ref, ref_type) ==
    Obj(name) @@ [type |-> type, ref_owner |-> "app", ref |-> ref,
                  ref_type |-> ref_type, link |-> FALSE,
                  hard |-> type # "MATERIALIZED VIEW"]
Header(name, count, subkeys) ==
    Obj(name) @@ [count |-> count, keys |-> 1, subkeys |-> subkeys,
                  supported |-> TRUE]
Part(name, part, pos, subs) ==
    Obj(name) @@ [part |-> part, pos |-> pos, subs |-> subs,
                  composite |-> subs > 0, large |-> FALSE]
Sub(name, part, sub, pos) ==
    Obj(name) @@ [part |-> part, sub |-> sub, pos |-> pos]
PartKey(name, type, column, sub) ==
    Obj(name) @@ [type |-> type, column |-> column, pos |-> 1, sub |-> sub]

Nothing ==
    [k \in {"users", "links", "recycle", "inventory", "procedures"} \cup
           (DOMAIN NoRows \ {"view_columns", "routines", "packages",
                             "package_routines", "package_arguments"}) |-> {}]

Base_ == [Nothing EXCEPT
    !.users = {User("app", FALSE), User("ext", FALSE), User("SYS", TRUE)},
    !.tables = {Tab("app", "t1"), Tab("ext", "t9"),
                [Tab("app", "aux") EXCEPT !.secondary = TRUE],
                [Tab("app", "BIN1") EXCEPT !.dropped = TRUE]},
    !.recycle = {Obj("BIN1"), Obj("BINI")},
    !.columns = {Col("t1", "a", 1), Col("t1", "b", 3)},
    !.constraints = {Con("pk", "t1", "P"), Con("ck", "t1", "C")},
    !.constraint_columns = {ConCol("pk", "t1", "b", 1),
                            ConCol("pk", "t1", "a", 2),
                            ConCol("ck", "t1", "a", 0)},
    !.indexes = {Idx("pk", "t1"), Idx("BINI", "BIN1")},
    !.index_columns = {IdxCol("pk", "b", 1), IdxCol("pk", "a", 2)}]

(* The features.                                                           *)
Keys == [Nothing EXCEPT
    !.tables = {[Tab("app", "t2") EXCEPT !.identity = TRUE]},
    !.columns = {[Col("t2", "x", 1) EXCEPT !.identity = TRUE],
                 Col("t2", "y", 2),
                 [Col("t2", "SYS1", 3) EXCEPT !.generated = TRUE]},
    !.sequences = {Obj("q1"), Obj("q2")},
    !.identity_columns = {[owner |-> "app", table |-> "t2", column |-> "x",
                           sequence |-> "q1"]},
    !.constraints = {Fk("fk", "t2", "app", "pk"), Con("uq", "t2", "U")},
    !.constraint_columns = {ConCol("fk", "t2", "y", 1),
                            ConCol("fk", "t2", "x", 2),
                            ConCol("uq", "t2", "y", 1)},
    !.indexes = {[Idx("fx", "t2") EXCEPT !.type = "FUNCTION-BASED NORMAL"]},
    !.index_columns = {IdxCol("fx", "SYS1", 1), IdxCol("fx", "y", 2)},
    !.index_expressions = {[owner |-> "app", index |-> "fx", pos |-> 1]}]
Views == [Nothing EXCEPT
    !.views = {View("v1"), View("v2")},
    !.columns = {Col("v1", "a", 1)},
    !.dependencies = {Dep("v1", "VIEW", "t1", "TABLE"),
                      Dep("v2", "VIEW", "v1", "VIEW"),
                      [Dep("v1", "VIEW", "STANDARD", "PACKAGE") EXCEPT
                          !.ref_owner = "SYS"]}]
Materialized == [Nothing EXCEPT
    !.tables = {Tab("app", "m1")},
    !.materialized_views = {Mview("m1")},
    !.columns = {Col("m1", "a", 1)},
    !.constraints = {Con("mpk", "m1", "P")},
    !.constraint_columns = {ConCol("mpk", "m1", "a", 1)},
    !.indexes = {Idx("mpk", "m1")},
    !.index_columns = {IdxCol("mpk", "a", 1)},
    !.dependencies = {Dep("m1", "MATERIALIZED VIEW", "m1", "TABLE"),
                      Dep("m1", "MATERIALIZED VIEW", "t1", "TABLE")}]
Types == [Nothing EXCEPT
    !.user_types = {Type("ty", "OBJECT", 2, 1), Type("list", "COLLECTION", 0, 0),
                    [Type("sub", "OBJECT", 1, 0) EXCEPT
                        !.super_owner = "app", !.super = "ty"]},
    !.sources = {Line("ty", "TYPE", 1, <<"x">>), Line("ty", "TYPE", 2, <<"y">>),
                 Line("list", "TYPE", 1, <<"x">>),
                 Line("sub", "TYPE", 1, <<"x">>),
                 Line("ty", "TYPE BODY", 1, <<"x">>)},
    !.type_attributes =
        {[owner |-> "app", of |-> "ty", pos |-> 1, name |-> "n",
          type_owner |-> "", type |-> "NUMBER"],
         [owner |-> "app", of |-> "ty", pos |-> 2, name |-> "l",
          type_owner |-> "app", type |-> "list"],
         [owner |-> "app", of |-> "sub", pos |-> 1, name |-> "m",
          type_owner |-> "", type |-> "NUMBER"]},
    !.collection_types = {Obj("list") @@ [type_owner |-> "",
                                          type |-> "NUMBER"]},
    !.type_methods = {[owner |-> "app", of |-> "ty", num |-> 1,
                       name |-> "get", parameters |-> 1, results |-> 1]},
    !.type_method_parameters =
        {[owner |-> "app", of |-> "ty", method |-> 1, pos |-> 1,
          name |-> "SELF", result |-> FALSE, type_owner |-> "app",
          type |-> "ty"],
         [owner |-> "app", of |-> "ty", method |-> 1, pos |-> 0,
          name |-> "RETURN", result |-> TRUE, type_owner |-> "",
          type |-> "NUMBER"]},
    !.columns = {Typed(Col("t1", "c", 4), "ty")},
    !.dependencies = {Dep("ty", "TYPE", "list", "TYPE"),
                      Dep("sub", "TYPE", "ty", "TYPE"),
                      Dep("ty", "TYPE BODY", "ty", "TYPE"),
                      Dep("ty", "TYPE BODY", "list", "TYPE"),
                      Dep("t1", "TABLE", "ty", "TYPE")}]
Routines == [Nothing EXCEPT
    !.procedures = {Proc("f1", "", "FUNCTION", 1),
                    Proc("p1", "", "PROCEDURE", 1)},
    !.sources = {Line("f1", "FUNCTION", 1, <<"OPEN", "c", "FOR">>),
                 Line("f1", "FUNCTION", 2, <<"SELECT", "a">>),
                 Line("p1", "PROCEDURE", 1, <<"EXECUTE", ";">>)},
    !.arguments = {Arg("", "f1", 1, 1, 0, "", "NUMBER"),
                   Typed(Arg("", "f1", 1, 2, 1, "x", ""), "ty"),
                   Arg("", "p1", 1, 1, 1, "y", "NUMBER")},
    !.dependencies = {Dep("f1", "FUNCTION", "t1", "TABLE"),
                      Dep("f1", "FUNCTION", "ty", "TYPE")}]
Packages_ == [Nothing EXCEPT
    !.procedures = {Proc("g", "", "PACKAGE", 0), Proc("g", "run", "PACKAGE", 1),
                    Proc("g", "run", "PACKAGE", 2),
                    Proc("g", "ask", "PACKAGE", 3)},
    !.sources = {Line("g", "PACKAGE", 1, <<"x">>),
                 Line("g", "PACKAGE BODY", 1, <<"x">>)},
    !.arguments = {Arg("g", "run", 1, 1, 1, "x", "NUMBER"),
                   Arg("g", "run", 2, 1, 1, "x", "DATE"),
                   Arg("g", "ask", 3, 1, 0, "", "NUMBER"),
                   Arg("g", "ask", 3, 2, 1, "x", "NUMBER"),
                   Arg("gone", "old", 1, 1, 1, "x", "NUMBER")},
    !.dependencies = {Dep("g", "PACKAGE BODY", "g", "PACKAGE"),
                      Dep("g", "PACKAGE BODY", "t1", "TABLE"),
                      Dep("g", "PACKAGE", "t1", "TABLE")}]
Synonyms == [Nothing EXCEPT
    !.synonyms = {Syn("s1", "app", "t1"), Syn("s2", "app", "s1")},
    !.dependencies = {Dep("s1", "SYNONYM", "t1", "TABLE"),
                      Dep("s2", "SYNONYM", "s1", "SYNONYM")}]
Triggers == [Nothing EXCEPT
    !.triggers = {Trig("tt", "TABLE", "app", "t1"),
                  Trig("tv", "VIEW", "app", "v1"),
                  Trig("ts", "SCHEMA", "app", ""),
                  Trig("td", "DATABASE", "SYS", "")},
    !.dependencies = {Dep("tt", "TRIGGER", "t1", "TABLE"),
                      Dep("tt", "TRIGGER", "p1", "PROCEDURE"),
                      Dep("tv", "TRIGGER", "v1", "VIEW"),
                      Dep("ts", "TRIGGER", "t1", "TABLE")}]
Partitioned == [Nothing EXCEPT
    !.tables = {[Tab("app", "t3") EXCEPT !.partitioned = TRUE]},
    !.columns = {Col("t3", "k", 1), Col("t3", "d", 2)},
    !.indexes = {[Idx("lx", "t3") EXCEPT !.partitioned = TRUE],
                 [Idx("SYSIL", "t3") EXCEPT !.lob = TRUE]},
    !.index_columns = {IdxCol("lx", "k", 1)},
    !.partitioned_tables = {Header("t3", 2, 1)},
    !.table_partitions = {Part("t3", "p1", 1, 1), Part("t3", "p2", 2, 1)},
    !.table_subpartitions = {Sub("t3", "p1", "s1", 1), Sub("t3", "p2", "s2", 1)},
    !.partitioned_indexes = {Header("lx", 2, 1)},
    !.index_partitions = {Part("lx", "p1", 1, 1), Part("lx", "p2", 2, 1),
                          Part("SYSIL", "ip1", 1, 1),
                          Part("SYSIL", "ip2", 2, 1)},
    !.index_subpartitions = {Sub("lx", "p1", "s1", 1), Sub("lx", "p2", "s2", 1),
                             Sub("SYSIL", "ip1", "is1", 1),
                             Sub("SYSIL", "ip2", "is2", 1)},
    !.partition_keys = {PartKey("t3", "TABLE", "k", FALSE),
                        PartKey("t3", "TABLE", "d", TRUE),
                        PartKey("lx", "INDEX", "k", FALSE),
                        PartKey("lx", "INDEX", "d", TRUE),
                        PartKey("SYSIL", "INDEX", "k", FALSE)},
    !.lobs = {Obj("SYSLOB") @@ [table |-> "t3", column |-> "d",
                                index |-> "SYSIL", partitioned |-> TRUE]},
    !.lob_partitions =
        {Obj("SYSLOB") @@ [table |-> "t3", part |-> p[1], table_part |-> p[2],
                           pos |-> p[3], index_part |-> p[4]] :
            p \in {<<"lp1", "p1", 1, "ip1">>, <<"lp2", "p2", 2, "ip2">>}},
    !.lob_subpartitions =
        {Obj("SYSLOB") @@ [table |-> "t3", part |-> q[1], sub |-> q[2],
                           table_sub |-> q[3], pos |-> 1, index_sub |-> q[4]] :
            q \in {<<"lp1", "ls1", "s1", "is1">>,
                   <<"lp2", "ls2", "s2", "is2">>}}]
Lob == [Nothing EXCEPT
    !.columns = {Col("t1", "e", 5)},
    !.indexes = {[Idx("SYSI2", "t1") EXCEPT !.lob = TRUE]},
    !.lobs = {Obj("SYSLO2") @@ [table |-> "t1", column |-> "e",
                                index |-> "SYSI2", partitioned |-> FALSE]}]

Union(x, y) == [k \in DOMAIN x |-> x[k] \cup y[k]]

Supported ==
    {Keys, Views, Materialized, Types, Union(Types, Routines), Packages_,
     Synonyms, Union(Union(Types, Routines), Union(Views, Triggers)),
     Partitioned, Lob}

(* What is not supported, or goes wrong.                                   *)
OneTable(table) == [Nothing EXCEPT !.tables = {table}]
OneDependency(d) == [Nothing EXCEPT !.dependencies = {d}]
ProcedureBody(words) == [Nothing EXCEPT
    !.procedures = {Proc("p3", "", "PROCEDURE", 1)},
    !.sources = {Line("p3", "PROCEDURE", 1, words)}]
Unsupported ==
    {OneTable([Tab("app", "t4") EXCEPT !.special = TRUE]),
     [Nothing EXCEPT !.links = {[owner |-> "app", name |-> "link"]}],
     [Nothing EXCEPT !.views = {[View("v3") EXCEPT !.typed = TRUE]}],
     [Nothing EXCEPT !.views = {[View("v3") EXCEPT !.large = TRUE]}],
     [Nothing EXCEPT
         !.tables = {Tab("app", "m2")},
         !.materialized_views = {[Mview("m2") EXCEPT !.compiled = FALSE]},
         !.dependencies = {Dep("m2", "MATERIALIZED VIEW", "m2", "TABLE")}],
     [Nothing EXCEPT
         !.synonyms = {Syn("s3", "ext", "t9")},
         !.dependencies = {[Dep("s3", "SYNONYM", "t9", "TABLE") EXCEPT
                               !.ref_owner = "ext"]}],
     [Nothing EXCEPT
         !.user_types = {[Type("ty4", "OBJECT", 0, 0) EXCEPT
                             !.incomplete = TRUE]},
         !.sources = {Line("ty4", "TYPE", 1, <<"x">>)}],
     [Nothing EXCEPT
         !.triggers = {[Trig("tx", "TABLE", "ext", "t9") EXCEPT
                           !.owner = "app"]},
         !.dependencies = {[Dep("tx", "TRIGGER", "t9", "TABLE") EXCEPT
                               !.ref_owner = "ext"]}],
     [Nothing EXCEPT !.triggers = {Trig("BINT", "TABLE", "app", "BIN1")}],
     [Nothing EXCEPT !.partitioned_tables = {Header("BIN1", 1, 0)}],
     [Nothing EXCEPT !.inventory =
         {[owner |-> "app", type |-> "CLUSTER", name |-> "c", sub |-> "",
           valid |-> TRUE, secondary |-> FALSE, maintained |-> FALSE]}],
     [Nothing EXCEPT
         !.indexes = {[Idx("ix", "t1") EXCEPT !.type = "DOMAIN"]},
         !.index_columns = {IdxCol("ix", "a", 1)}]}
      \cup {ProcedureBody(words) : words \in
               {<<"EXECUTE", "IMMEDIATE", "'text'">>,
                <<"DBMS_SQL", ".", "PARSE">>,
                <<"OPEN", "c", "FOR", "stmt">>,
                <<"OPEN", "c", "FOR", "'text'", ";", "SELECT", "a">>}}

(* These use what another feature brings.                                  *)
MixedUses ==
    {<<Synonyms, OneDependency(Dep("v1", "VIEW", "s1", "SYNONYM"))>>,
     <<Materialized, OneDependency(Dep("v1", "VIEW", "m1", "TABLE"))>>,
     <<Keys, OneDependency(Dep("v1", "VIEW", "q1", "SEQUENCE"))>>,
     <<Union(Types, Routines), OneDependency(Dep("v1", "VIEW", "f1", "FUNCTION"))>>,
     <<Union(Types, Routines), OneDependency(Dep("f1", "FUNCTION", "v1", "VIEW"))>>,
     <<Materialized, OneDependency(Dep("m1", "MATERIALIZED VIEW", "v1",
                                       "VIEW"))>>,
     <<Union(Types, Routines), OneDependency([Dep("f1", "FUNCTION", "DUAL", "SYNONYM")
                                   EXCEPT !.ref_owner = "PUBLIC"])>>,
     <<Materialized, [Nothing EXCEPT
         !.constraints = {Fk("mfk", "t1", "app", "mpk")},
         !.constraint_columns = {ConCol("mfk", "t1", "a", 1)}]>>,
     <<Materialized, [Nothing EXCEPT
         !.indexes = {[Idx("SYSI3", "m1") EXCEPT !.lob = TRUE]},
         !.lobs = {Obj("SYSLO3") @@ [table |-> "m1", column |-> "a",
                                     index |-> "SYSI3",
                                     partitioned |-> FALSE]}]>>,
     <<Partitioned, OneTable(Tab("app", "t5"))>>}

(* DBA_OBJECTS lists what the other views describe.                        *)
Entry(r, type, sub) ==
    [owner |-> r.owner, type |-> type, name |-> r.name, sub |-> sub,
     valid |-> TRUE, secondary |-> FALSE, maintained |-> FALSE]
Entries(rows, type) == {Entry(r, type, "") : r \in rows}
PartEntries(rows, type) == {Entry(r, type, r.part) : r \in rows}
SubEntries(rows, type) == {Entry(r, type, r.sub) : r \in rows}
Bodies(s, type) ==
    {Entry(l, type, "") : l \in {m \in s.sources : m.type = type}}
Described(s) ==
    {[Entry(t, "TABLE", "") EXCEPT !.secondary = t.secondary] :
        t \in s.tables}
      \cup Entries(s.indexes, "INDEX") \cup Entries(s.sequences, "SEQUENCE")
      \cup Entries(s.views, "VIEW") \cup Entries(s.synonyms, "SYNONYM")
      \cup Entries(s.materialized_views, "MATERIALIZED VIEW")
      \cup Entries(s.user_types, "TYPE") \cup Entries(s.triggers, "TRIGGER")
      \cup {Entry(p, p.type, "") :
               p \in {q \in s.procedures : q.procedure = ""}}
      \cup Bodies(s, "TYPE BODY") \cup Bodies(s, "PACKAGE BODY")
      \cup Entries(s.lobs, "LOB")
      \cup PartEntries(s.table_partitions, "TABLE PARTITION")
      \cup PartEntries(s.index_partitions, "INDEX PARTITION")
      \cup PartEntries(s.lob_partitions, "LOB PARTITION")
      \cup SubEntries(s.table_subpartitions, "TABLE SUBPARTITION")
      \cup SubEntries(s.index_subpartitions, "INDEX SUBPARTITION")
      \cup SubEntries(s.lob_subpartitions, "LOB SUBPARTITION")

Ask(rows, requested, session, lossy) ==
    [rows EXCEPT !.inventory = @ \cup Described(rows)]
      @@ [requested |-> requested, session |-> session, lossy |-> lossy]
On_(x, y) == Union(Base_, Union(x, y))
Plenty ==
    Union(Union(Union(Keys, Views), Union(Types, Routines)),
          Union(Union(Packages_, Synonyms), Union(Triggers, Lob)))

MCServers ==
    {Ask(On_(x, y), r, "app", FALSE) :
        x \in {Plenty, Union(Plenty, Union(Materialized, Partitioned))},
        y \in Supported \cup Unsupported,
        r \in {<<>>, <<"app", "ext">>}}
      \cup {Ask(On_(x, y), <<"app">>, "ext", FALSE) :
               x \in Supported, y \in Supported}
      \cup {Ask(Union(On_(Views, x[1]), x[2]), <<"app">>, "app", FALSE) :
               x \in MixedUses}
      \cup {Ask(Base_, r, "ext", FALSE) :
               r \in {<<>>, <<"SYS">>, <<"none">>, <<"app", "app">>,
                      <<"ext", "app">>}}
      \cup {Ask(On_(x, Nothing), <<"app">>, "app", TRUE) :
               x \in Supported \cup {Plenty}}

=============================================================================
