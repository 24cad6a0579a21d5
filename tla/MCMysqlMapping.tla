---------------------------- MODULE MCMysqlMapping ----------------------------
(* A table with every kind of key, and features that are added to it: a    *)
(* referencing table, views, partitions, sequences, bodies, references     *)
(* that leave the database, and legal oddities.                            *)
EXTENDS MysqlMapping

Table(n, type) == [schema |-> "app", name |-> n, type |-> type]
Col(t, n, i) == [schema |-> "app", table |-> t, name |-> n, ordinal |-> i]
Con(t, n, type) == [schema |-> "app", table |-> t, name |-> n, type |-> type]
Use(t, k, col, i) ==
    [schema |-> "app", table |-> t, constraint |-> k, column |-> col,
     ordinal |-> i, ref_schema |-> "", ref_table |-> "", ref_column |-> ""]
Ref(t, k, col, i, schema, target, ref) ==
    [Use(t, k, col, i) EXCEPT !.ref_schema = schema, !.ref_table = target,
                              !.ref_column = ref]
Of2(t, k) == [schema |-> "app", table |-> t, constraint |-> k]
Part(t, x, i, col) ==
    [schema |-> "app", table |-> t, index |-> x, ordinal |-> i,
     column |-> col, expression |-> col = "", about |-> "btree"]
View(n, definition, relations) ==
    [schema |-> "app", name |-> n, definition |-> definition,
     relations |-> relations, ctes |-> {}]
Usage(v, target) == [schema |-> "app", view |-> v, target_schema |-> "app",
                     target |-> target]
Rel(n) == [schema |-> "app", name |-> n]
Partition(t, n, sub) ==
    [schema |-> "app", table |-> t, name |-> n, sub |-> sub]

(* Features: the rows they add.                                            *)
Base ==
    [NoRows EXCEPT
        !.tables = {Table("t1", "BASE TABLE"),
                    [Table("t9", "BASE TABLE") EXCEPT !.schema = "other"]},
        !.columns = {Col("t1", "a", 1), Col("t1", "b", 2),
                     [Col("t9", "a", 1) EXCEPT !.schema = "other"]},
        !.constraints = {Con("t1", "PRIMARY", "PRIMARY KEY"),
                         Con("t1", "u", "UNIQUE"), Con("t1", "c", "CHECK")},
        !.key_usage = {Use("t1", "PRIMARY", "A", 1), Use("t1", "u", "b", 1),
                       Use("t1", "u", "a", 2),
                       [Use("t9", "PRIMARY", "a", 1) EXCEPT
                           !.schema = "other"]},
        !.checks = {Of2("t1", "c")},
        !.index_parts = {Part("t1", "PRIMARY", 1, "a"), Part("t1", "u", 1, "b"),
                         Part("t1", "u", 2, "a")},
        !.partitions = {Partition("t1", "", "")}]

Referencing(t1) ==
    [NoRows EXCEPT
        !.tables = {Table("t2", "BASE TABLE")},
        !.columns = {Col("t2", "x", 1), Col("t2", "y", 2)},
        !.constraints = {Con("t2", "f", "FOREIGN KEY")},
        !.key_usage = {Ref("t2", "f", "x", 1, "app", t1, "b"),
                       Ref("t2", "f", "y", 2, "app", t1, "a")},
        !.reference_rules = {Of2("t2", "f")},
        !.index_parts = {Part("t2", "f", 1, "x"), Part("t2", "f", 2, "")}]

OutOfScope == [NoRows EXCEPT
    !.constraints = {Con("t1", "g", "FOREIGN KEY")},
    !.key_usage = {Ref("t1", "g", "a", 1, "other", "t9", "a")},
    !.reference_rules = {Of2("t1", "g")}]

SameName == [NoRows EXCEPT
    !.constraints = {Con("t1", "u", "FOREIGN KEY")},
    !.reference_rules = {Of2("t1", "u")}]

ViewOn(n, target, definition) ==
    [NoRows EXCEPT
        !.tables = {Table(n, "VIEW")}, !.columns = {Col(n, "a", 1)},
        !.views = {[View(n, definition, {Rel(target)}) EXCEPT
                       !.ctes = {"w"}]},
        !.view_table_usage = {Usage(n, target)}]

Partitioned == [NoRows EXCEPT
    !.partitions = {Partition("t1", "p", "s"), Partition("t1", "p", "r"),
                    Partition("t1", "q", "")}]
PartitionNamed == [NoRows EXCEPT
    !.partitions = {Partition("t1", "p:subpartition:s", "")}]
Sequence == [NoRows EXCEPT
    !.tables = {Table("q1", "SEQUENCE")},
    !.columns = {Col("q1", "next", 1)},
    !.sequences = {[schema |-> "app", name |-> "q1"]}]
Versioned == [NoRows EXCEPT !.tables = {Table("h1", "SYSTEM VERSIONED")}]

Body == [NoRows EXCEPT
    !.routines = {[schema |-> "app", specific |-> "fn", name |-> "fn",
                   type |-> "FUNCTION", definition |-> "text"]},
    !.parameters = {[schema |-> "app", specific |-> "fn", ordinal |-> i,
                     name |-> "p", type |-> "FUNCTION"] : i \in {0, 1}}]
CallingView == [ViewOn("v3", "t1", "text") EXCEPT
    !.view_routine_usage = {[schema |-> "app", view |-> "v3",
                             routine_schema |-> "app", specific |-> "fn"]},
    !.routines = Body.routines]
Fires == [NoRows EXCEPT
    !.triggers = {[schema |-> "app", name |-> "g1", table |-> "t1",
                   event |-> "INSERT", definition |-> "text"]}]
Scheduled == [NoRows EXCEPT
    !.events = {[schema |-> "app", name |-> "e1", definition |-> "text"]}]

V1 == ViewOn("v1", "t1", "text")
V2 == ViewOn("v2", "v1", "text")

Features(product, t1) ==
    {Referencing(t1), ViewOn("v1", t1, "text"), V2, Partitioned,
     PartitionNamed, OutOfScope, SameName, Body, CallingView, Fires,
     Scheduled, ViewOn("v4", "t1", "hidden"), ViewOn("v4", "t1", "large"),
     ViewOn("v4", "t1", "unparsed")}
      \cup IF product = "MariaDB" THEN {Sequence, Versioned} ELSE {}

Grant(scope, privileges) == [scope |-> scope, privileges |-> privileges]
Full == {Grant("*.*", {"SELECT"}), Grant("app", {"ALL"})}
Partial == {Grant("*.*", {"SELECT", "SHOW VIEW"}), Grant("other", {"ALL"})}
Unknown == {Grant("app", {"ALL"}), Grant("*.*", {"?"})}

Build(features, product, table, lower, grants, roles) ==
    [k \in DOMAIN NoRows |->
        Base[k] \cup UNION {f[k] : f \in features}]
    @@ [product |-> product, database |-> "app", lower |-> lower,
        grants |-> grants, roles |-> roles, sequences_table |-> table,
        show_create |-> {[name |-> "q1", definition |-> "text"]}]

Pairs(S) == {{a, b} : a, b \in S}

MCServers ==
    {Build(fs, "MySQL", FALSE, FALSE, Full, {"r1"}) :
        fs \in Pairs(Features("MySQL", "t1"))}
    \cup {Build(fs, "MariaDB", table, TRUE, Full, {}) :
             fs \in Pairs(Features("MariaDB", "T1")), table \in BOOLEAN}
    \cup {Build({Referencing("t1"), V1, V2, Partitioned}, "MySQL", FALSE,
                FALSE, grants, roles) :
             grants \in {Full, Partial, Unknown},
             roles \in {{}, {"r1"}, {"r1", "R1"}}}

=============================================================================
