--------------------------- MODULE MCAdapterFaults ---------------------------
(* A snapshot with every collection in use, and one key of every kind to   *)
(* resolve a reference to by mistake.                                      *)
EXTENDS AdapterFaults

T1 == Key("table", "s", "t1", "")
T2 == Key("table", "s", "t2", "")
V == Key("view", "s", "v", "")
M == Key("materialized_view", "s", "m", "")
R == Key("routine", "s", "r", "")
Sub(kind, owner, name) == Key(kind, "s", owner, name)
A1 == Sub("column", "t1", "a")
B1 == Sub("column", "t1", "b")
A2 == Sub("column", "t2", "a")

MCWellFormed ==
    [schema |-> {Object(SchemaKey("s"), DatabaseKey, <<"s">>)},
     table |-> {Object(t, SchemaKey("s"), <<t.name>>) : t \in {T1, T2}},
     column |-> {Column(A1, T1, 1, <<"a1">>), Column(B1, T1, 2, <<"b1">>),
                 Column(A2, T2, 1, <<"a2">>)},
     constraint |->
        {Constraint(Sub("primary_key", "t1", "pk"), T1, <<A1>>, NoKey, <<>>,
                    FALSE, <<"pk">>),
         Constraint(Sub("foreign_key", "t2", "fk"), T2, <<A2>>, T1, <<A1>>,
                    FALSE, <<"fk">>),
         Constraint(Sub("check_constraint", "t1", "ck"), T1, <<B1>>, NoKey,
                    <<>>, TRUE, <<"ck">>)},
     index |-> {Index(Sub("index", "t1", "i"), T1, <<B1, A1>>, FALSE,
                      <<"i">>)},
     view |-> {Dependent(V, SchemaKey("s"), {T1, B1}, <<"v">>)},
     trigger |-> {Trigger(Sub("trigger", "t2", "g"), T2, {"insert"}, R,
                          <<"g">>)},
     routine |-> {Dependent(R, SchemaKey("s"), {T2}, <<"r">>)},
     metadata |-> {Object(M, SchemaKey("s"), <<"m">>),
                   Object(Sub("view_column", "m", "c"), M, <<"mc">>),
                   Object(Sub("view_column", "m", "d"), M, <<"md">>)},
     annotation |-> {Object(T1, NoKey, <<"note">>)},
     relationship |-> {Relationship("materializes", M, T1, None, <<"mt">>),
                       Relationship("depends_on", V, M, None, <<"vm">>),
                       Relationship("depends_on", V, M, 2, <<"vm2">>)}]

MCTarget == {T2, A2, V, M, R, Key("table", "s", "gone", "")}

=============================================================================
