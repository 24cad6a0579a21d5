--------------------------- MODULE MCSqliteMapping ---------------------------
(* Files with every feature the adapter distinguishes, in every            *)
(* combination: rowid and WITHOUT ROWID tables, generated columns, views   *)
(* on views, expression indexes, triggers on tables and views, SQLite's    *)
(* own tables, references to what is missing, and legal oddities.          *)
EXTENDS SqliteMapping

Col(name) == [name |-> name, hidden |-> 0, reads |-> {}]
Gen(name, reads) == [name |-> name, hidden |-> 2, reads |-> reads]
Access(relation, column) == [relation |-> relation, column |-> column]

Rel(name, type, cols) ==
    [name |-> name, type |-> type, sql |-> TRUE, cols |-> cols,
     pk |-> <<>>, alias |-> FALSE, rowid |-> TRUE, uniques |-> <<>>,
     checks |-> <<>>, fks |-> <<>>, reads |-> {}]

T1 == [Rel("t1", "table", <<Col("a"), Col("b"), Gen("g", {"a", "B"})>>)
        EXCEPT !.pk = <<"a">>, !.alias = TRUE,
               !.uniques = <<[name |-> "u", cols |-> <<"b">>],
                             [name |-> "", cols |-> <<"b", "a">>]>>,
               !.checks = <<[name |-> "u", reads |-> {"b", "rowid"}],
                            [name |-> "u", reads |-> {}]>>]

T1Redundant == [T1 EXCEPT !.uniques = @ \o <<[name |-> "", cols |-> <<"b">>]>>]
T1Names == [T1 EXCEPT !.checks = <<[name |-> "c", reads |-> {"a"}],
                                   [name |-> "c", reads |-> {"b"}],
                                   [name |-> "c#2", reads |-> {"b"}]>>]

T2 == [Rel("t2", "table", <<Col("x"), Col("y"), Col("z")>>)
        EXCEPT !.pk = <<"y", "x">>, !.rowid = FALSE,
               !.uniques = <<[name |-> "", cols |-> <<"z">>]>>,
               !.fks = <<[name |-> "", cols |-> <<"x">>, target |-> "T1",
                          refs |-> <<>>],
                         [name |-> "f", cols |-> <<"z", "x">>,
                          target |-> "t1", refs |-> <<"b", "a">>]>>]

V1 == [Rel("v1", "view", <<Col("a")>>)
        EXCEPT !.reads = {Access("t1", "a"), Access("t1", "rowid")}]
V2 == [Rel("v2", "view", <<Col("a"), Col("x")>>)
        EXCEPT !.reads = {Access("v1", "a"), Access("t2", "x")}]
Virtual == Rel("fts", "virtual", <<Col("body"), Col("rank")>>)
Sequence == Rel("sqlite_sequence", "table", <<Col("name"), Col("seq")>>)

OptionalRelations == {T2, V1, V2, Virtual}

I1 == [name |-> "i1", table |-> "t1", terms |-> <<"B", "">>, probe |-> {"a"}]
I2 == [name |-> "i2", table |-> "t2", terms |-> <<"z">>, probe |-> {}]
ITwice == [name |-> "i3", table |-> "t1", terms |-> <<"b", "b">>, probe |-> {}]

G(name, table, event, of, reads) ==
    [name |-> name, table |-> table, event |-> event, of |-> of,
     reads |-> reads]
G1 == G("g1", "t1", "update", <<"B">>,
        {Access("t2", "x"), Access("sqlite_sequence", "seq")})
G2 == G("g2", "v1", "insert", <<>>, {Access("t1", ""), Access("v1", "a")})
G3 == G("g3", "T1", "delete", <<>>, {Access("t1", "b")})

MCFiles ==
    {f \in [relation : {{t1, Sequence} \cup others :
                           t1 \in {T1, T1Redundant, T1Names},
                           others \in SUBSET OptionalRelations},
            index : SUBSET {I1, I2, ITwice},
            trigger : SUBSET {G1, G2, G3},
            attached : {FALSE}] :
        /\ \A x \in f.index : \E r \in f.relation : r.name = x.table
        /\ \A t \in f.trigger : \E r \in f.relation :
              Fold(r.name) = Fold(t.table)}
      \cup {[relation |-> {T1}, index |-> {}, trigger |-> {},
             attached |-> TRUE]}

=============================================================================
