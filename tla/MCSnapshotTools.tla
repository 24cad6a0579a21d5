--------------------------- MODULE MCSnapshotTools ---------------------------
(***************************************************************************)
(* The tools that read a stored graph besides the readers of CacheReaders: *)
(* the schema diff, the pages of tables and columns, and the object keys   *)
(* all of them read.  One of the three runs; the variables of the others   *)
(* rest.                                                                   *)
(***************************************************************************)
EXTENDS SchemaDiff, Pagination, ObjectKeys, TLC

VARIABLE tool

toolVars == <<tool, diffVars, pageVars, keyVars>>

-----------------------------------------------------------------------------
(* Values: two snapshots of one source and a third, of another source,     *)
(* that shares the alias of the second.                                    *)

E(type, from, to) == [type |-> type, from |-> from, to |-> to]
OWNED == "OWNED_BY"
READS == "DEPENDS_ON"

(* An indexed view 1 with its index 2; then with another definition and a  *)
(* table 3, read for two columns; then without the index, reading another  *)
(* table 4 that depends on the first.                                      *)
Small == [look |-> (1 :> "a") @@ (2 :> "a"), edges |-> <<E(OWNED, 2, 1)>>]
Linked == [look |-> (1 :> "b") @@ (2 :> "a") @@ (3 :> "a"),
           edges |-> <<E(READS, 1, 3), E(READS, 1, 3), E(OWNED, 2, 1)>>]
Other == [look |-> (1 :> "b") @@ (3 :> "a") @@ (4 :> "a"),
          edges |-> <<E(READS, 1, 3), E(READS, 1, 4), E(READS, 4, 3)>>]
Foreign == [look |-> (6 :> "a"), edges |-> <<>>]

MCSnapshotKeys == <<"mysql:old", "sqlserver:new", "sqlserver:old">>
MCDiffAliasOf == ("sqlserver:new" :> "new") @@ ("sqlserver:old" :> "old")
              @@ ("mysql:old" :> "old")
MCGenerations == ("sqlserver:new" :> {Small, Linked, Other})
              @@ ("sqlserver:old" :> {Small, Linked, Other})
              @@ ("mysql:old" :> {Foreign})
MCEdgeTypes == <<READS, OWNED>>

(* Texts of one and two characters, and some that look like escapes.       *)
Character == {"a", ":", "%"}
MCKeyPart == {<<c>> : c \in Character} \union (Character \X Character)
    \union {<<"%", "2", "5">>, <<"%", "3", "A">>, <<"v", "2">>}
MCPlace == {<<"s">>}
MCKindText == {<<"t">>}

-----------------------------------------------------------------------------
NoRequest == [from |-> "new", to |-> "new", limit |-> 0]

DiffRest ==
    /\ stored = [k \in SnapshotKey |-> Missing]
    /\ replaced = 0 /\ history = <<>> /\ ask = NoRequest
    /\ step = "not_found" /\ ends = <<>> /\ rows = NoRows /\ diff = NoDiff
    /\ seeds = <<>> /\ seed = <<>> /\ remaining = 0 /\ queue = <<>>
    /\ visited = {} /\ results = <<>> /\ budget = 0 /\ cut = FALSE
    /\ stopped = FALSE /\ impacts = <<>> /\ truncated = FALSE
PageRest ==
    /\ total = 0 /\ begin = 0 /\ offset = 0 /\ limit = 0
    /\ seen = <<>> /\ reply = "refused"
KeyRest == key = <<>> /\ written = <<>>

ToolsInit ==
    \/ tool = "diff" /\ DiffInit /\ PageRest /\ KeyRest
    \/ tool = "pages" /\ PageInit /\ DiffRest /\ KeyRest
    \/ tool = "keys" /\ KeyInit /\ DiffRest /\ PageRest

ToolsNext ==
    /\ UNCHANGED tool
    /\ \/ tool = "diff" /\ DiffNext /\ UNCHANGED <<pageVars, keyVars>>
       \/ tool = "pages" /\ PageNext /\ UNCHANGED <<diffVars, keyVars>>
       \/ tool = "keys" /\ KeyNext /\ UNCHANGED <<diffVars, pageVars>>

ToolsSpec == ToolsInit /\ [][ToolsNext]_toolVars

=============================================================================
