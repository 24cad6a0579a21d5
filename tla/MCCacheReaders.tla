---------------------------- MODULE MCCacheReaders ----------------------------
(***************************************************************************)
(* Values for CacheReaders: two keys with one alias; catalog S has one     *)
(* object, catalog L adds an object that sorts before it and edges that    *)
(* join the two.                                                           *)
(***************************************************************************)
EXTENDS CacheReaders, TLC

CONSTANTS S, L, k1, k2, shop

MCAliasOf == (k1 :> shop) @@ (k2 :> shop)
MCNodesOf == (S :> {2}) @@ (L :> {1, 2})
MCEdgesOf == (S :> {}) @@ (L :> {<<1, 2>>, <<2, 2>>})

Query(tool, selector, offset, limit) ==
    [tool |-> tool, selector |-> selector, filter |-> {1, 2}, object |-> 2,
     offset |-> offset, limit |-> limit]

MCRequest ==
    {Query("list_snapshots", shop, 0, 1), Query("describe_snapshot", shop, 0, 1),
     Query("list_objects", k1, 0, 1), Query("list_objects", k1, 1, 5),
     Query("list_objects", shop, 0, 0), Query("describe_object", k1, 0, 0),
     Query("describe_object", k1, 0, 1), Query("describe_object", k1, 0, 5)}

=============================================================================
