-------------------------- MODULE SchemaDiffProofs --------------------------
(***************************************************************************)
(* Proofs about the schema diff, for every set of snapshots, generations,  *)
(* requests and replacements.                                              *)
(***************************************************************************)
EXTENDS SchemaDiff, SortingProofs, FiniteSetTheorems, SequenceTheorems, TLAPS

-----------------------------------------------------------------------------
(* The invariant.                                                          *)

Steps == {"resolve_from", "resolve_to", "limit", "to_nodes", "from_edges",
          "to_edges", "compare", "seed", "impact", "done", "not_found",
          "ambiguous", "refused"}

(* The steps at which both snapshots are resolved, and those at which the  *)
(* nodes or edges of one have been read and not yet compared.              *)
Resolved == {"limit", "to_nodes", "from_edges", "to_edges", "compare",
             "seed", "impact", "done", "refused"}
FromNodesRead == {"to_nodes", "from_edges", "to_edges", "compare"}
ToNodesRead == {"from_edges", "to_edges", "compare"}
FromEdgesRead == {"to_edges", "compare"}
ToEdgesRead == {"compare"}

(* What is stored, and what was.                                           *)
WorldInv ==
    /\ stored \in [SnapshotKey -> Generation \union {Missing}]
    /\ \A k \in SnapshotKey : stored[k] \in Generations[k] \union {Missing}
    /\ history \in [SnapshotKey -> SUBSET (Generation \union {Missing})]
    /\ \A k \in SnapshotKey : stored[k] \in history[k]
    /\ ask.limit \in Nat

(* A resolved key keeps having a snapshot.                                 *)
EndsInv ==
    /\ step \in Steps
    /\ ends \in Seq(SnapshotKey)
    /\ step = "resolve_from" => Len(ends) = 0
    /\ step = "resolve_to" => Len(ends) = 1
    /\ step \in Resolved => Len(ends) = 2
    /\ Len(ends) <= 2
    /\ \A i \in 1 .. Len(ends) : stored[ends[i]] # Missing

(* What has been read are the rows of a whole generation, each time.       *)
NodeRows == {<<>>}
    \union {ComparableNodes(k, g) : k \in SnapshotKey, g \in Generation}
EdgeRows == {{}} \union {EdgeKeysOf(g) : g \in Generation}

RowsInv ==
    /\ rows \in [from_nodes : NodeRows, to_nodes : NodeRows,
                 from_edges : EdgeRows, to_edges : EdgeRows]
    /\ step \in FromNodesRead =>
          \E g \in Held(1) : rows.from_nodes = ComparableNodes(ends[1], g)
    /\ step \in ToNodesRead =>
          \E g \in Held(2) : rows.to_nodes = ComparableNodes(ends[2], g)
    /\ step \in FromEdgesRead =>
          \E g \in Held(1) : rows.from_edges = EdgeKeysOf(g)
    /\ step \in ToEdgesRead =>
          \E g \in Held(2) : rows.to_edges = EdgeKeysOf(g)

(* The seeds, and what the traversal of one has found.                     *)
Seed == SnapshotKey \X Object
Impact == [seed : Seed, nodes : SUBSET Object]
FoundPath == {p \in Seq([node : Object, edge : Nat]) : Len(p) > 0}

SeedsInv ==
    /\ seeds \in Seq(Seed)
    /\ \A i \in 1 .. Len(seeds) : stored[seeds[i][1]] # Missing
    /\ step = "impact" => seed \in Seed /\ stored[seed[1]] # Missing
    /\ remaining \in 0 .. Limit
    /\ queue \in Seq(FoundPath)
    /\ results \in Seq(FoundPath)
    /\ budget \in Nat
    /\ cut \in BOOLEAN
    /\ impacts \in Seq(Impact)
    /\ truncated \in BOOLEAN

DiffIInv ==
    /\ WorldInv
    /\ EndsInv
    /\ RowsInv
    /\ SeedsInv
    /\ DiffIsPatch

-----------------------------------------------------------------------------
(* Lists.                                                                  *)

(* A list cut at m: part of the set, and all of it when it is as long.     *)
LEMMA CutList ==
    ASSUME NEW S, IsFiniteSet(S), NEW R, NEW s, IsSorting(s, S, R),
           NEW m \in Nat, NEW f, f = FirstOf(s, m)
    PROVE  /\ Len(s) = Cardinality(S)
           /\ f \in Seq(S)
           /\ ToSet(f) \subseteq S
           /\ Len(f) = Cardinality(S) => ToSet(f) = S
           /\ \A i \in 1 .. Len(f) : f[i] = s[i]
           /\ Len(f) <= m
           /\ Len(s) <= m => Len(f) = Len(s)
  <1>2. /\ s \in Seq(S) /\ Len(s) = Cardinality(S) /\ Len(s) \in Nat
    BY DEF IsSorting
  <1>3. PICK k : k = IF m < Len(s) THEN m ELSE Len(s)
    OBVIOUS
  <1>4. k \in Nat /\ k <= Len(s) /\ k <= m
    BY <1>2, <1>3
  <1>5. f = SubSeq(s, 1, k)
    BY <1>3 DEF FirstOf
  <1>6. f \in Seq(S) /\ Len(f) = k /\ \A i \in 1 .. k : f[i] = s[i]
    BY <1>2, <1>4, <1>5
  <1>7. ToSet(f) \subseteq S /\ (m >= Cardinality(S) => ToSet(f) = S)
    BY FirstFacts
  <1>8. k = Cardinality(S) => m >= Cardinality(S)
    BY <1>2, <1>3, <1>4
  <1>9. Len(s) <= m => k = Len(s)
    BY <1>2, <1>3
  <1> QED
    BY <1>2, <1>4, <1>6, <1>7, <1>8, <1>9

(* A function on its domain.                                               *)
IsMap(f) == f = [o \in DOMAIN f |-> f[o]]

(* What a function takes the members of a set to.                          *)
Image(v, X) == {v[o] : o \in X}

(* Listing something about each member of such a list.                     *)
LEMMA ListOf ==
    ASSUME NEW S, NEW s, s \in Seq(S), NEW v, NEW l, IsMap(l),
           DOMAIN l = 1 .. Len(s), \A i \in 1 .. Len(s) : l[i] = v[s[i]]
    PROVE  /\ Len(l) = Len(s)
           /\ ToSet(l) = Image(v, ToSet(s))
  <1>1. Len(s) \in Nat /\ DOMAIN s = 1 .. Len(s) /\ \A i \in 1 .. Len(s) : s[i] \in S
    OBVIOUS
  <1>2. Len(l) = Len(s) /\ DOMAIN l = 1 .. Len(s)
    BY <1>1 DEF IsMap
  <1> QED
    BY <1>1, <1>2 DEF ToSet, Image

(* A generation is finite, and its edges join its objects.                 *)
LEMMA GenerationFacts ==
    ASSUME NEW g \in Generation
    PROVE  /\ DOMAIN g.look \subseteq Object /\ IsFiniteSet(DOMAIN g.look)
           /\ Object \subseteq Nat
           /\ EdgeKeysOf(g) \subseteq ToSet(EdgeTypes) \X Object \X Object
           /\ IsFiniteSet(EdgeKeysOf(g))
           /\ g.edges \in Seq([type : ToSet(EdgeTypes),
                               from : Object, to : Object])
  <1> DEFINE Ends == [type : ToSet(EdgeTypes), from : DOMAIN g.look,
                      to : DOMAIN g.look]
             Wide == [type : ToSet(EdgeTypes), from : Object, to : Object]
  <1>1. DOMAIN g.look \subseteq Object
    BY DEF Object
  <1>2. PICK es : es = g.edges
    OBVIOUS
  <1>3. /\ IsFiniteSet(DOMAIN g.look) /\ Object \subseteq Nat
        /\ es \in Seq(Ends)
    BY <1>2, DiffAssumption
  <1>4. Ends \subseteq Wide
    BY <1>1
  <1> HIDE DEF Ends, Wide
  <1> DEFINE N == 1 .. Len(es)
             key == [i \in N |-> <<es[i].type, es[i].from, es[i].to>>]
             keys == {key[i] : i \in N}
  <1>5. /\ Len(es) \in Nat /\ DOMAIN es = N
        /\ \A i \in N : es[i] \in Wide
    BY <1>3, <1>4
  <1>6. EdgeKeysOf(g) = keys
    BY <1>2, <1>5 DEF EdgeKeysOf, ToSet
  <1>7. IsFiniteSet(N)
    BY <1>5, FS_Interval
  <1>8. \A i \in N : key[i] \in ToSet(EdgeTypes) \X Object \X Object
    BY <1>5 DEF Wide
  <1>9. es \in Seq(Wide)
    BY <1>3, <1>4
  <1>10. key \in Surjection(N, keys)
    BY DEF Surjection
  <1> HIDE DEF N, key, keys
  <1>11. IsFiniteSet(keys)
    BY <1>7, <1>10, FS_Surjection
  <1>12. keys \subseteq ToSet(EdgeTypes) \X Object \X Object
    BY <1>8 DEF keys
  <1> QED
    BY <1>1, <1>2, <1>3, <1>6, <1>9, <1>11, <1>12 DEF Wide

(* The order of the edges in the result.                                   *)
LEMMA EdgeSorts ==
    ASSUME NEW S, IsFiniteSet(S),
           S \subseteq ToSet(EdgeTypes) \X Object \X Object
    PROVE  IsSorting(ByEdgeKey(S), S,
                     {p \in S \X S : EdgeBefore(p[1], p[2])})
  <1> DEFINE R == {p \in S \X S : EdgeBefore(p[1], p[2])}
  <1>1. Object \subseteq Nat /\ EdgeTypes \in Seq(ToSet(EdgeTypes))
    BY DiffAssumption
  <1>2. DOMAIN EdgeTypes \subseteq Nat
    BY <1>1
  <1>3. ASSUME NEW t \in ToSet(EdgeTypes)
        PROVE  TypeRank(t) \in Nat /\ EdgeTypes[TypeRank(t)] = t
    <2>1. \E i \in DOMAIN EdgeTypes : EdgeTypes[i] = t
      BY DEF ToSet
    <2> QED
      BY <1>2, <2>1 DEF TypeRank
  <1>4. \A e \in S : /\ TypeRank(e[1]) \in Nat
                     /\ EdgeTypes[TypeRank(e[1])] = e[1]
                     /\ e[2] \in Nat /\ e[3] \in Nat
                     /\ e = <<e[1], e[2], e[3]>>
    <2>1. ASSUME NEW e \in S
          PROVE  /\ e[1] \in ToSet(EdgeTypes)
                 /\ e[2] \in Object /\ e[3] \in Object
                 /\ e = <<e[1], e[2], e[3]>>
      OBVIOUS
    <2> QED
      BY <1>1, <1>3, <2>1
  <1>5. \A e, f \in S : <<e, f>> \in R <=> EdgeBefore(e, f)
    OBVIOUS
  <1>6. IsOrder(R, S)
    <2> HIDE DEF R
    <2>1. ASSUME NEW e \in S PROVE <<e, e>> \notin R
      BY <1>4, <1>5 DEF EdgeBefore
    <2>2. ASSUME NEW e \in S, NEW f \in S, e # f
          PROVE  <<e, f>> \in R \/ <<f, e>> \in R
      <3>1. e[1] # f[1] \/ e[2] # f[2] \/ e[3] # f[3]
        BY <1>4, <2>2
      <3>2. e[1] # f[1] => TypeRank(e[1]) # TypeRank(f[1])
        BY <1>4
      <3> QED
        BY <1>4, <1>5, <3>1, <3>2 DEF EdgeBefore
    <2>3. ASSUME NEW e \in S, NEW f \in S, NEW g \in S,
                 <<e, f>> \in R, <<f, g>> \in R
          PROVE  <<e, g>> \in R
      BY <1>4, <1>5, <2>3 DEF EdgeBefore
    <2> QED
      BY <2>1, <2>2, <2>3 DEF IsOrder
  <1> QED
    BY <1>6, SortedSorts DEF ByEdgeKey

(* The order of the seeds.                                                 *)
LEMMA SeedSorts ==
    ASSUME NEW S, IsFiniteSet(S), S \subseteq Seed
    PROVE  IsSorting(BySeed(S), S, {p \in S \X S : SeedBefore(p[1], p[2])})
  <1> DEFINE R == {p \in S \X S : SeedBefore(p[1], p[2])}
  <1>1. Object \subseteq Nat /\ SnapshotKeys \in Seq(SnapshotKey)
    BY DiffAssumption
  <1>2. DOMAIN SnapshotKeys \subseteq Nat
    BY <1>1
  <1>3. ASSUME NEW k \in SnapshotKey
        PROVE  KeyRank(k) \in Nat /\ SnapshotKeys[KeyRank(k)] = k
    <2>1. \E i \in DOMAIN SnapshotKeys : SnapshotKeys[i] = k
      BY DEF ToSet, SnapshotKey
    <2> QED
      BY <1>2, <2>1 DEF KeyRank
  <1>4. \A e \in S : /\ KeyRank(e[1]) \in Nat
                     /\ SnapshotKeys[KeyRank(e[1])] = e[1]
                     /\ e[2] \in Nat
                     /\ e = <<e[1], e[2]>>
    <2>1. ASSUME NEW e \in S
          PROVE  /\ e[1] \in SnapshotKey /\ e[2] \in Object
                 /\ e = <<e[1], e[2]>>
      BY DEF Seed
    <2> QED
      BY <1>1, <1>3, <2>1
  <1>5. \A e, f \in S : <<e, f>> \in R <=> SeedBefore(e, f)
    OBVIOUS
  <1>6. IsOrder(R, S)
    <2> HIDE DEF R
    <2>1. ASSUME NEW e \in S PROVE <<e, e>> \notin R
      BY <1>4, <1>5 DEF SeedBefore
    <2>2. ASSUME NEW e \in S, NEW f \in S, e # f
          PROVE  <<e, f>> \in R \/ <<f, e>> \in R
      <3>1. e[1] # f[1] \/ e[2] # f[2]
        BY <1>4, <2>2
      <3>2. e[1] # f[1] => KeyRank(e[1]) # KeyRank(f[1])
        BY <1>4
      <3> QED
        BY <1>4, <1>5, <3>1, <3>2 DEF SeedBefore
    <2>3. ASSUME NEW e \in S, NEW f \in S, NEW g \in S,
                 <<e, f>> \in R, <<f, g>> \in R
          PROVE  <<e, g>> \in R
      BY <1>4, <1>5, <2>3 DEF SeedBefore
    <2> QED
      BY <2>1, <2>2, <2>3 DEF IsOrder
  <1> QED
    BY <1>6, SortedSorts DEF BySeed

-----------------------------------------------------------------------------
(* Patches.                                                                *)

Listed(nodes, objects) ==
    {[object |-> o, payload |-> nodes[o]] : o \in objects}

(* What is said of the added and changed nodes, and that the lists rebuild *)
(* the newer nodes from the older ones when none is cut.                   *)
LEMMA Rebuilt ==
    ASSUME NEW old, NEW new, IsMap(new),
           NEW add, add \subseteq DOMAIN new \ DOMAIN old,
           NEW chg, chg \subseteq DOMAIN new \intersect DOMAIN old,
           NEW del, NEW A, NEW C,
           A = Listed(new, add), C = Listed(new, chg)
    PROVE  /\ \A r \in A \union C : /\ r.object \in DOMAIN new
                                    /\ r.payload = new[r.object]
           /\ ObjectsIn(A) = add /\ ObjectsIn(C) = chg
           /\ (/\ add = DOMAIN new \ DOMAIN old
               /\ del = DOMAIN old \ DOMAIN new
               /\ \A o \in DOMAIN old \intersect DOMAIN new :
                     old[o] # new[o] => o \in chg)
              => new = Patched(old, del, A, C)
  <1> DEFINE said == A \union C
             payload(o) == (CHOOSE r \in said : r.object = o).payload
             kept == (DOMAIN old \ del) \union ObjectsIn(A)
  <1>1. /\ \A r \in said : r.object \in DOMAIN new /\ r.payload = new[r.object]
        /\ \A o \in add \union chg :
              \E r \in said : r.object = o /\ r.payload = new[o]
    <2>1. ASSUME NEW r \in said
          PROVE  r.object \in DOMAIN new /\ r.payload = new[r.object]
      <3>1. PICK o \in add \union chg : r = [object |-> o, payload |-> new[o]]
        BY DEF Listed
      <3> QED
        BY <3>1
    <2>2. ASSUME NEW o \in add \union chg
          PROVE  \E r \in said : r.object = o /\ r.payload = new[o]
      <3>1. PICK r : r = [object |-> o, payload |-> new[o]]
        OBVIOUS
      <3>2. r \in said
        BY <3>1 DEF Listed
      <3> QED
        BY <3>1, <3>2
    <2> QED
      BY <2>1, <2>2
  <1>2. ObjectsIn(A) = add /\ ObjectsIn(C) = chg
    <2>1. ASSUME NEW S PROVE ObjectsIn(Listed(new, S)) = S
      <3>1. ASSUME NEW o \in S PROVE o \in ObjectsIn(Listed(new, S))
        <4>1. PICK r : r = [object |-> o, payload |-> new[o]]
          OBVIOUS
        <4>2. r \in Listed(new, S) /\ r.object = o
          BY <4>1 DEF Listed
        <4> QED
          BY <4>2 DEF ObjectsIn
      <3>2. ASSUME NEW o \in ObjectsIn(Listed(new, S)) PROVE o \in S
        <4>1. PICK r \in Listed(new, S) : o = r.object
          BY DEF ObjectsIn
        <4>2. PICK p \in S : r = [object |-> p, payload |-> new[p]]
          BY DEF Listed
        <4> QED
          BY <4>1, <4>2
      <3> QED
        BY <3>1, <3>2
    <2> QED
      BY <2>1
  <1>3. ObjectsIn(said) = add \union chg
    BY <1>2 DEF ObjectsIn
  <1>4. ASSUME NEW o \in add \union chg PROVE payload(o) = new[o]
    BY <1>1
  <1>5. ASSUME add = DOMAIN new \ DOMAIN old, del = DOMAIN old \ DOMAIN new,
               \A o \in DOMAIN old \intersect DOMAIN new :
                  old[o] # new[o] => o \in chg
        PROVE  new = Patched(old, del, A, C)
    <2>0. Patched(old, del, A, C) =
             [o \in kept |-> IF o \in ObjectsIn(said) THEN payload(o)
                             ELSE old[o]]
      BY DEF Patched
    <2>1. kept = DOMAIN new
      BY <1>2, <1>5
    <2> HIDE DEF payload, kept, said
    <2>2. ASSUME NEW o \in kept
          PROVE  new[o] = IF o \in ObjectsIn(said) THEN payload(o) ELSE old[o]
      BY <1>3, <1>4, <1>5, <2>1
    <2>3. new = [o \in kept |-> new[o]]
      BY <2>1 DEF IsMap
    <2> QED
      BY <2>0, <2>2, <2>3
  <1> QED
    BY <1>1, <1>2, <1>5

(* A list of nodes with their payloads, cut at m.                          *)
Records(S, nodes, m) ==
    [i \in 1 .. Len(FirstOf(Ascending(S), m)) |->
        [object |-> Ascending(S)[i], payload |-> nodes[Ascending(S)[i]]]]

LEMMA CutRecords ==
    ASSUME NEW S, IsFiniteSet(S), S \subseteq Nat, NEW nodes, NEW m \in Nat,
           NEW l, l = Records(S, nodes, m)
    PROVE  /\ Len(Ascending(S)) = Cardinality(S)
           /\ Len(l) <= m
           /\ Cardinality(S) <= m => Len(l) = Cardinality(S)
           /\ \E o \in SUBSET S : /\ ToSet(l) = Listed(nodes, o)
                                  /\ Len(l) = Cardinality(S) => o = S
  <1>1. PICK a : a = Ascending(S)
    OBVIOUS
  <1>2. PICK f : f = FirstOf(a, m)
    OBVIOUS
  <1>3. /\ Len(a) = Cardinality(S) /\ f \in Seq(S) /\ ToSet(f) \subseteq S
        /\ Len(f) = Cardinality(S) => ToSet(f) = S
        /\ \A i \in 1 .. Len(f) : f[i] = a[i]
        /\ Len(f) <= m
        /\ Cardinality(S) <= m => Len(f) = Cardinality(S)
    <2>1. PICK order : IsSorting(a, S, order)
      BY <1>1, KeySorts
    <2> QED
      BY <1>2, <2>1, CutList
  <1>4. PICK v : v = [o \in S |-> [object |-> o, payload |-> nodes[o]]]
    OBVIOUS
  <1>5. Len(f) \in Nat /\ \A i \in 1 .. Len(f) : f[i] \in S
    BY <1>3
  <1>6. PICK c : c = l
    OBVIOUS
  <1>7. /\ IsMap(c) /\ DOMAIN c = 1 .. Len(f)
        /\ \A i \in 1 .. Len(f) : c[i] = v[f[i]]
    BY <1>1, <1>2, <1>3, <1>4, <1>5, <1>6 DEF IsMap, Records
  <1>8. Len(c) = Len(f) /\ ToSet(c) = Image(v, ToSet(f))
    BY <1>3, <1>7, ListOf
  <1>9. Image(v, ToSet(f)) = Listed(nodes, ToSet(f))
    BY <1>3, <1>4 DEF Listed, Image
  <1> QED
    BY <1>1, <1>3, <1>6, <1>8, <1>9

(* Both keys are known from the limit on.                                  *)
LEMMA EndsResolved ==
    ASSUME EndsInv, step \in Resolved
    PROVE  /\ Len(ends) = 2
           /\ ends[1] \in SnapshotKey /\ ends[2] \in SnapshotKey
           /\ stored[ends[1]] # Missing /\ stored[ends[2]] # Missing
  <1>1. ends \in Seq(SnapshotKey) /\ Len(ends) = 2
    BY DEF EndsInv
  <1>2. 1 \in 1 .. Len(ends) /\ 2 \in 1 .. Len(ends)
    BY <1>1
  <1> QED
    BY <1>1, <1>2, ElementOfSeq DEF EndsInv

(* What the result is, in terms of the rows.                               *)
LEMMA CompareFacts ==
    ASSUME WorldInv, EndsInv, RowsInv, Compare
    PROVE  \E f, t \in Generation, m \in Nat :
              /\ f \in Held(1) /\ t \in Held(2) /\ m = Limit
              /\ rows.from_nodes = ComparableNodes(ends[1], f)
              /\ rows.to_nodes = ComparableNodes(ends[2], t)
  <1>1. step = "compare"
    BY DEF Compare
  <1>2. Held(1) \subseteq Generation /\ Held(2) \subseteq Generation
    BY <1>1, EndsResolved DEF Held, WorldInv, Resolved
  <1>3. Limit \in Nat
    BY DiffAssumption DEF Limit, WorldInv
  <1> QED
    BY <1>1, <1>2, <1>3 DEF RowsInv, FromNodesRead, ToNodesRead

(* The comparison yields patches.                                          *)
LEMMA CompareStep ==
    ASSUME WorldInv, EndsInv, RowsInv, Compare
    PROVE  DiffIsPatch'
  <1>0. step = "compare"
    BY DEF Compare
  <1>1. /\ step = "compare" /\ ends' = ends /\ history' = history
        /\ Held(1)' = Held(1) /\ Held(2)' = Held(2)
    BY DEF Compare, world, Held
  <1>2. PICK f \in Generation, t \in Generation, m \in Nat :
              /\ f \in Held(1) /\ t \in Held(2) /\ m = Limit
              /\ rows.from_nodes = ComparableNodes(ends[1], f)
              /\ rows.to_nodes = ComparableNodes(ends[2], t)
    BY CompareFacts
  <1>3. PICK f2 \in Held(1) : rows.from_edges = EdgeKeysOf(f2)
    BY <1>1 DEF RowsInv, FromEdgesRead
  <1>4. PICK t2 \in Held(2) : rows.to_edges = EdgeKeysOf(t2)
    BY <1>1 DEF RowsInv, ToEdgesRead
  <1>5. f2 \in Generation /\ t2 \in Generation
    BY <1>0, <1>3, <1>4, EndsResolved DEF Held, WorldInv, Resolved
  <1>6. PICK old : old = rows.from_nodes
    OBVIOUS
  <1>7. PICK new : new = rows.to_nodes
    OBVIOUS
  <1> DEFINE A == DOMAIN new \ DOMAIN old
             D == DOMAIN old \ DOMAIN new
             C == {o \in DOMAIN new \intersect DOMAIN old : new[o] # old[o]}
             EA == EdgeKeysOf(t2) \ EdgeKeysOf(f2)
             ED == EdgeKeysOf(f2) \ EdgeKeysOf(t2)
  <1>8. /\ AddedNodes = A /\ RemovedNodes = D /\ ChangedNodes = C
        /\ rows.to_edges \ rows.from_edges = EA
        /\ rows.from_edges \ rows.to_edges = ED
    BY <1>3, <1>4, <1>6, <1>7 DEF AddedNodes, RemovedNodes, ChangedNodes
  <1>9. /\ diff'.added = [i \in 1 .. Len(FirstOf(Ascending(A), m)) |->
                             [object |-> Ascending(A)[i],
                              payload |-> new[Ascending(A)[i]]]]
        /\ diff'.removed = FirstOf(Ascending(D), m)
        /\ diff'.changed = [i \in 1 .. Len(FirstOf(Ascending(C), m)) |->
                               [object |-> Ascending(C)[i],
                                payload |-> new[Ascending(C)[i]]]]
        /\ diff'.added_edges = FirstOf(ByEdgeKey(EA), m)
        /\ diff'.removed_edges = FirstOf(ByEdgeKey(ED), m)
        /\ diff'.counts.added = Len(Ascending(A))
        /\ diff'.counts.removed = Len(Ascending(D))
        /\ diff'.counts.changed = Len(Ascending(C))
        /\ diff'.counts.added_edges = Len(ByEdgeKey(EA))
        /\ diff'.counts.removed_edges = Len(ByEdgeKey(ED))
    BY <1>2, <1>7, <1>8 DEF Compare
  <1>10. /\ DOMAIN old = DOMAIN f.look /\ DOMAIN new = DOMAIN t.look
         /\ IsMap(new)
    BY <1>2, <1>6, <1>7 DEF ComparableNodes, IsMap
  <1>11. /\ IsFiniteSet(A) /\ IsFiniteSet(D) /\ IsFiniteSet(C)
         /\ A \subseteq Nat /\ D \subseteq Nat /\ C \subseteq Nat
    <2>1. /\ IsFiniteSet(DOMAIN old) /\ IsFiniteSet(DOMAIN new)
          /\ DOMAIN old \subseteq Nat /\ DOMAIN new \subseteq Nat
      BY <1>10, GenerationFacts
    <2>2. A \subseteq DOMAIN new /\ D \subseteq DOMAIN old /\ C \subseteq DOMAIN new
      OBVIOUS
    <2> HIDE DEF A, D, C
    <2> QED
      BY <2>1, <2>2, FS_Subset
  <1>12. /\ IsFiniteSet(EA) /\ IsFiniteSet(ED)
         /\ EA \subseteq ToSet(EdgeTypes) \X Object \X Object
         /\ ED \subseteq ToSet(EdgeTypes) \X Object \X Object
    <2>1. /\ IsFiniteSet(EdgeKeysOf(f2)) /\ IsFiniteSet(EdgeKeysOf(t2))
          /\ EdgeKeysOf(f2) \subseteq ToSet(EdgeTypes) \X Object \X Object
          /\ EdgeKeysOf(t2) \subseteq ToSet(EdgeTypes) \X Object \X Object
      BY <1>5, GenerationFacts
    <2>2. EA \subseteq EdgeKeysOf(t2) /\ ED \subseteq EdgeKeysOf(f2)
      OBVIOUS
    <2> HIDE DEF EA, ED
    <2> QED
      BY <2>1, <2>2, FS_Subset
  <1>13. NodesPatch(f, t)'
    <2> HIDE DEF A, C, D, EA, ED
    <2>1. /\ Len(Ascending(A)) = Cardinality(A)
          /\ \E o \in SUBSET A : /\ ToSet(diff'.added) = Listed(new, o)
                                 /\ Len(diff'.added) = Cardinality(A) => o = A
      <3>1. PICK l : l = diff'.added
        OBVIOUS
      <3>2. l = Records(A, new, m)
        BY <1>9, <3>1 DEF Records
      <3> QED
        BY <1>11, <3>1, <3>2, CutRecords
    <2>2. /\ Len(Ascending(C)) = Cardinality(C)
          /\ \E o \in SUBSET C : /\ ToSet(diff'.changed) = Listed(new, o)
                                 /\ Len(diff'.changed) = Cardinality(C) => o = C
      <3>1. PICK l : l = diff'.changed
        OBVIOUS
      <3>2. l = Records(C, new, m)
        BY <1>9, <3>1 DEF Records
      <3> QED
        BY <1>11, <3>1, <3>2, CutRecords
    <2>3. /\ Len(Ascending(D)) = Cardinality(D)
          /\ ToSet(diff'.removed) \subseteq D
          /\ Len(diff'.removed) = Cardinality(D) => ToSet(diff'.removed) = D
      <3>1. PICK l : l = diff'.removed
        OBVIOUS
      <3>2. PICK s : s = Ascending(D)
        OBVIOUS
      <3>3. PICK order : IsSorting(s, D, order)
        BY <1>11, <3>2, KeySorts
      <3>4. l = FirstOf(s, m)
        BY <1>9, <3>1, <3>2
      <3> QED
        BY <1>11, <3>1, <3>2, <3>3, <3>4, CutList
    <2>4. PICK add \in SUBSET A :
              /\ ToSet(diff'.added) = Listed(new, add)
              /\ Len(diff'.added) = Cardinality(A) => add = A
      BY <2>1
    <2>5. PICK chg \in SUBSET C :
              /\ ToSet(diff'.changed) = Listed(new, chg)
              /\ Len(diff'.changed) = Cardinality(C) => chg = C
      BY <2>2
    <2>6. PICK AS : AS = ToSet(diff'.added)
      OBVIOUS
    <2>7. PICK CS : CS = ToSet(diff'.changed)
      OBVIOUS
    <2>8. PICK del : del = ToSet(diff'.removed)
      OBVIOUS
    <2> DEFINE altered == {o \in DOMAIN old \intersect DOMAIN new :
                              old[o] # new[o]}
               all == AllNodesListed'
    <2>9. C = altered
      BY DEF C
    <2>10. /\ \A r \in AS \union CS : /\ r.object \in DOMAIN new
                                      /\ r.payload = new[r.object]
           /\ ObjectsIn(AS) = add /\ ObjectsIn(CS) = chg
           /\ (/\ add = DOMAIN new \ DOMAIN old
               /\ del = DOMAIN old \ DOMAIN new
               /\ \A o \in DOMAIN old \intersect DOMAIN new :
                     old[o] # new[o] => o \in chg)
              => new = Patched(old, del, AS, CS)
      <3>1. add \subseteq DOMAIN new \ DOMAIN old
        BY DEF A
      <3>2. chg \subseteq DOMAIN new \intersect DOMAIN old
        BY DEF C
      <3>3. AS = Listed(new, add) /\ CS = Listed(new, chg)
        BY <2>4, <2>5, <2>6, <2>7
      <3> QED
        BY <1>10, <3>1, <3>2, <3>3, Rebuilt
    <2>11. all => /\ add = DOMAIN new \ DOMAIN old
                  /\ del = DOMAIN old \ DOMAIN new
                  /\ chg = altered
      BY <1>9, <2>1, <2>2, <2>3, <2>4, <2>5, <2>8, <2>9
      DEF AllNodesListed, A, D
    <2>12. /\ diff'.counts.added = Cardinality(DOMAIN new \ DOMAIN old)
           /\ diff'.counts.removed = Cardinality(DOMAIN old \ DOMAIN new)
           /\ diff'.counts.changed = Cardinality(altered)
      BY <1>9, <2>1, <2>2, <2>3, <2>9 DEF A, D
    <2>13. /\ ObjectsIn(AS) \subseteq DOMAIN new \ DOMAIN old
           /\ del \subseteq DOMAIN old \ DOMAIN new
           /\ ObjectsIn(CS) \subseteq altered
      BY <2>3, <2>8, <2>9, <2>10 DEF A, D
    <2>14. all => new = Patched(old, del, AS, CS)
      BY <2>10, <2>11
    <2>15. /\ ComparableNodes(ends[1], f)' = old
           /\ ComparableNodes(ends[2], t)' = new
      BY <1>1, <1>2, <1>6, <1>7 DEF ComparableNodes, ComparablePayload
    <2> QED
      BY <2>6, <2>7, <2>8, <2>10, <2>12, <2>13, <2>14, <2>15
      DEF NodesPatch
  <1>14. EdgesPatch(f2, t2)'
    <2>1. /\ Len(ByEdgeKey(EA)) = Cardinality(EA)
          /\ ToSet(diff'.added_edges) \subseteq EA
          /\ Len(diff'.added_edges) = Cardinality(EA) =>
                ToSet(diff'.added_edges) = EA
      <3> HIDE DEF A, C, D, EA, ED
      <3>1. PICK l : l = diff'.added_edges
        OBVIOUS
      <3>2. PICK s : s = ByEdgeKey(EA)
        OBVIOUS
      <3>3. PICK order : IsSorting(s, EA, order)
        BY <1>12, <3>2, EdgeSorts
      <3>4. l = FirstOf(s, m)
        BY <1>9, <3>1, <3>2
      <3> QED
        BY <1>12, <3>1, <3>2, <3>3, <3>4, CutList
    <2>2. /\ Len(ByEdgeKey(ED)) = Cardinality(ED)
          /\ ToSet(diff'.removed_edges) \subseteq ED
          /\ Len(diff'.removed_edges) = Cardinality(ED) =>
                ToSet(diff'.removed_edges) = ED
      <3> HIDE DEF A, C, D, EA, ED
      <3>1. PICK l : l = diff'.removed_edges
        OBVIOUS
      <3>2. PICK s : s = ByEdgeKey(ED)
        OBVIOUS
      <3>3. PICK order : IsSorting(s, ED, order)
        BY <1>12, <3>2, EdgeSorts
      <3>4. l = FirstOf(s, m)
        BY <1>9, <3>1, <3>2
      <3> QED
        BY <1>12, <3>1, <3>2, <3>3, <3>4, CutList
    <2>3. /\ diff'.counts.added_edges = Cardinality(EA)
          /\ diff'.counts.removed_edges = Cardinality(ED)
      <3> HIDE DEF A, C, D, EA, ED
      <3> QED
        BY <1>9, <2>1, <2>2
    <2>4. EdgeKeysOf(f2)' = EdgeKeysOf(f2) /\ EdgeKeysOf(t2)' = EdgeKeysOf(t2)
      BY DEF EdgeKeysOf
    <2> QED
      BY <2>1, <2>2, <2>3, <2>4 DEF EdgesPatch, AllEdgesListed
  <1> QED
    BY <1>1, <1>2, <1>3, <1>4, <1>13, <1>14 DEF DiffIsPatch

-----------------------------------------------------------------------------
(* One round of a traversal.                                               *)

(* The edges of the snapshot the seed is in.                               *)
Edges == stored[seed[1]].edges

LEMMA EdgesFacts ==
    ASSUME WorldInv, SeedsInv, step = "impact"
    PROVE  /\ IsFiniteSet(DOMAIN Edges) /\ DOMAIN Edges \subseteq Nat
           /\ \A e \in DOMAIN Edges :
                 Edges[e].from \in Object /\ Edges[e].to \in Object
  <1>1. seed[1] \in SnapshotKey /\ stored[seed[1]] # Missing
    BY DEF SeedsInv, Seed
  <1>2. stored[seed[1]] \in Generation
    BY <1>1 DEF WorldInv
  <1>3. PICK es : es = Edges
    OBVIOUS
  <1>4. PICK B : B = [type : ToSet(EdgeTypes), from : Object, to : Object]
    OBVIOUS
  <1>5. es \in Seq(B)
    BY <1>2, <1>3, <1>4, GenerationFacts DEF Edges
  <1>6. /\ Len(es) \in Nat /\ DOMAIN es = 1 .. Len(es)
        /\ \A e \in DOMAIN es : es[e] \in B
    BY <1>5
  <1>7. IsFiniteSet(1 .. Len(es)) /\ 1 .. Len(es) \subseteq Nat
    BY <1>6, FS_Interval
  <1>8. \A e \in DOMAIN es : es[e].from \in Object /\ es[e].to \in Object
    BY <1>4, <1>6
  <1> QED
    BY <1>3, <1>6, <1>7, <1>8

(* The instance's copies of library operators are the operators.           *)
LEMMA SameCount ==
    ASSUME NEW S PROVE T!Cardinality(S) = Cardinality(S)
  BY DEF T!Cardinality, Cardinality

LEMMA SameToSet ==
    ASSUME NEW s PROVE T!ToSet(s) = ToSet(s)
  BY DEF T!ToSet, ToSet

LEMMA SameSorted ==
    ASSUME NEW S, NEW R PROVE T!Sorted(S, R) = Sorted(S, R)
  BY DEF T!Sorted, Sorted, T!Cardinality, Cardinality

(* Members of a sorted and cut set of edges.                               *)
LEMMA RoundSorts ==
    ASSUME WorldInv, SeedsInv, step = "impact",
           NEW S, S \subseteq DOMAIN Edges, NEW m \in Nat
    PROVE  /\ IsFiniteSet(S)
           /\ \E R : IsSorting(T!ByPriority(S), S, R)
           /\ T!FirstOf(T!ByPriority(S), m) \in Seq(S)
           /\ Len(T!FirstOf(T!ByPriority(S), m)) <= m
           /\ ToSet(T!FirstOf(T!ByPriority(S), m)) \subseteq S
           /\ T!Ascending(S) \in Seq(S)
  <1> DEFINE R == {p \in S \X S : T!Before(p[1], p[2])}
  <1>1. S \subseteq Nat /\ IsFiniteSet(S)
    BY EdgesFacts, FS_Subset
  <1>2. \A e, f \in S : <<e, f>> \in R <=> T!Before(e, f)
    OBVIOUS
  <1>3. \A e : T!Priority(Edges[e].type) \in Nat
    BY DEF T!Priority
  <1>4. IsOrder(R, S)
    <2> HIDE DEF R
    <2>1. \A e \in S : <<e, e>> \notin R
      BY <1>1, <1>2, <1>3 DEF T!Before, Edges
    <2>2. \A e, f \in S : e # f => <<e, f>> \in R \/ <<f, e>> \in R
      BY <1>1, <1>2, <1>3 DEF T!Before, Edges
    <2>3. \A e, f, g \in S :
             <<e, f>> \in R /\ <<f, g>> \in R => <<e, g>> \in R
      BY <1>1, <1>2, <1>3 DEF T!Before, Edges
    <2> QED
      BY <2>1, <2>2, <2>3 DEF IsOrder
  <1>5. T!ByPriority(S) = Sorted(S, R)
    BY SameSorted DEF T!ByPriority
  <1>6. PICK s : s = T!ByPriority(S)
    OBVIOUS
  <1>7. IsSorting(s, S, R)
    BY <1>1, <1>4, <1>5, <1>6, SortedSorts
  <1>8. PICK f : f = FirstOf(s, m)
    OBVIOUS
  <1>9. T!FirstOf(s, m) = f
    BY <1>8 DEF T!FirstOf, FirstOf
  <1>10. f \in Seq(S) /\ Len(f) <= m /\ ToSet(f) \subseteq S
    <2> HIDE DEF R
    <2> QED
      BY <1>1, <1>7, <1>8, CutList
  <1>11. T!Ascending(S) = Ascending(S)
    BY SameSorted DEF T!Ascending, Ascending
  <1>12. Ascending(S) \in Seq(S)
    BY <1>1, KeySorts DEF IsSorting
  <1> QED
    BY <1>1, <1>6, <1>7, <1>9, <1>10, <1>11, <1>12

(* What one round fetches.                                                 *)
LEMMA RoundFetches ==
    ASSUME WorldInv, SeedsInv, step = "impact"
    PROVE  LET more == T!NextEdges
           IN  /\ more.edges \in Seq(DOMAIN Edges)
               /\ budget # NoBound => Len(more.edges) <= budget
               /\ more.has_more \in BOOLEAN
  <1>1. PICK n : n = T!Here
    OBVIOUS
  <1>2. T!Wanted(n, "outbound") \subseteq DOMAIN Edges
    BY DEF T!Wanted, T!Outbound, T!Inbound, Edges
  <1>3. T!Wanted(n, "inbound") \subseteq DOMAIN Edges
    BY DEF T!Wanted, T!Outbound, T!Inbound, Edges
  <1>4. PICK out : out = T!Wanted(n, "outbound")
    OBVIOUS
  <1>5. PICK inn : inn = T!Wanted(n, "inbound")
    OBVIOUS
  <1>6. CASE budget = NoBound
    <2>1. /\ T!Ascending(out) \in Seq(DOMAIN Edges)
          /\ T!Ascending(inn) \in Seq(DOMAIN Edges)
      <3>1. /\ T!Ascending(out) \in Seq(out)
            /\ T!Ascending(inn) \in Seq(inn)
        BY <1>2, <1>3, <1>4, <1>5, RoundSorts
      <3> QED
        BY <1>2, <1>3, <1>4, <1>5, <3>1
    <2>2. T!NextEdges = [edges |-> T!Ascending(out) \o T!Ascending(inn),
                         has_more |-> FALSE]
      BY <1>1, <1>4, <1>5, <1>6 DEF T!NextEdges, T!NextEdgesAll, T!EdgeBudget
    <2>3. T!Ascending(out) \o T!Ascending(inn) \in Seq(DOMAIN Edges)
      BY <2>1, ConcatProperties
    <2> QED
      BY <1>6, <2>2, <2>3
  <1>7. CASE budget # NoBound
    <2>1. budget \in Nat /\ budget + 1 \in Nat
      BY DEF SeedsInv
    <2>2. PICK a : a = T!EdgesLimited(n, "outbound", budget + 1)
      OBVIOUS
    <2>3. PICK b : b = T!EdgesLimited(n, "inbound", budget + 1)
      OBVIOUS
    <2>4. ToSet(a) \subseteq DOMAIN Edges /\ ToSet(b) \subseteq DOMAIN Edges
      <3>1. /\ a = T!FirstOf(T!ByPriority(out), budget + 1)
            /\ b = T!FirstOf(T!ByPriority(inn), budget + 1)
        BY <1>4, <1>5, <2>2, <2>3 DEF T!EdgesLimited
      <3>2. ToSet(a) \subseteq out /\ ToSet(b) \subseteq inn
        BY <1>2, <1>3, <1>4, <1>5, <2>1, <3>1, RoundSorts
      <3> QED
        BY <1>2, <1>3, <1>4, <1>5, <3>2
    <2>5. PICK S : S = ToSet(a) \union ToSet(b)
      OBVIOUS
    <2>6. S \subseteq DOMAIN Edges
      BY <2>4, <2>5
    <2>7. PICK f : f = T!FirstOf(T!ByPriority(S), budget)
      OBVIOUS
    <2>8. f \in Seq(S) /\ Len(f) <= budget
      BY <2>1, <2>6, <2>7, RoundSorts
    <2>9. f \in Seq(DOMAIN Edges)
      BY <2>6, <2>8
    <2>10. /\ T!NextEdges.edges = f
           /\ T!NextEdges.has_more \in BOOLEAN
      <3>1. T!NextEdges = T!NextEdgesBounded(n, budget)
        BY <1>1, <1>7 DEF T!NextEdges, T!EdgeBudget
      <3>2. T!ByPriority(T!ToSet(a) \union T!ToSet(b)) = T!ByPriority(S)
        BY <2>5, SameToSet
      <3>3. /\ T!NextEdgesBounded(n, budget).edges =
                  T!FirstOf(T!ByPriority(T!ToSet(a) \union T!ToSet(b)), budget)
            /\ T!NextEdgesBounded(n, budget).has_more \in BOOLEAN
        BY <2>2, <2>3 DEF T!NextEdgesBounded
      <3> QED
        BY <2>7, <3>1, <3>2, <3>3
    <2> QED
      BY <1>7, <2>8, <2>9, <2>10
  <1> QED
    BY <1>6, <1>7

(* What one round finds are paths.                                         *)
LEMMA RoundFinds ==
    ASSUME WorldInv, SeedsInv, step = "impact", T!Running,
           NEW es \in Seq(DOMAIN Edges)
    PROVE  T!Found(es) \in Seq(FoundPath)
  <1>1. PICK p : p = T!Path
    OBVIOUS
  <1>2. p \in FoundPath
    <2>1. queue \in Seq(FoundPath) /\ queue # <<>>
      BY DEF SeedsInv, T!Running
    <2> QED
      BY <1>1, <2>1 DEF T!Path
  <1>3. PICK N : N \subseteq 1 .. Len(es) /\ T!NewSteps(es) = T!Ascending(N)
    BY DEF T!NewSteps
  <1>4. Len(es) \in Nat /\ \A i \in 1 .. Len(es) : es[i] \in DOMAIN Edges
    OBVIOUS
  <1>5. N \subseteq Nat /\ IsFiniteSet(N)
    <2>1. IsFiniteSet(1 .. Len(es)) /\ 1 .. Len(es) \subseteq Nat
      BY <1>4, FS_Interval
    <2> QED
      BY <1>3, <2>1, FS_Subset
  <1>6. T!Ascending(N) = Ascending(N)
    BY SameSorted DEF T!Ascending, Ascending
  <1>7. PICK steps : steps = T!NewSteps(es)
    OBVIOUS
  <1>8. steps \in Seq(N)
    <2>1. PICK order : IsSorting(Ascending(N), N, order)
      BY <1>5, KeySorts
    <2> QED
      BY <1>3, <1>6, <1>7, <2>1 DEF IsSorting
  <1>9. /\ Len(steps) \in Nat
        /\ \A i \in 1 .. Len(steps) : es[steps[i]] \in DOMAIN Edges
    <2>1. /\ Len(steps) \in Nat
          /\ \A i \in 1 .. Len(steps) : steps[i] \in N
      BY <1>8
    <2> QED
      BY <1>3, <1>4, <2>1
  <1>10. ASSUME NEW e \in DOMAIN Edges PROVE T!Along(p, e) \in FoundPath
    <2>1. PICK n : n = T!NextKey(T!Last(p).node, e)
      OBVIOUS
    <2>2. n \in Object
      BY <2>1, EdgesFacts DEF T!NextKey, Edges
    <2>3. PICK h : h = [node |-> n, edge |-> e]
      OBVIOUS
    <2>4. h \in [node : Object, edge : Nat]
      BY <2>2, <2>3, EdgesFacts
    <2>5. T!Along(p, e) = Append(p, h)
      BY <2>1, <2>3 DEF T!Along
    <2>6. PICK H : H = [node : Object, edge : Nat]
      OBVIOUS
    <2>7. p \in Seq(H) /\ h \in H
      BY <1>2, <2>4, <2>6 DEF FoundPath
    <2>8. Append(p, h) \in Seq(H) /\ Len(Append(p, h)) > 0
      BY <2>7
    <2> QED
      BY <2>5, <2>6, <2>8 DEF FoundPath
  <1>11. T!Found(es) =
            [i \in 1 .. Len(steps) |-> T!Along(p, es[steps[i]])]
    BY <1>1, <1>7 DEF T!Found
  <1>12. PICK F : F = FoundPath
    OBVIOUS
  <1>13. \A i \in 1 .. Len(steps) : T!Along(p, es[steps[i]]) \in F
    BY <1>9, <1>10, <1>12
  <1>14. T!Found(es) \in Seq(F)
    BY <1>9, <1>11, <1>13
  <1> QED
    BY <1>12, <1>14

(* A round keeps the traversal's variables typed.                          *)
LEMMA TraverseTypes ==
    ASSUME WorldInv, SeedsInv, Traverse
    PROVE  /\ queue' \in Seq(FoundPath)
           /\ results' \in Seq(FoundPath)
           /\ budget' \in Nat
           /\ cut' \in BOOLEAN
  <1>1. step = "impact" /\ (T!Expand \/ T!SkipLastLevel)
    BY DEF Traverse
  <1>2. PICK F : F = FoundPath
    OBVIOUS
  <1>3. /\ queue \in Seq(F) /\ results \in Seq(F)
        /\ budget \in Nat /\ cut \in BOOLEAN
    BY <1>2 DEF SeedsInv
  <1>4. T!Running => Tail(queue) \in Seq(F)
    BY <1>3 DEF T!Running
  <1>5. CASE T!SkipLastLevel
    BY <1>2, <1>3, <1>4, <1>5 DEF T!SkipLastLevel
  <1>6. CASE T!Expand
    <2>1. T!Running
      BY <1>6 DEF T!Expand
    <2>2. PICK es : es = T!NextEdges.edges
      OBVIOUS
    <2>3. PICK found : found = T!Found(es)
      OBVIOUS
    <2>4. /\ es \in Seq(DOMAIN Edges)
          /\ budget # NoBound => Len(es) <= budget
          /\ T!NextEdges.has_more \in BOOLEAN
      BY <1>1, <2>2, RoundFetches
    <2>5. found \in Seq(F)
      BY <1>1, <1>2, <2>1, <2>3, <2>4, RoundFinds
    <2>6. /\ results' = results \o found
          /\ queue' = Tail(queue) \o T!Queued(found)
          /\ budget' = T!BudgetAfter(Len(es))
          /\ cut' = (cut \/ T!NextEdges.has_more)
      BY <1>6, <2>2, <2>3 DEF T!Expand
    <2>7. T!Queued(found) = found
      BY DEF T!Queued
    <2>8. results' \in Seq(F) /\ queue' \in Seq(F)
      BY <1>3, <1>4, <2>1, <2>5, <2>6, <2>7, ConcatProperties
    <2>9. budget' \in Nat
      BY <1>3, <2>4, <2>6 DEF T!BudgetAfter
    <2> QED
      BY <1>2, <1>3, <2>4, <2>6, <2>8, <2>9
  <1> QED
    BY <1>1, <1>5, <1>6

-----------------------------------------------------------------------------
(* What the steps keep.                                                    *)

Compared == {"seed", "impact", "done"}

(* A step that leaves the result alone leaves it a patch.                  *)
LEMMA PatchKept ==
    ASSUME DiffIsPatch, diff' = diff, ends' = ends,
           step' \in Compared => step \in Compared,
           step \in Compared => Held(1) \subseteq Held(1)',
           step \in Compared => Held(2) \subseteq Held(2)'
    PROVE  DiffIsPatch'
  <1> SUFFICES ASSUME step' \in Compared
               PROVE  /\ (\E f \in Held(1), t \in Held(2) : NodesPatch(f, t))'
                      /\ (\E f \in Held(1), t \in Held(2) : EdgesPatch(f, t))'
    BY DEF DiffIsPatch, Compared
  <1>1. /\ \E f \in Held(1), t \in Held(2) : NodesPatch(f, t)
        /\ \E f \in Held(1), t \in Held(2) : EdgesPatch(f, t)
    BY DEF DiffIsPatch, Compared
  <1>2. ASSUME NEW f, NEW t
        PROVE  /\ NodesPatch(f, t) => NodesPatch(f, t)'
               /\ EdgesPatch(f, t) => EdgesPatch(f, t)'
    <2>1. NodesPatch(f, t)' = NodesPatch(f, t)
      BY DEF NodesPatch, AllNodesListed, Patched, ObjectsIn,
             ComparableNodes, ComparablePayload
    <2>2. EdgesPatch(f, t)' = EdgesPatch(f, t)
      BY DEF EdgesPatch, AllEdgesListed, EdgeKeysOf
    <2> QED
      BY <2>1, <2>2
  <1>3. Held(1) \subseteq Held(1)' /\ Held(2) \subseteq Held(2)'
    OBVIOUS
  <1>4. (\E f \in Held(1), t \in Held(2) : NodesPatch(f, t))'
    BY <1>1, <1>2, <1>3
  <1>5. (\E f \in Held(1), t \in Held(2) : EdgesPatch(f, t))'
    BY <1>1, <1>2, <1>3
  <1> QED
    BY <1>4, <1>5

(* At the start.                                                           *)
LEMMA InitHolds ==
    ASSUME DiffInit
    PROVE  DiffIInv
  <1>1. ask.limit \in Nat
    BY DiffAssumption DEF DiffInit
  <1>2. WorldInv
    BY <1>1 DEF DiffInit, WorldInv
  <1>3. EndsInv
    BY DEF DiffInit, EndsInv, Steps, Resolved
  <1>4. RowsInv
    <2>1. <<>> \in NodeRows /\ {} \in EdgeRows
      BY DEF NodeRows, EdgeRows
    <2> QED
      BY <2>1 DEF DiffInit, RowsInv, NoRows, FromNodesRead, ToNodesRead,
                  FromEdgesRead, ToEdgesRead
  <1>5. SeedsInv
    <2>1. Limit \in Nat
      BY <1>1, DiffAssumption DEF Limit
    <2>2. /\ step = "resolve_from" /\ seeds = <<>> /\ remaining = 0
          /\ queue = <<>> /\ results = <<>> /\ impacts = <<>>
          /\ budget = 0 /\ cut = FALSE /\ truncated = FALSE
      BY DEF DiffInit
    <2>3. \A X : <<>> \in Seq(X)
      OBVIOUS
    <2>4. Len(seeds) = 0
      BY <2>2
    <2>5. \A i \in 1 .. Len(seeds) : stored[seeds[i][1]] # Missing
      BY <2>4
    <2>6. step # "impact" /\ cut \in BOOLEAN /\ truncated \in BOOLEAN
      BY <2>2
    <2>7. PICK n \in Nat : n = Limit
      BY <2>1
    <2>8. remaining \in 0 .. n /\ budget \in Nat
      BY <2>2
    <2>9. /\ seeds \in Seq(Seed) /\ queue \in Seq(FoundPath)
          /\ results \in Seq(FoundPath)
          /\ impacts \in Seq(Impact)
      BY <2>2, <2>3
    <2> QED
      BY <2>5, <2>6, <2>7, <2>8, <2>9 DEF SeedsInv
  <1>6. DiffIsPatch
    BY DEF DiffInit, DiffIsPatch
  <1> QED
    BY <1>2, <1>3, <1>4, <1>5, <1>6 DEF DiffIInv

(* A step of the diff itself leaves the store alone.                       *)
LEMMA WorldKept ==
    ASSUME WorldInv, UNCHANGED world
    PROVE  /\ WorldInv'
           /\ Limit' = Limit /\ Limit \in Nat
           /\ ends' = ends => Held(1)' = Held(1) /\ Held(2)' = Held(2)
  <1>1. /\ stored' = stored /\ history' = history /\ ask' = ask
    BY DEF world
  <1>2. Limit \in Nat
    BY DiffAssumption DEF WorldInv, Limit
  <1> QED
    BY <1>1, <1>2 DEF WorldInv, Limit, Held

(* Rows that were read, while ends and rows stay.                          *)
LEMMA RowsKept ==
    ASSUME RowsInv, rows' = rows, ends' = ends,
           step' \in FromNodesRead => step \in FromNodesRead,
           step' \in ToNodesRead => step \in ToNodesRead,
           step' \in FromEdgesRead => step \in FromEdgesRead,
           step' \in ToEdgesRead => step \in ToEdgesRead,
           step \in FromNodesRead => Held(1) \subseteq Held(1)',
           step \in FromNodesRead => Held(2) \subseteq Held(2)'
    PROVE  RowsInv'
  <1>1. /\ NodeRows' = NodeRows /\ EdgeRows' = EdgeRows
        /\ \A k, g : ComparableNodes(k, g)' = ComparableNodes(k, g)
        /\ \A g : EdgeKeysOf(g)' = EdgeKeysOf(g)
    BY DEF NodeRows, EdgeRows, ComparableNodes, ComparablePayload, EdgeKeysOf
  <1>2. /\ ToNodesRead \subseteq FromNodesRead
        /\ FromEdgesRead \subseteq FromNodesRead
        /\ ToEdgesRead \subseteq FromNodesRead
    BY DEF FromNodesRead, ToNodesRead, FromEdgesRead, ToEdgesRead
  <1> QED
    BY <1>1, <1>2 DEF RowsInv

(* An index run.                                                           *)
LEMMA ReindexKeeps ==
    ASSUME DiffIInv, NEW k \in SnapshotKey, NEW g \in Generations[k],
           Reindex(k, g)
    PROVE  DiffIInv'
  <1> USE DEF DiffIInv
  <1>1. g \in Generation /\ g # Missing
    BY DiffAssumption DEF Generation
  <1>2. /\ stored' = [stored EXCEPT ![k] = g]
        /\ history' = [history EXCEPT ![k] = @ \union {g}]
        /\ ask' = ask /\ step' = step /\ ends' = ends /\ rows' = rows
        /\ diff' = diff /\ seeds' = seeds /\ seed' = seed
        /\ remaining' = remaining /\ queue' = queue /\ results' = results
        /\ budget' = budget /\ cut' = cut /\ impacts' = impacts
        /\ truncated' = truncated
    BY DEF Reindex, traversal
  <1>3. WorldInv'
    BY <1>1, <1>2 DEF WorldInv
  <1>4. \A j \in SnapshotKey : /\ history[j] \subseteq history'[j]
                                /\ stored[j] # Missing => stored'[j] # Missing
    BY <1>1, <1>2 DEF WorldInv
  <1>5. EndsInv'
    <2>1. \A i \in 1 .. Len(ends) : ends[i] \in SnapshotKey
      BY DEF EndsInv
    <2> QED
      BY <1>2, <1>4, <2>1 DEF EndsInv
  <1>6. step \in Resolved =>
            Held(1) \subseteq Held(1)' /\ Held(2) \subseteq Held(2)'
    BY <1>2, <1>4, EndsResolved DEF Held
  <1>7. RowsInv'
    BY <1>2, <1>6, RowsKept DEF FromNodesRead, Resolved
  <1>8. SeedsInv'
    <2>1. \A i \in 1 .. Len(seeds) : seeds[i][1] \in SnapshotKey
      <3>1. \A i \in 1 .. Len(seeds) : seeds[i] \in Seed
        BY DEF SeedsInv
      <3> QED
        BY <3>1 DEF Seed
    <2>2. step = "impact" => seed[1] \in SnapshotKey
      BY DEF SeedsInv, Seed
    <2>3. Limit' = Limit
      BY <1>2 DEF Limit
    <2> QED
      BY <1>2, <1>4, <2>1, <2>2, <2>3 DEF SeedsInv
  <1>9. DiffIsPatch'
    BY <1>2, <1>6, PatchKept DEF Resolved, Compared
  <1> QED
    BY <1>3, <1>5, <1>7, <1>8, <1>9

(* The keys are resolved.                                                  *)
LEMMA ResolveKeeps ==
    ASSUME DiffIInv, ResolveFrom \/ ResolveTo
    PROVE  DiffIInv'
  <1> USE DEF DiffIInv
  <1>1. PICK before, selector, after :
            /\ \/ before = "resolve_from" /\ after = "resolve_to"
               \/ before = "resolve_to" /\ after = "limit"
            /\ Resolve(before, selector, after)
    BY DEF ResolveFrom, ResolveTo
  <1>2. /\ step = before /\ UNCHANGED world
        /\ rows' = rows /\ diff' = diff /\ seeds' = seeds /\ seed' = seed
        /\ remaining' = remaining /\ queue' = queue /\ results' = results
        /\ budget' = budget /\ cut' = cut /\ impacts' = impacts
        /\ truncated' = truncated
    BY <1>1 DEF Resolve, traversal
  <1>3. \/ ends' = ends /\ step' \in {"not_found", "ambiguous"}
        \/ \E k \in SnapshotKey : /\ stored[k] # Missing
                                  /\ ends' = Append(ends, k)
                                  /\ step' = after
    <2>1. \A k \in Matches(selector) :
              k \in SnapshotKey /\ stored[k] # Missing
      BY DEF Matches
    <2> QED
      BY <1>1, <2>1 DEF Resolve
  <1>4. WorldInv' /\ Limit' = Limit
    BY <1>2, WorldKept
  <1>5. EndsInv'
    <2>1. CASE ends' = ends /\ step' \in {"not_found", "ambiguous"}
      BY <1>2, <2>1 DEF EndsInv, Steps, Resolved, world
    <2>2. CASE \E k \in SnapshotKey : /\ stored[k] # Missing
                                      /\ ends' = Append(ends, k)
                                      /\ step' = after
      <3>1. PICK k \in SnapshotKey : /\ stored[k] # Missing
                                     /\ ends' = Append(ends, k)
                                     /\ step' = after
        BY <2>2
      <3>2. /\ ends' \in Seq(SnapshotKey) /\ Len(ends') = Len(ends) + 1
            /\ \A i \in 1 .. Len(ends) : ends'[i] = ends[i]
            /\ ends'[Len(ends) + 1] = k
            /\ Len(ends) \in Nat
        BY <3>1 DEF EndsInv
      <3>3. \A i \in 1 .. Len(ends') : stored'[ends'[i]] # Missing
        BY <1>2, <3>1, <3>2 DEF EndsInv, world
      <3> QED
        BY <1>1, <1>2, <3>1, <3>2, <3>3 DEF EndsInv, Steps, Resolved
    <2> QED
      BY <1>3, <2>1, <2>2
  <1>6. RowsInv'
    <2>1. step' \notin FromNodesRead
      BY <1>1, <1>3 DEF FromNodesRead
    <2>2. NodeRows' = NodeRows /\ EdgeRows' = EdgeRows
      BY DEF NodeRows, EdgeRows, ComparableNodes, ComparablePayload, EdgeKeysOf
    <2> QED
      BY <1>2, <2>1, <2>2 DEF RowsInv, FromNodesRead, ToNodesRead,
                              FromEdgesRead, ToEdgesRead
  <1>7. SeedsInv'
    <2>1. step' # "impact"
      BY <1>1, <1>3
    <2> QED
      BY <1>2, <1>4, <2>1 DEF SeedsInv, world
  <1>8. DiffIsPatch'
    BY <1>1, <1>3 DEF DiffIsPatch
  <1> QED
    BY <1>4, <1>5, <1>6, <1>7, <1>8

(* A limit of zero is refused.                                             *)
LEMMA RefuseKeeps ==
    ASSUME DiffIInv, RefuseResultLimit
    PROVE  DiffIInv'
  <1> USE DEF DiffIInv
  <1>1. /\ step = "limit" /\ step' = "refused" /\ UNCHANGED world
        /\ ends' = ends /\ rows' = rows /\ diff' = diff /\ seeds' = seeds
        /\ seed' = seed /\ remaining' = remaining /\ queue' = queue
        /\ results' = results /\ budget' = budget /\ cut' = cut
        /\ impacts' = impacts /\ truncated' = truncated
    BY DEF RefuseResultLimit, traversal
  <1>2. WorldInv' /\ Limit' = Limit
    BY <1>1, WorldKept
  <1>3. EndsInv'
    BY <1>1 DEF EndsInv, Steps, Resolved, world
  <1>4. RowsInv'
    BY <1>1, RowsKept DEF FromNodesRead, ToNodesRead, FromEdgesRead,
                          ToEdgesRead
  <1>5. SeedsInv'
    BY <1>1, <1>2 DEF SeedsInv, world
  <1>6. DiffIsPatch'
    BY <1>1 DEF DiffIsPatch
  <1> QED
    BY <1>2, <1>3, <1>4, <1>5, <1>6

(* The reads.                                                              *)
LEMMA ReadRowsKeeps ==
    ASSUME DiffIInv, ReadRows
    PROVE  DiffIInv'
  <1> USE DEF DiffIInv
  <1>1. /\ UNCHANGED world
        /\ ends' = ends /\ diff' = diff /\ seeds' = seeds
        /\ seed' = seed /\ remaining' = remaining /\ queue' = queue
        /\ results' = results /\ budget' = budget /\ cut' = cut
        /\ impacts' = impacts /\ truncated' = truncated
    BY DEF ReadRows, traversal
  <1>2. /\ step \in {"limit", "to_nodes", "from_edges", "to_edges"}
        /\ step' \in {"to_nodes", "from_edges", "to_edges", "compare"}
    BY DEF ReadRows
  <1>3. /\ WorldInv' /\ Limit' = Limit
        /\ Held(1)' = Held(1) /\ Held(2)' = Held(2)
    BY <1>1, WorldKept
  <1>4. EndsInv'
    BY <1>1, <1>2 DEF EndsInv, Steps, Resolved, world
  <1>5. PICK a \in Generation, b \in Generation :
            /\ a = stored[ends[1]] /\ b = stored[ends[2]]
            /\ a \in Held(1) /\ b \in Held(2)
            /\ ends[1] \in SnapshotKey /\ ends[2] \in SnapshotKey
    BY <1>2, EndsResolved DEF WorldInv, Held, Resolved
  <1>6. PICK k \in SnapshotKey, l \in SnapshotKey :
            k = ends[1] /\ l = ends[2]
    BY <1>5
  <1>7. PICK an : an = ComparableNodes(k, a)
    OBVIOUS
  <1>8. PICK bn : bn = ComparableNodes(l, b)
    OBVIOUS
  <1>9. PICK ae : ae = EdgeKeysOf(a)
    OBVIOUS
  <1>10. PICK be : be = EdgeKeysOf(b)
    OBVIOUS
  <1>11. /\ an \in NodeRows /\ bn \in NodeRows
         /\ ae \in EdgeRows /\ be \in EdgeRows
    BY <1>7, <1>8, <1>9, <1>10 DEF NodeRows, EdgeRows
  <1>12. \/ /\ step = "limit" /\ step' = "to_nodes"
            /\ rows' = [rows EXCEPT !.from_nodes = an]
         \/ /\ step = "to_nodes" /\ step' = "from_edges"
            /\ rows' = [rows EXCEPT !.to_nodes = bn]
         \/ /\ step = "from_edges" /\ step' = "to_edges"
            /\ rows' = [rows EXCEPT !.from_edges = ae]
         \/ /\ step = "to_edges" /\ step' = "compare"
            /\ rows' = [rows EXCEPT !.to_edges = be]
    BY <1>5, <1>6, <1>7, <1>8, <1>9, <1>10 DEF ReadRows, SnapshotNodes
  <1>13. /\ NodeRows' = NodeRows /\ EdgeRows' = EdgeRows
         /\ \A j, g : ComparableNodes(j, g)' = ComparableNodes(j, g)
         /\ \A g : EdgeKeysOf(g)' = EdgeKeysOf(g)
    BY DEF NodeRows, EdgeRows, ComparableNodes, ComparablePayload, EdgeKeysOf
  <1>14. RowsInv'
    <2>1. rows \in [from_nodes : NodeRows, to_nodes : NodeRows,
                    from_edges : EdgeRows, to_edges : EdgeRows]
      BY DEF RowsInv
    <2>2. rows' \in [from_nodes : NodeRows, to_nodes : NodeRows,
                     from_edges : EdgeRows, to_edges : EdgeRows]
      BY <1>11, <1>12, <2>1
    <2>3. step' \in FromNodesRead =>
              \E g \in Held(1) : rows'.from_nodes = ComparableNodes(ends[1], g)
      BY <1>5, <1>6, <1>7, <1>12, <2>1 DEF RowsInv, FromNodesRead
    <2>4. step' \in ToNodesRead =>
              \E g \in Held(2) : rows'.to_nodes = ComparableNodes(ends[2], g)
      BY <1>5, <1>6, <1>8, <1>12, <2>1 DEF RowsInv, ToNodesRead
    <2>5. step' \in FromEdgesRead =>
              \E g \in Held(1) : rows'.from_edges = EdgeKeysOf(g)
      BY <1>5, <1>9, <1>12, <2>1 DEF RowsInv, FromEdgesRead
    <2>6. step' \in ToEdgesRead =>
              \E g \in Held(2) : rows'.to_edges = EdgeKeysOf(g)
      BY <1>5, <1>10, <1>12, <2>1 DEF RowsInv, ToEdgesRead
    <2> QED
      BY <1>1, <1>3, <1>13, <2>2, <2>3, <2>4, <2>5, <2>6 DEF RowsInv
  <1>15. SeedsInv'
    BY <1>1, <1>2, <1>3 DEF SeedsInv, world
  <1>16. DiffIsPatch'
    BY <1>2 DEF DiffIsPatch
  <1> QED
    BY <1>3, <1>4, <1>14, <1>15, <1>16

(* The comparison: its seeds are in one of the two snapshots.              *)
LEMMA CompareKeeps ==
    ASSUME DiffIInv, Compare
    PROVE  DiffIInv'
  <1> USE DEF DiffIInv
  <1>1. /\ step = "compare" /\ step' = "seed" /\ UNCHANGED world
        /\ ends' = ends /\ rows' = rows /\ queue' = queue
        /\ results' = results /\ budget' = budget /\ cut' = cut
        /\ impacts' = impacts
        /\ truncated' \in BOOLEAN /\ remaining' = Limit
        /\ seeds' = FirstOf(BySeed(ChangedImpactSeeds), Limit)
    BY DEF Compare, traversal
  <1>2. /\ WorldInv' /\ Limit' = Limit /\ Limit \in Nat
        /\ Held(1)' = Held(1) /\ Held(2)' = Held(2)
    BY <1>1, WorldKept
  <1>3. EndsInv'
    BY <1>1 DEF EndsInv, Steps, Resolved, world
  <1>4. RowsInv'
    BY <1>1, <1>2, RowsKept DEF FromNodesRead, ToNodesRead, FromEdgesRead,
                          ToEdgesRead
  <1>5. /\ ends[1] \in SnapshotKey /\ ends[2] \in SnapshotKey
        /\ stored[ends[1]] # Missing /\ stored[ends[2]] # Missing
    BY <1>1, EndsResolved DEF Resolved
  <1>6. PICK f \in Generation, t \in Generation, m \in Nat :
              /\ f \in Held(1) /\ t \in Held(2) /\ m = Limit
              /\ rows.from_nodes = ComparableNodes(ends[1], f)
              /\ rows.to_nodes = ComparableNodes(ends[2], t)
    BY CompareFacts
  <1>7. PICK X : X = AddedNodes \union ChangedNodes
    OBVIOUS
  <1>8. PICK Y : Y = RemovedNodes
    OBVIOUS
  <1>9. /\ X \subseteq Object /\ IsFiniteSet(X)
        /\ Y \subseteq Object /\ IsFiniteSet(Y)
    <2>1. /\ DOMAIN rows.from_nodes = DOMAIN f.look
          /\ DOMAIN rows.to_nodes = DOMAIN t.look
      BY <1>6 DEF ComparableNodes
    <2>2. X \subseteq DOMAIN t.look /\ Y \subseteq DOMAIN f.look
      BY <1>7, <1>8, <2>1 DEF AddedNodes, ChangedNodes, RemovedNodes
    <2>3. /\ DOMAIN f.look \subseteq Object /\ IsFiniteSet(DOMAIN f.look)
          /\ DOMAIN t.look \subseteq Object /\ IsFiniteSet(DOMAIN t.look)
      BY GenerationFacts
    <2> QED
      BY <2>2, <2>3, FS_Subset
  <1>10. PICK k \in SnapshotKey, l \in SnapshotKey :
             k = ends[1] /\ l = ends[2]
    BY <1>5
  <1>11. PICK S : S = ({l} \X X) \union ({k} \X Y)
    OBVIOUS
  <1>12. ChangedImpactSeeds = S
    BY <1>7, <1>8, <1>10, <1>11 DEF ChangedImpactSeeds
  <1>13. IsFiniteSet(S)
    BY <1>9, <1>11, FS_Product, FS_Union, FS_Singleton
  <1>14. S \subseteq Seed
    BY <1>9, <1>11 DEF Seed
  <1>15. \A x \in S : stored[x[1]] # Missing
    BY <1>5, <1>10, <1>11
  <1>16. PICK s : s = BySeed(S)
    OBVIOUS
  <1>17. PICK order : IsSorting(s, S, order)
    BY <1>13, <1>14, <1>16, SeedSorts
  <1>18. PICK c : c = FirstOf(s, m)
    OBVIOUS
  <1>19. c \in Seq(S)
    BY <1>13, <1>17, <1>18, CutList
  <1>20. seeds' = c
    BY <1>1, <1>6, <1>12, <1>16, <1>18
  <1>21. c \in Seq(Seed) /\ \A i \in 1 .. Len(c) : stored[c[i][1]] # Missing
    BY <1>14, <1>15, <1>19
  <1>22. SeedsInv'
    BY <1>1, <1>2, <1>20, <1>21 DEF SeedsInv, world
  <1>23. DiffIsPatch'
    BY CompareStep
  <1> QED
    BY <1>2, <1>3, <1>4, <1>22, <1>23

(* Taking the first of a list, and joining two.                           *)
LEMMA HeadAndTail ==
    ASSUME NEW S, NEW s \in Seq(S), s # <<>>
    PROVE  /\ Head(s) \in S /\ Head(s) \in ToSet(s)
           /\ Tail(s) \in Seq(S)
           /\ ToSet(s) = {Head(s)} \union ToSet(Tail(s))
  <1>1. /\ Len(s) \in Nat /\ Len(s) > 0
        /\ Head(s) = s[1] /\ Head(s) \in S
        /\ Tail(s) \in Seq(S)
        /\ \A i \in 1 .. Len(s) - 1 : Tail(s)[i] = s[i + 1]
        /\ DOMAIN s = 1 .. Len(s)
        /\ DOMAIN Tail(s) = 1 .. Len(s) - 1
    OBVIOUS
  <1>2. ASSUME NEW x \in ToSet(s), x # Head(s)
        PROVE  x \in ToSet(Tail(s))
    <2>1. PICK i \in 1 .. Len(s) : x = s[i]
      BY <1>1 DEF ToSet
    <2>2. i # 1 /\ i - 1 \in 1 .. Len(s) - 1 /\ (i - 1) + 1 = i
      BY <1>1, <1>2, <2>1
    <2>3. x = Tail(s)[i - 1]
      BY <1>1, <2>1, <2>2
    <2> QED
      BY <1>1, <2>2, <2>3 DEF ToSet
  <1>3. ASSUME NEW x \in ToSet(Tail(s)) PROVE x \in ToSet(s)
    <2>1. PICK i \in 1 .. Len(s) - 1 : x = Tail(s)[i]
      BY <1>1 DEF ToSet
    <2>2. i + 1 \in 1 .. Len(s) /\ x = s[i + 1]
      BY <1>1, <2>1
    <2> QED
      BY <1>1, <2>2 DEF ToSet
  <1>4. Head(s) \in ToSet(s)
    BY <1>1 DEF ToSet
  <1> QED
    BY <1>1, <1>2, <1>3, <1>4

LEMMA JoinedLists ==
    ASSUME NEW S, NEW s \in Seq(S), NEW t \in Seq(S)
    PROVE  /\ s \o t \in Seq(S) /\ Len(s \o t) = Len(s) + Len(t)
           /\ ToSet(s \o t) = ToSet(s) \union ToSet(t)
  <1>1. PICK j : j = s \o t
    OBVIOUS
  <1>2. PICK m \in Nat, n \in Nat : m = Len(s) /\ n = Len(t)
    OBVIOUS
  <1>3. /\ j \in Seq(S) /\ Len(j) = m + n /\ DOMAIN j = 1 .. m + n
        /\ DOMAIN s = 1 .. m /\ DOMAIN t = 1 .. n
        /\ \A i \in 1 .. m + n : j[i] = IF i <= m THEN s[i] ELSE t[i - m]
    BY <1>1, <1>2, ConcatProperties
  <1>4. ASSUME NEW x \in ToSet(j) PROVE x \in ToSet(s) \union ToSet(t)
    <2>1. PICK i \in 1 .. m + n : x = j[i]
      BY <1>3 DEF ToSet
    <2>2. CASE i <= m
      <3>1. i \in 1 .. m /\ x = s[i]
        BY <1>3, <2>1, <2>2
      <3> QED
        BY <1>3, <3>1 DEF ToSet
    <2>3. CASE ~(i <= m)
      <3>1. i - m \in 1 .. n /\ x = t[i - m]
        BY <1>3, <2>1, <2>3
      <3> QED
        BY <1>3, <3>1 DEF ToSet
    <2> QED
      BY <2>2, <2>3
  <1>5. ASSUME NEW x \in ToSet(s) PROVE x \in ToSet(j)
    <2>1. PICK i \in 1 .. m : x = s[i]
      BY <1>3 DEF ToSet
    <2>2. i \in 1 .. m + n /\ x = j[i]
      BY <1>3, <2>1
    <2> QED
      BY <1>3, <2>2 DEF ToSet
  <1>6. ASSUME NEW x \in ToSet(t) PROVE x \in ToSet(j)
    <2>1. PICK i \in 1 .. n : x = t[i]
      BY <1>3 DEF ToSet
    <2>2. i + m \in 1 .. m + n /\ ~(i + m <= m) /\ (i + m) - m = i
      BY <1>2
    <2>3. x = j[i + m]
      BY <1>3, <2>1, <2>2
    <2> QED
      BY <1>3, <2>2, <2>3 DEF ToSet
  <1> QED
    BY <1>1, <1>2, <1>3, <1>4, <1>5, <1>6

(* A seed's analysis begins.                                               *)
LEMMA StartSeedKeeps ==
    ASSUME DiffIInv, StartSeed
    PROVE  DiffIInv'
  <1> USE DEF DiffIInv
  <1>1. /\ step = "seed" /\ step' = "impact" /\ seeds # <<>>
        /\ UNCHANGED world
        /\ ends' = ends /\ rows' = rows /\ diff' = diff
        /\ remaining' = remaining /\ impacts' = impacts
        /\ truncated' = truncated
        /\ seed' = Head(seeds) /\ seeds' = Tail(seeds)
        /\ results' = <<>> /\ budget' = remaining /\ cut' = FALSE
    BY DEF StartSeed
  <1>2. /\ WorldInv' /\ Limit' = Limit /\ Limit \in Nat
        /\ Held(1)' = Held(1) /\ Held(2)' = Held(2)
    BY <1>1, WorldKept
  <1>3. EndsInv'
    BY <1>1 DEF EndsInv, Steps, Resolved, world
  <1>4. RowsInv'
    BY <1>1, <1>2, RowsKept DEF FromNodesRead, ToNodesRead, FromEdgesRead,
                          ToEdgesRead
  <1>5. SeedsInv'
    <2>1. /\ seeds \in Seq(Seed) /\ Len(seeds) \in Nat /\ Len(seeds) > 0
          /\ \A i \in 1 .. Len(seeds) : stored[seeds[i][1]] # Missing
      BY <1>1 DEF SeedsInv
    <2>2. /\ Head(seeds) = seeds[1] /\ 1 \in 1 .. Len(seeds)
          /\ Head(seeds) \in Seed
          /\ Tail(seeds) \in Seq(Seed) /\ Len(Tail(seeds)) = Len(seeds) - 1
          /\ \A i \in 1 .. Len(seeds) - 1 :
                 Tail(seeds)[i] = seeds[i + 1] /\ i + 1 \in 1 .. Len(seeds)
      BY <1>1, <2>1
    <2>3. \A i \in 1 .. Len(Tail(seeds)) : stored[Tail(seeds)[i][1]] # Missing
      BY <2>1, <2>2
    <2>4. stored[Head(seeds)[1]] # Missing
      BY <2>1, <2>2
    <2>5. PICK o \in Object : o = Head(seeds)[2]
      BY <2>2 DEF Seed
    <2>6. queue' \in Seq(FoundPath)
      <3>1. PICK h : h = [node |-> o, edge |-> 0]
        OBVIOUS
      <3>2. PICK H : H = [node : Object, edge : Nat]
        OBVIOUS
      <3>3. h \in H
        BY <3>1, <3>2
      <3>4. <<h>> \in Seq(H) /\ Len(<<h>>) > 0
        BY <3>3
      <3>5. <<h>> \in FoundPath
        BY <3>2, <3>4 DEF FoundPath
      <3>6. PICK F : F = FoundPath
        OBVIOUS
      <3>7. \E q \in F : queue' = <<q>> \/ queue' = <<>>
        BY <2>5, <3>1, <3>5, <3>6 DEF StartSeed
      <3>8. queue' \in Seq(F)
        <4>1. PICK q \in F : queue' = <<q>> \/ queue' = <<>>
          BY <3>7
        <4>2. <<q>> \in Seq(F) /\ <<>> \in Seq(F)
          OBVIOUS
        <4> QED
          BY <4>1, <4>2
      <3> QED
        BY <3>6, <3>8
    <2>7. results' \in Seq(FoundPath)
      <3>1. \A X : <<>> \in Seq(X)
        OBVIOUS
      <3> QED
        BY <1>1, <3>1
    <2>8. remaining \in 0 .. Limit /\ remaining \in Nat
      BY <1>2 DEF SeedsInv
    <2>9. /\ impacts \in Seq(Impact)
          /\ truncated \in BOOLEAN
      BY DEF SeedsInv
    <2> QED
      BY <1>1, <1>2, <2>2, <2>3, <2>4, <2>6, <2>7, <2>8, <2>9
      DEF SeedsInv, world
  <1>6. DiffIsPatch'
    BY <1>1, <1>2, PatchKept DEF Compared
  <1> QED
    BY <1>2, <1>3, <1>4, <1>5, <1>6

(* A round of the analysis.                                                *)
LEMMA TraverseKeeps ==
    ASSUME DiffIInv, Traverse
    PROVE  DiffIInv'
  <1> USE DEF DiffIInv
  <1>1. /\ step = "impact" /\ step' = step /\ UNCHANGED world
        /\ ends' = ends /\ rows' = rows /\ diff' = diff
        /\ seeds' = seeds /\ seed' = seed
        /\ remaining' = remaining /\ impacts' = impacts
        /\ truncated' = truncated
    BY DEF Traverse
  <1>2. /\ WorldInv' /\ Limit' = Limit
        /\ Held(1)' = Held(1) /\ Held(2)' = Held(2)
    BY <1>1, WorldKept
  <1>3. EndsInv'
    BY <1>1 DEF EndsInv, Steps, Resolved, world
  <1>4. RowsInv'
    BY <1>1, <1>2, RowsKept DEF FromNodesRead, ToNodesRead, FromEdgesRead,
                          ToEdgesRead
  <1>5. /\ queue' \in Seq(FoundPath) /\ results' \in Seq(FoundPath)
        /\ budget' \in Nat /\ cut' \in BOOLEAN
    BY TraverseTypes
  <1>6. SeedsInv'
    BY <1>1, <1>2, <1>5 DEF SeedsInv, world
  <1>7. DiffIsPatch'
    BY <1>1, <1>2, PatchKept DEF Compared
  <1> QED
    BY <1>2, <1>3, <1>4, <1>6, <1>7

(* Its end.                                                                *)
LEMMA FinishSeedKeeps ==
    ASSUME DiffIInv, FinishSeed
    PROVE  DiffIInv'
  <1> USE DEF DiffIInv
  <1>1. PICK found : found = {Last(p).node : p \in ToSet(results)}
    OBVIOUS
  <1>2. PICK i : i = [seed |-> seed, nodes |-> found]
    OBVIOUS
  <1>3. /\ step = "impact" /\ step' = "seed" /\ UNCHANGED world
        /\ ends' = ends /\ rows' = rows /\ diff' = diff
        /\ seeds' = seeds /\ seed' = seed /\ queue' = queue
        /\ results' = results /\ budget' = budget /\ cut' = cut
        /\ remaining' = IF Len(results) < remaining
                        THEN remaining - Len(results) ELSE 0
        /\ truncated' = (truncated \/ cut)
        /\ impacts' = Append(impacts, i)
    BY <1>1, <1>2 DEF FinishSeed, traversal
  <1>4. /\ WorldInv' /\ Limit' = Limit /\ Limit \in Nat
        /\ Held(1)' = Held(1) /\ Held(2)' = Held(2)
    BY <1>3, WorldKept
  <1>5. EndsInv'
    BY <1>3 DEF EndsInv, Steps, Resolved, world
  <1>6. RowsInv'
    BY <1>3, RowsKept DEF FromNodesRead, ToNodesRead, FromEdgesRead,
                          ToEdgesRead
  <1>7. found \subseteq Object
    <2>1. \A p \in ToSet(results) : p \in FoundPath
      BY DEF ToSet, SeedsInv
    <2>2. ASSUME NEW p \in FoundPath PROVE Last(p).node \in Object
      <3>1. PICK H : H = [node : Object, edge : Nat]
        OBVIOUS
      <3>2. p \in Seq(H) /\ Len(p) > 0
        BY <3>1 DEF FoundPath
      <3>3. Last(p) \in H
        BY <3>2 DEF Last
      <3> QED
        BY <3>1, <3>3
    <2> QED
      BY <1>1, <2>1, <2>2
  <1>8. PICK I : I = Impact
    OBVIOUS
  <1>9. i \in I
    BY <1>2, <1>3, <1>7, <1>8 DEF SeedsInv, Impact
  <1>10. impacts \in Seq(I)
    BY <1>8 DEF SeedsInv
  <1>11. impacts' \in Seq(I)
    BY <1>3, <1>9, <1>10
  <1>12. remaining' \in 0 .. Limit
    <2>1. Len(results) \in Nat /\ remaining \in 0 .. Limit
      BY DEF SeedsInv
    <2> QED
      BY <1>3, <1>4, <2>1
  <1>13. SeedsInv'
    BY <1>3, <1>4, <1>8, <1>11, <1>12 DEF SeedsInv, world
  <1>14. DiffIsPatch'
    BY <1>3, <1>4, PatchKept DEF Compared
  <1> QED
    BY <1>4, <1>5, <1>6, <1>13, <1>14

(* The result is returned.                                                 *)
LEMMA ReturnKeeps ==
    ASSUME DiffIInv, ReturnDiff
    PROVE  DiffIInv'
  <1> USE DEF DiffIInv
  <1>1. /\ step = "seed" /\ step' = "done" /\ UNCHANGED world
        /\ ends' = ends /\ rows' = rows /\ diff' = diff /\ seeds' = seeds
        /\ seed' = seed /\ remaining' = remaining /\ queue' = queue
        /\ results' = results /\ budget' = budget /\ cut' = cut
        /\ impacts' = impacts /\ truncated' = truncated
    BY DEF ReturnDiff, traversal
  <1>2. /\ WorldInv' /\ Limit' = Limit
        /\ Held(1)' = Held(1) /\ Held(2)' = Held(2)
    BY <1>1, WorldKept
  <1>3. EndsInv'
    BY <1>1 DEF EndsInv, Steps, Resolved, world
  <1>4. RowsInv'
    BY <1>1, <1>2, RowsKept DEF FromNodesRead, ToNodesRead, FromEdgesRead,
                          ToEdgesRead
  <1>5. SeedsInv'
    BY <1>1, <1>2 DEF SeedsInv, world
  <1>6. DiffIsPatch'
    BY <1>1, <1>2, PatchKept DEF Compared
  <1> QED
    BY <1>2, <1>3, <1>4, <1>5, <1>6

-----------------------------------------------------------------------------
(* The theorems.                                                           *)

(* Through every interleaving of index runs with the statements of a diff, *)
(* what has been read are the rows of whole generations, the seeds are in  *)
(* snapshots that exist, and the result is a patch.                        *)
THEOREM DiffInvariant == DiffSpec => []DiffIInv
  <1>1. DiffInit => DiffIInv
    BY InitHolds
  <1>2. DiffIInv /\ [DiffNext]_diffVars => DiffIInv'
    <2> SUFFICES ASSUME DiffIInv, [DiffNext]_diffVars
                 PROVE  DiffIInv'
      OBVIOUS
    <2>1. ASSUME NEW k \in SnapshotKey, NEW g \in Generations[k],
                 Reindex(k, g)
          PROVE  DiffIInv'
      BY <2>1, ReindexKeeps
    <2>2. CASE ResolveFrom \/ ResolveTo
      BY <2>2, ResolveKeeps
    <2>3. CASE RefuseResultLimit
      BY <2>3, RefuseKeeps
    <2>4. CASE ReadRows
      BY <2>4, ReadRowsKeeps
    <2>5. CASE Compare
      BY <2>5, CompareKeeps
    <2>6. CASE StartSeed
      BY <2>6, StartSeedKeeps
    <2>7. CASE Traverse
      BY <2>7, TraverseKeeps
    <2>8. CASE FinishSeed
      BY <2>8, FinishSeedKeeps
    <2>9. CASE ReturnDiff
      BY <2>9, ReturnKeeps
    <2>10. CASE UNCHANGED diffVars
      <3>1. /\ step' = step /\ UNCHANGED world
            /\ ends' = ends /\ rows' = rows /\ diff' = diff /\ seeds' = seeds
            /\ seed' = seed /\ remaining' = remaining /\ queue' = queue
            /\ results' = results /\ budget' = budget /\ cut' = cut
            /\ impacts' = impacts /\ truncated' = truncated
        BY <2>10 DEF diffVars, world, traversal
      <3>2. /\ WorldInv' /\ Limit' = Limit
            /\ Held(1)' = Held(1) /\ Held(2)' = Held(2)
        BY <3>1, WorldKept DEF DiffIInv
      <3>3. EndsInv'
        BY <3>1 DEF DiffIInv, EndsInv, world
      <3>4. RowsInv'
        BY <3>1, <3>2, RowsKept DEF DiffIInv
      <3>5. SeedsInv'
        BY <3>1, <3>2 DEF DiffIInv, SeedsInv, world
      <3>6. DiffIsPatch'
        BY <3>1, <3>2, PatchKept DEF DiffIInv
      <3> QED
        BY <3>2, <3>3, <3>4, <3>5, <3>6 DEF DiffIInv
    <2> QED
      BY <2>1, <2>2, <2>3, <2>4, <2>5, <2>6, <2>7, <2>8, <2>9, <2>10
      DEF DiffNext
  <1> QED
    BY <1>1, <1>2, PTL DEF DiffSpec

(* DiffTypeOK: every variable keeps its kind, and the budget the seeds     *)
(* share neither grows over the limit nor wraps below zero.                *)
THEOREM DiffTypes == DiffSpec => []DiffTypeOK
  <1>1. DiffIInv => DiffTypeOK
    BY DEF DiffIInv, WorldInv, EndsInv, SeedsInv, DiffTypeOK, Seed, Impact
  <1> QED
    BY <1>1, DiffInvariant, PTL

(* DiffIsPatch: whatever index runs replace while the diff reads, its node *)
(* lists turn a whole generation of the first snapshot into a whole        *)
(* generation of the second, so do its edge lists, and every count is      *)
(* exact, cut or not.                                                      *)
THEOREM DiffsArePatches == DiffSpec => []DiffIsPatch
  <1>1. DiffIInv => DiffIsPatch
    BY DEF DiffIInv
  <1> QED
    BY <1>1, DiffInvariant, PTL

-----------------------------------------------------------------------------
(* The second invariant: the parts of DiffIsComplete, and what the seeds   *)
(* and their analyses owe to it on the way.                                *)

(* Each snapshot of the diff is the only one that was under its key.       *)
Settled == \A i \in {1, 2} : Held(i) = {stored[ends[i]]}

HistoryInv == \A k \in SnapshotKey : IsFiniteSet(history[k])

(* The seed being analysed, and those that were.                           *)
InHand == IF step = "impact" THEN {seed} ELSE {}
Pending == IF step = "impact" THEN 1 ELSE 0
Analysed == {i.seed : i \in ToSet(impacts)}

(* The lists keep to the limit; uncut, the counts are their lengths, and   *)
(* no seed gets lost on the way from the list to its analysis.             *)
ListsInv ==
    /\ Len(diff.added) <= Limit
    /\ Len(diff.removed) <= Limit
    /\ Len(diff.changed) <= Limit
    /\ Len(diff.added_edges) <= Limit
    /\ Len(diff.removed_edges) <= Limit
    /\ Len(impacts) + Len(seeds) + Pending <= Limit
    /\ ~truncated =>
          diff.counts =
             [added |-> Len(diff.added), removed |-> Len(diff.removed),
              changed |-> Len(diff.changed),
              added_edges |-> Len(diff.added_edges),
              removed_edges |-> Len(diff.removed_edges),
              seeds |-> Len(impacts) + Len(seeds) + Pending]

ListedSeeds ==
    ({ends[2]} \X (ObjectsIn(ToSet(diff.added))
                       \union ObjectsIn(ToSet(diff.changed))))
        \union ({ends[1]} \X ToSet(diff.removed))

(* Seeds are in the two snapshots; uncut, every listed object is one.      *)
CoverInv ==
    /\ \A s \in ToSet(seeds) \union InHand \union Analysed :
          s[1] \in {ends[1], ends[2]}
    /\ ~truncated =>
          ListedSeeds \subseteq ToSet(seeds) \union InHand \union Analysed

(* What was found and what is left to be found keep to the limit.          *)
SumInv ==
    /\ IsFiniteSet(NodesFound)
    /\ Cardinality(NodesFound) + remaining <= Limit
    /\ step = "impact" => Len(results) + budget <= remaining

(* Finished analyses are whole.                                            *)
ImpactsInv ==
    Settled /\ ~truncated =>
        \A i \in ToSet(impacts) :
            i.nodes = Reach(stored[i.seed[1]], i.seed[2]) \ {i.seed[2]}

(* The nodes at the ends of paths.                                         *)
EndsOf(paths) == {Last(p).node : p \in paths}
OfLength(n, paths) == {p \in paths : Len(p) = n}

(* Objects at most d edges away from o, for the depths there are.          *)
Ring(g, o, d) ==
    IF d = 0 THEN {o}
    ELSE IF d = 1 THEN {o} \union Beside(g, {o}) ELSE Reach(g, o)

(* A running analysis: a path leads no further than its length, and, while *)
(* nothing was cut, all that is beside the seed has a path of one edge,    *)
(* and all that is beside the end of one was visited when it has left the  *)
(* queue.                                                                  *)
SearchInv ==
    LET g == stored[seed[1]]
        o == seed[2]
    IN /\ stopped \in BOOLEAN /\ (stopped => cut)
       /\ visited = {o} \union EndsOf(ToSet(results))
       /\ o \notin EndsOf(ToSet(results))
       /\ EndsOf(ToSet(queue)) \subseteq visited
       /\ Settled =>
             /\ \A p \in ToSet(queue) \union ToSet(results) :
                   Len(p) <= 3 /\ Last(p).node \in Ring(g, o, Len(p) - 1)
             /\ ~cut =>
                   \/ queue = <<<<[node |-> o, edge |-> 0]>>>> /\ results = <<>>
                   \/ /\ Beside(g, {o}) \subseteq
                            {o} \union EndsOf(OfLength(2, ToSet(results)))
                      /\ \A p \in OfLength(2, ToSet(results)) \ ToSet(queue) :
                            Beside(g, {Last(p).node}) \subseteq visited

WholeInv ==
    /\ HistoryInv
    /\ step \notin Compared => impacts = <<>>
    /\ step \in Compared =>
          /\ ListsInv
          /\ CoverInv
          /\ SumInv
          /\ ImpactsInv
          /\ step = "impact" => SearchInv

(* What Quiet says of a diff under way.                                    *)
LEMMA QuietSettled ==
    ASSUME WorldInv, EndsInv, HistoryInv, step \in Compared, Quiet
    PROVE  Settled
  <1> SUFFICES ASSUME NEW i \in {1, 2}
               PROVE  Held(i) = {stored[ends[i]]}
    BY DEF Settled
  <1>1. ends[i] \in SnapshotKey /\ stored[ends[i]] # Missing
    BY EndsResolved DEF Compared, Resolved
  <1>2. stored[ends[i]] \in Held(i)
    BY <1>1 DEF WorldInv, Held
  <1>3. IsFiniteSet(Held(i))
    BY <1>1, FS_Subset DEF HistoryInv, Held
  <1>4. PICK x : Held(i) = {x}
    BY <1>3, FS_Singleton DEF Quiet
  <1> QED
    BY <1>2, <1>4

(* While its snapshots stay settled, no index run has touched them.        *)
LEMMA SettledBefore ==
    ASSUME DiffIInv, NEW k \in SnapshotKey, NEW g \in Generations[k],
           Reindex(k, g), step \in Compared, Settled'
    PROVE  /\ Settled
           /\ \A j \in {ends[1], ends[2]} : stored'[j] = stored[j]
  <1>1. /\ g \in Generation /\ g # Missing /\ g # stored[k]
        /\ stored' = [stored EXCEPT ![k] = g]
        /\ history' = [history EXCEPT ![k] = @ \union {g}]
        /\ ends' = ends
    BY DiffAssumption DEF Reindex, Generation
  <1>2. ASSUME NEW i \in {1, 2}
        PROVE  ends[i] # k /\ ends[i] \in SnapshotKey
    <2>1. ends[i] \in SnapshotKey /\ stored[ends[i]] # Missing
      BY EndsResolved DEF Compared, Resolved, DiffIInv
    <2>2. ASSUME ends[i] = k PROVE FALSE
      <3>1. g \in Held(i)' /\ stored[k] \in Held(i)'
        BY <1>1, <2>1, <2>2 DEF DiffIInv, WorldInv, Held
      <3>2. \E x : Held(i)' = {x}
        BY DEF Settled
      <3> QED
        BY <1>1, <3>1, <3>2
    <2> QED
      BY <2>1, <2>2
  <1>3. \A i \in {1, 2} : /\ stored'[ends[i]] = stored[ends[i]]
                          /\ Held(i)' = Held(i)
    BY <1>1, <1>2 DEF DiffIInv, WorldInv, Held
  <1> QED
    BY <1>1, <1>3 DEF Settled

(* A step that leaves the diff alone, and its two snapshots as long as     *)
(* they stay settled.                                                      *)
LEMMA WholeKept ==
    ASSUME WholeInv, HistoryInv', Limit' = Limit,
           diff' = diff, ends' = ends, seeds' = seeds, seed' = seed,
           remaining' = remaining, queue' = queue, visited' = visited,
           results' = results, budget' = budget, cut' = cut,
           stopped' = stopped, impacts' = impacts, truncated' = truncated,
           step' = "impact" <=> step = "impact",
           step' \in Compared <=> step \in Compared,
           step \in Compared /\ Settled' =>
              /\ Settled
              /\ \A j \in {ends[1], ends[2]} : stored'[j] = stored[j]
    PROVE  WholeInv'
  <1> SUFFICES ASSUME step \in Compared
               PROVE  /\ ListsInv' /\ CoverInv' /\ SumInv' /\ ImpactsInv'
                      /\ step = "impact" => SearchInv'
    BY DEF WholeInv
  <1>1. /\ ListsInv /\ CoverInv /\ SumInv /\ ImpactsInv
        /\ step = "impact" => SearchInv
    BY DEF WholeInv
  <1>2. InHand' = InHand /\ Pending' = Pending /\ Analysed' = Analysed
    BY DEF InHand, Pending, Analysed
  <1>3. ListsInv'
    BY <1>1, <1>2 DEF ListsInv
  <1>4. CoverInv'
    BY <1>1, <1>2 DEF CoverInv, ListedSeeds, ObjectsIn
  <1>5. SumInv'
    BY <1>1 DEF SumInv, NodesFound
  <1>6. ImpactsInv'
    <2>1. \A i \in ToSet(impacts) : i.seed[1] \in {ends[1], ends[2]}
      BY <1>1 DEF CoverInv, Analysed
    <2> QED
      BY <1>1, <2>1 DEF ImpactsInv
  <1>7. ASSUME step = "impact" PROVE SearchInv'
    <2>1. seed[1] \in {ends[1], ends[2]}
      BY <1>1, <1>7 DEF CoverInv, InHand
    <2>2. SearchInv
      BY <1>1, <1>7
    <2> QED
      BY <2>1, <2>2 DEF SearchInv, EndsOf, OfLength
  <1> QED
    BY <1>3, <1>4, <1>5, <1>6, <1>7

(* At the start, and until the rows are compared.                          *)
LEMMA InitWhole ==
    ASSUME DiffInit
    PROVE  WholeInv
  <1>1. HistoryInv
    BY FS_Singleton DEF DiffInit, HistoryInv
  <1> QED
    BY <1>1 DEF DiffInit, WholeInv, Compared

LEMMA WholeBefore ==
    ASSUME WholeInv, UNCHANGED <<history, impacts>>,
           step \notin Compared, step' \notin Compared
    PROVE  WholeInv'
  BY DEF WholeInv, HistoryInv

(* The objects a list of nodes names.                                      *)
LEMMA ListedObjects ==
    ASSUME NEW nodes, NEW S
    PROVE  ObjectsIn(Listed(nodes, S)) = S
  <1>1. ASSUME NEW o \in S PROVE o \in ObjectsIn(Listed(nodes, S))
    <2>1. PICK r : r = [object |-> o, payload |-> nodes[o]]
      OBVIOUS
    <2>2. r \in Listed(nodes, S) /\ r.object = o
      BY <2>1 DEF Listed
    <2> QED
      BY <2>2 DEF ObjectsIn
  <1>2. ASSUME NEW o \in ObjectsIn(Listed(nodes, S)) PROVE o \in S
    <2>1. PICK r \in Listed(nodes, S) : o = r.object
      BY DEF ObjectsIn
    <2>2. PICK x \in S : r = [object |-> x, payload |-> nodes[x]]
      BY DEF Listed
    <2> QED
      BY <2>1, <2>2
  <1> QED
    BY <1>1, <1>2

(* The sets the comparison lists are finite.                               *)
LEMMA ComparedSets ==
    ASSUME WorldInv, EndsInv, RowsInv, Compare
    PROVE  /\ AddedNodes \subseteq Object /\ IsFiniteSet(AddedNodes)
           /\ RemovedNodes \subseteq Object /\ IsFiniteSet(RemovedNodes)
           /\ ChangedNodes \subseteq Object /\ IsFiniteSet(ChangedNodes)
           /\ \A S \in {rows.to_edges \ rows.from_edges,
                        rows.from_edges \ rows.to_edges} :
                 IsFiniteSet(S) /\ S \subseteq ToSet(EdgeTypes) \X Object \X Object
  <1>1. PICK f \in Generation, t \in Generation, m \in Nat :
              /\ f \in Held(1) /\ t \in Held(2) /\ m = Limit
              /\ rows.from_nodes = ComparableNodes(ends[1], f)
              /\ rows.to_nodes = ComparableNodes(ends[2], t)
    BY CompareFacts
  <1>2. /\ DOMAIN rows.from_nodes = DOMAIN f.look
        /\ DOMAIN rows.to_nodes = DOMAIN t.look
    BY <1>1 DEF ComparableNodes
  <1>3. /\ DOMAIN f.look \subseteq Object /\ IsFiniteSet(DOMAIN f.look)
        /\ DOMAIN t.look \subseteq Object /\ IsFiniteSet(DOMAIN t.look)
    BY GenerationFacts
  <1>4. /\ AddedNodes \subseteq DOMAIN t.look
        /\ RemovedNodes \subseteq DOMAIN f.look
        /\ ChangedNodes \subseteq DOMAIN t.look
    BY <1>2 DEF AddedNodes, RemovedNodes, ChangedNodes
  <1>5. step = "compare"
    BY DEF Compare
  <1>6. Held(1) \subseteq Generation /\ Held(2) \subseteq Generation
    BY <1>5, EndsResolved DEF Held, WorldInv, Resolved
  <1>7. PICK h \in Generation, u \in Generation :
              rows.from_edges = EdgeKeysOf(h) /\ rows.to_edges = EdgeKeysOf(u)
    BY <1>5, <1>6 DEF RowsInv, FromEdgesRead, ToEdgesRead
  <1>8. /\ IsFiniteSet(EdgeKeysOf(h)) /\ IsFiniteSet(EdgeKeysOf(u))
        /\ EdgeKeysOf(h) \subseteq ToSet(EdgeTypes) \X Object \X Object
        /\ EdgeKeysOf(u) \subseteq ToSet(EdgeTypes) \X Object \X Object
    BY GenerationFacts
  <1>9. \A S \in {rows.to_edges \ rows.from_edges,
                  rows.from_edges \ rows.to_edges} :
           S \subseteq EdgeKeysOf(h) \/ S \subseteq EdgeKeysOf(u)
    BY <1>7
  <1> QED
    BY <1>3, <1>4, <1>8, <1>9, FS_Subset

(* A list of edges cut at m.                                               *)
LEMMA CutEdges ==
    ASSUME NEW S, IsFiniteSet(S),
           S \subseteq ToSet(EdgeTypes) \X Object \X Object, NEW m \in Nat,
           NEW l, l = FirstOf(ByEdgeKey(S), m)
    PROVE  /\ Len(l) <= m
           /\ Len(ByEdgeKey(S)) <= m => Len(l) = Len(ByEdgeKey(S))
  <1>1. PICK s : s = ByEdgeKey(S)
    OBVIOUS
  <1>2. PICK order : IsSorting(s, S, order)
    BY <1>1, EdgeSorts
  <1>3. PICK k : k = l
    OBVIOUS
  <1>4. k = FirstOf(s, m)
    BY <1>1, <1>3
  <1> QED
    BY <1>1, <1>2, <1>3, <1>4, CutList

(* The comparison.                                                         *)
LEMMA CompareWhole ==
    ASSUME DiffIInv, WholeInv, Compare
    PROVE  WholeInv'
  <1> USE DEF DiffIInv
  <1>1. /\ step = "compare" /\ step' = "seed" /\ UNCHANGED world
        /\ ends' = ends /\ history' = history /\ impacts' = impacts
        /\ remaining' = Limit /\ Limit' = Limit
        /\ seeds' = FirstOf(BySeed(ChangedImpactSeeds), Limit)
    BY DEF Compare, world, Limit
  <1>2. impacts = <<>> /\ HistoryInv'
    BY <1>1 DEF WholeInv, HistoryInv, Compared
  <1>3. PICK m \in Nat : m = Limit
    BY CompareFacts
  <1>4. PICK A : A = AddedNodes
    OBVIOUS
  <1>5. PICK D : D = RemovedNodes
    OBVIOUS
  <1>6. PICK C : C = ChangedNodes
    OBVIOUS
  <1>7. PICK EA : EA = rows.to_edges \ rows.from_edges
    OBVIOUS
  <1>8. PICK ED : ED = rows.from_edges \ rows.to_edges
    OBVIOUS
  <1>9. PICK S : S = ChangedImpactSeeds
    OBVIOUS
  <1>10. /\ A \subseteq Object /\ IsFiniteSet(A)
         /\ D \subseteq Object /\ IsFiniteSet(D)
         /\ C \subseteq Object /\ IsFiniteSet(C)
         /\ IsFiniteSet(EA) /\ EA \subseteq ToSet(EdgeTypes) \X Object \X Object
         /\ IsFiniteSet(ED) /\ ED \subseteq ToSet(EdgeTypes) \X Object \X Object
         /\ Object \subseteq Nat
    BY <1>4, <1>5, <1>6, <1>7, <1>8, ComparedSets, DiffAssumption
  <1>11. PICK old, new : old = rows.from_nodes /\ new = rows.to_nodes
    OBVIOUS
  <1>12. PICK la, ld, lc, lea, led :
             /\ la = diff'.added /\ ld = diff'.removed /\ lc = diff'.changed
             /\ lea = diff'.added_edges /\ led = diff'.removed_edges
    OBVIOUS
  <1>13. PICK k \in SnapshotKey, j \in SnapshotKey : k = ends[1] /\ j = ends[2]
    BY <1>1, EndsResolved DEF Resolved
  <1>14. S = ({j} \X (A \union C)) \union ({k} \X D)
    BY <1>4, <1>5, <1>6, <1>9, <1>13 DEF ChangedImpactSeeds
  <1>15. IsFiniteSet(S) /\ S \subseteq Seed
    BY <1>10, <1>14, FS_Product, FS_Union, FS_Singleton DEF Seed
  <1>16. PICK s : s = BySeed(S)
    OBVIOUS
  <1>17. PICK c : c = FirstOf(s, m)
    OBVIOUS
  <1>18. /\ seeds' = c
         /\ la = Records(A, new, m)
         /\ ld = FirstOf(Ascending(D), m)
         /\ lc = Records(C, new, m)
         /\ lea = FirstOf(ByEdgeKey(EA), m)
         /\ led = FirstOf(ByEdgeKey(ED), m)
         /\ diff'.counts =
               [added |-> Len(Ascending(A)), removed |-> Len(Ascending(D)),
                changed |-> Len(Ascending(C)),
                added_edges |-> Len(ByEdgeKey(EA)),
                removed_edges |-> Len(ByEdgeKey(ED)), seeds |-> Len(s)]
         /\ truncated' = \E n \in {Len(Ascending(A)), Len(Ascending(D)),
                                   Len(Ascending(C)), Len(ByEdgeKey(EA)),
                                   Len(ByEdgeKey(ED)), Len(s)} : n > m
    BY <1>1, <1>3, <1>4, <1>5, <1>6, <1>7, <1>8, <1>9, <1>11, <1>12, <1>16,
       <1>17 DEF Compare, Records
  <1>19. /\ Len(Ascending(A)) = Cardinality(A) /\ Len(la) <= m
         /\ Cardinality(A) <= m => Len(la) = Cardinality(A)
         /\ \E o \in SUBSET A : ToSet(la) = Listed(new, o)
    <2>1. A \subseteq Nat /\ IsFiniteSet(A)
      BY <1>10
    <2>2. la = Records(A, new, m)
      BY <1>18
    <2>3. /\ Len(Ascending(A)) = Cardinality(A)
          /\ Len(la) <= m
          /\ Cardinality(A) <= m => Len(la) = Cardinality(A)
          /\ \E o \in SUBSET A : /\ ToSet(la) = Listed(new, o)
                                 /\ Len(la) = Cardinality(A) => o = A
      BY <2>1, <2>2, CutRecords
    <2> QED
      BY <2>3
  <1>20. /\ Len(Ascending(C)) = Cardinality(C) /\ Len(lc) <= m
         /\ Cardinality(C) <= m => Len(lc) = Cardinality(C)
         /\ \E o \in SUBSET C : ToSet(lc) = Listed(new, o)
    <2>1. C \subseteq Nat /\ IsFiniteSet(C)
      BY <1>10
    <2>2. lc = Records(C, new, m)
      BY <1>18
    <2>3. /\ Len(Ascending(C)) = Cardinality(C)
          /\ Len(lc) <= m
          /\ Cardinality(C) <= m => Len(lc) = Cardinality(C)
          /\ \E o \in SUBSET C : /\ ToSet(lc) = Listed(new, o)
                                 /\ Len(lc) = Cardinality(C) => o = C
      BY <2>1, <2>2, CutRecords
    <2> QED
      BY <2>3
  <1>21. /\ Len(Ascending(D)) = Cardinality(D) /\ Len(ld) <= m
         /\ Cardinality(D) <= m => Len(ld) = Cardinality(D)
         /\ ToSet(ld) \subseteq D
    <2>1. PICK a : a = Ascending(D)
      OBVIOUS
    <2>2. PICK order : IsSorting(a, D, order)
      BY <1>10, <2>1, KeySorts
    <2>3. ld = FirstOf(a, m)
      BY <1>18, <2>1
    <2> QED
      BY <1>10, <2>1, <2>2, <2>3, CutList
  <1>22. /\ Len(lea) <= m
         /\ Len(ByEdgeKey(EA)) <= m => Len(lea) = Len(ByEdgeKey(EA))
    BY <1>10, <1>18, CutEdges
  <1>23. /\ Len(led) <= m
         /\ Len(ByEdgeKey(ED)) <= m => Len(led) = Len(ByEdgeKey(ED))
    BY <1>10, <1>18, CutEdges
  <1>24. /\ Len(s) = Cardinality(S) /\ Cardinality(S) \in Nat
         /\ Len(c) \in Nat /\ Len(c) <= m /\ ToSet(c) \subseteq S
         /\ Len(s) <= m => Len(c) = Len(s) /\ ToSet(c) = S
    <2>1. PICK order : IsSorting(s, S, order)
      BY <1>15, <1>16, SeedSorts
    <2>2. /\ Len(s) = Cardinality(S) /\ c \in Seq(S) /\ ToSet(c) \subseteq S
          /\ Len(c) = Cardinality(S) => ToSet(c) = S
          /\ Len(c) <= m
          /\ Len(s) <= m => Len(c) = Len(s)
      BY <1>15, <1>17, <2>1, CutList
    <2> QED
      BY <1>15, <2>2, FS_CardinalityType
  <1>25. /\ Cardinality(A) \in Nat /\ Cardinality(C) \in Nat
         /\ Cardinality(D) \in Nat
    BY <1>10, FS_CardinalityType
  <1>26. /\ Len(ByEdgeKey(EA)) \in Nat /\ Len(ByEdgeKey(ED)) \in Nat
    <2>1. \E order : IsSorting(ByEdgeKey(EA), EA, order)
      BY <1>10, EdgeSorts
    <2>2. \E order : IsSorting(ByEdgeKey(ED), ED, order)
      BY <1>10, EdgeSorts
    <2> QED
      BY <2>1, <2>2, <1>10, FS_CardinalityType DEF IsSorting
  <1>27. /\ Len(impacts') = 0 /\ ToSet(impacts') = {}
         /\ NodesFound' = {}
    BY <1>1, <1>2 DEF ToSet, NodesFound
  <1>28. Pending' = 0 /\ InHand' = {} /\ Analysed' = {}
    BY <1>1, <1>27 DEF Pending, InHand, Analysed
  <1>29. ~truncated' => /\ Len(Ascending(A)) <= m /\ Len(Ascending(D)) <= m
                        /\ Len(Ascending(C)) <= m
                        /\ Len(ByEdgeKey(EA)) <= m /\ Len(ByEdgeKey(ED)) <= m
                        /\ Len(s) <= m
    BY <1>18, <1>19, <1>20, <1>21, <1>24, <1>25, <1>26
  <1>30. ListsInv'
    <2>1. Len(impacts') + Len(seeds') + Pending' = Len(c)
      BY <1>18, <1>24, <1>27, <1>28
    <2>2. ~truncated' =>
             /\ Len(Ascending(A)) = Len(la) /\ Len(Ascending(D)) = Len(ld)
             /\ Len(Ascending(C)) = Len(lc)
             /\ Len(ByEdgeKey(EA)) = Len(lea) /\ Len(ByEdgeKey(ED)) = Len(led)
             /\ Len(s) = Len(c)
      BY <1>19, <1>20, <1>21, <1>22, <1>23, <1>24, <1>29
    <2> QED
      BY <1>1, <1>3, <1>12, <1>18, <1>19, <1>20, <1>21, <1>22, <1>23, <1>24,
         <2>1, <2>2 DEF ListsInv
  <1>31. CoverInv'
    <2>1. \A x \in ToSet(c) : x[1] \in {k, j}
      BY <1>14, <1>24
    <2>2. ObjectsIn(ToSet(la)) \subseteq A /\ ObjectsIn(ToSet(lc)) \subseteq C
      BY <1>19, <1>20, ListedObjects
    <2>3. ListedSeeds' = ({j} \X (ObjectsIn(ToSet(la))
                                     \union ObjectsIn(ToSet(lc))))
                             \union ({k} \X ToSet(ld))
      BY <1>1, <1>12, <1>13 DEF ListedSeeds, ObjectsIn
    <2>4. ListedSeeds' \subseteq S
      BY <1>14, <1>21, <2>2, <2>3
    <2>5. ~truncated' => ToSet(seeds') = S
      BY <1>18, <1>24, <1>29
    <2> QED
      BY <1>1, <1>13, <1>18, <1>28, <2>1, <2>4, <2>5 DEF CoverInv
  <1>32. SumInv'
    BY <1>1, <1>3, <1>27, FS_EmptySet DEF SumInv
  <1>33. ImpactsInv'
    BY <1>27 DEF ImpactsInv
  <1> QED
    BY <1>1, <1>2, <1>30, <1>31, <1>32, <1>33 DEF WholeInv, Compared

(* The objects beside others.                                              *)
LEMMA BesideFacts ==
    ASSUME NEW g, NEW X
    PROVE  /\ \A n : n \in Beside(g, X) <=>
                 \E e \in ToSet(g.edges) :
                    /\ n \in {e.from, e.to}
                    /\ e.from \in X \/ e.to \in X
           /\ \A n : n \in Beside(g, X) =>
                 \E x \in X : n \in Beside(g, {x})
           /\ \A x \in X : Beside(g, {x}) \subseteq Beside(g, X)
  <1>1. ASSUME NEW Y, NEW n
        PROVE  n \in Beside(g, Y) <=>
                  \E e \in ToSet(g.edges) :
                     /\ n \in {e.from, e.to}
                     /\ e.from \in Y \/ e.to \in Y
    <2>1. \A e : {e.from, e.to} \intersect Y # {}
                     <=> e.from \in Y \/ e.to \in Y
      OBVIOUS
    <2> QED
      BY <2>1 DEF Beside
  <1>2. ASSUME NEW n \in Beside(g, X)
        PROVE  \E x \in X : n \in Beside(g, {x})
    <2>1. PICK e \in ToSet(g.edges) : /\ n \in {e.from, e.to}
                                      /\ e.from \in X \/ e.to \in X
      BY <1>1
    <2>2. PICK x \in X : x = e.from \/ x = e.to
      BY <2>1
    <2>3. n \in Beside(g, {x})
      BY <1>1, <2>1, <2>2
    <2> QED
      BY <2>3
  <1>3. ASSUME NEW x \in X, NEW n \in Beside(g, {x})
        PROVE  n \in Beside(g, X)
    BY <1>1
  <1> QED
    BY <1>1, <1>2, <1>3

LEMMA BesideOne ==
    ASSUME NEW g, NEW X, NEW n \in Beside(g, X)
    PROVE  \E x \in X : n \in Beside(g, {x})
  BY BesideFacts

(* A seed's analysis begins.                                               *)
LEMMA StartSeedWhole ==
    ASSUME DiffIInv, WholeInv, StartSeed
    PROVE  WholeInv'
  <1> USE DEF DiffIInv
  <1>1. /\ step = "seed" /\ step' = "impact" /\ seeds # <<>>
        /\ UNCHANGED world /\ Limit' = Limit
        /\ stored' = stored /\ history' = history
        /\ ends' = ends /\ rows' = rows /\ diff' = diff
        /\ remaining' = remaining /\ impacts' = impacts
        /\ truncated' = truncated
        /\ seed' = Head(seeds) /\ seeds' = Tail(seeds)
        /\ visited' = {Head(seeds)[2]}
        /\ results' = <<>> /\ budget' = remaining /\ cut' = FALSE
        /\ stopped' = FALSE
    BY DEF StartSeed, world, Limit
  <1>2. PICK g, o : g = stored[Head(seeds)[1]] /\ o = Head(seeds)[2]
    OBVIOUS
  <1>3. queue' = IF o \in DOMAIN g.look
                 THEN <<<<[node |-> o, edge |-> 0]>>>> ELSE <<>>
    BY <1>2 DEF StartSeed
  <1>4. /\ HistoryInv /\ ListsInv /\ CoverInv /\ SumInv /\ ImpactsInv
    BY <1>1 DEF WholeInv, Compared
  <1>5. /\ seeds \in Seq(Seed) /\ Len(seeds) \in Nat /\ Len(seeds) > 0
        /\ Head(seeds) \in Seed
        /\ Tail(seeds) \in Seq(Seed) /\ Len(Tail(seeds)) = Len(seeds) - 1
        /\ ToSet(seeds) = {Head(seeds)} \union ToSet(Tail(seeds))
    <2>1. seeds \in Seq(Seed)
      BY DEF SeedsInv
    <2>2. /\ Len(seeds) \in Nat /\ Len(seeds) > 0
          /\ Len(Tail(seeds)) = Len(seeds) - 1
      BY <1>1, <2>1
    <2> QED
      BY <1>1, <2>1, <2>2, HeadAndTail
  <1>6. /\ Pending = 0 /\ Pending' = 1 /\ InHand = {}
        /\ InHand' = {Head(seeds)} /\ Analysed' = Analysed
    BY <1>1 DEF Pending, InHand, Analysed
  <1>7. ListsInv'
    <2>1. Len(impacts) \in Nat
      BY DEF SeedsInv
    <2>2. Len(impacts') + Len(seeds') + Pending'
             = Len(impacts) + Len(seeds) + Pending
      BY <1>1, <1>5, <1>6, <2>1
    <2> QED
      BY <1>1, <1>4, <2>2 DEF ListsInv
  <1>8. CoverInv'
    <2>1. ToSet(seeds') \union InHand' = ToSet(seeds) \union InHand
      BY <1>1, <1>5, <1>6
    <2> QED
      BY <1>1, <1>4, <1>6, <2>1 DEF CoverInv, ListedSeeds, ObjectsIn
  <1>9. SumInv'
    <2>1. remaining \in Nat
      BY <1>1, WorldKept DEF SeedsInv
    <2>2. Len(results') = 0
      BY <1>1
    <2> QED
      BY <1>1, <1>4, <2>1, <2>2 DEF SumInv, NodesFound
  <1>10. ImpactsInv'
    BY <1>1, <1>4 DEF ImpactsInv, Settled, Held
  <1>11. SearchInv'
    <2>1. ToSet(results') = {} /\ EndsOf(ToSet(results')) = {}
      BY <1>1 DEF ToSet, EndsOf
    <2>2. /\ stored'[seed'[1]] = g /\ seed'[2] = o
          /\ visited' = {o}
      BY <1>1, <1>2
    <2>3. CASE o \in DOMAIN g.look
      <3>1. PICK p : p = <<[node |-> o, edge |-> 0]>>
        OBVIOUS
      <3>2. queue' = <<p>> /\ ToSet(queue') = {p}
        BY <1>3, <2>3, <3>1 DEF ToSet
      <3>3. Len(p) = 1 /\ Last(p).node = o
        BY <3>1 DEF Last
      <3>4. Last(p).node \in Ring(g, o, Len(p) - 1)
        BY <3>3 DEF Ring
      <3> QED
        <4>1. \A q \in ToSet(queue') \union ToSet(results') :
                 Len(q) <= 3 /\ Last(q).node \in Ring(g, o, Len(q) - 1)
          <5>1. Len(p) <= 3 /\ Last(p).node \in Ring(g, o, Len(p) - 1)
            BY <3>3, <3>4
          <5>2. ToSet(queue') \union ToSet(results') = {p}
            BY <2>1, <3>2
          <5> QED
            BY <5>1, <5>2
        <4>2. queue' = <<<<[node |-> o, edge |-> 0]>>>> /\ results' = <<>>
          BY <1>1, <3>1, <3>2
        <4>3. /\ stopped' \in BOOLEAN /\ ~stopped'
              /\ visited' = {o} \union EndsOf(ToSet(results'))
              /\ o \notin EndsOf(ToSet(results'))
              /\ EndsOf(ToSet(queue')) \subseteq visited'
          <5>1. EndsOf({p}) = {Last(p).node}
            BY DEF EndsOf
          <5> QED
            BY <1>1, <2>1, <2>2, <3>2, <3>3, <5>1
        <4> QED
          BY <2>2, <4>1, <4>2, <4>3 DEF SearchInv
    <2>4. CASE o \notin DOMAIN g.look
      <3>1. ToSet(queue') = {} /\ EndsOf(ToSet(queue')) = {}
        BY <1>3, <2>4 DEF ToSet, EndsOf
      <3>2. Beside(g, {o}) = {}
        <4>1. g \in Generation
          <5>1. 1 \in 1 .. Len(seeds) /\ Head(seeds) = seeds[1]
            BY <1>5
          <5>2. Head(seeds)[1] \in SnapshotKey
            BY <1>5 DEF Seed
          <5>3. stored[Head(seeds)[1]] # Missing
            BY <5>1 DEF SeedsInv
          <5> QED
            BY <1>2, <5>2, <5>3 DEF WorldInv
        <4>2. PICK es, E : /\ es = g.edges
                           /\ E = [type : ToSet(EdgeTypes),
                                   from : DOMAIN g.look, to : DOMAIN g.look]
          OBVIOUS
        <4>3. es \in Seq(E)
          BY <4>1, <4>2, DiffAssumption
        <4>4. \A e \in ToSet(es) : e \in E
          BY <4>3 DEF ToSet
        <4>5. \A e \in ToSet(es) : e.from # o /\ e.to # o
          BY <2>4, <4>2, <4>4
        <4> QED
          BY <4>2, <4>5, BesideFacts
      <3>3. OfLength(2, ToSet(results')) = {}
        BY <2>1 DEF OfLength
      <3> QED
        BY <1>1, <2>1, <2>2, <3>1, <3>2, <3>3 DEF SearchInv
    <2> QED
      BY <2>3, <2>4
  <1>12. HistoryInv'
    BY <1>1, <1>4 DEF HistoryInv
  <1> QED
    BY <1>1, <1>7, <1>8, <1>9, <1>10, <1>11, <1>12 DEF WholeInv, Compared

(* With nothing cut and nothing left to do, an analysis has found what     *)
(* there is within two edges.                                              *)
LEMMA SearchIsWhole ==
    ASSUME SeedsInv, SearchInv, Settled, ~cut, ~T!Running,
           NEW g, g = stored[seed[1]], NEW o, o = seed[2]
    PROVE  EndsOf(ToSet(results)) = Reach(g, o) \ {o}
  <1> DEFINE R == ToSet(results)
             near == {o} \union Beside(g, {o})
  <1>1. queue = <<>> /\ ToSet(queue) = {}
    BY DEF SearchInv, T!Running, ToSet
  <1>2. /\ visited = {o} \union EndsOf(R) /\ o \notin EndsOf(R)
        /\ \A p \in R : Last(p).node \in Ring(g, o, Len(p) - 1)
        /\ Beside(g, {o}) \subseteq {o} \union EndsOf(OfLength(2, R))
        /\ \A p \in OfLength(2, R) : Beside(g, {Last(p).node}) \subseteq visited
    <2>1. queue # <<<<[node |-> o, edge |-> 0]>>>>
      BY <1>1
    <2> QED
      BY <1>1, <2>1 DEF SearchInv
  <1>3. Reach(g, o) = near \union Beside(g, near)
    BY DEF Reach
  <1>4. EndsOf(OfLength(2, R)) \subseteq EndsOf(R)
    BY DEF EndsOf, OfLength
  <1>5. ASSUME NEW n \in EndsOf(R)
        PROVE  n \in Reach(g, o) /\ n # o
    <2>1. PICK p \in R : n = Last(p).node
      BY DEF EndsOf
    <2>2. PICK d : n \in Ring(g, o, d)
      BY <1>2, <2>1
    <2> QED
      BY <1>2, <1>3, <2>2 DEF Ring
  <1>6. ASSUME NEW n \in Reach(g, o), n # o
        PROVE  n \in EndsOf(R)
    <2>1. CASE n \in near
      BY <1>2, <1>4, <1>6, <2>1
    <2>2. CASE n \in Beside(g, near)
      <3>1. PICK x \in near : n \in Beside(g, {x})
        <4> HIDE DEF near
        <4>1. n \in Beside(g, near)
          BY <2>2
        <4> QED
          BY <4>1, BesideOne
      <3>2. CASE x = o
        BY <1>2, <1>4, <1>6, <3>1, <3>2
      <3>3. CASE x # o
        <4>1. PICK p \in OfLength(2, R) : x = Last(p).node
          BY <1>2, <3>1, <3>3 DEF EndsOf
        <4> QED
          BY <1>2, <1>6, <3>1, <4>1
      <3> QED
        BY <3>2, <3>3
    <2> QED
      BY <1>3, <2>1, <2>2
  <1> QED
    BY <1>5, <1>6

(* A seed's analysis ends.                                                 *)
LEMMA FinishSeedWhole ==
    ASSUME DiffIInv, WholeInv, FinishSeed
    PROVE  WholeInv'
  <1> USE DEF DiffIInv
  <1>1. PICK found : found = EndsOf(ToSet(results))
    OBVIOUS
  <1>2. PICK i : i = [seed |-> seed, nodes |-> found]
    OBVIOUS
  <1>3. /\ step = "impact" /\ step' = "seed" /\ UNCHANGED world
        /\ stored' = stored /\ history' = history /\ Limit' = Limit
        /\ ends' = ends /\ diff' = diff /\ seeds' = seeds
        /\ remaining' = IF Len(results) < remaining
                        THEN remaining - Len(results) ELSE 0
        /\ truncated' = (truncated \/ cut)
        /\ impacts' = Append(impacts, i)
        /\ ~T!Running
    BY <1>1, <1>2 DEF FinishSeed, world, Limit, EndsOf
  <1>4. /\ HistoryInv /\ ListsInv /\ CoverInv /\ SumInv /\ ImpactsInv
        /\ SearchInv
    BY <1>3 DEF WholeInv, Compared
  <1>5. /\ Limit \in Nat /\ remaining \in Nat /\ budget \in Nat
        /\ Len(results) \in Nat /\ Len(impacts) \in Nat /\ Len(seeds) \in Nat
        /\ truncated \in BOOLEAN /\ cut \in BOOLEAN
    BY <1>3, WorldKept DEF SeedsInv
  <1>6. PICK I : I = Impact
    OBVIOUS
  <1>7. PICK n \in Nat : n = Len(impacts)
    BY <1>5
  <1>8. PICK after : after = Append(impacts, i)
    OBVIOUS
  <1>9. /\ Len(after) = n + 1 /\ DOMAIN after = 1 .. n + 1
        /\ DOMAIN impacts = 1 .. n
        /\ \A j \in 1 .. n : after[j] = impacts[j]
        /\ after[n + 1] = i
    <2>1. impacts \in Seq(I)
      BY <1>6 DEF SeedsInv
    <2> QED
      BY <1>7, <1>8, <2>1
  <1>10. ToSet(after) = ToSet(impacts) \union {i}
    <2>1. \A j \in 1 .. n + 1 : j \in 1 .. n \/ j = n + 1
      OBVIOUS
    <2>2. \A j \in 1 .. n : j \in 1 .. n + 1
      OBVIOUS
    <2>3. n + 1 \in 1 .. n + 1
      OBVIOUS
    <2> QED
      BY <1>9, <2>1, <2>2, <2>3 DEF ToSet
  <1>11. /\ Pending = 1 /\ Pending' = 0 /\ InHand = {seed} /\ InHand' = {}
         /\ Analysed' = Analysed \union {seed}
    BY <1>2, <1>3, <1>8, <1>10 DEF Pending, InHand, Analysed
  <1>12. ListsInv'
    <2>1. Len(impacts') + Len(seeds') + Pending'
             = Len(impacts) + Len(seeds) + Pending
      BY <1>3, <1>5, <1>7, <1>8, <1>9, <1>11
    <2> QED
      BY <1>3, <1>4, <2>1 DEF ListsInv
  <1>13. CoverInv'
    <2>1. InHand' \union Analysed' = InHand \union Analysed
      BY <1>11
    <2> QED
      BY <1>3, <1>4, <2>1 DEF CoverInv, ListedSeeds, ObjectsIn
  <1>14. SumInv'
    <2>1. PICK N, M : /\ N = NodesFound
                      /\ M = {n + 1} \X found
      OBVIOUS
    <2>2. NodesFound' = N \union M
      <3>1. NodesFound' = UNION {{j} \X after[j].nodes : j \in 1 .. n + 1}
        BY <1>3, <1>8, <1>9 DEF NodesFound
      <3>2. N = UNION {{j} \X impacts[j].nodes : j \in 1 .. n}
        BY <1>9, <2>1 DEF NodesFound
      <3>3. \A j \in 1 .. n + 1 : j \in 1 .. n \/ j = n + 1
        OBVIOUS
      <3>4. n + 1 \in 1 .. n + 1 /\ \A j \in 1 .. n : j \in 1 .. n + 1
        OBVIOUS
      <3>5. {n + 1} \X after[n + 1].nodes = M
        BY <1>2, <1>9, <2>1
      <3> QED
        BY <1>9, <3>1, <3>2, <3>3, <3>4, <3>5
    <2>3. IsFiniteSet(M) /\ Cardinality(M) <= Len(results)
      <3>1. PICK f : f = [j \in 1 .. Len(results) |->
                              <<n + 1, Last(results[j]).node>>]
        OBVIOUS
      <3>2. DOMAIN results = 1 .. Len(results)
        BY DEF SeedsInv
      <3>3. f \in Surjection(1 .. Len(results), M)
        <4>1. found = {Last(results[j]).node : j \in 1 .. Len(results)}
          BY <1>1, <3>2 DEF EndsOf, ToSet
        <4>2. \A j \in 1 .. Len(results) : f[j] \in M
          BY <2>1, <3>1, <4>1
        <4>3. ASSUME NEW y \in M
              PROVE  \E j \in 1 .. Len(results) : f[j] = y
          <5>1. PICK x \in found : y = <<n + 1, x>>
            BY <2>1
          <5>2. PICK j \in 1 .. Len(results) : x = Last(results[j]).node
            BY <4>1
          <5> QED
            BY <3>1, <5>1, <5>2
        <4>4. f \in [1 .. Len(results) -> M]
          BY <3>1, <4>2
        <4> QED
          BY <4>3, <4>4 DEF Surjection
      <3>4. /\ IsFiniteSet(1 .. Len(results))
            /\ Cardinality(1 .. Len(results)) = Len(results)
        <4>1. PICK r \in Nat : r = Len(results)
          BY <1>5
        <4>2. /\ IsFiniteSet(1 .. r)
              /\ Cardinality(1 .. r) = IF 1 > r THEN 0 ELSE r - 1 + 1
          BY FS_Interval
        <4> QED
          BY <4>1, <4>2
      <3>5. /\ IsFiniteSet(M)
            /\ Cardinality(M) <= Cardinality(1 .. Len(results))
        BY <3>3, <3>4, FS_Surjection
      <3> QED
        BY <3>4, <3>5
    <2>4. IsFiniteSet(N) /\ Cardinality(N) + remaining <= Limit
      BY <1>4, <2>1 DEF SumInv
    <2>5. /\ IsFiniteSet(N \union M)
          /\ Cardinality(N \union M) <= Cardinality(N) + Cardinality(M)
          /\ Cardinality(N \union M) \in Nat /\ Cardinality(N) \in Nat
          /\ Cardinality(M) \in Nat
      <3>1. /\ IsFiniteSet(N \union M) /\ IsFiniteSet(N \intersect M)
            /\ Cardinality(N \union M) =
                  Cardinality(N) + Cardinality(M) - Cardinality(N \intersect M)
        BY <2>3, <2>4, FS_Union, FS_Intersection
      <3>2. /\ Cardinality(N \union M) \in Nat /\ Cardinality(N) \in Nat
            /\ Cardinality(M) \in Nat /\ Cardinality(N \intersect M) \in Nat
        BY <2>3, <2>4, <3>1, FS_CardinalityType
      <3> QED
        BY <3>1, <3>2
    <2>6. Len(results) <= remaining
      BY <1>3, <1>4, <1>5 DEF SumInv
    <2>7. remaining' = remaining - Len(results)
      BY <1>3, <1>5, <2>6
    <2>8. Cardinality(N \union M) + remaining' <= Limit
      BY <1>5, <2>3, <2>4, <2>5, <2>7
    <2> QED
      BY <1>3, <2>2, <2>5, <2>8 DEF SumInv
  <1>15. ImpactsInv'
    <2> SUFFICES ASSUME Settled, ~truncated, ~cut, NEW x \in ToSet(after)
                 PROVE  x.nodes = Reach(stored[x.seed[1]], x.seed[2])
                                     \ {x.seed[2]}
      BY <1>3, <1>5, <1>8 DEF ImpactsInv, Settled, Held
    <2>1. CASE x \in ToSet(impacts)
      BY <1>4, <2>1 DEF ImpactsInv
    <2>2. CASE x = i
      <3>1. PICK g, o : g = stored[seed[1]] /\ o = seed[2]
        OBVIOUS
      <3>2. found = Reach(g, o) \ {o}
        BY <1>1, <1>3, <1>4, <3>1, SearchIsWhole
      <3> QED
        BY <1>2, <2>2, <3>1, <3>2
    <2> QED
      BY <1>10, <2>1, <2>2
  <1>16. HistoryInv'
    BY <1>3, <1>4 DEF HistoryInv
  <1> QED
    BY <1>3, <1>12, <1>13, <1>14, <1>15, <1>16 DEF WholeInv, Compared

(* The edges a node of the seed's snapshot has.                            *)
Touching(n) == {e \in DOMAIN Edges : Edges[e].from = n \/ Edges[e].to = n}

LEMMA TouchingFacts ==
    ASSUME WorldInv, SeedsInv, step = "impact", NEW n
    PROVE  /\ T!Wanted(n, "outbound") \union T!Wanted(n, "inbound") = Touching(n)
           /\ Touching(n) \subseteq DOMAIN Edges
           /\ \A e \in Touching(n) :
                 T!NextKey(n, e) \in Beside(stored[seed[1]], {n})
           /\ \A m \in Beside(stored[seed[1]], {n}) :
                 m = n \/ \E e \in Touching(n) : T!NextKey(n, e) = m
  <1>1. \A e \in DOMAIN Edges : Edges[e].type \in ToSet(EdgeTypes)
    <2>1. stored[seed[1]] \in Generation
      BY DEF SeedsInv, Seed, WorldInv
    <2>2. PICK es, E : /\ es = Edges
                       /\ E = [type : ToSet(EdgeTypes),
                               from : Object, to : Object]
      OBVIOUS
    <2>3. es \in Seq(E)
      BY <2>1, <2>2, GenerationFacts DEF Edges
    <2>4. \A e \in DOMAIN es : es[e] \in E
      BY <2>3
    <2> QED
      BY <2>2, <2>4
  <1>2. T!Wanted(n, "outbound") \union T!Wanted(n, "inbound") = Touching(n)
    BY <1>1 DEF T!Wanted, T!Outbound, T!Inbound, Touching, Edges
  <1>3. PICK g : g = stored[seed[1]]
    OBVIOUS
  <1>4. \A m : m \in Beside(g, {n}) <=>
                 \E e \in DOMAIN Edges :
                    /\ m \in {Edges[e].from, Edges[e].to}
                    /\ Edges[e].from = n \/ Edges[e].to = n
    <2>1. ToSet(g.edges) = {Edges[e] : e \in DOMAIN Edges}
      BY <1>3 DEF ToSet, Edges
    <2>2. \A m : m \in Beside(g, {n}) <=>
                 \E e \in ToSet(g.edges) :
                    /\ m \in {e.from, e.to}
                    /\ e.from \in {n} \/ e.to \in {n}
      BY BesideFacts
    <2> QED
      BY <2>1, <2>2
  <1>5. \A e : T!NextKey(n, e) = IF Edges[e].from # n THEN Edges[e].from
                                 ELSE Edges[e].to
    BY DEF T!NextKey, Edges
  <1>6. ASSUME NEW e \in Touching(n)
        PROVE  T!NextKey(n, e) \in Beside(g, {n})
    BY <1>4, <1>5 DEF Touching
  <1>7. ASSUME NEW m \in Beside(g, {n}), m # n
        PROVE  \E e \in Touching(n) : T!NextKey(n, e) = m
    <2>1. PICK e \in DOMAIN Edges : /\ m \in {Edges[e].from, Edges[e].to}
                                    /\ Edges[e].from = n \/ Edges[e].to = n
      BY <1>4
    <2> QED
      BY <1>5, <1>7, <2>1 DEF Touching
  <1>8. Touching(n) \subseteq DOMAIN Edges
    BY DEF Touching
  <1> QED
    BY <1>2, <1>3, <1>6, <1>7, <1>8

(* A sorted and cut set of edges is all of it when the cut is not reached. *)
LEMMA RoundUncut ==
    ASSUME WorldInv, SeedsInv, step = "impact",
           NEW S, S \subseteq DOMAIN Edges, NEW m \in Nat,
           NEW f, f = T!FirstOf(T!ByPriority(S), m)
    PROVE  /\ Len(f) \in Nat
           /\ ToSet(f) \subseteq S
           /\ Len(f) < m => ToSet(f) = S
           /\ Len(T!ByPriority(S)) <= m => ToSet(f) = S
  <1>1. IsFiniteSet(S) /\ \E R : IsSorting(T!ByPriority(S), S, R)
    BY RoundSorts
  <1>2. PICK s : s = T!ByPriority(S)
    OBVIOUS
  <1>3. PICK R : IsSorting(s, S, R)
    BY <1>1, <1>2
  <1>4. PICK h : h = FirstOf(s, m)
    OBVIOUS
  <1>5. f = h
    BY <1>2, <1>4 DEF T!FirstOf, FirstOf
  <1>6. /\ h \in Seq(S) /\ ToSet(h) \subseteq S
        /\ Len(h) = IF m < Cardinality(S) THEN m ELSE Cardinality(S)
        /\ m >= Cardinality(S) => ToSet(h) = S
    BY <1>1, <1>3, <1>4, FirstFacts
  <1>7. Cardinality(S) \in Nat /\ Len(s) = Cardinality(S)
    BY <1>1, <1>3, FS_CardinalityType DEF IsSorting
  <1> QED
    BY <1>2, <1>5, <1>6, <1>7

(* A round that leaves nothing out fetches every edge of its node.         *)
LEMMA RoundFetchesAll ==
    ASSUME WorldInv, SeedsInv, step = "impact", NEW n, n = T!Here,
           NEW es, es = T!NextEdges.edges
    PROVE  /\ es \in Seq(DOMAIN Edges) /\ Len(es) <= budget
           /\ T!NextEdges.has_more \in BOOLEAN
           /\ ToSet(es) \subseteq Touching(n)
           /\ ~T!NextEdges.has_more => ToSet(es) = Touching(n)
  <1>1. budget \in Nat /\ budget # NoBound /\ budget + 1 \in Nat
    BY DiffAssumption DEF SeedsInv
  <1>2. PICK b \in Nat : b = budget
    BY <1>1
  <1>3. PICK O, I, k :   /\ O = T!Wanted(n, "outbound")
                              /\ I = T!Wanted(n, "inbound")
                              /\ k = b + 1 /\ k \in Nat
    OBVIOUS
  <1>4. O \union I = Touching(n) /\ O \subseteq DOMAIN Edges
        /\ I \subseteq DOMAIN Edges
    BY <1>3, TouchingFacts
  <1>5. PICK out, inn : /\ out = T!FirstOf(T!ByPriority(O), k)
                        /\ inn = T!FirstOf(T!ByPriority(I), k)
    OBVIOUS
  <1>6. /\ Len(out) \in Nat /\ ToSet(out) \subseteq O
        /\ Len(out) < k => ToSet(out) = O
    BY <1>3, <1>4, <1>5, RoundUncut
  <1>7. /\ Len(inn) \in Nat /\ ToSet(inn) \subseteq I
        /\ Len(inn) < k => ToSet(inn) = I
    BY <1>3, <1>4, <1>5, RoundUncut
  <1>8. PICK S : S = ToSet(out) \union ToSet(inn)
    OBVIOUS
  <1>9. S \subseteq DOMAIN Edges /\ S \subseteq Touching(n)
    BY <1>4, <1>6, <1>7, <1>8
  <1>10. PICK f : f = T!FirstOf(T!ByPriority(S), b)
    OBVIOUS
  <1>11. /\ ToSet(f) \subseteq S
         /\ Len(T!ByPriority(S)) <= b => ToSet(f) = S
    BY <1>9, <1>10, RoundUncut
  <1>12. /\ es = f
         /\ T!NextEdges.has_more =
               (Len(out) > b \/ Len(inn) > b \/ Len(T!ByPriority(S)) > b)
    <2>1. T!NextEdges = T!NextEdgesBounded(n, b)
      BY <1>1, <1>2 DEF T!NextEdges, T!EdgeBudget
    <2>2. /\ T!EdgesLimited(n, "outbound", b + 1) = out
          /\ T!EdgesLimited(n, "inbound", b + 1) = inn
      BY <1>3, <1>5 DEF T!EdgesLimited
    <2>3. T!ByPriority(T!ToSet(out) \union T!ToSet(inn)) = T!ByPriority(S)
      BY <1>8, SameToSet
    <2>4. PICK merged : merged = T!ByPriority(S)
      OBVIOUS
    <2>5. /\ T!NextEdgesBounded(n, b).edges = T!FirstOf(merged, b)
          /\ T!NextEdgesBounded(n, b).has_more =
                (Len(out) > b \/ Len(inn) > b \/ Len(merged) > b)
      BY <2>2, <2>3, <2>4 DEF T!NextEdgesBounded
    <2> QED
      BY <1>10, <2>1, <2>4, <2>5
  <1>13. Len(T!ByPriority(S)) \in Nat
    <2>1. IsFiniteSet(S) /\ \E R : IsSorting(T!ByPriority(S), S, R)
      BY <1>9, RoundSorts
    <2> QED
      BY <2>1, FS_CardinalityType DEF IsSorting
  <1>14. ~T!NextEdges.has_more => ToSet(es) = Touching(n)
    <2> SUFFICES ASSUME ~T!NextEdges.has_more PROVE ToSet(f) = Touching(n)
      BY <1>12
    <2>1. /\ ~(Len(out) > b) /\ ~(Len(inn) > b)
          /\ ~(Len(T!ByPriority(S)) > b)
      BY <1>12
    <2>2. /\ Len(out) < k /\ Len(inn) < k
          /\ Len(T!ByPriority(S)) <= b
      BY <1>3, <1>6, <1>7, <1>13, <2>1
    <2> QED
      BY <1>4, <1>6, <1>7, <1>8, <1>11, <2>2
  <1>15. ToSet(es) \subseteq Touching(n)
    BY <1>9, <1>11, <1>12
  <1>16. LET more == T!NextEdges
         IN  /\ more.edges \in Seq(DOMAIN Edges)
             /\ budget # NoBound => Len(more.edges) <= budget
             /\ more.has_more \in BOOLEAN
    BY RoundFetches
  <1> QED
    BY <1>1, <1>14, <1>15, <1>16

(* What a round finds: new nodes beside its own, and each of those its     *)
(* edges lead to.                                                          *)
LEMMA RoundNew ==
    ASSUME WorldInv, SeedsInv, step = "impact", T!Running,
           NEW P, P = Head(queue), NEW n, n = Last(P).node,
           NEW es \in Seq(DOMAIN Edges), ToSet(es) \subseteq Touching(n),
           NEW found, found = T!Found(es), NEW g, g = stored[seed[1]]
    PROVE  /\ found \in Seq(FoundPath) /\ Len(found) <= Len(es)
           /\ \A q \in ToSet(found) : /\ Len(q) = Len(P) + 1
                                      /\ Last(q).node \in Beside(g, {n})
                                      /\ Last(q).node \notin visited
           /\ \A e \in ToSet(es) :
                 T!NextKey(n, e) \in visited \union EndsOf(ToSet(found))
  <1>1. /\ P = T!Path /\ n = T!Here
        /\ P \in FoundPath
    <2>1. queue \in Seq(FoundPath) /\ queue # <<>>
      BY DEF SeedsInv, T!Running
    <2> QED
      BY <2>1 DEF T!Path, T!Here, T!Last, Last
  <1>2. PICK next : next = [i \in 1 .. Len(es) |-> T!NextKey(n, es[i])]
    OBVIOUS
  <1>3. PICK N : N = {i \in 1 .. Len(es) :
                        /\ next[i] \notin visited
                        /\ \A j \in 1 .. i - 1 : next[j] # next[i]}
    OBVIOUS
  <1>4. Len(es) \in Nat /\ DOMAIN es = 1 .. Len(es)
        /\ \A i \in 1 .. Len(es) : es[i] \in DOMAIN Edges /\ es[i] \in ToSet(es)
    BY DEF ToSet
  <1>5. T!NewSteps(es) = T!Ascending(N)
    <2>1. N = {i \in 1 .. Len(es) :
                 /\ T!NextKey(n, es[i]) \notin visited
                 /\ \A j \in 1 .. i - 1 : T!NextKey(n, es[j])
                                              # T!NextKey(n, es[i])}
      <3>1. \A i \in 1 .. Len(es) : \A j \in 1 .. i - 1 : j \in 1 .. Len(es)
        BY <1>4
      <3>2. \A i \in 1 .. Len(es) : next[i] = T!NextKey(n, es[i])
        BY <1>2
      <3>3. \A i \in 1 .. Len(es) :
               (\A j \in 1 .. i - 1 : next[j] # next[i])
               <=> (\A j \in 1 .. i - 1 : T!NextKey(n, es[j])
                                            # T!NextKey(n, es[i]))
        BY <3>1, <3>2
      <3> QED
        BY <1>3, <3>2, <3>3
    <2> QED
      BY <1>1, <2>1 DEF T!NewSteps
  <1>6. N \subseteq Nat /\ N \subseteq 1 .. Len(es) /\ IsFiniteSet(N)
        /\ Cardinality(N) <= Len(es)
    <2>1. PICK r \in Nat : r = Len(es)
      BY <1>4
    <2>2. /\ IsFiniteSet(1 .. r)
          /\ Cardinality(1 .. r) = IF 1 > r THEN 0 ELSE r - 1 + 1
      BY FS_Interval
    <2>3. N \subseteq 1 .. r
      BY <1>3, <2>1
    <2>4. IsFiniteSet(N) /\ Cardinality(N) <= Cardinality(1 .. r)
      BY <2>2, <2>3, FS_Subset
    <2>5. Cardinality(N) \in Nat
      BY <2>4, FS_CardinalityType
    <2>6. Cardinality(N) <= r
      BY <2>2, <2>4, <2>5
    <2> QED
      BY <2>1, <2>3, <2>4, <2>6
  <1>7. PICK steps : steps = T!NewSteps(es)
    OBVIOUS
  <1>8. /\ steps \in Seq(N) /\ ToSet(steps) = N /\ Len(steps) = Cardinality(N)
        /\ Len(steps) \in Nat /\ DOMAIN steps = 1 .. Len(steps)
    <2>1. T!Ascending(N) = Ascending(N)
      BY SameSorted DEF T!Ascending, Ascending
    <2>2. PICK order : IsSorting(Ascending(N), N, order)
      BY <1>6, KeySorts
    <2>3. PICK s : s = Ascending(N)
      OBVIOUS
    <2>4. /\ s \in Seq(N) /\ ToSet(s) = N /\ Len(s) = Cardinality(N)
      BY <2>2, <2>3 DEF IsSorting
    <2>5. Len(s) \in Nat /\ DOMAIN s = 1 .. Len(s)
      BY <2>4
    <2> QED
      BY <1>5, <1>7, <2>1, <2>3, <2>4, <2>5
  <1>9. /\ \A k \in 1 .. Len(steps) : steps[k] \in N
        /\ \A i \in N : \E k \in 1 .. Len(steps) : steps[k] = i
    BY <1>8 DEF ToSet
  <1>10. found = [k \in 1 .. Len(steps) |-> T!Along(P, es[steps[k]])]
    BY <1>1, <1>7 DEF T!Found
  <1>11. /\ found \in Seq(FoundPath) /\ Len(found) = Len(steps)
         /\ DOMAIN found = 1 .. Len(steps)
    <2>1. found \in Seq(FoundPath)
      BY RoundFinds
    <2>2. DOMAIN found = 1 .. Len(steps)
      BY <1>10
    <2> QED
      BY <1>8, <2>1, <2>2
  <1>12. ASSUME NEW k \in 1 .. Len(steps)
         PROVE  /\ Len(found[k]) = Len(P) + 1
                /\ Last(found[k]).node = next[steps[k]]
    <2>1. PICK e, h : /\ e = es[steps[k]]
                      /\ h = [node |-> T!NextKey(n, e), edge |-> e]
      OBVIOUS
    <2>2. found[k] = Append(P, h)
      BY <1>1, <1>10, <2>1 DEF T!Along, T!Here
    <2>3. PICK H : H = [node : Object, edge : Nat]
      OBVIOUS
    <2>4. P \in Seq(H) /\ Len(P) \in Nat
      BY <1>1, <2>3 DEF FoundPath
    <2>5. /\ Len(Append(P, h)) = Len(P) + 1
          /\ Append(P, h)[Len(P) + 1] = h
      BY <2>4
    <2>6. Last(Append(P, h)) = h
      BY <2>4, <2>5 DEF Last
    <2>7. next[steps[k]] = T!NextKey(n, e)
      BY <1>2, <1>6, <1>9, <2>1
    <2> QED
      BY <2>1, <2>2, <2>5, <2>6, <2>7
  <1>13. ASSUME NEW q \in ToSet(found)
         PROVE  /\ Len(q) = Len(P) + 1
                /\ Last(q).node \in Beside(g, {n})
                /\ Last(q).node \notin visited
    <2>1. PICK k \in 1 .. Len(steps) : q = found[k]
      BY <1>11 DEF ToSet
    <2>2. PICK i \in N : i = steps[k]
      BY <1>9
    <2>3. next[i] \notin visited
      BY <1>3
    <2>4. es[i] \in Touching(n) /\ next[i] = T!NextKey(n, es[i])
      BY <1>2, <1>4, <1>6
    <2>5. next[i] \in Beside(g, {n})
      BY <2>4, TouchingFacts
    <2> QED
      BY <1>12, <2>1, <2>2, <2>3, <2>5
  <1>14. ASSUME NEW e \in ToSet(es), T!NextKey(n, e) \notin visited
         PROVE  T!NextKey(n, e) \in EndsOf(ToSet(found))
    <2>1. PICK i \in 1 .. Len(es) : e = es[i]
      BY <1>4 DEF ToSet
    <2>2. PICK m : m = T!NextKey(n, e)
      OBVIOUS
    <2>3. PICK Y : Y = {j \in 1 .. Len(es) : next[j] = m}
      OBVIOUS
    <2>4. i \in Y /\ Y \subseteq Nat
      BY <1>2, <1>4, <2>1, <2>2, <2>3
    <2>5. PICK j \in Y : \A x \in Y : j <= x
      BY <2>4, LeastMember
    <2>6. j \in 1 .. Len(es) /\ next[j] = m
      BY <2>3
    <2>7. \A x \in 1 .. j - 1 : next[x] # next[j]
      <3>1. \A x \in 1 .. j - 1 : x \in 1 .. Len(es) /\ ~(j <= x)
        BY <1>4, <2>6
      <3> QED
        BY <2>3, <2>5, <2>6, <3>1
    <2>8. j \in N
      BY <1>3, <1>14, <2>2, <2>6, <2>7
    <2>9. PICK k \in 1 .. Len(steps) : steps[k] = j
      BY <1>9, <2>8
    <2>10. Last(found[k]).node = m /\ found[k] \in ToSet(found)
      BY <1>11, <1>12, <2>6, <2>9 DEF ToSet
    <2> QED
      BY <2>2, <2>10 DEF EndsOf
  <1> QED
    BY <1>6, <1>8, <1>11, <1>13, <1>14

(* One edge further.                                                       *)
LEMMA RingStep ==
    ASSUME NEW g, NEW o, NEW d \in {0, 1}, NEW n \in Ring(g, o, d),
           NEW m \in Beside(g, {n})
    PROVE  m \in Ring(g, o, d + 1)
  <1>1. CASE d = 0
    BY <1>1 DEF Ring
  <1>2. CASE d = 1
    <2>1. PICK near : near = {o} \union Beside(g, {o})
      OBVIOUS
    <2>2. n \in near
      BY <1>2, <2>1 DEF Ring
    <2>3. Beside(g, {n}) \subseteq Beside(g, near)
      BY <2>2, BesideFacts
    <2>4. Reach(g, o) = near \union Beside(g, near)
      BY <2>1 DEF Reach
    <2> QED
      BY <1>2, <2>3, <2>4 DEF Ring
  <1> QED
    BY <1>1, <1>2

(* A path of the last level leaves the queue.                              *)
LEMMA SearchSkips ==
    ASSUME SeedsInv, SearchInv, step = "impact", T!SkipLastLevel,
           UNCHANGED <<stored, history, ends, seed>>
    PROVE  SearchInv'
  <1>1. PICK P, Q, R : /\ P = Head(queue) /\ Q = ToSet(Tail(queue))
                       /\ R = ToSet(results)
    OBVIOUS
  <1>2. PICK g, o : g = stored[seed[1]] /\ o = seed[2]
    OBVIOUS
  <1>3. queue \in Seq(FoundPath) /\ queue # <<>>
    BY DEF SeedsInv, T!SkipLastLevel, T!Running
  <1>4. ToSet(queue) = {P} \union Q
    BY <1>1, <1>3, HeadAndTail
  <1>5. /\ Len(P) = 3 /\ ToSet(queue') = Q
        /\ results' = results /\ ToSet(results') = R /\ visited' = visited
        /\ cut' = cut /\ stopped' = stopped
    <2>1. /\ Len(P) - 1 = 2 /\ queue' = Tail(queue)
          /\ results' = results /\ visited' = visited
          /\ cut' = cut /\ stopped' = stopped
      BY <1>1 DEF T!SkipLastLevel, T!Depth, T!Path
    <2>2. Len(P) \in Nat
      BY <1>1, <1>3 DEF FoundPath
    <2> QED
      BY <1>1, <2>1, <2>2
  <1>6. Settled' <=> Settled
    BY DEF Settled, Held
  <1>7. /\ EndsOf(Q) \subseteq visited
        /\ OfLength(2, R) \ Q = OfLength(2, R) \ ({P} \union Q)
    <2>1. EndsOf(Q) \subseteq EndsOf({P} \union Q)
      BY DEF EndsOf
    <2>2. P \notin OfLength(2, R)
      BY <1>5 DEF OfLength
    <2> QED
      BY <1>4, <2>1, <2>2 DEF SearchInv
  <1>8. queue # <<<<[node |-> o, edge |-> 0]>>>>
    <2>1. PICK p : p = <<[node |-> o, edge |-> 0]>>
      OBVIOUS
    <2>2. Len(p) = 1
      BY <2>1
    <2>3. queue = <<p>> => P = p
      BY <1>1
    <2> QED
      BY <1>5, <2>1, <2>2, <2>3
  <1>9. /\ stopped \in BOOLEAN /\ (stopped => cut)
        /\ visited = {o} \union EndsOf(R) /\ o \notin EndsOf(R)
        /\ Settled =>
             /\ \A p \in {P} \union Q \union R :
                   Len(p) <= 3 /\ Last(p).node \in Ring(g, o, Len(p) - 1)
             /\ ~cut =>
                   /\ Beside(g, {o}) \subseteq {o} \union EndsOf(OfLength(2, R))
                   /\ \A p \in OfLength(2, R) \ ({P} \union Q) :
                         Beside(g, {Last(p).node}) \subseteq visited
    BY <1>1, <1>2, <1>4, <1>8 DEF SearchInv
  <1>10. stored'[seed'[1]] = g /\ seed'[2] = o
    BY <1>2
  <1> QED
    BY <1>5, <1>6, <1>7, <1>9, <1>10 DEF SearchInv

(* A round of the search.                                                  *)
LEMMA RoundTaken ==
    ASSUME WorldInv, SeedsInv, step = "impact", T!Expand
    PROVE  \E es \in Seq(DOMAIN Edges), found \in Seq(FoundPath) :
              /\ es = T!NextEdges.edges /\ found = T!Found(es)
              /\ results' = results \o found
              /\ queue' = Tail(queue) \o found
              /\ visited' = visited \union EndsOf(ToSet(found))
              /\ budget' = budget - Len(es)
              /\ cut' = (cut \/ T!NextEdges.has_more)
              /\ stopped' = T!NextEdges.has_more
              /\ T!NextEdges.has_more \in BOOLEAN
              /\ Len(es) <= budget
              /\ Len(Head(queue)) \in {1, 2}
  <1>1. T!Running
    BY DEF T!Expand
  <1>2. PICK es : es = T!NextEdges.edges
    OBVIOUS
  <1>3. PICK found : found = T!Found(es)
    OBVIOUS
  <1>4. /\ es \in Seq(DOMAIN Edges) /\ Len(es) <= budget
        /\ T!NextEdges.has_more \in BOOLEAN
    <2>1. PICK n : n = T!Here
      OBVIOUS
    <2> QED
      BY <1>2, <2>1, RoundFetchesAll
  <1>5. found \in Seq(FoundPath)
    BY <1>1, <1>3, <1>4, RoundFinds
  <1>6. /\ results' = results \o found
        /\ queue' = Tail(queue) \o T!Queued(found)
        /\ visited' = visited \union {T!Last(p).node : p \in T!ToSet(found)}
        /\ budget' = T!BudgetAfter(Len(es))
        /\ cut' = (cut \/ T!NextEdges.has_more)
        /\ stopped' = T!NextEdges.has_more
        /\ T!Depth < 2
    BY <1>2, <1>3 DEF T!Expand
  <1>7. T!Queued(found) = found
    BY DEF T!Queued
  <1>8. {T!Last(p).node : p \in T!ToSet(found)} = EndsOf(ToSet(found))
    <2>1. \A p : T!Last(p) = Last(p)
      BY DEF T!Last, Last
    <2> QED
      BY <2>1, SameToSet DEF EndsOf
  <1>9. budget' = budget - Len(es)
    BY <1>6, DiffAssumption DEF T!BudgetAfter, SeedsInv
  <1>10. Len(Head(queue)) \in {1, 2}
    <2>1. queue \in Seq(FoundPath) /\ queue # <<>>
      BY <1>1 DEF SeedsInv, T!Running
    <2>2. Head(queue) \in FoundPath
      BY <2>1
    <2>3. Len(Head(queue)) \in Nat /\ Len(Head(queue)) > 0
      BY <2>2 DEF FoundPath
    <2>4. Len(Head(queue)) - 1 < 2
      BY <1>6 DEF T!Depth, T!Path
    <2>5. PICK k \in Nat : k = Len(Head(queue))
      BY <2>3
    <2>6. k > 0 /\ k - 1 < 2
      BY <2>3, <2>4, <2>5
    <2>7. k \in {1, 2}
      BY <2>6
    <2> QED
      BY <2>5, <2>7
  <1> QED
    BY <1>2, <1>3, <1>4, <1>5, <1>6, <1>7, <1>8, <1>9, <1>10

(* What it finds is as near as its paths say, and what it leaves out is    *)
(* told.                                                                   *)
LEMMA SearchExpands ==
    ASSUME WorldInv, SeedsInv, SearchInv, step = "impact", T!Expand,
           UNCHANGED <<stored, history, ends, seed>>
    PROVE  SearchInv'
  <1>1. T!Running
    BY DEF T!Expand
  <1>2. PICK es \in Seq(DOMAIN Edges), found \in Seq(FoundPath) :
              /\ es = T!NextEdges.edges /\ found = T!Found(es)
              /\ results' = results \o found
              /\ queue' = Tail(queue) \o found
              /\ visited' = visited \union EndsOf(ToSet(found))
              /\ cut' = (cut \/ T!NextEdges.has_more)
              /\ stopped' = T!NextEdges.has_more
              /\ T!NextEdges.has_more \in BOOLEAN
              /\ Len(Head(queue)) \in {1, 2}
    BY RoundTaken
  <1>3. PICK P, Q, R, F : /\ P = Head(queue) /\ Q = ToSet(Tail(queue))
                          /\ R = ToSet(results) /\ F = ToSet(found)
    OBVIOUS
  <1>4. PICK g, o, n : /\ g = stored[seed[1]] /\ o = seed[2]
                       /\ n = Last(P).node
    OBVIOUS
  <1>5. /\ queue \in Seq(FoundPath) /\ queue # <<>>
        /\ results \in Seq(FoundPath) /\ cut \in BOOLEAN
    BY <1>1 DEF SeedsInv, T!Running
  <1>6. /\ ToSet(queue) = {P} \union Q
        /\ Tail(queue) \in Seq(FoundPath)
    BY <1>3, <1>5, HeadAndTail
  <1>7. /\ ToSet(queue') = Q \union F
        /\ ToSet(results') = R \union F
        /\ visited' = visited \union EndsOf(F)
    <2>1. ToSet(results \o found) = R \union F
      BY <1>3, <1>5, JoinedLists
    <2>2. ToSet(Tail(queue) \o found) = Q \union F
      BY <1>3, <1>6, JoinedLists
    <2> QED
      BY <1>2, <1>3, <2>1, <2>2
  <1>8. n = T!Here
    BY <1>3, <1>4 DEF T!Here, T!Path, T!Last, Last
  <1>9. /\ ToSet(es) \subseteq Touching(n)
        /\ ~T!NextEdges.has_more => ToSet(es) = Touching(n)
    BY <1>2, <1>8, RoundFetchesAll
  <1>10. /\ \A q \in F : /\ Len(q) = Len(P) + 1
                         /\ Last(q).node \in Beside(g, {n})
                         /\ Last(q).node \notin visited
         /\ \A e \in ToSet(es) : T!NextKey(n, e) \in visited \union EndsOf(F)
    <2>1. /\ found \in Seq(FoundPath) /\ Len(found) <= Len(es)
          /\ \A q \in ToSet(found) : /\ Len(q) = Len(P) + 1
                                     /\ Last(q).node \in Beside(g, {n})
                                     /\ Last(q).node \notin visited
          /\ \A e \in ToSet(es) :
                T!NextKey(n, e) \in visited \union EndsOf(ToSet(found))
      <3>1. ToSet(es) \subseteq Touching(n) /\ found = T!Found(es)
        BY <1>2, <1>9
      <3>2. P = Head(queue) /\ n = Last(P).node /\ g = stored[seed[1]]
        BY <1>3, <1>4
      <3> QED
        BY <1>1, <3>1, <3>2, RoundNew
    <2> QED
      BY <1>3, <2>1
  <1>11. Settled' <=> Settled
    BY DEF Settled, Held
  <1>12. /\ stopped \in BOOLEAN /\ (stopped => cut)
         /\ visited = {o} \union EndsOf(R) /\ o \notin EndsOf(R)
         /\ EndsOf({P} \union Q) \subseteq visited
         /\ Settled =>
              /\ \A p \in {P} \union Q \union R :
                    Len(p) <= 3 /\ Last(p).node \in Ring(g, o, Len(p) - 1)
              /\ ~cut =>
                   \/ queue = <<<<[node |-> o, edge |-> 0]>>>> /\ results = <<>>
                   \/ /\ Beside(g, {o}) \subseteq
                            {o} \union EndsOf(OfLength(2, R))
                      /\ \A p \in OfLength(2, R) \ ({P} \union Q) :
                            Beside(g, {Last(p).node}) \subseteq visited
    BY <1>3, <1>4, <1>6 DEF SearchInv
  <1>13. /\ EndsOf(R \union F) = EndsOf(R) \union EndsOf(F)
         /\ EndsOf(Q \union F) = EndsOf(Q) \union EndsOf(F)
         /\ EndsOf({P} \union Q) = {n} \union EndsOf(Q)
         /\ \A q \in F : Last(q).node \in EndsOf(F)
         /\ \A x \in EndsOf(F) : \E q \in F : x = Last(q).node
    BY <1>4 DEF EndsOf
  <1>14. /\ visited' = {o} \union EndsOf(R \union F)
         /\ o \notin EndsOf(R \union F)
         /\ EndsOf(Q \union F) \subseteq visited'
    BY <1>7, <1>10, <1>12, <1>13
  <1>15. ASSUME Settled, NEW q \in F
         PROVE  Len(q) <= 3 /\ Last(q).node \in Ring(g, o, Len(q) - 1)
    <2>1. PICK d : d = Len(P) - 1
      OBVIOUS
    <2>2. d \in {0, 1} /\ n \in Ring(g, o, d)
      BY <1>2, <1>3, <1>4, <1>12, <1>15, <2>1
    <2>3. Last(q).node \in Ring(g, o, d + 1)
      BY <1>10, <2>2, RingStep
    <2>4. Len(P) \in {1, 2} /\ Len(q) = Len(P) + 1
      BY <1>2, <1>3, <1>10
    <2>5. Len(q) <= 3
      <3>1. PICK a, b : a = Len(P) /\ b = Len(q)
        OBVIOUS
      <3>2. a \in {1, 2} /\ b = a + 1
        BY <2>4, <3>1
      <3>3. b <= 3
        BY <3>2
      <3> QED
        BY <3>1, <3>3
    <2>6. Len(q) - 1 = d + 1
      BY <2>1, <2>4
    <2>7. PICK k : k = Len(q) - 1
      OBVIOUS
    <2>8. Last(q).node \in Ring(g, o, k)
      BY <2>3, <2>6, <2>7
    <2> QED
      BY <2>5, <2>7, <2>8
  <1>16. ASSUME ~T!NextEdges.has_more
         PROVE  Beside(g, {n}) \subseteq visited'
    <2>1. ASSUME NEW m \in Beside(g, {n}), m # n
          PROVE  m \in visited'
      <3>1. PICK e \in Touching(n) : T!NextKey(n, e) = m
        BY <1>4, <2>1, TouchingFacts
      <3>2. e \in ToSet(es)
        BY <1>9, <1>16, <3>1
      <3> QED
        BY <1>7, <1>10, <3>1, <3>2
    <2>2. n \in visited'
      BY <1>7, <1>12, <1>13
    <2> QED
      BY <2>1, <2>2
  <1>17. ASSUME Settled, ~cut, ~T!NextEdges.has_more
         PROVE  /\ Beside(g, {o}) \subseteq
                      {o} \union EndsOf(OfLength(2, R \union F))
                /\ \A p \in OfLength(2, R \union F) \ (Q \union F) :
                      Beside(g, {Last(p).node}) \subseteq visited'
    <2>1. CASE queue = <<<<[node |-> o, edge |-> 0]>>>> /\ results = <<>>
      <3>1. PICK h : h = [node |-> o, edge |-> 0]
        OBVIOUS
      <3>2. P = <<h>> /\ R = {}
        BY <1>3, <2>1, <3>1 DEF ToSet
      <3>3. Len(P) = 1 /\ n = o
        <4>1. Len(P) = 1 /\ Last(P) = h
          BY <3>2 DEF Last
        <4> QED
          BY <1>4, <3>1, <4>1
      <3>4. OfLength(2, R \union F) = F
        BY <1>10, <3>2, <3>3 DEF OfLength
      <3>5. visited' = {o} \union EndsOf(F)
        BY <1>14, <3>2
      <3> QED
        BY <1>16, <1>17, <3>3, <3>4, <3>5
    <2>2. CASE /\ Beside(g, {o}) \subseteq
                     {o} \union EndsOf(OfLength(2, R))
               /\ \A p \in OfLength(2, R) \ ({P} \union Q) :
                     Beside(g, {Last(p).node}) \subseteq visited
      <3>1. EndsOf(OfLength(2, R)) \subseteq EndsOf(OfLength(2, R \union F))
        BY DEF EndsOf, OfLength
      <3>2. ASSUME NEW p \in OfLength(2, R \union F) \ (Q \union F)
            PROVE  Beside(g, {Last(p).node}) \subseteq visited'
        <4>1. p \in OfLength(2, R)
          BY <3>2 DEF OfLength
        <4>2. CASE p = P
          BY <1>4, <1>16, <1>17, <4>2
        <4>3. CASE p # P
          BY <1>7, <2>2, <3>2, <4>1, <4>3
        <4> QED
          BY <4>2, <4>3
      <3> QED
        BY <2>2, <3>1, <3>2
    <2> QED
      BY <1>12, <1>17, <2>1, <2>2
  <1>18. /\ stopped' \in BOOLEAN /\ (stopped' => cut')
         /\ ~cut' => ~cut /\ ~T!NextEdges.has_more
    BY <1>2
  <1>19. stored'[seed'[1]] = g /\ seed'[2] = o
    BY <1>4
  <1>20. Settled => \A p \in (Q \union F) \union (R \union F) :
                       Len(p) <= 3 /\ Last(p).node \in Ring(g, o, Len(p) - 1)
    BY <1>12, <1>15
  <1> QED
    BY <1>7, <1>11, <1>14, <1>17, <1>18, <1>19, <1>20 DEF SearchInv

(* A round of a seed's analysis.                                           *)
LEMMA TraverseWhole ==
    ASSUME DiffIInv, WholeInv, Traverse
    PROVE  WholeInv'
  <1> USE DEF DiffIInv
  <1>1. /\ step = "impact" /\ step' = step /\ UNCHANGED world
        /\ stored' = stored /\ history' = history /\ Limit' = Limit
        /\ ends' = ends /\ diff' = diff /\ seeds' = seeds /\ seed' = seed
        /\ remaining' = remaining /\ impacts' = impacts
        /\ truncated' = truncated
        /\ T!Expand \/ T!SkipLastLevel
    BY DEF Traverse, world, Limit
  <1>2. /\ HistoryInv /\ ListsInv /\ CoverInv /\ SumInv /\ ImpactsInv
        /\ SearchInv
    BY <1>1 DEF WholeInv, Compared
  <1>3. Pending' = Pending /\ InHand' = InHand /\ Analysed' = Analysed
    BY <1>1 DEF Pending, InHand, Analysed
  <1>4. HistoryInv'
    BY <1>1, <1>2 DEF HistoryInv
  <1>5. ListsInv'
    BY <1>1, <1>2, <1>3 DEF ListsInv
  <1>6. CoverInv'
    BY <1>1, <1>2, <1>3 DEF CoverInv, ListedSeeds, ObjectsIn
  <1>7. ImpactsInv'
    BY <1>1, <1>2 DEF ImpactsInv, Settled, Held
  <1>8. SearchInv'
    BY <1>1, <1>2, SearchSkips, SearchExpands
  <1>9. Len(results') + budget' <= remaining
    <2>1. Len(results) + budget <= remaining
      BY <1>1, <1>2 DEF SumInv
    <2>2. CASE T!SkipLastLevel
      BY <2>1, <2>2 DEF T!SkipLastLevel
    <2>3. CASE T!Expand
      <3>1. PICK es \in Seq(DOMAIN Edges), found \in Seq(FoundPath) :
               /\ es = T!NextEdges.edges /\ found = T!Found(es)
               /\ results' = results \o found
               /\ budget' = budget - Len(es)
               /\ Len(es) <= budget
        BY <1>1, <2>3, RoundTaken
      <3>2. Len(found) <= Len(es)
        <4>1. PICK P, n, g : /\ P = Head(queue) /\ n = Last(P).node
                             /\ g = stored[seed[1]]
          OBVIOUS
        <4>2. T!Running
          BY <2>3 DEF T!Expand
        <4>3. n = T!Here
          BY <4>1 DEF T!Here, T!Path, T!Last, Last
        <4>4. ToSet(es) \subseteq Touching(n)
          BY <1>1, <3>1, <4>3, RoundFetchesAll
        <4> QED
          BY <1>1, <3>1, <4>1, <4>2, <4>4, RoundNew
      <3>3. Len(results') = Len(results) + Len(found)
        BY <3>1, JoinedLists DEF SeedsInv
      <3>4. PICK a \in Nat, b \in Nat, c \in Nat, r \in Nat, m \in Nat :
               /\ a = Len(found) /\ b = Len(es) /\ c = Len(results)
               /\ r = remaining /\ m = budget
        BY WorldKept DEF SeedsInv
      <3>5. a <= b /\ b <= m /\ c + m <= r
        BY <2>1, <3>1, <3>2, <3>4
      <3>6. (c + a) + (m - b) <= r
        BY <3>5
      <3> QED
        BY <3>1, <3>3, <3>4, <3>6
    <2> QED
      BY <1>1, <2>2, <2>3
  <1>10. SumInv'
    BY <1>1, <1>2, <1>9 DEF SumInv, NodesFound
  <1> QED
    BY <1>1, <1>4, <1>5, <1>6, <1>7, <1>8, <1>10 DEF WholeInv, Compared

(* An index run replaces a snapshot: of the two compared, or another.      *)
LEMMA ReindexWhole ==
    ASSUME DiffIInv, WholeInv, NEW k \in SnapshotKey, NEW g \in Generations[k],
           Reindex(k, g)
    PROVE  WholeInv'
  <1>1. /\ step' = step /\ Limit' = Limit
        /\ history' = [history EXCEPT ![k] = @ \union {g}]
        /\ diff' = diff /\ ends' = ends /\ seeds' = seeds /\ seed' = seed
        /\ remaining' = remaining /\ queue' = queue /\ visited' = visited
        /\ results' = results /\ budget' = budget /\ cut' = cut
        /\ stopped' = stopped /\ impacts' = impacts
        /\ truncated' = truncated
    BY DEF Reindex, traversal, Limit
  <1>2. HistoryInv'
    <2>1. history \in [SnapshotKey -> SUBSET (Generation \union {Missing})]
      BY DEF DiffIInv, WorldInv
    <2>2. \A j \in SnapshotKey : IsFiniteSet(history[j])
      BY DEF WholeInv, HistoryInv
    <2>3. IsFiniteSet(history[k] \union {g})
      BY <2>2, FS_AddElement
    <2>4. \A j \in SnapshotKey : history'[j] =
             IF j = k THEN history[k] \union {g} ELSE history[j]
      BY <1>1, <2>1
    <2> QED
      BY <2>2, <2>3, <2>4 DEF HistoryInv
  <1>3. step \in Compared /\ Settled' =>
           /\ Settled
           /\ \A j \in {ends[1], ends[2]} : stored'[j] = stored[j]
    BY SettledBefore
  <1> QED
    BY <1>1, <1>2, <1>3, WholeKept

(* Nothing is left to be done when the diff is returned.                   *)
DoneInv == step = "done" => seeds = <<>>

LEMMA ReturnWhole ==
    ASSUME DiffIInv, WholeInv, ReturnDiff
    PROVE  WholeInv' /\ DoneInv'
  <1>1. /\ step = "seed" /\ step' = "done" /\ Limit' = Limit
        /\ stored' = stored /\ history' = history
        /\ diff' = diff /\ ends' = ends /\ seeds' = seeds /\ seed' = seed
        /\ remaining' = remaining /\ queue' = queue /\ visited' = visited
        /\ results' = results /\ budget' = budget /\ cut' = cut
        /\ stopped' = stopped /\ impacts' = impacts
        /\ truncated' = truncated /\ seeds = <<>>
    BY DEF ReturnDiff, traversal, Limit, world
  <1>2. HistoryInv'
    BY <1>1 DEF WholeInv, HistoryInv
  <1>3. Settled' <=> Settled
    BY <1>1 DEF Settled, Held
  <1>4. (step' = "impact" <=> step = "impact")
        /\ (step' \in Compared <=> step \in Compared)
    BY <1>1 DEF Compared
  <1>5. WholeInv'
    BY <1>1, <1>2, <1>3, <1>4, WholeKept
  <1> QED
    BY <1>1, <1>5 DEF DoneInv

LEMMA WholeStep ==
    ASSUME DiffIInv, WholeInv, DoneInv, [DiffNext]_diffVars
    PROVE  WholeInv' /\ DoneInv'
  <1>1. CASE UNCHANGED diffVars
    <2>1. HistoryInv' /\ (Settled' <=> Settled) /\ Limit' = Limit
      BY <1>1 DEF diffVars, HistoryInv, WholeInv, Settled, Held, Limit
    <2> QED
      BY <1>1, <2>1, WholeKept DEF diffVars, traversal, DoneInv
  <1>2. ASSUME NEW k \in SnapshotKey, NEW g \in Generations[k], Reindex(k, g)
        PROVE  WholeInv' /\ DoneInv'
    <2>1. DoneInv'
      BY <1>2 DEF Reindex, DoneInv
    <2> QED
      BY <1>2, <2>1, ReindexWhole
  <1>3. CASE ResolveFrom \/ ResolveTo \/ RefuseResultLimit \/ ReadRows
    <2>1. UNCHANGED <<history, impacts>>
      BY <1>3 DEF ResolveFrom, ResolveTo, Resolve, RefuseResultLimit,
                  ReadRows, world
    <2>2. step \notin Compared /\ step' \notin Compared
      BY <1>3 DEF ResolveFrom, ResolveTo, Resolve, RefuseResultLimit,
                  ReadRows, Compared
    <2> QED
      BY <2>1, <2>2, WholeBefore DEF DoneInv, Compared
  <1>4. CASE Compare
    <2>1. DoneInv'
      BY <1>4 DEF Compare, DoneInv
    <2> QED
      BY <1>4, <2>1, CompareWhole
  <1>5. CASE StartSeed
    <2>1. DoneInv'
      BY <1>5 DEF StartSeed, DoneInv
    <2> QED
      BY <1>5, <2>1, StartSeedWhole
  <1>6. CASE Traverse
    <2>1. DoneInv'
      BY <1>6 DEF Traverse, DoneInv
    <2> QED
      BY <1>6, <2>1, TraverseWhole
  <1>7. CASE FinishSeed
    <2>1. DoneInv'
      BY <1>7 DEF FinishSeed, DoneInv
    <2> QED
      BY <1>7, <2>1, FinishSeedWhole
  <1>8. CASE ReturnDiff
    BY <1>8, ReturnWhole
  <1> QED
    BY <1>1, <1>2, <1>3, <1>4, <1>5, <1>6, <1>7, <1>8 DEF DiffNext

(* WholeInv and DoneInv hold of every diff: they are inductive next to     *)
(* DiffIInv, which says what a running diff has resolved and read.         *)
THEOREM DiffWhole == DiffSpec => [](WholeInv /\ DoneInv)
  <1>1. DiffInit => WholeInv /\ DoneInv
    BY InitWhole DEF DiffInit, DoneInv
  <1>2. DiffIInv /\ WholeInv /\ DoneInv /\ [DiffNext]_diffVars
           => (WholeInv /\ DoneInv)'
    BY WholeStep
  <1> QED
    BY <1>1, <1>2, DiffInvariant, PTL DEF DiffSpec

(* What the invariants say of a diff that has been returned.               *)
LEMMA WholeIsComplete ==
    ASSUME DiffIInv, WholeInv, DoneInv, step = "done"
    PROVE  DiffIsComplete
  <1> USE DEF DiffIInv
  <1>1. /\ ListsInv /\ CoverInv /\ SumInv /\ ImpactsInv /\ HistoryInv
        /\ seeds = <<>>
    BY DEF WholeInv, Compared, DoneInv
  <1>2. /\ Len(seeds) = 0 /\ ToSet(seeds) = {} /\ InHand = {} /\ Pending = 0
    BY <1>1 DEF ToSet, InHand, Pending
  <1>3. PICK n \in Nat, r \in Nat, m \in Nat :
           n = Len(impacts) /\ r = remaining /\ m = Limit
    <2>1. Limit \in Nat
      BY DiffAssumption DEF WorldInv, Limit
    <2> QED
      BY <2>1 DEF SeedsInv
  <1>4. Len(impacts) + Len(seeds) + Pending = Len(impacts)
    BY <1>2, <1>3
  <1>5. Len(impacts) <= Limit
    BY <1>1, <1>4 DEF ListsInv
  <1>6. Cardinality(NodesFound) <= Limit
    <2>1. /\ Cardinality(NodesFound) \in Nat
          /\ Cardinality(NodesFound) + r <= m
      BY <1>1, <1>3, FS_CardinalityType DEF SumInv
    <2>2. PICK c \in Nat : c = Cardinality(NodesFound)
      BY <2>1
    <2>3. c <= m
      BY <2>1, <2>2
    <2> QED
      BY <1>3, <2>2, <2>3
  <1>7. /\ \A list \in {diff.added, diff.changed} : Len(list) <= Limit
        /\ \A x \in {Len(diff.removed), Len(diff.added_edges),
                      Len(diff.removed_edges), Len(impacts)} : x <= Limit
    BY <1>1, <1>5 DEF ListsInv
  <1>8. ASSUME ~truncated
        PROVE  diff.counts =
                  [added |-> Len(diff.added), removed |-> Len(diff.removed),
                   changed |-> Len(diff.changed),
                   added_edges |-> Len(diff.added_edges),
                   removed_edges |-> Len(diff.removed_edges),
                   seeds |-> Len(impacts)]
    BY <1>1, <1>4, <1>8 DEF ListsInv
  <1>9. ASSUME ~truncated, Quiet, NEW s \in ListedSeeds
        PROVE  ImpactIsWhole(stored[s[1]], s[2])
    <2>1. Settled
      BY <1>1, <1>9, QuietSettled DEF Compared
    <2>2. s \in Analysed
      BY <1>1, <1>2, <1>9 DEF CoverInv
    <2>3. PICK i \in ToSet(impacts) : i.seed = s
      BY <2>2 DEF Analysed
    <2>4. i.nodes = Reach(stored[s[1]], s[2]) \ {s[2]}
      BY <1>1, <1>9, <2>1, <2>3 DEF ImpactsInv
    <2> QED
      BY <2>3, <2>4 DEF ImpactIsWhole
  <1>10. ASSUME ~truncated, Quiet, NEW o \in ToSet(diff.removed)
         PROVE  ImpactIsWhole(stored[ends[1]], o)
    <2>1. PICK s : s = <<ends[1], o>>
      OBVIOUS
    <2>2. s \in ListedSeeds /\ s[1] = ends[1] /\ s[2] = o
      BY <2>1 DEF ListedSeeds
    <2>3. ImpactIsWhole(stored[s[1]], s[2])
      BY <1>9, <1>10, <2>2
    <2> QED
      BY <2>2, <2>3
  <1>11. ASSUME ~truncated, Quiet,
                NEW x \in ToSet(diff.added) \union ToSet(diff.changed)
         PROVE  ImpactIsWhole(stored[ends[2]], x.object)
    <2>1. PICK s, o : s = <<ends[2], o>> /\ o = x.object
      OBVIOUS
    <2>2. o \in ObjectsIn(ToSet(diff.added))
                   \union ObjectsIn(ToSet(diff.changed))
      BY <2>1 DEF ObjectsIn
    <2>3. s \in ListedSeeds /\ s[1] = ends[2] /\ s[2] = o
      BY <2>1, <2>2 DEF ListedSeeds
    <2>4. ImpactIsWhole(stored[s[1]], s[2])
      BY <1>9, <1>11, <2>3
    <2> QED
      BY <2>1, <2>3, <2>4
  <1> QED
    BY <1>6, <1>7, <1>8, <1>10, <1>11 DEF DiffIsComplete

(* DiffIsComplete: a diff that is not marked truncated lists every         *)
(* difference and has one analysis for each listed object, and when        *)
(* neither snapshot was replaced each of those has found exactly what is   *)
(* within two edges of its object, although all of them share one budget   *)
(* of edges; marked or not, every list, the seeds and the nodes of all     *)
(* analyses together keep to the limit.                                    *)
THEOREM DiffsAreComplete == DiffSpec => []DiffIsComplete
  <1>1. DiffIInv /\ WholeInv /\ DoneInv => DiffIsComplete
    <2>1. CASE step = "done"
      BY <2>1, WholeIsComplete
    <2>2. CASE step # "done"
      BY <2>2 DEF DiffIsComplete
    <2> QED
      BY <2>1, <2>2
  <1> QED
    BY <1>1, DiffInvariant, DiffWhole, PTL
=============================================================================
