------------------------- MODULE CacheReadersProofs -------------------------
(***************************************************************************)
(* Proofs about CacheReaders, for any number of readers, index runs, keys  *)
(* and requests.                                                           *)
(*                                                                         *)
(* The invariant says of one request what it has read so far.  Two things  *)
(* carry it: a key that was resolved is never without a snapshot again,    *)
(* and while the generations the key has held are just one, every          *)
(* statement of the request reads that one.                                *)
(***************************************************************************)
EXTENDS CacheReaders, FiniteSetTheorems, SequenceTheorems, TLAPS

-----------------------------------------------------------------------------
(* The invariant.                                                          *)

PageOf(g, q) ==
    SubSeq(Listing(g, q.filter), q.offset + 1,
           Min2(q.offset + ObjectLimit(q), Len(Listing(g, q.filter))))

(* What an answer can hold.                                                *)
Pages == {<<>>} \union {PageOf(g, q) : g \in Published, q \in Request}
EdgeSets == SUBSET (Nat \X Nat)
Times == {0} \union {g.captured_at : g \in Published}
Labels == Authority \union {""}
Payloads == {Absent} \union {Certified(g) : g \in Published}
ObjectCounts == {0} \union {Cardinality(g.objects) : g \in Published}
EdgeCounts == {0} \union {Cardinality(g.relationships) : g \in Published}

Answer ==
    [total : Nat, page : Pages, incoming : EdgeSets, outgoing : EdgeSets,
     in_truncated : BOOLEAN, out_truncated : BOOLEAN, related : SUBSET Nat,
     captured_at : Times, authority : Labels, payload : Payloads,
     objects : ObjectCounts, relationships : EdgeCounts, proof : Payloads]

(* Statements before the key is known, and after.                          *)
Resolving == {"open", "exact", "alias", "list"}
Pinned == {"count", "select", "node", "incoming", "outgoing", "endpoints",
           "get", "status", "certified", "nodes", "edges", "proof"}

AfterEdges == {"proof", "answered"}
AfterNodes == {"edges", "proof", "answered"}
AfterCertified == {"nodes", "edges", "proof", "answered"}
AfterStatus == {"certified", "nodes", "edges", "proof", "answered"}
AfterGet == {"status", "certified", "nodes", "edges", "proof", "answered"}
AfterFirst == {"get", "status", "certified", "nodes", "edges", "proof",
               "answered"}

(* A list of relationships says whether it is all there are.               *)
Marked(kept, truncated, all) == kept \subseteq all /\ (truncated <=> kept # all)

(* What a request at stage st has read, when generation g was all it could *)
(* read.                                                                   *)
ReadFrom(st, q, a, g) ==
    /\ st # "missing_endpoint"
    /\ st \in {"outgoing", "endpoints"} => a.related \subseteq ObjectsOf(g)
    /\ q.tool = "list_objects" =>
          /\ st \in {"select"} \union AfterFirst =>
                a.total = Len(Listing(g, q.filter))
          /\ st \in AfterFirst => a.page = PageOf(g, q)
    /\ st \in AfterGet => a.captured_at = g.captured_at
    /\ st \in AfterStatus => a.authority = g.authority
    /\ st \in AfterCertified => a.payload = Certified(g)
    /\ st \in AfterNodes => a.objects = Cardinality(g.objects)
    /\ st \in AfterEdges => a.relationships = Cardinality(g.relationships)
    /\ st = "answered" /\ q.tool = "describe_snapshot" =>
          a.proof = Certified(g)

(* Which statements belong to which tool.                                  *)
InTool(st, q) ==
    /\ st \in {"exact", "alias"} => q.tool # "list_snapshots"
    /\ st = "list" => q.tool = "list_snapshots"
    /\ st \in {"count", "select"} => q.tool = "list_objects"
    /\ st \in {"node", "incoming", "outgoing", "endpoints"} =>
          q.tool = "describe_object"
    /\ st = "proof" => q.tool = "describe_snapshot"

(* The keys of a request, and the generations it can have seen.            *)
Holds(sto, st, tg, sp) ==
    /\ tg \subseteq Key
    /\ \A k \in tg : sto[k] # Absent
    /\ st \in Resolving \/ tg = {} => tg = {} /\ sp = {}
    /\ st \in Pinned => tg # {} /\ sto[The(tg)] \in sp
    /\ sp \subseteq Published
    /\ st \notin {"panicked", "lost"}

(* The relationship lists of describe_object.                              *)
Traced(st, q, a, sp) ==
    q.tool = "describe_object" =>
        /\ st \in {"outgoing", "endpoints"} \union AfterFirst =>
              \E g \in sp : Marked(a.incoming, a.in_truncated,
                                   {e \in g.relationships : e[2] = q.object})
        /\ st \in {"endpoints"} \union AfterFirst =>
              \E g \in sp : Marked(a.outgoing, a.out_truncated,
                                   {e \in g.relationships : e[1] = q.object})

(* One request.                                                            *)
Serving(sto, st, q, tg, a, sp) ==
    /\ st \in Answered \union Statement
    /\ q \in Request
    /\ a \in Answer
    /\ InTool(st, q)
    /\ Holds(sto, st, tg, sp)
    /\ \A g \in sp : sp = {g} => ReadFrom(st, q, a, g)
    /\ Traced(st, q, a, sp)

(* All requests.                                                           *)
ReaderIInv ==
    /\ store \in [Key -> Published \union {Absent}]
    /\ stage \in [Reader -> Answered \union Statement]
    /\ req \in [Reader -> Request]
    /\ target \in [Reader -> SUBSET Key]
    /\ answer \in [Reader -> Answer]
    /\ spans \in [Reader -> SUBSET Published]
    /\ \A r \in Reader :
          Serving(store, stage[r], req[r], target[r], answer[r], spans[r])

-----------------------------------------------------------------------------
(* Generations.                                                            *)

(* A published generation is a whole one of a catalog.                     *)
LEMMA GenerationFacts ==
    ASSUME NEW g \in Published
    PROVE  /\ g # Absent
           /\ ObjectsOf(g) \subseteq Nat
           /\ IsFiniteSet(ObjectsOf(g))
           /\ g.relationships \subseteq ObjectsOf(g) \X ObjectsOf(g)
           /\ g.relationships \subseteq Nat \X Nat
           /\ IsFiniteSet(g.relationships)
           /\ g.authority \in Authority
  <1>1. PICK c \in Catalog, a \in Authority, t \in Stamp :
           g = Generation(c, a, t)
    BY DEF Published
  <1>2. /\ g.objects = {<<o, c>> : o \in NodesOf[c]}
        /\ g.relationships = EdgesOf[c] /\ g.authority = a
    BY <1>1 DEF Generation
  <1>3. ObjectsOf(g) = NodesOf[c]
    <2>1. ASSUME NEW n \in g.objects PROVE n[1] \in NodesOf[c]
      BY <1>2
    <2>2. ASSUME NEW o \in NodesOf[c] PROVE \E n \in g.objects : o = n[1]
      <3>1. <<o, c>> \in g.objects /\ <<o, c>>[1] = o
        BY <1>2
      <3> QED
        BY <3>1
    <2> QED
      BY <2>1, <2>2 DEF ObjectsOf
  <1>4. /\ NodesOf[c] \subseteq Nat /\ IsFiniteSet(NodesOf[c])
        /\ EdgesOf[c] \subseteq NodesOf[c] \X NodesOf[c]
    BY GenerationAssumption
  <1>5. IsFiniteSet(EdgesOf[c])
    <2>1. IsFiniteSet(NodesOf[c] \X NodesOf[c])
      BY <1>4, FS_Product
    <2> QED
      BY <1>4, <2>1, FS_Subset
  <1>6. EdgesOf[c] \subseteq Nat \X Nat
    BY <1>4
  <1> QED
    BY <1>2, <1>3, <1>4, <1>5, <1>6, GenerationAssumption

(* A listing is a sequence.                                                *)
LEMMA ListingFacts ==
    ASSUME NEW g \in Published, NEW filter
    PROVE  /\ Len(Listing(g, filter)) \in Nat
           /\ \E Elem : Listing(g, filter) \in Seq(Elem)
  <1> DEFINE found == ObjectsOf(g) \intersect filter
             n == Cardinality(found)
             At(i) == CHOOSE o \in found :
                         Cardinality({p \in found : p < o}) = i - 1
             Elem == {At(i) : i \in 1 .. n}
             list == [i \in 1 .. n |-> At(i)]
  <1>1. IsFiniteSet(found)
    BY GenerationFacts, FS_Subset
  <1>2. n \in Nat
    BY <1>1, FS_CardinalityType
  <1>3. Listing(g, filter) = list
    BY DEF Listing
  <1> HIDE DEF n, At
  <1>4. \A i \in 1 .. n : At(i) \in Elem
    OBVIOUS
  <1>5. list \in [1 .. n -> Elem]
    BY <1>4
  <1>6. list \in Seq(Elem) /\ Len(list) \in Nat
    BY <1>2, <1>5
  <1> QED
    BY <1>3, <1>6

(* One row more than the limit tells whether there are more.               *)
LEMMA ProbeTells ==
    ASSUME NEW E, IsFiniteSet(E), NEW n \in Nat,
           NEW probe \in Limited(E, n + 1), NEW kept \in Limited(probe, n)
    PROVE  /\ Marked(kept, Cardinality(probe) > n, E)
           /\ kept \subseteq E
  <1>1. /\ probe \subseteq E /\ Cardinality(probe) = Min2(n + 1, Cardinality(E))
        /\ kept \subseteq probe
        /\ Cardinality(kept) = Min2(n, Cardinality(probe))
    BY DEF Limited
  <1>2. IsFiniteSet(probe) /\ IsFiniteSet(kept)
    BY <1>1, FS_Subset
  <1>3. /\ Cardinality(E) \in Nat /\ Cardinality(probe) \in Nat
        /\ Cardinality(kept) \in Nat
    BY <1>2, FS_CardinalityType
  <1>4. /\ Cardinality(probe) = Cardinality(E) => probe = E
        /\ Cardinality(kept) = Cardinality(probe) => kept = probe
    BY <1>1, <1>2, FS_Subset
  <1>5. CASE Cardinality(E) <= n
    <2>1. /\ Cardinality(probe) = Cardinality(E)
          /\ Cardinality(kept) = Cardinality(probe)
          /\ ~(Cardinality(probe) > n)
      BY <1>1, <1>3, <1>5 DEF Min2
    <2> QED
      BY <1>4, <2>1 DEF Marked
  <1>6. CASE Cardinality(E) > n
    <2>1. Cardinality(probe) = n + 1 /\ Cardinality(probe) > n
          /\ Cardinality(kept) = n
      BY <1>1, <1>3, <1>6 DEF Min2
    <2>2. kept # E
      BY <1>3, <1>6, <2>1
    <2> QED
      BY <1>1, <2>1, <2>2 DEF Marked
  <1> QED
    BY <1>1, <1>3, <1>5, <1>6

-----------------------------------------------------------------------------
(* The statements after the key is known, one by one.                      *)

(* The generation such a statement reads.                                  *)
LEMMA PinnedReads ==
    ASSUME NEW sto \in [Key -> Published \union {Absent}], NEW st \in Pinned,
           NEW q, NEW tg, NEW a, NEW sp, Serving(sto, st, q, tg, a, sp)
    PROVE  /\ sto[The(tg)] \in Published /\ sto[The(tg)] # Absent
           /\ sto[The(tg)] \in sp
           /\ \A h \in sp : sp = {h} => h = sto[The(tg)]
           /\ tg # {}
  <1>1. sto[The(tg)] \in sp /\ sp \subseteq Published /\ tg # {}
    BY DEF Serving, Holds
  <1> QED
    BY <1>1, GenerationFacts

(* A request that is given up.                                             *)
LEMMA GivenUp ==
    ASSUME NEW sto, NEW st, NEW q, NEW tg, NEW a, NEW sp,
           Serving(sto, st, q, tg, a, sp),
           NEW end \in {"object_not_found", "invalid_request",
                        "storage_error", "snapshot_not_found", "ambiguous"}
    PROVE  Serving(sto, end, q, tg, a, sp)
  <1>1. InTool(end, q) /\ Holds(sto, end, tg, sp)
    BY DEF Serving, InTool, Holds, Pinned, Resolving
  <1>2. \A h \in sp : ReadFrom(end, q, a, h)
    BY DEF ReadFrom, AfterFirst, AfterGet, AfterStatus, AfterCertified,
           AfterNodes, AfterEdges
  <1>3. Traced(end, q, a, sp)
    BY DEF Traced, AfterFirst
  <1> QED
    BY <1>1, <1>2, <1>3 DEF Serving, Answered

(* A statement of the summary leaves the lists as they are.                *)
LEMMA SummaryStep ==
    ASSUME NEW sto, NEW q, NEW tg, NEW a, NEW sp, NEW b \in Answer,
           NEW st \in {"get", "status", "certified", "nodes", "edges",
                       "proof"},
           NEW to \in {"status", "certified", "nodes", "edges", "proof",
                       "answered"},
           Serving(sto, st, q, tg, a, sp), InTool(to, q),
           b.incoming = a.incoming, b.in_truncated = a.in_truncated,
           b.outgoing = a.outgoing, b.out_truncated = a.out_truncated,
           \A h \in sp : sp = {h} => ReadFrom(to, q, b, h)
    PROVE  Serving(sto, to, q, tg, b, sp)
  <1>1. Holds(sto, to, tg, sp)
    BY DEF Serving, Holds, Pinned, Resolving
  <1>2. Traced(to, q, b, sp)
    <2>1. Traced(st, q, a, sp)
      BY DEF Serving
    <2>2. st \in AfterFirst /\ to \in AfterFirst
      BY DEF AfterFirst
    <2> QED
      BY <2>1, <2>2, Zenon DEF Traced
  <1>3. to \in Answered \union Statement /\ q \in Request
    BY DEF Serving, Answered, Statement
  <1> QED
    BY <1>1, <1>2, <1>3 DEF Serving

(* get_snapshot.                                                           *)
LEMMA AtGet ==
    ASSUME NEW sto \in [Key -> Published \union {Absent}],
           NEW q, NEW tg, NEW a, NEW sp,
           Serving(sto, "get", q, tg, a, sp)
    PROVE  Serving(sto, "status", q, tg,
                   [a EXCEPT !.captured_at = sto[The(tg)].captured_at], sp)
  <1> DEFINE g == sto[The(tg)]
             b == [a EXCEPT !.captured_at = g.captured_at]
  <1>1. g \in Published /\ g \in sp /\ \A h \in sp : sp = {h} => h = g
    BY PinnedReads DEF Pinned
  <1>2. a \in Answer
    BY DEF Serving
  <1>3. g.captured_at \in Times
    BY <1>1 DEF Times
  <1> HIDE DEF g
  <1>4. /\ b \in Answer /\ b.captured_at = g.captured_at
        /\ b.total = a.total /\ b.page = a.page
        /\ b.incoming = a.incoming /\ b.outgoing = a.outgoing
        /\ b.in_truncated = a.in_truncated /\ b.out_truncated = a.out_truncated
        /\ b.authority = a.authority /\ b.payload = a.payload
        /\ b.objects = a.objects /\ b.relationships = a.relationships
        /\ b.proof = a.proof
    BY <1>2, <1>3 DEF Answer
  <1>6. InTool("status", q)
    BY DEF Serving, InTool
  <1>7. \A h \in sp : sp = {h} => ReadFrom("status", q, b, h)
    <2>1. \A h \in sp : sp = {h} => ReadFrom("get", q, a, h)
      BY DEF Serving
    <2> QED
      BY <1>1, <1>4, <2>1
      DEF ReadFrom, AfterFirst, AfterGet, AfterStatus, AfterCertified,
          AfterNodes, AfterEdges
  <1> HIDE DEF b
  <1>8. Serving(sto, "status", q, tg, b, sp)
    BY <1>4, <1>6, <1>7, SummaryStep
  <1> QED
    BY <1>8 DEF b, g

(* get_snapshot_contract_status.                                           *)
LEMMA AtStatus ==
    ASSUME NEW sto \in [Key -> Published \union {Absent}],
           NEW q, NEW tg, NEW a, NEW sp,
           Serving(sto, "status", q, tg, a, sp)
    PROVE  Serving(sto, "certified", q, tg,
                   [a EXCEPT !.authority = sto[The(tg)].authority], sp)
  <1> DEFINE g == sto[The(tg)]
             b == [a EXCEPT !.authority = g.authority]
  <1>1. g \in Published /\ g \in sp /\ \A h \in sp : sp = {h} => h = g
    BY PinnedReads DEF Pinned
  <1>2. a \in Answer
    BY DEF Serving
  <1>3. g.authority \in Labels
    BY <1>1, GenerationFacts DEF Labels
  <1> HIDE DEF g
  <1>4. /\ b \in Answer /\ b.authority = g.authority
        /\ b.total = a.total /\ b.page = a.page
        /\ b.incoming = a.incoming /\ b.outgoing = a.outgoing
        /\ b.in_truncated = a.in_truncated /\ b.out_truncated = a.out_truncated
        /\ b.captured_at = a.captured_at /\ b.payload = a.payload
        /\ b.objects = a.objects /\ b.relationships = a.relationships
        /\ b.proof = a.proof
    BY <1>2, <1>3 DEF Answer
  <1>6. InTool("certified", q)
    BY DEF Serving, InTool
  <1>7. \A h \in sp : sp = {h} => ReadFrom("certified", q, b, h)
    <2>1. \A h \in sp : sp = {h} => ReadFrom("status", q, a, h)
      BY DEF Serving
    <2> QED
      BY <1>1, <1>4, <2>1
      DEF ReadFrom, AfterFirst, AfterGet, AfterStatus, AfterCertified,
          AfterNodes, AfterEdges
  <1> HIDE DEF b
  <1>8. Serving(sto, "certified", q, tg, b, sp)
    BY <1>4, <1>6, <1>7, SummaryStep
  <1> QED
    BY <1>8 DEF b, g

(* get_certified_snapshot.                                                 *)
LEMMA AtCertified ==
    ASSUME NEW sto \in [Key -> Published \union {Absent}],
           NEW q, NEW tg, NEW a, NEW sp,
           Serving(sto, "certified", q, tg, a, sp)
    PROVE  Serving(sto, "nodes", q, tg,
                   [a EXCEPT !.payload = Certified(sto[The(tg)])], sp)
  <1> DEFINE g == sto[The(tg)]
             b == [a EXCEPT !.payload = Certified(g)]
  <1>1. g \in Published /\ g \in sp /\ \A h \in sp : sp = {h} => h = g
    BY PinnedReads DEF Pinned
  <1>2. a \in Answer
    BY DEF Serving
  <1>3. Certified(g) \in Payloads
    BY <1>1 DEF Payloads
  <1> HIDE DEF g
  <1>4. /\ b \in Answer /\ b.payload = Certified(g)
        /\ b.total = a.total /\ b.page = a.page
        /\ b.incoming = a.incoming /\ b.outgoing = a.outgoing
        /\ b.in_truncated = a.in_truncated /\ b.out_truncated = a.out_truncated
        /\ b.captured_at = a.captured_at /\ b.authority = a.authority
        /\ b.objects = a.objects /\ b.relationships = a.relationships
        /\ b.proof = a.proof
    BY <1>2, <1>3 DEF Answer
  <1>6. InTool("nodes", q)
    BY DEF Serving, InTool
  <1>7. \A h \in sp : sp = {h} => ReadFrom("nodes", q, b, h)
    <2>1. \A h \in sp : sp = {h} => ReadFrom("certified", q, a, h)
      BY DEF Serving
    <2> QED
      BY <1>1, <1>4, <2>1
      DEF ReadFrom, AfterFirst, AfterGet, AfterStatus, AfterCertified,
          AfterNodes, AfterEdges
  <1> HIDE DEF b
  <1>8. Serving(sto, "nodes", q, tg, b, sp)
    BY <1>4, <1>6, <1>7, SummaryStep
  <1> QED
    BY <1>8 DEF b, g

(* The count of the objects.                                               *)
LEMMA AtNodes ==
    ASSUME NEW sto \in [Key -> Published \union {Absent}],
           NEW q, NEW tg, NEW a, NEW sp,
           Serving(sto, "nodes", q, tg, a, sp)
    PROVE  Serving(sto, "edges", q, tg,
                   [a EXCEPT !.objects = Cardinality(sto[The(tg)].objects)], sp)
  <1> DEFINE g == sto[The(tg)]
             b == [a EXCEPT !.objects = Cardinality(g.objects)]
  <1>1. g \in Published /\ g \in sp /\ \A h \in sp : sp = {h} => h = g
    BY PinnedReads DEF Pinned
  <1>2. a \in Answer
    BY DEF Serving
  <1>3. Cardinality(g.objects) \in ObjectCounts
    BY <1>1 DEF ObjectCounts
  <1> HIDE DEF g
  <1>4. /\ b \in Answer /\ b.objects = Cardinality(g.objects)
        /\ b.total = a.total /\ b.page = a.page
        /\ b.incoming = a.incoming /\ b.outgoing = a.outgoing
        /\ b.in_truncated = a.in_truncated /\ b.out_truncated = a.out_truncated
        /\ b.captured_at = a.captured_at /\ b.authority = a.authority
        /\ b.payload = a.payload /\ b.relationships = a.relationships
        /\ b.proof = a.proof
    BY <1>2, <1>3 DEF Answer
  <1>6. InTool("edges", q)
    BY DEF Serving, InTool
  <1>7. \A h \in sp : sp = {h} => ReadFrom("edges", q, b, h)
    <2>1. \A h \in sp : sp = {h} => ReadFrom("nodes", q, a, h)
      BY DEF Serving
    <2> QED
      BY <1>1, <1>4, <2>1
      DEF ReadFrom, AfterFirst, AfterGet, AfterStatus, AfterCertified,
          AfterNodes, AfterEdges
  <1> HIDE DEF b
  <1>8. Serving(sto, "edges", q, tg, b, sp)
    BY <1>4, <1>6, <1>7, SummaryStep
  <1> QED
    BY <1>8 DEF b, g

(* The count of the relationships.                                         *)
LEMMA AtEdges ==
    ASSUME NEW sto \in [Key -> Published \union {Absent}],
           NEW q, NEW tg, NEW a, NEW sp,
           NEW to, to = IF q.tool = "describe_snapshot" THEN "proof"
                        ELSE "answered",
           q.tool # "list_snapshots",
           Serving(sto, "edges", q, tg, a, sp)
    PROVE  Serving(sto, to, q, tg,
                   [a EXCEPT !.relationships = Cardinality(sto[The(tg)].relationships)], sp)
  <1> DEFINE g == sto[The(tg)]
             b == [a EXCEPT !.relationships = Cardinality(g.relationships)]
  <1>1. g \in Published /\ g \in sp /\ \A h \in sp : sp = {h} => h = g
    BY PinnedReads DEF Pinned
  <1>2. a \in Answer
    BY DEF Serving
  <1>3. Cardinality(g.relationships) \in EdgeCounts
    BY <1>1 DEF EdgeCounts
  <1> HIDE DEF g
  <1>4. /\ b \in Answer /\ b.relationships = Cardinality(g.relationships)
        /\ b.total = a.total /\ b.page = a.page
        /\ b.incoming = a.incoming /\ b.outgoing = a.outgoing
        /\ b.in_truncated = a.in_truncated /\ b.out_truncated = a.out_truncated
        /\ b.captured_at = a.captured_at /\ b.authority = a.authority
        /\ b.payload = a.payload /\ b.objects = a.objects
        /\ b.proof = a.proof
    BY <1>2, <1>3 DEF Answer
  <1>5. to \in {"proof", "answered"}
        /\ (to = "answered" => q.tool # "describe_snapshot")
    OBVIOUS
  <1>6. InTool(to, q)
    BY <1>5 DEF Serving, InTool
  <1>7. \A h \in sp : sp = {h} => ReadFrom(to, q, b, h)
    <2>1. \A h \in sp : sp = {h} => ReadFrom("edges", q, a, h)
      BY DEF Serving
    <2> QED
      BY <1>1, <1>4, <1>5, <2>1
      DEF ReadFrom, AfterFirst, AfterGet, AfterStatus, AfterCertified,
          AfterNodes, AfterEdges
  <1> HIDE DEF b
  <1>8. Serving(sto, to, q, tg, b, sp)
    BY <1>4, <1>5, <1>6, <1>7, SummaryStep
  <1> QED
    BY <1>8 DEF b, g

(* The completeness proof.                                                 *)
LEMMA AtProof ==
    ASSUME NEW sto \in [Key -> Published \union {Absent}],
           NEW q, NEW tg, NEW a, NEW sp,
           Serving(sto, "proof", q, tg, a, sp)
    PROVE  Serving(sto, "answered", q, tg,
                   [a EXCEPT !.proof = Certified(sto[The(tg)])], sp)
  <1> DEFINE g == sto[The(tg)]
             b == [a EXCEPT !.proof = Certified(g)]
  <1>1. g \in Published /\ g \in sp /\ \A h \in sp : sp = {h} => h = g
    BY PinnedReads DEF Pinned
  <1>2. a \in Answer
    BY DEF Serving
  <1>3. Certified(g) \in Payloads
    BY <1>1 DEF Payloads
  <1> HIDE DEF g
  <1>4. /\ b \in Answer /\ b.proof = Certified(g)
        /\ b.total = a.total /\ b.page = a.page
        /\ b.incoming = a.incoming /\ b.outgoing = a.outgoing
        /\ b.in_truncated = a.in_truncated /\ b.out_truncated = a.out_truncated
        /\ b.captured_at = a.captured_at /\ b.authority = a.authority
        /\ b.payload = a.payload /\ b.objects = a.objects
        /\ b.relationships = a.relationships
    BY <1>2, <1>3 DEF Answer
  <1>6. InTool("answered", q)
    BY DEF Serving, InTool
  <1>7. \A h \in sp : sp = {h} => ReadFrom("answered", q, b, h)
    <2>1. \A h \in sp : sp = {h} => ReadFrom("proof", q, a, h)
      BY DEF Serving
    <2> QED
      BY <1>1, <1>4, <2>1
      DEF ReadFrom, AfterFirst, AfterGet, AfterStatus, AfterCertified,
          AfterNodes, AfterEdges
  <1> HIDE DEF b
  <1>8. Serving(sto, "answered", q, tg, b, sp)
    BY <1>4, <1>6, <1>7, SummaryStep
  <1> QED
    BY <1>8 DEF b, g

-----------------------------------------------------------------------------
(* list_objects and describe_object.                                       *)

(* The count of the matching objects.                                      *)
LEMMA AtCount ==
    ASSUME NEW sto \in [Key -> Published \union {Absent}],
           NEW q, NEW tg, NEW a, NEW sp, Serving(sto, "count", q, tg, a, sp)
    PROVE  Serving(sto, "select", q, tg,
                   [a EXCEPT !.total = Len(Listing(sto[The(tg)], q.filter))],
                   sp)
  <1> DEFINE g == sto[The(tg)]
             b == [a EXCEPT !.total = Len(Listing(g, q.filter))]
  <1>1. g \in Published /\ g \in sp /\ \A h \in sp : sp = {h} => h = g
    BY PinnedReads DEF Pinned
  <1>2. a \in Answer /\ q \in Request /\ q.tool = "list_objects"
    BY DEF Serving, InTool
  <1>3. Len(Listing(g, q.filter)) \in Nat
    BY <1>1, ListingFacts
  <1> HIDE DEF g
  <1>4. b \in Answer /\ b.total = Len(Listing(g, q.filter))
    BY <1>2, <1>3 DEF Answer
  <1>5. InTool("select", q) /\ Traced("select", q, b, sp)
    BY <1>2 DEF InTool, Traced
  <1>6. Holds(sto, "select", tg, sp)
    BY DEF Serving, Holds, Pinned, Resolving
  <1>7. \A h \in sp : sp = {h} => ReadFrom("select", q, b, h)
    BY <1>1, <1>4
    DEF ReadFrom, AfterFirst, AfterGet, AfterStatus, AfterCertified,
        AfterNodes, AfterEdges
  <1> HIDE DEF b
  <1>8. Serving(sto, "select", q, tg, b, sp)
    BY <1>2, <1>4, <1>5, <1>6, <1>7 DEF Serving, Statement
  <1> QED
    BY <1>8 DEF b, g

(* The page.                                                               *)
LEMMA AtSelect ==
    ASSUME NEW sto \in [Key -> Published \union {Absent}],
           NEW q, NEW tg, NEW a, NEW sp, Serving(sto, "select", q, tg, a, sp)
    PROVE  Serving(sto, "get", q, tg,
                   [a EXCEPT !.page = PageOf(sto[The(tg)], q)], sp)
  <1> DEFINE g == sto[The(tg)]
             b == [a EXCEPT !.page = PageOf(g, q)]
  <1>1. g \in Published /\ g \in sp /\ \A h \in sp : sp = {h} => h = g
    BY PinnedReads DEF Pinned
  <1>2. a \in Answer /\ q \in Request /\ q.tool = "list_objects"
    BY DEF Serving, InTool
  <1>3. PageOf(g, q) \in Pages
    BY <1>1, <1>2 DEF Pages
  <1> HIDE DEF g
  <1>4. b \in Answer /\ b.page = PageOf(g, q) /\ b.total = a.total
    BY <1>2, <1>3 DEF Answer
  <1>5. InTool("get", q) /\ Traced("get", q, b, sp)
    BY <1>2 DEF InTool, Traced
  <1>6. Holds(sto, "get", tg, sp)
    BY DEF Serving, Holds, Pinned, Resolving
  <1>7. \A h \in sp : sp = {h} => ReadFrom("get", q, b, h)
    <2>1. \A h \in sp : sp = {h} => ReadFrom("select", q, a, h)
      BY DEF Serving
    <2> QED
      BY <1>1, <1>2, <1>4, <2>1
      DEF ReadFrom, AfterFirst, AfterGet, AfterStatus, AfterCertified,
          AfterNodes, AfterEdges
  <1> HIDE DEF b
  <1>8. Serving(sto, "get", q, tg, b, sp)
    BY <1>2, <1>4, <1>5, <1>6, <1>7 DEF Serving, Statement
  <1> QED
    BY <1>8 DEF b, g

(* get_node of the object that is described, when it is there.             *)
LEMMA AtNode ==
    ASSUME NEW sto, NEW q, NEW tg, NEW a, NEW sp,
           Serving(sto, "node", q, tg, a, sp)
    PROVE  Serving(sto, "incoming", q, tg, a, sp)
  <1>1. a \in Answer /\ q \in Request /\ q.tool = "describe_object"
    BY DEF Serving, InTool
  <1>2. InTool("incoming", q) /\ Holds(sto, "incoming", tg, sp)
    BY <1>1 DEF InTool, Serving, Holds, Pinned, Resolving
  <1>3. Traced("incoming", q, a, sp)
    BY DEF Traced, AfterFirst
  <1>4. \A h \in sp : ReadFrom("incoming", q, a, h)
    BY <1>1
    DEF ReadFrom, AfterFirst, AfterGet, AfterStatus, AfterCertified,
        AfterNodes, AfterEdges
  <1> QED
    BY <1>1, <1>2, <1>3, <1>4 DEF Serving, Statement

(* The incoming relationships.                                             *)
LEMMA AtIncoming ==
    ASSUME NEW sto \in [Key -> Published \union {Absent}],
           NEW q, NEW tg, NEW a, NEW sp, NEW kept, NEW cut \in BOOLEAN,
           Serving(sto, "incoming", q, tg, a, sp),
           Marked(kept, cut,
                  {e \in sto[The(tg)].relationships : e[2] = q.object})
    PROVE  Serving(sto, "outgoing", q, tg,
                   [a EXCEPT !.incoming = kept, !.in_truncated = cut,
                             !.related = {e[1] : e \in kept}], sp)
  <1> DEFINE g == sto[The(tg)]
             b == [a EXCEPT !.incoming = kept, !.in_truncated = cut,
                            !.related = {e[1] : e \in kept}]
             all == {e \in g.relationships : e[2] = q.object}
  <1>1. g \in Published /\ g \in sp /\ \A h \in sp : sp = {h} => h = g
    BY PinnedReads DEF Pinned
  <1>2. a \in Answer /\ q \in Request /\ q.tool = "describe_object"
    BY DEF Serving, InTool
  <1>3. /\ kept \subseteq g.relationships
        /\ g.relationships \subseteq ObjectsOf(g) \X ObjectsOf(g)
        /\ g.relationships \subseteq Nat \X Nat /\ ObjectsOf(g) \subseteq Nat
    BY <1>1, GenerationFacts DEF Marked
  <1> HIDE DEF g
  <1>4. /\ kept \in EdgeSets /\ {e[1] : e \in kept} \subseteq ObjectsOf(g)
        /\ {e[1] : e \in kept} \in SUBSET Nat
    BY <1>3 DEF EdgeSets
  <1>5. /\ b \in Answer /\ b.incoming = kept /\ b.in_truncated = cut
        /\ b.related = {e[1] : e \in kept}
    BY <1>2, <1>4 DEF Answer
  <1>6. InTool("outgoing", q) /\ Holds(sto, "outgoing", tg, sp)
    BY <1>2 DEF InTool, Serving, Holds, Pinned, Resolving
  <1>7. Marked(b.incoming, b.in_truncated, all)
    BY <1>5 DEF g
  <1>8. \E h \in sp : Marked(b.incoming, b.in_truncated,
                             {e \in h.relationships : e[2] = q.object})
    BY <1>1, <1>7
  <1>9. Traced("outgoing", q, b, sp)
    <2>1. "outgoing" \notin {"endpoints"} \union AfterFirst
      BY DEF AfterFirst
    <2> QED
      BY <1>8, <2>1 DEF Traced
  <1>10. b.related \subseteq ObjectsOf(g)
    BY <1>4, <1>5
  <1>11. \A h \in sp : sp = {h} => ReadFrom("outgoing", q, b, h)
    BY <1>1, <1>2, <1>10
    DEF ReadFrom, AfterFirst, AfterGet, AfterStatus, AfterCertified,
        AfterNodes, AfterEdges
  <1> HIDE DEF b
  <1>12. Serving(sto, "outgoing", q, tg, b, sp)
    BY <1>2, <1>5, <1>6, <1>9, <1>11 DEF Serving, Statement
  <1> QED
    BY <1>12 DEF b, g

(* The outgoing ones.                                                      *)
LEMMA AtOutgoing ==
    ASSUME NEW sto \in [Key -> Published \union {Absent}],
           NEW q, NEW tg, NEW a, NEW sp, NEW kept, NEW cut \in BOOLEAN,
           Serving(sto, "outgoing", q, tg, a, sp),
           Marked(kept, cut,
                  {e \in sto[The(tg)].relationships : e[1] = q.object})
    PROVE  Serving(sto, "endpoints", q, tg,
                   [a EXCEPT !.outgoing = kept, !.out_truncated = cut,
                             !.related = a.related \union {e[2] : e \in kept}],
                   sp)
  <1> DEFINE g == sto[The(tg)]
             rel == a.related \union {e[2] : e \in kept}
             b == [a EXCEPT !.outgoing = kept, !.out_truncated = cut,
                            !.related = rel]
             all == {e \in g.relationships : e[1] = q.object}
  <1>1. g \in Published /\ g \in sp /\ \A h \in sp : sp = {h} => h = g
    BY PinnedReads DEF Pinned
  <1>2. a \in Answer /\ q \in Request /\ q.tool = "describe_object"
    BY DEF Serving, InTool
  <1>3. /\ kept \subseteq g.relationships
        /\ g.relationships \subseteq ObjectsOf(g) \X ObjectsOf(g)
        /\ g.relationships \subseteq Nat \X Nat /\ ObjectsOf(g) \subseteq Nat
    BY <1>1, GenerationFacts DEF Marked
  <1> HIDE DEF g
  <1>4. /\ kept \in EdgeSets /\ {e[2] : e \in kept} \subseteq ObjectsOf(g)
        /\ {e[2] : e \in kept} \in SUBSET Nat
    BY <1>3 DEF EdgeSets
  <1>5. a.related \in SUBSET Nat
    BY <1>2 DEF Answer
  <1>6. rel \in SUBSET Nat
    BY <1>4, <1>5
  <1>7. /\ b \in Answer /\ b.outgoing = kept /\ b.out_truncated = cut
        /\ b.related = rel
        /\ b.incoming = a.incoming /\ b.in_truncated = a.in_truncated
    <2> HIDE DEF rel
    <2> QED
      BY <1>2, <1>4, <1>6 DEF Answer
  <1>8. InTool("endpoints", q) /\ Holds(sto, "endpoints", tg, sp)
    BY <1>2 DEF InTool, Serving, Holds, Pinned, Resolving
  <1>9. \E h \in sp : Marked(b.incoming, b.in_truncated,
                             {e \in h.relationships : e[2] = q.object})
    BY <1>2, <1>7 DEF Serving, Traced
  <1>10. \E h \in sp : Marked(b.outgoing, b.out_truncated,
                              {e \in h.relationships : e[1] = q.object})
    <2>1. Marked(b.outgoing, b.out_truncated, all)
      BY <1>7 DEF g
    <2> QED
      BY <1>1, <2>1
  <1>11. Traced("endpoints", q, b, sp)
    BY <1>9, <1>10 DEF Traced
  <1>12. \A h \in sp : sp = {h} => ReadFrom("endpoints", q, b, h)
    <2> SUFFICES ASSUME NEW h \in sp, sp = {h}
                 PROVE  ReadFrom("endpoints", q, b, h)
      OBVIOUS
    <2>1. h = g /\ ReadFrom("outgoing", q, a, h)
      BY <1>1 DEF Serving
    <2>2. a.related \subseteq ObjectsOf(h)
      BY <2>1 DEF ReadFrom
    <2>3. b.related \subseteq ObjectsOf(h)
      BY <1>4, <1>7, <2>1, <2>2
    <2> QED
      BY <1>2, <2>3
      DEF ReadFrom, AfterFirst, AfterGet, AfterStatus, AfterCertified,
          AfterNodes, AfterEdges
  <1> HIDE DEF b
  <1>13. Serving(sto, "endpoints", q, tg, b, sp)
    BY <1>2, <1>7, <1>8, <1>11, <1>12 DEF Serving, Statement
  <1> QED
    BY <1>13 DEF b, g, rel

(* get_node of the other end of a relationship, found or not.              *)
LEMMA AtEndpoint ==
    ASSUME NEW sto \in [Key -> Published \union {Absent}],
           NEW q, NEW tg, NEW a, NEW sp, NEW o \in a.related,
           Serving(sto, "endpoints", q, tg, a, sp)
    PROVE  /\ Serving(sto, "endpoints", q, tg,
                      [a EXCEPT !.related = a.related \ {o}], sp)
           /\ o \notin ObjectsOf(sto[The(tg)]) =>
                 Serving(sto, "missing_endpoint", q, tg, a, sp)
  <1> DEFINE g == sto[The(tg)]
             rel == a.related \ {o}
             b == [a EXCEPT !.related = rel]
  <1>1. g \in Published /\ g \in sp /\ \A h \in sp : sp = {h} => h = g
    BY PinnedReads DEF Pinned
  <1>2. a \in Answer /\ q \in Request /\ q.tool = "describe_object"
    BY DEF Serving, InTool
  <1>3. \A h \in sp : sp = {h} => a.related \subseteq ObjectsOf(h)
    BY DEF Serving, ReadFrom
  <1> HIDE DEF g
  <1>4. a.related \in SUBSET Nat
    BY <1>2 DEF Answer
  <1>5. rel \in SUBSET Nat /\ rel \subseteq a.related
    BY <1>4
  <1>6. /\ b \in Answer /\ b.related = rel
        /\ b.incoming = a.incoming /\ b.in_truncated = a.in_truncated
        /\ b.outgoing = a.outgoing /\ b.out_truncated = a.out_truncated
    <2> HIDE DEF rel
    <2> QED
      BY <1>2, <1>5 DEF Answer
  <1>7. Traced("endpoints", q, b, sp)
    <2>1. Traced("endpoints", q, a, sp)
      BY DEF Serving
    <2> QED
      BY <1>6, <2>1, Zenon DEF Traced
  <1>8. \A h \in sp : sp = {h} => ReadFrom("endpoints", q, b, h)
    <2>1. \A h \in sp : sp = {h} => b.related \subseteq ObjectsOf(h)
      BY <1>3, <1>5, <1>6
    <2> QED
      BY <1>2, <2>1
      DEF ReadFrom, AfterFirst, AfterGet, AfterStatus, AfterCertified,
          AfterNodes, AfterEdges
  <1>9. InTool("endpoints", q) /\ Holds(sto, "endpoints", tg, sp)
    BY DEF Serving
  <1>10. Serving(sto, "endpoints", q, tg, b, sp)
    <2> HIDE DEF b
    <2> QED
      BY <1>2, <1>6, <1>7, <1>8, <1>9 DEF Serving, Statement
  <1>11. ASSUME o \notin ObjectsOf(g)
         PROVE  Serving(sto, "missing_endpoint", q, tg, a, sp)
    <2>1. \A h \in sp : sp # {h}
      BY <1>1, <1>3, <1>11
    <2>2. InTool("missing_endpoint", q) /\ Holds(sto, "missing_endpoint", tg, sp)
      BY <1>2, <1>9 DEF InTool, Holds, Pinned, Resolving
    <2>3. Traced("missing_endpoint", q, a, sp)
      BY DEF Traced, AfterFirst
    <2> QED
      BY <1>2, <2>1, <2>2, <2>3 DEF Serving, Answered
  <1> QED
    BY <1>10, <1>11 DEF b, g, rel

(* All of them were found.                                                 *)
LEMMA AtEndpointsRead ==
    ASSUME NEW sto, NEW q, NEW tg, NEW a, NEW sp,
           Serving(sto, "endpoints", q, tg, a, sp)
    PROVE  Serving(sto, "get", q, tg, a, sp)
  <1>1. a \in Answer /\ q \in Request /\ q.tool = "describe_object"
    BY DEF Serving, InTool
  <1>2. InTool("get", q) /\ Holds(sto, "get", tg, sp)
    BY DEF Serving, InTool, Holds, Pinned, Resolving
  <1>3. Traced("get", q, a, sp)
    <2>1. Traced("endpoints", q, a, sp)
      BY DEF Serving
    <2>2. "get" \in AfterFirst
      BY DEF AfterFirst
    <2> QED
      BY <2>1, <2>2, Zenon DEF Traced
  <1>4. \A h \in sp : ReadFrom("get", q, a, h)
    BY <1>1
    DEF ReadFrom, AfterGet, AfterStatus, AfterCertified, AfterNodes,
        AfterEdges
  <1> QED
    BY <1>1, <1>2, <1>3, <1>4 DEF Serving, Statement

-----------------------------------------------------------------------------
(* The statements before the key is known, and the next listed key.        *)

(* An answer with nothing in it.                                           *)
LEMMA BlankAnswer == Blank \in Answer
  <1>1. /\ <<>> \in Pages /\ {} \in EdgeSets /\ 0 \in Times /\ "" \in Labels
        /\ Absent \in Payloads /\ 0 \in ObjectCounts /\ 0 \in EdgeCounts
    BY DEF Pages, EdgeSets, Times, Labels, Payloads, ObjectCounts, EdgeCounts
  <1> QED
    BY <1>1 DEF Blank, Answer

(* A request that begins, or that has no key yet.                          *)
LEMMA Unresolved ==
    ASSUME NEW sto, NEW q \in Request, NEW a \in Answer, NEW to,
           to \in {"idle", "open", "exact", "alias", "list"},
           to \in {"exact", "alias"} => q.tool # "list_snapshots",
           to = "list" => q.tool = "list_snapshots"
    PROVE  Serving(sto, to, q, {}, a, {})
  <1>1. InTool(to, q) /\ Traced(to, q, a, {})
    BY DEF InTool, Traced, AfterFirst
  <1>2. Holds(sto, to, {}, {})
    BY DEF Holds, Pinned, Resolving
  <1> QED
    BY <1>1, <1>2 DEF Serving, Answered, Statement

(* Such a request has neither a key nor a generation.                      *)
LEMMA NothingYet ==
    ASSUME NEW sto, NEW st \in Resolving, NEW q, NEW tg, NEW a, NEW sp,
           Serving(sto, st, q, tg, a, sp)
    PROVE  tg = {} /\ sp = {} /\ q \in Request /\ a \in Answer
  BY DEF Serving, Holds

(* A key with a snapshot is pinned.                                        *)
LEMMA PinKey ==
    ASSUME NEW sto \in [Key -> Published \union {Absent}],
           NEW q \in Request, NEW a \in Answer, NEW k \in Key,
           sto[k] # Absent, q.tool # "list_snapshots"
    PROVE  Serving(sto, FirstStatement(q), q, {k}, a, {sto[k]})
  <1> DEFINE st == FirstStatement(q)
  <1>1. q.tool \in {"describe_snapshot", "list_objects", "describe_object"}
    BY ReaderAssumption DEF Tool
  <1>2. /\ st \in {"get", "invalid_request", "count", "node"}
        /\ st = "get" => q.tool = "describe_snapshot"
        /\ st = "count" => q.tool = "list_objects"
        /\ st = "node" => q.tool = "describe_object"
    BY <1>1 DEF FirstStatement
  <1> HIDE DEF st
  <1>3. The({k}) = k
    BY DEF The
  <1>4. sto[k] \in Published
    OBVIOUS
  <1>5. InTool(st, q) /\ Traced(st, q, a, {sto[k]})
    BY <1>2 DEF InTool, Traced, AfterFirst
  <1>6. Holds(sto, st, {k}, {sto[k]})
    BY <1>2, <1>3, <1>4 DEF Holds, Resolving
  <1>7. ReadFrom(st, q, a, sto[k])
    BY <1>2
    DEF ReadFrom, AfterFirst, AfterGet, AfterStatus, AfterCertified,
        AfterNodes, AfterEdges
  <1>8. st \in Answered \union Statement
    BY <1>2 DEF Answered, Statement
  <1> QED
    BY <1>5, <1>6, <1>7, <1>8 DEF Serving, st

(* list_snapshots goes on with one of the keys that are left.              *)
LEMMA ListKeys ==
    ASSUME NEW sto \in [Key -> Published \union {Absent}],
           NEW q \in Request, NEW a \in Answer, NEW K \in SUBSET Key,
           \A k \in K : sto[k] # Absent, q.tool = "list_snapshots"
    PROVE  Serving(sto, IF K = {} THEN "answered" ELSE "get", q, K, a,
                   IF K = {} THEN {} ELSE {sto[The(K)]})
  <1>1. CASE K = {}
    <2>1. InTool("answered", q) /\ Traced("answered", q, a, {})
      BY DEF InTool, Traced
    <2>2. Holds(sto, "answered", {}, {})
      BY DEF Holds, Pinned, Resolving
    <2> QED
      BY <1>1, <2>1, <2>2 DEF Serving, Answered
  <1>2. CASE K # {}
    <2>1. The(K) \in K
      BY <1>2 DEF The
    <2>2. PICK k \in K : k = The(K)
      BY <2>1
    <2>3. sto[k] \in Published
      BY <2>2
    <2>4. InTool("get", q) /\ Traced("get", q, a, {sto[k]})
      BY DEF InTool, Traced
    <2>5. Holds(sto, "get", K, {sto[k]})
      BY <1>2, <2>2, <2>3 DEF Holds, Pinned, Resolving
    <2>6. ReadFrom("get", q, a, sto[k])
      BY DEF ReadFrom, AfterGet, AfterStatus, AfterCertified, AfterNodes,
             AfterEdges
    <2>7. Serving(sto, "get", q, K, a, {sto[k]})
      BY <2>4, <2>5, <2>6 DEF Serving, Statement
    <2> QED
      BY <1>2, <2>2, <2>7
  <1> QED
    BY <1>1, <1>2

-----------------------------------------------------------------------------
(* Index runs.                                                             *)

(* A run keeps every key that holds a snapshot.                            *)
LEMMA StoreStep ==
    ASSUME store \in [Key -> Published \union {Absent}], Next
    PROVE  /\ store' \in [Key -> Published \union {Absent}]
           /\ \A k \in Key : store[k] # Absent => store'[k] # Absent
  <1>1. PICK i \in Indexer : StartRun(i) \/ Publish(i) \/ Abandon(i)
    BY DEF Next
  <1>2. CASE Publish(i)
    <2>1. PICK k \in Key, c \in Reconciled, t \in Stamp :
             store' = [store EXCEPT ![k] = Generation(c, "complete", t)]
      BY <1>2 DEF Publish
    <2>2. Generation(c, "complete", t) \in Published
      BY GenerationAssumption DEF Published, Authority
    <2>3. Generation(c, "complete", t) # Absent
      BY <2>2, GenerationAssumption
    <2> QED
      BY <2>1, <2>2, <2>3
  <1> QED
    BY <1>1, <1>2 DEF StartRun, Abandon

(* What a request has read stays true of it when a run publishes.          *)
LEMMA IndexKeeps ==
    ASSUME NEW sto \in [Key -> Published \union {Absent}],
           NEW new \in [Key -> Published \union {Absent}],
           \A k \in Key : sto[k] # Absent => new[k] # Absent,
           NEW st, NEW q, NEW tg, NEW a, NEW sp,
           Serving(sto, st, q, tg, a, sp)
    PROVE  Serving(new, st, q, tg, a,
                   IF st \in Answered \/ tg = {} THEN sp
                   ELSE sp \union {new[The(tg)]})
  <1> DEFINE s2 == IF st \in Answered \/ tg = {} THEN sp
                   ELSE sp \union {new[The(tg)]}
  <1>1. Holds(sto, st, tg, sp) /\ st \in Answered \union Statement
    BY DEF Serving
  <1>2. tg \subseteq Key /\ \A k \in tg : new[k] # Absent
    BY <1>1 DEF Holds
  <1>3. /\ tg # {} => The(tg) \in tg
    BY DEF The
  <1>4. s2 \subseteq Published
    <2>1. ASSUME tg # {} PROVE new[The(tg)] \in Published
      BY <1>2, <1>3, <2>1
    <2> QED
      BY <1>1, <2>1 DEF Holds
  <1>5. st \in Pinned => tg # {} /\ st \notin Answered /\ new[The(tg)] \in s2
    BY <1>1 DEF Holds, Pinned, Answered
  <1>6. st \in Resolving \/ tg = {} => tg = {} /\ s2 = {}
    BY <1>1 DEF Holds
  <1>7. Holds(new, st, tg, s2)
    <2> HIDE DEF s2
    <2> QED
      BY <1>1, <1>2, <1>4, <1>5, <1>6 DEF Holds
  <1>8. sp \subseteq s2
    OBVIOUS
  <1>9. ASSUME NEW h \in s2, s2 = {h} PROVE ReadFrom(st, q, a, h)
    <2>1. CASE s2 = sp
      BY <1>9, <2>1 DEF Serving
    <2>2. CASE s2 # sp
      <3>1. st \in Pinned
        <4>1. st \notin Answered /\ tg # {}
          BY <2>2
        <4> QED
          BY <1>1, <4>1 DEF Holds, Answered, Statement, Pinned, Resolving
      <3>2. sp # {}
        BY <1>1, <3>1 DEF Holds
      <3>3. sp = {h} /\ h \in sp
        BY <1>8, <1>9, <3>2
      <3> QED
        BY <3>3 DEF Serving
    <2> QED
      BY <2>1, <2>2
  <1> HIDE DEF s2
  <1>10. Traced(st, q, a, s2)
    <2>1. Traced(st, q, a, sp)
      BY DEF Serving
    <2> QED
      BY <1>8, <2>1, Zenon DEF Traced
  <1>11. Serving(new, st, q, tg, a, s2)
    BY <1>7, <1>9, <1>10 DEF Serving
  <1> QED
    BY <1>11 DEF s2

-----------------------------------------------------------------------------
(* The steps.                                                              *)

(* A step of one reader, given by what it leaves that reader with.         *)
LEMMA ReaderMoves ==
    ASSUME ReaderIInv, NEW r \in Reader, NEW st, NEW q, NEW tg, NEW a, NEW sp,
           store' = store,
           stage' = [stage EXCEPT ![r] = st], req' = [req EXCEPT ![r] = q],
           target' = [target EXCEPT ![r] = tg],
           answer' = [answer EXCEPT ![r] = a],
           spans' = [spans EXCEPT ![r] = sp],
           Serving(store, st, q, tg, a, sp)
    PROVE  ReaderIInv'
  <1>1. /\ st \in Answered \union Statement /\ q \in Request /\ a \in Answer
        /\ tg \in SUBSET Key /\ sp \in SUBSET Published
    BY DEF Serving, Holds
  <1>2. /\ stage' \in [Reader -> Answered \union Statement]
        /\ req' \in [Reader -> Request]
        /\ target' \in [Reader -> SUBSET Key]
    BY <1>1 DEF ReaderIInv
  <1>3. /\ answer' \in [Reader -> Answer]
        /\ spans' \in [Reader -> SUBSET Published]
    BY <1>1 DEF ReaderIInv
  <1>4. ASSUME NEW x \in Reader
        PROVE  Serving(store', stage'[x], req'[x], target'[x], answer'[x],
                       spans'[x])
    <2>1. CASE x = r
      <3>1. /\ stage'[x] = st /\ req'[x] = q /\ target'[x] = tg
            /\ answer'[x] = a /\ spans'[x] = sp
        BY <2>1 DEF ReaderIInv
      <3> QED
        BY <3>1
    <2>2. CASE x # r
      <3>1. /\ stage'[x] = stage[x] /\ req'[x] = req[x]
            /\ target'[x] = target[x] /\ answer'[x] = answer[x]
            /\ spans'[x] = spans[x]
        BY <2>2 DEF ReaderIInv
      <3>2. Serving(store, stage[x], req[x], target[x], answer[x], spans[x])
        BY DEF ReaderIInv
      <3> QED
        BY <3>1, <3>2
    <2> QED
      BY <2>1, <2>2
  <1>5. store' \in [Key -> Published \union {Absent}]
    BY DEF ReaderIInv
  <1> QED
    BY <1>2, <1>3, <1>4, <1>5 DEF ReaderIInv

(* Leaving one reader's entry as it is.                                    *)
LEMMA Same ==
    ASSUME NEW S, NEW f \in [Reader -> S], NEW r \in Reader
    PROVE  f = [f EXCEPT ![r] = f[r]]
  OBVIOUS

(* A statement that leaves request, keys and generations alone.            *)
LEMMA ReaderReads ==
    ASSUME ReaderIInv, NEW r \in Reader, NEW st, NEW a,
           store' = store, UNCHANGED <<req, target, spans>>,
           stage' = [stage EXCEPT ![r] = st],
           answer' = [answer EXCEPT ![r] = a],
           Serving(store, st, req[r], target[r], a, spans[r])
    PROVE  ReaderIInv'
  <1>1. /\ req' = [req EXCEPT ![r] = req[r]]
        /\ target' = [target EXCEPT ![r] = target[r]]
        /\ spans' = [spans EXCEPT ![r] = spans[r]]
    BY Same DEF ReaderIInv
  <1>2. PICK q, tg, sp : q = req[r] /\ tg = target[r] /\ sp = spans[r]
    OBVIOUS
  <1>3. Serving(store, st, q, tg, a, sp)
    BY <1>2
  <1>4. /\ req' = [req EXCEPT ![r] = q]
        /\ target' = [target EXCEPT ![r] = tg]
        /\ spans' = [spans EXCEPT ![r] = sp]
    BY <1>1, <1>2
  <1> QED
    BY <1>3, <1>4, ReaderMoves

(* One that reads nothing it keeps.                                        *)
LEMMA ReaderTests ==
    ASSUME ReaderIInv, NEW r \in Reader, NEW st,
           store' = store, UNCHANGED <<req, target, answer, spans>>,
           stage' = [stage EXCEPT ![r] = st],
           Serving(store, st, req[r], target[r], answer[r], spans[r])
    PROVE  ReaderIInv'
  <1>1. answer' = [answer EXCEPT ![r] = answer[r]]
    BY Same DEF ReaderIInv
  <1> QED
    BY <1>1, ReaderReads

(* The count of the matching objects.                                      *)
LEMMA CountStep ==
    ASSUME ReaderIInv, NEW r \in Reader, CountNodes(r)
    PROVE  ReaderIInv'
  <1> DEFINE S(st, a) == Serving(store, st, req[r], target[r], a, spans[r])
  <1>1. /\ store \in [Key -> Published \union {Absent}]
        /\ S(stage[r], answer[r]) /\ answer[r] \in Answer
    BY DEF ReaderIInv
  <1>2. S("count", answer[r])
    BY <1>1 DEF CountNodes, Step
  <1>3. Current(r) # Absent
    BY <1>1, <1>2, PinnedReads DEF Current, Pinned
  <1>4. S("select", [answer[r] EXCEPT !.total = Len(Listing(Current(r), req[r].filter))])
    BY <1>1, <1>2, AtCount DEF Current
  <1>5. /\ stage' = [stage EXCEPT ![r] = "select"]
        /\ answer' = [answer EXCEPT ![r] =
                         [answer[r] EXCEPT !.total = Len(Listing(Current(r), req[r].filter))]]
        /\ store' = store /\ UNCHANGED <<req, target, spans>>
    BY <1>3 DEF CountNodes, Step
  <1> HIDE DEF S
  <1> QED
    BY <1>4, <1>5, ReaderReads DEF S

(* The page.                                                               *)
LEMMA SelectStep ==
    ASSUME ReaderIInv, NEW r \in Reader, SelectPage(r)
    PROVE  ReaderIInv'
  <1> DEFINE S(st, a) == Serving(store, st, req[r], target[r], a, spans[r])
  <1>1. /\ store \in [Key -> Published \union {Absent}]
        /\ S(stage[r], answer[r]) /\ answer[r] \in Answer
    BY DEF ReaderIInv
  <1>2. S("select", answer[r])
    BY <1>1 DEF SelectPage, Step
  <1>3. Current(r) # Absent
    BY <1>1, <1>2, PinnedReads DEF Current, Pinned
  <1>4. S("get", [answer[r] EXCEPT !.page = PageOf(Current(r), req[r])])
    BY <1>1, <1>2, AtSelect DEF Current, PageOf
  <1>5. /\ stage' = [stage EXCEPT ![r] = "get"]
        /\ answer' = [answer EXCEPT ![r] =
                         [answer[r] EXCEPT !.page = PageOf(Current(r), req[r])]]
        /\ store' = store /\ UNCHANGED <<req, target, spans>>
    BY <1>3 DEF SelectPage, Step, PageOf
  <1> HIDE DEF S
  <1> QED
    BY <1>4, <1>5, ReaderReads DEF S

(* get_snapshot finds the row.                                             *)
LEMMA GetStep ==
    ASSUME ReaderIInv, NEW r \in Reader, GetSnapshot(r)
    PROVE  ReaderIInv'
  <1> DEFINE S(st, a) == Serving(store, st, req[r], target[r], a, spans[r])
  <1>1. /\ store \in [Key -> Published \union {Absent}]
        /\ S(stage[r], answer[r]) /\ answer[r] \in Answer
    BY DEF ReaderIInv
  <1>2. S("get", answer[r])
    BY <1>1 DEF GetSnapshot, Step
  <1>3. Current(r) # Absent
    BY <1>1, <1>2, PinnedReads DEF Current, Pinned
  <1>4. S("status", [answer[r] EXCEPT !.captured_at = Current(r).captured_at])
    BY <1>1, <1>2, AtGet DEF Current
  <1>5. /\ stage' = [stage EXCEPT ![r] = "status"]
        /\ answer' = [answer EXCEPT ![r] =
                         [answer[r] EXCEPT !.captured_at = Current(r).captured_at]]
        /\ store' = store /\ UNCHANGED <<req, target, spans>>
    BY <1>3 DEF GetSnapshot, Step
  <1> HIDE DEF S
  <1> QED
    BY <1>4, <1>5, ReaderReads DEF S

(* So does get_snapshot_contract_status.                                   *)
LEMMA StatusStep ==
    ASSUME ReaderIInv, NEW r \in Reader, ContractStatus(r)
    PROVE  ReaderIInv'
  <1> DEFINE S(st, a) == Serving(store, st, req[r], target[r], a, spans[r])
  <1>1. /\ store \in [Key -> Published \union {Absent}]
        /\ S(stage[r], answer[r]) /\ answer[r] \in Answer
    BY DEF ReaderIInv
  <1>2. S("status", answer[r])
    BY <1>1 DEF ContractStatus, Step
  <1>3. Current(r) # Absent
    BY <1>1, <1>2, PinnedReads DEF Current, Pinned
  <1>4. S("certified", [answer[r] EXCEPT !.authority = Current(r).authority])
    BY <1>1, <1>2, AtStatus DEF Current
  <1>5. /\ stage' = [stage EXCEPT ![r] = "certified"]
        /\ answer' = [answer EXCEPT ![r] =
                         [answer[r] EXCEPT !.authority = Current(r).authority]]
        /\ store' = store /\ UNCHANGED <<req, target, spans>>
    BY <1>3 DEF ContractStatus, Step
  <1> HIDE DEF S
  <1> QED
    BY <1>4, <1>5, ReaderReads DEF S

(* get_certified_snapshot.                                                 *)
LEMMA CertifiedStep ==
    ASSUME ReaderIInv, NEW r \in Reader, GetCertified(r)
    PROVE  ReaderIInv'
  <1> DEFINE S(st, a) == Serving(store, st, req[r], target[r], a, spans[r])
  <1>1. /\ store \in [Key -> Published \union {Absent}]
        /\ S(stage[r], answer[r]) /\ answer[r] \in Answer
    BY DEF ReaderIInv
  <1>2. S("certified", answer[r])
    BY <1>1 DEF GetCertified, Step
  <1>3. Current(r) # Absent
    BY <1>1, <1>2, PinnedReads DEF Current, Pinned
  <1>4. S("nodes", [answer[r] EXCEPT !.payload = Certified(Current(r))])
    BY <1>1, <1>2, AtCertified DEF Current
  <1>5. /\ stage' = [stage EXCEPT ![r] = "nodes"]
        /\ answer' = [answer EXCEPT ![r] =
                         [answer[r] EXCEPT !.payload = Certified(Current(r))]]
        /\ store' = store /\ UNCHANGED <<req, target, spans>>
    BY <1>3 DEF GetCertified, Step
  <1> HIDE DEF S
  <1> QED
    BY <1>4, <1>5, ReaderReads DEF S

(* The count of the objects.                                               *)
LEMMA NodesStep ==
    ASSUME ReaderIInv, NEW r \in Reader, NodeCount(r)
    PROVE  ReaderIInv'
  <1> DEFINE S(st, a) == Serving(store, st, req[r], target[r], a, spans[r])
  <1>1. /\ store \in [Key -> Published \union {Absent}]
        /\ S(stage[r], answer[r]) /\ answer[r] \in Answer
    BY DEF ReaderIInv
  <1>2. S("nodes", answer[r])
    BY <1>1 DEF NodeCount, Step
  <1>3. Current(r) # Absent
    BY <1>1, <1>2, PinnedReads DEF Current, Pinned
  <1>4. S("edges", [answer[r] EXCEPT !.objects = Cardinality(Current(r).objects)])
    BY <1>1, <1>2, AtNodes DEF Current
  <1>5. /\ stage' = [stage EXCEPT ![r] = "edges"]
        /\ answer' = [answer EXCEPT ![r] =
                         [answer[r] EXCEPT !.objects = Cardinality(Current(r).objects)]]
        /\ store' = store /\ UNCHANGED <<req, target, spans>>
    BY <1>3 DEF NodeCount, Step
  <1> HIDE DEF S
  <1> QED
    BY <1>4, <1>5, ReaderReads DEF S

(* The completeness proof.                                                 *)
LEMMA ProofStep ==
    ASSUME ReaderIInv, NEW r \in Reader, GetProof(r)
    PROVE  ReaderIInv'
  <1> DEFINE S(st, a) == Serving(store, st, req[r], target[r], a, spans[r])
  <1>1. /\ store \in [Key -> Published \union {Absent}]
        /\ S(stage[r], answer[r]) /\ answer[r] \in Answer
    BY DEF ReaderIInv
  <1>2. S("proof", answer[r])
    BY <1>1 DEF GetProof, Step
  <1>3. Current(r) # Absent
    BY <1>1, <1>2, PinnedReads DEF Current, Pinned
  <1>4. S("answered", [answer[r] EXCEPT !.proof = Certified(Current(r))])
    BY <1>1, <1>2, AtProof DEF Current
  <1>5. /\ stage' = [stage EXCEPT ![r] = "answered"]
        /\ answer' = [answer EXCEPT ![r] =
                         [answer[r] EXCEPT !.proof = Certified(Current(r))]]
        /\ store' = store /\ UNCHANGED <<req, target, spans>>
    BY <1>3 DEF GetProof, Step
  <1> HIDE DEF S
  <1> QED
    BY <1>4, <1>5, ReaderReads DEF S

(* The count of the relationships.                                         *)
LEMMA EdgesStep ==
    ASSUME ReaderIInv, NEW r \in Reader, EdgeCount(r)
    PROVE  ReaderIInv'
  <1> DEFINE S(st, a) == Serving(store, st, req[r], target[r], a, spans[r])
  <1> DEFINE to == IF req[r].tool = "describe_snapshot" THEN "proof"
                   ELSE "answered"
  <1>1. /\ store \in [Key -> Published \union {Absent}]
        /\ S(stage[r], answer[r]) /\ answer[r] \in Answer
    BY DEF ReaderIInv
  <1>2. S("edges", answer[r])
    BY <1>1 DEF EdgeCount, Step
  <1>3. Current(r) # Absent
    BY <1>1, <1>2, PinnedReads DEF Current, Pinned
  <1>4. S(to, [answer[r] EXCEPT !.relationships = Cardinality(Current(r).relationships)])
    BY <1>1, <1>2, AtEdges DEF Current, EdgeCount
  <1>5. /\ stage' = [stage EXCEPT ![r] = to]
        /\ answer' = [answer EXCEPT ![r] =
                         [answer[r] EXCEPT !.relationships = Cardinality(Current(r).relationships)]]
        /\ store' = store /\ UNCHANGED <<req, target, spans>>
    BY <1>3 DEF EdgeCount, Step
  <1> HIDE DEF S
  <1> QED
    BY <1>4, <1>5, ReaderReads DEF S

(* Incoming relationships, one more than the limit at most.                *)
LEMMA IncomingStep ==
    ASSUME ReaderIInv, NEW r \in Reader, ReadIncoming(r)
    PROVE  ReaderIInv'
  <1> DEFINE S(st, a) == Serving(store, st, req[r], target[r], a, spans[r])
             n == RelationshipLimit(req[r])
  <1>1. /\ store \in [Key -> Published \union {Absent}]
        /\ S(stage[r], answer[r]) /\ req[r] \in Request
    BY DEF ReaderIInv
  <1>2. S("incoming", answer[r])
    BY <1>1 DEF ReadIncoming, Step
  <1>3. Current(r) # Absent /\ Current(r) \in Published
    BY <1>1, <1>2, PinnedReads DEF Current, Pinned
  <1> DEFINE E == {e \in Current(r).relationships : e[2] = req[r].object}
  <1>3a. PICK probe \in Limited(EdgesTo(r), ProbeLimit(req[r])) :
           \E kept \in Limited(probe, n) :
              answer' = [answer EXCEPT
                           ![r].incoming = kept,
                           ![r].in_truncated = Cardinality(probe) > n,
                           ![r].related = {e[1] : e \in kept}]
    BY DEF ReadIncoming
  <1>4. PICK kept \in Limited(probe, n) :
           answer' = [answer EXCEPT
                        ![r].incoming = kept,
                        ![r].in_truncated = Cardinality(probe) > n,
                        ![r].related = {e[1] : e \in kept}]
    BY <1>3a
  <1>5. EdgesTo(r) = E /\ ProbeLimit(req[r]) = n + 1
    BY <1>3 DEF EdgesTo, ProbeLimit
  <1>6. IsFiniteSet(E)
    BY <1>3, GenerationFacts, FS_Subset
  <1>7. n \in Nat
    BY <1>1, ReaderAssumption DEF RelationshipLimit, Min2
  <1> DEFINE cut == Cardinality(probe) > n
             b == [answer[r] EXCEPT !.incoming = kept, !.in_truncated = cut,
                                    !.related = {e[1] : e \in kept}]
  <1>8. Marked(kept, cut, E)
    <2> HIDE DEF n, E
    <2> QED
      BY <1>4, <1>5, <1>6, <1>7, ProbeTells
  <1>9. cut \in BOOLEAN
    OBVIOUS
  <1>10. S("outgoing", b)
    <2> HIDE DEF cut
    <2> QED
      BY <1>1, <1>2, <1>8, <1>9, AtIncoming DEF Current
  <1>11. /\ stage' = [stage EXCEPT ![r] = "outgoing"]
         /\ answer' = [answer EXCEPT ![r] = b]
         /\ store' = store /\ UNCHANGED <<req, target, spans>>
    BY <1>4 DEF ReadIncoming, Step
  <1> HIDE DEF S, b
  <1> QED
    BY <1>10, <1>11, ReaderReads DEF S

(* Outgoing ones.                                                          *)
LEMMA OutgoingStep ==
    ASSUME ReaderIInv, NEW r \in Reader, ReadOutgoing(r)
    PROVE  ReaderIInv'
  <1> DEFINE S(st, a) == Serving(store, st, req[r], target[r], a, spans[r])
             n == RelationshipLimit(req[r])
  <1>1. /\ store \in [Key -> Published \union {Absent}]
        /\ S(stage[r], answer[r]) /\ req[r] \in Request
    BY DEF ReaderIInv
  <1>2. S("outgoing", answer[r])
    BY <1>1 DEF ReadOutgoing, Step
  <1>3. Current(r) # Absent /\ Current(r) \in Published
    BY <1>1, <1>2, PinnedReads DEF Current, Pinned
  <1> DEFINE E == {e \in Current(r).relationships : e[1] = req[r].object}
  <1>3a. PICK probe \in Limited(EdgesFrom(r), ProbeLimit(req[r])) :
           \E kept \in Limited(probe, n) :
              answer' = [answer EXCEPT
                           ![r].outgoing = kept,
                           ![r].out_truncated = Cardinality(probe) > n,
                           ![r].related = @ \union {e[2] : e \in kept}]
    BY DEF ReadOutgoing
  <1>4. PICK kept \in Limited(probe, n) :
           answer' = [answer EXCEPT
                        ![r].outgoing = kept,
                        ![r].out_truncated = Cardinality(probe) > n,
                        ![r].related = @ \union {e[2] : e \in kept}]
    BY <1>3a
  <1>5. EdgesFrom(r) = E /\ ProbeLimit(req[r]) = n + 1
    BY <1>3 DEF EdgesFrom, ProbeLimit
  <1>6. IsFiniteSet(E)
    BY <1>3, GenerationFacts, FS_Subset
  <1>7. n \in Nat
    BY <1>1, ReaderAssumption DEF RelationshipLimit, Min2
  <1> DEFINE cut == Cardinality(probe) > n
             b == [answer[r] EXCEPT
                     !.outgoing = kept, !.out_truncated = cut,
                     !.related = answer[r].related \union {e[2] : e \in kept}]
  <1>8. Marked(kept, cut, E)
    <2> HIDE DEF n, E
    <2> QED
      BY <1>4, <1>5, <1>6, <1>7, ProbeTells
  <1>9. cut \in BOOLEAN
    OBVIOUS
  <1>10. S("endpoints", b)
    <2> HIDE DEF cut
    <2> QED
      BY <1>1, <1>2, <1>8, <1>9, AtOutgoing DEF Current
  <1>11. /\ stage' = [stage EXCEPT ![r] = "endpoints"]
         /\ answer' = [answer EXCEPT ![r] = b]
         /\ store' = store /\ UNCHANGED <<req, target, spans>>
    BY <1>4 DEF ReadOutgoing, Step
  <1> HIDE DEF S, b
  <1> QED
    BY <1>10, <1>11, ReaderReads DEF S

(* get_node of the described object.                                       *)
LEMMA NodeStep ==
    ASSUME ReaderIInv, NEW r \in Reader, GetNode(r)
    PROVE  ReaderIInv'
  <1> DEFINE S(st, a) == Serving(store, st, req[r], target[r], a, spans[r])
  <1>1. /\ store \in [Key -> Published \union {Absent}]
        /\ S(stage[r], answer[r]) /\ answer[r] \in Answer
    BY DEF ReaderIInv
  <1>2. S("node", answer[r])
    BY <1>1 DEF GetNode, Step
  <1> DEFINE to == CASE ~Present(r, req[r].object) -> "object_not_found"
                     [] req[r].limit = 0 -> "invalid_request"
                     [] OTHER -> "incoming"
  <1>3. to \in {"object_not_found", "invalid_request", "incoming"}
    OBVIOUS
  <1>4. /\ stage' = [stage EXCEPT ![r] = to]
        /\ store' = store /\ UNCHANGED <<req, target, answer, spans>>
    BY DEF GetNode, Step
  <1> HIDE DEF to
  <1>5. S(to, answer[r])
    BY <1>2, <1>3, AtNode, GivenUp
  <1> HIDE DEF S
  <1> QED
    BY <1>4, <1>5, ReaderTests DEF S

(* get_node of an object at the other end.                                 *)
LEMMA EndpointStep ==
    ASSUME ReaderIInv, NEW r \in Reader, ReadEndpoint(r)
    PROVE  ReaderIInv'
  <1> DEFINE S(st, a) == Serving(store, st, req[r], target[r], a, spans[r])
  <1>1. /\ store \in [Key -> Published \union {Absent}]
        /\ S(stage[r], answer[r]) /\ answer[r] \in Answer
    BY DEF ReaderIInv
  <1>2. S("endpoints", answer[r])
    BY <1>1 DEF ReadEndpoint, Step
  <1>3. Current(r) # Absent /\ Current(r) = store[The(target[r])]
    BY <1>1, <1>2, PinnedReads DEF Current, Pinned
  <1>4. PICK o \in answer[r].related :
          \/ /\ Present(r, o)
             /\ Step(r, "endpoints", "endpoints")
             /\ answer' = [answer EXCEPT ![r].related = @ \ {o}]
          \/ /\ ~Present(r, o)
             /\ Step(r, "endpoints", "missing_endpoint")
             /\ UNCHANGED answer
    BY DEF ReadEndpoint
  <1> DEFINE b == [answer[r] EXCEPT !.related = answer[r].related \ {o}]
  <1>5. /\ S("endpoints", b)
        /\ ~Present(r, o) => S("missing_endpoint", answer[r])
    BY <1>1, <1>2, <1>3, AtEndpoint DEF Present
  <1>6. UNCHANGED <<target, spans>>
    BY DEF ReadEndpoint
  <1> HIDE DEF S
  <1>7. CASE Present(r, o)
    <2>1. /\ stage' = [stage EXCEPT ![r] = "endpoints"]
          /\ answer' = [answer EXCEPT ![r] = b]
          /\ store' = store /\ UNCHANGED <<req, target, spans>>
      BY <1>4, <1>6, <1>7 DEF Step
    <2> HIDE DEF b
    <2> QED
      BY <1>5, <2>1, ReaderReads DEF S
  <1>8. CASE ~Present(r, o)
    <2>1. /\ stage' = [stage EXCEPT ![r] = "missing_endpoint"]
          /\ store' = store /\ UNCHANGED <<req, target, answer, spans>>
      BY <1>4, <1>6, <1>8 DEF Step
    <2> QED
      BY <1>5, <1>8, <2>1, ReaderTests DEF S
  <1> QED
    BY <1>7, <1>8

(* All of them are there.                                                  *)
LEMMA EndpointsReadStep ==
    ASSUME ReaderIInv, NEW r \in Reader, EndpointsRead(r)
    PROVE  ReaderIInv'
  <1> DEFINE S(st, a) == Serving(store, st, req[r], target[r], a, spans[r])
  <1>1. /\ store \in [Key -> Published \union {Absent}]
        /\ S(stage[r], answer[r]) /\ answer[r] \in Answer
    BY DEF ReaderIInv
  <1>2. S("endpoints", answer[r])
    BY <1>1 DEF EndpointsRead, Step
  <1>3. S("get", answer[r])
    BY <1>2, AtEndpointsRead
  <1>4. /\ stage' = [stage EXCEPT ![r] = "get"]
        /\ store' = store /\ UNCHANGED <<req, target, answer, spans>>
    BY DEF EndpointsRead, Step
  <1> HIDE DEF S
  <1> QED
    BY <1>3, <1>4, ReaderTests DEF S

(* A statement that fails.                                                 *)
LEMMA FailStep ==
    ASSUME ReaderIInv, NEW r \in Reader, StatementFails(r)
    PROVE  ReaderIInv'
  <1> DEFINE S(st, a) == Serving(store, st, req[r], target[r], a, spans[r])
  <1>1. /\ store \in [Key -> Published \union {Absent}]
        /\ S(stage[r], answer[r]) /\ answer[r] \in Answer
    BY DEF ReaderIInv
  <1>2. S("storage_error", answer[r])
    BY <1>1, GivenUp
  <1>3. /\ stage' = [stage EXCEPT ![r] = "storage_error"]
        /\ store' = store /\ UNCHANGED <<req, target, answer, spans>>
    BY DEF StatementFails
  <1> HIDE DEF S
  <1> QED
    BY <1>2, <1>3, ReaderTests DEF S

(* The store is opened.                                                    *)
LEMMA OpenStep ==
    ASSUME ReaderIInv, NEW r \in Reader, OpenExisting(r)
    PROVE  ReaderIInv'
  <1> DEFINE S(st, a) == Serving(store, st, req[r], target[r], a, spans[r])
  <1>1. /\ store \in [Key -> Published \union {Absent}]
        /\ S(stage[r], answer[r]) /\ answer[r] \in Answer
    BY DEF ReaderIInv
  <1> DEFINE to == IF req[r].tool = "list_snapshots" THEN "list" ELSE "exact"
  <1>2. S("open", answer[r])
    BY <1>1 DEF OpenExisting, Step
  <1>3. target[r] = {} /\ spans[r] = {} /\ req[r] \in Request
    BY <1>2, NothingYet DEF Resolving
  <1>4. /\ to \in {"list", "exact"}
        /\ to = "exact" <=> req[r].tool # "list_snapshots"
    OBVIOUS
  <1>5. /\ stage' = [stage EXCEPT ![r] = to]
        /\ store' = store /\ UNCHANGED <<req, target, answer, spans>>
    BY DEF OpenExisting, Step
  <1> HIDE DEF to
  <1>6. Serving(store, to, req[r], {}, answer[r], {})
    BY <1>1, <1>3, <1>4, Unresolved
  <1> HIDE DEF S
  <1> QED
    BY <1>3, <1>5, <1>6, ReaderTests

(* The key a request resolves to is pinned.                                *)
LEMMA PinStep ==
    ASSUME ReaderIInv, NEW r \in Reader, NEW k \in Key, store[k] # Absent,
           req[r].tool # "list_snapshots",
           store' = store, req' = req,
           stage' = [stage EXCEPT ![r] = FirstStatement(req[r])],
           Resolved(r, k)
    PROVE  ReaderIInv'
  <1>1. /\ store \in [Key -> Published \union {Absent}]
        /\ req[r] \in Request /\ answer[r] \in Answer
    BY DEF ReaderIInv
  <1>2. Serving(store, FirstStatement(req[r]), req[r], {k}, answer[r],
                {store[k]})
    BY <1>1, PinKey
  <1>3. /\ req' = [req EXCEPT ![r] = req[r]]
        /\ answer' = [answer EXCEPT ![r] = answer[r]]
    BY Same DEF ReaderIInv, Resolved
  <1>4. /\ target' = [target EXCEPT ![r] = {k}]
        /\ spans' = [spans EXCEPT ![r] = {store[k]}]
    BY DEF Resolved
  <1> QED
    BY <1>2, <1>3, <1>4, ReaderMoves

(* The selector as a key.                                                  *)
LEMMA ExactStep ==
    ASSUME ReaderIInv, NEW r \in Reader, ResolveExact(r)
    PROVE  ReaderIInv'
  <1> DEFINE S(st, a) == Serving(store, st, req[r], target[r], a, spans[r])
  <1>1. /\ store \in [Key -> Published \union {Absent}]
        /\ S(stage[r], answer[r]) /\ answer[r] \in Answer
    BY DEF ReaderIInv
  <1>2. S("exact", answer[r])
    BY <1>1 DEF ResolveExact, Step
  <1>3. /\ target[r] = {} /\ spans[r] = {} /\ req[r] \in Request
        /\ req[r].tool # "list_snapshots"
    <2>1. target[r] = {} /\ spans[r] = {} /\ req[r] \in Request
      BY <1>2, NothingYet DEF Resolving
    <2> QED
      BY <1>2, <2>1 DEF Serving, InTool
  <1> DEFINE k == req[r].selector
  <1>4. CASE k \in Key /\ store[k] # Absent
    <2>1. /\ stage' = [stage EXCEPT ![r] = FirstStatement(req[r])]
          /\ store' = store /\ req' = req /\ Resolved(r, k)
      BY <1>4 DEF ResolveExact, Step
    <2> QED
      BY <1>3, <1>4, <2>1, PinStep
  <1>5. CASE ~(k \in Key /\ store[k] # Absent)
    <2>1. /\ stage' = [stage EXCEPT ![r] = "alias"]
          /\ store' = store /\ UNCHANGED <<req, target, answer, spans>>
      BY <1>5 DEF ResolveExact, Step
    <2>2. Serving(store, "alias", req[r], {}, answer[r], {})
      BY <1>1, <1>3, Unresolved
    <2> QED
      BY <1>3, <2>1, <2>2, ReaderTests
  <1> QED
    BY <1>4, <1>5

(* The selector as an alias.                                               *)
LEMMA AliasStep ==
    ASSUME ReaderIInv, NEW r \in Reader, ResolveAlias(r)
    PROVE  ReaderIInv'
  <1> DEFINE S(st, a) == Serving(store, st, req[r], target[r], a, spans[r])
  <1>1. /\ store \in [Key -> Published \union {Absent}]
        /\ S(stage[r], answer[r]) /\ answer[r] \in Answer
    BY DEF ReaderIInv
  <1>2. S("alias", answer[r])
    BY <1>1 DEF ResolveAlias, Step
  <1>3. /\ target[r] = {} /\ spans[r] = {} /\ req[r] \in Request
        /\ req[r].tool # "list_snapshots"
    <2>1. target[r] = {} /\ spans[r] = {} /\ req[r] \in Request
      BY <1>2, NothingYet DEF Resolving
    <2> QED
      BY <1>2, <2>1 DEF Serving, InTool
  <1>4. ASSUME NEW k \in Key, Matches(r) = {k},
               Step(r, "alias", FirstStatement(req[r])), Resolved(r, k)
        PROVE  ReaderIInv'
    <2>1. store[k] # Absent
      BY <1>4 DEF Matches
    <2> QED
      BY <1>3, <1>4, <2>1, PinStep DEF Step
  <1>5. ASSUME NEW to \in {"snapshot_not_found", "ambiguous"},
               Step(r, "alias", to), UNCHANGED <<target, answer, spans>>
        PROVE  ReaderIInv'
    <2>1. S(to, answer[r])
      BY <1>2, GivenUp
    <2> HIDE DEF S
    <2> QED
      BY <1>5, <2>1, ReaderTests DEF S, Step
  <1> QED
    BY <1>4, <1>5 DEF ResolveAlias

(* The keys of list_snapshots.                                             *)
LEMMA ListStep ==
    ASSUME ReaderIInv, NEW r \in Reader, ListSnapshots(r)
    PROVE  ReaderIInv'
  <1> DEFINE S(st, a) == Serving(store, st, req[r], target[r], a, spans[r])
  <1>1. /\ store \in [Key -> Published \union {Absent}]
        /\ S(stage[r], answer[r]) /\ answer[r] \in Answer
    BY DEF ReaderIInv
  <1> DEFINE found == {k \in Key : store[k] # Absent}
  <1>2. S("list", answer[r])
    BY <1>1 DEF ListSnapshots, Step
  <1>3. req[r] \in Request /\ req[r].tool = "list_snapshots"
    BY <1>2 DEF Serving, InTool
  <1>4. found \in SUBSET Key /\ \A k \in found : store[k] # Absent
    OBVIOUS
  <1>5. /\ stage' = [stage EXCEPT ![r] =
                       IF found = {} THEN "answered" ELSE "get"]
        /\ target' = [target EXCEPT ![r] = found]
        /\ spans' = [spans EXCEPT ![r] =
                       IF found = {} THEN {} ELSE {store[The(found)]}]
        /\ store' = store /\ UNCHANGED <<req, answer>>
    BY DEF ListSnapshots, Step
  <1> HIDE DEF found
  <1>6. Serving(store, IF found = {} THEN "answered" ELSE "get", req[r],
                found, answer[r],
                IF found = {} THEN {} ELSE {store[The(found)]})
    BY <1>1, <1>3, <1>4, ListKeys
  <1>7. /\ req' = [req EXCEPT ![r] = req[r]]
        /\ answer' = [answer EXCEPT ![r] = answer[r]]
    BY <1>5, Same DEF ReaderIInv
  <1> QED
    BY <1>5, <1>6, <1>7, ReaderMoves

(* The next of them.                                                       *)
LEMMA NextSummaryStep ==
    ASSUME ReaderIInv, NEW r \in Reader, NextSummary(r)
    PROVE  ReaderIInv'
  <1> DEFINE S(st, a) == Serving(store, st, req[r], target[r], a, spans[r])
  <1>1. /\ store \in [Key -> Published \union {Absent}]
        /\ S(stage[r], answer[r]) /\ answer[r] \in Answer
    BY DEF ReaderIInv
  <1> DEFINE left == target[r] \ {The(target[r])}
  <1>2. S("edges", answer[r])
    BY <1>1 DEF NextSummary, Step
  <1>3. req[r] \in Request /\ req[r].tool = "list_snapshots"
    BY <1>2 DEF Serving, NextSummary
  <1>4. left \in SUBSET Key /\ \A k \in left : store[k] # Absent
    BY <1>2 DEF Serving, Holds
  <1>5. /\ stage' = [stage EXCEPT ![r] =
                       IF left = {} THEN "answered" ELSE "get"]
        /\ target' = [target EXCEPT ![r] = left]
        /\ spans' = [spans EXCEPT ![r] =
                       IF left = {} THEN {} ELSE {store[The(left)]}]
        /\ answer' = [answer EXCEPT ![r] = Blank]
        /\ store' = store /\ req' = req
    BY DEF NextSummary, Step
  <1> HIDE DEF left
  <1>6. Serving(store, IF left = {} THEN "answered" ELSE "get", req[r],
                left, Blank,
                IF left = {} THEN {} ELSE {store[The(left)]})
    BY <1>1, <1>3, <1>4, BlankAnswer, ListKeys
  <1>7. req' = [req EXCEPT ![r] = req[r]]
    BY <1>5, Same DEF ReaderIInv
  <1> QED
    BY <1>5, <1>6, <1>7, ReaderMoves

(* A new request.                                                          *)
LEMMA AskStep ==
    ASSUME ReaderIInv, NEW r \in Reader, NEW q \in Request, Ask(r, q)
    PROVE  ReaderIInv'
  <1>1. Serving(store, "open", q, {}, Blank, {})
    BY BlankAnswer, Unresolved
  <1> QED
    BY <1>1, ReaderMoves DEF Ask

(* A step of an index run.                                                 *)
LEMMA IndexStep ==
    ASSUME ReaderIInv, Index
    PROVE  ReaderIInv'
  <1>1. /\ store' \in [Key -> Published \union {Absent}]
        /\ \A k \in Key : store[k] # Absent => store'[k] # Absent
    BY StoreStep DEF ReaderIInv, Index
  <1>2. UNCHANGED <<stage, req, target, answer>>
    BY DEF Index
  <1>3. ASSUME NEW r \in Reader
        PROVE  Serving(store', stage[r], req[r], target[r], answer[r],
                       spans'[r])
    <2>1. Serving(store, stage[r], req[r], target[r], answer[r], spans[r])
      BY DEF ReaderIInv
    <2>2. spans'[r] = IF stage[r] \in Answered \/ target[r] = {} THEN spans[r]
                      ELSE spans[r] \union {store'[The(target[r])]}
      BY DEF Index
    <2>3. store \in [Key -> Published \union {Absent}]
      BY DEF ReaderIInv
    <2> QED
      BY <1>1, <2>1, <2>2, <2>3, IndexKeeps
  <1>4. spans' \in [Reader -> SUBSET Published]
    <2>1. \A r \in Reader : spans'[r] \in SUBSET Published
      BY <1>3 DEF Serving, Holds
    <2>2. spans' = [r \in Reader |-> spans'[r]]
      BY DEF Index
    <2> QED
      BY <2>1, <2>2
  <1> QED
    BY <1>1, <1>2, <1>3, <1>4 DEF ReaderIInv

-----------------------------------------------------------------------------
(* The theorems.                                                           *)

(* Before the first request.                                               *)
LEMMA InitReaderIInv == ReaderInit => ReaderIInv
  <1> SUFFICES ASSUME ReaderInit PROVE ReaderIInv
    OBVIOUS
  <1>1. store \in [Key -> Published \union {Absent}]
    BY DEF ReaderInit, Init, Published
  <1>2. (CHOOSE q \in Request : TRUE) \in Request
    BY ReaderAssumption
  <1>3. ASSUME NEW r \in Reader
        PROVE  /\ stage[r] = "idle" /\ req[r] \in Request /\ target[r] = {}
               /\ answer[r] = Blank /\ spans[r] = {}
    BY <1>2 DEF ReaderInit
  <1>4. ASSUME NEW r \in Reader
        PROVE  Serving(store, stage[r], req[r], target[r], answer[r],
                       spans[r])
    BY <1>3, BlankAnswer, Unresolved
  <1>5. /\ stage \in [Reader -> Answered \union Statement]
        /\ req \in [Reader -> Request]
        /\ target \in [Reader -> SUBSET Key]
    BY <1>2 DEF ReaderInit, Answered
  <1>6. /\ answer \in [Reader -> Answer]
        /\ spans \in [Reader -> SUBSET Published]
    BY BlankAnswer DEF ReaderInit
  <1> QED
    BY <1>1, <1>4, <1>5, <1>6 DEF ReaderIInv

(* Every step of a request and of an index run.                            *)
LEMMA NextReaderIInv == ReaderIInv /\ [ReaderNext]_allVars => ReaderIInv'
  <1> SUFFICES ASSUME ReaderIInv, [ReaderNext]_allVars PROVE ReaderIInv'
    OBVIOUS
  <1>1. CASE Index
    BY <1>1, IndexStep
  <1>2. ASSUME NEW r \in Reader, Read(r) PROVE ReaderIInv'
    <2>1. CASE OpenExisting(r)
      BY <2>1, OpenStep
    <2>2. CASE StatementFails(r)
      BY <2>2, FailStep
    <2>3. CASE ResolveExact(r)
      BY <2>3, ExactStep
    <2>4. CASE ResolveAlias(r)
      BY <2>4, AliasStep
    <2>5. CASE ListSnapshots(r)
      BY <2>5, ListStep
    <2>6. CASE CountNodes(r)
      BY <2>6, CountStep
    <2>7. CASE SelectPage(r)
      BY <2>7, SelectStep
    <2>8. CASE GetNode(r)
      BY <2>8, NodeStep
    <2>9. CASE ReadIncoming(r)
      BY <2>9, IncomingStep
    <2>10. CASE ReadOutgoing(r)
      BY <2>10, OutgoingStep
    <2>11. CASE ReadEndpoint(r)
      BY <2>11, EndpointStep
    <2>12. CASE EndpointsRead(r)
      BY <2>12, EndpointsReadStep
    <2>13. CASE GetSnapshot(r)
      BY <2>13, GetStep
    <2>14. CASE ContractStatus(r)
      BY <2>14, StatusStep
    <2>15. CASE GetCertified(r)
      BY <2>15, CertifiedStep
    <2>16. CASE NodeCount(r)
      BY <2>16, NodesStep
    <2>17. CASE EdgeCount(r)
      BY <2>17, EdgesStep
    <2>18. CASE NextSummary(r)
      BY <2>18, NextSummaryStep
    <2>19. CASE GetProof(r)
      BY <2>19, ProofStep
    <2> QED
      BY <1>2, <2>1, <2>2, <2>3, <2>4, <2>5, <2>6, <2>7, <2>8, <2>9,
         <2>10, <2>11, <2>12, <2>13, <2>14, <2>15, <2>16, <2>17,
         <2>18, <2>19 DEF Read
  <1>3. ASSUME NEW r \in Reader, NEW q \in Request, Ask(r, q)
        PROVE  ReaderIInv'
    BY <1>3, AskStep
  <1>4. CASE UNCHANGED allVars
    BY <1>4 DEF allVars, ReaderIInv
  <1> QED
    BY <1>1, <1>2, <1>3, <1>4 DEF ReaderNext

(* What every request has read so far is what the cache held for it, in    *)
(* every behaviour of readers and index runs.                              *)
THEOREM ReaderInvariant == ReaderSpec => []ReaderIInv
  <1> QED
    BY InitReaderIInv, NextReaderIInv, PTL DEF ReaderSpec

(* An index run that neither publishes nor ends leaves all that a request  *)
(* can have seen as it is: what its key holds is recorded already.         *)
LEMMA IndexOrStutter ==
    ASSUME ReaderIInv, [Next]_vars,
           UNCHANGED <<stage, req, target, answer>>,
           spans' = [r \in Reader |->
                       IF stage[r] \in Answered \/ target[r] = {}
                       THEN spans[r]
                       ELSE spans[r] \union {store'[The(target[r])]}]
    PROVE  [ReaderNext]_allVars
  <1>1. CASE Next
    BY <1>1 DEF ReaderNext, Index
  <1>2. CASE UNCHANGED vars
    <2>1. ASSUME NEW r \in Reader, stage[r] \notin Answered, target[r] # {}
          PROVE  store[The(target[r])] \in spans[r]
      <3>1. /\ stage[r] \in Answered \union Statement
            /\ Holds(store, stage[r], target[r], spans[r])
        BY DEF ReaderIInv, Serving
      <3>2. stage[r] \in Pinned
        BY <2>1, <3>1 DEF Holds, Statement, Resolving, Pinned
      <3> QED
        BY <3>1, <3>2 DEF Holds
    <2>2. spans = [r \in Reader |-> spans[r]]
      BY DEF ReaderIInv
    <2>3. \A r \in Reader : spans'[r] = spans[r]
      BY <1>2, <2>1 DEF vars
    <2>4. spans' = spans
      BY <2>2, <2>3
    <2> QED
      BY <1>2, <2>4 DEF vars, allVars
  <1> QED
    BY <1>1, <1>2

(* Type correctness.                                                       *)
THEOREM ReaderTypes == ReaderSpec => []ReaderTypeOK
  <1>1. ReaderIInv => ReaderTypeOK
    <2> SUFFICES ASSUME ReaderIInv PROVE ReaderTypeOK
      OBVIOUS
    <2>1. ASSUME NEW r \in Reader
          PROVE  /\ target[r] \subseteq Key /\ answer[r].total \in Nat
                 /\ answer[r].authority \in Authority \union {""}
      BY DEF ReaderIInv, Answer, Labels
    <2> QED
      BY <2>1 DEF ReaderIInv, ReaderTypeOK
  <1> QED
    BY <1>1, ReaderInvariant, PTL

(* A key that was resolved or listed is never found without a snapshot:    *)
(* snapshot_summary does not reach its .expect, and no listed snapshot is  *)
(* lost, however many index runs publish meanwhile.                        *)
THEOREM ResolvedStays == ReaderSpec => []ResolvedSnapshotStays
  <1>1. ReaderIInv => ResolvedSnapshotStays
    BY DEF ReaderIInv, Serving, Holds, ResolvedSnapshotStays
  <1> QED
    BY <1>1, ReaderInvariant, PTL

(* A page holds the positions after the offset, as many as there are up to *)
(* the limit.                                                              *)
LEMMA PageFacts ==
    ASSUME NEW g \in Published, NEW q \in Request
    PROVE  LET all == Listing(g, q.filter)
               page == PageOf(g, q)
           IN  /\ \A n \in 1 .. Len(page) : page[n] = all[q.offset + n]
               /\ q.offset + ObjectLimit(q) < Len(all)
                     <=> q.offset + Len(page) < Len(all)
  <1> DEFINE all == Listing(g, q.filter)
             off == q.offset
             lim == ObjectLimit(q)
             end == Min2(off + lim, Len(all))
             page == SubSeq(all, off + 1, end)
  <1>1. Len(all) \in Nat /\ \E Elem : all \in Seq(Elem)
    BY ListingFacts
  <1>2. PICK Elem : all \in Seq(Elem)
    BY <1>1
  <1>3. off \in Nat /\ lim \in Nat
    BY ReaderAssumption DEF ObjectLimit, Min2
  <1>4. PageOf(g, q) = page
    BY DEF PageOf
  <1> HIDE DEF all, off, lim
  <1>5. end \in Nat /\ end <= Len(all) /\ end <= off + lim
        /\ (end = Len(all) \/ end = off + lim)
    BY <1>1, <1>3 DEF Min2
  <1> HIDE DEF end
  <1>6. \A i \in off + 1 .. end : all[i] \in Elem
    BY <1>1, <1>2, <1>3, <1>5
  <1>7. /\ Len(page) = IF off + 1 <= end THEN end - (off + 1) + 1 ELSE 0
        /\ \A i \in 1 .. end - (off + 1) + 1 : page[i] = all[off + 1 + i - 1]
    BY <1>3, <1>5, <1>6, SubSeqProperties
  <1> HIDE DEF page
  <1>8. \A n \in 1 .. Len(page) : page[n] = all[off + n]
    <2> SUFFICES ASSUME NEW n \in 1 .. Len(page) PROVE page[n] = all[off + n]
      OBVIOUS
    <2>1. off + 1 + n - 1 = off + n /\ n \in 1 .. end - (off + 1) + 1
      BY <1>3, <1>5, <1>7
    <2> QED
      BY <1>7, <2>1
  <1>9. off + lim < Len(all) <=> off + Len(page) < Len(all)
    BY <1>1, <1>3, <1>5, <1>7
  <1> QED
    BY <1>4, <1>8, <1>9 DEF all, off, lim

(* While no other generation is published, list_objects returns the exact  *)
(* page, the exact total, and has_more precisely when objects remain.      *)
THEOREM QuietPages == ReaderSpec => []QuietPageIsExact
  <1>1. ReaderIInv => QuietPageIsExact
    <2> SUFFICES ASSUME ReaderIInv, NEW r \in Reader, stage[r] = "answered",
                        req[r].tool = "list_objects", Quiet(r)
                 PROVE  LET all == Listing(The(spans[r]), req[r].filter)
                            page == answer[r].page
                        IN  /\ answer[r].total = Len(all)
                            /\ \A n \in 1 .. Len(page) :
                                  page[n] = all[req[r].offset + n]
                            /\ HasMore(r) <=>
                                  req[r].offset + Len(page) < Len(all)
      BY DEF QuietPageIsExact
    <2>1. PICK g \in spans[r] : spans[r] = {g}
      BY DEF Quiet
    <2>2. g \in Published /\ req[r] \in Request /\ The(spans[r]) = g
      BY <2>1 DEF ReaderIInv, The
    <2>3. ReadFrom(stage[r], req[r], answer[r], g)
      BY <2>1 DEF ReaderIInv, Serving
    <2>4. /\ answer[r].total = Len(Listing(g, req[r].filter))
          /\ answer[r].page = PageOf(g, req[r])
      BY <2>3 DEF ReadFrom, AfterFirst
    <2> QED
      BY <2>2, <2>4, PageFacts DEF HasMore
  <1> QED
    BY <1>1, ReaderInvariant, PTL

(* While no other generation is published, a summary describes exactly the *)
(* generation in the cache, and no endpoint is reported missing.           *)
THEOREM QuietSummaries == ReaderSpec => []QuietSummaryIsExact
  <1>1. ReaderIInv => QuietSummaryIsExact
    <2> SUFFICES ASSUME ReaderIInv, NEW r \in Reader, Quiet(r)
                 PROVE  LET g == The(spans[r])
                            a == answer[r]
                        IN  /\ stage[r] # "missing_endpoint"
                            /\ (stage[r] = "answered" /\ target[r] # {}) =>
                                  /\ a.captured_at = g.captured_at
                                  /\ a.authority = g.authority
                                  /\ a.payload = Certified(g)
                                  /\ a.objects = Cardinality(g.objects)
                                  /\ a.relationships =
                                        Cardinality(g.relationships)
                                  /\ req[r].tool = "describe_snapshot" =>
                                        a.proof = a.payload
      BY DEF QuietSummaryIsExact
    <2>1. PICK g \in spans[r] : spans[r] = {g}
      BY DEF Quiet
    <2>2. The(spans[r]) = g
      BY <2>1 DEF The
    <2>3. ReadFrom(stage[r], req[r], answer[r], g)
      BY <2>1 DEF ReaderIInv, Serving
    <2> QED
      BY <2>2, <2>3
      DEF ReadFrom, AfterGet, AfterStatus, AfterCertified, AfterNodes,
          AfterEdges
  <1> QED
    BY <1>1, ReaderInvariant, PTL

(* A relationship list that is not marked truncated is the whole list of a *)
(* generation the key held during the request, and one that is marked is   *)
(* not, also while index runs publish.                                     *)
THEOREM TruncationExact == ReaderSpec => []RelationshipTruncationIsExact
  <1>1. ReaderIInv => RelationshipTruncationIsExact
    <2> SUFFICES ASSUME ReaderIInv, NEW r \in Reader, stage[r] = "answered",
                        req[r].tool = "describe_object"
                 PROVE
            /\ \E g \in Generations(r) :
                  Marked(answer[r].incoming, answer[r].in_truncated,
                         {e \in g.relationships : e[2] = req[r].object})
            /\ \E g \in Generations(r) :
                  Marked(answer[r].outgoing, answer[r].out_truncated,
                         {e \in g.relationships : e[1] = req[r].object})
      BY DEF RelationshipTruncationIsExact, Marked
    <2>1. spans[r] \subseteq Published
      BY DEF ReaderIInv
    <2>2. Generations(r) = spans[r]
      BY <2>1, GenerationAssumption DEF Generations
    <2>3. Traced(stage[r], req[r], answer[r], spans[r])
      BY DEF ReaderIInv, Serving
    <2> QED
      BY <2>2, <2>3 DEF Traced, AfterFirst
  <1> QED
    BY <1>1, ReaderInvariant, PTL

=============================================================================
