----------------------------- MODULE CacheReaders -----------------------------
(***************************************************************************)
(* The read side of the interface contract (interface_contract.rs): the    *)
(* tools list_snapshots, describe_snapshot, list_objects and               *)
(* describe_object, as sequences of SQL statements.  No tool opens a read  *)
(* transaction, so every statement sees whatever generation is committed   *)
(* at that moment, and an index run of another process can publish a new   *)
(* generation between any two statements of one request.                   *)
(*                                                                         *)
(* The readers run against AtomicCache, which SnapshotCache implements.    *)
(* Opening the store (a version check and a migration) can fail with a     *)
(* busy error like any statement.  Object keys are naturals: node_key      *)
(* order is <.  Which edges an edge query returns first is left open.      *)
(***************************************************************************)
EXTENDS AtomicCache, FiniteSets, SequencesExt

CONSTANTS
    Alias,                  \* connection aliases
    AliasOf,                \* alias_from_snapshot_key
    Reader,                 \* requests that can be active at the same time
    Request,                \* what clients ask
    MAX_OBJECT_PAGE_LIMIT,  \* 500 in the code
    MAX_RELATIONSHIP_LIMIT  \* 200 in the code

Tool == {"list_snapshots", "describe_snapshot", "list_objects",
         "describe_object"}

ASSUME ReaderAssumption ==
    /\ AliasOf \in [Key -> Alias]
    /\ MAX_OBJECT_PAGE_LIMIT \in Nat \ {0}
    /\ MAX_RELATIONSHIP_LIMIT \in Nat \ {0}
    /\ Request # {}
    /\ Request \subseteq [tool : Tool, selector : Key \union Alias,
                          filter : SUBSET Nat, object : Nat,
                          offset : Nat, limit : Nat]

(* The generations that can be published.                                  *)
Published ==
    {Generation(c, a, t) : c \in Catalog, a \in Authority, t \in Stamp}

(* A catalog is a finite list of objects, and canonical validation refuses *)
(* a relationship with a missing endpoint.                                 *)
ASSUME GenerationAssumption ==
    /\ Reconciled \subseteq Catalog
    /\ Absent \notin Published
    /\ \A c \in Catalog : /\ NodesOf[c] \subseteq Nat
                          /\ IsFiniteSet(NodesOf[c])
                          /\ EdgesOf[c] \subseteq NodesOf[c] \X NodesOf[c]

VARIABLES
    stage,      \* the next statement of each request, or its outcome
    req,        \* the request each reader serves
    target,     \* the snapshot keys it still has to summarise
    answer,     \* what it has read so far
    spans       \* generations the resolved key held since it was resolved

readerVars == <<stage, req, target, answer, spans>>
allVars == <<store, status, stage, req, target, answer, spans>>

Answered == {"idle", "answered", "snapshot_not_found", "ambiguous",
             "invalid_request", "object_not_found", "missing_endpoint",
             "storage_error", "panicked", "lost"}
Statement == {"open", "exact", "alias", "list", "count", "select", "node",
              "incoming", "outgoing", "endpoints", "get", "status",
              "certified", "nodes", "edges", "proof"}

Blank == [total |-> 0, page |-> <<>>, incoming |-> {}, outgoing |-> {},
          in_truncated |-> FALSE, out_truncated |-> FALSE, related |-> {},
          captured_at |-> 0, authority |-> "", payload |-> Absent,
          objects |-> 0, relationships |-> 0, proof |-> Absent]

ReaderInit ==
    /\ Init
    /\ stage = [r \in Reader |-> "idle"]
    /\ req = [r \in Reader |-> CHOOSE q \in Request : TRUE]
    /\ target = [r \in Reader |-> {}]
    /\ answer = [r \in Reader |-> Blank]
    /\ spans = [r \in Reader |-> {}]

Min2(a, b) == IF a <= b THEN a ELSE b

The(S) == CHOOSE x \in S : TRUE
Current(r) == store[The(target[r])]
ObjectsOf(g) == {n[1] : n \in g.objects}
Present(r, o) == Current(r) # Absent /\ o \in ObjectsOf(Current(r))

(* The reader leaves the store alone and moves to its next statement.      *)
Step(r, from, to) ==
    /\ stage[r] = from
    /\ stage' = [stage EXCEPT ![r] = to]
    /\ UNCHANGED <<store, status, req>>

Ask(r, q) ==
    /\ stage[r] \in Answered
    /\ stage' = [stage EXCEPT ![r] = "open"]
    /\ req' = [req EXCEPT ![r] = q]
    /\ target' = [target EXCEPT ![r] = {}]
    /\ answer' = [answer EXCEPT ![r] = Blank]
    /\ spans' = [spans EXCEPT ![r] = {}]
    /\ UNCHANGED <<store, status>>

OpenExisting(r) ==
    /\ Step(r, "open",
            IF req[r].tool = "list_snapshots" THEN "list" ELSE "exact")
    /\ UNCHANGED <<target, answer, spans>>

(* Busy, I/O, or a cache file of a newer release. *)
StatementFails(r) ==
    /\ stage[r] \in Statement
    /\ stage' = [stage EXCEPT ![r] = "storage_error"]
    /\ UNCHANGED <<store, status, req, target, answer, spans>>

(***************************************************************************)
(* resolve_snapshot_key: the selector as a key, then as a unique alias.    *)
(***************************************************************************)

(* The first statement of a tool once its key is known; the limit is       *)
(* checked after the key has been resolved.                                *)
FirstStatement(q) ==
    CASE q.tool = "describe_snapshot" -> "get"
      [] q.tool = "list_objects" /\ q.limit = 0 -> "invalid_request"
      [] q.tool = "list_objects" -> "count"
      [] q.tool = "describe_object" -> "node"

Resolved(r, k) ==
    /\ target' = [target EXCEPT ![r] = {k}]
    /\ spans' = [spans EXCEPT ![r] = {store[k]}]
    /\ UNCHANGED answer

ResolveExact(r) ==
    LET k == req[r].selector
    IN  IF k \in Key /\ store[k] # Absent
        THEN Step(r, "exact", FirstStatement(req[r])) /\ Resolved(r, k)
        ELSE Step(r, "exact", "alias") /\ UNCHANGED <<target, answer, spans>>

Matches(r) == {k \in Key : store[k] # Absent /\ AliasOf[k] = req[r].selector}

ResolveAlias(r) ==
    \/ \E k \in Key : /\ Matches(r) = {k}
                      /\ Step(r, "alias", FirstStatement(req[r]))
                      /\ Resolved(r, k)
    \/ /\ Matches(r) = {}
       /\ Step(r, "alias", "snapshot_not_found")
       /\ UNCHANGED <<target, answer, spans>>
    \/ /\ Cardinality(Matches(r)) > 1
       /\ Step(r, "alias", "ambiguous")
       /\ UNCHANGED <<target, answer, spans>>

(* list_snapshot_summaries: the keys first, then a summary of each.        *)
ListSnapshots(r) ==
    LET found == {k \in Key : store[k] # Absent}
    IN  /\ Step(r, "list", IF found = {} THEN "answered" ELSE "get")
        /\ target' = [target EXCEPT ![r] = found]
        /\ spans' = [spans EXCEPT ![r] =
                       IF found = {} THEN {} ELSE {store[The(found)]}]
        /\ UNCHANGED answer

(***************************************************************************)
(* list_objects: find_nodes_page counts, then selects one page.            *)
(***************************************************************************)
ObjectLimit(q) == Min2(q.limit, MAX_OBJECT_PAGE_LIMIT)

(* The matching objects of a generation in node_key order: at position i   *)
(* the one with i - 1 others before it.                                    *)
Listing(g, filter) ==
    LET found == ObjectsOf(g) \intersect filter
    IN  [i \in 1 .. Cardinality(found) |->
            CHOOSE o \in found : Cardinality({p \in found : p < o}) = i - 1]

CountNodes(r) ==
    /\ Step(r, "count", "select")
    /\ answer' = [answer EXCEPT ![r].total =
                    IF Current(r) = Absent THEN 0
                    ELSE Len(Listing(Current(r), req[r].filter))]
    /\ UNCHANGED <<target, spans>>

(* LIMIT ?2 OFFSET ?3, in a statement of its own. *)
SelectPage(r) ==
    /\ Step(r, "select", "get")
    /\ answer' = [answer EXCEPT ![r].page =
                    IF Current(r) = Absent THEN <<>>
                    ELSE SubSeq(Listing(Current(r), req[r].filter),
                                req[r].offset + 1,
                                Min2(req[r].offset + ObjectLimit(req[r]),
                                     Len(Listing(Current(r), req[r].filter))))]
    /\ UNCHANGED <<target, spans>>

(* Variant: off by one at the end of the listing. *)
HasMoreAtEnd(r) == req[r].offset + ObjectLimit(req[r]) <= answer[r].total

HasMore(r) == req[r].offset + ObjectLimit(req[r]) < answer[r].total

(***************************************************************************)
(* describe_object: the node, at most limit + 1 edges per direction, and   *)
(* one lookup for the other end of every edge that is kept.                *)
(***************************************************************************)
RelationshipLimit(q) == Min2(q.limit, MAX_RELATIONSHIP_LIMIT)

GetNode(r) ==
    /\ Step(r, "node", CASE ~Present(r, req[r].object) -> "object_not_found"
                         [] req[r].limit = 0 -> "invalid_request"
                         [] OTHER -> "incoming")
    /\ UNCHANGED <<target, answer, spans>>

(* Any n edges of E, or all of them when there are fewer. *)
Limited(E, n) == {S \in SUBSET E : Cardinality(S) = Min2(n, Cardinality(E))}

EdgesTo(r) == IF Current(r) = Absent THEN {}
              ELSE {e \in Current(r).relationships : e[2] = req[r].object}

EdgesFrom(r) == IF Current(r) = Absent THEN {}
                ELSE {e \in Current(r).relationships : e[1] = req[r].object}

(* Variant: no probe beyond the limit. *)
ProbeLimitExact(q) == RelationshipLimit(q)

(* One edge more than the limit is read to find out about truncation.      *)
ProbeLimit(q) == RelationshipLimit(q) + 1

ReadIncoming(r) ==
    /\ Step(r, "incoming", "outgoing")
    /\ \E probe \in Limited(EdgesTo(r), ProbeLimit(req[r])) :
       \E kept \in Limited(probe, RelationshipLimit(req[r])) :
          answer' = [answer EXCEPT
                       ![r].incoming = kept,
                       ![r].in_truncated =
                          Cardinality(probe) > RelationshipLimit(req[r]),
                       ![r].related = {e[1] : e \in kept}]
    /\ UNCHANGED <<target, spans>>

ReadOutgoing(r) ==
    /\ Step(r, "outgoing", "endpoints")
    /\ \E probe \in Limited(EdgesFrom(r), ProbeLimit(req[r])) :
       \E kept \in Limited(probe, RelationshipLimit(req[r])) :
          answer' = [answer EXCEPT
                       ![r].outgoing = kept,
                       ![r].out_truncated =
                          Cardinality(probe) > RelationshipLimit(req[r]),
                       ![r].related = @ \union {e[2] : e \in kept}]
    /\ UNCHANGED <<target, spans>>

(* relationship_summary: get_node of one related object after the other.   *)
ReadEndpoint(r) ==
    /\ \E o \in answer[r].related :
          \/ /\ Present(r, o)
             /\ Step(r, "endpoints", "endpoints")
             /\ answer' = [answer EXCEPT ![r].related = @ \ {o}]
          \/ /\ ~Present(r, o)
             /\ Step(r, "endpoints", "missing_endpoint")
             /\ UNCHANGED answer
    /\ UNCHANGED <<target, spans>>

EndpointsRead(r) ==
    /\ answer[r].related = {}
    /\ Step(r, "endpoints", "get")
    /\ UNCHANGED <<target, answer, spans>>

(***************************************************************************)
(* snapshot_summary, which every tool ends with.                           *)
(***************************************************************************)

(* get_snapshot of a key that was resolved or listed before. *)
GetSnapshot(r) ==
    /\ Step(r, "get", IF Current(r) = Absent THEN "lost" ELSE "status")
    /\ answer' = [answer EXCEPT ![r].captured_at =
                    IF Current(r) = Absent THEN 0 ELSE Current(r).captured_at]
    /\ UNCHANGED <<target, spans>>

(* Variant: a third authority for snapshots that are not certified. *)
ContractStatusUnknown(r) ==
    /\ Step(r, "status", "certified")
    /\ answer' = [answer EXCEPT ![r].authority =
                    IF Current(r).authority = "complete"
                    THEN "complete" ELSE "unknown"]
    /\ UNCHANGED <<target, spans>>

(* get_snapshot_contract_status reads the row again; a row that is gone    *)
(* meets .expect("snapshot existence was checked").                        *)
ContractStatus(r) ==
    /\ Step(r, "status",
            IF Current(r) = Absent THEN "panicked" ELSE "certified")
    /\ answer' = [answer EXCEPT ![r].authority =
                    IF Current(r) = Absent THEN "" ELSE Current(r).authority]
    /\ UNCHANGED <<target, spans>>

(* get_certified_snapshot: the payload unless there is none or it is a     *)
(* legacy one.                                                             *)
Certified(g) == IF g # Absent /\ g.authority = "complete"
                THEN g.payload ELSE Absent

GetCertified(r) ==
    /\ Step(r, "certified", "nodes")
    /\ answer' = [answer EXCEPT ![r].payload = Certified(Current(r))]
    /\ UNCHANGED <<target, spans>>

(* Variant: the snapshot_key condition is missing. *)
NodeCountOfCache(r) ==
    /\ Step(r, "nodes", "edges")
    /\ answer' = [answer EXCEPT ![r].objects =
                    Cardinality(UNION {{k} \X store[k].objects :
                                   k \in {j \in Key : store[j] # Absent}})]
    /\ UNCHANGED <<target, spans>>

NodeCount(r) ==
    /\ Step(r, "nodes", "edges")
    /\ answer' = [answer EXCEPT ![r].objects =
                    IF Current(r) = Absent THEN 0
                    ELSE Cardinality(Current(r).objects)]
    /\ UNCHANGED <<target, spans>>

EdgeCount(r) ==
    /\ req[r].tool # "list_snapshots"
    /\ Step(r, "edges", IF req[r].tool = "describe_snapshot"
                        THEN "proof" ELSE "answered")
    /\ answer' = [answer EXCEPT ![r].relationships =
                    IF Current(r) = Absent THEN 0
                    ELSE Cardinality(Current(r).relationships)]
    /\ UNCHANGED <<target, spans>>

(* list_snapshots goes on with the next of its keys. *)
NextSummary(r) ==
    LET left == target[r] \ {The(target[r])}
    IN  /\ req[r].tool = "list_snapshots"
        /\ Step(r, "edges", IF left = {} THEN "answered" ELSE "get")
        /\ target' = [target EXCEPT ![r] = left]
        /\ spans' = [spans EXCEPT ![r] =
                       IF left = {} THEN {} ELSE {store[The(left)]}]
        /\ answer' = [answer EXCEPT ![r] = Blank]

GetProof(r) ==
    /\ Step(r, "proof", "answered")
    /\ answer' = [answer EXCEPT ![r].proof = Certified(Current(r))]
    /\ UNCHANGED <<target, spans>>

Read(r) ==
    \/ OpenExisting(r)   \/ StatementFails(r)
    \/ ResolveExact(r)   \/ ResolveAlias(r)   \/ ListSnapshots(r)
    \/ CountNodes(r)     \/ SelectPage(r)
    \/ GetNode(r)        \/ ReadIncoming(r)   \/ ReadOutgoing(r)
    \/ ReadEndpoint(r)   \/ EndpointsRead(r)
    \/ GetSnapshot(r)    \/ ContractStatus(r) \/ GetCertified(r)
    \/ NodeCount(r)      \/ EdgeCount(r)      \/ NextSummary(r)
    \/ GetProof(r)

(* An index run takes a step; spans records what readers can now find.     *)
Index ==
    /\ Next
    /\ spans' = [r \in Reader |->
                   IF stage[r] \in Answered \/ target[r] = {} THEN spans[r]
                   ELSE spans[r] \union {store'[The(target[r])]}]
    /\ UNCHANGED <<stage, req, target, answer>>

ReaderNext ==
    \/ Index
    \/ \E r \in Reader : Read(r) \/ \E q \in Request : Ask(r, q)

ReaderSpec == ReaderInit /\ [][ReaderNext]_allVars

-----------------------------------------------------------------------------
(***************************************************************************)
(* Properties.                                                             *)
(***************************************************************************)

(* Every variable holds a value of its kind.                               *)
ReaderTypeOK ==
    /\ stage \in [Reader -> Answered \union Statement]
    /\ req \in [Reader -> Request]
    /\ \A r \in Reader :
          /\ target[r] \subseteq Key
          /\ answer[r].total \in Nat
          /\ answer[r].authority \in Authority \union {""}

(* A snapshot that a request resolved or listed is there for all of its    *)
(* later statements: snapshot_summary never reaches its .expect with a     *)
(* missing row, and no listed snapshot is reported as not found.           *)
ResolvedSnapshotStays ==
    \A r \in Reader : stage[r] \notin {"panicked", "lost"}

(* The request was served from one generation. *)
Quiet(r) == \E g \in spans[r] : spans[r] = {g} /\ g # Absent

Generations(r) == spans[r] \ {Absent}

(* While no other generation is published, list_objects returns the exact  *)
(* page: the objects at positions offset+1 .. offset+limit, the exact      *)
(* total, and has_more precisely when objects remain after the page.       *)
QuietPageIsExact ==
    \A r \in Reader :
        (stage[r] = "answered" /\ req[r].tool = "list_objects" /\ Quiet(r)) =>
            LET all == Listing(The(spans[r]), req[r].filter)
                page == answer[r].page
            IN  /\ answer[r].total = Len(all)
                /\ \A n \in 1 .. Len(page) : page[n] = all[req[r].offset + n]
                /\ HasMore(r) <=> req[r].offset + Len(page) < Len(all)

(* While no other generation is published, a summary describes exactly the *)
(* generation in the cache, counts and completeness proof included, and    *)
(* describe_object never reports a missing endpoint.                       *)
QuietSummaryIsExact ==
    \A r \in Reader :
        Quiet(r) =>
            LET g == The(spans[r])
                a == answer[r]
            IN  /\ stage[r] # "missing_endpoint"
                /\ (stage[r] = "answered" /\ target[r] # {}) =>
                      /\ a.captured_at = g.captured_at
                      /\ a.authority = g.authority
                      /\ a.payload = Certified(g)
                      /\ a.objects = Cardinality(g.objects)
                      /\ a.relationships = Cardinality(g.relationships)
                      /\ req[r].tool = "describe_snapshot" => a.proof = a.payload

(* Also while index runs publish, a relationship list of describe_object   *)
(* that is not marked truncated is the whole list of some generation the   *)
(* key held during the request, and one that is marked never is.           *)
RelationshipTruncationIsExact ==
    \A r \in Reader :
        (stage[r] = "answered" /\ req[r].tool = "describe_object") =>
            /\ \E g \in Generations(r) :
                  LET all == {e \in g.relationships : e[2] = req[r].object}
                  IN  /\ answer[r].incoming \subseteq all
                      /\ answer[r].in_truncated <=> answer[r].incoming # all
            /\ \E g \in Generations(r) :
                  LET all == {e \in g.relationships : e[1] = req[r].object}
                  IN  /\ answer[r].outgoing \subseteq all
                      /\ answer[r].out_truncated <=> answer[r].outgoing # all

(* An object that every generation the key held during a request contains  *)
(* is on the first page, or the page says that there is more.              *)
NothingSilentlyOmitted ==
    \A r \in Reader :
        (/\ stage[r] = "answered" /\ req[r].tool = "list_objects"
         /\ req[r].offset = 0 /\ ~HasMore(r) /\ Generations(r) # {}) =>
            \A o \in req[r].filter :
                (\A g \in spans[r] : g # Absent /\ o \in ObjectsOf(g))
                    => o \in ToSet(answer[r].page)

=============================================================================
