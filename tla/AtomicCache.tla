----------------------------- MODULE AtomicCache -----------------------------
(***************************************************************************)
(* What the snapshot cache promises, without saying how: every snapshot    *)
(* key holds nothing or one whole generation, an index run that succeeds   *)
(* replaces the generation of its key in one step, and a run that fails    *)
(* changes nothing ("Snapshot replacement is transactional. A failed       *)
(* re-index keeps the last valid snapshot intact.", README.md).            *)
(***************************************************************************)
EXTENDS Naturals

CONSTANTS
    Key,        \* snapshot keys, "source:alias"
    Catalog,    \* schema contents an analysis can certify
    NodesOf,    \* NodesOf[c]: the graph objects of catalog c
    EdgesOf,    \* EdgesOf[c]: the graph edges of catalog c
    Reconciled, \* catalogs whose graph has the counts their proof declares
    Stamp,      \* captured_at_unix_ms values
    Indexer,    \* concurrent index runs
    Absent      \* a key that holds no snapshot

VARIABLES
    store,      \* store[k]: the generation a reader of key k finds
    status      \* status[i]: what the caller of run i has been told

vars == <<store, status>>

Authority == {"complete", "legacy_non_authoritative"}

(* One generation: a snapshot row together with all of its graph rows.     *)
Generation(c, authority, at) ==
    [payload |-> c, authority |-> authority, captured_at |-> at,
     objects |-> {<<o, c>> : o \in NodesOf[c]}, relationships |-> EdgesOf[c]]

Init ==
    /\ store \in [Key -> {Absent} \union
                    {Generation(c, a, t) :
                        c \in Catalog, a \in Authority, t \in Stamp}]
    /\ status = [i \in Indexer |-> "idle"]

StartRun(i) ==
    /\ status[i] # "running"
    /\ status' = [status EXCEPT ![i] = "running"]
    /\ UNCHANGED store

(* A run that is told "complete" has published its generation, whole.      *)
Publish(i) ==
    /\ status[i] = "running"
    /\ \E k \in Key, c \in Reconciled, t \in Stamp :
          store' = [store EXCEPT ![k] = Generation(c, "complete", t)]
    /\ status' = [status EXCEPT ![i] = "complete"]

(* Variant: a failed re-index removes the snapshot it could not replace.   *)
AbandonDeletes(i) ==
    /\ status[i] = "running"
    /\ status' = [status EXCEPT ![i] = "failed"]
    /\ \E k \in Key : store' = [store EXCEPT ![k] = Absent]

(* A run that fails, or whose process dies, leaves every key as it was.    *)
Abandon(i) ==
    /\ status[i] = "running"
    /\ status' = [status EXCEPT ![i] = "failed"]
    /\ UNCHANGED store

Next == \E i \in Indexer : StartRun(i) \/ Publish(i) \/ Abandon(i)

Spec == Init /\ [][Next]_vars

=============================================================================
