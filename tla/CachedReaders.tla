---------------------------- MODULE CachedReaders ----------------------------
(***************************************************************************)
(* The read tools over the cache file itself: the requests of CacheReaders *)
(* with the index runs of SnapshotCache.  A statement of a request sees    *)
(* the committed rows, never those of an open transaction.                 *)
(*                                                                         *)
(* A request opens the store as an index run does (GraphStore::open): it   *)
(* reads the version, refuses a file of a newer release, and then migrates *)
(* the file in a write transaction of its own, which waits for the lock.   *)
(* The version may be read long before the migration commits.              *)
(***************************************************************************)
EXTENDS SnapshotCache

CONSTANTS
    Alias, AliasOf, Reader, Request,
    MAX_OBJECT_PAGE_LIMIT, MAX_RELATIONSHIP_LIMIT   \* as in CacheReaders

VARIABLES
    stage, req, target, answer, spans,  \* as in CacheReaders
    checked     \* requests that have read the version but not yet migrated

readerVars == <<stage, req, target, answer, spans>>
cachedVars == <<vars, readerVars, checked>>

(* What the statements of a request find in the committed rows.            *)
Found == [k \in Key |-> Loaded(db[k])]

Readers == INSTANCE CacheReadersProofs
             WITH store <- Found,
                  status <- [i \in Indexer |-> Reported(pc[i])]

CachedInit ==
    /\ Init
    /\ stage = [r \in Reader |-> "idle"]
    /\ req = [r \in Reader |-> CHOOSE q \in Request : TRUE]
    /\ target = [r \in Reader |-> {}]
    /\ answer = [r \in Reader |-> Readers!Blank]
    /\ spans = [r \in Reader |-> {}]
    /\ checked = {}

(* An index run takes a step; spans records what requests can now find.    *)
IndexRuns ==
    /\ Next
    /\ spans' = [r \in Reader |->
                   IF stage[r] \in Readers!Answered \/ target[r] = {}
                   THEN spans[r]
                   ELSE spans[r] \union {Found'[Readers!The(target[r])]}]
    /\ UNCHANGED <<stage, req, target, answer, checked>>

Asks(r) ==
    /\ UNCHANGED <<vars, checked>>
    /\ \E q \in Request : Readers!Ask(r, q)

(* migrate: the version is read before, and outside, the transaction.      *)
ChecksVersion(r) ==
    /\ stage[r] = "open" /\ r \notin checked
    /\ version <= GRAPH_STORE_SCHEMA_VERSION
    /\ checked' = checked \union {r}
    /\ UNCHANGED <<vars, readerVars>>

(* migrate: BEGIN IMMEDIATE ... COMMIT; the request goes on to its tool.   *)
Migrates(r) ==
    /\ r \in checked
    /\ lock = NoOne
    /\ version' = GRAPH_STORE_SCHEMA_VERSION
    /\ checked' = checked \ {r}
    /\ UNCHANGED <<db, lock, work, runVars>>
    /\ Readers!OpenExisting(r)

(* A newer file, or a busy or I/O error while the store is opened.         *)
FailsToOpen(r) ==
    /\ stage[r] = "open"
    /\ checked' = checked \ {r}
    /\ UNCHANGED vars
    /\ Readers!StatementFails(r)

(* Any later statement.                                                    *)
Reads(r) ==
    /\ stage[r] # "open"
    /\ UNCHANGED <<vars, checked>>
    /\ Readers!Read(r)

CachedNext ==
    \/ IndexRuns
    \/ \E r \in Reader :
          Asks(r) \/ ChecksVersion(r) \/ Migrates(r) \/ FailsToOpen(r)
            \/ Reads(r)

CachedSpec == CachedInit /\ [][CachedNext]_cachedVars

-----------------------------------------------------------------------------
(* The assumptions of CacheReaders about requests and generations.         *)
RequestsFit == Readers!ReaderAssumption /\ Readers!GenerationAssumption

(* A version check stays valid until the migration: nothing raises the     *)
(* version of the file beyond this release.                                *)
CheckedGate ==
    /\ checked \subseteq Reader
    /\ checked # {} => version <= GRAPH_STORE_SCHEMA_VERSION

(* The inductive invariants: the cache file, with the version check of a   *)
(* request between its two statements; and the requests over its rows.     *)
FileIInv == IInv /\ CheckedGate
CachedIInv == FileIInv /\ Readers!ReaderIInv

(* The requests over the cache file are requests over the atomic cache.    *)
ImplementsReaders == Readers!ReaderSpec

=============================================================================
