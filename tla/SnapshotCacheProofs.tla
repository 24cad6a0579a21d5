------------------------ MODULE SnapshotCacheProofs ------------------------
(***************************************************************************)
(* Proofs about SnapshotCache, for every set of keys, catalogs and runs.   *)
(* IInv is inductive: a commit installs work, which WorkInProgress says is *)
(* the whole new generation, checked by ProjectionMatches, and no other    *)
(* step changes db.                                                        *)
(***************************************************************************)
EXTENDS CachedReaders, TLAPS

(* The slots the cache is built from are well typed: one for no snapshot,  *)
(* one for each whole generation, one for each generation in the making.   *)
LEMMA SlotTypes ==
    /\ EmptySlot \in Slot
    /\ \A c \in Catalog, a \in Authority, t \in Stamp :
          /\ WholeSlot(c, a, t) \in Slot
          /\ [EmptySlot EXCEPT !.row = WholeSlot(c, a, t).row] \in Slot
          /\ [WholeSlot(c, a, t) EXCEPT !.edges = {}] \in Slot
  <1>1. EmptySlot \in Slot
    BY DEF EmptySlot, Slot
  <1>2. ASSUME NEW c \in Catalog, NEW a \in Authority, NEW t \in Stamp
        PROVE  /\ WholeSlot(c, a, t) \in Slot
               /\ [EmptySlot EXCEPT !.row = WholeSlot(c, a, t).row] \in Slot
               /\ [WholeSlot(c, a, t) EXCEPT !.edges = {}] \in Slot
    <2>1. NodeRows(c) \in SUBSET (Object \X Catalog)
      BY CatalogAssumption DEF NodeRows
    <2>2. EdgesOf[c] \in SUBSET (Object \X Object)
      BY CatalogAssumption
    <2>3. [payload |-> c, authority |-> a, captured_at |-> t] \in Row
      BY DEF Row
    <2> QED
      BY <2>1, <2>2, <2>3 DEF WholeSlot, EmptySlot, Slot
  <1> QED
    BY <1>1, <1>2

(* The initial cache is empty or holds whole legacy snapshots, and nobody  *)
(* has started to write.                                                   *)
LEMMA InitIInv == Init => IInv
  <1> SUFFICES ASSUME Init PROVE IInv
    OBVIOUS
  <1>1. \A k \in Key :
          \/ db[k] = EmptySlot
          \/ \E c \in Catalog :
                db[k] = WholeSlot(c, "legacy_non_authoritative", 0)
    BY DEF Init
  <1>2. 0 \in Stamp
    BY BoundAssumption DEF Stamp
  <1>3. TypeOK
    <2>1. ASSUME NEW k \in Key PROVE db[k] \in Slot
      <3>1. CASE db[k] = EmptySlot
        BY <3>1, SlotTypes
      <3>2. ASSUME NEW c \in Catalog,
                   db[k] = WholeSlot(c, "legacy_non_authoritative", 0)
            PROVE  db[k] \in Slot
        BY <3>2, <1>2, SlotTypes DEF Authority
      <3> QED
        BY <3>1, <3>2, <1>1
    <2>2. db \in [Key -> Slot]
      BY <2>1 DEF Init
    <2>3. /\ (CHOOSE k \in Key : TRUE) \in Key
          /\ (CHOOSE c \in Catalog : TRUE) \in Catalog
      BY RequestAssumption
    <2> QED
      BY <2>2, <2>3, <1>2, SlotTypes
      DEF Init, TypeOK, PC, Outcome, GRAPH_STORE_SCHEMA_VERSION
  <1>4. OneWriter /\ VersionGate /\ WorkInProgress
    BY SentinelAssumption
    DEF Init, OneWriter, VersionGate, WorkInProgress, InTransaction, Admitted
  <1>5. WholeGenerations /\ CompleteMeansReconciled
    <2>1. ASSUME NEW k \in Key, db[k] = EmptySlot
          PROVE  WholeAt(k) /\ ReconciledAt(k)
      BY <2>1 DEF WholeAt, ReconciledAt, EmptySlot
    <2>2. ASSUME NEW k \in Key, NEW c \in Catalog,
                 db[k] = WholeSlot(c, "legacy_non_authoritative", 0)
          PROVE  WholeAt(k) /\ ReconciledAt(k)
      <3>1. WholeSlot(c, "legacy_non_authoritative", 0).row \in Row
        BY <1>2 DEF WholeSlot, Row, Authority
      <3> QED
        BY <2>2, <3>1, AbsentAssumption
        DEF WholeAt, ReconciledAt, WholeSlot
    <2> QED
      BY <1>1, <2>1, <2>2 DEF WholeGenerations, CompleteMeansReconciled
  <1> QED
    BY <1>3, <1>4, <1>5 DEF IInv

(* Every step of every run, a failure or a crash included, keeps the       *)
(* invariant.                                                              *)
LEMMA NextIInv == IInv /\ [Next]_vars => IInv'
  <1> SUFFICES ASSUME IInv, [Next]_vars PROVE IInv'
    OBVIOUS
  <1> USE DEF IInv, Goto, PC, Outcome, Opening, InTransaction, Admitted
  <1>0. \A i, j \in Indexer :
          pc[i] \in InTransaction /\ pc[j] \in InTransaction => i = j
    BY DEF OneWriter
  <1>1. ASSUME NEW i \in Indexer, NEW k \in Key, StartRun(i, k)
        PROVE  IInv'
    <2>1. TypeOK'
      BY <1>1, BoundAssumption DEF TypeOK, StartRun, storeVars, Stamp
    <2>2. OneWriter'
      BY <1>1, SentinelAssumption DEF TypeOK, OneWriter, StartRun, storeVars
    <2>3. VersionGate'
      BY <1>1 DEF TypeOK, VersionGate, StartRun, storeVars
    <2>4. WorkInProgress'
      BY <1>1, <1>0 DEF TypeOK, WorkInProgress, OneWriter,
                  ProjectionMatches, StartRun, storeVars
    <2>5. WholeGenerations' /\ CompleteMeansReconciled'
      BY <1>1 DEF WholeGenerations, CompleteMeansReconciled, WholeAt,
                  ReconciledAt, StartRun, storeVars
    <2> QED
      BY <2>1, <2>2, <2>3, <2>4, <2>5
  <1>2. ASSUME NEW i \in Indexer, ReadVersion(i)
        PROVE  IInv'
    <2>1. TypeOK'
      BY <1>2 DEF TypeOK, ReadVersion, storeVars
    <2>2. OneWriter'
      BY <1>2, SentinelAssumption DEF TypeOK, OneWriter, ReadVersion, storeVars
    <2>3. VersionGate'
      BY <1>2 DEF TypeOK, VersionGate, ReadVersion, storeVars,
         GRAPH_STORE_SCHEMA_VERSION
    <2>4. WorkInProgress'
      BY <1>2, <1>0 DEF TypeOK, WorkInProgress, OneWriter,
                  ProjectionMatches, ReadVersion, storeVars
    <2>5. WholeGenerations' /\ CompleteMeansReconciled'
      BY <1>2 DEF WholeGenerations, CompleteMeansReconciled, WholeAt,
                  ReconciledAt, ReadVersion, storeVars
    <2> QED
      BY <2>1, <2>2, <2>3, <2>4, <2>5
  <1>3. ASSUME NEW i \in Indexer, Migrate(i)
        PROVE  IInv'
    <2>1. TypeOK'
      BY <1>3 DEF TypeOK, Migrate, GRAPH_STORE_SCHEMA_VERSION
    <2>2. OneWriter'
      BY <1>3, SentinelAssumption DEF TypeOK, OneWriter, Migrate
    <2>3. VersionGate'
      BY <1>3 DEF TypeOK, VersionGate, Migrate, GRAPH_STORE_SCHEMA_VERSION
    <2>4. WorkInProgress'
      BY <1>3, <1>0 DEF TypeOK, WorkInProgress, OneWriter,
                  ProjectionMatches, Migrate
    <2>5. WholeGenerations' /\ CompleteMeansReconciled'
      BY <1>3 DEF WholeGenerations, CompleteMeansReconciled, WholeAt,
                  ReconciledAt, Migrate
    <2> QED
      BY <2>1, <2>2, <2>3, <2>4, <2>5
  <1>4. ASSUME NEW i \in Indexer, NEW c \in Catalog, AnalysisComplete(i, c)
        PROVE  IInv'
    <2>1. TypeOK'
      BY <1>4 DEF TypeOK, AnalysisComplete, storeVars
    <2>2. OneWriter'
      BY <1>4, SentinelAssumption DEF TypeOK, OneWriter, AnalysisComplete,
         storeVars
    <2>3. VersionGate'
      BY <1>4 DEF TypeOK, VersionGate, AnalysisComplete, storeVars
    <2>4. WorkInProgress'
      BY <1>4, <1>0 DEF TypeOK, WorkInProgress, OneWriter,
                  ProjectionMatches, AnalysisComplete, storeVars
    <2>5. WholeGenerations' /\ CompleteMeansReconciled'
      BY <1>4 DEF WholeGenerations, CompleteMeansReconciled, WholeAt,
                  ReconciledAt, AnalysisComplete, storeVars
    <2> QED
      BY <2>1, <2>2, <2>3, <2>4, <2>5
  <1>5. ASSUME NEW i \in Indexer, AnalysisFailed(i)
        PROVE  IInv'
    <2>1. TypeOK'
      BY <1>5 DEF TypeOK, AnalysisFailed, storeVars
    <2>2. OneWriter'
      BY <1>5, SentinelAssumption DEF TypeOK, OneWriter, AnalysisFailed,
         storeVars
    <2>3. VersionGate'
      BY <1>5 DEF TypeOK, VersionGate, AnalysisFailed, storeVars
    <2>4. WorkInProgress'
      BY <1>5, <1>0 DEF TypeOK, WorkInProgress, OneWriter,
                  ProjectionMatches, AnalysisFailed, storeVars
    <2>5. WholeGenerations' /\ CompleteMeansReconciled'
      BY <1>5 DEF WholeGenerations, CompleteMeansReconciled, WholeAt,
                  ReconciledAt, AnalysisFailed, storeVars
    <2> QED
      BY <2>1, <2>2, <2>3, <2>4, <2>5
  <1>6. ASSUME NEW i \in Indexer, BeginImmediate(i)
        PROVE  IInv'
    <2>1. TypeOK'
      BY <1>6 DEF TypeOK, BeginImmediate
    <2>2. OneWriter'
      BY <1>6, SentinelAssumption DEF TypeOK, OneWriter, BeginImmediate
    <2>3. VersionGate'
      BY <1>6 DEF TypeOK, VersionGate, BeginImmediate
    <2>4. WorkInProgress'
      BY <1>6, SentinelAssumption DEF TypeOK, WorkInProgress, OneWriter,
                  ProjectionMatches, BeginImmediate
    <2>5. WholeGenerations' /\ CompleteMeansReconciled'
      BY <1>6 DEF WholeGenerations, CompleteMeansReconciled, WholeAt,
                  ReconciledAt, BeginImmediate
    <2> QED
      BY <2>1, <2>2, <2>3, <2>4, <2>5
  <1>7. ASSUME NEW i \in Indexer, DeleteSnapshot(i)
        PROVE  IInv'
    <2>1. TypeOK'
      BY <1>7, SlotTypes DEF TypeOK, DeleteSnapshot
    <2>2. OneWriter'
      BY <1>7, SentinelAssumption DEF TypeOK, OneWriter, DeleteSnapshot
    <2>3. VersionGate'
      BY <1>7 DEF TypeOK, VersionGate, DeleteSnapshot
    <2>4. WorkInProgress'
      BY <1>7, <1>0 DEF TypeOK, WorkInProgress, OneWriter,
                  ProjectionMatches, DeleteSnapshot
    <2>5. WholeGenerations' /\ CompleteMeansReconciled'
      BY <1>7 DEF WholeGenerations, CompleteMeansReconciled, WholeAt,
                  ReconciledAt, DeleteSnapshot
    <2> QED
      BY <2>1, <2>2, <2>3, <2>4, <2>5
  <1>8. ASSUME NEW i \in Indexer, InsertSnapshot(i)
        PROVE  IInv'
    <2> DEFINE new == WholeSlot(payload[i], "complete", captured[i])
    <2>0. work' = [EmptySlot EXCEPT !.row = new.row]
      BY <1>8 DEF WorkInProgress, InsertSnapshot, WholeSlot
    <2>1. TypeOK'
      <3>1. work' \in Slot
        BY <2>0, SlotTypes DEF TypeOK, Authority
      <3> QED
        BY <1>8, <3>1 DEF TypeOK, InsertSnapshot
    <2>2. OneWriter'
      BY <1>8, SentinelAssumption DEF TypeOK, OneWriter, InsertSnapshot
    <2>3. VersionGate'
      BY <1>8 DEF TypeOK, VersionGate, InsertSnapshot
    <2>4. WorkInProgress'
      BY <1>8, <1>0, <2>0 DEF TypeOK, WorkInProgress, OneWriter,
                  ProjectionMatches, InsertSnapshot
    <2>5. WholeGenerations' /\ CompleteMeansReconciled'
      BY <1>8 DEF WholeGenerations, CompleteMeansReconciled, WholeAt,
                  ReconciledAt, InsertSnapshot
    <2> QED
      BY <2>1, <2>2, <2>3, <2>4, <2>5
  <1>9. ASSUME NEW i \in Indexer, InsertNodes(i)
        PROVE  IInv'
    <2> DEFINE new == WholeSlot(payload[i], "complete", captured[i])
    <2>a. work = [row |-> new.row, nodes |-> {}, edges |-> {}]
      BY <1>9 DEF WorkInProgress, InsertNodes, EmptySlot
    <2>b. {n \in work.nodes : n[1] \notin NodesOf[payload[i]]} = {}
      BY <2>a
    <2>c. work' = [work EXCEPT !.nodes = {} \union NodeRows(payload[i])]
      BY <1>9, <2>b DEF InsertNodes
    <2>0. work' = [new EXCEPT !.edges = {}]
      BY <2>a, <2>c DEF WholeSlot
    <2>1. TypeOK'
      <3>1. work' \in Slot
        BY <2>0, SlotTypes DEF TypeOK, Authority
      <3> QED
        BY <1>9, <3>1 DEF TypeOK, InsertNodes
    <2>2. OneWriter'
      BY <1>9, SentinelAssumption DEF TypeOK, OneWriter, InsertNodes
    <2>3. VersionGate'
      BY <1>9 DEF TypeOK, VersionGate, InsertNodes
    <2>4. WorkInProgress'
      BY <1>9, <1>0, <2>0 DEF TypeOK, WorkInProgress, OneWriter,
                  ProjectionMatches, InsertNodes
    <2>5. WholeGenerations' /\ CompleteMeansReconciled'
      BY <1>9 DEF WholeGenerations, CompleteMeansReconciled, WholeAt,
                  ReconciledAt, InsertNodes
    <2> QED
      BY <2>1, <2>2, <2>3, <2>4, <2>5
  <1>10. ASSUME NEW i \in Indexer, InsertEdges(i)
        PROVE  IInv'
    <2> DEFINE new == WholeSlot(payload[i], "complete", captured[i])
    <2>a. work = [new EXCEPT !.edges = {}]
      BY <1>10 DEF WorkInProgress, InsertEdges
    <2>b. work = [row |-> new.row, nodes |-> new.nodes, edges |-> {}]
      BY <2>a DEF WholeSlot
    <2>c. work' = [work EXCEPT !.edges = {} \union EdgesOf[payload[i]]]
      BY <1>10, <2>b DEF InsertEdges
    <2>0. work' = new
      BY <2>b, <2>c DEF WholeSlot
    <2>1. TypeOK'
      <3>1. work' \in Slot
        BY <2>0, SlotTypes DEF TypeOK, Authority
      <3> QED
        BY <1>10, <3>1 DEF TypeOK, InsertEdges
    <2>2. OneWriter'
      BY <1>10, SentinelAssumption DEF TypeOK, OneWriter, InsertEdges
    <2>3. VersionGate'
      BY <1>10 DEF TypeOK, VersionGate, InsertEdges
    <2>4. WorkInProgress'
      BY <1>10, <1>0, <2>0 DEF TypeOK, WorkInProgress, OneWriter,
                  ProjectionMatches, InsertEdges
    <2>5. WholeGenerations' /\ CompleteMeansReconciled'
      BY <1>10 DEF WholeGenerations, CompleteMeansReconciled, WholeAt,
                  ReconciledAt, InsertEdges
    <2> QED
      BY <2>1, <2>2, <2>3, <2>4, <2>5
  <1>11. ASSUME NEW i \in Indexer, VerifyProjection(i)
        PROVE  IInv'
    <2>1. TypeOK'
      BY <1>11 DEF TypeOK, VerifyProjection, storeVars
    <2>2. OneWriter'
      BY <1>11, SentinelAssumption DEF TypeOK, OneWriter, VerifyProjection,
         storeVars
    <2>3. VersionGate'
      BY <1>11 DEF TypeOK, VersionGate, VerifyProjection, storeVars
    <2>4. WorkInProgress'
      BY <1>11, <1>0 DEF TypeOK, WorkInProgress, OneWriter,
                  ProjectionMatches, VerifyProjection, storeVars
    <2>5. WholeGenerations' /\ CompleteMeansReconciled'
      BY <1>11 DEF WholeGenerations, CompleteMeansReconciled, WholeAt,
                  ReconciledAt, VerifyProjection, storeVars
    <2> QED
      BY <2>1, <2>2, <2>3, <2>4, <2>5
  <1>12. ASSUME NEW i \in Indexer, ProjectionMismatch(i)
        PROVE  IInv'
    <2>1. TypeOK'
      BY <1>12, SlotTypes DEF TypeOK, ProjectionMismatch, Disconnect
    <2>2. OneWriter'
      BY <1>12, SentinelAssumption DEF TypeOK, OneWriter, ProjectionMismatch,
         Disconnect
    <2>3. VersionGate'
      BY <1>12 DEF TypeOK, VersionGate, ProjectionMismatch, Disconnect
    <2>4. WorkInProgress'
      BY <1>12, <1>0 DEF TypeOK, WorkInProgress, OneWriter,
                  ProjectionMatches, ProjectionMismatch, Disconnect
    <2>5. WholeGenerations' /\ CompleteMeansReconciled'
      BY <1>12 DEF WholeGenerations, CompleteMeansReconciled, WholeAt,
                  ReconciledAt, ProjectionMismatch, Disconnect
    <2> QED
      BY <2>1, <2>2, <2>3, <2>4, <2>5
  <1>13. ASSUME NEW i \in Indexer, Commit(i)
        PROVE  IInv'
    <2>1. TypeOK'
      BY <1>13, SlotTypes DEF TypeOK, Commit
    <2>2. OneWriter'
      BY <1>13, SentinelAssumption DEF TypeOK, OneWriter, Commit
    <2>3. VersionGate'
      BY <1>13 DEF TypeOK, VersionGate, Commit
    <2>4. WorkInProgress'
      BY <1>13, <1>0 DEF TypeOK, WorkInProgress, OneWriter,
                  ProjectionMatches, Commit
    <2>5. WholeGenerations' /\ CompleteMeansReconciled'
      <3> DEFINE new == WholeSlot(payload[i], "complete", captured[i])
      <3>1. /\ work = new
            /\ ProjectionMatches(i)
        BY <1>13 DEF WorkInProgress, Commit
      <3>2. new.row \in Row /\ new.row # Absent
        BY AbsentAssumption DEF WholeSlot, Row, TypeOK, Authority
      <3>3. ASSUME NEW k \in Key, k = key[i]
            PROVE  db'[k] = new
        BY <1>13, <3>1, <3>3 DEF TypeOK, Commit
      <3>4. ASSUME NEW k \in Key, k = key[i]
            PROVE  WholeAt(k)' /\ ReconciledAt(k)'
        <4>1. /\ new.row.payload = payload[i]
              /\ new.nodes = NodeRows(payload[i])
              /\ new.edges = EdgesOf[payload[i]]
          BY DEF WholeSlot
        <4>2. db'[k] = new
          BY <3>3, <3>4
        <4>3. WholeAt(k)'
          BY <4>1, <4>2, <3>2 DEF WholeAt
        <4>4. ReconciledAt(k)'
          BY <4>1, <4>2, <3>1 DEF ReconciledAt, ProjectionMatches
        <4> QED
          BY <4>3, <4>4
      <3>5. ASSUME NEW k \in Key, k # key[i]
            PROVE  WholeAt(k)' /\ ReconciledAt(k)'
        BY <1>13, <3>5 DEF WholeGenerations, CompleteMeansReconciled, WholeAt,
                           ReconciledAt, TypeOK, Commit
      <3> QED
        BY <1>13, <3>4, <3>5
        DEF WholeGenerations, CompleteMeansReconciled, Commit
    <2> QED
      BY <2>1, <2>2, <2>3, <2>4, <2>5
  <1>14. ASSUME NEW i \in Indexer, StorageFails(i)
        PROVE  IInv'
    <2>1. TypeOK'
      BY <1>14, SlotTypes DEF TypeOK, StorageFails, Disconnect
    <2>2. OneWriter'
      BY <1>14, SentinelAssumption DEF TypeOK, OneWriter, StorageFails,
         Disconnect
    <2>3. VersionGate'
      BY <1>14 DEF TypeOK, VersionGate, StorageFails, Disconnect
    <2>4. WorkInProgress'
      BY <1>14, <1>0 DEF TypeOK, WorkInProgress, OneWriter,
                  ProjectionMatches, StorageFails, Disconnect
    <2>5. WholeGenerations' /\ CompleteMeansReconciled'
      BY <1>14 DEF WholeGenerations, CompleteMeansReconciled, WholeAt,
                  ReconciledAt, StorageFails, Disconnect
    <2> QED
      BY <2>1, <2>2, <2>3, <2>4, <2>5
  <1>15. ASSUME NEW i \in Indexer, Crash(i)
        PROVE  IInv'
    <2>1. TypeOK'
      BY <1>15, SlotTypes DEF TypeOK, Crash, Disconnect
    <2>2. OneWriter'
      BY <1>15, SentinelAssumption DEF TypeOK, OneWriter, Crash, Disconnect
    <2>3. VersionGate'
      BY <1>15 DEF TypeOK, VersionGate, Crash, Disconnect
    <2>4. WorkInProgress'
      BY <1>15, <1>0 DEF TypeOK, WorkInProgress, OneWriter,
                  ProjectionMatches, Crash, Disconnect
    <2>5. WholeGenerations' /\ CompleteMeansReconciled'
      BY <1>15 DEF WholeGenerations, CompleteMeansReconciled, WholeAt,
                  ReconciledAt, Crash, Disconnect
    <2> QED
      BY <2>1, <2>2, <2>3, <2>4, <2>5
  <1>16. CASE UNCHANGED vars
    BY <1>16
    DEF vars, TypeOK, OneWriter, VersionGate, WorkInProgress, WholeGenerations,
        CompleteMeansReconciled, WholeAt, ReconciledAt, ProjectionMatches
  <1> QED
    BY <1>1, <1>2, <1>3, <1>4, <1>5, <1>6, <1>7, <1>8, <1>9, <1>10, <1>11,
       <1>12, <1>13, <1>14, <1>15, <1>16
    DEF Next, Progress

(* The invariant holds in every reachable state. *)
THEOREM Invariance == Spec => []IInv
  <1> QED
    BY InitIInv, NextIInv, PTL DEF Spec

(* Types: the committed rows, the rows of an open transaction and the      *)
(* position of every run stay within what the code can store.              *)
THEOREM TypeCorrect == Spec => []TypeOK
  <1>1. IInv => TypeOK
    BY DEF IInv
  <1> QED
    BY <1>1, Invariance, PTL

(* A failed, interrupted or raced re-index never leaves a partial graph:   *)
(* the rows of every key are one whole generation.                         *)
THEOREM GenerationsStayWhole == Spec => []WholeGenerations
  <1>1. IInv => WholeGenerations
    BY DEF IInv
  <1> QED
    BY <1>1, Invariance, PTL

(* A snapshot marked complete matches the counts of its proof.             *)
THEOREM CompleteIsReconciled == Spec => []CompleteMeansReconciled
  <1>1. IInv => CompleteMeansReconciled
    BY DEF IInv
  <1> QED
    BY <1>1, Invariance, PTL

(* SQLite's lock and the order of the calls keep writers apart.            *)
THEOREM SingleWriter == Spec => []OneWriter
  <1>1. IInv => OneWriter
    BY DEF IInv
  <1> QED
    BY <1>1, Invariance, PTL

(* No step makes the snapshot of a key disappear: only a commit changes    *)
(* db, and it installs a slot that has a row.                              *)
LEMMA StepKeepsSnapshots ==
    IInv /\ [Next]_vars =>
        \A k \in Key : db[k].row # Absent => db'[k].row # Absent
  <1> SUFFICES ASSUME IInv, [Next]_vars, NEW k \in Key, db[k].row # Absent,
                      db'[k].row = Absent
               PROVE  FALSE
    OBVIOUS
  <1>1. PICK i \in Indexer : Commit(i)
    BY DEF Next, Progress, StartRun, ReadVersion, Migrate, AnalysisComplete,
           AnalysisFailed, BeginImmediate, DeleteSnapshot, InsertSnapshot,
           InsertNodes, InsertEdges, VerifyProjection, ProjectionMismatch,
           StorageFails, Crash, storeVars, vars
  <1>2. work = WholeSlot(payload[i], "complete", captured[i])
    BY <1>1 DEF IInv, WorkInProgress, Commit, Goto
  <1>3. work.row \in Row
    BY <1>2 DEF WholeSlot, Row, IInv, TypeOK, Authority
  <1> QED
    BY <1>1, <1>3, AbsentAssumption DEF Commit, IInv, TypeOK

(* A file of a newer release is not written: whoever could write has       *)
(* passed the version check (VersionGate).                                 *)
LEMMA StepLeavesNewer ==
    IInv /\ [Next]_vars =>
        (version > GRAPH_STORE_SCHEMA_VERSION => UNCHANGED <<version, db>>)
  <1> SUFFICES ASSUME IInv, [Next]_vars, version > GRAPH_STORE_SCHEMA_VERSION
               PROVE  UNCHANGED <<version, db>>
    OBVIOUS
  <1>1. ASSUME NEW i \in Indexer PROVE pc[i] \notin Admitted
    BY DEF IInv, VersionGate, TypeOK, GRAPH_STORE_SCHEMA_VERSION
  <1> QED
    BY <1>1
    DEF Next, Progress, StartRun, ReadVersion, Migrate, AnalysisComplete,
        AnalysisFailed, BeginImmediate, DeleteSnapshot, InsertSnapshot,
        InsertNodes, InsertEdges, VerifyProjection, ProjectionMismatch,
        Commit, StorageFails, Crash, storeVars, vars, Goto, Admitted,
        InTransaction

(* Readers find a snapshot as long as the cache exists.                    *)
THEOREM SnapshotsStay == Spec => SnapshotNeverVanishes
  <1>1. IInv /\ [Next]_vars =>
          [\A k \in Key : db[k].row # Absent => db'[k].row # Absent]_vars
    BY StepKeepsSnapshots
  <1> QED
    BY <1>1, Invariance, PTL DEF Spec, SnapshotNeverVanishes

(* A cache file of a newer release is never written.                       *)
THEOREM NewerCacheStays == Spec => NewerCacheUntouched
  <1>1. IInv /\ [Next]_vars =>
          [version > GRAPH_STORE_SCHEMA_VERSION => UNCHANGED <<version, db>>]_vars
    BY StepLeavesNewer
  <1> QED
    BY <1>1, Invariance, PTL DEF Spec, NewerCacheUntouched

(***************************************************************************)
(* The refinement: SnapshotCache implements AtomicCache.                   *)
(***************************************************************************)

(* What a reader loads from a whole slot is the generation it stores.      *)
LEMMA LoadedGeneration ==
    ASSUME NEW c \in Catalog, NEW a \in Authority, NEW t \in Stamp
    PROVE  Loaded(WholeSlot(c, a, t)) = Atomic!Generation(c, a, t)
  <1>1. WholeSlot(c, a, t).row \in Row
    BY DEF WholeSlot, Row
  <1>2. WholeSlot(c, a, t).row # Absent
    BY <1>1, AbsentAssumption
  <1> QED
    BY <1>2 DEF Loaded, WholeSlot, NodeRows, Atomic!Generation

(* The initial cache maps to an initial atomic cache. *)
LEMMA InitRefines == Init => Atomic!Init
  <1> SUFFICES ASSUME Init PROVE Atomic!Init
    OBVIOUS
  <1> DEFINE Gens == {Absent} \union
               {Atomic!Generation(c, a, t) :
                  c \in Catalog, a \in Atomic!Authority, t \in Stamp}
  <1>1. ASSUME NEW k \in Key PROVE Loaded(db[k]) \in Gens
    <2>1. CASE db[k] = EmptySlot
      BY <2>1 DEF Loaded, EmptySlot
    <2>2. ASSUME NEW c \in Catalog,
                 db[k] = WholeSlot(c, "legacy_non_authoritative", 0)
          PROVE  Loaded(db[k]) \in Gens
      <3>1. 0 \in Stamp /\ "legacy_non_authoritative" \in Authority
        BY BoundAssumption DEF Stamp, Authority
      <3>2. Loaded(db[k]) =
              Atomic!Generation(c, "legacy_non_authoritative", 0)
        BY <2>2, <3>1, LoadedGeneration
      <3> QED
        BY <3>1, <3>2 DEF Authority, Atomic!Authority
    <2> QED
      BY <2>1, <2>2 DEF Init
  <1>2. [k \in Key |-> Loaded(db[k])] \in [Key -> Gens]
    BY <1>1
  <1>3. [i \in Indexer |-> Reported(pc[i])] = [i \in Indexer |-> "idle"]
    BY DEF Init, Reported
  <1> QED
    BY <1>2, <1>3 DEF Atomic!Init

(* A commit publishes; leaving an outcome starts a run; entering "failed"  *)
(* or "crashed" abandons it; every other step is invisible.                *)
LEMMA NextRefines == IInv /\ [Next]_vars => [Atomic!Next]_(Atomic!vars)
  <1> SUFFICES ASSUME IInv, [Next]_vars
               PROVE  Atomic!Next \/ UNCHANGED Atomic!vars
    OBVIOUS
  <1> DEFINE store == [k \in Key |-> Loaded(db[k])]
             status == [j \in Indexer |-> Reported(pc[j])]
  <1>0. pc \in [Indexer -> PC]
    BY DEF IInv, TypeOK
  <1>1. ASSUME NEW i \in Indexer, NEW to, pc' = [pc EXCEPT ![i] = to]
        PROVE  status' = [status EXCEPT ![i] = Reported(to)]
    BY <1>0, <1>1
  <1>2. ASSUME NEW i \in Indexer, db' = db, Reported(pc[i]) = "running",
               NEW to, pc' = [pc EXCEPT ![i] = to], Reported(to) = "running"
        PROVE  UNCHANGED Atomic!vars
    BY <1>0, <1>2 DEF Atomic!vars
  <1>3. ASSUME NEW i \in Indexer, db' = db, Reported(pc[i]) = "running",
               NEW to, pc' = [pc EXCEPT ![i] = to], Reported(to) = "failed"
        PROVE  Atomic!Next
    <2>1. Atomic!Abandon(i)
      BY <1>1, <1>3 DEF Atomic!Abandon
    <2> QED
      BY <2>1 DEF Atomic!Next
  <1>4. ASSUME NEW i \in Indexer, NEW k \in Key, StartRun(i, k)
        PROVE  Atomic!Next
    <2>1. Reported(pc[i]) # "running" /\ Reported("open") = "running"
      BY <1>4 DEF StartRun, Reported, Outcome
    <2>2. Atomic!StartRun(i)
      BY <1>1, <1>4, <2>1 DEF StartRun, storeVars, Atomic!StartRun
    <2> QED
      BY <2>2 DEF Atomic!Next
  <1>5. ASSUME NEW i \in Indexer, Commit(i)
        PROVE  Atomic!Next
    <2> DEFINE c == payload[i]
               g == Atomic!Generation(c, "complete", captured[i])
    <2>1. /\ Reported(pc[i]) = "running"
          /\ status' = [status EXCEPT ![i] = "complete"]
      BY <1>1, <1>5 DEF Commit, Goto, Reported
    <2>2. /\ work = WholeSlot(c, "complete", captured[i])
          /\ ProjectionMatches(i)
      BY <1>5 DEF IInv, WorkInProgress, Commit, Goto
    <2>3. /\ key[i] \in Key /\ c \in Catalog /\ captured[i] \in Stamp
          /\ "complete" \in Authority
      BY DEF IInv, TypeOK, Authority
    <2>4. Loaded(work) = g
      BY <2>2, <2>3, LoadedGeneration
    <2>5. store' = [store EXCEPT ![key[i]] = g]
      BY <1>5, <2>3, <2>4 DEF Commit, IInv, TypeOK
    <2>6. c \in Reconciled
      BY <2>2, <2>3 DEF ProjectionMatches, WholeSlot, Reconciled
    <2>7. \E k \in Key, d \in Reconciled, t \in Stamp :
            store' = [store EXCEPT ![k] = Atomic!Generation(d, "complete", t)]
      BY <2>3, <2>5, <2>6
    <2>8. Atomic!Publish(i)
      BY <2>1, <2>7 DEF Atomic!Publish
    <2> QED
      BY <2>8 DEF Atomic!Next
  <1>6. ASSUME NEW i \in Indexer, Progress(i) \/ Crash(i), ~Commit(i)
        PROVE  Atomic!Next \/ UNCHANGED Atomic!vars
    <2>1. db' = db
      BY <1>6
      DEF Progress, ReadVersion, Migrate, AnalysisComplete, AnalysisFailed,
          BeginImmediate, DeleteSnapshot, InsertSnapshot, InsertNodes,
          InsertEdges, VerifyProjection, ProjectionMismatch, StorageFails,
          Crash, storeVars
    <2>2. PICK to : /\ pc' = [pc EXCEPT ![i] = to]
                    /\ to \in PC \ {"idle", "complete"}
      BY <1>6
      DEF Progress, ReadVersion, Migrate, AnalysisComplete, AnalysisFailed,
          BeginImmediate, DeleteSnapshot, InsertSnapshot, InsertNodes,
          InsertEdges, VerifyProjection, ProjectionMismatch, StorageFails,
          Crash, Goto, PC, Outcome, Opening, InTransaction
    <2>3. Reported(pc[i]) = "running"
      BY <1>0, <1>6
      DEF Progress, ReadVersion, Migrate, AnalysisComplete, AnalysisFailed,
          BeginImmediate, DeleteSnapshot, InsertSnapshot, InsertNodes,
          InsertEdges, VerifyProjection, ProjectionMismatch, StorageFails,
          Crash, Goto, PC, Outcome, Opening, InTransaction, Reported
    <2>4. Reported(to) \in {"running", "failed"}
      BY <2>2 DEF Reported, PC, Outcome
    <2> QED
      BY <1>2, <1>3, <2>1, <2>2, <2>3, <2>4
  <1>7. CASE UNCHANGED vars
    BY <1>7 DEF vars, Atomic!vars
  <1> QED
    BY <1>4, <1>5, <1>6, <1>7 DEF Next

(* The cache keeps its promise: replacement is atomic, a run told          *)
(* "complete" has published a reconciled generation, and a run that failed *)
(* or died has changed nothing.                                            *)
THEOREM Refinement == Spec => ImplementsAtomicCache
  <1> QED
    BY InitRefines, NextRefines, Invariance, PTL
    DEF Spec, ImplementsAtomicCache, Atomic!Spec

(***************************************************************************)
(* The read tools over the cache: CachedReaders implements CacheReaders.   *)
(***************************************************************************)

(* The two names for the steps of the atomic cache mean the same.          *)
LEMMA SameAtomicCache ==
    /\ Atomic!Init => Readers!Init
    /\ [Atomic!Next]_(Atomic!vars) => [Readers!Next]_(Readers!vars)
  <1>1. Atomic!Init => Readers!Init
    <2>1. \A c, a, t : Atomic!Generation(c, a, t) = Readers!Generation(c, a, t)
      BY DEF Atomic!Generation, Readers!Generation
    <2>2. Atomic!Authority = Readers!Authority
      BY DEF Atomic!Authority, Readers!Authority
    <2>3. {Atomic!Generation(c, a, t) :
             c \in Catalog, a \in Atomic!Authority, t \in Stamp}
          = {Readers!Generation(c, a, t) :
               c \in Catalog, a \in Readers!Authority, t \in Stamp}
      BY <2>1, <2>2
    <2> QED
      BY <2>3 DEF Atomic!Init, Readers!Init, Found
  <1>2. Atomic!vars' = Atomic!vars <=> Readers!vars' = Readers!vars
    BY DEF Atomic!vars, Readers!vars, Found
  <1>3. ASSUME NEW i \in Indexer
        PROVE  /\ Atomic!StartRun(i) => Readers!StartRun(i)
               /\ Atomic!Publish(i) => Readers!Publish(i)
               /\ Atomic!Abandon(i) => Readers!Abandon(i)
    BY DEF Atomic!StartRun, Readers!StartRun, Atomic!Publish,
           Readers!Publish, Atomic!Abandon, Readers!Abandon, Found,
           Atomic!Generation, Readers!Generation
  <1>4. Atomic!Next => Readers!Next
    BY <1>3 DEF Atomic!Next, Readers!Next
  <1> QED
    BY <1>1, <1>2, <1>4

(* Migrating the file by a request breaks nothing of the cache.            *)
LEMMA MigratesIInv ==
    ASSUME IInv, CheckedGate, NEW r \in Reader, Migrates(r)
    PROVE  IInv'
  <1>1. /\ version' = GRAPH_STORE_SCHEMA_VERSION
        /\ UNCHANGED <<db, lock, work, runVars>>
    BY DEF Migrates
  <1>2. UNCHANGED <<db, lock, work, clock, pc, key, captured, payload>>
    BY <1>1 DEF runVars
  <1>3. TypeOK'
    BY <1>1, <1>2 DEF IInv, TypeOK, GRAPH_STORE_SCHEMA_VERSION
  <1>4. OneWriter' /\ VersionGate'
    BY <1>1, <1>2
    DEF IInv, OneWriter, VersionGate, GRAPH_STORE_SCHEMA_VERSION
  <1>5. WorkInProgress'
    BY <1>2 DEF IInv, WorkInProgress, ProjectionMatches
  <1>6. WholeGenerations' /\ CompleteMeansReconciled'
    BY <1>2 DEF IInv, WholeGenerations, WholeAt, CompleteMeansReconciled,
                ReconciledAt
  <1> QED
    BY <1>3, <1>4, <1>5, <1>6 DEF IInv

(* No index run raises the version beyond this release.                    *)
LEMMA NextVersion ==
    ASSUME IInv, [Next]_vars, version <= GRAPH_STORE_SCHEMA_VERSION
    PROVE  version' <= GRAPH_STORE_SCHEMA_VERSION
  <1>1. version' \in {version, GRAPH_STORE_SCHEMA_VERSION}
    BY DEF Next, Progress, StartRun, ReadVersion, Migrate, AnalysisComplete,
           AnalysisFailed, BeginImmediate, DeleteSnapshot, InsertSnapshot,
           InsertNodes, InsertEdges, VerifyProjection, ProjectionMismatch,
           Commit, StorageFails, Crash, storeVars, vars
  <1> QED
    BY <1>1 DEF GRAPH_STORE_SCHEMA_VERSION

(* The first states.                                                       *)
LEMMA InitCached ==
    ASSUME RequestsFit, CachedInit
    PROVE  CachedIInv /\ Readers!ReaderInit
  <1>1. IInv
    BY InitIInv DEF CachedInit
  <1>2. Readers!Init
    BY InitRefines, SameAtomicCache DEF CachedInit
  <1>3. Readers!ReaderInit
    BY <1>2 DEF CachedInit, Readers!ReaderInit
  <1>4. Readers!ReaderIInv
    BY <1>3, Readers!InitReaderIInv DEF RequestsFit
  <1>5. CheckedGate
    BY DEF CachedInit, CheckedGate
  <1> QED
    BY <1>1, <1>3, <1>4, <1>5 DEF CachedIInv, FileIInv

(* Where no index run moves, a request finds what it found.                *)
LEMMA SameStore ==
    ASSUME UNCHANGED <<db, pc>>
    PROVE  /\ UNCHANGED Readers!vars
           /\ UNCHANGED Found
  BY DEF Readers!vars, Found

(* A step of an index run is one of the atomic cache, or changes nothing   *)
(* that a request could see.                                               *)
LEMMA IndexRunsRefines ==
    ASSUME RequestsFit, IInv, Readers!ReaderIInv, IndexRuns
    PROVE  [Readers!ReaderNext]_(Readers!allVars)
  <1>1. [Readers!Next]_(Readers!vars)
    BY NextRefines, SameAtomicCache DEF IndexRuns
  <1>2. /\ UNCHANGED <<stage, req, target, answer>>
        /\ spans' = [r \in Reader |->
                       IF stage[r] \in Readers!Answered \/ target[r] = {}
                       THEN spans[r]
                       ELSE spans[r] \union {Found'[Readers!The(target[r])]}]
    BY DEF IndexRuns
  <1> QED
    BY <1>1, <1>2, Readers!IndexOrStutter DEF RequestsFit

(* A step of a request is one of CacheReaders; the version check changes   *)
(* nothing there.                                                          *)
LEMMA RequestRefines ==
    ASSUME NEW r \in Reader,
           Asks(r) \/ ChecksVersion(r) \/ Migrates(r) \/ FailsToOpen(r)
             \/ Reads(r)
    PROVE  [Readers!ReaderNext]_(Readers!allVars)
  <1>1. CASE Asks(r)
    BY <1>1 DEF Asks, Readers!ReaderNext
  <1>2. CASE ChecksVersion(r)
    BY <1>2, SameStore
    DEF ChecksVersion, vars, readerVars, Readers!vars, Readers!allVars
  <1>3. CASE Migrates(r)
    BY <1>3 DEF Migrates, Readers!ReaderNext, Readers!Read
  <1>4. CASE FailsToOpen(r)
    BY <1>4 DEF FailsToOpen, Readers!ReaderNext, Readers!Read
  <1>5. CASE Reads(r)
    BY <1>5 DEF Reads, Readers!ReaderNext
  <1> QED
    BY <1>1, <1>2, <1>3, <1>4, <1>5

(* Every step over the cache file is one of CacheReaders.                  *)
LEMMA NextCachedRefines ==
    ASSUME RequestsFit, CachedIInv, [CachedNext]_cachedVars
    PROVE  [Readers!ReaderNext]_(Readers!allVars)
  <1>1. CASE IndexRuns
    BY <1>1, IndexRunsRefines DEF CachedIInv, FileIInv
  <1>2. CASE \E r \in Reader :
                Asks(r) \/ ChecksVersion(r) \/ Migrates(r) \/ FailsToOpen(r)
                  \/ Reads(r)
    BY <1>2, RequestRefines
  <1>3. CASE UNCHANGED cachedVars
    BY <1>3, SameStore
    DEF cachedVars, vars, readerVars, Readers!vars, Readers!allVars
  <1> QED
    BY <1>1, <1>2, <1>3 DEF CachedNext

(* Index runs, and requests that open the file, keep the cache whole.      *)
LEMMA NextFileIInv ==
    ASSUME FileIInv, [CachedNext]_cachedVars
    PROVE  FileIInv'
  <1>1. CASE IndexRuns
    <2>1. IInv'
      BY <1>1, NextIInv DEF IndexRuns, FileIInv
    <2>2. CheckedGate'
      BY <1>1, NextVersion DEF IndexRuns, FileIInv, CheckedGate
    <2> QED
      BY <2>1, <2>2 DEF FileIInv
  <1>2. ASSUME NEW r \in Reader, Migrates(r)
        PROVE  FileIInv'
    <2>1. IInv'
      BY <1>2, MigratesIInv DEF FileIInv
    <2>2. CheckedGate'
      BY <1>2 DEF FileIInv, CheckedGate, Migrates, GRAPH_STORE_SCHEMA_VERSION
    <2> QED
      BY <2>1, <2>2 DEF FileIInv
  <1>3. ASSUME UNCHANGED vars, checked' \ checked \subseteq Reader,
               \/ checked' \subseteq checked
               \/ version <= GRAPH_STORE_SCHEMA_VERSION
        PROVE  FileIInv'
    <2>1. IInv'
      BY <1>3, NextIInv DEF FileIInv
    <2>2. CheckedGate'
      BY <1>3 DEF FileIInv, CheckedGate, vars
    <2> QED
      BY <2>1, <2>2 DEF FileIInv
  <1>4. ASSUME NEW r \in Reader,
               Asks(r) \/ ChecksVersion(r) \/ FailsToOpen(r) \/ Reads(r)
        PROVE  FileIInv'
    BY <1>3, <1>4 DEF Asks, ChecksVersion, FailsToOpen, Reads
  <1>5. CASE UNCHANGED cachedVars
    BY <1>3, <1>5 DEF cachedVars
  <1> QED
    BY <1>1, <1>2, <1>4, <1>5 DEF CachedNext

(* The cache file stays whole, however index runs, requests and their      *)
(* migrations of the file interleave.                                      *)
THEOREM FileInvariance == CachedSpec => []FileIInv
  <1>1. CachedInit => FileIInv
    BY InitIInv DEF CachedInit, FileIInv, CheckedGate
  <1>2. FileIInv /\ [CachedNext]_cachedVars => FileIInv'
    BY NextFileIInv
  <1> QED
    BY <1>1, <1>2, PTL DEF CachedSpec

(* What the cache promises, it promises also under requests, though each   *)
(* of them migrates the file: generations are whole and stay, and a file   *)
(* of a newer release is not written.                                      *)
THEOREM RequestsAreHarmless ==
    CachedSpec => /\ []WholeGenerations
                  /\ []CompleteMeansReconciled
                  /\ SnapshotNeverVanishes
                  /\ NewerCacheUntouched
  <1>1. FileIInv => WholeGenerations /\ CompleteMeansReconciled
    BY DEF FileIInv, IInv
  <1>2. FileIInv /\ [CachedNext]_cachedVars =>
            \/ IInv /\ [Next]_vars
            \/ /\ UNCHANGED db
               /\ version <= GRAPH_STORE_SCHEMA_VERSION
    <2> SUFFICES ASSUME FileIInv, [CachedNext]_cachedVars,
                        ~ (IInv /\ [Next]_vars)
                 PROVE  UNCHANGED db /\ version <= GRAPH_STORE_SCHEMA_VERSION
      OBVIOUS
    <2>1. PICK r \in Reader : Migrates(r)
      BY DEF CachedNext, IndexRuns, Asks, ChecksVersion, FailsToOpen, Reads,
             cachedVars, FileIInv
    <2> QED
      BY <2>1 DEF Migrates, FileIInv, CheckedGate
  <1>3. FileIInv => version \in Nat
    BY DEF FileIInv, IInv, TypeOK
  <1>4. FileIInv /\ [CachedNext]_cachedVars =>
          [\A k \in Key : db[k].row # Absent => db'[k].row # Absent]_vars
    BY <1>2, StepKeepsSnapshots
  <1>5. FileIInv /\ [CachedNext]_cachedVars =>
          [version > GRAPH_STORE_SCHEMA_VERSION => UNCHANGED <<version, db>>]_vars
    BY <1>2, <1>3, StepLeavesNewer DEF GRAPH_STORE_SCHEMA_VERSION
  <1> QED
    BY <1>1, <1>4, <1>5, FileInvariance, PTL
    DEF CachedSpec, SnapshotNeverVanishes, NewerCacheUntouched

(* Every request is consistent with the generations its key held.          *)
THEOREM CachedInvariance == RequestsFit => (CachedSpec => []CachedIInv)
  <1> SUFFICES ASSUME RequestsFit
               PROVE  CachedSpec => []CachedIInv
    OBVIOUS
  <1>1. CachedInit => CachedIInv
    BY InitCached
  <1>2. CachedIInv /\ [CachedNext]_cachedVars => CachedIInv'
    BY NextFileIInv, NextCachedRefines, Readers!NextReaderIInv
    DEF CachedIInv, RequestsFit
  <1> QED
    BY <1>1, <1>2, PTL DEF CachedSpec

(* The requests over the cache file, with transactions, crashes, failures  *)
(* and migrations, are the requests over the atomic cache.                 *)
THEOREM CachedRefinement == RequestsFit => (CachedSpec => ImplementsReaders)
  <1> SUFFICES ASSUME RequestsFit
               PROVE  CachedSpec => ImplementsReaders
    OBVIOUS
  <1>1. CachedInit => Readers!ReaderInit
    BY InitCached
  <1>2. CachedIInv /\ [CachedNext]_cachedVars
          => [Readers!ReaderNext]_(Readers!allVars)
    BY NextCachedRefines
  <1>3. CachedSpec => []CachedIInv
    BY CachedInvariance
  <1> QED
    BY <1>1, <1>2, <1>3, PTL
    DEF CachedSpec, ImplementsReaders, Readers!ReaderSpec

(* A request gets from the cache file what it is promised: the snapshot it *)
(* resolved stays, a page or summary that met one generation is that       *)
(* generation's, and a relationship list tells whether it was cut.         *)
THEOREM CachedReadsAreExact ==
    RequestsFit =>
        (CachedSpec => /\ []Readers!ResolvedSnapshotStays
                       /\ []Readers!QuietPageIsExact
                       /\ []Readers!QuietSummaryIsExact
                       /\ []Readers!RelationshipTruncationIsExact)
  <1> SUFFICES ASSUME RequestsFit
               PROVE  CachedSpec => /\ []Readers!ResolvedSnapshotStays
                                    /\ []Readers!QuietPageIsExact
                                    /\ []Readers!QuietSummaryIsExact
                                    /\ []Readers!RelationshipTruncationIsExact
    OBVIOUS
  <1>1. Readers!ReaderAssumption /\ Readers!GenerationAssumption
    BY DEF RequestsFit
  <1>2. CachedSpec => Readers!ReaderSpec
    BY CachedRefinement DEF ImplementsReaders
  <1>3. Readers!ReaderSpec => []Readers!ResolvedSnapshotStays
    BY <1>1, Readers!ResolvedStays, PTL
  <1>4. Readers!ReaderSpec => []Readers!QuietPageIsExact
    BY <1>1, Readers!QuietPages, PTL
  <1>5. Readers!ReaderSpec => []Readers!QuietSummaryIsExact
    BY <1>1, Readers!QuietSummaries, PTL
  <1>6. Readers!ReaderSpec => []Readers!RelationshipTruncationIsExact
    BY <1>1, Readers!TruncationExact, PTL
  <1> QED
    BY <1>2, <1>3, <1>4, <1>5, <1>6, PTL

=============================================================================
