--------------------------- MODULE BoltStoreProofs ---------------------------
(***************************************************************************)
(* Proofs about BoltStore, for every set of keys and values and every      *)
(* bound on the revision.                                                  *)
(*                                                                         *)
(* Neither RevisionDiscipline nor DataMatchesHistory is inductive alone: a *)
(* new mutation is the last of its key only because every committed one is *)
(* at or below the persisted revision, which is at or below the cached     *)
(* one.  HistoryBelowMeta adds that fact.                                  *)
(***************************************************************************)
EXTENDS BoltStore, FiniteSetTheorems, TLAPS

(* Every committed mutation has a revision between 1 and the persisted one. *)
HistoryBelowMeta == \A m \in hist : 1 <= m.Rev /\ m.Rev <= meta

(* The inductive invariant. *)
BoltInv ==
  /\ BoltTypeOK
  /\ HistoryBelowMeta
  /\ RevisionDiscipline
  /\ DataMatchesHistory

(* What Put stores is an entry, with the fields Put computes. *)
LEMMA NewEntryFields ==
  ASSUME NEW prev \in Entry \cup {NoEntry}, NEW k \in Keys, NEW v \in Values,
         NEW r \in Nat
  PROVE  /\ NewEntry(prev, k, v, r) \in Entry
         /\ NewEntry(prev, k, v, r) # NoEntry
         /\ NewEntry(prev, k, v, r).Key = k
         /\ NewEntry(prev, k, v, r).Value = v
         /\ NewEntry(prev, k, v, r).Revision = r
         /\ NewEntry(prev, k, v, r).ModRevision = r
         /\ prev = NoEntry => NewEntry(prev, k, v, r).CreateRevision = r
         /\ prev # NoEntry =>
              NewEntry(prev, k, v, r).CreateRevision = prev.CreateRevision
         /\ prev = NoEntry => NewEntry(prev, k, v, r).Version = 1
         /\ prev # NoEntry => NewEntry(prev, k, v, r).Version = prev.Version + 1
<1>1. NewEntry(prev, k, v, r) \in Entry
  BY NoEntryAssumption DEF NewEntry, Entry
<1>2. QED
  BY <1>1, NoEntryAssumption DEF NewEntry

(* The fields of a recorded mutation. *)
LEMMA MutFields ==
  ASSUME NEW r \in Nat, NEW k \in Keys, NEW t \in {"PUT", "DELETE"}, NEW v \in Values
  PROVE  /\ Mut(r, k, t, v) \in Mutation
         /\ Mut(r, k, t, v).Rev = r
         /\ Mut(r, k, t, v).Key = k
         /\ Mut(r, k, t, v).Type = t
         /\ Mut(r, k, t, v).Value = v
BY DEF Mut, Mutation

(* The initial state satisfies the invariant. *)
LEMMA BoltInvInit == BoltInit => BoltInv
BY DEF BoltInit, BoltInv, BoltTypeOK, HistoryBelowMeta, RevisionDiscipline,
       DataMatchesHistory, Of, IsLast

(* The steps that only move the cached revision, or open and close the file. *)
LEMMA BoltInvMemory ==
  ASSUME BoltInv, UNCHANGED <<data, meta, hist>>,
         rev' \in Nat, meta <= rev', open' \in BOOLEAN
  PROVE  BoltInv'
BY DEF BoltInv, BoltTypeOK, HistoryBelowMeta, RevisionDiscipline,
       DataMatchesHistory, Of, IsLast

(* BoltStore.Put preserves the invariant. *)
LEMMA BoltInvPut ==
  ASSUME BoltInv, NEW k \in Keys, NEW v \in Values, Put(k, v)
  PROVE  BoltInv'
<1> DEFINE e == NewEntry(data[k], k, v, rev + 1)
           mu == Mut(rev + 1, k, "PUT", v)
<1>0. /\ data \in [Keys -> Entry \cup {NoEntry}] /\ meta \in Nat /\ rev \in Nat
      /\ hist \subseteq Mutation /\ open \in BOOLEAN
      /\ data[k] \in Entry \cup {NoEntry} /\ rev + 1 \in Nat
  BY DEF BoltInv, BoltTypeOK
<1>1. /\ e \in Entry /\ e # NoEntry /\ e.Key = k /\ e.Value = v
      /\ e.Revision = rev + 1 /\ e.ModRevision = rev + 1
      /\ data[k] = NoEntry => e.CreateRevision = rev + 1
      /\ data[k] # NoEntry => e.CreateRevision = data[k].CreateRevision
  BY <1>0, NewEntryFields
<1>2. mu \in Mutation /\ mu.Rev = rev + 1 /\ mu.Key = k /\ mu.Type = "PUT"
  BY <1>0, MutFields
<1>3. /\ data' = [data EXCEPT ![k] = e] /\ meta' = rev + 1 /\ rev' = rev + 1
      /\ hist' = hist \cup {mu} /\ open' = open
  BY DEF Put
<1> HIDE DEF e, mu
<1>4. BoltTypeOK'
  BY <1>0, <1>1, <1>2, <1>3 DEF BoltTypeOK
<1>5. meta <= rev /\ HistoryBelowMeta
  BY DEF BoltInv, RevisionDiscipline
<1>6. HistoryBelowMeta'
  BY <1>0, <1>2, <1>3, <1>5 DEF HistoryBelowMeta, Mutation
<1>7. RevisionDiscipline'
  <2>1. \A j \in Keys : data'[j] = IF j = k THEN e ELSE data[j]
    BY <1>0, <1>3
  <2>2. \A j \in Keys : data[j] # NoEntry =>
          /\ data[j] \in Entry /\ data[j].ModRevision <= meta
          /\ data[j].ModRevision \in Nat /\ data[j].CreateRevision \in Nat
    BY <1>0 DEF BoltInv, RevisionDiscipline, Entry
  <2>3. RevisionDiscipline
    BY DEF BoltInv
  <2>4. QED
    BY <1>0, <1>1, <1>3, <1>5, <2>1, <2>2, <2>3 DEF RevisionDiscipline
<1>8. DataMatchesHistory'
  <2>1. \A j \in Keys : j # k => data'[j] = data[j] /\ Of(j)' = Of(j)
    BY <1>0, <1>2, <1>3 DEF Of
  <2>2. data'[k] = e
    BY <1>0, <1>3
  <2>3. Of(k)' = Of(k) \cup {mu}
    BY <1>2, <1>3 DEF Of
  <2>4. IsLast(mu, Of(k)')
    BY <1>0, <1>2, <1>5, <2>3 DEF IsLast, HistoryBelowMeta, Of, Mutation
  <2>5. mu = Mut(e.ModRevision, k, "PUT", e.Value)
    BY <1>1 DEF mu
  <2>6. \A j \in Keys : j # k =>
          IF data'[j] = NoEntry
          THEN \A m \in Of(j)' : IsLast(m, Of(j)') => m.Type = "DELETE"
          ELSE IsLast(Mut(data'[j].ModRevision, j, "PUT", data'[j].Value), Of(j)')
    BY <2>1 DEF BoltInv, DataMatchesHistory
  <2>7. IsLast(Mut(data'[k].ModRevision, k, "PUT", data'[k].Value), Of(k)')
    BY <2>2, <2>4, <2>5
  <2>8. QED
    BY <1>1, <2>2, <2>6, <2>7 DEF DataMatchesHistory
<1>9. QED
  BY <1>4, <1>6, <1>7, <1>8 DEF BoltInv

(* BoltStore.Delete preserves the invariant. *)
LEMMA BoltInvDelete ==
  ASSUME BoltInv, NEW k \in Keys, Delete(k)
  PROVE  BoltInv'
<1> DEFINE mu == Mut(rev + 1, k, "DELETE", data[k].Value)
<1>0. /\ data \in [Keys -> Entry \cup {NoEntry}] /\ meta \in Nat /\ rev \in Nat
      /\ hist \subseteq Mutation /\ open \in BOOLEAN /\ rev + 1 \in Nat
  BY DEF BoltInv, BoltTypeOK
<1>1. data[k] \in Entry /\ data[k].Value \in Values
  BY <1>0 DEF Delete, Entry
<1>2. mu \in Mutation /\ mu.Rev = rev + 1 /\ mu.Key = k /\ mu.Type = "DELETE"
  BY <1>0, <1>1, MutFields
<1>3. /\ data' = [data EXCEPT ![k] = NoEntry] /\ meta' = rev + 1 /\ rev' = rev + 1
      /\ hist' = hist \cup {mu} /\ open' = open
  BY DEF Delete
<1> HIDE DEF mu
<1>4. BoltTypeOK'
  BY <1>0, <1>2, <1>3 DEF BoltTypeOK
<1>5. meta <= rev /\ HistoryBelowMeta /\ RevisionDiscipline
  BY DEF BoltInv, RevisionDiscipline
<1>6. HistoryBelowMeta'
  BY <1>0, <1>2, <1>3, <1>5 DEF HistoryBelowMeta, Mutation
<1>7. RevisionDiscipline'
  <2>1. \A j \in Keys : data'[j] = IF j = k THEN NoEntry ELSE data[j]
    BY <1>0, <1>3
  <2>2. \A j \in Keys : data[j] # NoEntry =>
          data[j].ModRevision <= meta /\ data[j].ModRevision \in Nat
    BY <1>0, <1>5 DEF RevisionDiscipline, Entry
  <2>3. QED
    BY <1>0, <1>3, <1>5, <2>1, <2>2 DEF RevisionDiscipline
<1>8. DataMatchesHistory'
  <2>1. \A j \in Keys : j # k => data'[j] = data[j] /\ Of(j)' = Of(j)
    BY <1>0, <1>2, <1>3 DEF Of
  <2>2. data'[k] = NoEntry
    BY <1>0, <1>3
  <2>3. Of(k)' = Of(k) \cup {mu}
    BY <1>2, <1>3 DEF Of
  <2>4. \A m \in Of(k)' : IsLast(m, Of(k)') => m.Type = "DELETE"
    <3> SUFFICES ASSUME NEW m \in Of(k)', IsLast(m, Of(k)'), m # mu
                 PROVE  FALSE
      BY <1>2
    <3>1. m \in hist /\ m.Rev \in Nat /\ m.Rev <= meta
      BY <1>0, <1>5, <2>3 DEF Of, HistoryBelowMeta, Mutation
    <3>2. mu.Rev <= m.Rev
      BY <2>3 DEF IsLast
    <3>3. QED
      BY <1>0, <1>2, <1>5, <3>1, <3>2
  <2>5. QED
    BY <2>1, <2>2, <2>4 DEF BoltInv, DataMatchesHistory
<1>9. QED
  BY <1>4, <1>6, <1>7, <1>8 DEF BoltInv

(* Every step of the store preserves the invariant. *)
LEMMA BoltInvNext == BoltInv /\ [BoltNext]_boltVars => BoltInv'
<1> SUFFICES ASSUME BoltInv, [BoltNext]_boltVars PROVE BoltInv'
  OBVIOUS
<1>0. meta \in Nat /\ rev \in Nat /\ meta <= rev /\ open \in BOOLEAN
  BY DEF BoltInv, BoltTypeOK, RevisionDiscipline
<1>1. ASSUME NEW k \in Keys, NEW v \in Values, Put(k, v) PROVE BoltInv'
  BY <1>1, BoltInvPut
<1>2. ASSUME NEW k \in Keys, NEW v \in Values, PutCommitFails(k, v) PROVE BoltInv'
  BY <1>0, <1>2, BoltInvMemory DEF PutCommitFails
<1>3. ASSUME NEW k \in Keys, Delete(k) PROVE BoltInv'
  BY <1>3, BoltInvDelete
<1>4. ASSUME NEW k \in Keys, DeleteCommitFails(k) PROVE BoltInv'
  BY <1>0, <1>4, BoltInvMemory DEF DeleteCommitFails
<1>5. CASE Close
  BY <1>0, <1>5, BoltInvMemory DEF Close
<1>6. CASE NewBoltStore
  BY <1>0, <1>6, BoltInvMemory DEF NewBoltStore
<1>7. CASE UNCHANGED boltVars
  BY <1>0, <1>7, BoltInvMemory DEF boltVars
<1>8. QED
  BY <1>1, <1>2, <1>3, <1>4, <1>5, <1>6, <1>7 DEF BoltNext

(* The inductive invariant holds in every reachable state of the store,      *)
(* across failed commits and restarts.                                       *)
THEOREM BoltInvariance == BoltSpec => []BoltInv
BY BoltInvInit, BoltInvNext, PTL DEF BoltSpec

(* Type correctness of the store. *)
THEOREM BoltTypeCorrect == BoltSpec => []BoltTypeOK
<1>1. BoltInv => BoltTypeOK
  BY DEF BoltInv
<1>2. QED
  BY <1>1, BoltInvariance, PTL

(* Put, Delete, failed commits and restarts keep the revisions of the       *)
(* entries, of the file and of the memory in order.                         *)
THEOREM RevisionDisciplineHolds == BoltSpec => []RevisionDiscipline
<1>1. BoltInv => RevisionDiscipline
  BY DEF BoltInv
<1>2. QED
  BY <1>1, BoltInvariance, PTL

(* The bucket always holds what the committed mutations say. *)
THEOREM DataMatchesHistoryHolds == BoltSpec => []DataMatchesHistory
<1>1. BoltInv => DataMatchesHistory
  BY DEF BoltInv
<1>2. QED
  BY <1>1, BoltInvariance, PTL

(* No revision is ever committed twice, and none is forgotten: a failed      *)
(* commit or a restart may move the cached revision, but never back to one   *)
(* that a committed mutation has.                                            *)
THEOREM CommittedRevisionsGrowHolds == BoltSpec => CommittedRevisionsGrow
<1> DEFINE Grow == /\ hist \subseteq hist'
                   /\ \A m \in hist' \ hist : \A n \in hist : m.Rev > n.Rev
<1>1. ASSUME BoltInv, [BoltNext]_boltVars PROVE [Grow]_boltVars
  <2>0. /\ data \in [Keys -> Entry \cup {NoEntry}] /\ meta \in Nat /\ rev \in Nat
        /\ meta <= rev /\ \A n \in hist : n.Rev \in Nat /\ n.Rev <= meta
    BY <1>1 DEF BoltInv, BoltTypeOK, RevisionDiscipline, HistoryBelowMeta, Mutation
  <2>1. ASSUME NEW k \in Keys, NEW v \in Values, Put(k, v) PROVE Grow
    BY <2>0, <2>1, MutFields DEF Put
  <2>2. ASSUME NEW k \in Keys, Delete(k) PROVE Grow
    <3>1. data[k].Value \in Values
      BY <2>0, <2>2 DEF Delete, Entry
    <3>2. QED
      BY <2>0, <2>2, <3>1, MutFields DEF Delete
  <2>3. ASSUME hist' = hist PROVE Grow
    BY <2>3
  <2>4. QED
    BY <1>1, <2>1, <2>2, <2>3
       DEF BoltNext, boltVars, PutCommitFails, DeleteCommitFails, Close, NewBoltStore
<1>2. QED
  BY <1>1, BoltInvariance, PTL DEF BoltSpec, CommittedRevisionsGrow

-----------------------------------------------------------------------------
(* Version counts the mutations of the current life, so the proof needs the *)
(* history to be finite.                                                    *)
LifeInv == BoltInv /\ LifeOfKey /\ IsFiniteSet(hist)

(* BoltStore.Put starts a life or adds one put to the key's current one. *)
LEMMA LifeInvPut ==
  ASSUME LifeInv, NEW k \in Keys, NEW v \in Values, Put(k, v)
  PROVE  LifeOfKey' /\ IsFiniteSet(hist')
<1> DEFINE e == NewEntry(data[k], k, v, rev + 1)
           mu == Mut(rev + 1, k, "PUT", v)
<1>0. /\ data \in [Keys -> Entry \cup {NoEntry}] /\ meta \in Nat /\ rev \in Nat
      /\ hist \subseteq Mutation /\ IsFiniteSet(hist)
      /\ data[k] \in Entry \cup {NoEntry} /\ rev + 1 \in Nat /\ meta <= rev
      /\ \A m \in hist : m.Rev \in Nat /\ m.Rev <= meta
  BY DEF LifeInv, BoltInv, BoltTypeOK, RevisionDiscipline, HistoryBelowMeta, Mutation
<1>1. /\ e # NoEntry
      /\ data[k] = NoEntry => e.CreateRevision = rev + 1 /\ e.Version = 1
      /\ data[k] # NoEntry => /\ e.CreateRevision = data[k].CreateRevision
                              /\ e.Version = data[k].Version + 1
  BY <1>0, NewEntryFields
<1>2. mu.Rev = rev + 1 /\ mu.Key = k /\ mu.Type = "PUT" /\ mu \notin hist
  BY <1>0, MutFields
<1>3. data' = [data EXCEPT ![k] = e] /\ hist' = hist \cup {mu}
  BY DEF Put
<1> HIDE DEF e, mu
<1>4. IsFiniteSet(hist')
  BY <1>0, <1>3, FS_AddElement
<1>5. \A j \in Keys : j # k => data'[j] = data[j] /\ Of(j)' = Of(j)
  BY <1>0, <1>2, <1>3 DEF Of
<1>6. data'[k] = e /\ Of(k)' = Of(k) \cup {mu} /\ mu \notin Of(k)
  BY <1>0, <1>2, <1>3 DEF Of
<1>7. ASSUME NEW j \in Keys, j # k, data'[j] # NoEntry
      PROVE  /\ \A m \in Life(j)' : m.Type = "PUT"
             /\ \E m \in Life(j)' : m.Rev = data'[j].CreateRevision
             /\ \A m \in Of(j)' \ Life(j)' :
                  IsLast(m, Of(j)' \ Life(j)') => m.Type = "DELETE"
             /\ Cardinality(Life(j)') = data'[j].Version
  <2>1. Life(j)' = Life(j)
    BY <1>5, <1>7 DEF Life
  <2>2. QED
    BY <1>5, <1>7, <2>1 DEF LifeInv, LifeOfKey
<1>8. /\ \A m \in Life(k)' : m.Type = "PUT"
      /\ \E m \in Life(k)' : m.Rev = data'[k].CreateRevision
      /\ \A m \in Of(k)' \ Life(k)' :
           IsLast(m, Of(k)' \ Life(k)') => m.Type = "DELETE"
      /\ Cardinality(Life(k)') = data'[k].Version
  <2>1. CASE data[k] = NoEntry
    <3>1. Life(k)' = {mu}
      BY <1>0, <1>1, <1>2, <1>6, <2>1 DEF Life, Of
    <3>2. Of(k)' \ Life(k)' = Of(k)
      BY <1>6, <3>1
    <3>3. \A m \in Of(k) : IsLast(m, Of(k)) => m.Type = "DELETE"
      BY <2>1 DEF LifeInv, BoltInv, DataMatchesHistory
    <3>4. Cardinality({mu}) = 1
      BY FS_Singleton
    <3>5. QED
      BY <1>1, <1>2, <1>6, <2>1, <3>1, <3>2, <3>3, <3>4
  <2>2. CASE data[k] # NoEntry
    <3>0. data[k].CreateRevision \in Nat /\ data[k].CreateRevision <= rev
      BY <1>0, <2>2 DEF LifeInv, BoltInv, RevisionDiscipline, Entry
    <3>1. Life(k)' = Life(k) \cup {mu} /\ mu \notin Life(k)
      BY <1>0, <1>1, <1>2, <1>6, <2>2, <3>0 DEF Life
    <3>2. Of(k)' \ Life(k)' = Of(k) \ Life(k)
      BY <1>6, <3>1
    <3>3. /\ \A m \in Life(k) : m.Type = "PUT"
          /\ \E m \in Life(k) : m.Rev = data[k].CreateRevision
          /\ \A m \in Of(k) \ Life(k) :
               IsLast(m, Of(k) \ Life(k)) => m.Type = "DELETE"
          /\ Cardinality(Life(k)) = data[k].Version
      BY <2>2 DEF LifeInv, LifeOfKey
    <3>4. IsFiniteSet(Life(k))
      BY <1>0, FS_Subset DEF Life, Of
    <3>5. Cardinality(Life(k)') = Cardinality(Life(k)) + 1
      BY <3>1, <3>4, FS_AddElement
    <3>6. QED
      BY <1>1, <1>2, <1>6, <2>2, <3>1, <3>2, <3>3, <3>5
  <2>3. QED
    BY <2>1, <2>2
<1>9. LifeOfKey'
  BY <1>7, <1>8 DEF LifeOfKey
<1>10. QED
  BY <1>4, <1>9

(* BoltStore.Delete ends the life of its key and of no other. *)
LEMMA LifeInvDelete ==
  ASSUME LifeInv, NEW k \in Keys, Delete(k)
  PROVE  LifeOfKey' /\ IsFiniteSet(hist')
<1> DEFINE mu == Mut(rev + 1, k, "DELETE", data[k].Value)
<1>0. /\ data \in [Keys -> Entry \cup {NoEntry}] /\ rev + 1 \in Nat
      /\ IsFiniteSet(hist) /\ data[k].Value \in Values
  BY DEF LifeInv, BoltInv, BoltTypeOK, Delete, Entry
<1>1. mu.Key = k /\ hist' = hist \cup {mu} /\ data' = [data EXCEPT ![k] = NoEntry]
  BY <1>0, MutFields DEF Delete
<1> HIDE DEF mu
<1>2. IsFiniteSet(hist')
  BY <1>0, <1>1, FS_AddElement
<1>3. \A j \in Keys : data'[j] # NoEntry =>
        j # k /\ data'[j] = data[j] /\ Of(j)' = Of(j) /\ Life(j)' = Life(j)
  BY <1>0, <1>1 DEF Of, Life
<1>4. LifeOfKey'
  BY <1>3 DEF LifeInv, LifeOfKey
<1>5. QED
  BY <1>2, <1>4

(* CreateRevision is the revision of the put that started the key's current  *)
(* life, and Version the number of puts since, whatever failed in between.   *)
THEOREM LifeOfKeyHolds == BoltSpec => []LifeOfKey
<1>1. BoltInit => LifeInv
  <2>1. BoltInit => LifeOfKey /\ IsFiniteSet(hist)
    BY FS_EmptySet DEF BoltInit, LifeOfKey
  <2>2. QED
    BY <2>1, BoltInvInit DEF LifeInv
<1>2. LifeInv /\ [BoltNext]_boltVars => LifeInv'
  <2> SUFFICES ASSUME LifeInv, [BoltNext]_boltVars PROVE LifeInv'
    OBVIOUS
  <2>1. BoltInv'
    BY BoltInvNext DEF LifeInv
  <2>2. ASSUME NEW k \in Keys, NEW v \in Values, Put(k, v)
        PROVE  LifeOfKey' /\ IsFiniteSet(hist')
    BY <2>2, LifeInvPut
  <2>3. ASSUME NEW k \in Keys, Delete(k)
        PROVE  LifeOfKey' /\ IsFiniteSet(hist')
    BY <2>3, LifeInvDelete
  <2>4. ASSUME UNCHANGED <<data, hist>>
        PROVE  LifeOfKey' /\ IsFiniteSet(hist')
    BY <2>4 DEF LifeInv, LifeOfKey, Life, Of, IsLast
  <2>5. LifeOfKey' /\ IsFiniteSet(hist')
    BY <2>2, <2>3, <2>4
       DEF BoltNext, boltVars, PutCommitFails, DeleteCommitFails, Close, NewBoltStore
  <2>6. QED
    BY <2>1, <2>5 DEF LifeInv
<1>3. LifeInv => LifeOfKey
  BY DEF LifeInv
<1>4. QED
  BY <1>1, <1>2, <1>3, PTL DEF BoltSpec
=============================================================================
