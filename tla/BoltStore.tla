------------------------------ MODULE BoltStore ------------------------------
(***************************************************************************)
(* store/bolt.go: the single-node key-value store with a global revision,  *)
(* on top of a bbolt file.                                                 *)
(*                                                                         *)
(* Every operation runs under s.mu, so it is one step.  A write runs a     *)
(* bbolt transaction: the closure updates the buckets and then assigns     *)
(* s.rev, and the transaction commits after the closure has returned.  If  *)
(* that commit fails (disk full, I/O error) bbolt rolls the buckets back   *)
(* and Update returns the error, but s.rev stays assigned.  The process    *)
(* may stop at any moment; only data and meta survive.                     *)
(***************************************************************************)
EXTENDS StoreOps, FiniteSets

CONSTANT MaxRev    \* bound: the largest revision a behaviour reaches

ASSUME MaxRevAssumption == MaxRev \in Nat

VARIABLES data,   \* bucketData on disk: key -> entry
          meta,   \* bucketMeta/current_revision on disk
          rev,    \* s.rev, the revision cached in memory
          open,   \* the process runs and the file is open
          hist    \* history variable: the set of committed mutations

boltVars == <<data, meta, rev, open, hist>>

(* A committed mutation, as the history records it.  A delete has no value *)
(* of its own; the record keeps the value it removed.                      *)
Mutation == [Rev : Nat, Key : Keys, Type : {"PUT", "DELETE"}, Value : Values]

Mut(r, k, type, v) == [Rev |-> r, Key |-> k, Type |-> type, Value |-> v]

BoltInit ==
  /\ data = [k \in Keys |-> NoEntry]
  /\ meta = 0
  /\ rev = 0
  /\ open = TRUE
  /\ hist = {}

(* Mutant of Put: the new revision is not written to bucketMeta. *)
PutForgetsMeta(k, v) ==
  /\ open /\ rev < MaxRev
  /\ data' = [data EXCEPT ![k] = NewEntry(data[k], k, v, rev + 1)]
  /\ rev' = rev + 1
  /\ hist' = hist \cup {Mut(rev + 1, k, "PUT", v)}
  /\ UNCHANGED <<meta, open>>

(* BoltStore.Put, committed. *)
Put(k, v) ==
  /\ open /\ rev < MaxRev
  /\ data' = [data EXCEPT ![k] = NewEntry(data[k], k, v, rev + 1)]
  /\ meta' = rev + 1
  /\ rev' = rev + 1
  /\ hist' = hist \cup {Mut(rev + 1, k, "PUT", v)}
  /\ UNCHANGED open

(* BoltStore.Put whose commit fails: the buckets are rolled back, s.rev is *)
(* not.                                                                    *)
PutCommitFails(k, v) ==
  /\ open /\ rev < MaxRev
  /\ rev' = rev + 1
  /\ UNCHANGED <<data, meta, open, hist>>

(* Mutant of Delete: the bucket entry is left in place. *)
DeleteKeepsEntry(k) ==
  /\ open /\ rev < MaxRev
  /\ data[k] # NoEntry
  /\ meta' = rev + 1
  /\ rev' = rev + 1
  /\ hist' = hist \cup {Mut(rev + 1, k, "DELETE", data[k].Value)}
  /\ UNCHANGED <<data, open>>

(* Mutant of Delete: it bumps the cached revision only. *)
DeleteForgetsMeta(k) ==
  /\ open /\ rev < MaxRev
  /\ data[k] # NoEntry
  /\ data' = [data EXCEPT ![k] = NoEntry]
  /\ rev' = rev + 1
  /\ hist' = hist \cup {Mut(rev + 1, k, "DELETE", data[k].Value)}
  /\ UNCHANGED <<meta, open>>

(* BoltStore.Delete, committed.  A missing key is ErrKeyNotFound, which     *)
(* changes nothing.                                                         *)
Delete(k) ==
  /\ open /\ rev < MaxRev
  /\ data[k] # NoEntry
  /\ data' = [data EXCEPT ![k] = NoEntry]
  /\ meta' = rev + 1
  /\ rev' = rev + 1
  /\ hist' = hist \cup {Mut(rev + 1, k, "DELETE", data[k].Value)}
  /\ UNCHANGED open

(* BoltStore.Delete whose commit fails. *)
DeleteCommitFails(k) ==
  /\ open /\ rev < MaxRev
  /\ data[k] # NoEntry
  /\ rev' = rev + 1
  /\ UNCHANGED <<data, meta, open, hist>>

(* BoltStore.Close, or the process stops: the memory is gone. *)
Close ==
  /\ open
  /\ open' = FALSE
  /\ UNCHANGED <<data, meta, rev, hist>>

(* Mutant of NewBoltStore: the file is taken to hold the next revision. *)
NewBoltStoreOffByOne ==
  /\ ~open
  /\ rev' = meta - 1
  /\ open' = TRUE
  /\ UNCHANGED <<data, meta, hist>>

(* NewBoltStore on the same file: the revision is loaded from disk. *)
NewBoltStore ==
  /\ ~open
  /\ rev' = meta
  /\ open' = TRUE
  /\ UNCHANGED <<data, meta, hist>>

BoltNext ==
  \/ \E k \in Keys, v \in Values : Put(k, v) \/ PutCommitFails(k, v)
  \/ \E k \in Keys : Delete(k) \/ DeleteCommitFails(k)
  \/ Close
  \/ NewBoltStore

BoltSpec == BoltInit /\ [][BoltNext]_boltVars

-----------------------------------------------------------------------------
(* Type invariant: the shapes of the buckets, of the cached revision and   *)
(* of the history.                                                         *)
BoltTypeOK ==
  /\ data \in [Keys -> Entry \cup {NoEntry}]
  /\ meta \in Nat
  /\ rev \in Nat
  /\ open \in BOOLEAN
  /\ hist \subseteq Mutation

(* The committed mutations of key k. *)
Of(k) == {m \in hist : m.Key = k}

(* m is the latest of the mutations S. *)
IsLast(m, S) == m \in S /\ \A n \in S : n.Rev <= m.Rev

(* The revision bookkeeping of Put and Delete across failed commits and     *)
(* restarts: the persisted revision never exceeds the cached one, every     *)
(* entry carries the revision of its last write, no entry is newer than     *)
(* the persisted revision, and no two keys share a revision.               *)
RevisionDiscipline ==
  /\ meta <= rev
  /\ \A k \in Keys : data[k] # NoEntry =>
       /\ data[k].Key = k
       /\ 1 <= data[k].CreateRevision
       /\ data[k].CreateRevision <= data[k].ModRevision
       /\ data[k].Revision = data[k].ModRevision
       /\ data[k].ModRevision <= meta
  /\ \A j, k \in Keys :
       (data[j] # NoEntry /\ data[k] # NoEntry /\ j # k)
          => data[j].ModRevision # data[k].ModRevision

(* The bucket is what the committed mutations say, whatever commits failed *)
(* and however often the process restarted: a key is present exactly when  *)
(* its last committed mutation is a put, with that put's value and         *)
(* revision.                                                               *)
DataMatchesHistory ==
  \A k \in Keys :
    IF data[k] = NoEntry
    THEN \A m \in Of(k) : IsLast(m, Of(k)) => m.Type = "DELETE"
    ELSE IsLast(Mut(data[k].ModRevision, k, "PUT", data[k].Value), Of(k))

(* CreateRevision and Version describe the current life of the key: the     *)
(* mutations of k from CreateRevision on are all puts, the first of them is *)
(* at CreateRevision, the mutation before it (if any) is a delete, and      *)
(* Version counts them.                                                     *)
Life(k) == {m \in Of(k) : m.Rev >= data[k].CreateRevision}

LifeOfKey ==
  \A k \in Keys : data[k] # NoEntry =>
    /\ \A m \in Life(k) : m.Type = "PUT"
    /\ \E m \in Life(k) : m.Rev = data[k].CreateRevision
    /\ \A m \in Of(k) \ Life(k) :
         IsLast(m, Of(k) \ Life(k)) => m.Type = "DELETE"
    /\ Cardinality(Life(k)) = data[k].Version

(* A committed mutation takes a revision above every revision committed     *)
(* before it, and none is ever forgotten: a revision is never reused, even  *)
(* after a failed commit or a restart.                                      *)
CommittedRevisionsGrow ==
  [][/\ hist \subseteq hist'
     /\ \A m \in hist' \ hist : \A n \in hist : m.Rev > n.Rev]_boltVars
=============================================================================
